--------------------------- MODULE TensorParallel ---------------------------
(***************************************************************************)
(* Tensor parallelism, of crates/server/src/tp.rs: rank 0 runs the         *)
(* scheduler and tells the other ranks what it decided in two broadcasts a *)
(* step, who was admitted and what to run, and then who retired. A         *)
(* follower keeps a pool and the prompts it was told, and does as it is    *)
(* told; what it computes takes part in the collectives of every forward   *)
(* pass, so rank 0 stops where a follower does. Followers are alike: one   *)
(* stands for all.                                                         *)
(*                                                                         *)
(* Not everything rank 0 does is broadcast. `slips` remembers what it did  *)
(* to its rows that no broadcast says.                                     *)
(***************************************************************************)
EXTENDS Engine

VARIABLES
  tp,        \* tp_active
  known,     \* step's before_ids
  follower,  \* run_follower: its pool, its prompts, and the broadcast it waits for
  slips      \* what no broadcast said, so far

tpvars == << evars, tp, known, follower, slips >>

TPInit ==
  /\ EngineInit
  /\ tp \in BOOLEAN
  /\ known = {}
  /\ follower = [ pool |-> pool, prompts |-> [id \in SeqIds |-> << >>], at |-> "plan" ]
  /\ slips = {}

Alone == UNCHANGED << tp, known, follower, slips >>
Slipped(what) == slips' = IF tp THEN slips \cup {what} ELSE slips
Stuck == tp /\ follower.at = "dead"

-----------------------------------------------------------------------------
(* run_follower. A sequence it is told of has to come out of its own pool   *)
(* under the number rank 0 gave it...                                       *)
Admitted(f, new) ==
  IF f.at = "dead" \/ ~CanAlloc(f.pool, new.seq) THEN [ f EXCEPT !.at = "dead" ]
  ELSE [ f EXCEPT !.pool = Alloc(@, new.seq),
                  !.prompts = [ @ EXCEPT ![new.seq] = new.prompt ] ]
(* ... and a planned item has to have a prompt and room. *)
Ran(f, item) ==
  LET seq == running[item.idx].seq
  IN  IF \/ f.at = "dead"
         \/ item.kind = "prefill" /\ f.prompts[seq] = << >>
         \/ ~CanExtend(f.pool, seq, item.len)
      THEN [ f EXCEPT !.at = "dead" ]
      ELSE [ f EXCEPT !.pool = Extend(@, seq, item.len) ]
Freed(f, seq) == [ f EXCEPT !.pool = Free(@, seq), !.prompts = [ @ EXCEPT ![seq] = << >> ] ]

(* Mutant of IsNew: every row that runs. *)
AnyRow(r) == TRUE
(* Rank 0's `admitted`: the rows that were not there before the step. *)
IsNew(r) == r.seq \notin known

(* The loops over the three lists it is told, in order. (Those that retire  *)
(* come in the plan's order; in which order they are freed only decides     *)
(* which free slot is on top.)                                              *)
AfterNews(f) ==
  LET g[i \in 0 .. Len(running)] ==
        IF i = 0 THEN f
        ELSE IF IsNew(running[i]) THEN Admitted(g[i - 1], running[i]) ELSE g[i - 1]
  IN  g[Len(running)]
AfterItems(f, items) ==
  LET g[k \in 0 .. Len(items)] == IF k = 0 THEN f ELSE Ran(g[k - 1], items[k])
  IN  g[Len(items)]
AfterRetired(f) ==
  LET g[i \in 0 .. Len(running)] ==
        IF i = 0 THEN f
        ELSE IF i \in finished THEN Freed(g[i - 1], running[i].seq) ELSE g[i - 1]
  IN  g[Len(running)]

FollowsPlan(f, items) ==
  LET told == AfterItems(AfterNews(f), items)
  IN  IF told.at = "dead" THEN told ELSE [ told EXCEPT !.at = "retired" ]
FollowsRetired(f) == [ AfterRetired(f) EXCEPT !.at = "plan" ]

-----------------------------------------------------------------------------
TPReceive ==
  /\ EngineReceive
  /\ known' = IF tp THEN { running[i].seq : i \in 1 .. Len(running) } ELSE {}
  /\ UNCHANGED << tp, follower, slips >>

(* A hit in rank 0's prefix cache is not computed, and the followers are    *)
(* only told what is.                                                       *)
TPStart(seq) ==
  /\ Start(seq) /\ StepCounted
  /\ IF SeqLen(pool', seq) > 0 THEN Slipped("attached") ELSE UNCHANGED slips
  /\ UNCHANGED << tp, known, follower >>

TPDrop ==
  /\ DropOrPass /\ StepCounted
  /\ IF Len(running') < Len(running) THEN Slipped("dropped") ELSE UNCHANGED slips
  /\ UNCHANGED << tp, known, follower >>

(* Pictures "are refused rather than silently mishandled", once admitted. *)
Unsupported(i) == tp /\ running[i].seq \notin known /\ HadVision(running[i].prompt)
RefusePicture ==
  /\ phase = "drop" /\ at > Len(running)
  /\ \E i \in 1 .. Len(running) :
       /\ Unsupported(i) /\ \A j \in 1 .. i - 1 : ~Unsupported(j)
       /\ Retire(running[i].seq)
       /\ running' = SwapRemove(running, i)
       /\ Answer(running[i].req, "failed")
       /\ at' = Len(running)
  /\ UNCHANGED << waiting, phase, cand, committed, freed, plan, finished, faults, gauges >>
  /\ ClientsIdle
  /\ Slipped("refused")
  /\ UNCHANGED << tp, known, follower >>

(* The first broadcast. An empty step broadcasts two empty ones, and a step *)
(* in which nobody can make progress does too, and then fails its rows.     *)
TPPlan ==
  /\ MakePlan /\ StepCounted
  /\ \A i \in 1 .. Len(running) : ~Unsupported(i)
  /\ IF tp
     THEN /\ follower.at = "plan"
          /\ follower' = IF phase' = "forward" THEN FollowsPlan(follower, plan') ELSE follower
     ELSE UNCHANGED follower
  /\ IF phase' = "fail" THEN Slipped("failed") ELSE UNCHANGED slips
  /\ UNCHANGED << tp, known >>

(* A follower that waits for who retired gets the plan of another step, and *)
(* gives up on it.                                                          *)
OutOfStep ==
  /\ tp /\ phase = "drop" /\ at > Len(running)
  /\ follower.at = "retired"
  /\ follower' = [ follower EXCEPT !.at = "dead" ]
  /\ UNCHANGED << evars, tp, known, slips >>

(* The collectives of the pass need every rank. *)
TPForwardItem == ForwardItem /\ ~Stuck /\ StepCounted /\ Alone
TPForwardDone == ForwardDone /\ ~Stuck /\ StepCounted /\ Alone
TPForwardFails ==
  /\ ForwardFails /\ ~Stuck /\ StepCounted
  /\ Slipped("failed")
  /\ UNCHANGED << tp, known, follower >>

(* The second broadcast, before the rows are retired. *)
TPAdvanceDone ==
  /\ AdvanceDone /\ StepCounted
  /\ follower' = IF tp THEN FollowsRetired(follower) ELSE follower
  /\ UNCHANGED << tp, known, slips >>

TPWorker ==
  \/ TPReceive
  \/ (AdmitNoMore \/ TakeNext \/ EncodeFails) /\ StepCounted /\ Alone
  \/ (EvictTurn \/ EvictDone \/ Reject \/ Requeue) /\ StepCounted /\ Alone
  \/ \E seq \in SeqIds : TPStart(seq)
  \/ TPDrop \/ RefusePicture \/ TPPlan \/ OutOfStep
  \/ TPForwardItem \/ TPForwardFails \/ TPForwardDone
  \/ (AdvancePrompt \/ AdvanceEog) /\ StepCounted /\ Alone
  \/ \E token \in Tokens :
       (AdvanceHungUp(token) \/ AdvanceStop(token) \/ AdvanceToken(token)) /\ StepCounted /\ Alone
  \/ TPAdvanceDone
  \/ (RetireLast \/ StepDone) /\ StepCounted /\ Alone
  \/ EngineFails /\ Alone

TPNext == (EngineClients /\ Alone) \/ TPWorker
TPSpec == TPInit /\ [][TPNext]_tpvars /\ WF_tpvars(TPWorker)

-----------------------------------------------------------------------------
(* tp.rs: each step is "kept in lockstep with rank 0's own". Between steps a *)
(* follower waits for the plan, and has the rows rank 0 has, as long, with   *)
(* the same prompts, unless something happened that no broadcast says; and   *)
(* without such a slip it never gives up.                                    *)
Lockstep ==
  tp /\ slips = {} =>
    /\ follower.at # "dead"
    /\ phase = "recv" =>
         /\ follower.at = "plan"
         /\ follower.pool.live = pool.live
         /\ \A i \in 1 .. Len(running) :
              /\ SeqLen(follower.pool, running[i].seq) = SeqLen(pool, running[i].seq)
              /\ follower.prompts[running[i].seq] = running[i].prompt

(* engine.rs, submit: "The returned receiver yields events until Done or     *)
(* Failed". Every request is answered in the end, unless its client left,    *)
(* whatever is admitted beside it, evicted for it, or fails; or unless a     *)
(* follower has given up, and rank 0 waits for it in a collective.           *)
EveryRequestAnswered ==
  \A r \in Requests : r <= sent ~> answer[r] # "none" \/ r \in gone \/ Stuck

(* Every row a request takes is given back, also when its client has left.   *)
RowsComeBack == \A id \in SeqIds : id \in pool.live ~> id \notin pool.live \/ Stuck

=============================================================================

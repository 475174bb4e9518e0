----------------------------- MODULE Scheduler -----------------------------
(***************************************************************************)
(* The worker thread of crates/server/src/engine.rs and the scheduler it   *)
(* drives, crates/server/src/scheduler.rs, without speculation (spec_k 0). *)
(* Engine adds the gauges, TensorParallel the ranks that follow.           *)
(*                                                                         *)
(* One thread owns everything but the job channel and the clients' ends of *)
(* the event channels, so the only things that happen between two of its   *)
(* statements are a client submitting a request and a client going away.   *)
(* The thread's turn is cut where that can matter, at `phase`:             *)
(*                                                                         *)
(*   recv -> admit (-> evict -> decide)* -> drop -> plan -> forward*       *)
(*        -> advance* -> retire* -> recv,      and fail when a step fails  *)
(*                                                                         *)
(* Every change to the pool, the cache and the rows is an action of        *)
(* PrefixPool, which this module implements (property Spec).               *)
(***************************************************************************)
EXTENDS PrefixPool, FiniteSetsExt

CONSTANTS
  NumRequests,    \* bound: requests over a behaviour
  Asks,           \* what a request may ask: [prompt, max_tokens]
  BatchTokens,    \* batch_tokens: rows one forward pass carries
  MaxFaults       \* bound: device errors over a behaviour

Requests == 1 .. NumRequests

ASSUME SchedulerSizes ==
  /\ NumRequests \in Nat \ {0}
  /\ Asks \subseteq [prompt : Prompts, max_tokens : Nat]
  /\ \A a \in Asks : Len(a.prompt) >= 1 /\ Ids(a.prompt) \in Prompts
  /\ BatchTokens \in Nat \ {0}
  /\ MaxFaults \in Nat

VARIABLES
  ask,         \* what each request asks for
  sent,        \* requests 1 .. sent were submitted, in this order
  gone,        \* requests whose receiver was dropped
  answer,      \* the Done or Failed event each was sent
  jobs,        \* the job channel
  waiting,     \* Scheduler::waiting: [req, pending]
  running,     \* Scheduler::running: [seq, req, prompt, prefilled]
  phase,       \* where the worker is
  cand,        \* admit's `req`, off the queue, with its expanded prompt
  committed,   \* admit's committed_this_pass
  freed,       \* evict_for's freed
  plan,        \* step's plan: [idx, kind, len, last]
  at,          \* loop counter
  finished,    \* step's finished
  faults       \* device errors so far

queues == << ask, sent, gone, answer, jobs, waiting >>
locals == << cand, committed, freed, plan, at, finished >>
svars == << vars, queues, running, phase, locals, faults >>

NoCand == [ req |-> 0, prompt |-> << >> ]

SchedInit ==
  /\ Init
  /\ ask \in [Requests -> Asks]
  /\ sent = 0 /\ gone = {} /\ answer = [r \in Requests |-> "none"]
  /\ jobs = << >> /\ waiting = << >> /\ running = << >>
  /\ phase = "recv" /\ cand = NoCand /\ committed = 0 /\ freed = 0
  /\ plan = << >> /\ at = 1 /\ finished = {} /\ faults = 0

(* Shorthands for what a worker's step leaves alone. *)
ClientsIdle == UNCHANGED << ask, sent, gone, jobs >>

Answer(r, event) == answer' = [answer EXCEPT ![r] = event]
Generated(r) == Len(text[r.seq]) - Len(r.prompt)
PromptComplete(r) == r.prefilled >= Len(r.prompt)
Lesser(a, b) == IF a < b THEN a ELSE b
Budget(r) == Lesser(ask[r.req].max_tokens, MaxSeq - Len(r.prompt))

(* Vec::swap_remove. *)
SwapRemove(s, i) == [ j \in 1 .. Len(s) - 1 |-> IF j = i THEN s[Len(s)] ELSE s[j] ]

-----------------------------------------------------------------------------
(* Clients. submit: onto the channel; dropping the receiver cancels.        *)
Submit ==
  /\ sent < NumRequests
  /\ sent' = sent + 1
  /\ jobs' = Append(jobs, sent + 1)
  /\ UNCHANGED << vars, ask, gone, answer, waiting, running, phase, locals, faults >>

Disconnect(r) ==
  /\ r <= sent /\ r \notin gone /\ answer[r] = "none"
  /\ gone' = gone \cup {r}
  /\ UNCHANGED << vars, ask, sent, answer, jobs, waiting, running, phase, locals, faults >>

-----------------------------------------------------------------------------
(* run_inner: block while there is nothing to do, else take every job and   *)
(* start a step. A request with a picture arrives with it pending.          *)
Receive ==
  /\ phase = "recv"
  /\ jobs # << >> \/ waiting # << >> \/ running # << >>
  /\ waiting' = waiting \o [ i \in 1 .. Len(jobs) |->
                   [ req |-> jobs[i], pending |-> HadVision(ask[jobs[i]].prompt) ] ]
  /\ jobs' = << >>
  /\ phase' = "admit"
  /\ committed' = 0
  /\ UNCHANGED << vars, ask, sent, gone, answer, running, cand, freed, plan, at, finished, faults >>

(* Mutant of Available: without committed_this_pass. *)
AvailableStale == FreeSlots(pool)

Need == Len(cand.prompt) + 1
Available == IF committed < FreeSlots(pool) THEN FreeSlots(pool) - committed ELSE 0

(* admit, to the end of its loop... *)
AdmitNoMore ==
  /\ phase = "admit"
  /\ waiting = << >> \/ Cardinality(pool.live) >= MaxSeqs
  /\ phase' = "drop" /\ at' = 1
  /\ UNCHANGED << vars, queues, running, cand, committed, freed, plan, finished, faults >>

(* ... or the next request off the queue. A pending picture is taken, the   *)
(* tower runs, and the prompt is expanded around it; once taken, the prompt *)
(* is what it is, placeholders and all.                                     *)
TakeNext ==
  /\ phase = "admit"
  /\ waiting # << >> /\ Cardinality(pool.live) < MaxSeqs
  /\ LET w == Head(waiting)
         full == ask[w.req].prompt
         c == [ req |-> w.req, prompt |-> IF w.pending THEN full ELSE Ids(full) ]
     IN  /\ cand' = c
         /\ phase' = IF Len(c.prompt) + 1 > Available THEN "evict" ELSE "decide"
  /\ waiting' = Tail(waiting)
  /\ freed' = 0
  /\ UNCHANGED << vars, answer, running, committed, plan, at, finished, faults >>
  /\ ClientsIdle

(* The tower fails: the request does, and the loop goes on. *)
EncodeFails ==
  /\ phase = "admit"
  /\ waiting # << >> /\ Cardinality(pool.live) < MaxSeqs
  /\ Head(waiting).pending
  /\ faults < MaxFaults /\ faults' = faults + 1
  /\ Answer(Head(waiting).req, "failed")
  /\ waiting' = Tail(waiting)
  /\ UNCHANGED << vars, running, phase, locals >>
  /\ ClientsIdle

(* evict_for(need + committed): its `freed` counts slots that free_slots()  *)
(* counts already.                                                          *)
Wanted == Need + committed
EvictMore == FreeSlots(pool) + freed < Wanted /\ Cold(cache) # {}
(* Mutant of EvictTurn: any block goes, borrowed or not. *)
EvictTurnAny ==
  /\ phase = "evict" /\ EvictMore
  /\ \E key \in DOMAIN cache.blocks :
       /\ pool' = ReleaseSlots(pool, cache.blocks[key].slots)
       /\ cache' = Evict(cache, key)
  /\ freed' = freed + BLOCK
  /\ UNCHANGED << lease, text, kv >>
  /\ UNCHANGED << queues, running, phase, cand, committed, plan, at, finished, faults >>

EvictTurn ==
  /\ phase = "evict" /\ EvictMore
  /\ \E key \in DOMAIN cache.blocks : EvictOne(key)
  /\ freed' = freed + BLOCK
  /\ UNCHANGED << queues, running, phase, cand, committed, plan, at, finished, faults >>
EvictDone ==
  /\ phase = "evict" /\ ~EvictMore
  /\ phase' = "decide"
  /\ UNCHANGED << vars, queues, running, locals, faults >>

Fits == Need <= Available /\ Need <= MaxSeq

(* It does not fit, and nothing runs that could make room: refused. *)
Reject ==
  /\ phase = "decide" /\ ~Fits
  /\ running = << >> /\ committed = 0
  /\ Answer(cand.req, "failed")
  /\ phase' = "admit" /\ cand' = NoCand
  /\ UNCHANGED << vars, waiting, running, committed, freed, plan, at, finished, faults >>
  /\ ClientsIdle

(* Mutants of Requeue: the request is dropped, or goes to the back. *)
RequeueNothing ==
  /\ phase = "decide" /\ ~Fits
  /\ running # << >> \/ committed # 0
  /\ phase' = "drop" /\ at' = 1 /\ cand' = NoCand
  /\ UNCHANGED << vars, waiting, answer, running, committed, freed, plan, finished, faults >>
  /\ ClientsIdle
RequeueLast ==
  /\ phase = "decide" /\ ~Fits
  /\ running # << >> \/ committed # 0
  /\ waiting' = Append(waiting, [ req |-> cand.req, pending |-> FALSE ])
  /\ phase' = "drop" /\ at' = 1 /\ cand' = NoCand
  /\ UNCHANGED << vars, answer, running, committed, freed, plan, finished, faults >>
  /\ ClientsIdle

(* It does not fit yet: back on the front of the queue, without the picture *)
(* that was taken from it, and no more admissions in this step.             *)
Requeue ==
  /\ phase = "decide" /\ ~Fits
  /\ running # << >> \/ committed # 0
  /\ waiting' = << [ req |-> cand.req, pending |-> FALSE ] >> \o waiting
  /\ phase' = "drop" /\ at' = 1 /\ cand' = NoCand
  /\ UNCHANGED << vars, answer, running, committed, freed, plan, finished, faults >>
  /\ ClientsIdle

(* It fits: a row, whatever of the prompt is cached, and into `running`. *)
Granted ==
  /\ phase = "decide" /\ Fits
  /\ committed' = committed + Need
  /\ phase' = "admit" /\ cand' = NoCand
  /\ UNCHANGED << queues, freed, plan, at, finished >>
Starts(seq, prefilled) ==
  running' = Append(running, [ seq |-> seq, req |-> cand.req, prompt |-> cand.prompt,
                               prefilled |-> prefilled ])
Start(seq) ==
  /\ Granted
  /\ Admit(seq, cand.prompt)
  /\ Starts(seq, SeqLen(pool', seq))
  /\ UNCHANGED faults

-----------------------------------------------------------------------------
(* drop_disconnected, one turn: swap_remove puts another row at this index. *)
DropOrPass ==
  /\ phase = "drop" /\ at <= Len(running)
  /\ IF running[at].req \in gone
     THEN /\ Retire(running[at].seq)
          /\ running' = SwapRemove(running, at)
          /\ UNCHANGED at
     ELSE /\ at' = at + 1
          /\ UNCHANGED << vars, running >>
  /\ UNCHANGED << queues, phase, cand, committed, freed, plan, finished, faults >>

(* Mutant of Rows: without pool_budget. *)
RowsOfBatch == BatchTokens

(* plan: one pool of rows, the smaller of batch_tokens and free_slots(): both *)
(* budgets are taken from alike. The loop over the decodes gives a row to     *)
(* each while any is left; the loop over the prompts then splits the rest, in *)
(* order. The step's stable sort puts what wants logits, decodes and last     *)
(* chunks, before what does not: the loops keep the two apart.                *)
Rows == Lesser(BatchTokens, FreeSlots(pool))
CanDecode(i) == PromptComplete(running[i]) /\ Generated(running[i]) > 0
DecodeItem(i) == [ idx |-> i, kind |-> "decode", len |-> 1, last |-> TRUE ]
DecodeTurn(d, i) ==
  IF d.left > 0 /\ CanDecode(i)
  THEN [ d EXCEPT !.logits = Append(@, DecodeItem(i)), !.left = @ - 1 ]
  ELSE d
Decodes[i \in 0 .. Len(running)] ==
  IF i = 0 THEN [ logits |-> << >>, others |-> << >>, left |-> Rows ]
           ELSE DecodeTurn(Decodes[i - 1], i)

Remaining(i) ==
  IF PromptComplete(running[i]) THEN 0 ELSE Len(running[i].prompt) - running[i].prefilled
PrefillItem(i, len) ==
  [ idx |-> i, kind |-> "prefill", len |-> len, last |-> len = Remaining(i) ]
PrefillTurn(d, i) ==
  LET len == Lesser(Remaining(i), d.left)
  IN  IF len = 0 THEN d
      ELSE IF len = Remaining(i)
      THEN [ d EXCEPT !.logits = Append(@, PrefillItem(i, len)), !.left = @ - len ]
      ELSE [ d EXCEPT !.others = Append(@, PrefillItem(i, len)), !.left = @ - len ]
Prefills[i \in 0 .. Len(running)] ==
  IF i = 0 THEN Decodes[Len(running)] ELSE PrefillTurn(Prefills[i - 1], i)

PlanOf == Prefills[Len(running)].logits \o Prefills[Len(running)].others

MakePlan ==
  /\ phase = "drop" /\ at > Len(running)
  /\ at' = 1
  /\ plan' = PlanOf
  /\ phase' = IF running = << >> THEN "recv"
              ELSE IF PlanOf = << >> THEN "fail" ELSE "forward"
  /\ committed' = 0 /\ freed' = 0
  /\ UNCHANGED << vars, queues, running, cand, finished, faults >>

-----------------------------------------------------------------------------
(* forward_batch_rows: each item's slots in turn; the first extend that     *)
(* fails, or any error of the device, fails the step.                       *)
ForwardItem ==
  /\ phase = "forward" /\ at <= Len(plan)
  /\ Forward(running[plan[at].idx].seq, plan[at].len)
  /\ at' = at + 1
  /\ UNCHANGED << queues, running, phase, cand, committed, freed, plan, finished, faults >>
ForwardFails ==
  /\ phase = "forward"
  /\ LET short == at <= Len(plan) /\ ~CanExtend(pool, running[plan[at].idx].seq, plan[at].len)
     IN  /\ short \/ faults < MaxFaults
         /\ faults' = IF short THEN faults ELSE faults + 1
  /\ phase' = "fail" /\ plan' = << >> /\ at' = 1
  /\ UNCHANGED << vars, queues, running, cand, committed, freed, finished >>
ForwardDone ==
  /\ phase = "forward" /\ at > Len(plan)
  /\ phase' = "advance" /\ at' = 1
  /\ UNCHANGED << vars, queues, running, cand, committed, freed, plan, finished, faults >>

(* The bookkeeping of one item of the plan. *)
Item == plan[at]
Row == running[Item.idx]
(* Mutant of Fed: prefilled is not moved on. *)
FedNothing == UNCHANGED running
Fed == running' = [ running EXCEPT ![Item.idx].prefilled =
                      IF Item.kind = "prefill" THEN @ + Item.len ELSE @ ]
Advancing ==
  /\ phase = "advance" /\ at <= Len(plan)
  /\ Fed
  /\ at' = at + 1
  /\ UNCHANGED << phase, waiting, cand, committed, freed, plan, faults >>
  /\ ClientsIdle
(* Mutant of Ends: the row is answered and stays. *)
EndsNot == UNCHANGED finished
Ends == finished' = finished \cup {Item.idx}
GoesOn == UNCHANGED << finished, answer >>

(* More of the prompt to feed: no logits were asked for. *)
AdvancePrompt == Advancing /\ ~Item.last /\ GoesOn /\ UNCHANGED vars
(* advance_token: the sampled token ends the generation, and is not kept... *)
AdvanceEog == Advancing /\ Item.last /\ Ends /\ Answer(Row.req, "stop") /\ UNCHANGED vars
(* ... or is kept, and then there is nobody to send its text to... *)
AdvanceHungUp(token) ==
  /\ Advancing /\ Item.last
  /\ Emit(Row.seq, token)
  /\ Row.req \in gone
  /\ Ends /\ UNCHANGED answer
(* ... or it completes a stop string... *)
AdvanceStop(token) ==
  /\ Advancing /\ Item.last
  /\ Emit(Row.seq, token)
  /\ Ends /\ Answer(Row.req, "stop")
(* ... or the budget, the row or the pool is full, or it goes on. *)
LengthReached ==
  \/ Generated(Row) + 1 >= Budget(Row)
  \/ Headroom(pool, Row.seq) = 0
  \/ FreeSlots(pool) = 0
AdvanceToken(token) ==
  /\ Advancing /\ Item.last
  /\ Emit(Row.seq, token)
  /\ IF LengthReached THEN Ends /\ Answer(Row.req, "length") ELSE GoesOn

AdvanceDone ==
  /\ phase = "advance" /\ at > Len(plan)
  /\ phase' = "retire" /\ at' = 1 /\ plan' = << >>
  /\ UNCHANGED << vars, queues, running, cand, committed, freed, finished, faults >>

(* Mutants of RetireLast: from the front, or without retire. *)
RetireFirst ==
  /\ phase = "retire" /\ finished # {}
  /\ LET idx == Min(finished)
     IN  /\ Retire(running[idx].seq)
         /\ running' = SwapRemove(running, idx)
         /\ finished' = finished \ {idx}
  /\ UNCHANGED << queues, phase, cand, committed, freed, plan, at, faults >>
RetireLeaks ==
  /\ phase = "retire" /\ finished # {}
  /\ running' = SwapRemove(running, Max(finished))
  /\ finished' = finished \ {Max(finished)}
  /\ UNCHANGED << vars, queues, phase, cand, committed, freed, plan, at, faults >>

(* The finished rows, from the back "so the earlier indices stay valid". *)
RetireLast ==
  /\ phase = "retire" /\ finished # {}
  /\ LET idx == Max(finished)
     IN  /\ Retire(running[idx].seq)
         /\ running' = SwapRemove(running, idx)
         /\ finished' = finished \ {idx}
  /\ UNCHANGED << queues, phase, cand, committed, freed, plan, at, faults >>
StepDone ==
  /\ phase = "retire" /\ finished = {}
  /\ phase' = "recv"
  /\ UNCHANGED << vars, queues, running, locals, faults >>

(* Mutants: of FailRunning, without pool.free; of FailWaiting, without an event. *)
FailUnfreed ==
  /\ phase = "fail" /\ running # << >>
  /\ Answer(Head(running).req, "failed")
  /\ running' = Tail(running)
  /\ UNCHANGED << vars, waiting, phase, locals, faults >>
  /\ ClientsIdle
FailSilently ==
  /\ phase = "fail" /\ running = << >>
  /\ waiting' = << >>
  /\ phase' = "recv"
  /\ UNCHANGED << vars, answer, running, locals, faults >>
  /\ ClientsIdle

(* fail_all: every running row, and then everything that waits. *)
FailRunning ==
  /\ phase = "fail" /\ running # << >>
  /\ Fail(Head(running).seq)
  /\ Answer(Head(running).req, "failed")
  /\ running' = Tail(running)
  /\ UNCHANGED << waiting, phase, locals, faults >>
  /\ ClientsIdle
FailWaiting ==
  /\ phase = "fail" /\ running = << >>
  /\ answer' = [ r \in Requests |->
                   IF \E i \in 1 .. Len(waiting) : waiting[i].req = r THEN "failed" ELSE answer[r] ]
  /\ waiting' = << >>
  /\ phase' = "recv"
  /\ UNCHANGED << vars, running, locals, faults >>
  /\ ClientsIdle

-----------------------------------------------------------------------------
Worker ==
  \/ Receive
  \/ AdmitNoMore \/ TakeNext \/ EncodeFails
  \/ EvictTurn \/ EvictDone
  \/ Reject \/ Requeue
  \/ \E seq \in SeqIds : Start(seq)
  \/ DropOrPass \/ MakePlan
  \/ ForwardItem \/ ForwardFails \/ ForwardDone
  \/ AdvancePrompt \/ AdvanceEog
  \/ \E token \in Tokens : AdvanceHungUp(token) \/ AdvanceStop(token) \/ AdvanceToken(token)
  \/ AdvanceDone
  \/ RetireLast \/ StepDone
  \/ FailRunning \/ FailWaiting

SchedNext ==
  \/ Submit
  \/ \E r \in Requests : Disconnect(r)
  \/ Worker

(* The worker is an operating-system thread with nothing else to do. *)
SchedSpec == SchedInit /\ [][SchedNext]_svars /\ WF_svars(Worker)

-----------------------------------------------------------------------------
(* The values the scheduler's own state may take. *)
Runnings == [seq : SeqIds, req : Requests, prompt : Prompts, prefilled : Nat]
Items == [idx : Nat, kind : {"decode", "prefill"}, len : Nat, last : BOOLEAN]
SchedTypeOK ==
  /\ sent \in 0 .. NumRequests
  /\ gone \subseteq 1 .. sent
  /\ answer \in [Requests -> {"none", "stop", "length", "failed"}]
  /\ jobs \in Seq(Requests)
  /\ waiting \in Seq([req : Requests, pending : BOOLEAN])
  /\ running \in Seq(Runnings)
  /\ phase \in {"recv", "admit", "evict", "decide", "drop", "forward", "advance", "retire", "fail"}
  /\ phase \in {"evict", "decide"} <=> cand # NoCand
  /\ committed \in Nat /\ freed \in Nat
  /\ plan \in Seq(Items) /\ at \in Nat \ {0}
  /\ finished \subseteq 1 .. Len(running)

(* Where a submitted request can be. *)
Queued(r) ==
  \/ \E i \in 1 .. Len(jobs) : jobs[i] = r
  \/ \E i \in 1 .. Len(waiting) : waiting[i].req = r
  \/ cand.req = r
Places(r) ==
  Cardinality({ i \in 1 .. Len(jobs) : jobs[i] = r })
    + Cardinality({ i \in 1 .. Len(waiting) : waiting[i].req = r })
    + Cardinality({ i \in 1 .. Len(running) : running[i].req = r })
    + (IF cand.req = r THEN 1 ELSE 0)

(* No request is lost or served twice on its way from the channel to the     *)
(* queue, off the queue and back on its front, into a row and through every  *)
(* swap_remove: while its client waits for an answer it is in one place, and *)
(* once answered it is only in a row that this step retires.                 *)
NoRequestLost ==
  \A r \in 1 .. sent :
    /\ Places(r) <= 1
    /\ answer[r] = "none" /\ r \notin gone => Places(r) = 1
    /\ answer[r] # "none" => ~Queued(r) /\ \A i \in 1 .. Len(running) :
         running[i].req = r => i \in finished

(* The running list and the pool agree on which rows exist: no row is freed  *)
(* under a running request, shared by two, or left allocated with no owner.  *)
RowsAreRunning ==
  /\ pool.live = { running[i].seq : i \in 1 .. Len(running) }
  /\ Cardinality(pool.live) = Len(running)

(* plan: "a step never asks for more than the pool can give". While the      *)
(* items of a plan are fed, those still to come fit the slots that are left  *)
(* and the rows they extend.                                                 *)
Asked(p, k) == LET upto[i \in 0 .. Len(p)] == IF i = 0 THEN 0 ELSE upto[i - 1] + p[i].len
               IN  upto[k]
PlanFitsPool ==
  phase = "forward" =>
    /\ Asked(plan, Len(plan)) - Asked(plan, at - 1) <= FreeSlots(pool)
    /\ \A j \in at .. Len(plan) : plan[j].len <= Headroom(pool, running[plan[j].idx].seq)

(* When a step is planned, each row's KV is exactly what its bookkeeping     *)
(* says is fed: the prompt up to `prefilled`, or the whole text but for the  *)
(* one token the next decode feeds. A chunk fed twice, or skipped, breaks it.*)
FedIsComputed ==
  phase = "drop" =>
    \A i \in 1 .. Len(running) :
      IF PromptComplete(running[i])
      THEN SeqLen(pool, running[i].seq) = Len(text[running[i].seq]) - 1
      ELSE SeqLen(pool, running[i].seq) = running[i].prefilled

(* What one pass of admit promises, together, is there to be had: the slots  *)
(* it counts on are free until the step's forward pass takes them.           *)
PassFits == phase \in {"admit", "evict", "decide", "drop"} => committed <= FreeSlots(pool)

(* Requests start in the order they were submitted: none is in a row, or     *)
(* answered, while an earlier one is still queued.                           *)
InOrder ==
  \A q, r \in 1 .. sent :
    q < r /\ Queued(q) => answer[r] = "none" /\ \A i \in 1 .. Len(running) : running[i].req # r

(* A request is sent at most one Done or Failed event.                       *)
AnsweredOnce ==
  [][\A r \in Requests : answer[r] # "none" => answer'[r] = answer[r]]_svars

-----------------------------------------------------------------------------
(* What comments of the source say, and the code does not do (see the README). *)

(* prefix.rs, evict_for: "Free cached blocks until the pool has `want` slots". *)
EvictMakesRoom == phase = "decide" => Need <= Available \/ Cold(cache) = {}

(* scheduler.rs, admit: a request that does not fit yet goes back on the      *)
(* front "in the same place it held before". A row runs the prompt its        *)
(* client asked for, picture included.                                        *)
PictureKept ==
  \A i \in 1 .. Len(running) : running[i].prompt = ask[running[i].req].prompt

=============================================================================

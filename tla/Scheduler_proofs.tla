-------------------------- MODULE Scheduler_proofs --------------------------
(***************************************************************************)
(* The scheduler implements PrefixPool: each step of the worker or of a    *)
(* client is one action of PrefixPool or leaves its variables alone. What  *)
(* is proved of PrefixPool then holds of the scheduler, for any number of  *)
(* requests, rows, slots and failures.                                     *)
(*                                                                         *)
(* The step that takes an argument is Start: it admits the prompt `cand`,  *)
(* which went from the client through the channel, the queue, and perhaps  *)
(* back onto the queue. PromptsInv follows it on that way.                 *)
(***************************************************************************)
EXTENDS Scheduler, PrefixPool_proofs

QueueEntries == [req : Requests, pending : BOOLEAN]

PromptsInv ==
  /\ ask \in [Requests -> Asks]
  /\ sent \in 0 .. NumRequests
  /\ jobs \in Seq(Requests)
  /\ waiting \in Seq(QueueEntries)
  /\ phase \in {"evict", "decide"} => cand.req \in Requests /\ cand.prompt \in Prompts

LEMMA PromptsInit == SchedInit => PromptsInv
<1> SUFFICES ASSUME SchedInit PROVE PromptsInv
  OBVIOUS
<1>1. NumRequests \in Nat /\ 0 \in 0 .. NumRequests
  BY SchedulerSizes
<1>2. << >> \in Seq(Requests) /\ << >> \in Seq(QueueEntries)
  OBVIOUS
<1> QED
  BY <1>1, <1>2 DEF SchedInit, PromptsInv

(* The steps that touch neither what is asked, nor the queue, nor `cand`. *)
LEMMA PromptsKept ==
  ASSUME PromptsInv, UNCHANGED << ask, sent, jobs, waiting >>,
         phase' \in {"evict", "decide"} => phase \in {"evict", "decide"} /\ cand' = cand
  PROVE  PromptsInv'
BY DEF PromptsInv

LEMMA PromptsStep ==
  ASSUME PromptsInv, [SchedNext]_svars
  PROVE  PromptsInv'
<1>1. CASE Submit
  <2>1. sent + 1 \in Requests /\ sent' \in 0 .. NumRequests
    BY <1>1, SchedulerSizes DEF PromptsInv, Submit, Requests
  <2>2. jobs' \in Seq(Requests)
    BY <1>1, <2>1 DEF PromptsInv, Submit
  <2> QED
    BY <1>1, <2>1, <2>2 DEF PromptsInv, Submit, locals
<1>2. CASE Receive
  <2> DEFINE taken == [ i \in 1 .. Len(jobs) |->
                          [ req |-> jobs[i], pending |-> HadVision(ask[jobs[i]].prompt) ] ]
  <2>1. jobs \in Seq(Requests) /\ waiting \in Seq(QueueEntries)
    BY DEF PromptsInv
  <2>2. ASSUME NEW i \in 1 .. Len(jobs)
        PROVE  taken[i] \in QueueEntries
    <3>1. jobs[i] \in Requests
      BY <2>1, ElementOfSeq
    <3>2. HadVision(ask[jobs[i]].prompt) \in BOOLEAN
      BY DEF HadVision
    <3> QED
      BY <3>1, <3>2 DEF QueueEntries
  <2>3. taken \in Seq(QueueEntries)
    BY <2>1, <2>2, LenProperties
  <2> HIDE DEF taken
  <2>4. waiting' = waiting \o taken /\ jobs' = << >> /\ phase' = "admit"
    BY <1>2 DEF Receive, taken
  <2>5. waiting' \in Seq(QueueEntries) /\ jobs' \in Seq(Requests)
    BY <2>1, <2>3, <2>4
  <2> QED
    BY <1>2, <2>4, <2>5 DEF Receive, PromptsInv
<1>3. CASE TakeNext
  <2> DEFINE w == Head(waiting)
             full == ask[w.req].prompt
  <2>1. w \in QueueEntries /\ waiting' \in Seq(QueueEntries)
    BY <1>3, HeadTailProperties DEF TakeNext, PromptsInv
  <2>2. w.req \in Requests
    BY <2>1 DEF QueueEntries
  <2>3. ask[w.req] \in Asks
    BY <2>2 DEF PromptsInv
  <2>4. full \in Prompts /\ Ids(full) \in Prompts
    BY <2>3, SchedulerSizes
  <2>5. cand'.req = w.req /\ cand'.prompt = IF w.pending THEN full ELSE Ids(full)
    BY <1>3 DEF TakeNext
  <2> QED
    BY <1>3, <2>1, <2>2, <2>4, <2>5 DEF TakeNext, ClientsIdle, PromptsInv
<1>4. CASE EncodeFails
  <2>1. waiting' \in Seq(QueueEntries)
    BY <1>4, HeadTailProperties DEF EncodeFails, PromptsInv
  <2> QED
    BY <1>4, <2>1 DEF EncodeFails, ClientsIdle, PromptsInv
<1>5. CASE Requeue
  <2> DEFINE again == [ req |-> cand.req, pending |-> FALSE ]
  <2>1. again \in QueueEntries
    BY <1>5 DEF Requeue, PromptsInv, QueueEntries
  <2> HIDE DEF again
  <2>2. << again >> \in Seq(QueueEntries) /\ waiting \in Seq(QueueEntries)
    BY <2>1 DEF PromptsInv
  <2>3. waiting' = << again >> \o waiting
    BY <1>5 DEF Requeue, again
  <2>4. waiting' \in Seq(QueueEntries)
    BY <2>2, <2>3
  <2> QED
    BY <1>5, <2>4 DEF Requeue, ClientsIdle, PromptsInv
<1>6. CASE FailWaiting
  <2>1. << >> \in Seq(QueueEntries)
    OBVIOUS
  <2> QED
    BY <1>6, <2>1 DEF FailWaiting, ClientsIdle, PromptsInv
<1>7. CASE \/ \E r \in Requests : Disconnect(r)
           \/ AdmitNoMore \/ EvictTurn \/ EvictDone \/ Reject
           \/ \E seq \in SeqIds : Start(seq)
           \/ DropOrPass \/ MakePlan \/ ForwardItem \/ ForwardFails \/ ForwardDone
  <2>1. /\ UNCHANGED << ask, sent, jobs, waiting >>
        /\ phase' \in {"evict", "decide"} => phase \in {"evict", "decide"} /\ cand' = cand
    BY <1>7 DEF Disconnect, AdmitNoMore, EvictTurn, EvictDone, Reject, Start, Granted,
                DropOrPass, MakePlan, ForwardItem, ForwardFails, ForwardDone,
                ClientsIdle, queues, locals
  <2> QED
    BY <2>1, PromptsKept
<1>8. CASE \/ AdvancePrompt \/ AdvanceEog
           \/ \E token \in Tokens : AdvanceHungUp(token) \/ AdvanceStop(token) \/ AdvanceToken(token)
           \/ AdvanceDone \/ RetireLast \/ StepDone \/ FailRunning
           \/ UNCHANGED svars
  <2>1. /\ UNCHANGED << ask, sent, jobs, waiting >>
        /\ phase' \in {"evict", "decide"} => phase \in {"evict", "decide"} /\ cand' = cand
    BY <1>8 DEF AdvancePrompt, AdvanceEog, AdvanceHungUp, AdvanceStop, AdvanceToken, Advancing,
                AdvanceDone, RetireLast, StepDone, FailRunning, svars,
                ClientsIdle, queues, locals
  <2> QED
    BY <2>1, PromptsKept
<1> QED
  BY <1>1, <1>2, <1>3, <1>4, <1>5, <1>6, <1>7, <1>8 DEF SchedNext, Worker

-----------------------------------------------------------------------------
(* A row that an action of PrefixPool names is a row. *)
LEMMA LiveRows ==
  ASSUME IInv, NEW id \in pool.live
  PROVE  id \in SeqIds
BY PoolFields DEF IInv, TypeOK

(* Each step is one of PrefixPool's, or none. *)
LEMMA StepSimulation ==
  ASSUME IInv, PromptsInv, [SchedNext]_svars
  PROVE  [Next]_vars
<1>1. CASE \/ Submit \/ \E r \in Requests : Disconnect(r)
           \/ Receive \/ AdmitNoMore \/ TakeNext \/ EncodeFails
           \/ EvictDone \/ Reject \/ Requeue \/ MakePlan
  BY <1>1 DEF Submit, Disconnect, Receive, AdmitNoMore, TakeNext, EncodeFails, EvictDone,
              Reject, Requeue, MakePlan
<1>2. CASE \/ ForwardFails \/ ForwardDone \/ AdvancePrompt \/ AdvanceEog \/ AdvanceDone
           \/ StepDone \/ FailWaiting \/ UNCHANGED svars
  BY <1>2 DEF ForwardFails, ForwardDone, AdvancePrompt, AdvanceEog, AdvanceDone, StepDone,
              FailWaiting, svars
<1>3. CASE EvictTurn
  BY <1>3 DEF EvictTurn, Next
<1>4. ASSUME NEW seq \in SeqIds, Start(seq)
      PROVE  Next
  <2>1. cand.prompt \in Prompts
    BY <1>4 DEF Start, Granted, PromptsInv
  <2> QED
    BY <1>4, <2>1 DEF Start, Next
<1>5. CASE DropOrPass
  <2>1. CASE Retire(running[at].seq)
    <3>1. running[at].seq \in SeqIds
      BY <2>1, LiveRows DEF Retire
    <3> QED
      BY <2>1, <3>1 DEF Next
  <2> QED
    BY <1>5, <2>1 DEF DropOrPass
<1>6. CASE ForwardItem
  <2> DEFINE id == running[plan[at].idx].seq
             n == plan[at].len
  <2>1. Forward(id, n)
    BY <1>6 DEF ForwardItem
  <2> HIDE DEF id, n
  <2>2. n \in 1 .. MaxSeq /\ id \in SeqIds
    BY <2>1, LiveRows DEF Forward, CanExtend
  <2> QED
    BY <2>1, <2>2 DEF Next
<1>7. ASSUME NEW token \in Tokens, AdvanceHungUp(token) \/ AdvanceStop(token) \/ AdvanceToken(token)
      PROVE  Next
  <2>1. Emit(Row.seq, token)
    BY <1>7 DEF AdvanceHungUp, AdvanceStop, AdvanceToken
  <2>2. Row.seq \in SeqIds
    BY <2>1, LiveRows DEF Emit
  <2> QED
    BY <2>1, <2>2 DEF Next
<1>8. CASE RetireLast
  <2>1. PICK idx : Retire(running[idx].seq)
    BY <1>8 DEF RetireLast
  <2>2. running[idx].seq \in SeqIds
    BY <2>1, LiveRows DEF Retire
  <2> QED
    BY <2>1, <2>2 DEF Next
<1>9. CASE FailRunning
  <2>1. Fail(Head(running).seq)
    BY <1>9 DEF FailRunning
  <2>2. Head(running).seq \in SeqIds
    BY <2>1, LiveRows DEF Fail
  <2> QED
    BY <2>1, <2>2 DEF Next
<1> QED
  BY <1>1, <1>2, <1>3, <1>4, <1>5, <1>6, <1>7, <1>8, <1>9 DEF SchedNext, Worker

(* Together the two invariants are inductive. *)
LEMMA SchedSafety == SchedSpec => [](IInv /\ PromptsInv)
<1>1. SchedInit => IInv /\ PromptsInv
  BY PromptsInit, InitInv DEF SchedInit
<1>2. IInv /\ PromptsInv /\ [SchedNext]_svars => (IInv /\ PromptsInv)'
  BY PromptsStep, StepSimulation, StepInv
<1> QED
  BY <1>1, <1>2, PTL DEF SchedSpec

(* The scheduler, with its queue, its plans, its failures and its clients,  *)
(* does to the pool, the cache and the rows only what PrefixPool allows.    *)
THEOREM SchedulerImplementsPool == SchedSpec => Spec
<1>1. SchedInit => Init
  BY DEF SchedInit
<1>2. IInv /\ PromptsInv /\ [SchedNext]_svars => [Next]_vars
  BY StepSimulation
<1> QED
  BY <1>1, <1>2, SchedSafety, PTL DEF SchedSpec, Spec

(* So under the scheduler each request attends over its own text's KV. *)
THEOREM RequestsReadTheirOwnKv == SchedSpec => []ReadsOwnKv
<1> QED
  BY SchedulerImplementsPool, RowsReadTheirOwnKv, PTL

-----------------------------------------------------------------------------
(* While a pass of admit and the dropping of rows after it go on, the free  *)
(* stack only grows: borrowing a prefix takes nothing from it...            *)
LEMMA AdmitTakesNone ==
  ASSUME IInv, NEW id \in SeqIds, NEW prompt \in Prompts, Admit(id, prompt)
  PROVE  FreeSlots(pool') = FreeSlots(pool)
<1>1. pool \in Pools /\ Alloc(pool, id).free = pool.free
  BY AllocFacts DEF IInv, TypeOK
<1>2. \A slots : AttachPrefix(Alloc(pool, id), id, slots).free = Alloc(pool, id).free
  BY <1>1, AllocFacts DEF AttachPrefix, Pools
<1> QED
  BY <1>1, <1>2 DEF Admit, FreeSlots

(* ... an evicted block is put on it...                                     *)
LEMMA EvictGives ==
  ASSUME IInv, NEW key \in DOMAIN cache.blocks, EvictOne(key)
  PROVE  FreeSlots(pool') >= FreeSlots(pool)
<1>1. /\ pool \in Pools /\ FreeSlots(pool) \in Nat
      /\ cache.blocks[key].slots \in Seq(Slots) /\ Len(cache.blocks[key].slots) \in Nat
  BY PoolFields, LenProperties DEF IInv, TypeOK, Entries
<1>2. FreeSlots(pool') = FreeSlots(pool) + Len(cache.blocks[key].slots)
  BY <1>1, ReleaseFacts DEF EvictOne
<1> QED
  BY <1>1, <1>2

(* ... and so is what a retired row owned and the cache did not keep.       *)
LEMMA RetireGives ==
  ASSUME IInv, NEW id \in SeqIds, Retire(id)
  PROVE  FreeSlots(pool') >= FreeSlots(pool)
<1> DEFINE upto == FullBlocks(text[id]) * BLOCK
           q == KeepPrefix(pool, id, upto)
<1>1. /\ TypeOK /\ id \in pool.live /\ pool \in Pools /\ FreeSlots(pool) \in Nat
      /\ pool.borrowed[id] \in Nat /\ pool.borrowed[id] <= SeqLen(pool, id)
      /\ SeqLen(pool, id) \in Nat
  BY PoolFields, RowFacts DEF IInv, Retire, TypeOK
<1>2. CASE pool' = Free(pool, id)
  <2>1. FreeSlots(pool') = FreeSlots(pool) + SeqLen(pool, id) - pool.borrowed[id]
    BY <1>1, <1>2, FreeFacts
  <2> QED
    BY <1>1, <2>1
<1>3. CASE pool' = Free(q, id) /\ CanKeepPrefix(pool, id, upto)
  <2>1. upto \in Nat
    <3>1. Len(text[id]) \in Nat
      BY <1>1, RowFacts
    <3> QED
      BY <3>1, WholeBlocks
  <2> HIDE DEF upto
  <2>2. /\ q \in Pools /\ q.live = pool.live /\ q.free = pool.free /\ q.slots = pool.slots
        /\ q.borrowed[id] = IF pool.borrowed[id] < upto THEN upto ELSE pool.borrowed[id]
    BY <1>1, <2>1, KeepFacts
  <2> HIDE DEF q
  <2>3. q.borrowed[id] \in Nat /\ q.borrowed[id] <= SeqLen(q, id) /\ SeqLen(q, id) \in Nat
    BY <1>1, <1>3, <2>1, <2>2 DEF CanKeepPrefix, SeqLen
  <2>4. FreeSlots(pool') = FreeSlots(q) + SeqLen(q, id) - q.borrowed[id]
    BY <1>1, <1>3, <2>2, <2>3, FreeFacts
  <2> QED
    BY <1>1, <2>2, <2>3, <2>4 DEF FreeSlots
<1> QED
  BY <1>2, <1>3 DEF Retire, Drop

(* Promises are numbers, and are covered. *)
PromiseInv == committed \in Nat /\ PassFits

(* A promise is made against what is free and not promised yet. *)
LEMMA StartFits ==
  ASSUME IInv, PromptsInv, PromiseInv, NEW seq \in SeqIds, Start(seq)
  PROVE  committed' \in Nat /\ committed' <= FreeSlots(pool')
<1>1. cand.prompt \in Prompts /\ Need \in Nat /\ Need >= 1
  <2>1. cand.prompt \in Prompts
    BY DEF Start, Granted, PromptsInv
  <2>2. Len(cand.prompt) \in Nat
    BY <2>1, TextIsTokens, LenProperties
  <2> QED
    BY <2>1, <2>2 DEF Need
<1>2. FreeSlots(pool) \in Nat /\ committed \in Nat
  BY PoolFields DEF IInv, TypeOK, PromiseInv
<1>3. Need <= (IF committed < FreeSlots(pool) THEN FreeSlots(pool) - committed ELSE 0)
  BY DEF Start, Granted, Fits, Available
<1>4. committed' = committed + Need /\ FreeSlots(pool') = FreeSlots(pool)
  BY <1>1, AdmitTakesNone DEF Start, Granted
<1> HIDE DEF Need
<1> QED
  BY <1>1, <1>2, <1>3, <1>4

LEMMA PromiseStep ==
  ASSUME IInv, PromptsInv, PromiseInv, [SchedNext]_svars
  PROVE  PromiseInv'
<1> DEFINE Admitting == {"admit", "evict", "decide", "drop"}
<1>1. FreeSlots(pool) \in Nat /\ committed \in Nat
  BY PoolFields DEF IInv, TypeOK, PromiseInv
<1>2. ASSUME pool' = pool, committed' = committed, phase' \in Admitting => phase \in Admitting
      PROVE  PromiseInv'
  BY <1>2 DEF PromiseInv, PassFits
<1>3. ASSUME FreeSlots(pool') \in Nat, FreeSlots(pool') >= FreeSlots(pool),
             committed' = committed, phase \in Admitting
      PROVE  PromiseInv'
  BY <1>1, <1>3 DEF PromiseInv, PassFits
<1>4. ASSUME committed' \in Nat, phase' \notin Admitting
      PROVE  PromiseInv'
  BY <1>4 DEF PromiseInv, PassFits
<1>5. FreeSlots(pool') \in Nat
  <2>1. IInv'
    BY StepSimulation, StepInv
  <2> QED
    BY <2>1, PoolFields DEF IInv, TypeOK
<1>6. CASE Receive
  BY <1>1, <1>6 DEF Receive, PromiseInv, PassFits, vars
<1>7. CASE \/ Submit \/ \E r \in Requests : Disconnect(r)
           \/ AdmitNoMore \/ TakeNext \/ EncodeFails \/ EvictDone \/ Reject \/ Requeue
  BY <1>2, <1>7 DEF Submit, Disconnect, AdmitNoMore, TakeNext, EncodeFails, EvictDone, Reject,
                    Requeue, vars, locals
<1>8. CASE EvictTurn
  <2>1. FreeSlots(pool') >= FreeSlots(pool)
    BY <1>8, EvictGives DEF EvictTurn
  <2> QED
    BY <1>3, <1>5, <1>8, <2>1 DEF EvictTurn
<1>9. ASSUME NEW seq \in SeqIds, Start(seq) PROVE PromiseInv'
  BY <1>9, StartFits DEF PromiseInv, PassFits
<1>10. CASE DropOrPass
  <2>1. CASE Retire(running[at].seq)
    <3>1. running[at].seq \in SeqIds
      BY <2>1, LiveRows DEF Retire
    <3>2. FreeSlots(pool') >= FreeSlots(pool)
      BY <2>1, <3>1, RetireGives
    <3> QED
      BY <1>3, <1>5, <1>10, <3>2 DEF DropOrPass
  <2>2. CASE UNCHANGED vars
    BY <1>2, <1>10, <2>2 DEF DropOrPass, vars
  <2> QED
    BY <1>10, <2>1, <2>2 DEF DropOrPass
<1>11. CASE MakePlan
  BY <1>1, <1>4, <1>11 DEF MakePlan
<1>12. CASE ForwardItem \/ ForwardFails \/ ForwardDone \/ AdvanceDone \/ RetireLast \/ StepDone
  BY <1>1, <1>4, <1>12 DEF ForwardItem, ForwardFails, ForwardDone, AdvanceDone, RetireLast,
                           StepDone, locals
<1>13. CASE \/ AdvancePrompt \/ AdvanceEog
            \/ \E token \in Tokens : AdvanceHungUp(token) \/ AdvanceStop(token) \/ AdvanceToken(token)
  BY <1>1, <1>4, <1>13 DEF AdvancePrompt, AdvanceEog, AdvanceHungUp, AdvanceStop, AdvanceToken,
                           Advancing
<1>14. CASE FailRunning \/ FailWaiting
  BY <1>1, <1>4, <1>14 DEF FailRunning, FailWaiting, locals
<1>15. CASE UNCHANGED svars
  BY <1>2, <1>15 DEF svars, vars, locals
<1> QED
  BY <1>6, <1>7, <1>8, <1>9, <1>10, <1>11, <1>12, <1>13, <1>14, <1>15 DEF SchedNext, Worker

(* admit: requests taken in one pass are each sized against the pool before *)
(* any of them has taken a slot; the sum of what they were promised is free *)
(* until the forward pass, whatever was evicted, refused or dropped meanwhile. *)
THEOREM PromisesFit == SchedSpec => []PassFits
<1>1. SchedInit => PromiseInv
  BY DEF SchedInit, PromiseInv, PassFits
<1>2. IInv /\ PromptsInv /\ PromiseInv /\ [SchedNext]_svars => PromiseInv'
  BY PromiseStep
<1>3. PromiseInv => PassFits
  BY DEF PromiseInv
<1> QED
  BY SchedSafety, <1>1, <1>2, <1>3, PTL DEF SchedSpec

-----------------------------------------------------------------------------
(***************************************************************************)
(* The scheduler's own invariants, for any number of requests, rows, slots, *)
(* tokens of a pass and failures. None of them is inductive alone: that no *)
(* request is lost needs the rows to be distinct, that a plan fits the     *)
(* pool needs each row's KV to be what is booked for it, that it is needs  *)
(* the plan to name each row once and every item to fit its row, and all   *)
(* of them need the plan's loops to keep their budget. SchedInv is their   *)
(* conjunction with what each lacks:                                       *)
(*                                                                         *)
(*   LineInv    the order of the requests in the channel and the queue     *)
(*   BegunInv   those in a row or answered come before those still queued  *)
(*   RowsInv    rows, requests and the pool's sequences, one for one       *)
(*   PlanInv    a plan names each row at most once, and none that finished *)
(*   TextInv    a row has room for a token more; an item fits its row      *)
(*   FedInv     a row's KV is what is booked for it and, while the row's   *)
(*              item is under way, the item's tokens as well               *)
(*   RoomInv    the items still to be fed fit the free slots               *)
(*                                                                         *)
(* The order: what the loops that make a plan compute; what each action of *)
(* PrefixPool does to a row and leaves of the others; SchedInv, part by    *)
(* part, step by step; the theorems.                                       *)
(***************************************************************************)

(* The rows that the first items of a plan ask for. *)
LEMMA AskedFacts ==
  ASSUME NEW p \in Seq(Items)
  PROVE  /\ Asked(p, 0) = 0
         /\ \A k \in 1 .. Len(p) : Asked(p, k) = Asked(p, k - 1) + p[k].len
         /\ \A k \in 0 .. Len(p) : Asked(p, k) \in Nat
<1> DEFINE turn == [ i \in 1 .. Len(p) |-> [ x \in Nat |-> x + p[i].len ] ]
<1>1. Len(p) \in Nat
  BY LenProperties
<1>2. ASSUME NEW i \in 1 .. Len(p) PROVE p[i].len \in Nat
  <2>1. p[i] \in Items
    BY ElementOfSeq
  <2> QED
    BY <2>1 DEF Items
<1>3. turn \in [1 .. Len(p) -> [Nat -> Nat]]
  BY <1>2
<1>4. \A i \in 1 .. Len(p), x \in Nat : turn[i][x] = x + p[i].len
  OBVIOUS
<1> HIDE DEF turn
<1>5. \E f \in [0 .. Len(p) -> Nat] :
        f[0] = 0 /\ \A i \in 1 .. Len(p) : f[i] = turn[i][f[i - 1]]
  <2> DEFINE T == Nat
             n == Len(p)
             init == 0
  <2>1. init \in T /\ n \in Nat /\ turn \in [1 .. n -> [T -> T]]
    BY <1>1, <1>3
  <2> HIDE DEF T, n, init
  <2>2. \E f \in [0 .. n -> T] : f[0] = init /\ \A i \in 1 .. n : f[i] = turn[i][f[i - 1]]
    BY ONLY <2>1, LoopExists
  <2> QED
    BY <2>2 DEF T, n, init
<1>6. PICK f \in [0 .. Len(p) -> Nat] : f[0] = 0 /\ \A i \in 1 .. Len(p) : f[i] = turn[i][f[i - 1]]
  BY <1>5
<1>7. \A i \in 1 .. Len(p) : f[i] = f[i - 1] + p[i].len
  BY <1>1, <1>4, <1>6
<1>8. f = [ i \in 0 .. Len(p) |-> IF i = 0 THEN 0 ELSE f[i - 1] + p[i].len ]
  BY <1>1, <1>6, <1>7
<1> DEFINE g == CHOOSE h : h = [ i \in 0 .. Len(p) |-> IF i = 0 THEN 0 ELSE h[i - 1] + p[i].len ]
<1>9. g = [ i \in 0 .. Len(p) |-> IF i = 0 THEN 0 ELSE g[i - 1] + p[i].len ]
  BY <1>8
<1>10. \A k : Asked(p, k) = g[k]
  BY DEF Asked
<1> HIDE DEF g
<1>11. g[0] = 0 /\ \A i \in 1 .. Len(p) : g[i] = g[i - 1] + p[i].len
  BY <1>1, <1>9
<1>12. \A i \in 0 .. Len(p) : g[i] \in Nat
  <2> DEFINE I == { i \in 0 .. Len(p) : g[i] \in Nat }
  <2>1. 0 \in I
    BY <1>1, <1>11
  <2>2. ASSUME NEW i \in 1 .. Len(p), i - 1 \in I PROVE i \in I
    <3>1. g[i] = g[i - 1] + p[i].len
      BY <1>11
    <3>2. g[i - 1] \in Nat
      BY <2>2
    <3>3. p[i].len \in Nat
      BY <1>2
    <3>4. i \in 0 .. Len(p)
      BY <1>1
    <3>5. g[i] \in Nat
      BY ONLY <3>1, <3>2, <3>3
    <3> QED
      BY <3>4, <3>5
  <2> HIDE DEF I
  <2>3. \A i \in 0 .. Len(p) : i \in I
    BY <1>1, <2>1, <2>2, LoopInduction
  <2> QED
    BY <2>3 DEF I
<1> QED
  BY <1>10, <1>11, <1>12

(* What is asked depends only on the items, and items add up. *)
LEMMA AskedConcat ==
  ASSUME NEW p \in Seq(Items), NEW q \in Seq(Items)
  PROVE  /\ \A k \in 0 .. Len(p) : Asked(p \o q, k) = Asked(p, k)
         /\ \A k \in 0 .. Len(q) : Asked(p \o q, Len(p) + k) = Asked(p, Len(p)) + Asked(q, k)
<1> DEFINE m == Len(p)
           n == Len(q)
           r == p \o q
<1>1. /\ m \in Nat /\ n \in Nat
      /\ r \in Seq(Items) /\ Len(r) = m + n
      /\ \A i \in 1 .. m : r[i] = p[i]
      /\ \A i \in 1 .. n : r[m + i] = q[i]
  <2>1. m \in Nat /\ n \in Nat
    BY LenProperties
  <2>2. /\ r \in Seq(Items) /\ Len(r) = m + n
        /\ \A i \in 1 .. m + n : r[i] = IF i <= m THEN p[i] ELSE q[i - m]
    BY ConcatProperties
  <2> HIDE DEF m, n, r
  <2>3. \A i \in 1 .. m : i \in 1 .. m + n /\ i <= m
    BY <2>1
  <2>4. \A i \in 1 .. n : m + i \in 1 .. m + n /\ ~(m + i <= m) /\ (m + i) - m = i
    BY <2>1
  <2> QED
    BY <2>1, <2>2, <2>3, <2>4
<1>2. /\ Asked(p, 0) = 0 /\ \A k \in 1 .. m : Asked(p, k) = Asked(p, k - 1) + p[k].len
      /\ \A k \in 0 .. m : Asked(p, k) \in Nat
  BY AskedFacts
<1>3. /\ Asked(q, 0) = 0 /\ \A k \in 1 .. n : Asked(q, k) = Asked(q, k - 1) + q[k].len
      /\ \A k \in 0 .. n : Asked(q, k) \in Nat
  BY AskedFacts
<1> HIDE DEF m, n, r
<1>4. /\ Asked(r, 0) = 0 /\ \A k \in 1 .. m + n : Asked(r, k) = Asked(r, k - 1) + r[k].len
      /\ \A k \in 0 .. m + n : Asked(r, k) \in Nat
  BY <1>1, AskedFacts
<1>5. \A k \in 0 .. m : Asked(r, k) = Asked(p, k)
  <2> DEFINE I == { k \in 0 .. m : Asked(r, k) = Asked(p, k) }
  <2>1. 0 \in I
    BY <1>1, <1>2, <1>4
  <2>2. ASSUME NEW k \in 1 .. m, k - 1 \in I PROVE k \in I
    <3>1. k \in 1 .. m + n /\ r[k] = p[k]
      BY <1>1
    <3>2. Asked(r, k) = Asked(r, k - 1) + r[k].len /\ Asked(p, k) = Asked(p, k - 1) + p[k].len
      BY <1>2, <1>4, <3>1
    <3> QED
      BY <2>2, <3>1, <3>2
  <2> HIDE DEF I
  <2>3. \A k \in 0 .. m : k \in I
    BY <1>1, <2>1, <2>2, LoopInduction
  <2> QED
    BY <2>3 DEF I
<1>6. \A k \in 0 .. n : Asked(r, m + k) = Asked(p, m) + Asked(q, k)
  <2> DEFINE I == { k \in 0 .. n : Asked(r, m + k) = Asked(p, m) + Asked(q, k) }
  <2>1. 0 \in I
    BY <1>1, <1>2, <1>3, <1>5
  <2>2. ASSUME NEW k \in 1 .. n, k - 1 \in I PROVE k \in I
    <3>1. m + k \in 1 .. m + n /\ r[m + k] = q[k] /\ (m + k) - 1 = m + (k - 1) /\ k - 1 \in 0 .. n
      BY <1>1
    <3>2. /\ Asked(r, m + k) = Asked(r, m + (k - 1)) + q[k].len
          /\ Asked(q, k) = Asked(q, k - 1) + q[k].len
      BY <1>3, <1>4, <3>1
    <3>3. q[k].len \in Nat
      <4>1. q[k] \in Items
        BY ElementOfSeq DEF n
      <4> QED
        BY <4>1 DEF Items
    <3>4. Asked(p, m) \in Nat /\ Asked(q, k - 1) \in Nat
      BY <1>1, <1>2, <1>3, <3>1
    <3> QED
      BY <2>2, <3>2, <3>3, <3>4
  <2> HIDE DEF I
  <2>3. \A k \in 0 .. n : k \in I
    BY <1>1, <2>1, <2>2, LoopInduction
  <2> QED
    BY <2>3 DEF I
<1> QED
  BY <1>5, <1>6 DEF m, n, r

(* One more item asks for its rows. *)
LEMMA AskedAppend ==
  ASSUME NEW p \in Seq(Items), NEW item \in Items
  PROVE  Asked(Append(p, item), Len(p) + 1) = Asked(p, Len(p)) + item.len
<1> DEFINE q == << item >>
<1>1. q \in Seq(Items) /\ Len(q) = 1 /\ q[1] = item
  OBVIOUS
<1>2. Append(p, item) = p \o q
  BY AppendIsConcat
<1> HIDE DEF q
<1>3. Asked(q, 0) = 0 /\ Asked(q, 1) = Asked(q, 1 - 1) + item.len
  <2>1. Asked(q, 0) = 0 /\ \A k \in 1 .. Len(q) : Asked(q, k) = Asked(q, k - 1) + q[k].len
    BY ONLY <1>1, AskedFacts
  <2>2. 1 \in 1 .. Len(q)
    BY <1>1
  <2> QED
    BY <1>1, <2>1, <2>2
<1>4. item.len \in Nat
  BY DEF Items
<1>5. Asked(q, 1) = item.len
  BY <1>3, <1>4
<1> QED
  BY <1>1, <1>2, <1>5, AskedConcat

(* More items ask for no fewer rows. *)
LEMMA AskedGrows ==
  ASSUME NEW p \in Seq(Items), NEW j \in 0 .. Len(p)
  PROVE  Asked(p, j) <= Asked(p, Len(p))
<1> DEFINE n == Len(p)
           I == { k \in 0 .. n : j <= k => Asked(p, j) <= Asked(p, k) }
<1>1. n \in Nat
  BY LenProperties
<1>2. /\ \A k \in 1 .. n : Asked(p, k) = Asked(p, k - 1) + p[k].len
      /\ \A k \in 0 .. n : Asked(p, k) \in Nat
  BY AskedFacts
<1>3. \A k \in 1 .. n : p[k].len \in Nat
  <2> SUFFICES ASSUME NEW k \in 1 .. n PROVE p[k].len \in Nat
    OBVIOUS
  <2>1. p[k] \in Items
    BY ElementOfSeq
  <2> QED
    BY <2>1 DEF Items
<1>4. j \in 0 .. n
  OBVIOUS
<1> HIDE DEF n
<1>5. 0 \in I
  BY <1>1, <1>2, <1>4
<1>6. ASSUME NEW k \in 1 .. n, k - 1 \in I PROVE k \in I
  <2>1. Asked(p, k) = Asked(p, k - 1) + p[k].len /\ p[k].len \in Nat /\ k - 1 \in 0 .. n
    BY <1>1, <1>2, <1>3
  <2>2. Asked(p, k - 1) \in Nat /\ Asked(p, j) \in Nat
    BY <1>2, <1>4, <2>1
  <2> QED
    BY <1>1, <1>4, <1>6, <2>1, <2>2
<1> HIDE DEF I
<1>7. n \in I
  <2>1. \A k \in 0 .. n : k \in I
    BY ONLY <1>1, <1>5, <1>6, LoopInduction
  <2>2. n \in 0 .. n
    BY <1>1
  <2> QED
    BY <2>1, <2>2
<1> QED
  BY <1>1, <1>4, <1>7 DEF I, n

-----------------------------------------------------------------------------
(* What a plan may hold, and what its two loops have built after each turn.  *)

(* An item fits its row: one token of a row whose prompt is in, or a part of *)
(* the prompt from where the row stands, marked as the last if it is.        *)
FitsRow(item) ==
  LET r == running[item.idx]
  IN  IF PromptComplete(r)
      THEN item.kind = "decode" /\ item.len = 1 /\ item.last
      ELSE /\ item.kind = "prefill" /\ item.len >= 1
           /\ r.prefilled + item.len <= Len(r.prompt)
           /\ item.last <=> r.prefilled + item.len = Len(r.prompt)
RowItem(item) == item.idx \in 1 .. Len(running) /\ FitsRow(item)

Drafts == [logits : Seq(Items), others : Seq(Items), left : Nat]
Planned(d, i) ==
  \/ \E j \in 1 .. Len(d.logits) : d.logits[j].idx = i
  \/ \E j \in 1 .. Len(d.others) : d.others[j].idx = i
OncePerRow(d) ==
  /\ \A j, k \in 1 .. Len(d.logits) : d.logits[j].idx = d.logits[k].idx => j = k
  /\ \A j, k \in 1 .. Len(d.others) : d.others[j].idx = d.others[k].idx => j = k
  /\ \A j \in 1 .. Len(d.logits), k \in 1 .. Len(d.others) : d.logits[j].idx # d.others[k].idx
Budgeted(d) ==
  Asked(d.logits, Len(d.logits)) + Asked(d.others, Len(d.others)) + d.left = Rows
DraftOk(d) ==
  /\ d \in Drafts
  /\ Budgeted(d)
  /\ OncePerRow(d)
  /\ \A j \in 1 .. Len(d.logits) : RowItem(d.logits[j])
  /\ \A j \in 1 .. Len(d.others) : RowItem(d.others[j])

(* An item more, of a row that has none, within what is left. *)
LEMMA AddLogits ==
  ASSUME NEW d, DraftOk(d), NEW item \in Items, RowItem(item), item.len <= d.left,
         ~ Planned(d, item.idx),
         NEW e, e = [ d EXCEPT !.logits = Append(@, item), !.left = @ - item.len ]
  PROVE  DraftOk(e) /\ \A i : Planned(e, i) => Planned(d, i) \/ i = item.idx
<1> DEFINE p == d.logits
           n == Len(p)
           q == Append(p, item)
<1>1. p \in Seq(Items) /\ d.others \in Seq(Items) /\ d.left \in Nat /\ item.len \in Nat
  BY DEF DraftOk, Drafts, Items
<1>2. /\ q \in Seq(Items) /\ Len(q) = n + 1 /\ q[n + 1] = item /\ n \in Nat
      /\ \A j \in 1 .. n : q[j] = p[j]
  BY <1>1, AppendProperties, LenProperties
<1>3. e.logits = q /\ e.others = d.others /\ e.left = d.left - item.len /\ e \in Drafts
  <2>1. d \in Drafts /\ d.left - item.len \in Nat
    BY <1>1 DEF DraftOk
  <2>2. e = [ logits |-> q, others |-> d.others, left |-> d.left - item.len ]
    BY <2>1 DEF Drafts
  <2> HIDE DEF q
  <2> QED
    BY <1>1, <1>2, <2>1, <2>2 DEF Drafts
<1>4. Budgeted(e)
  <2>1. Asked(q, n + 1) = Asked(p, n) + item.len
    BY <1>1, AskedAppend
  <2>2. Asked(p, n) \in Nat /\ Asked(d.others, Len(d.others)) \in Nat
    <3>1. n \in 0 .. n /\ Len(d.others) \in 0 .. Len(d.others)
      BY <1>1, <1>2, LenProperties
    <3> QED
      BY <1>1, <3>1, AskedFacts
  <2>3. Asked(p, n) + Asked(d.others, Len(d.others)) + d.left = Rows
    BY DEF DraftOk, Budgeted
  <2>4. Asked(e.logits, Len(e.logits)) = Asked(p, n) + item.len /\ e.left = d.left - item.len
    BY <1>2, <1>3, <2>1
  <2> HIDE DEF p, n, q
  <2> QED
    BY <1>1, <1>3, <2>2, <2>3, <2>4 DEF Budgeted
<1>5. /\ \A j \in 1 .. n : p[j].idx # item.idx
      /\ \A j \in 1 .. Len(d.others) : d.others[j].idx # item.idx
  BY DEF Planned
<1>6. /\ \A j, k \in 1 .. n : p[j].idx = p[k].idx => j = k
      /\ \A j, k \in 1 .. Len(d.others) : d.others[j].idx = d.others[k].idx => j = k
      /\ \A j \in 1 .. n, k \in 1 .. Len(d.others) : p[j].idx # d.others[k].idx
      /\ \A j \in 1 .. n : RowItem(p[j])
      /\ \A j \in 1 .. Len(d.others) : RowItem(d.others[j])
  BY DEF DraftOk, OncePerRow
<1>7. \A i : Planned(d, i) <=> \/ \E j \in 1 .. n : p[j].idx = i
                               \/ \E j \in 1 .. Len(d.others) : d.others[j].idx = i
  BY DEF Planned
<1>8. \A j \in 1 .. n + 1 : j \in 1 .. n \/ j = n + 1
  BY <1>2
<1> HIDE DEF p, n, q
<1>9. OncePerRow(e)
  <2>1. \A j, k \in 1 .. n + 1 : q[j].idx = q[k].idx => j = k
    BY <1>2, <1>5, <1>6, <1>8
  <2>2. \A j \in 1 .. n + 1, k \in 1 .. Len(d.others) : q[j].idx # d.others[k].idx
    BY <1>2, <1>5, <1>6, <1>8
  <2> QED
    BY <1>2, <1>3, <1>6, <2>1, <2>2 DEF OncePerRow
<1>10. \A j \in 1 .. Len(e.logits) : RowItem(e.logits[j])
  BY <1>2, <1>3, <1>6, <1>8
<1>11. ASSUME NEW i, Planned(e, i) PROVE Planned(d, i) \/ i = item.idx
  BY <1>2, <1>3, <1>7, <1>8, <1>11 DEF Planned
<1> QED
  BY <1>3, <1>4, <1>6, <1>9, <1>10, <1>11 DEF DraftOk

LEMMA AddOthers ==
  ASSUME NEW d, DraftOk(d), NEW item \in Items, RowItem(item), item.len <= d.left,
         ~ Planned(d, item.idx),
         NEW e, e = [ d EXCEPT !.others = Append(@, item), !.left = @ - item.len ]
  PROVE  DraftOk(e) /\ \A i : Planned(e, i) => Planned(d, i) \/ i = item.idx
<1> DEFINE p == d.others
           n == Len(p)
           q == Append(p, item)
<1>1. p \in Seq(Items) /\ d.logits \in Seq(Items) /\ d.left \in Nat /\ item.len \in Nat
  BY DEF DraftOk, Drafts, Items
<1>2. /\ q \in Seq(Items) /\ Len(q) = n + 1 /\ q[n + 1] = item /\ n \in Nat
      /\ \A j \in 1 .. n : q[j] = p[j]
  BY <1>1, AppendProperties, LenProperties
<1>3. e.others = q /\ e.logits = d.logits /\ e.left = d.left - item.len /\ e \in Drafts
  <2>1. d \in Drafts /\ d.left - item.len \in Nat
    BY <1>1 DEF DraftOk
  <2>2. e = [ logits |-> d.logits, others |-> q, left |-> d.left - item.len ]
    BY <2>1 DEF Drafts
  <2> HIDE DEF q
  <2> QED
    BY <1>1, <1>2, <2>1, <2>2 DEF Drafts
<1>4. Budgeted(e)
  <2>1. Asked(q, n + 1) = Asked(p, n) + item.len
    BY <1>1, AskedAppend
  <2>2. Asked(p, n) \in Nat /\ Asked(d.logits, Len(d.logits)) \in Nat
    <3>1. n \in 0 .. n /\ Len(d.logits) \in 0 .. Len(d.logits)
      BY <1>1, <1>2, LenProperties
    <3> QED
      BY <1>1, <3>1, AskedFacts
  <2>3. Asked(d.logits, Len(d.logits)) + Asked(p, n) + d.left = Rows
    BY DEF DraftOk, Budgeted
  <2>4. Asked(e.others, Len(e.others)) = Asked(p, n) + item.len /\ e.left = d.left - item.len
    BY <1>2, <1>3, <2>1
  <2> HIDE DEF p, n, q
  <2> QED
    BY <1>1, <1>3, <2>2, <2>3, <2>4 DEF Budgeted
<1>5. /\ \A j \in 1 .. n : p[j].idx # item.idx
      /\ \A j \in 1 .. Len(d.logits) : d.logits[j].idx # item.idx
  BY DEF Planned
<1>6. /\ \A j, k \in 1 .. n : p[j].idx = p[k].idx => j = k
      /\ \A j, k \in 1 .. Len(d.logits) : d.logits[j].idx = d.logits[k].idx => j = k
      /\ \A j \in 1 .. Len(d.logits), k \in 1 .. n : d.logits[j].idx # p[k].idx
      /\ \A j \in 1 .. n : RowItem(p[j])
      /\ \A j \in 1 .. Len(d.logits) : RowItem(d.logits[j])
  BY DEF DraftOk, OncePerRow
<1>7. \A i : Planned(d, i) <=> \/ \E j \in 1 .. Len(d.logits) : d.logits[j].idx = i
                               \/ \E j \in 1 .. n : p[j].idx = i
  BY DEF Planned
<1>8. \A j \in 1 .. n + 1 : j \in 1 .. n \/ j = n + 1
  BY <1>2
<1> HIDE DEF p, n, q
<1>9. OncePerRow(e)
  <2>1. \A j, k \in 1 .. n + 1 : q[j].idx = q[k].idx => j = k
    BY <1>2, <1>5, <1>6, <1>8
  <2>2. \A j \in 1 .. Len(d.logits), k \in 1 .. n + 1 : d.logits[j].idx # q[k].idx
    BY <1>2, <1>5, <1>6, <1>8
  <2> QED
    BY <1>2, <1>3, <1>6, <2>1, <2>2 DEF OncePerRow
<1>10. \A j \in 1 .. Len(e.others) : RowItem(e.others[j])
  BY <1>2, <1>3, <1>6, <1>8
<1>11. ASSUME NEW i, Planned(e, i) PROVE Planned(d, i) \/ i = item.idx
  BY <1>2, <1>3, <1>7, <1>8, <1>11 DEF Planned
<1> QED
  BY <1>3, <1>4, <1>6, <1>9, <1>10, <1>11 DEF DraftOk

(* The numbers of a row. *)
LEMMA RowNumbers ==
  ASSUME running \in Seq(Runnings), NEW i \in 1 .. Len(running)
  PROVE  /\ running[i] \in Runnings
         /\ running[i].seq \in SeqIds /\ running[i].req \in Requests
         /\ running[i].prompt \in Seq(Contents) /\ Len(running[i].prompt) \in Nat
         /\ running[i].prefilled \in Nat
<1>1. running[i] \in Runnings
  BY ElementOfSeq
<1>2. running[i].prompt \in Seq(Contents)
  BY <1>1, TextIsTokens DEF Runnings
<1> QED
  BY <1>1, <1>2, LenProperties DEF Runnings

LEMMA RowsBound ==
  ASSUME FreeSlots(pool) \in Nat
  PROVE  Rows \in Nat /\ Rows <= FreeSlots(pool)
BY SchedulerSizes DEF Rows, Lesser

(* The loop over the decodes is the loop it says it is. *)
LEMMA DecodesLoop ==
  ASSUME running \in Seq(Runnings), FreeSlots(pool) \in Nat
  PROVE  /\ Decodes[0] = [ logits |-> << >>, others |-> << >>, left |-> Rows ]
         /\ \A i \in 1 .. Len(running) : Decodes[i] = DecodeTurn(Decodes[i - 1], i)
<1> DEFINE n == Len(running)
           init == [ logits |-> << >>, others |-> << >>, left |-> Rows ]
           turn == [ i \in 1 .. n |-> [ d \in Drafts |-> DecodeTurn(d, i) ] ]
<1>1. n \in Nat
  BY LenProperties
<1>2. init \in Drafts
  BY RowsBound DEF Drafts
<1>3. ASSUME NEW i \in 1 .. n, NEW d \in Drafts PROVE DecodeTurn(d, i) \in Drafts
  <2> DEFINE q == Append(d.logits, DecodeItem(i))
  <2>1. DecodeItem(i) \in Items
    BY <1>1 DEF DecodeItem, Items
  <2>2. q \in Seq(Items)
    BY <2>1, AppendProperties DEF Drafts
  <2>3. CASE d.left > 0 /\ CanDecode(i)
    <3>1. d.left - 1 \in Nat
      BY <2>3 DEF Drafts
    <3>2. DecodeTurn(d, i) = [ logits |-> q, others |-> d.others, left |-> d.left - 1 ]
      BY <2>3 DEF DecodeTurn, Drafts
    <3> HIDE DEF q
    <3> QED
      BY <2>2, <3>1, <3>2 DEF Drafts
  <2>4. CASE ~(d.left > 0 /\ CanDecode(i))
    BY <2>4 DEF DecodeTurn
  <2> QED
    BY <2>3, <2>4
<1>4. /\ turn \in [1 .. n -> [Drafts -> Drafts]]
      /\ \A i \in 1 .. n, d \in Drafts : turn[i][d] = DecodeTurn(d, i)
  BY <1>3
<1> HIDE DEF turn, init, n
<1>5. PICK f \in [0 .. n -> Drafts] : f[0] = init /\ \A i \in 1 .. n : f[i] = turn[i][f[i - 1]]
  <2>1. turn \in [1 .. n -> [Drafts -> Drafts]]
    BY <1>4
  <2> QED
    BY ONLY <1>1, <1>2, <2>1, LoopExists
<1>6. \A i \in 1 .. n : f[i] = DecodeTurn(f[i - 1], i)
  BY <1>1, <1>4, <1>5
<1>7. f = [ i \in 0 .. n |-> IF i = 0 THEN init ELSE DecodeTurn(f[i - 1], i) ]
  BY <1>1, <1>5, <1>6
<1>8. Decodes = [ i \in 0 .. n |-> IF i = 0 THEN init ELSE DecodeTurn(Decodes[i - 1], i) ]
  <2> DEFINE g == CHOOSE h : h = [ i \in 0 .. n |-> IF i = 0 THEN init ELSE DecodeTurn(h[i - 1], i) ]
  <2>1. g = [ i \in 0 .. n |-> IF i = 0 THEN init ELSE DecodeTurn(g[i - 1], i) ]
    BY <1>7
  <2>2. Decodes = g
    BY DEF Decodes, n, init
  <2> HIDE DEF g
  <2> QED
    BY <2>1, <2>2
<1>9. Decodes[0] = init /\ \A i \in 1 .. n : Decodes[i] = DecodeTurn(Decodes[i - 1], i)
  BY <1>1, <1>8
<1> QED
  BY <1>9 DEF n, init

LEMMA RemainingFacts ==
  ASSUME running \in Seq(Runnings), NEW i \in 1 .. Len(running)
  PROVE  /\ Remaining(i) \in Nat
         /\ Remaining(i) > 0 => /\ ~PromptComplete(running[i])
                                /\ running[i].prefilled + Remaining(i) = Len(running[i].prompt)
<1>1. Len(running[i].prompt) \in Nat /\ running[i].prefilled \in Nat
  BY RowNumbers
<1> QED
  BY <1>1 DEF Remaining, PromptComplete

(* ... and so is the one over the prompts. *)
LEMMA PrefillsLoop ==
  ASSUME running \in Seq(Runnings), FreeSlots(pool) \in Nat,
         Decodes[Len(running)] \in Drafts
  PROVE  /\ Prefills[0] = Decodes[Len(running)]
         /\ \A i \in 1 .. Len(running) : Prefills[i] = PrefillTurn(Prefills[i - 1], i)
<1> DEFINE n == Len(running)
           init == Decodes[n]
           turn == [ i \in 1 .. n |-> [ d \in Drafts |-> PrefillTurn(d, i) ] ]
<1>1. n \in Nat
  BY LenProperties
<1>2. init \in Drafts
  OBVIOUS
<1>3. ASSUME NEW i \in 1 .. n, NEW d \in Drafts PROVE PrefillTurn(d, i) \in Drafts
  <2> DEFINE len == Lesser(Remaining(i), d.left)
             item == PrefillItem(i, len)
             p == Append(d.logits, item)
             q == Append(d.others, item)
  <2>1. d.left \in Nat /\ Remaining(i) \in Nat
    BY RemainingFacts DEF Drafts
  <2>2. len \in Nat /\ d.left - len \in Nat
    BY <2>1 DEF Lesser
  <2>3. item \in Items
    BY <1>1, <2>2 DEF PrefillItem, Items
  <2>4. p \in Seq(Items) /\ q \in Seq(Items)
    BY <2>3, AppendProperties DEF Drafts
  <2>5. \/ PrefillTurn(d, i) = d
        \/ PrefillTurn(d, i) = [ logits |-> p, others |-> d.others, left |-> d.left - len ]
        \/ PrefillTurn(d, i) = [ logits |-> d.logits, others |-> q, left |-> d.left - len ]
    BY DEF PrefillTurn, Drafts
  <2> HIDE DEF p, q, len
  <2> QED
    BY <2>2, <2>4, <2>5 DEF Drafts
<1>4. /\ turn \in [1 .. n -> [Drafts -> Drafts]]
      /\ \A i \in 1 .. n, d \in Drafts : turn[i][d] = PrefillTurn(d, i)
  BY <1>3
<1> HIDE DEF turn, init, n
<1>5. PICK f \in [0 .. n -> Drafts] : f[0] = init /\ \A i \in 1 .. n : f[i] = turn[i][f[i - 1]]
  <2>1. turn \in [1 .. n -> [Drafts -> Drafts]]
    BY <1>4
  <2> QED
    BY ONLY <1>1, <1>2, <2>1, LoopExists
<1>6. \A i \in 1 .. n : f[i] = PrefillTurn(f[i - 1], i)
  BY <1>1, <1>4, <1>5
<1>7. f = [ i \in 0 .. n |-> IF i = 0 THEN init ELSE PrefillTurn(f[i - 1], i) ]
  BY <1>1, <1>5, <1>6
<1>8. Prefills = [ i \in 0 .. n |-> IF i = 0 THEN init ELSE PrefillTurn(Prefills[i - 1], i) ]
  <2> DEFINE g == CHOOSE h : h = [ i \in 0 .. n |-> IF i = 0 THEN init ELSE PrefillTurn(h[i - 1], i) ]
  <2>1. g = [ i \in 0 .. n |-> IF i = 0 THEN init ELSE PrefillTurn(g[i - 1], i) ]
    BY <1>7
  <2>2. Prefills = g
    BY DEF Prefills, n, init
  <2> HIDE DEF g
  <2> QED
    BY <2>1, <2>2
<1>9. Prefills[0] = init /\ \A i \in 1 .. n : Prefills[i] = PrefillTurn(Prefills[i - 1], i)
  BY <1>1, <1>8
<1> QED
  BY <1>9 DEF n, init

(* After the first loop: rows whose prompt is in, each at most once. *)
LEMMA DecodesFacts ==
  ASSUME running \in Seq(Runnings), FreeSlots(pool) \in Nat
  PROVE  /\ DraftOk(Decodes[Len(running)])
         /\ \A k : Planned(Decodes[Len(running)], k) => PromptComplete(running[k])
<1> DEFINE n == Len(running)
           I == { i \in 0 .. n : /\ DraftOk(Decodes[i])
                                 /\ \A k : Planned(Decodes[i], k) =>
                                      k \in 1 .. i /\ PromptComplete(running[k]) }
<1>1. n \in Nat
  BY LenProperties
<1>2. /\ Decodes[0] = [ logits |-> << >>, others |-> << >>, left |-> Rows ]
      /\ \A i \in 1 .. n : Decodes[i] = DecodeTurn(Decodes[i - 1], i)
  BY DecodesLoop
<1>3. 0 \in I
  <2> DEFINE none == << >>
  <2>1. none \in Seq(Items) /\ Len(none) = 0 /\ Asked(none, 0) = 0
    <3>1. none \in Seq(Items) /\ Len(none) = 0
      OBVIOUS
    <3> QED
      BY <3>1, AskedFacts
  <2>2. Decodes[0] = [ logits |-> none, others |-> none, left |-> Rows ]
    BY <1>2
  <2>3. Rows \in Nat
    BY RowsBound
  <2> HIDE DEF none
  <2>4. Decodes[0] \in Drafts /\ Budgeted(Decodes[0])
    BY <2>1, <2>2, <2>3 DEF Drafts, Budgeted
  <2>5. DraftOk(Decodes[0]) /\ \A k : ~ Planned(Decodes[0], k)
    BY <2>1, <2>2, <2>4 DEF DraftOk, OncePerRow, Planned
  <2> QED
    BY <1>1, <2>5
<1>4. ASSUME NEW i \in 1 .. n, i - 1 \in I PROVE i \in I
  <2> DEFINE d == Decodes[i - 1]
             e == Decodes[i]
             item == DecodeItem(i)
  <2>1. /\ e = DecodeTurn(d, i) /\ DraftOk(d)
        /\ \A k : Planned(d, k) => k \in 1 .. i - 1 /\ PromptComplete(running[k])
    BY <1>2, <1>4
  <2>2. i \in 0 .. n /\ i \notin 1 .. i - 1 /\ \A k \in 1 .. i - 1 : k \in 1 .. i
    BY <1>1
  <2> HIDE DEF d, e
  <2>3. CASE d.left > 0 /\ CanDecode(i)
    <3>1. item \in Items /\ item.len = 1 /\ item.idx = i
      BY <1>1 DEF DecodeItem, Items
    <3>2. RowItem(item) /\ PromptComplete(running[i])
      BY <2>3 DEF DecodeItem, RowItem, FitsRow, CanDecode
    <3>3. e = [ d EXCEPT !.logits = Append(@, item), !.left = @ - item.len ]
      BY <2>1, <2>3 DEF DecodeTurn, DecodeItem
    <3>4. item.len <= d.left
      BY <2>1, <2>3, <3>1 DEF DraftOk, Drafts
    <3>5. ~ Planned(d, item.idx)
      BY <2>1, <2>2, <3>1
    <3> HIDE DEF item
    <3>6. DraftOk(e) /\ \A k : Planned(e, k) => Planned(d, k) \/ k = item.idx
      BY ONLY <2>1, <3>1, <3>2, <3>3, <3>4, <3>5, AddLogits
    <3>7. \A k : Planned(e, k) => k \in 1 .. i /\ PromptComplete(running[k])
      BY <2>1, <2>2, <3>1, <3>2, <3>6
    <3> QED
      BY <2>2, <3>6, <3>7 DEF e
  <2>4. CASE ~(d.left > 0 /\ CanDecode(i))
    <3>1. e = d
      BY <2>1, <2>4 DEF DecodeTurn
    <3>2. \A k : Planned(e, k) => k \in 1 .. i /\ PromptComplete(running[k])
      BY <2>1, <2>2, <3>1
    <3> QED
      BY <2>1, <2>2, <3>1, <3>2 DEF e
  <2> QED
    BY <2>3, <2>4
<1> HIDE DEF I, n
<1>5. n \in I
  <2>1. \A k \in 0 .. n : k \in I
    BY ONLY <1>1, <1>3, <1>4, LoopInduction
  <2>2. n \in 0 .. n
    BY <1>1
  <2> QED
    BY <2>1, <2>2
<1> QED
  BY <1>5 DEF I, n

(* After the second: these, and rows whose prompt is not in. *)
LEMMA PrefillsFacts ==
  ASSUME running \in Seq(Runnings), FreeSlots(pool) \in Nat
  PROVE  DraftOk(Prefills[Len(running)])
<1> DEFINE n == Len(running)
           I == { i \in 0 .. n : /\ DraftOk(Prefills[i])
                                 /\ \A k : Planned(Prefills[i], k) =>
                                      k \in 1 .. i \/ PromptComplete(running[k]) }
<1>1. n \in Nat
  BY LenProperties
<1>2. DraftOk(Decodes[n]) /\ \A k : Planned(Decodes[n], k) => PromptComplete(running[k])
  BY DecodesFacts
<1>3. /\ Prefills[0] = Decodes[n]
      /\ \A i \in 1 .. n : Prefills[i] = PrefillTurn(Prefills[i - 1], i)
  BY <1>2, PrefillsLoop DEF DraftOk
<1>4. 0 \in I
  BY <1>1, <1>2, <1>3
<1>5. ASSUME NEW i \in 1 .. n, i - 1 \in I PROVE i \in I
  <2> DEFINE d == Prefills[i - 1]
             e == Prefills[i]
             len == Lesser(Remaining(i), d.left)
             item == PrefillItem(i, len)
  <2>1. /\ e = PrefillTurn(d, i) /\ DraftOk(d)
        /\ \A k : Planned(d, k) => k \in 1 .. i - 1 \/ PromptComplete(running[k])
    BY <1>3, <1>5
  <2>2. i \in 0 .. n /\ i \notin 1 .. i - 1 /\ \A k \in 1 .. i - 1 : k \in 1 .. i
    BY <1>1
  <2> HIDE DEF d, e
  <2>3. CASE e = d
    <3>1. \A k : Planned(e, k) => k \in 1 .. i \/ PromptComplete(running[k])
      BY <2>1, <2>2, <2>3
    <3> QED
      BY <2>1, <2>2, <2>3, <3>1 DEF e
  <2>4. CASE e # d
    <3>1. d.left \in Nat /\ Remaining(i) \in Nat /\ running[i].prefilled \in Nat
      BY <2>1, RemainingFacts, RowNumbers DEF DraftOk, Drafts
    <3>2. /\ len \in Nat /\ len # 0 /\ len <= d.left /\ len <= Remaining(i)
          /\ \/ /\ len = Remaining(i)
                /\ e = [ d EXCEPT !.logits = Append(@, item), !.left = @ - len ]
             \/ /\ len # Remaining(i)
                /\ e = [ d EXCEPT !.others = Append(@, item), !.left = @ - len ]
      BY <2>1, <2>4, <3>1 DEF PrefillTurn, Lesser
    <3>3. item.idx = i /\ item.kind = "prefill" /\ item.len = len /\ item.last = (len = Remaining(i))
      BY DEF PrefillItem
    <3> HIDE DEF len
    <3>4. item \in Items
      BY <1>1, <3>2 DEF PrefillItem, Items
    <3>5. Remaining(i) > 0
      BY <3>1, <3>2
    <3>6. /\ ~PromptComplete(running[i])
          /\ running[i].prefilled + Remaining(i) = Len(running[i].prompt)
      BY <3>5, RemainingFacts
    <3>7. RowItem(item)
      <4>1. /\ len >= 1 /\ running[i].prefilled + len <= Len(running[i].prompt)
            /\ (len = Remaining(i)) <=> (running[i].prefilled + len = Len(running[i].prompt))
        BY <3>1, <3>2, <3>6
      <4> HIDE DEF item
      <4> QED
        BY <3>3, <3>6, <4>1 DEF RowItem, FitsRow
    <3>8. ~ Planned(d, item.idx)
      BY <2>1, <2>2, <3>3, <3>6
    <3> HIDE DEF item
    <3>9. DraftOk(e) /\ \A k : Planned(e, k) => Planned(d, k) \/ k = item.idx
      <4>1. item.len <= d.left
        BY <3>2, <3>3
      <4>2. CASE e = [ d EXCEPT !.logits = Append(@, item), !.left = @ - item.len ]
        BY ONLY <2>1, <3>4, <3>7, <3>8, <4>1, <4>2, AddLogits
      <4>3. CASE e = [ d EXCEPT !.others = Append(@, item), !.left = @ - item.len ]
        BY ONLY <2>1, <3>4, <3>7, <3>8, <4>1, <4>3, AddOthers
      <4> QED
        BY <3>2, <3>3, <4>2, <4>3
    <3>10. \A k : Planned(e, k) => k \in 1 .. i \/ PromptComplete(running[k])
      BY <2>1, <2>2, <3>3, <3>9
    <3> QED
      BY <2>2, <3>9, <3>10 DEF e
  <2> QED
    BY <2>3, <2>4
<1> HIDE DEF I, n
<1>6. n \in I
  <2>1. \A k \in 0 .. n : k \in I
    BY ONLY <1>1, <1>4, <1>5, LoopInduction
  <2>2. n \in 0 .. n
    BY <1>1
  <2> QED
    BY <2>1, <2>2
<1> QED
  BY <1>6 DEF I, n

(* plan: every item fits its row, no row has two, and together they ask for  *)
(* no more slots than are free.                                              *)
LEMMA PlanOfFacts ==
  ASSUME running \in Seq(Runnings), FreeSlots(pool) \in Nat
  PROVE  /\ PlanOf \in Seq(Items)
         /\ \A j \in 1 .. Len(PlanOf) : RowItem(PlanOf[j])
         /\ \A j, k \in 1 .. Len(PlanOf) : PlanOf[j].idx = PlanOf[k].idx => j = k
         /\ Asked(PlanOf, Len(PlanOf)) <= FreeSlots(pool)
<1> DEFINE d == Prefills[Len(running)]
           p == d.logits
           q == d.others
           m == Len(p)
           n == Len(q)
           r == p \o q
<1>1. DraftOk(d) /\ PlanOf = r
  BY PrefillsFacts DEF PlanOf
<1> HIDE DEF d
<1>2. /\ p \in Seq(Items) /\ q \in Seq(Items) /\ d.left \in Nat
      /\ Asked(p, m) + Asked(q, n) + d.left = Rows
  BY <1>1 DEF DraftOk, Drafts, Budgeted
<1>3. /\ \A j, k \in 1 .. m : p[j].idx = p[k].idx => j = k
      /\ \A j, k \in 1 .. n : q[j].idx = q[k].idx => j = k
      /\ \A j \in 1 .. m, k \in 1 .. n : p[j].idx # q[k].idx
      /\ \A j \in 1 .. m : RowItem(p[j])
      /\ \A j \in 1 .. n : RowItem(q[j])
  BY <1>1 DEF DraftOk, OncePerRow
<1>4. m \in Nat /\ n \in Nat
  BY <1>2, LenProperties
<1> HIDE DEF p, q
<1>5. /\ r \in Seq(Items) /\ Len(r) = m + n
      /\ \A j \in 1 .. m + n : r[j] = IF j <= m THEN p[j] ELSE q[j - m]
  BY <1>2, ConcatProperties
<1>6. Asked(r, Len(r)) = Asked(p, m) + Asked(q, n)
  <2>1. n \in 0 .. n
    BY <1>4
  <2> QED
    BY <1>2, <1>5, <2>1, AskedConcat
<1>7. Asked(p, m) \in Nat /\ Asked(q, n) \in Nat
  <2>1. n \in 0 .. n /\ m \in 0 .. m
    BY <1>4
  <2> QED
    BY <1>2, <2>1, AskedFacts
<1> HIDE DEF m, n, r
<1>8. \A j \in 1 .. m + n :
        \/ j \in 1 .. m /\ r[j] = p[j]
        \/ j - m \in 1 .. n /\ r[j] = q[j - m]
  <2> SUFFICES ASSUME NEW j \in 1 .. m + n
               PROVE  \/ j \in 1 .. m /\ r[j] = p[j]
                      \/ j - m \in 1 .. n /\ r[j] = q[j - m]
    OBVIOUS
  <2>1. CASE j <= m
    <3>1. j \in 1 .. m
      BY <1>4, <2>1
    <3>2. r[j] = p[j]
      BY <1>5, <2>1
    <3> QED
      BY <3>1, <3>2
  <2>2. CASE ~(j <= m)
    <3>1. j - m \in 1 .. n
      BY <1>4, <2>2
    <3> QED
      BY <1>5, <2>2, <3>1
  <2> QED
    BY <2>1, <2>2
<1>9. \A j \in 1 .. m + n : RowItem(r[j])
  BY <1>3, <1>8
<1>10. ASSUME NEW j \in 1 .. m + n, NEW k \in 1 .. m + n, r[j].idx = r[k].idx PROVE j = k
  <2>1. CASE j \in 1 .. m /\ r[j] = p[j] /\ k \in 1 .. m /\ r[k] = p[k]
    BY <1>3, <1>10, <2>1
  <2>2. CASE j - m \in 1 .. n /\ r[j] = q[j - m] /\ k - m \in 1 .. n /\ r[k] = q[k - m]
    <3>1. j - m = k - m
      BY <1>3, <1>10, <2>2
    <3> QED
      BY <1>4, <3>1
  <2>3. CASE j \in 1 .. m /\ r[j] = p[j] /\ k - m \in 1 .. n /\ r[k] = q[k - m]
    BY <1>3, <1>10, <2>3
  <2>4. CASE j - m \in 1 .. n /\ r[j] = q[j - m] /\ k \in 1 .. m /\ r[k] = p[k]
    BY <1>3, <1>10, <2>4
  <2> QED
    BY <1>8, <2>1, <2>2, <2>3, <2>4
<1>11. Asked(r, Len(r)) <= FreeSlots(pool)
  <2>1. Rows \in Nat /\ Rows <= FreeSlots(pool)
    BY RowsBound
  <2> QED
    BY <1>2, <1>6, <1>7, <2>1
<1> QED
  BY <1>1, <1>5, <1>9, <1>10, <1>11

-----------------------------------------------------------------------------
(* What the actions of PrefixPool do to the rows, as far as the scheduler    *)
(* keeps track of it: which exist, how long they are, and their texts.       *)
KeepsRow(id) == SeqLen(pool', id) = SeqLen(pool, id) /\ text'[id] = text[id]

(* A row is gone, and no other is touched. *)
FreesRow(id) ==
  /\ pool'.live = pool.live \ {id}
  /\ \A other \in SeqIds \ {id} : KeepsRow(other)

LEMMA FreeFrees ==
  ASSUME IInv, NEW id \in SeqIds, NEW q \in Pools, id \in pool.live,
         q.live = pool.live, q.slots = pool.slots, q.borrowed[id] <= SeqLen(q, id),
         pool' = Free(q, id), text' = [text EXCEPT ![id] = << >>]
  PROVE  FreesRow(id)
<1>1. /\ Free(q, id).live = q.live \ {id}
      /\ \A other \in SeqIds \ {id} : Free(q, id).slots[other] = q.slots[other]
  BY FreeFacts
<1>2. \A other \in SeqIds \ {id} : text'[other] = text[other]
  BY DEF IInv, TypeOK
<1> QED
  BY <1>1, <1>2 DEF FreesRow, KeepsRow, SeqLen

LEMMA RetireFrees ==
  ASSUME IInv, NEW id \in SeqIds, Retire(id)
  PROVE  FreesRow(id) /\ id \in pool.live
<1> DEFINE upto == FullBlocks(text[id]) * BLOCK
           q == KeepPrefix(pool, id, upto)
<1>1. /\ TypeOK /\ id \in pool.live /\ pool \in Pools
      /\ pool.borrowed[id] \in Nat /\ pool.borrowed[id] <= SeqLen(pool, id)
  BY RowFacts DEF IInv, Retire, TypeOK
<1>2. text' = [text EXCEPT ![id] = << >>]
  BY DEF Retire, Drop
<1>3. CASE pool' = Free(pool, id)
  BY <1>1, <1>2, <1>3, FreeFrees
<1>4. CASE pool' = Free(q, id) /\ CanKeepPrefix(pool, id, upto)
  <2>1. upto \in Nat
    <3>1. Len(text[id]) \in Nat
      BY <1>1, RowFacts
    <3> QED
      BY <3>1, WholeBlocks
  <2> HIDE DEF upto
  <2>2. /\ q \in Pools /\ q.live = pool.live /\ q.slots = pool.slots
        /\ q.borrowed[id] = IF pool.borrowed[id] < upto THEN upto ELSE pool.borrowed[id]
    BY <1>1, <2>1, KeepFacts
  <2> HIDE DEF q
  <2>3. q.borrowed[id] <= SeqLen(q, id)
    BY <1>1, <1>4, <2>1, <2>2 DEF CanKeepPrefix, SeqLen
  <2> QED
    BY <1>1, <1>2, <1>4, <2>2, <2>3, FreeFrees
<1> QED
  BY <1>1, <1>3, <1>4 DEF Retire, Drop

LEMMA FailFrees ==
  ASSUME IInv, NEW id \in SeqIds, Fail(id)
  PROVE  FreesRow(id) /\ id \in pool.live
<1>1. /\ id \in pool.live /\ pool \in Pools /\ pool.borrowed[id] <= SeqLen(pool, id)
      /\ pool' = Free(pool, id) /\ text' = [text EXCEPT ![id] = << >>]
  BY RowFacts DEF IInv, TypeOK, Fail, Drop
<1> QED
  BY <1>1, FreeFrees

(* A new row: as long as what it borrows, which is short of its prompt. *)
LEMMA AdmitRow ==
  ASSUME IInv, NEW id \in SeqIds, NEW prompt \in Prompts, Admit(id, prompt)
  PROVE  /\ id \notin pool.live /\ pool'.live = pool.live \cup {id}
         /\ \A other \in SeqIds \ {id} : KeepsRow(other)
         /\ text'[id] = prompt
         /\ SeqLen(pool', id) \in Nat /\ SeqLen(pool', id) < Len(prompt)
         /\ Len(prompt) \in Nat /\ Len(prompt) + 1 <= MaxSeq
<1> DEFINE q == Alloc(pool, id)
<1>1. TypeOK /\ pool \in Pools /\ text \in [SeqIds -> Seq(Contents)]
  BY DEF IInv, TypeOK
<1>2. id \notin pool.live /\ Len(prompt) + 1 <= MaxSeq /\ text' = [text EXCEPT ![id] = prompt]
  BY DEF Admit, CanAlloc
<1>3. q \in Pools /\ q.live = pool.live \cup {id} /\ q.slots = pool.slots
  BY <1>1, AllocFacts
<1>4. text'[id] = prompt /\ \A other \in SeqIds \ {id} : text'[other] = text[other]
  BY <1>1, <1>2
<1>5. prompt \in Seq(Contents) /\ Len(prompt) \in Nat
  BY TextIsTokens, LenProperties
<1>6. CASE HadVision(prompt)
  <2>1. pool' = q
    BY <1>6 DEF Admit
  <2>2. SeqLen(pool, id) = 0
    BY <1>2, DeadRow
  <2>3. Len(prompt) >= 1
    BY <1>5, <1>6 DEF HadVision
  <2> QED
    BY <1>2, <1>3, <1>4, <1>5, <2>1, <2>2, <2>3 DEF SeqLen, KeepsRow
<1>7. CASE ~HadVision(prompt)
  <2> DEFINE t == Ids(prompt)
  <2>1. PICK n \in 0 .. FullBlocks(prompt) :
          /\ Longest(cache, t, Len(prompt) - 1, n)
          /\ pool' = AttachPrefix(Alloc(pool, id), id, HitSlots(cache, t, n))
    BY <1>7 DEF Admit
  <2> DEFINE s == HitSlots(cache, t, n)
  <2>2. n \in Nat /\ n * BLOCK <= Len(prompt) - 1
        /\ \A i \in 1 .. n : KeyOf(t, i) \in DOMAIN cache.blocks
    BY <2>1 DEF Longest
  <2>3. s \in Seq(Slots) /\ Len(s) = n * BLOCK
    BY <1>1, <2>2, HitSlotsFacts
  <2>4. pool' = AttachPrefix(q, id, s)
    BY <2>1
  <2> HIDE DEF q, s, t
  <2>5. /\ AttachPrefix(q, id, s).live = q.live
        /\ AttachPrefix(q, id, s).slots[id] = s
        /\ \A other \in SeqIds \ {id} : AttachPrefix(q, id, s).slots[other] = q.slots[other]
    BY <1>3, <2>3, AttachFacts
  <2>6. Len(s) \in Nat /\ Len(s) < Len(prompt)
    <3>1. Len(s) \in Nat
      BY <2>3, LenProperties
    <3> QED
      BY <1>5, <2>2, <2>3, <3>1
  <2> QED
    BY <1>2, <1>3, <1>4, <1>5, <2>4, <2>5, <2>6 DEF SeqLen, KeepsRow
<1> QED
  BY <1>6, <1>7

(* Eviction touches no row, and only adds to the free stack. *)
LEMMA EvictRows ==
  ASSUME IInv, NEW key \in DOMAIN cache.blocks, EvictOne(key)
  PROVE  pool'.live = pool.live /\ \A id \in SeqIds : KeepsRow(id)
<1>1. pool \in Pools /\ cache.blocks[key].slots \in Seq(Slots)
  BY DEF IInv, TypeOK, Entries
<1> QED
  BY <1>1, ReleaseFacts DEF EvictOne, KeepsRow, SeqLen

(* An item of a forward pass makes its row longer by what it takes. *)
LEMMA ForwardRow ==
  ASSUME IInv, NEW id \in SeqIds, NEW n \in 1 .. MaxSeq, Forward(id, n)
  PROVE  /\ id \in pool.live /\ pool'.live = pool.live
         /\ \A other \in SeqIds \ {id} : KeepsRow(other)
         /\ text' = text
         /\ SeqLen(pool', id) = SeqLen(pool, id) + n
         /\ FreeSlots(pool') = FreeSlots(pool) - n
<1>1. pool \in Pools /\ n \in Nat /\ CanExtend(pool, id, n) /\ pool' = Extend(pool, id, n)
      /\ text' = text
  BY PoolSizes DEF IInv, TypeOK, Forward
<1>2. /\ pool'.live = pool.live /\ FreeSlots(pool') = FreeSlots(pool) - n
      /\ SeqLen(pool', id) = SeqLen(pool, id) + n
      /\ \A other \in SeqIds \ {id} : pool'.slots[other] = pool.slots[other]
  BY <1>1, ExtendFacts
<1> QED
  BY <1>1, <1>2 DEF CanExtend, KeepsRow, SeqLen

(* A sampled token makes its text longer by one. *)
LEMMA EmitRow ==
  ASSUME IInv, NEW id \in SeqIds, NEW token, Emit(id, token)
  PROVE  /\ pool' = pool /\ SeqLen(pool, id) = Len(text[id])
         /\ \A other \in SeqIds \ {id} : KeepsRow(other)
         /\ Len(text'[id]) = Len(text[id]) + 1
<1>1. text \in [SeqIds -> Seq(Contents)]
  BY DEF IInv, TypeOK
<1>2. text' = [text EXCEPT ![id] = Append(text[id], token)] /\ pool' = pool
      /\ SeqLen(pool, id) = Len(text[id])
  BY DEF Emit
<1>3. text'[id] = Append(text[id], token) /\ \A other \in SeqIds \ {id} : text'[other] = text[other]
  BY <1>1, <1>2
<1>4. Len(Append(text[id], token)) = Len(text[id]) + 1
  BY <1>1
<1> QED
  BY <1>2, <1>3, <1>4 DEF KeepsRow

-----------------------------------------------------------------------------
(* A row leaves `running`. *)
LEMMA SwapRemoveFacts ==
  ASSUME NEW S, NEW s \in Seq(S), NEW i \in 1 .. Len(s)
  PROVE  /\ SwapRemove(s, i) \in Seq(S)
         /\ Len(SwapRemove(s, i)) = Len(s) - 1
         /\ \A j \in 1 .. Len(s) - 1 : SwapRemove(s, i)[j] = IF j = i THEN s[Len(s)] ELSE s[j]
<1> DEFINE n == Len(s) - 1
           r == [ j \in 1 .. n |-> IF j = i THEN s[Len(s)] ELSE s[j] ]
<1>1. n \in Nat /\ n + 1 = Len(s)
  BY LenProperties
<1>2. ASSUME NEW j \in 1 .. n PROVE r[j] \in S
  <2>1. j \in 1 .. Len(s) /\ Len(s) \in 1 .. Len(s)
    BY <1>1
  <2>2. s[j] \in S /\ s[Len(s)] \in S
    BY <2>1, ElementOfSeq
  <2> QED
    BY <2>2
<1>3. r = SwapRemove(s, i)
  BY DEF SwapRemove
<1>4. \A j \in 1 .. n : r[j] = IF j = i THEN s[Len(s)] ELSE s[j]
  OBVIOUS
<1>5. r \in [1 .. n -> S]
  BY <1>2
<1> HIDE DEF r
<1>6. r \in Seq(S) /\ Len(r) = n
  <2> HIDE DEF n
  <2> QED
    BY <1>1, <1>5, IsASeq
<1> QED
  BY <1>3, <1>4, <1>6

(* A set of rows has a last one. *)
LEMMA LargestRow ==
  ASSUME NEW n \in Nat, NEW F \in SUBSET (1 .. n), F # {}
  PROVE  Max(F) \in F /\ \A j \in F : j <= Max(F)
<1> DEFINE I == { k \in 0 .. n : (\E j \in F : j <= k) =>
                                   \E x \in F : \A j \in F : j <= k => j <= x }
<1>1. 0 \in I
  OBVIOUS
<1>2. ASSUME NEW k \in 1 .. n, k - 1 \in I PROVE k \in I
  <2>1. CASE k \in F
    BY <2>1
  <2>2. CASE k \notin F
    <3>1. \A j \in F : j <= k <=> j <= k - 1
      BY <2>2
    <3>2. (\E j \in F : j <= k - 1) => \E x \in F : \A j \in F : j <= k - 1 => j <= x
      BY <1>2
    <3> QED
      BY <3>1, <3>2
  <2> QED
    BY <2>1, <2>2
<1> HIDE DEF I
<1>3. n \in I
  BY <1>1, <1>2, LoopInduction
<1>4. PICK x \in F : \A j \in F : x >= j
  <2>1. (\E j \in F : j <= n) => \E x \in F : \A j \in F : j <= n => j <= x
    BY <1>3 DEF I
  <2>2. \A j \in F : j \in 1 .. n /\ j <= n
    OBVIOUS
  <2> QED
    BY <2>1, <2>2
<1>5. Max(F) \in F /\ \A j \in F : Max(F) >= j
  BY <1>4 DEF Max
<1> QED
  BY <1>5

(* The rows after row i is gone: m says where each was before. *)
Leaves(i, m) ==
  /\ i \in 1 .. Len(running)
  /\ Len(running') = Len(running) - 1
  /\ m \in [1 .. Len(running) - 1 -> 1 .. Len(running)]
  /\ \A j, k \in 1 .. Len(running) - 1 : m[j] = m[k] => j = k
  /\ \A k \in 1 .. Len(running) : k # i => \E j \in 1 .. Len(running) - 1 : m[j] = k
  /\ \A j \in 1 .. Len(running) - 1 :
       /\ m[j] # i
       /\ running'[j] = running[m[j]]
       /\ j \in finished' <=> m[j] \in finished

LEMMA SwapLeaves ==
  ASSUME running \in Seq(Runnings), NEW i \in 1 .. Len(running),
         running' = SwapRemove(running, i),
         finished \subseteq 1 .. i, finished' = finished \ {i}
  PROVE  /\ \E m : Leaves(i, m)
         /\ running' \in Seq(Runnings) /\ finished' \subseteq 1 .. Len(running')
<1> DEFINE n == Len(running)
           m == [ j \in 1 .. n - 1 |-> IF j = i THEN n ELSE j ]
<1>1. /\ running' \in Seq(Runnings) /\ Len(running') = n - 1 /\ n \in Nat
      /\ \A j \in 1 .. n - 1 : running'[j] = IF j = i THEN running[n] ELSE running[j]
  BY SwapRemoveFacts, LenProperties
<1>2. i \in 1 .. n
  OBVIOUS
<1> HIDE DEF n
<1>3. m \in [1 .. n - 1 -> 1 .. n] /\ \A j \in 1 .. n - 1 : m[j] = IF j = i THEN n ELSE j
  BY <1>1, <1>2
<1> HIDE DEF m
<1>4. \A j, k \in 1 .. n - 1 : m[j] = m[k] => j = k
  BY <1>1, <1>2, <1>3
<1>5. ASSUME NEW k \in 1 .. n, k # i PROVE \E j \in 1 .. n - 1 : m[j] = k
  <2>1. CASE k = n
    <3>1. i \in 1 .. n - 1 /\ m[i] = n
      BY <1>1, <1>2, <1>3, <1>5, <2>1
    <3> QED
      BY <2>1, <3>1
  <2>2. CASE k # n
    <3>1. k \in 1 .. n - 1 /\ m[k] = k
      BY <1>1, <1>3, <1>5, <2>2
    <3> QED
      BY <3>1
  <2> QED
    BY <2>1, <2>2
<1>6. ASSUME NEW j \in 1 .. n - 1
      PROVE  m[j] # i /\ running'[j] = running[m[j]] /\ (j \in finished' <=> m[j] \in finished)
  <2>1. CASE j = i
    <3>1. m[j] = n /\ n # i /\ n \notin 1 .. i
      BY <1>1, <1>2, <1>3, <2>1
    <3> QED
      BY <1>1, <2>1, <3>1
  <2>2. CASE j # i
    BY <1>1, <1>3, <2>2
  <2> QED
    BY <2>1, <2>2
<1>7. finished' \subseteq 1 .. n - 1
  BY <1>1, <1>2
<1> QED
  BY <1>1, <1>2, <1>3, <1>4, <1>5, <1>6, <1>7 DEF Leaves, n

LEMMA TailLeaves ==
  ASSUME running \in Seq(Runnings), running # << >>,
         running' = Tail(running), finished = {}, finished' = {}
  PROVE  /\ \E m : Leaves(1, m)
         /\ Head(running) = running[1]
         /\ running' \in Seq(Runnings) /\ finished' \subseteq 1 .. Len(running')
<1> DEFINE n == Len(running)
           m == [ j \in 1 .. n - 1 |-> j + 1 ]
<1>1. /\ running' \in Seq(Runnings) /\ Len(running') = n - 1 /\ n \in Nat \ {0}
      /\ \A j \in 1 .. n - 1 : running'[j] = running[j + 1]
      /\ Head(running) = running[1]
  BY HeadTailProperties, LenProperties, EmptySeq
<1> HIDE DEF n
<1>2. m \in [1 .. n - 1 -> 1 .. n] /\ \A j \in 1 .. n - 1 : m[j] = j + 1
  BY <1>1
<1> HIDE DEF m
<1>3. \A j, k \in 1 .. n - 1 : m[j] = m[k] => j = k
  BY <1>1, <1>2
<1>4. ASSUME NEW k \in 1 .. n, k # 1 PROVE \E j \in 1 .. n - 1 : m[j] = k
  <2>1. k - 1 \in 1 .. n - 1 /\ m[k - 1] = k
    BY <1>1, <1>2, <1>4
  <2> QED
    BY <2>1
<1>5. \A j \in 1 .. n - 1 : m[j] # 1 /\ running'[j] = running[m[j]]
  BY <1>1, <1>2
<1>6. 1 \in 1 .. n
  BY <1>1
<1> QED
  BY <1>1, <1>2, <1>3, <1>4, <1>5, <1>6 DEF Leaves, n

-----------------------------------------------------------------------------
(* The inductive invariant. Requests first: the channel and the queue hold   *)
(* them in the order they were sent, and `cand` is from before both...       *)
LineInv ==
  /\ \A i, j \in 1 .. Len(jobs) : i < j => jobs[i] < jobs[j]
  /\ \A i, j \in 1 .. Len(waiting) : i < j => waiting[i].req < waiting[j].req
  /\ \A i \in 1 .. Len(waiting), j \in 1 .. Len(jobs) : waiting[i].req < jobs[j]
  /\ cand # NoCand => /\ \A i \in 1 .. Len(waiting) : cand.req < waiting[i].req
                      /\ \A j \in 1 .. Len(jobs) : cand.req < jobs[j]
  /\ \A r \in Requests : Queued(r) => r <= sent

(* ... those in a row or answered are from before all of these, and a request *)
(* sent is queued, in a row, answered, or nobody waits for it.               *)
Runs(r) == \E i \in 1 .. Len(running) : running[i].req = r
Begun(r) == Runs(r) \/ answer[r] # "none"
BegunInv ==
  /\ \A q, r \in Requests : Queued(q) /\ Begun(r) => r < q
  /\ \A r \in Requests : Begun(r) => r <= sent
  /\ \A r \in 1 .. sent : answer[r] = "none" /\ r \notin gone => Queued(r) \/ Runs(r)

(* No two rows have the same request or the same place in the pool, the rows *)
(* are those of the pool, and those of an answered request are `finished`.   *)
RowsInv ==
  /\ \A i, j \in 1 .. Len(running) : running[i].req = running[j].req => i = j
  /\ \A i, j \in 1 .. Len(running) : running[i].seq = running[j].seq => i = j
  /\ pool.live = { running[i].seq : i \in 1 .. Len(running) }
  /\ \A i \in 1 .. Len(running) :
       IF i \in finished THEN answer[running[i].req] # "none" \/ running[i].req \in gone
                         ELSE answer[running[i].req] = "none"

(* A plan names rows, none twice, and none that finished before its turn.    *)
PlanInv ==
  /\ finished # {} => phase \in {"advance", "retire"}
  /\ phase = "advance" => \A j \in at .. Len(plan) : plan[j].idx \notin finished
  /\ phase = "forward" => at <= Len(plan) + 1
  /\ phase \in {"forward", "advance"} =>
       /\ \A j \in 1 .. Len(plan) : plan[j].idx \in 1 .. Len(running)
       /\ \A j, k \in 1 .. Len(plan) : plan[j].idx = plan[k].idx => j = k

(* A row has room for a token more, has only its prompt until that is in, and *)
(* an item of the plan fits its row until the item is done with.             *)
Ahead ==
  { j \in 1 .. Len(plan) : phase = "forward" \/ (phase = "advance" /\ j >= at) }
TextInv ==
  /\ \A i \in 1 .. Len(running) : i \notin finished =>
       /\ Len(text[running[i].seq]) < MaxSeq
       /\ ~PromptComplete(running[i]) => Len(text[running[i].seq]) = Len(running[i].prompt)
  /\ \A j \in Ahead : FitsRow(plan[j])

(* A row's KV is what is booked for it, and, from its turn in the forward    *)
(* pass to its turn in advance, what its item fed as well.                   *)
Booked(r) == IF PromptComplete(r) THEN Len(text[r.seq]) - 1 ELSE r.prefilled
UnderWay ==
  { j \in 1 .. Len(plan) : (phase = "forward" /\ j < at) \/ (phase = "advance" /\ j >= at) }
FedInv ==
  phase # "fail" => \A i \in 1 .. Len(running) : i \notin finished =>
    /\ (\A j \in UnderWay : plan[j].idx # i) => SeqLen(pool, running[i].seq) = Booked(running[i])
    /\ \A j \in UnderWay : plan[j].idx = i =>
         SeqLen(pool, running[i].seq) = Booked(running[i]) + plan[j].len

(* The items still to be fed ask for no more than is free. *)
RoomInv ==
  phase = "forward" => Asked(plan, Len(plan)) - Asked(plan, at - 1) <= FreeSlots(pool)

SchedInv ==
  /\ SchedTypeOK
  /\ LineInv
  /\ BegunInv
  /\ RowsInv
  /\ PlanInv
  /\ TextInv
  /\ FedInv
  /\ RoomInv

-----------------------------------------------------------------------------
(* Types. *)
LEMMA TypeInit == SchedInit => SchedTypeOK
<1> SUFFICES ASSUME SchedInit PROVE SchedTypeOK
  OBVIOUS
<1>1. 0 \in 0 .. NumRequests
  BY SchedulerSizes
<1>2. /\ << >> \in Seq(Requests) /\ << >> \in Seq([req : Requests, pending : BOOLEAN])
      /\ << >> \in Seq(Runnings) /\ << >> \in Seq(Items)
  OBVIOUS
<1> QED
  BY <1>1, <1>2 DEF SchedInit, SchedTypeOK

(* Where an item under way points. *)
LEMMA ItemFacts ==
  ASSUME SchedTypeOK, PlanInv, phase \in {"forward", "advance"}, at <= Len(plan)
  PROVE  /\ at \in 1 .. Len(plan)
         /\ Item \in Items /\ Item.len \in Nat /\ Item.idx \in 1 .. Len(running)
         /\ Row \in Runnings /\ Row.seq \in SeqIds /\ Row.req \in Requests
         /\ phase = "advance" => Item.idx \notin finished
<1>1. plan \in Seq(Items) /\ running \in Seq(Runnings) /\ at \in Nat \ {0} /\ Len(plan) \in Nat
  BY LenProperties DEF SchedTypeOK
<1>2. at \in 1 .. Len(plan)
  BY <1>1
<1>3. Item \in Items /\ Item.idx \in 1 .. Len(running)
  BY <1>1, <1>2, ElementOfSeq DEF Item, PlanInv
<1>4. Row \in Runnings
  BY <1>1, <1>3, ElementOfSeq DEF Row
<1>5. phase = "advance" => at \in at .. Len(plan)
  BY <1>1
<1> QED
  BY <1>2, <1>3, <1>4, <1>5 DEF Items, Runnings, PlanInv, Item

(* The bookkeeping of an item: its row's prefilled, and no other row. *)
LEMMA FedFacts ==
  ASSUME SchedTypeOK, PlanInv, Advancing
  PROVE  /\ running' \in Seq(Runnings) /\ Len(running') = Len(running)
         /\ \A i \in 1 .. Len(running) : i # Item.idx => running'[i] = running[i]
         /\ LET r == running'[Item.idx]
            IN  /\ r.seq = Row.seq /\ r.req = Row.req /\ r.prompt = Row.prompt
                /\ r.prefilled = IF Item.kind = "prefill" THEN Row.prefilled + Item.len
                                                         ELSE Row.prefilled
<1> DEFINE i == Item.idx
           fed == [ Row EXCEPT !.prefilled = IF Item.kind = "prefill" THEN @ + Item.len ELSE @ ]
<1>1. running \in Seq(Runnings) /\ i \in 1 .. Len(running) /\ Row \in Runnings /\ Item.len \in Nat
  BY ItemFacts DEF Advancing, SchedTypeOK
<1>2. fed \in Runnings
  BY <1>1 DEF Runnings
<1>3. running' = [ running EXCEPT ![i] = fed ]
  BY DEF Advancing, Fed, Row
<1>4. /\ i = Item.idx /\ Row = running[i]
      /\ fed.seq = Row.seq /\ fed.req = Row.req /\ fed.prompt = Row.prompt
      /\ fed.prefilled = IF Item.kind = "prefill" THEN Row.prefilled + Item.len ELSE Row.prefilled
  BY <1>1 DEF Row, Runnings
<1> HIDE DEF i, fed
<1>5. running' \in Seq(Runnings) /\ Len(running') = Len(running)
  BY <1>1, <1>2, <1>3, ExceptSeq
<1>6. DOMAIN running = 1 .. Len(running)
  BY <1>1, LenProperties
<1>7. running'[i] = fed /\ \A j \in 1 .. Len(running) : j # i => running'[j] = running[j]
  BY <1>1, <1>3, <1>6
<1> QED
  BY <1>4, <1>5, <1>7

(* The row that ends, and the one that goes on. *)
LEMMA AdvancingSteps ==
  ASSUME \/ AdvancePrompt \/ AdvanceEog
         \/ \E token \in Tokens : AdvanceHungUp(token) \/ AdvanceStop(token) \/ AdvanceToken(token)
  PROVE  /\ Advancing
         /\ \/ Ends /\ Item.last /\ answer' = answer /\ Row.req \in gone
            \/ Ends /\ Item.last /\ \E event \in {"stop", "length"} : Answer(Row.req, event)
            \/ GoesOn
BY DEF AdvancePrompt, AdvanceEog, AdvanceHungUp, AdvanceStop, AdvanceToken

LEMMA TypeStep ==
  ASSUME IInv, PromptsInv, SchedTypeOK, PlanInv, [SchedNext]_svars
  PROVE  SchedTypeOK'
<1> DEFINE Events == {"none", "stop", "length", "failed"}
           Advances == \/ AdvancePrompt \/ AdvanceEog
                       \/ \E token \in Tokens :
                            AdvanceHungUp(token) \/ AdvanceStop(token) \/ AdvanceToken(token)
<1>1. /\ sent' \in 0 .. NumRequests
      /\ jobs' \in Seq(Requests)
      /\ waiting' \in Seq([req : Requests, pending : BOOLEAN])
  BY PromptsStep DEF PromptsInv, QueueEntries
<1>2. gone' \subseteq 1 .. sent'
  <2>1. gone \subseteq 1 .. sent /\ sent \in Nat
    BY DEF SchedTypeOK
  <2>2. CASE Submit
    BY <2>1, <2>2 DEF Submit
  <2>3. ASSUME NEW r \in Requests, Disconnect(r) PROVE gone' \subseteq 1 .. sent'
    BY <2>1, <2>3 DEF Disconnect, Requests
  <2>4. CASE Worker
    <3>1. gone' = gone /\ sent' = sent
      BY <2>4 DEF Worker, Receive, AdmitNoMore, TakeNext, EncodeFails, EvictTurn, EvictDone,
                  Reject, Requeue, Start, Granted, DropOrPass, MakePlan, ForwardItem,
                  ForwardFails, ForwardDone, AdvancePrompt, AdvanceEog, AdvanceHungUp,
                  AdvanceStop, AdvanceToken, Advancing, AdvanceDone, RetireLast, StepDone,
                  FailRunning, FailWaiting, ClientsIdle, queues
    <3> QED
      BY <2>1, <3>1
  <2>5. CASE UNCHANGED svars
    BY <2>1, <2>5 DEF svars, queues
  <2> QED
    BY <2>2, <2>3, <2>4, <2>5 DEF SchedNext
<1>3. answer' \in [Requests -> Events]
  <2>1. answer \in [Requests -> Events]
    BY DEF SchedTypeOK
  <2>2. CASE answer' = answer
    BY <2>1, <2>2
  <2>3. ASSUME NEW r, NEW event \in Events, Answer(r, event) PROVE answer' \in [Requests -> Events]
    BY <2>1, <2>3 DEF Answer
  <2>4. CASE EncodeFails \/ Reject \/ FailRunning
    BY <2>3, <2>4 DEF EncodeFails, Reject, FailRunning
  <2>5. CASE FailWaiting
    BY <2>1, <2>5 DEF FailWaiting
  <2>6. CASE Advances
    BY <2>2, <2>3, <2>6, AdvancingSteps DEF GoesOn
  <2>7. CASE \/ Submit \/ \E r \in Requests : Disconnect(r)
             \/ Receive \/ AdmitNoMore \/ TakeNext \/ EvictTurn \/ EvictDone \/ Requeue
             \/ \E seq \in SeqIds : Start(seq)
             \/ DropOrPass \/ MakePlan \/ ForwardItem \/ ForwardFails \/ ForwardDone
             \/ AdvanceDone \/ RetireLast \/ StepDone \/ UNCHANGED svars
    <3>1. answer' = answer
      BY <2>7 DEF Submit, Disconnect, Receive, AdmitNoMore, TakeNext, EvictTurn, EvictDone,
                  Requeue, Start, Granted, DropOrPass, MakePlan, ForwardItem, ForwardFails,
                  ForwardDone, AdvanceDone, RetireLast, StepDone, svars, queues
    <3> QED
      BY <2>2, <3>1
  <2> QED
    BY <2>4, <2>5, <2>6, <2>7 DEF SchedNext, Worker
<1>4. running' \in Seq(Runnings) /\ finished' \subseteq 1 .. Len(running')
  <2>1. running \in Seq(Runnings) /\ finished \subseteq 1 .. Len(running) /\ Len(running) \in Nat
    BY LenProperties DEF SchedTypeOK
  <2>2. CASE UNCHANGED << running, finished >>
    BY <2>1, <2>2
  <2>3. ASSUME NEW seq \in SeqIds, Start(seq) PROVE running' \in Seq(Runnings) /\ finished' \subseteq 1 .. Len(running')
    <3> DEFINE row == [ seq |-> seq, req |-> cand.req, prompt |-> cand.prompt,
                        prefilled |-> SeqLen(pool', seq) ]
    <3>1. cand.req \in Requests /\ cand.prompt \in Prompts
      BY <2>3 DEF Start, Granted, PromptsInv
    <3>2. SeqLen(pool', seq) \in Nat
      BY <2>3, <3>1, AdmitRow DEF Start
    <3>3. row \in Runnings
      BY <3>1, <3>2 DEF Runnings
    <3> HIDE DEF row
    <3>4. running' = Append(running, row) /\ finished' = finished
      BY <2>3 DEF Start, Starts, Granted, row
    <3>5. running' \in Seq(Runnings) /\ Len(running') = Len(running) + 1
      BY <2>1, <3>3, <3>4, AppendProperties
    <3> QED
      BY <2>1, <3>4, <3>5
  <2>4. CASE DropOrPass
    <3>1. CASE running[at].req \in gone
      <4>1. /\ at \in 1 .. Len(running) /\ running' = SwapRemove(running, at)
            /\ finished = {} /\ finished' = {}
        BY <2>1, <2>4, <3>1 DEF DropOrPass, SchedTypeOK, PlanInv
      <4>2. finished \subseteq 1 .. at /\ finished' = finished \ {at}
        BY <4>1
      <4> QED
        BY <2>1, <4>1, <4>2, SwapLeaves
    <3>2. CASE running[at].req \notin gone
      BY <2>2, <2>4, <3>2 DEF DropOrPass
    <3> QED
      BY <3>1, <3>2
  <2>5. CASE Advances
    <3>1. /\ Advancing /\ phase \in {"forward", "advance"} /\ at <= Len(plan)
          /\ \/ finished' = finished \cup {Item.idx}
             \/ finished' = finished
      BY <2>5, AdvancingSteps DEF Ends, GoesOn, Advancing
    <3>2. Item.idx \in 1 .. Len(running)
      BY <3>1, ItemFacts
    <3>3. running' \in Seq(Runnings) /\ Len(running') = Len(running)
      BY <3>1, FedFacts
    <3> QED
      BY <2>1, <3>1, <3>2, <3>3
  <2>6. CASE RetireLast
    <3>1. Max(finished) \in finished /\ finished \subseteq 1 .. Max(finished)
      <4>1. Max(finished) \in finished /\ \A j \in finished : j <= Max(finished)
        BY <2>1, <2>6, LargestRow DEF RetireLast
      <4> QED
        BY <2>1, <4>1
    <3>2. /\ running' = SwapRemove(running, Max(finished))
          /\ finished' = finished \ {Max(finished)}
      BY <2>6 DEF RetireLast
    <3> QED
      BY <2>1, <3>1, <3>2, SwapLeaves
  <2>7. CASE FailRunning
    <3>1. running # << >> /\ running' = Tail(running) /\ finished = {} /\ finished' = {}
      BY <2>7 DEF FailRunning, PlanInv, locals
    <3> QED
      BY <2>1, <3>1, TailLeaves
  <2>8. CASE \/ Submit \/ \E r \in Requests : Disconnect(r)
             \/ Receive \/ AdmitNoMore \/ TakeNext \/ EncodeFails \/ EvictTurn \/ EvictDone
             \/ Reject \/ Requeue \/ MakePlan \/ ForwardItem \/ ForwardFails \/ ForwardDone
             \/ AdvanceDone \/ StepDone \/ FailWaiting \/ UNCHANGED svars
    <3>1. UNCHANGED << running, finished >>
      BY <2>8 DEF Submit, Disconnect, Receive, AdmitNoMore, TakeNext, EncodeFails, EvictTurn,
                  EvictDone, Reject, Requeue, MakePlan, ForwardItem, ForwardFails, ForwardDone,
                  AdvanceDone, StepDone, FailWaiting, svars, locals
    <3> QED
      BY <2>2, <3>1
  <2> QED
    BY <2>3, <2>4, <2>5, <2>6, <2>7, <2>8 DEF SchedNext, Worker
<1>5. plan' \in Seq(Items) /\ at' \in Nat \ {0}
  <2>1. plan \in Seq(Items) /\ at \in Nat \ {0} /\ running \in Seq(Runnings)
    BY DEF SchedTypeOK
  <2>2. FreeSlots(pool) \in Nat
    BY PoolFields DEF IInv, TypeOK
  <2>3. PlanOf \in Seq(Items) /\ << >> \in Seq(Items)
    BY <2>1, <2>2, PlanOfFacts
  <2>4. /\ plan' = plan \/ plan' = PlanOf \/ plan' = << >>
        /\ at' = at \/ at' = at + 1 \/ at' = 1
    <3>1. CASE \/ Submit \/ \E r \in Requests : Disconnect(r)
               \/ Receive \/ AdmitNoMore \/ TakeNext \/ EncodeFails \/ EvictTurn \/ EvictDone
               \/ Reject \/ Requeue \/ \E seq \in SeqIds : Start(seq)
               \/ DropOrPass \/ MakePlan
      BY <3>1 DEF Submit, Disconnect, Receive, AdmitNoMore, TakeNext, EncodeFails, EvictTurn,
                  EvictDone, Reject, Requeue, Start, Granted, DropOrPass, MakePlan, locals
    <3>2. CASE \/ ForwardItem \/ ForwardFails \/ ForwardDone
               \/ AdvanceDone \/ RetireLast \/ StepDone \/ FailRunning \/ FailWaiting
               \/ UNCHANGED svars
      BY <3>2 DEF ForwardItem, ForwardFails, ForwardDone, AdvanceDone, RetireLast, StepDone,
                  FailRunning, FailWaiting, svars, locals
    <3>3. CASE Advances
      BY <3>3, AdvancingSteps DEF Advancing
    <3> QED
      BY <3>1, <3>2, <3>3 DEF SchedNext, Worker
  <2>5. plan' \in Seq(Items)
    BY <2>1, <2>3, <2>4
  <2>6. at' \in Nat \ {0}
    BY <2>1, <2>4
  <2> QED
    BY <2>5, <2>6
<1>6. committed' \in Nat /\ freed' \in Nat
  <2>1. committed \in Nat /\ freed \in Nat /\ freed + BLOCK \in Nat
    BY BlockSize DEF SchedTypeOK
  <2>2. ASSUME NEW seq \in SeqIds, Start(seq) PROVE committed' \in Nat /\ freed' \in Nat
    <3>1. Need \in Nat
      <4>1. cand.prompt \in Seq(Contents)
        BY <2>2, TextIsTokens DEF Start, Granted, PromptsInv
      <4>2. Len(cand.prompt) \in Nat
        BY <4>1, LenProperties
      <4> QED
        BY <4>2 DEF Need
    <3>2. committed' = committed + Need /\ freed' = freed
      BY <2>2 DEF Start, Granted
    <3> QED
      BY <2>1, <3>1, <3>2
  <2>3. CASE \/ Submit \/ \E r \in Requests : Disconnect(r)
             \/ Receive \/ AdmitNoMore \/ TakeNext \/ EncodeFails \/ EvictTurn \/ EvictDone
             \/ Reject \/ Requeue \/ DropOrPass \/ MakePlan
    BY <2>1, <2>3 DEF Submit, Disconnect, Receive, AdmitNoMore, TakeNext, EncodeFails, EvictTurn,
                EvictDone, Reject, Requeue, DropOrPass, MakePlan, locals
  <2>4. CASE \/ ForwardItem \/ ForwardFails \/ ForwardDone
             \/ AdvanceDone \/ RetireLast \/ StepDone \/ FailRunning \/ FailWaiting
             \/ UNCHANGED svars
    BY <2>1, <2>4 DEF ForwardItem, ForwardFails, ForwardDone, AdvanceDone, RetireLast, StepDone,
                FailRunning, FailWaiting, svars, locals
  <2>5. CASE Advances
    BY <2>1, <2>5, AdvancingSteps DEF Advancing
  <2> QED
    BY <2>2, <2>3, <2>4, <2>5 DEF SchedNext, Worker
<1>7. /\ phase' \in {"recv", "admit", "evict", "decide", "drop", "forward", "advance", "retire", "fail"}
      /\ phase' \in {"evict", "decide"} <=> cand' # NoCand
  <2>1. /\ phase \in {"recv", "admit", "evict", "decide", "drop", "forward", "advance", "retire", "fail"}
        /\ phase \in {"evict", "decide"} <=> cand # NoCand
    BY DEF SchedTypeOK
  <2>2. CASE TakeNext
    <3>1. cand'.req = Head(waiting).req /\ phase' \in {"evict", "decide"}
      BY <2>2 DEF TakeNext
    <3>2. Head(waiting).req \in Requests
      <4>1. Head(waiting) \in QueueEntries
        BY <2>2, HeadTailProperties DEF TakeNext, PromptsInv
      <4> QED
        BY <4>1 DEF QueueEntries
    <3>3. cand'.req # 0
      BY <3>1, <3>2, SchedulerSizes DEF Requests
    <3> QED
      BY <3>1, <3>3 DEF NoCand
  <2>3. CASE \/ Submit \/ \E r \in Requests : Disconnect(r)
             \/ Receive \/ AdmitNoMore \/ EncodeFails \/ EvictTurn \/ EvictDone
             \/ Reject \/ Requeue \/ DropOrPass \/ MakePlan \/ \E seq \in SeqIds : Start(seq)
    BY <2>1, <2>3 DEF Submit, Disconnect, Receive, AdmitNoMore, EncodeFails, EvictTurn,
                EvictDone, Reject, Requeue, DropOrPass, MakePlan, Start, Granted, locals
  <2>4. CASE \/ ForwardItem \/ ForwardFails \/ ForwardDone
             \/ AdvanceDone \/ RetireLast \/ StepDone \/ FailRunning \/ FailWaiting
             \/ UNCHANGED svars
    BY <2>1, <2>4 DEF ForwardItem, ForwardFails, ForwardDone, AdvanceDone, RetireLast, StepDone,
                FailRunning, FailWaiting, svars, locals
  <2>5. CASE Advances
    BY <2>1, <2>5, AdvancingSteps DEF Advancing
  <2> QED
    BY <2>2, <2>3, <2>4, <2>5 DEF SchedNext, Worker
<1> QED
  BY <1>1, <1>2, <1>3, <1>4, <1>5, <1>6, <1>7 DEF SchedTypeOK

-----------------------------------------------------------------------------
(* The rows and their requests. *)

(* The steps in which a row leaves, and why it may. *)
Departs(i, m) ==
  /\ Leaves(i, m)
  /\ FreesRow(running[i].seq)
  /\ phase \in {"drop", "retire", "fail"}
  /\ UNCHANGED << phase, plan, gone, sent, jobs, waiting, cand >>
  /\ \/ answer' = answer /\ (i \in finished \/ running[i].req \in gone)
     \/ finished = {} /\ Answer(running[i].req, "failed")

LEMMA DepartSteps ==
  ASSUME IInv, SchedTypeOK, PlanInv,
         \/ DropOrPass /\ running[at].req \in gone
         \/ RetireLast
         \/ FailRunning
  PROVE  \E i, m : Departs(i, m)
<1>1. running \in Seq(Runnings) /\ finished \subseteq 1 .. Len(running) /\ Len(running) \in Nat
  BY LenProperties DEF SchedTypeOK
<1>2. CASE DropOrPass /\ running[at].req \in gone
  <2>1. /\ at \in 1 .. Len(running) /\ running' = SwapRemove(running, at)
        /\ Retire(running[at].seq) /\ finished = {} /\ finished' = {}
    BY <1>1, <1>2 DEF DropOrPass, SchedTypeOK, PlanInv
  <2>2. finished \subseteq 1 .. at /\ finished' = finished \ {at}
    BY <2>1
  <2>3. PICK m : Leaves(at, m)
    BY <1>1, <2>1, <2>2, SwapLeaves
  <2>4. FreesRow(running[at].seq)
    BY <1>1, <2>1, RowNumbers, RetireFrees
  <2>5. Departs(at, m)
    BY <1>2, <2>3, <2>4 DEF Departs, DropOrPass, queues
  <2> QED
    BY <2>5
<1>3. CASE RetireLast
  <2> DEFINE i == Max(finished)
  <2>1. i \in finished /\ finished \subseteq 1 .. i
    <3>1. i \in finished /\ \A j \in finished : j <= i
      BY <1>1, <1>3, LargestRow DEF RetireLast
    <3> QED
      BY <1>1, <3>1
  <2>2. /\ running' = SwapRemove(running, i) /\ finished' = finished \ {i}
        /\ Retire(running[i].seq)
    BY <1>3 DEF RetireLast
  <2> HIDE DEF i
  <2>3. i \in 1 .. Len(running)
    BY <1>1, <2>1
  <2>4. PICK m : Leaves(i, m)
    BY <1>1, <2>1, <2>2, <2>3, SwapLeaves
  <2>5. FreesRow(running[i].seq)
    BY <1>1, <2>2, <2>3, RowNumbers, RetireFrees
  <2>6. Departs(i, m)
    BY <1>3, <2>1, <2>4, <2>5 DEF Departs, RetireLast, queues
  <2> QED
    BY <2>6
<1>4. CASE FailRunning
  <2>1. running # << >> /\ running' = Tail(running) /\ finished = {} /\ finished' = {}
    BY <1>4 DEF FailRunning, PlanInv, locals
  <2>2. (\E m : Leaves(1, m)) /\ Head(running) = running[1]
    BY <1>1, <2>1, TailLeaves
  <2>3. PICK m : Leaves(1, m)
    BY <2>2
  <2>4. 1 \in 1 .. Len(running)
    BY <2>3 DEF Leaves
  <2>5. FreesRow(running[1].seq)
    BY <1>1, <1>4, <2>2, <2>4, RowNumbers, FailFrees DEF FailRunning
  <2>6. Departs(1, m)
    BY <1>4, <2>1, <2>2, <2>3, <2>5 DEF Departs, FailRunning, ClientsIdle, locals
  <2> QED
    BY <2>6
<1> QED
  BY <1>2, <1>3, <1>4

(* A request that is queued is in no row and has no answer. *)
LEMMA QueuedApart ==
  ASSUME BegunInv, NEW r \in Requests, Queued(r)
  PROVE  ~Runs(r) /\ answer[r] = "none"
<1>1. r \in Nat /\ ~(r < r)
  BY DEF Requests
<1> QED
  BY <1>1 DEF BegunInv, Begun

(* The request at the head of the queue, and the one being decided on. *)
LEMMA HeadQueued ==
  ASSUME PromptsInv, waiting # << >>
  PROVE  Head(waiting) = waiting[1] /\ Head(waiting).req \in Requests /\ Queued(Head(waiting).req)
<1>1. waiting \in Seq(QueueEntries) /\ Head(waiting) = waiting[1] /\ 1 \in 1 .. Len(waiting)
  BY EmptySeq, HeadTailProperties DEF PromptsInv
<1>2. Head(waiting) \in QueueEntries
  BY HeadTailProperties DEF PromptsInv
<1> QED
  BY <1>1, <1>2 DEF Queued, QueueEntries

(* A row that leaves takes its request with it, and no other. *)
LEMMA DepartRows ==
  ASSUME SchedTypeOK, RowsInv, NEW i, NEW m, Departs(i, m)
  PROVE  RowsInv'
<1> DEFINE n == Len(running)
<1>1. /\ running \in Seq(Runnings) /\ n \in Nat /\ finished \subseteq 1 .. n
      /\ answer \in [Requests -> {"none", "stop", "length", "failed"}]
      /\ \A j \in 1 .. n : running[j].req \in Requests /\ running[j].seq \in SeqIds
  BY RowNumbers, LenProperties DEF SchedTypeOK
<1>2. /\ \A j, l \in 1 .. n : running[j].req = running[l].req => j = l
      /\ \A j, l \in 1 .. n : running[j].seq = running[l].seq => j = l
      /\ pool.live = { running[j].seq : j \in 1 .. n }
      /\ \A j \in 1 .. n :
           IF j \in finished THEN answer[running[j].req] # "none" \/ running[j].req \in gone
                             ELSE answer[running[j].req] = "none"
  BY DEF RowsInv
<1> DEFINE k == n - 1
           id == running[i].seq
<1>3. /\ i \in 1 .. n /\ Len(running') = k
      /\ m \in [1 .. k -> 1 .. n]
      /\ \A j, l \in 1 .. k : m[j] = m[l] => j = l
      /\ \A l \in 1 .. n : l # i => \E j \in 1 .. k : m[j] = l
      /\ \A j \in 1 .. k : /\ m[j] # i /\ running'[j] = running[m[j]]
                           /\ j \in finished' <=> m[j] \in finished
      /\ pool'.live = pool.live \ {id} /\ gone' = gone
  BY DEF Departs, Leaves, FreesRow
<1>4. \A l \in 1 .. n : l # i => answer'[running[l].req] = answer[running[l].req]
  <2>1. running[i].req \in Requests /\ \A l \in 1 .. n : l # i => running[l].req # running[i].req
    BY <1>1, <1>2, <1>3
  <2> QED
    BY <1>1, <2>1 DEF Departs, Answer
<1>5. id = running[i].seq
  OBVIOUS
<1> HIDE DEF n, k, id
<1>6. \A j \in 1 .. k : m[j] \in 1 .. n
  BY <1>3
<1>7. \A j, l \in 1 .. k : running'[j].req = running'[l].req => j = l
  BY <1>2, <1>3, <1>6
<1>8. \A j, l \in 1 .. k : running'[j].seq = running'[l].seq => j = l
  BY <1>2, <1>3, <1>6
<1>9. pool'.live = { running'[j].seq : j \in 1 .. k }
  <2>1. ASSUME NEW x \in pool.live \ {id} PROVE \E j \in 1 .. k : running'[j].seq = x
    <3>1. PICK l \in 1 .. n : running[l].seq = x
      BY <1>2
    <3>2. l # i
      BY <1>5, <3>1
    <3>3. PICK j \in 1 .. k : m[j] = l
      BY <1>3, <3>2
    <3> QED
      BY <1>3, <3>1, <3>3
  <2>2. ASSUME NEW j \in 1 .. k PROVE running'[j].seq \in pool.live \ {id}
    <3>1. running'[j].seq = running[m[j]].seq /\ m[j] \in 1 .. n /\ m[j] # i
      BY <1>3, <1>6
    <3> QED
      BY <1>2, <1>3, <1>5, <3>1
  <2> QED
    BY <1>3, <2>1, <2>2
<1>10. ASSUME NEW j \in 1 .. k
      PROVE  IF j \in finished' THEN answer'[running'[j].req] # "none" \/ running'[j].req \in gone
                                ELSE answer'[running'[j].req] = "none"
  <2>1. /\ m[j] \in 1 .. n /\ m[j] # i /\ running'[j] = running[m[j]]
        /\ j \in finished' <=> m[j] \in finished
    BY <1>3, <1>6
  <2>2. answer'[running'[j].req] = answer[running[m[j]].req]
    BY <1>4, <2>1
  <2> QED
    BY <1>2, <2>1, <2>2
<1> QED
  BY <1>3, <1>7, <1>8, <1>9, <1>10 DEF RowsInv

LEMMA RowsStep ==
  ASSUME IInv, PromptsInv, SchedTypeOK, BegunInv, PlanInv, RowsInv, [SchedNext]_svars
  PROVE  RowsInv'
<1> DEFINE Advances == \/ AdvancePrompt \/ AdvanceEog
                       \/ \E token \in Tokens :
                            AdvanceHungUp(token) \/ AdvanceStop(token) \/ AdvanceToken(token)
           n == Len(running)
<1>1. /\ running \in Seq(Runnings) /\ n \in Nat /\ finished \subseteq 1 .. n
      /\ answer \in [Requests -> {"none", "stop", "length", "failed"}]
      /\ \A i \in 1 .. n : running[i].req \in Requests /\ running[i].seq \in SeqIds
  BY RowNumbers, LenProperties DEF SchedTypeOK
<1>2. /\ \A i, j \in 1 .. n : running[i].req = running[j].req => i = j
      /\ \A i, j \in 1 .. n : running[i].seq = running[j].seq => i = j
      /\ pool.live = { running[i].seq : i \in 1 .. n }
      /\ \A i \in 1 .. n :
           IF i \in finished THEN answer[running[i].req] # "none" \/ running[i].req \in gone
                             ELSE answer[running[i].req] = "none"
  BY DEF RowsInv
<1>3. ASSUME UNCHANGED << running, finished >>, pool'.live = pool.live, gone \subseteq gone',
             \A i \in 1 .. n : answer'[running[i].req] = answer[running[i].req]
      PROVE  RowsInv'
  BY <1>2, <1>3 DEF RowsInv
<1>4. CASE EncodeFails \/ Reject
  <2>1. PICK r \in Requests : Queued(r) /\ Answer(r, "failed")
    <3>1. CASE EncodeFails
      BY <3>1, HeadQueued DEF EncodeFails
    <3>2. CASE Reject
      BY <3>2 DEF Reject, PromptsInv, Queued
    <3> QED
      BY <1>4, <3>1, <3>2
  <2>2. \A i \in 1 .. n : answer'[running[i].req] = answer[running[i].req]
    BY <1>1, <2>1, QueuedApart DEF Runs, Answer
  <2> QED
    BY <1>3, <1>4, <2>2 DEF EncodeFails, Reject, vars, locals, ClientsIdle
<1>5. CASE FailWaiting
  <2>1. n = 0
    BY <1>5 DEF FailWaiting
  <2> QED
    BY <1>3, <1>5, <2>1 DEF FailWaiting, vars, locals, ClientsIdle
<1>6. CASE EvictTurn \/ ForwardItem
  <2>1. pool'.live = pool.live
    <3>1. CASE EvictTurn
      BY <3>1, EvictRows DEF EvictTurn
    <3>2. CASE ForwardItem
      <4>1. /\ phase \in {"forward", "advance"} /\ at <= Len(plan)
            /\ Forward(Row.seq, Item.len) /\ Item.len \in 1 .. MaxSeq
        BY <3>2 DEF ForwardItem, Item, Row, Forward
      <4>2. Row.seq \in SeqIds
        BY <4>1, ItemFacts
      <4> QED
        BY <4>1, <4>2, ForwardRow
    <3> QED
      BY <1>6, <3>1, <3>2
  <2> QED
    BY <1>3, <1>6, <2>1 DEF EvictTurn, ForwardItem, queues
<1>7. CASE \/ Submit \/ \E r \in Requests : Disconnect(r)
           \/ Receive \/ AdmitNoMore \/ TakeNext \/ EvictDone \/ Requeue \/ MakePlan
           \/ DropOrPass /\ running[at].req \notin gone
           \/ ForwardFails \/ ForwardDone \/ AdvanceDone \/ StepDone \/ UNCHANGED svars
  <2>1. UNCHANGED << running, finished, pool, answer >> /\ gone \subseteq gone'
    BY <1>7 DEF Submit, Disconnect, Receive, AdmitNoMore, TakeNext, EvictDone, Requeue, MakePlan,
                DropOrPass, ForwardFails, ForwardDone, AdvanceDone, StepDone,
                svars, vars, locals, queues, ClientsIdle
  <2> QED
    BY <1>3, <2>1
<1>8. ASSUME NEW seq \in SeqIds, Start(seq) PROVE RowsInv'
  <2> DEFINE row == [ seq |-> seq, req |-> cand.req, prompt |-> cand.prompt,
                      prefilled |-> SeqLen(pool', seq) ]
  <2>1. /\ cand.req \in Requests /\ cand.prompt \in Prompts /\ Queued(cand.req)
        /\ UNCHANGED << finished, answer, gone >>
    BY <1>8 DEF Start, Granted, PromptsInv, Queued, queues
  <2>2. ~Runs(cand.req) /\ answer[cand.req] = "none"
    BY <2>1, QueuedApart
  <2>3. seq \notin pool.live /\ pool'.live = pool.live \cup {seq}
    BY <1>8, <2>1, AdmitRow DEF Start
  <2>4. running' = Append(running, row)
    BY <1>8 DEF Start, Starts
  <2>5. row.req = cand.req /\ row.seq = seq
    OBVIOUS
  <2> HIDE DEF row
  <2>6. /\ Len(running') = n + 1 /\ running'[n + 1] = row
        /\ \A i \in 1 .. n : running'[i] = running[i]
    BY <1>1, <2>4
  <2>7. \A i \in 1 .. n + 1 : i \in 1 .. n \/ i = n + 1
    BY <1>1
  <2>8. n + 1 \notin 1 .. n /\ n + 1 \in 1 .. n + 1 /\ \A i \in 1 .. n : i \in 1 .. n + 1
    BY <1>1
  <2> HIDE DEF n
  <2>9. \A i \in 1 .. n : running[i].req # cand.req
    BY <2>2 DEF Runs, n
  <2>10. \A i \in 1 .. n : running[i].seq # seq
    BY <1>2, <2>3
  <2>11. \A i, j \in 1 .. n + 1 : running'[i].req = running'[j].req => i = j
    BY <1>2, <2>5, <2>6, <2>7, <2>9
  <2>12. \A i, j \in 1 .. n + 1 : running'[i].seq = running'[j].seq => i = j
    BY <1>2, <2>5, <2>6, <2>7, <2>10
  <2>13. pool'.live = { running'[i].seq : i \in 1 .. n + 1 }
    BY <1>2, <2>3, <2>5, <2>6, <2>7, <2>8
  <2>14. \A i \in 1 .. n + 1 :
           IF i \in finished THEN answer[running'[i].req] # "none" \/ running'[i].req \in gone
                             ELSE answer[running'[i].req] = "none"
    BY <1>1, <1>2, <2>2, <2>5, <2>6, <2>7, <2>8
  <2> QED
    BY <2>1, <2>6, <2>11, <2>12, <2>13, <2>14 DEF RowsInv
<1>9. ASSUME NEW i, NEW m, Departs(i, m) PROVE RowsInv'
  BY <1>9, DepartRows
<1>10. CASE Advances
  <2> DEFINE i == Item.idx
  <2>1. /\ Advancing /\ i \in 1 .. n /\ i \notin finished /\ Row = running[i] /\ gone' = gone
        /\ pool' = pool
    BY <1>10, AdvancingSteps, ItemFacts
       DEF Advancing, Row, ClientsIdle, AdvancePrompt, AdvanceEog, AdvanceHungUp, AdvanceStop,
           AdvanceToken, Emit, vars
  <2>2. /\ Len(running') = n
        /\ \A j \in 1 .. n : running'[j].req = running[j].req /\ running'[j].seq = running[j].seq
    <3>1. /\ Len(running') = n /\ \A j \in 1 .. n : j # i => running'[j] = running[j]
          /\ running'[i].req = Row.req /\ running'[i].seq = Row.seq
      BY <2>1, FedFacts
    <3> QED
      BY <2>1, <3>1
  <2>3. \/ /\ finished' = finished \cup {i}
           /\ \/ answer' = answer /\ Row.req \in gone
              \/ \E event \in {"stop", "length"} : Answer(Row.req, event)
        \/ finished' = finished /\ answer' = answer
    BY <1>10, AdvancingSteps DEF Ends, GoesOn
  <2> HIDE DEF n, i
  <2>4. ASSUME NEW j \in 1 .. n
        PROVE  IF j \in finished' THEN answer'[running[j].req] # "none" \/ running[j].req \in gone
                                  ELSE answer'[running[j].req] = "none"
    <3>1. CASE j = i
      BY <1>1, <1>2, <2>1, <2>3, <3>1 DEF Answer
    <3>2. CASE j # i
      <4>1. running[j].req # Row.req
        BY <1>2, <2>1, <3>2
      <4>2. answer'[running[j].req] = answer[running[j].req] /\ (j \in finished' <=> j \in finished)
        BY <1>1, <2>1, <2>3, <3>2, <4>1 DEF Answer
      <4> QED
        BY <1>2, <4>2
    <3> QED
      BY <3>1, <3>2
  <2>5. pool'.live = { running'[j].seq : j \in 1 .. n }
    BY <1>2, <2>1, <2>2
  <2> QED
    BY <1>2, <2>1, <2>2, <2>4, <2>5 DEF RowsInv
<1>11. CASE (DropOrPass /\ running[at].req \in gone) \/ RetireLast \/ FailRunning
  BY <1>9, <1>11, DepartSteps
<1> QED
  BY <1>4, <1>5, <1>6, <1>7, <1>8, <1>10, <1>11 DEF SchedNext, Worker

-----------------------------------------------------------------------------
(* The line of requests: each step's effect on who is queued, and the order. *)
LEMMA LineFacts ==
  ASSUME PromptsInv, SchedTypeOK
  PROVE  /\ jobs \in Seq(Requests) /\ Len(jobs) \in Nat
         /\ \A i \in 1 .. Len(jobs) : jobs[i] \in Requests /\ jobs[i] \in Nat
         /\ waiting \in Seq(QueueEntries) /\ Len(waiting) \in Nat
         /\ \A i \in 1 .. Len(waiting) : waiting[i].req \in Requests /\ waiting[i].req \in Nat
         /\ sent \in Nat
         /\ cand # NoCand => cand.req \in Requests /\ cand.req \in Nat
         /\ NoCand.req = 0 /\ 0 \notin Requests
<1>1. jobs \in Seq(Requests) /\ waiting \in Seq(QueueEntries) /\ sent \in Nat
  BY DEF PromptsInv
<1>2. \A i \in 1 .. Len(jobs) : jobs[i] \in Requests
  BY <1>1, ElementOfSeq
<1>3. \A i \in 1 .. Len(waiting) : waiting[i] \in QueueEntries
  BY <1>1, ElementOfSeq
<1>4. Requests \subseteq Nat /\ 0 \notin Requests
  BY SchedulerSizes DEF Requests
<1>5. cand # NoCand => cand.req \in Requests
  BY DEF PromptsInv, SchedTypeOK
<1> QED
  BY <1>1, <1>2, <1>3, <1>4, <1>5, LenProperties DEF QueueEntries, NoCand

LEMMA SubmitLine ==
  ASSUME PromptsInv, SchedTypeOK, LineInv, Submit
  PROVE  LineInv' /\ \A r \in Requests : Queued(r)' <=> Queued(r) \/ r = sent + 1
<1> DEFINE n == Len(jobs)
<1>1. sent + 1 \in Requests /\ sent' = sent + 1
  BY SchedulerSizes DEF PromptsInv, Submit, Requests
<1>2. /\ Len(jobs') = n + 1 /\ jobs'[n + 1] = sent + 1
      /\ \A i \in 1 .. n : jobs'[i] = jobs[i]
  BY <1>1, LineFacts, AppendProperties DEF Submit
<1>3. waiting' = waiting /\ cand' = cand
  BY DEF Submit, locals
<1>4. /\ \A i \in 1 .. n : jobs[i] <= sent
      /\ \A i \in 1 .. Len(waiting) : waiting[i].req <= sent
      /\ cand # NoCand => cand.req <= sent
  BY LineFacts DEF LineInv, Queued
<1>5. n \in Nat /\ sent \in Nat
  BY LineFacts
<1> HIDE DEF n
<1>6. /\ n + 1 \in 1 .. n + 1 /\ \A i \in 1 .. n : i \in 1 .. n + 1
      /\ \A i \in 1 .. n + 1 : i \in 1 .. n \/ i = n + 1
  BY <1>5
<1>7. \A r : Queued(r)' <=> Queued(r) \/ r = sent + 1
  <2>1. \A r : (\E i \in 1 .. n + 1 : jobs'[i] = r) <=> (\E i \in 1 .. n : jobs[i] = r) \/ r = sent + 1
    BY <1>2, <1>6
  <2> QED
    BY <1>2, <1>3, <2>1 DEF Queued, n
<1>8. \A i, j \in 1 .. n + 1 : i < j => jobs'[i] < jobs'[j]
  <2> SUFFICES ASSUME NEW i \in 1 .. n + 1, NEW j \in 1 .. n + 1, i < j PROVE jobs'[i] < jobs'[j]
    OBVIOUS
  <2>1. i \in 1 .. n
    BY <1>5
  <2>2. CASE j \in 1 .. n
    BY <1>2, <2>1, <2>2 DEF LineInv, n
  <2>3. CASE j = n + 1
    <3>1. jobs[i] <= sent /\ jobs[i] \in Nat
      BY <1>4, <2>1, LineFacts DEF n
    <3> QED
      BY <1>2, <1>5, <2>1, <2>3, <3>1
  <2> QED
    BY <1>6, <2>2, <2>3
<1>9. \A i \in 1 .. Len(waiting), j \in 1 .. n + 1 : waiting[i].req < jobs'[j]
  <2> SUFFICES ASSUME NEW i \in 1 .. Len(waiting), NEW j \in 1 .. n + 1
               PROVE  waiting[i].req < jobs'[j]
    OBVIOUS
  <2>1. waiting[i].req <= sent /\ waiting[i].req \in Nat
    BY <1>4, LineFacts
  <2> QED
    BY <1>2, <1>5, <1>6, <2>1 DEF LineInv, n
<1>10. cand # NoCand => \A j \in 1 .. n + 1 : cand.req < jobs'[j]
  <2> SUFFICES ASSUME cand # NoCand, NEW j \in 1 .. n + 1 PROVE cand.req < jobs'[j]
    OBVIOUS
  <2>1. cand.req <= sent /\ cand.req \in Nat
    BY <1>4, LineFacts
  <2> QED
    BY <1>2, <1>5, <1>6, <2>1 DEF LineInv, n
<1>11. \A r \in Requests : Queued(r)' => r <= sent'
  BY <1>1, <1>5, <1>7 DEF LineInv, Requests
<1>12. /\ \A i, j \in 1 .. Len(waiting) : i < j => waiting[i].req < waiting[j].req
       /\ cand # NoCand => \A i \in 1 .. Len(waiting) : cand.req < waiting[i].req
  BY DEF LineInv
<1> QED
  BY <1>2, <1>3, <1>7, <1>8, <1>9, <1>10, <1>11, <1>12 DEF LineInv

LEMMA ReceiveLine ==
  ASSUME PromptsInv, SchedTypeOK, LineInv, Receive
  PROVE  LineInv' /\ \A r \in Requests : Queued(r)' <=> Queued(r)
<1> DEFINE m == Len(waiting)
           n == Len(jobs)
           taken == [ i \in 1 .. Len(jobs) |->
                        [ req |-> jobs[i], pending |-> HadVision(ask[jobs[i]].prompt) ] ]
<1>1. taken \in Seq(QueueEntries) /\ Len(taken) = n /\ \A i \in 1 .. n : taken[i].req = jobs[i]
  <2>1. ASSUME NEW i \in 1 .. n PROVE taken[i] \in QueueEntries /\ taken[i].req = jobs[i]
    <3>1. jobs[i] \in Requests
      BY LineFacts
    <3>2. HadVision(ask[jobs[i]].prompt) \in BOOLEAN
      BY DEF HadVision
    <3> QED
      BY <3>1, <3>2 DEF QueueEntries
  <2>2. n \in Nat
    BY LineFacts
  <2>3. taken \in [1 .. n -> QueueEntries]
    BY <2>1
  <2> HIDE DEF taken, n
  <2>4. taken \in Seq(QueueEntries) /\ Len(taken) = n
    BY <2>2, <2>3
  <2> QED
    BY <2>1, <2>4
<1>2. waiting' = waiting \o taken /\ jobs' = << >> /\ cand' = cand /\ cand = NoCand /\ sent' = sent
  BY DEF Receive, SchedTypeOK
<1> HIDE DEF taken
<1>3. /\ Len(waiting') = m + n
      /\ \A i \in 1 .. m + n : waiting'[i] = IF i <= m THEN waiting[i] ELSE taken[i - m]
  <2>1. waiting \in Seq(QueueEntries)
    BY LineFacts
  <2>2. /\ Len(waiting \o taken) = Len(waiting) + Len(taken)
        /\ \A i \in 1 .. Len(waiting) + Len(taken) :
             (waiting \o taken)[i] = IF i <= Len(waiting) THEN waiting[i] ELSE taken[i - Len(waiting)]
    BY <1>1, <2>1, ConcatProperties
  <2> QED
    BY <1>1, <1>2, <2>2
<1>4. m \in Nat /\ n \in Nat
  BY LineFacts
<1>5. /\ \A i \in 1 .. m : waiting[i].req \in Nat
      /\ \A i \in 1 .. n : jobs[i] \in Nat
      /\ \A i, j \in 1 .. m : i < j => waiting[i].req < waiting[j].req
      /\ \A i, j \in 1 .. n : i < j => jobs[i] < jobs[j]
      /\ \A i \in 1 .. m, j \in 1 .. n : waiting[i].req < jobs[j]
  BY LineFacts DEF LineInv
<1>6. \A r : Queued(r) <=> \/ \E i \in 1 .. n : jobs[i] = r
                           \/ \E i \in 1 .. m : waiting[i].req = r
                           \/ cand.req = r
  BY DEF Queued
<1> HIDE DEF m, n
<1>7. /\ \A i \in 1 .. m : i \in 1 .. m + n /\ i <= m
      /\ \A i \in 1 .. n : m + i \in 1 .. m + n /\ ~(m + i <= m) /\ (m + i) - m = i
      /\ \A i \in 1 .. m + n : ~(i <= m) => i - m \in 1 .. n
      /\ \A i \in 1 .. m + n : i <= m => i \in 1 .. m
  BY <1>4
<1>8. /\ \A i \in 1 .. m : waiting'[i].req = waiting[i].req
      /\ \A i \in 1 .. n : waiting'[m + i].req = jobs[i]
      /\ \A i \in 1 .. m + n : ~(i <= m) => waiting'[i].req = jobs[i - m]
  BY <1>1, <1>3, <1>7
<1>9. \A i, j \in 1 .. m + n : i < j => waiting'[i].req < waiting'[j].req
  <2> SUFFICES ASSUME NEW i \in 1 .. m + n, NEW j \in 1 .. m + n, i < j
               PROVE  waiting'[i].req < waiting'[j].req
    OBVIOUS
  <2>1. CASE i <= m /\ j <= m
    BY <1>5, <1>7, <1>8, <2>1
  <2>2. CASE i <= m /\ ~(j <= m)
    BY <1>5, <1>7, <1>8, <2>2
  <2>3. CASE ~(i <= m)
    <3>1. ~(j <= m) /\ i - m < j - m
      BY <1>4, <2>3
    <3> QED
      BY <1>5, <1>7, <1>8, <2>3, <3>1
  <2> QED
    BY <2>1, <2>2, <2>3
<1>10. \A r : (\E i \in 1 .. m + n : waiting'[i].req = r)
                <=> (\E i \in 1 .. m : waiting[i].req = r) \/ (\E i \in 1 .. n : jobs[i] = r)
  BY <1>7, <1>8
<1>11. Len(jobs') = 0
  BY <1>2
<1>12. \A r : Queued(r)' <=> Queued(r)
  <2>1. \A r : Queued(r)' <=> (\E i \in 1 .. m + n : waiting'[i].req = r) \/ cand.req = r
    BY <1>2, <1>3, <1>11 DEF Queued
  <2> QED
    BY <1>6, <1>10, <2>1
<1>13. \A r \in Requests : Queued(r)' => r <= sent'
  BY <1>2, <1>12 DEF LineInv
<1> QED
  BY <1>2, <1>3, <1>9, <1>11, <1>12, <1>13 DEF LineInv

(* The head of the queue goes: it becomes cand, or its picture fails.        *)
LEMMA HeadGoes ==
  ASSUME PromptsInv, SchedTypeOK, LineInv, waiting # << >>, waiting' = Tail(waiting),
         cand = NoCand, jobs' = jobs, sent' = sent,
         cand' = NoCand \/ cand'.req = Head(waiting).req
  PROVE  /\ LineInv'
         /\ cand' = NoCand => \A r \in Requests :
              /\ Queued(r)' <=> Queued(r) /\ r # Head(waiting).req
              /\ Queued(r)' => Head(waiting).req < r
         /\ cand'.req = Head(waiting).req =>
              \A r \in Requests : Queued(r)' <=> Queued(r)
<1> DEFINE m == Len(waiting)
           h == Head(waiting).req
<1>1. /\ m \in Nat \ {0} /\ Len(waiting') = m - 1
      /\ \A i \in 1 .. m - 1 : waiting'[i] = waiting[i + 1]
      /\ h = waiting[1].req
  BY LineFacts, HeadTailProperties, EmptySeq
<1>2. /\ \A i \in 1 .. m : waiting[i].req \in Nat
      /\ \A i, j \in 1 .. m : i < j => waiting[i].req < waiting[j].req
      /\ \A i \in 1 .. m, j \in 1 .. Len(jobs) : waiting[i].req < jobs[j]
      /\ \A i \in 1 .. Len(jobs) : jobs[i] \in Nat
      /\ \A i, j \in 1 .. Len(jobs) : i < j => jobs[i] < jobs[j]
  BY LineFacts DEF LineInv
<1>3. \A r : Queued(r) <=> \/ \E i \in 1 .. Len(jobs) : jobs[i] = r
                           \/ \E i \in 1 .. m : waiting[i].req = r
                           \/ cand.req = r
  BY DEF Queued
<1>4. \A r : Queued(r)' <=> \/ \E i \in 1 .. Len(jobs) : jobs[i] = r
                            \/ \E i \in 1 .. m - 1 : waiting'[i].req = r
                            \/ cand'.req = r
  BY <1>1 DEF Queued
<1>5. cand' = NoCand \/ cand'.req = h
  OBVIOUS
<1>6. h \in Requests /\ NoCand.req = 0 /\ 0 \notin Requests
  BY <1>1, LineFacts
<1> HIDE DEF m, h
<1>7. /\ 1 \in 1 .. m
      /\ \A i \in 1 .. m - 1 : i + 1 \in 1 .. m /\ i + 1 > 1
      /\ \A i \in 1 .. m : i # 1 => i - 1 \in 1 .. m - 1 /\ (i - 1) + 1 = i
      /\ \A i, j \in 1 .. m - 1 : i < j => i + 1 < j + 1
  BY <1>1
<1>8. /\ \A i \in 1 .. m - 1 : h < waiting'[i].req
      /\ \A j \in 1 .. Len(jobs) : h < jobs[j]
      /\ h \in Nat
  BY <1>1, <1>2, <1>7
<1>9. \A r : (\E i \in 1 .. m : waiting[i].req = r)
               <=> r = h \/ \E i \in 1 .. m - 1 : waiting'[i].req = r
  <2>1. ASSUME NEW r, NEW i \in 1 .. m, waiting[i].req = r
        PROVE  r = h \/ \E j \in 1 .. m - 1 : waiting'[j].req = r
    BY <1>1, <1>7, <2>1
  <2>2. ASSUME NEW r, NEW i \in 1 .. m - 1, waiting'[i].req = r
        PROVE  \E j \in 1 .. m : waiting[j].req = r
    BY <1>1, <1>7, <2>2
  <2> QED
    BY <1>1, <1>7, <2>1, <2>2
<1>10. ASSUME cand' = NoCand, NEW r \in Requests
      PROVE  (Queued(r)' <=> Queued(r) /\ r # h) /\ (Queued(r)' => h < r)
  <2>1. cand.req # r /\ cand'.req # r
    BY <1>6, <1>10
  <2>2. /\ ~ \E i \in 1 .. Len(jobs) : jobs[i] = h
        /\ ~ \E i \in 1 .. m - 1 : waiting'[i].req = h
    BY <1>1, <1>2, <1>7, <1>8
  <2>3. Queued(r)' => h < r
    BY <1>4, <1>8, <2>1
  <2> QED
    BY <1>3, <1>4, <1>9, <2>1, <2>2, <2>3
<1>11. ASSUME cand'.req = h, NEW r \in Requests PROVE Queued(r)' <=> Queued(r)
  <2>1. cand.req # r
    BY <1>6
  <2> QED
    BY <1>3, <1>4, <1>9, <1>11, <2>1
<1>12. \A i, j \in 1 .. m - 1 : i < j => waiting'[i].req < waiting'[j].req
  BY <1>1, <1>2, <1>7
<1>13. \A i \in 1 .. m - 1, j \in 1 .. Len(jobs) : waiting'[i].req < jobs[j]
  BY <1>1, <1>2, <1>7
<1>14. ASSUME NEW r \in Requests, Queued(r)' PROVE r <= sent
  BY <1>5, <1>10, <1>11, <1>14 DEF LineInv
<1>15. cand' # NoCand => /\ \A i \in 1 .. m - 1 : cand'.req < waiting'[i].req
                         /\ \A j \in 1 .. Len(jobs) : cand'.req < jobs[j]
  BY <1>5, <1>8
<1>16. LineInv'
  BY <1>1, <1>2, <1>12, <1>13, <1>14, <1>15 DEF LineInv
<1> QED
  BY <1>10, <1>11, <1>16 DEF h

(* cand is answered, or gets a row. *)
LEMMA CandGoes ==
  ASSUME PromptsInv, SchedTypeOK, LineInv, cand # NoCand, cand' = NoCand,
         UNCHANGED << jobs, waiting, sent >>
  PROVE  /\ LineInv'
         /\ \A r \in Requests : /\ Queued(r)' <=> Queued(r) /\ r # cand.req
                                /\ Queued(r)' => cand.req < r
<1>1. \A r \in Requests : /\ Queued(r)' <=> Queued(r) /\ r # cand.req
                          /\ Queued(r)' => cand.req < r
  <2>1. /\ \A i \in 1 .. Len(waiting) : waiting[i].req # cand.req
        /\ \A i \in 1 .. Len(jobs) : jobs[i] # cand.req
    BY LineFacts DEF LineInv
  <2>2. /\ \A i \in 1 .. Len(waiting) : cand.req < waiting[i].req
        /\ \A i \in 1 .. Len(jobs) : cand.req < jobs[i]
    BY DEF LineInv
  <2> QED
    BY <2>1, <2>2, LineFacts DEF Queued
<1>2. \A r \in Requests : Queued(r)' => r <= sent'
  <2>1. ASSUME NEW r \in Requests, Queued(r)' PROVE Queued(r)
    BY <1>1, <2>1
  <2>2. \A r \in Requests : Queued(r) => r <= sent
    BY DEF LineInv
  <2> QED
    BY <2>1, <2>2
<1>3. LineInv'
  BY <1>2 DEF LineInv
<1> QED
  BY <1>1, <1>3

(* cand goes back on the front of the queue. *)
LEMMA RequeueLine ==
  ASSUME PromptsInv, SchedTypeOK, LineInv, Requeue
  PROVE  LineInv' /\ \A r \in Requests : Queued(r)' <=> Queued(r)
<1> DEFINE m == Len(waiting)
           again == [ req |-> cand.req, pending |-> FALSE ]
<1>1. /\ waiting' = << again >> \o waiting /\ cand' = NoCand /\ cand # NoCand
      /\ UNCHANGED << jobs, sent >>
  BY DEF Requeue, ClientsIdle, SchedTypeOK
<1>2. again.req = cand.req /\ again \in QueueEntries
  BY <1>1, LineFacts DEF QueueEntries
<1> HIDE DEF again
<1>3. /\ Len(waiting') = 1 + m /\ m \in Nat
      /\ \A i \in 1 .. 1 + m : waiting'[i] = IF i <= 1 THEN again ELSE waiting[i - 1]
  <2>1. << again >> \in Seq(QueueEntries) /\ Len(<< again >>) = 1 /\ << again >>[1] = again
    BY <1>2
  <2>2. /\ Len(waiting') = 1 + m
        /\ \A i \in 1 .. 1 + m : waiting'[i] = IF i <= 1 THEN << again >>[i] ELSE waiting[i - 1]
    BY <1>1, <2>1, LineFacts, ConcatProperties
  <2>3. m \in Nat
    BY LineFacts
  <2> HIDE DEF m
  <2>4. \A i \in 1 .. 1 + m : i <= 1 => i = 1
    BY <2>3
  <2> QED
    BY <2>1, <2>2, <2>3, <2>4
<1>4. /\ \A i \in 1 .. m : waiting[i].req \in Nat /\ cand.req < waiting[i].req
      /\ \A i, j \in 1 .. m : i < j => waiting[i].req < waiting[j].req
      /\ \A i \in 1 .. m, j \in 1 .. Len(jobs) : waiting[i].req < jobs[j]
      /\ \A j \in 1 .. Len(jobs) : cand.req < jobs[j]
      /\ \A i, j \in 1 .. Len(jobs) : i < j => jobs[i] < jobs[j]
  BY <1>1, LineFacts DEF LineInv
<1>5. \A r : Queued(r) <=> \/ \E i \in 1 .. Len(jobs) : jobs[i] = r
                           \/ \E i \in 1 .. m : waiting[i].req = r
                           \/ cand.req = r
  BY DEF Queued
<1>6. \A r : Queued(r)' <=> \/ \E i \in 1 .. Len(jobs) : jobs[i] = r
                            \/ \E i \in 1 .. 1 + m : waiting'[i].req = r
                            \/ cand'.req = r
  BY <1>1, <1>3 DEF Queued
<1> HIDE DEF m
<1>7. /\ 1 \in 1 .. 1 + m
      /\ \A i \in 1 .. m : i + 1 \in 1 .. 1 + m /\ ~(i + 1 <= 1) /\ (i + 1) - 1 = i
      /\ \A i \in 1 .. 1 + m : ~(i <= 1) => i - 1 \in 1 .. m
      /\ \A i, j \in 1 .. 1 + m : i < j => i - 1 < j - 1 /\ ~(j <= 1)
  BY <1>3
<1>8. \A r : (\E i \in 1 .. 1 + m : waiting'[i].req = r)
               <=> r = cand.req \/ \E i \in 1 .. m : waiting[i].req = r
  <2>1. ASSUME NEW r, NEW i \in 1 .. 1 + m, waiting'[i].req = r
        PROVE  r = cand.req \/ \E j \in 1 .. m : waiting[j].req = r
    BY <1>2, <1>3, <1>7, <2>1
  <2>2. ASSUME NEW r, NEW i \in 1 .. m, waiting[i].req = r
        PROVE  \E j \in 1 .. 1 + m : waiting'[j].req = r
    BY <1>3, <1>7, <2>2
  <2>3. waiting'[1].req = cand.req
    BY <1>2, <1>3, <1>7
  <2> QED
    BY <1>7, <2>1, <2>2, <2>3
<1>9. ASSUME NEW r \in Requests PROVE Queued(r)' <=> Queued(r)
  <2>1. cand'.req # r
    BY <1>1, LineFacts
  <2> QED
    BY <1>5, <1>6, <1>8, <2>1
<1>10. \A i, j \in 1 .. 1 + m : i < j => waiting'[i].req < waiting'[j].req
  BY <1>2, <1>3, <1>4, <1>7
<1>11. \A i \in 1 .. 1 + m, j \in 1 .. Len(jobs) : waiting'[i].req < jobs[j]
  BY <1>2, <1>3, <1>4, <1>7
<1>12. \A r \in Requests : Queued(r)' => r <= sent
  BY <1>9 DEF LineInv
<1> QED
  BY <1>1, <1>3, <1>4, <1>9, <1>10, <1>11, <1>12 DEF LineInv

(* Nothing waits any more. *)
LEMMA FailLine ==
  ASSUME PromptsInv, SchedTypeOK, LineInv, FailWaiting
  PROVE  /\ LineInv'
         /\ \A r \in Requests : Queued(r)' <=> \E i \in 1 .. Len(jobs) : jobs[i] = r
<1>1. Len(waiting') = 0 /\ cand' = cand /\ cand = NoCand /\ UNCHANGED << jobs, sent >>
  BY DEF FailWaiting, SchedTypeOK, ClientsIdle, locals
<1>2. \A r \in Requests : Queued(r)' <=> \E i \in 1 .. Len(jobs) : jobs[i] = r
  BY <1>1, LineFacts DEF Queued
<1> QED
  BY <1>1, <1>2 DEF LineInv, Queued

(* Requests move from the line to the rows and the answered, in order.       *)
LEMMA BegunMove ==
  ASSUME SchedTypeOK, LineInv, BegunInv, sent' = sent, gone \subseteq gone',
         \A q \in Requests : Queued(q)' => Queued(q),
         \A r \in Requests : Begun(r)' /\ ~Begun(r) =>
           Queued(r) /\ \A q \in Requests : Queued(q)' => r < q,
         \A r \in Requests : answer'[r] = "none" =>
           /\ answer[r] = "none"
           /\ Queued(r) => Queued(r)' \/ Runs(r)'
           /\ r \notin gone' /\ Runs(r) => Runs(r)'
  PROVE  BegunInv'
<1>1. \A q, r \in Requests : Queued(q)' /\ Begun(r)' => r < q
  BY DEF BegunInv
<1>2. \A r \in Requests : Begun(r)' => r <= sent
  BY DEF BegunInv, LineInv
<1>3. \A r \in 1 .. sent : r \in Requests
  BY SchedulerSizes DEF SchedTypeOK, Requests
<1>4. \A r \in 1 .. sent : answer'[r] = "none" /\ r \notin gone' => Queued(r)' \/ Runs(r)'
  BY <1>3 DEF BegunInv
<1> QED
  BY <1>1, <1>2, <1>4 DEF BegunInv

LEMMA DepartRequests ==
  ASSUME SchedTypeOK, LineInv, BegunInv, RowsInv, NEW i, NEW m, Departs(i, m)
  PROVE  LineInv' /\ BegunInv'
<1> DEFINE n == Len(running)
<1>1. /\ running \in Seq(Runnings) /\ n \in Nat /\ finished \subseteq 1 .. n
      /\ answer \in [Requests -> {"none", "stop", "length", "failed"}]
      /\ \A j \in 1 .. n : running[j].req \in Requests
  BY RowNumbers, LenProperties DEF SchedTypeOK
<1>2. ASSUME UNCHANGED << jobs, waiting, cand, sent >>
      PROVE  LineInv' /\ \A r : Queued(r)' <=> Queued(r)
  BY <1>2 DEF LineInv, Queued
<1> DEFINE h == running[i].req
<1>3. /\ i \in 1 .. n /\ Len(running') = n - 1 /\ m \in [1 .. n - 1 -> 1 .. n]
      /\ \A l \in 1 .. n : l # i => \E j \in 1 .. n - 1 : m[j] = l
      /\ \A j \in 1 .. n - 1 : running'[j] = running[m[j]]
      /\ UNCHANGED << jobs, waiting, cand, sent, gone >>
  BY DEF Departs, Leaves
<1>4. \/ answer' = answer /\ (answer[h] # "none" \/ h \in gone)
      \/ Answer(h, "failed")
  BY <1>3 DEF Departs, RowsInv
<1>5. LineInv' /\ \A r : Queued(r)' <=> Queued(r)
  BY <1>2, <1>3
<1>6. h \in Requests /\ Runs(h)
  BY <1>1, <1>3 DEF Runs
<1>7. /\ \A r : Runs(r) <=> \E j \in 1 .. n : running[j].req = r
      /\ \A r : Runs(r)' <=> \E j \in 1 .. n - 1 : running'[j].req = r
  BY <1>3 DEF Runs
<1>8. h = running[i].req
  OBVIOUS
<1> HIDE DEF n, h
<1>9. \A r : Runs(r)' => Runs(r)
  BY <1>3, <1>7
<1>10. \A r : Runs(r) /\ r # h => Runs(r)'
  BY <1>3, <1>7, <1>8
<1>11. \A r \in Requests : /\ r # h => answer'[r] = answer[r]
                           /\ answer'[r] = "none" => answer[r] = "none"
  BY <1>1, <1>4 DEF Answer
<1>12. answer'[h] # "none" \/ h \in gone
  BY <1>1, <1>4, <1>6 DEF Answer
<1>13. \A r \in Requests : Begun(r)' => Begun(r)
  BY <1>6, <1>9, <1>11 DEF Begun
<1>14. BegunInv'
  BY <1>3, <1>5, <1>10, <1>11, <1>12, <1>13, BegunMove
<1> QED
  BY <1>5, <1>14

LEMMA RequestsStep ==
  ASSUME IInv, PromptsInv, SchedTypeOK, LineInv, BegunInv, PlanInv, RowsInv, [SchedNext]_svars
  PROVE  LineInv' /\ BegunInv'
<1> DEFINE Advances == \/ AdvancePrompt \/ AdvanceEog
                       \/ \E token \in Tokens :
                            AdvanceHungUp(token) \/ AdvanceStop(token) \/ AdvanceToken(token)
           n == Len(running)
<1>1. /\ running \in Seq(Runnings) /\ n \in Nat /\ finished \subseteq 1 .. n
      /\ answer \in [Requests -> {"none", "stop", "length", "failed"}]
      /\ \A i \in 1 .. n : running[i].req \in Requests
  BY RowNumbers, LenProperties DEF SchedTypeOK
<1>2. ASSUME UNCHANGED << jobs, waiting, cand, sent >>
      PROVE  LineInv' /\ \A r : Queued(r)' <=> Queued(r)
  BY <1>2 DEF LineInv, Queued
<1>3. CASE Submit
  <2>1. LineInv' /\ \A r \in Requests : Queued(r)' <=> Queued(r) \/ r = sent + 1
    BY <1>3, SubmitLine
  <2>2. sent' = sent + 1 /\ UNCHANGED << running, answer, gone >> /\ sent \in Nat
    BY <1>3, LineFacts DEF Submit
  <2>3. \A r : (Begun(r)' <=> Begun(r)) /\ (Runs(r)' <=> Runs(r))
    BY <2>2 DEF Begun, Runs
  <2>4. \A r \in Requests : Begun(r) => r <= sent /\ r < sent + 1
    BY <2>2 DEF BegunInv, Requests
  <2>5. \A r \in 1 .. sent + 1 : (r \in 1 .. sent \/ r = sent + 1) /\ r \in Requests
    BY <1>3, <2>2, SchedulerSizes DEF Submit, Requests
  <2>6. \A q, r \in Requests : Queued(q)' /\ Begun(r)' => r < q
    BY <2>1, <2>3, <2>4 DEF BegunInv
  <2>7. \A r \in Requests : Begun(r)' => r <= sent + 1
    BY <2>2, <2>3, <2>4 DEF Requests
  <2>8. \A r \in 1 .. sent + 1 : answer[r] = "none" /\ r \notin gone => Queued(r)' \/ Runs(r)'
    BY <2>1, <2>3, <2>5 DEF BegunInv
  <2> QED
    BY <2>1, <2>2, <2>6, <2>7, <2>8 DEF BegunInv
<1>4. ASSUME UNCHANGED << sent, running, answer >>, gone \subseteq gone',
             \A r \in Requests : Queued(r)' <=> Queued(r)
      PROVE  BegunInv'
  <2>1. \A r : (Begun(r)' <=> Begun(r)) /\ (Runs(r)' <=> Runs(r))
    BY <1>4 DEF Begun, Runs
  <2> QED
    BY <1>4, <2>1, BegunMove
<1>5. CASE Receive
  BY <1>4, <1>5, ReceiveLine DEF Receive
<1>6. CASE TakeNext
  <2>1. cand'.req = Head(waiting).req /\ cand = NoCand
    BY <1>6 DEF TakeNext, SchedTypeOK
  <2>2. LineInv' /\ \A r \in Requests : Queued(r)' <=> Queued(r)
    BY <1>6, <2>1, HeadGoes DEF TakeNext, ClientsIdle
  <2> QED
    BY <1>4, <1>6, <2>2 DEF TakeNext, ClientsIdle
<1>7. CASE Requeue
  BY <1>4, <1>7, RequeueLine DEF Requeue, ClientsIdle
<1>8. ASSUME NEW h \in Requests, Queued(h), LineInv',
             \A r \in Requests : (Queued(r)' <=> Queued(r) /\ r # h) /\ (Queued(r)' => h < r),
             UNCHANGED << sent, gone, running >>, Answer(h, "failed")
      PROVE  BegunInv'
  <2>1. /\ \A r \in Requests : r # h => answer'[r] = answer[r]
        /\ answer'[h] # "none"
    BY <1>1, <1>8 DEF Answer
  <2>2. \A r : Runs(r)' <=> Runs(r)
    BY <1>8 DEF Runs
  <2>3. \A r \in Requests : Begun(r)' /\ ~Begun(r) => r = h
    BY <2>1, <2>2 DEF Begun
  <2> QED
    BY <1>8, <2>1, <2>2, <2>3, BegunMove
<1>9. CASE EncodeFails
  <2>1. cand = NoCand /\ cand' = NoCand
    BY <1>9 DEF EncodeFails, SchedTypeOK, locals
  <2>2. /\ LineInv'
        /\ \A r \in Requests : /\ Queued(r)' <=> Queued(r) /\ r # Head(waiting).req
                               /\ Queued(r)' => Head(waiting).req < r
    BY <1>9, <2>1, HeadGoes DEF EncodeFails, ClientsIdle
  <2>3. Head(waiting).req \in Requests /\ Queued(Head(waiting).req)
    BY <1>9, HeadQueued DEF EncodeFails
  <2> QED
    BY <1>8, <1>9, <2>2, <2>3 DEF EncodeFails, ClientsIdle
<1>10. ASSUME cand' = NoCand, phase = "decide", UNCHANGED << jobs, waiting, sent >>
       PROVE  /\ cand.req \in Requests /\ Queued(cand.req) /\ LineInv'
              /\ \A r \in Requests : /\ Queued(r)' <=> Queued(r) /\ r # cand.req
                                     /\ Queued(r)' => cand.req < r
  <2>1. cand # NoCand /\ cand.req \in Requests
    BY <1>10 DEF SchedTypeOK, PromptsInv
  <2>2. Queued(cand.req)
    BY DEF Queued
  <2>3. /\ LineInv'
        /\ \A r \in Requests : /\ Queued(r)' <=> Queued(r) /\ r # cand.req
                               /\ Queued(r)' => cand.req < r
    BY <1>10, <2>1, CandGoes
  <2> QED
    BY <2>1, <2>2, <2>3
<1>11. CASE Reject
  <2>1. cand' = NoCand /\ phase = "decide" /\ UNCHANGED << jobs, waiting, sent, gone, running >>
        /\ Answer(cand.req, "failed")
    BY <1>11 DEF Reject, ClientsIdle
  <2> QED
    BY <1>8, <1>10, <2>1
<1>12. ASSUME NEW seq \in SeqIds, Start(seq) PROVE LineInv' /\ BegunInv'
  <2> DEFINE row == [ seq |-> seq, req |-> cand.req, prompt |-> cand.prompt,
                      prefilled |-> SeqLen(pool', seq) ]
  <2>1. /\ cand' = NoCand /\ phase = "decide" /\ UNCHANGED << jobs, waiting, sent, gone, answer >>
        /\ running' = Append(running, row) /\ row.req = cand.req
    BY <1>12 DEF Start, Starts, Granted, queues
  <2>2. /\ cand.req \in Requests /\ Queued(cand.req) /\ LineInv'
        /\ \A r \in Requests : /\ Queued(r)' <=> Queued(r) /\ r # cand.req
                               /\ Queued(r)' => cand.req < r
    BY <1>10, <2>1
  <2> HIDE DEF row
  <2>3. /\ Len(running') = n + 1 /\ running'[n + 1] = row
        /\ \A i \in 1 .. n : running'[i] = running[i]
    BY <1>1, <2>1
  <2>4. /\ n + 1 \in 1 .. n + 1 /\ \A i \in 1 .. n : i \in 1 .. n + 1
        /\ \A i \in 1 .. n + 1 : i \in 1 .. n \/ i = n + 1
    BY <1>1
  <2>5. \A r : Runs(r) <=> \E i \in 1 .. n : running[i].req = r
    BY DEF Runs
  <2>6. \A r : Runs(r)' <=> \E i \in 1 .. n + 1 : running'[i].req = r
    BY <2>3 DEF Runs
  <2> HIDE DEF n
  <2>7. \A r : Runs(r)' <=> Runs(r) \/ r = cand.req
    BY <2>1, <2>3, <2>4, <2>5, <2>6
  <2>8. \A r \in Requests : Begun(r)' /\ ~Begun(r) => r = cand.req
    BY <2>1, <2>7 DEF Begun
  <2>9. BegunInv'
    BY <2>1, <2>2, <2>7, <2>8, BegunMove
  <2> QED
    BY <2>2, <2>9
<1>13. CASE FailWaiting
  <2>1. /\ LineInv'
        /\ \A r \in Requests : Queued(r)' <=> \E i \in 1 .. Len(jobs) : jobs[i] = r
    BY <1>13, FailLine
  <2>2. UNCHANGED << sent, gone, running >>
    BY <1>13 DEF FailWaiting, ClientsIdle
  <2>3. \A r \in Requests :
          answer'[r] = IF \E i \in 1 .. Len(waiting) : waiting[i].req = r THEN "failed" ELSE answer[r]
    BY <1>13 DEF FailWaiting
  <2>4. cand = NoCand /\ \A r \in Requests : cand.req # r
    BY <1>13, LineFacts DEF FailWaiting, SchedTypeOK
  <2>5. \A r : Runs(r)' <=> Runs(r)
    BY <2>2 DEF Runs
  <2>6. \A r \in Requests : Begun(r)' /\ ~Begun(r) =>
          \E i \in 1 .. Len(waiting) : waiting[i].req = r
    BY <2>3, <2>5 DEF Begun
  <2>7. \A r \in Requests : Begun(r)' /\ ~Begun(r) =>
          Queued(r) /\ \A q \in Requests : Queued(q)' => r < q
    BY <2>1, <2>6 DEF Queued, LineInv
  <2>8. \A r \in Requests : Queued(r)' => Queued(r)
    BY <2>1 DEF Queued
  <2>9. \A r \in Requests : answer'[r] = "none" => answer[r] = "none" /\ (Queued(r) => Queued(r)')
    BY <2>1, <2>3, <2>4 DEF Queued
  <2>10. BegunInv'
    BY <2>2, <2>5, <2>7, <2>8, <2>9, BegunMove
  <2> QED
    BY <2>1, <2>10
<1>14. CASE Advances
  <2> DEFINE i == Item.idx
  <2>1. /\ Advancing /\ i \in 1 .. n /\ Row = running[i]
        /\ UNCHANGED << jobs, waiting, cand, sent, gone >>
    BY <1>14, AdvancingSteps, ItemFacts DEF Advancing, Row, ClientsIdle
  <2>2. Len(running') = n /\ \A j \in 1 .. n : running'[j].req = running[j].req
    <3>1. /\ Len(running') = n /\ \A j \in 1 .. n : j # i => running'[j] = running[j]
          /\ running'[i].req = Row.req
      BY <2>1, FedFacts
    <3> QED
      BY <2>1, <3>1
  <2>3. \/ answer' = answer
        \/ \E event \in {"stop", "length"} : Answer(Row.req, event)
    BY <1>14, AdvancingSteps DEF GoesOn
  <2>4. \A r : Runs(r)' <=> Runs(r)
    BY <2>2 DEF Runs
  <2>5. Runs(Row.req)
    BY <2>1 DEF Runs
  <2>6. \A r \in Requests : /\ r # Row.req => answer'[r] = answer[r]
                            /\ answer'[r] = "none" => answer[r] = "none"
    BY <1>1, <2>3 DEF Answer
  <2>7. \A r \in Requests : Begun(r)' => Begun(r)
    BY <2>4, <2>5, <2>6 DEF Begun
  <2>8. LineInv' /\ \A r : Queued(r)' <=> Queued(r)
    BY <1>2, <2>1
  <2> QED
    BY <2>1, <2>4, <2>6, <2>7, <2>8, BegunMove
<1>15. ASSUME NEW i, NEW m, Departs(i, m) PROVE LineInv' /\ BegunInv'
  BY <1>15, DepartRequests
<1>16. CASE (DropOrPass /\ running[at].req \in gone) \/ RetireLast \/ FailRunning
  BY <1>15, <1>16, DepartSteps
<1>17. CASE \/ \E r \in Requests : Disconnect(r)
            \/ AdmitNoMore \/ EvictTurn \/ EvictDone \/ MakePlan
            \/ DropOrPass /\ running[at].req \notin gone
            \/ ForwardItem \/ ForwardFails \/ ForwardDone \/ AdvanceDone \/ StepDone
            \/ UNCHANGED svars
  <2>1. UNCHANGED << jobs, waiting, cand, sent, running, answer >> /\ gone \subseteq gone'
    BY <1>17 DEF Disconnect, AdmitNoMore, EvictTurn, EvictDone, MakePlan,
                 DropOrPass, ForwardItem, ForwardFails, ForwardDone, AdvanceDone, StepDone,
                 svars, locals, queues
  <2>2. LineInv' /\ \A r : Queued(r)' <=> Queued(r)
    BY <1>2, <2>1
  <2> QED
    BY <1>4, <2>1, <2>2
<1> QED
  BY <1>3, <1>5, <1>6, <1>7, <1>9, <1>11, <1>12, <1>13, <1>14, <1>16, <1>17 DEF SchedNext, Worker

-----------------------------------------------------------------------------
(* The plan. *)
LEMMA PlanStep ==
  ASSUME IInv, SchedTypeOK, PlanInv, [SchedNext]_svars
  PROVE  PlanInv'
<1> DEFINE Advances == \/ AdvancePrompt \/ AdvanceEog
                       \/ \E token \in Tokens :
                            AdvanceHungUp(token) \/ AdvanceStop(token) \/ AdvanceToken(token)
<1>1. /\ plan \in Seq(Items) /\ Len(plan) \in Nat /\ at \in Nat \ {0}
      /\ running \in Seq(Runnings) /\ FreeSlots(pool) \in Nat
  BY PoolFields, LenProperties DEF SchedTypeOK, IInv, TypeOK
<1>2. ASSUME phase' \notin {"forward", "advance", "retire"},
             finished' = {}
      PROVE  PlanInv'
  BY <1>2 DEF PlanInv
<1>3. CASE \/ Receive \/ AdmitNoMore \/ TakeNext \/ EncodeFails \/ EvictTurn \/ EvictDone
           \/ Reject \/ Requeue \/ \E seq \in SeqIds : Start(seq)
           \/ DropOrPass \/ ForwardFails \/ StepDone \/ FailRunning \/ FailWaiting
  <2>1. phase' \notin {"forward", "advance", "retire"} /\ finished' = {}
    BY <1>3 DEF Receive, AdmitNoMore, TakeNext, EncodeFails, EvictTurn, EvictDone,
                Reject, Requeue, Start, Granted, DropOrPass, ForwardFails, StepDone,
                FailRunning, FailWaiting, locals, PlanInv
  <2> QED
    BY <1>2, <2>1
<1>4. CASE MakePlan
  <2>1. /\ plan' = PlanOf /\ at' = 1 /\ running' = running /\ finished' = {}
        /\ phase' \notin {"advance", "retire"}
    BY <1>4 DEF MakePlan, PlanInv
  <2>2. /\ PlanOf \in Seq(Items)
        /\ \A j \in 1 .. Len(PlanOf) : PlanOf[j].idx \in 1 .. Len(running)
        /\ \A j, k \in 1 .. Len(PlanOf) : PlanOf[j].idx = PlanOf[k].idx => j = k
    BY <1>1, PlanOfFacts DEF RowItem
  <2>3. 1 <= Len(PlanOf) + 1
    BY <2>2, LenProperties
  <2> QED
    BY <2>1, <2>2, <2>3 DEF PlanInv
<1>5. CASE ForwardItem
  <2>1. at' <= Len(plan) + 1
    BY <1>1, <1>5 DEF ForwardItem
  <2> QED
    BY <1>5, <2>1 DEF ForwardItem, PlanInv, queues
<1>6. CASE ForwardDone
  <2>1. finished = {} /\ finished' = {} /\ phase' = "advance" /\ UNCHANGED << plan, running >>
    BY <1>6 DEF ForwardDone, PlanInv
  <2> QED
    BY <1>6, <2>1 DEF ForwardDone, PlanInv
<1>7. CASE Advances
  <2>1. /\ Advancing /\ phase = "advance" /\ phase' = phase /\ plan' = plan /\ at' = at + 1
        /\ \/ finished' = finished \cup {Item.idx}
           \/ finished' = finished
    BY <1>7, AdvancingSteps DEF Advancing, Ends, GoesOn
  <2>2. at \in 1 .. Len(plan) /\ Len(running') = Len(running)
    BY <2>1, ItemFacts, FedFacts DEF Advancing
  <2>3. /\ \A j \in at .. Len(plan) : plan[j].idx \notin finished
        /\ \A j \in 1 .. Len(plan) : plan[j].idx \in 1 .. Len(running)
        /\ \A j, k \in 1 .. Len(plan) : plan[j].idx = plan[k].idx => j = k
    BY <2>1 DEF PlanInv
  <2>4. ASSUME NEW j \in at + 1 .. Len(plan) PROVE plan[j].idx \notin finished'
    <3>1. j \in at .. Len(plan) /\ j \in 1 .. Len(plan) /\ j # at
      BY <1>1, <2>2
    <3>2. plan[j].idx # Item.idx
      BY <2>2, <2>3, <3>1 DEF Item
    <3> QED
      BY <2>1, <2>3, <3>1, <3>2
  <2> QED
    BY <2>1, <2>2, <2>3, <2>4 DEF PlanInv
<1>8. CASE AdvanceDone \/ RetireLast
  BY <1>8 DEF AdvanceDone, RetireLast, PlanInv
<1>9. CASE Submit \/ (\E r \in Requests : Disconnect(r)) \/ UNCHANGED svars
  <2>1. UNCHANGED << phase, finished, plan, at, running >>
    BY <1>9 DEF Submit, Disconnect, svars, locals
  <2> QED
    BY <2>1 DEF PlanInv
<1> QED
  BY <1>3, <1>4, <1>5, <1>6, <1>7, <1>8, <1>9 DEF SchedNext, Worker

(* The rows a plan still has to feed. *)
LEMMA RoomStep ==
  ASSUME IInv, SchedTypeOK, PlanInv, RoomInv, [SchedNext]_svars
  PROVE  RoomInv'
<1> DEFINE Advances == \/ AdvancePrompt \/ AdvanceEog
                       \/ \E token \in Tokens :
                            AdvanceHungUp(token) \/ AdvanceStop(token) \/ AdvanceToken(token)
<1>1. /\ plan \in Seq(Items) /\ running \in Seq(Runnings) /\ FreeSlots(pool) \in Nat
  BY PoolFields DEF SchedTypeOK, IInv, TypeOK
<1>2. CASE \/ Receive \/ AdmitNoMore \/ TakeNext \/ EncodeFails \/ EvictTurn \/ EvictDone
           \/ Reject \/ Requeue \/ \E seq \in SeqIds : Start(seq)
           \/ DropOrPass \/ ForwardFails \/ ForwardDone \/ AdvanceDone \/ RetireLast
           \/ StepDone \/ FailRunning \/ FailWaiting
  <2>1. phase' # "forward"
    BY <1>2 DEF Receive, AdmitNoMore, TakeNext, EncodeFails, EvictTurn, EvictDone,
                Reject, Requeue, Start, Granted, DropOrPass, ForwardFails, ForwardDone,
                AdvanceDone, RetireLast, StepDone, FailRunning, FailWaiting, locals
  <2> QED
    BY <2>1 DEF RoomInv
<1>3. CASE Advances
  <2>1. phase' # "forward"
    BY <1>3, AdvancingSteps DEF Advancing
  <2> QED
    BY <2>1 DEF RoomInv
<1>4. CASE Submit \/ (\E r \in Requests : Disconnect(r)) \/ UNCHANGED svars
  <2>1. UNCHANGED << phase, plan, at, pool >>
    BY <1>4 DEF Submit, Disconnect, svars, locals, vars
  <2> QED
    BY <2>1 DEF RoomInv
<1>5. CASE MakePlan
  <2>1. plan' = PlanOf /\ at' = 1 /\ pool' = pool
    BY <1>5 DEF MakePlan, vars
  <2>2. PlanOf \in Seq(Items) /\ Asked(PlanOf, Len(PlanOf)) <= FreeSlots(pool)
    BY <1>1, PlanOfFacts
  <2>3. Asked(PlanOf, 0) = 0 /\ Asked(PlanOf, Len(PlanOf)) \in Nat
    <3>1. Len(PlanOf) \in 0 .. Len(PlanOf)
      BY <2>2, LenProperties
    <3> QED
      BY <2>2, <3>1, AskedFacts
  <2>4. at' - 1 = 0
    BY <2>1
  <2>5. Asked(PlanOf, Len(PlanOf)) - Asked(PlanOf, 0) <= FreeSlots(pool)
    BY <1>1, <2>2, <2>3
  <2>6. Asked(plan', Len(plan')) - Asked(plan', at' - 1) <= FreeSlots(pool')
    BY <2>1, <2>4, <2>5
  <2> QED
    BY <2>6 DEF RoomInv
<1>6. CASE ForwardItem
  <2>1. /\ phase = "forward" /\ at \in 1 .. Len(plan) /\ Len(plan) \in Nat /\ at \in Nat
        /\ Item.len \in Nat /\ Row.seq \in SeqIds
    BY <1>1, <1>6, ItemFacts, LenProperties DEF ForwardItem
  <2>2. Forward(Row.seq, Item.len) /\ plan' = plan /\ at' = at + 1 /\ phase' = phase
    BY <1>6 DEF ForwardItem, Item, Row
  <2>3. FreeSlots(pool') = FreeSlots(pool) - Item.len
    BY <2>1, <2>2, ForwardRow DEF Forward
  <2>4. /\ Asked(plan, at) = Asked(plan, at - 1) + Item.len
        /\ Asked(plan, at - 1) \in Nat /\ Asked(plan, Len(plan)) \in Nat
    <3>1. at - 1 \in 0 .. Len(plan) /\ Len(plan) \in 0 .. Len(plan)
      BY <2>1
    <3> QED
      BY <1>1, <2>1, <3>1, AskedFacts DEF Item
  <2>5. Asked(plan, Len(plan)) - Asked(plan, at - 1) <= FreeSlots(pool)
    BY <2>1 DEF RoomInv
  <2>6. Asked(plan, Len(plan)) - Asked(plan, at) <= FreeSlots(pool')
    BY <1>1, <2>1, <2>3, <2>4, <2>5
  <2>7. at' - 1 = at
    BY <2>1, <2>2
  <2> QED
    BY <2>2, <2>6, <2>7 DEF RoomInv
<1> QED
  BY <1>2, <1>3, <1>4, <1>5, <1>6 DEF SchedNext, Worker

-----------------------------------------------------------------------------
(* The texts of the rows and the KV fed for them, step by step. *)
RowText(i) ==
  /\ Len(text[running[i].seq]) < MaxSeq
  /\ ~PromptComplete(running[i]) => Len(text[running[i].seq]) = Len(running[i].prompt)
RowBooked(i) == SeqLen(pool, running[i].seq) = Booked(running[i])
RowFed(i) ==
  /\ (\A j \in UnderWay : plan[j].idx # i) => RowBooked(i)
  /\ \A j \in UnderWay : plan[j].idx = i =>
       SeqLen(pool, running[i].seq) = Booked(running[i]) + plan[j].len

LEMMA RowForm ==
  /\ TextInv <=> /\ \A i \in 1 .. Len(running) : i \notin finished => RowText(i)
                 /\ \A j \in Ahead : FitsRow(plan[j])
  /\ FedInv <=> (phase # "fail" => \A i \in 1 .. Len(running) : i \notin finished => RowFed(i))
BY DEF TextInv, FedInv, RowText, RowFed, RowBooked

(* Where no item is under way, a row has just what is booked for it. *)
LEMMA AtRest ==
  ASSUME UnderWay = {}, NEW i
  PROVE  RowFed(i) <=> RowBooked(i)
BY DEF RowFed

(* A step that touches no row and no item under way. *)
LEMMA RowsKept ==
  ASSUME SchedTypeOK, TextInv, FedInv, UNCHANGED << running, finished >>,
         \A id \in SeqIds : KeepsRow(id),
         \A j \in Ahead' : j \in Ahead /\ plan'[j] = plan[j],
         phase' # "fail" /\ Len(running) # 0 =>
           phase # "fail" /\ UnderWay' = UnderWay /\ \A j \in UnderWay : plan'[j] = plan[j]
  PROVE  TextInv' /\ FedInv'
<1>1. \A i \in 1 .. Len(running) : KeepsRow(running[i].seq)
  BY RowNumbers DEF SchedTypeOK
<1>2. ASSUME NEW i \in 1 .. Len(running), i \notin finished PROVE RowText(i)'
  <2>1. RowText(i)
    BY <1>2, RowForm
  <2> QED
    BY <1>1, <2>1 DEF RowText, KeepsRow, PromptComplete
<1>3. ASSUME phase' # "fail", NEW i \in 1 .. Len(running), i \notin finished PROVE RowFed(i)'
  <2>1. Len(running) # 0
    BY <1>3
  <2>2. RowFed(i) /\ UnderWay' = UnderWay /\ \A j \in UnderWay : plan'[j] = plan[j]
    BY <1>3, <2>1, RowForm
  <2>3. SeqLen(pool', running[i].seq) = SeqLen(pool, running[i].seq) /\ Booked(running[i])' = Booked(running[i])
    BY <1>1 DEF KeepsRow, Booked, PromptComplete
  <2> QED
    BY <2>2, <2>3 DEF RowFed, RowBooked
<1>4. ASSUME NEW j \in Ahead' PROVE FitsRow(plan[j])'
  <2>1. FitsRow(plan[j]) /\ plan'[j] = plan[j]
    BY <1>4 DEF TextInv
  <2> QED
    BY <2>1 DEF FitsRow, PromptComplete
<1>5. TextInv'
  BY <1>2, <1>4 DEF TextInv, RowText
<1>6. FedInv'
  BY <1>3 DEF FedInv, RowFed, RowBooked
<1> QED
  BY <1>5, <1>6

(* The rows when one is admitted. *)
LEMMA RowsStart ==
  ASSUME IInv, PromptsInv, SchedTypeOK, PlanInv, RowsInv, TextInv, FedInv,
         NEW seq \in SeqIds, Start(seq)
  PROVE  TextInv' /\ FedInv'
<1> DEFINE row == [ seq |-> seq, req |-> cand.req, prompt |-> cand.prompt,
                    prefilled |-> SeqLen(pool', seq) ]
<1>1. /\ phase = "decide" /\ phase' = "admit" /\ finished = {} /\ finished' = {}
      /\ running' = Append(running, row) /\ cand.prompt \in Prompts
      /\ Admit(seq, cand.prompt) /\ UnderWay = {} /\ UnderWay' = {} /\ Ahead' = {}
  BY DEF Start, Starts, Granted, PlanInv, PromptsInv, UnderWay, Ahead
<1>2. /\ seq \notin pool.live /\ \A other \in SeqIds \ {seq} : KeepsRow(other)
      /\ text'[seq] = cand.prompt
      /\ SeqLen(pool', seq) \in Nat /\ SeqLen(pool', seq) < Len(cand.prompt)
      /\ Len(cand.prompt) \in Nat /\ Len(cand.prompt) + 1 <= MaxSeq
  BY <1>1, AdmitRow
<1>3. row.seq = seq /\ row.prompt = cand.prompt /\ row.prefilled = SeqLen(pool', seq)
  OBVIOUS
<1> HIDE DEF row
<1> PICK n : n = Len(running)
  OBVIOUS
<1>4. /\ Len(running') = n + 1 /\ running'[n + 1] = row /\ n \in Nat
      /\ \A i \in 1 .. n : running'[i] = running[i]
  <2>1. running \in Seq(Runnings) /\ n \in Nat
    BY LenProperties DEF SchedTypeOK
  <2> QED
    BY <1>1, <2>1
<1>5. \A i \in 1 .. n + 1 : i \in 1 .. n \/ i = n + 1
  BY <1>4
<1>6. \A i \in 1 .. n : KeepsRow(running[i].seq)
  <2>1. \A i \in 1 .. n : running[i].seq \in SeqIds /\ running[i].seq # seq
    BY <1>2, RowNumbers DEF SchedTypeOK, RowsInv
  <2> QED
    BY <1>2, <2>1
<1>7. ASSUME NEW i \in 1 .. n PROVE RowText(i)' /\ RowBooked(i)'
  <2>1. RowText(i) /\ RowBooked(i)
    BY <1>1, RowForm, AtRest
  <2>2. running'[i] = running[i] /\ KeepsRow(running[i].seq)
    BY <1>4, <1>6
  <2>3. RowText(i)'
    BY <2>1, <2>2 DEF RowText, PromptComplete, KeepsRow
  <2>4. RowBooked(i)'
    BY <2>1, <2>2 DEF RowBooked, Booked, PromptComplete, KeepsRow
  <2> QED
    BY <2>3, <2>4
<1>8. RowText(n + 1)' /\ RowBooked(n + 1)'
  <2>1. ~PromptComplete(row) /\ MaxSeq \in Nat
    BY <1>2, <1>3, PoolSizes DEF PromptComplete
  <2>2. RowText(n + 1)'
    BY <1>2, <1>3, <1>4, <2>1 DEF RowText, PromptComplete
  <2>3. RowBooked(n + 1)'
    BY <1>3, <1>4, <2>1 DEF RowBooked, Booked, PromptComplete
  <2> QED
    BY <2>2, <2>3
<1>9. \A i \in 1 .. n + 1 : RowText(i)' /\ RowBooked(i)'
  BY <1>5, <1>7, <1>8
<1>10. \A i \in 1 .. Len(running') : RowText(i)' /\ RowFed(i)'
  BY <1>1, <1>4, <1>9 DEF RowFed
<1>11. TextInv'
  BY <1>1, <1>10 DEF TextInv, RowText
<1>12. FedInv'
  BY <1>10 DEF FedInv, RowFed, RowBooked
<1> QED
  BY <1>11, <1>12

(* The rows when one has left. *)
LEMMA RowsDepart ==
  ASSUME SchedTypeOK, RowsInv, TextInv, FedInv, NEW i, NEW m, Departs(i, m)
  PROVE  TextInv' /\ FedInv'
<1> DEFINE n == Len(running)
           k == n - 1
<1>1. /\ UnderWay = {} /\ UnderWay' = {} /\ Ahead' = {} /\ phase' = phase
      /\ i \in 1 .. n /\ Len(running') = k
      /\ m \in [1 .. k -> 1 .. n]
      /\ \A j \in 1 .. k : /\ m[j] # i /\ running'[j] = running[m[j]]
                           /\ j \in finished' <=> m[j] \in finished
      /\ FreesRow(running[i].seq)
  BY DEF Departs, Leaves, UnderWay, Ahead
<1>2. \A j \in 1 .. k : m[j] \in 1 .. n
  BY <1>1
<1> HIDE DEF k
<1>3. \A j \in 1 .. k : KeepsRow(running[m[j]].seq)
  <2>1. \A j \in 1 .. k : running[m[j]].seq \in SeqIds /\ running[m[j]].seq # running[i].seq
    BY <1>1, <1>2, RowNumbers DEF SchedTypeOK, RowsInv
  <2> QED
    BY <1>1, <2>1 DEF FreesRow
<1>4. ASSUME NEW j \in 1 .. k, j \notin finished'
      PROVE  RowText(j)' /\ (phase # "fail" => RowBooked(j)')
  <2> DEFINE l == m[j]
  <2>1. l \in 1 .. n /\ l \notin finished /\ running'[j] = running[l] /\ KeepsRow(running[l].seq)
    BY <1>1, <1>2, <1>3, <1>4
  <2> HIDE DEF l
  <2>2. RowText(l) /\ (phase # "fail" => RowBooked(l))
    BY <1>1, <2>1, RowForm, AtRest
  <2>3. RowText(j)'
    BY <2>1, <2>2 DEF RowText, PromptComplete, KeepsRow
  <2>4. phase # "fail" => RowBooked(j)'
    BY <2>1, <2>2 DEF RowBooked, Booked, PromptComplete, KeepsRow
  <2> QED
    BY <2>3, <2>4
<1>5. TextInv'
  BY <1>1, <1>4 DEF TextInv, RowText
<1>6. FedInv'
  <2>1. phase # "fail" => \A j \in 1 .. k : j \notin finished' => RowFed(j)'
    BY <1>1, <1>4 DEF RowFed
  <2> QED
    BY <1>1, <2>1 DEF FedInv, RowFed, RowBooked
<1> QED
  BY <1>5, <1>6

(* An item of the forward pass makes its own row longer, and no other.       *)
LEMMA RowsForward ==
  ASSUME IInv, SchedTypeOK, PlanInv, RowsInv, TextInv, FedInv, ForwardItem
  PROVE  TextInv' /\ FedInv'
<1> DEFINE id == Row.seq
<1>1. /\ phase = "forward" /\ phase' = "forward" /\ at' = at + 1 /\ at \in 1 .. Len(plan)
      /\ UNCHANGED << running, finished, plan >> /\ finished = {}
      /\ Item.idx \in 1 .. Len(running) /\ Item.len \in Nat /\ Row.seq \in SeqIds
      /\ Forward(id, Item.len)
  BY ItemFacts DEF ForwardItem, PlanInv, Item, Row, queues
<1>2. /\ text' = text /\ SeqLen(pool', id) = SeqLen(pool, id) + Item.len
      /\ \A other \in SeqIds \ {id} : KeepsRow(other)
  BY <1>1, ForwardRow DEF Forward
<1>3. Ahead' = Ahead /\ UnderWay' = UnderWay \cup {at} /\ at \notin UnderWay
      /\ UnderWay \subseteq 1 .. Len(plan)
  <2>1. at \in Nat /\ Len(plan) \in Nat
    BY LenProperties DEF SchedTypeOK
  <2> QED
    BY <1>1, <2>1 DEF Ahead, UnderWay
<1>4. \A i \in 1 .. Len(running) : RowFed(i)
  BY <1>1, RowForm
<1>5. TextInv'
  BY <1>1, <1>2, <1>3 DEF TextInv, PromptComplete, FitsRow
<1>6. \A j \in UnderWay : plan[j].idx # Item.idx
  BY <1>1, <1>3 DEF PlanInv, Item
<1>7. ASSUME NEW i \in 1 .. Len(running)
      PROVE  /\ (\A j \in UnderWay' : plan[j].idx # i) => SeqLen(pool', running[i].seq) = Booked(running[i])
             /\ \A j \in UnderWay' : plan[j].idx = i =>
                  SeqLen(pool', running[i].seq) = Booked(running[i]) + plan[j].len
  <2>1. CASE i = Item.idx
    <3>1. SeqLen(pool, id) = Booked(running[i]) /\ running[i].seq = id
      BY <1>4, <1>6, <2>1 DEF RowFed, RowBooked, Row
    <3>2. SeqLen(pool', id) = Booked(running[i]) + Item.len
      BY <1>2, <3>1
    <3> QED
      BY <1>3, <1>6, <2>1, <3>1, <3>2 DEF Item
  <2>2. CASE i # Item.idx
    <3>1. running[i].seq \in SeqIds \ {id}
      BY <1>1, <2>2, RowNumbers DEF SchedTypeOK, RowsInv, Row
    <3>2. SeqLen(pool', running[i].seq) = SeqLen(pool, running[i].seq)
      BY <1>2, <3>1 DEF KeepsRow
    <3> QED
      BY <1>3, <1>4, <2>2, <3>2 DEF RowFed, RowBooked, Item
  <2> QED
    BY <2>1, <2>2
<1>8. \A r : Booked(r)' = Booked(r)
  BY <1>2 DEF Booked, PromptComplete
<1>9. FedInv'
  BY <1>1, <1>7, <1>8 DEF FedInv
<1> QED
  BY <1>5, <1>9

(* The item of a row that goes on: its prompt is in as far as the item says, *)
(* or it is in and there is a token more, with room for the one after it.    *)
LEMMA RowGoesOn ==
  ASSUME IInv, PromptsInv, SchedTypeOK, PlanInv, TextInv, FedInv, Item.idx \notin finished',
         \/ AdvancePrompt \/ AdvanceEog
         \/ \E token \in Tokens : AdvanceHungUp(token) \/ AdvanceStop(token) \/ AdvanceToken(token)
  PROVE  LET r == running'[Item.idx]
         IN  /\ Len(text'[r.seq]) < MaxSeq
             /\ ~PromptComplete(r) => Len(text'[r.seq]) = Len(r.prompt)
             /\ SeqLen(pool', r.seq) = IF PromptComplete(r) THEN Len(text'[r.seq]) - 1 ELSE r.prefilled
<1> DEFINE r == running'[Item.idx]
           id == Row.seq
           size == Len(text[id])
<1>1. /\ Advancing /\ phase = "advance" /\ at \in 1 .. Len(plan)
      /\ Item.idx \in 1 .. Len(running) /\ Item.idx \notin finished
      /\ Row \in Runnings /\ id \in SeqIds /\ Item.len \in Nat /\ Row = running[Item.idx]
  BY AdvancingSteps, ItemFacts DEF Advancing, Row
<1>2. /\ r.seq = id /\ r.prompt = Row.prompt
      /\ r.prefilled = IF Item.kind = "prefill" THEN Row.prefilled + Item.len ELSE Row.prefilled
  BY <1>1, FedFacts
<1>3. FitsRow(Item) /\ RowText(Item.idx) /\ RowFed(Item.idx) /\ at \in Ahead /\ at \in UnderWay
  <2>1. at \in Ahead /\ at \in UnderWay
    BY <1>1 DEF Ahead, UnderWay, SchedTypeOK
  <2> QED
    BY <1>1, <2>1, RowForm DEF Item
<1>4. /\ Row.prefilled \in Nat /\ Len(Row.prompt) \in Nat /\ size \in Nat /\ SeqLen(pool, id) \in Nat
      /\ MaxSeq \in Nat
  <2>1. Row.prompt \in Seq(Contents) /\ text[id] \in Seq(Contents) /\ pool.slots[id] \in Seq(Slots)
    BY <1>1, TextIsTokens, PoolFields DEF Runnings, IInv, TypeOK
  <2> QED
    BY <1>1, <2>1, PoolSizes, LenProperties DEF Runnings, SeqLen
<1>5. size < MaxSeq /\ (~PromptComplete(Row) => size = Len(Row.prompt))
  BY <1>1, <1>3 DEF RowText
<1>6. SeqLen(pool, id) = (IF PromptComplete(Row) THEN size - 1 ELSE Row.prefilled) + Item.len
  <2>1. plan[at].idx = Item.idx /\ plan[at].len = Item.len
    BY DEF Item
  <2> QED
    BY <1>1, <1>3, <2>1 DEF RowFed, Booked
<1>7. \/ /\ PromptComplete(Row) /\ Item.kind = "decode" /\ Item.len = 1 /\ Item.last
      \/ /\ ~PromptComplete(Row) /\ Item.kind = "prefill" /\ Item.len >= 1
         /\ Row.prefilled + Item.len <= Len(Row.prompt)
         /\ Item.last <=> Row.prefilled + Item.len = Len(Row.prompt)
  BY <1>1, <1>3 DEF FitsRow
<1>8. CASE AdvancePrompt
  <2>1. ~Item.last /\ pool' = pool /\ text' = text
    BY <1>8 DEF AdvancePrompt, vars
  <2>2. /\ ~PromptComplete(Row) /\ r.prefilled = Row.prefilled + Item.len
        /\ r.prefilled < Len(Row.prompt)
    BY <1>2, <1>4, <1>1, <1>7, <2>1
  <2>3. ~PromptComplete(r)
    BY <1>1, <1>2, <1>4, <2>2 DEF PromptComplete
  <2> QED
    BY <1>2, <1>5, <1>6, <2>1, <2>2, <2>3
<1>9. ASSUME NEW token \in Tokens, AdvanceToken(token) PROVE
         /\ Len(text'[r.seq]) < MaxSeq /\ PromptComplete(r)
         /\ SeqLen(pool', r.seq) = Len(text'[r.seq]) - 1
  <2>1. Item.last /\ Emit(id, token) /\ ~LengthReached
    BY <1>9 DEF AdvanceToken, Ends
  <2>2. pool' = pool /\ SeqLen(pool, id) = size /\ Len(text'[id]) = size + 1
    BY <1>1, <2>1, EmitRow
  <2>3. PromptComplete(r)
    <3>1. CASE PromptComplete(Row)
      BY <1>2, <1>7, <3>1 DEF PromptComplete
    <3>2. CASE ~PromptComplete(Row)
      <4>1. r.prefilled = Len(r.prompt)
        BY <1>2, <1>7, <2>1, <3>2
      <4> QED
        BY <1>2, <1>4, <4>1 DEF PromptComplete
    <3> QED
      BY <3>1, <3>2
  <2>4. size + 1 < MaxSeq
    <3> DEFINE most == ask[Row.req].max_tokens
               room == MaxSeq - Len(Row.prompt)
    <3>1. most \in Nat
      <4>1. ask[Row.req] \in Asks
        BY <1>1 DEF Runnings, PromptsInv
      <4> QED
        BY <4>1, SchedulerSizes
    <3>2. ~((size - Len(Row.prompt)) + 1 >= IF most < room THEN most ELSE room)
      BY <2>1 DEF LengthReached, Budget, Lesser, Generated
    <3> DEFINE own == Len(Row.prompt)
    <3>3. size \in Nat /\ own \in Nat /\ MaxSeq \in Nat
      BY <1>4
    <3>4. ~((size - own) + 1 >= IF most < room THEN most ELSE room)
      BY <3>2
    <3>5. room = MaxSeq - own
      OBVIOUS
    <3> HIDE DEF most, room, size, own
    <3>6. (size - own) + 1 < room
      BY <3>1, <3>3, <3>4, <3>5
    <3> QED
      BY <3>3, <3>5, <3>6
  <2> QED
    BY <1>2, <1>4, <2>2, <2>3, <2>4
<1>10. AdvancePrompt \/ \E token \in Tokens : AdvanceToken(token)
  <2>1. ~Ends
    BY DEF Ends
  <2> QED
    BY <2>1 DEF AdvanceEog, AdvanceHungUp, AdvanceStop
<1> QED
  BY <1>8, <1>9, <1>10

(* The bookkeeping of an item settles its own row, and touches no other.     *)
LEMMA RowsAdvance ==
  ASSUME IInv, PromptsInv, SchedTypeOK, PlanInv, RowsInv, TextInv, FedInv,
         \/ AdvancePrompt \/ AdvanceEog
         \/ \E token \in Tokens : AdvanceHungUp(token) \/ AdvanceStop(token) \/ AdvanceToken(token)
  PROVE  TextInv' /\ FedInv'
<1> PICK i : i = Item.idx
  OBVIOUS
<1>1. /\ Advancing /\ phase = "advance" /\ phase' = "advance" /\ at \in 1 .. Len(plan)
      /\ at' = at + 1 /\ plan' = plan /\ at \in Nat /\ Len(plan) \in Nat
      /\ i \in 1 .. Len(running) /\ Row.seq \in SeqIds /\ Row = running[i] /\ plan[at].idx = i
  BY AdvancingSteps, ItemFacts, LenProperties DEF Advancing, Row, Item, SchedTypeOK
<1>2. Len(running') = Len(running) /\ \A l \in 1 .. Len(running) : l # i => running'[l] = running[l]
  BY <1>1, FedFacts
<1>3. \A id \in SeqIds \ {Row.seq} : KeepsRow(id)
  <2>1. CASE UNCHANGED vars
    BY <2>1 DEF KeepsRow, vars
  <2>2. ASSUME NEW token \in Tokens, Emit(Row.seq, token)
        PROVE  \A id \in SeqIds \ {Row.seq} : KeepsRow(id)
    BY <1>1, <2>2, EmitRow
  <2> QED
    BY <2>1, <2>2 DEF AdvancePrompt, AdvanceEog, AdvanceHungUp, AdvanceStop, AdvanceToken
<1>4. /\ Ahead' = Ahead \ {at} /\ UnderWay' = UnderWay \ {at}
      /\ Ahead \subseteq 1 .. Len(plan) /\ UnderWay \subseteq 1 .. Len(plan)
  BY <1>1 DEF Ahead, UnderWay
<1>5. \A j \in Ahead' \cup UnderWay' : plan[j].idx # i
  BY <1>1, <1>4 DEF PlanInv
<1>6. finished \subseteq finished'
  BY AdvancingSteps DEF Ends, GoesOn
<1>7. ASSUME NEW l \in 1 .. Len(running), l \notin finished', l # i
      PROVE  RowText(l)' /\ RowFed(l)'
  <2>1. RowText(l) /\ RowFed(l)
    BY <1>1, <1>6, <1>7, RowForm
  <2>2. running'[l] = running[l] /\ KeepsRow(running[l].seq)
    <3>1. running[l].seq \in SeqIds \ {Row.seq}
      BY <1>1, <1>7, RowNumbers DEF SchedTypeOK, RowsInv
    <3> QED
      BY <1>2, <1>3, <1>7, <3>1
  <2>3. RowText(l)'
    BY <2>1, <2>2 DEF RowText, PromptComplete, KeepsRow
  <2>4. SeqLen(pool, running[l].seq)' = SeqLen(pool, running[l].seq) /\ Booked(running[l])' = Booked(running[l])
    BY <2>2 DEF Booked, PromptComplete, KeepsRow
  <2>5. RowFed(l)'
    BY <1>1, <1>4, <1>7, <2>1, <2>4 DEF RowFed, RowBooked
  <2> QED
    BY <2>3, <2>5
<1>8. ASSUME i \notin finished' PROVE RowText(i)' /\ RowFed(i)'
  <2> DEFINE r == running'[Item.idx]
  <2>1. /\ Len(text'[r.seq]) < MaxSeq
        /\ ~PromptComplete(r) => Len(text'[r.seq]) = Len(r.prompt)
        /\ SeqLen(pool', r.seq) = IF PromptComplete(r) THEN Len(text'[r.seq]) - 1 ELSE r.prefilled
    BY <1>8, RowGoesOn
  <2>2. r = running'[i]
    OBVIOUS
  <2> HIDE DEF r
  <2>3. RowText(i)'
    BY <2>1, <2>2 DEF RowText, PromptComplete
  <2>4. RowBooked(i)'
    BY <2>1, <2>2 DEF RowBooked, Booked, PromptComplete
  <2>5. RowFed(i)'
    BY <1>1, <1>5, <2>4 DEF RowFed
  <2> QED
    BY <2>3, <2>5
<1>9. ASSUME NEW j \in Ahead' PROVE FitsRow(plan[j])'
  <2>1. FitsRow(plan[j]) /\ plan'[j] = plan[j] /\ plan[j].idx \in 1 .. Len(running) /\ plan[j].idx # i
    BY <1>1, <1>4, <1>5, <1>9 DEF TextInv, PlanInv
  <2>2. running'[plan[j].idx] = running[plan[j].idx]
    BY <1>2, <2>1
  <2> QED
    BY <2>1, <2>2 DEF FitsRow, PromptComplete
<1>10. \A l \in 1 .. Len(running') : l \notin finished' => RowText(l)' /\ RowFed(l)'
  BY <1>2, <1>7, <1>8
<1>11. TextInv'
  BY <1>9, <1>10 DEF TextInv, RowText
<1>12. FedInv'
  BY <1>10 DEF FedInv, RowFed, RowBooked
<1> QED
  BY <1>11, <1>12

LEMMA TextStep ==
  ASSUME IInv, PromptsInv, SchedTypeOK, PlanInv, RowsInv, TextInv, FedInv, [SchedNext]_svars
  PROVE  TextInv' /\ FedInv'
<1> DEFINE Waits == {"recv", "admit", "evict", "decide", "drop"}
<1>1. UNCHANGED << pool, text >> => \A id \in SeqIds : KeepsRow(id)
  BY DEF KeepsRow
<1>2. phase \notin {"forward", "advance"} => UnderWay = {} /\ Ahead = {}
  BY DEF UnderWay, Ahead
<1>3. phase' \notin {"forward", "advance"} => UnderWay' = {} /\ Ahead' = {}
  BY DEF UnderWay, Ahead
<1>4. CASE \/ Receive \/ AdmitNoMore \/ TakeNext \/ EncodeFails \/ EvictDone
           \/ Reject \/ Requeue \/ (DropOrPass /\ running[at].req \notin gone)
  <2>1. /\ UNCHANGED << running, finished, pool, text >>
        /\ phase \in Waits /\ phase' \in Waits
    BY <1>4 DEF Receive, AdmitNoMore, TakeNext, EncodeFails, EvictDone, Reject, Requeue,
                DropOrPass, locals, vars
  <2> QED
    BY <1>1, <1>2, <1>3, <2>1, RowsKept
<1>5. CASE EvictTurn
  <2>1. \A id \in SeqIds : KeepsRow(id)
    BY <1>5, EvictRows DEF EvictTurn
  <2>2. UNCHANGED << running, finished >> /\ phase \in Waits /\ phase' \in Waits
    BY <1>5 DEF EvictTurn
  <2> QED
    BY <1>2, <1>3, <2>1, <2>2, RowsKept
<1>6. CASE Submit \/ (\E r \in Requests : Disconnect(r)) \/ UNCHANGED svars
  <2>1. UNCHANGED << phase, finished, plan, at, running, pool, text >>
    BY <1>6 DEF Submit, Disconnect, svars, locals, vars
  <2>2. Ahead' = Ahead /\ UnderWay' = UnderWay
    BY <2>1 DEF Ahead, UnderWay
  <2> QED
    BY <1>1, <2>1, <2>2, RowsKept
<1>7. CASE ForwardFails \/ FailWaiting \/ StepDone
  <2>1. /\ UNCHANGED << running, finished, pool, text >>
        /\ phase' \in {"recv", "fail"}
        /\ phase' = "recv" => phase = "retire" \/ Len(running) = 0
    BY <1>7 DEF ForwardFails, FailWaiting, StepDone, locals, vars
  <2> QED
    BY <1>1, <1>2, <1>3, <2>1, RowsKept
<1>8. CASE ForwardDone
  <2>1. /\ UNCHANGED << running, finished, pool, text, plan >>
        /\ phase = "forward" /\ phase' = "advance" /\ at > Len(plan) /\ at' = 1
    BY <1>8 DEF ForwardDone, vars
  <2>2. at \in Nat /\ Len(plan) \in Nat
    BY LenProperties DEF SchedTypeOK
  <2>3. Ahead' = Ahead /\ UnderWay' = UnderWay
    BY <2>1, <2>2 DEF Ahead, UnderWay
  <2> QED
    BY <1>1, <2>1, <2>3, RowsKept
<1>9. CASE AdvanceDone
  <2>1. /\ UNCHANGED << running, finished, pool, text >>
        /\ phase = "advance" /\ phase' = "retire" /\ at > Len(plan)
    BY <1>9 DEF AdvanceDone, vars
  <2>2. at \in Nat /\ Len(plan) \in Nat
    BY LenProperties DEF SchedTypeOK
  <2>3. UnderWay = {}
    BY <2>1, <2>2 DEF UnderWay
  <2> QED
    BY <1>1, <1>3, <2>1, <2>3, RowsKept
<1>10. CASE MakePlan
  <2>1. /\ UNCHANGED << running, finished, pool, text >> /\ plan' = PlanOf /\ at' = 1
        /\ phase = "drop" /\ phase' \in {"recv", "fail", "forward"}
    BY <1>10 DEF MakePlan, vars
  <2>2. UnderWay = {} /\ UnderWay' = {} /\ Ahead' \subseteq 1 .. Len(PlanOf)
    BY <1>2, <2>1 DEF UnderWay, Ahead
  <2>3. running \in Seq(Runnings) /\ FreeSlots(pool) \in Nat
    BY PoolFields DEF SchedTypeOK, IInv, TypeOK
  <2>4. \A j \in Ahead' : FitsRow(PlanOf[j])
    BY <2>2, <2>3, PlanOfFacts DEF RowItem
  <2>5. \A j \in Ahead' : FitsRow(plan[j])'
    BY <2>1, <2>4 DEF FitsRow, PromptComplete
  <2>6. ASSUME NEW i \in 1 .. Len(running), i \notin finished PROVE RowText(i)' /\ RowFed(i)'
    <3>1. RowText(i) /\ RowBooked(i)
      BY <2>1, <2>2, <2>6, RowForm, AtRest
    <3>2. RowText(i)'
      BY <2>1, <3>1 DEF RowText, PromptComplete
    <3>3. RowBooked(i)'
      BY <2>1, <3>1 DEF RowBooked, Booked, PromptComplete
    <3> QED
      BY <2>2, <3>2, <3>3 DEF RowFed
  <2>7. TextInv'
    BY <2>1, <2>5, <2>6 DEF TextInv, RowText
  <2>8. FedInv'
    BY <2>1, <2>6 DEF FedInv, RowFed, RowBooked
  <2> QED
    BY <2>7, <2>8
<1>11. CASE (DropOrPass /\ running[at].req \in gone) \/ RetireLast \/ FailRunning
  BY <1>11, DepartSteps, RowsDepart
<1>12. CASE \E seq \in SeqIds : Start(seq)
  BY <1>12, RowsStart
<1>13. CASE ForwardItem
  BY <1>13, RowsForward
<1>14. CASE \/ AdvancePrompt \/ AdvanceEog
            \/ \E token \in Tokens : AdvanceHungUp(token) \/ AdvanceStop(token) \/ AdvanceToken(token)
  BY <1>14, RowsAdvance
<1> HIDE DEF Waits
<1>15. CASE Worker
  BY <1>4, <1>5, <1>7, <1>8, <1>9, <1>10, <1>11, <1>12, <1>13, <1>14, <1>15 DEF Worker
<1> QED
  BY <1>6, <1>15 DEF SchedNext

-----------------------------------------------------------------------------
(* The invariant holds at the start, and every step keeps it. *)
LEMMA SchedInvInit == SchedInit => SchedInv
<1> SUFFICES ASSUME SchedInit PROVE SchedInv
  OBVIOUS
<1>1. /\ sent = 0 /\ jobs = << >> /\ waiting = << >> /\ running = << >> /\ plan = << >>
      /\ cand = NoCand /\ phase = "recv" /\ finished = {}
      /\ \A r \in Requests : answer[r] = "none"
  BY DEF SchedInit
<1>2. pool.live = {}
  BY DEF SchedInit, Init, NewPool
<1>3. Len(running) = 0 /\ Len(jobs) = 0 /\ Len(waiting) = 0
  BY <1>1
<1>4. \A r \in Requests : ~Queued(r) /\ ~Begun(r)
  BY <1>1, <1>3, SchedulerSizes DEF Queued, Begun, Runs, NoCand, Requests
<1>5. LineInv
  BY <1>1, <1>3, <1>4 DEF LineInv
<1>6. BegunInv
  BY <1>1, <1>4 DEF BegunInv
<1>7. RowsInv
  BY <1>2, <1>3 DEF RowsInv
<1>8. PlanInv /\ RoomInv
  BY <1>1 DEF PlanInv, RoomInv
<1>9. TextInv /\ FedInv
  <2>1. Ahead = {}
    BY <1>1 DEF Ahead
  <2> QED
    BY <1>3, <2>1 DEF TextInv, FedInv
<1> QED
  BY TypeInit, <1>5, <1>6, <1>7, <1>8, <1>9 DEF SchedInv

LEMMA SchedInvStep ==
  ASSUME IInv, PromptsInv, SchedInv, [SchedNext]_svars
  PROVE  SchedInv'
<1> USE DEF SchedInv
<1>1. SchedTypeOK'
  BY TypeStep
<1>2. LineInv' /\ BegunInv'
  BY RequestsStep
<1>3. RowsInv'
  BY RowsStep
<1>4. PlanInv' /\ RoomInv'
  BY PlanStep, RoomStep
<1>5. TextInv' /\ FedInv'
  BY TextStep
<1> QED
  BY <1>1, <1>2, <1>3, <1>4, <1>5

LEMMA Scheduled == SchedSpec => [](IInv /\ PromptsInv /\ SchedInv)
<1>1. SchedInit => SchedInv
  BY SchedInvInit
<1>2. IInv /\ PromptsInv /\ SchedInv /\ [SchedNext]_svars => SchedInv'
  BY SchedInvStep
<1> QED
  BY SchedSafety, <1>1, <1>2, PTL DEF SchedSpec

(* The scheduler's state has its types: no index of `finished` is past the  *)
(* rows that swap_remove leaves, and `cand` is held just while it is judged. *)
THEOREM SchedulerTypes == SchedSpec => []SchedTypeOK
<1>1. SchedInv => SchedTypeOK
  BY DEF SchedInv
<1> QED
  BY Scheduled, <1>1, PTL

-----------------------------------------------------------------------------
(* A set all of whose elements are equal has one or none. *)
LEMMA OneOrNone ==
  ASSUME NEW S, \A x, y \in S : x = y
  PROVE  Cardinality(S) = IF S = {} THEN 0 ELSE 1
<1>1. CASE S = {}
  BY <1>1, FS_EmptySet
<1>2. CASE S # {}
  <2>1. PICK x : x \in S
    BY <1>2
  <2>2. S = {x}
    BY <2>1
  <2> QED
    BY <2>2, FS_Singleton
<1> QED
  BY <1>1, <1>2

(* A request is in one place at most. *)
LEMMA InOnePlace ==
  ASSUME PromptsInv, SchedTypeOK, LineInv, BegunInv, RowsInv, NEW r \in Requests
  PROVE  Places(r) = IF Queued(r) \/ Runs(r) THEN 1 ELSE 0
<1> DEFINE InJobs == { i \in 1 .. Len(jobs) : jobs[i] = r }
           InWaiting == { i \in 1 .. Len(waiting) : waiting[i].req = r }
           InRunning == { i \in 1 .. Len(running) : running[i].req = r }
           held == IF cand.req = r THEN 1 ELSE 0
<1>1. /\ Len(jobs) \in Nat /\ Len(waiting) \in Nat /\ r \in Nat \ {0}
      /\ \A i \in 1 .. Len(jobs) : jobs[i] \in Nat
      /\ \A i \in 1 .. Len(waiting) : waiting[i].req \in Nat
  <2>1. Requests \subseteq Nat \ {0}
    BY DEF Requests
  <2>2. /\ \A i \in 1 .. Len(jobs) : jobs[i] \in Requests
        /\ \A i \in 1 .. Len(waiting) : waiting[i].req \in Requests
    <3>1. jobs \in Seq(Requests) /\ waiting \in Seq(QueueEntries)
      BY DEF PromptsInv
    <3>2. \A i \in 1 .. Len(jobs) : jobs[i] \in Requests
      BY <3>1, ElementOfSeq
    <3>3. \A i \in 1 .. Len(waiting) : waiting[i] \in QueueEntries
      BY <3>1, ElementOfSeq
    <3> QED
      BY <3>2, <3>3 DEF QueueEntries
  <2> QED
    BY <2>1, <2>2, LenProperties DEF PromptsInv
<1>2. Cardinality(InJobs) = IF InJobs = {} THEN 0 ELSE 1
  <2>1. \A i, j \in InJobs : i = j
    BY <1>1 DEF LineInv
  <2> QED
    BY <2>1, OneOrNone
<1>3. Cardinality(InWaiting) = IF InWaiting = {} THEN 0 ELSE 1
  <2>1. \A i, j \in InWaiting : i = j
    BY <1>1 DEF LineInv
  <2> QED
    BY <2>1, OneOrNone
<1>4. Cardinality(InRunning) = IF InRunning = {} THEN 0 ELSE 1
  <2>1. \A i, j \in InRunning : i = j
    BY DEF RowsInv
  <2> QED
    BY <2>1, OneOrNone
<1>5. held = 1 => cand # NoCand
  BY <1>1 DEF NoCand
<1>6. /\ InJobs = {} \/ InWaiting = {}
      /\ held = 1 => InJobs = {} /\ InWaiting = {}
  BY <1>1, <1>5 DEF LineInv
<1>7. Queued(r) <=> InJobs # {} \/ InWaiting # {} \/ held = 1
  BY DEF Queued
<1>8. Runs(r) <=> InRunning # {}
  BY DEF Runs
<1>9. ~(Queued(r) /\ Runs(r))
  BY QueuedApart
<1>10. Places(r) = Cardinality(InJobs) + Cardinality(InWaiting) + Cardinality(InRunning) + held
  BY DEF Places
<1>11. held \in {0, 1}
  OBVIOUS
<1> HIDE DEF InJobs, InWaiting, InRunning, held
<1> QED
  BY <1>2, <1>3, <1>4, <1>6, <1>7, <1>8, <1>9, <1>10, <1>11

(* No request is lost, or served twice, on its way from the channel through *)
(* the queue (and back onto its front) into a row, whatever swap_remove     *)
(* does to the rows: for any number of requests and rows.                   *)
THEOREM NoneIsLost == SchedSpec => []NoRequestLost
<1>1. PromptsInv /\ SchedInv => NoRequestLost
  <2> SUFFICES ASSUME PromptsInv, SchedInv, NEW r \in 1 .. sent
               PROVE  /\ Places(r) <= 1
                      /\ answer[r] = "none" /\ r \notin gone => Places(r) = 1
                      /\ answer[r] # "none" => ~Queued(r) /\ \A i \in 1 .. Len(running) :
                           running[i].req = r => i \in finished
    BY DEF NoRequestLost
  <2>1. /\ SchedTypeOK /\ LineInv /\ BegunInv /\ RowsInv
    BY DEF SchedInv
  <2>2. r \in Requests
    BY <2>1, SchedulerSizes DEF SchedTypeOK, Requests
  <2>3. Places(r) = IF Queued(r) \/ Runs(r) THEN 1 ELSE 0
    BY <2>1, <2>2, InOnePlace
  <2>4. answer[r] = "none" /\ r \notin gone => Queued(r) \/ Runs(r)
    BY <2>1 DEF BegunInv
  <2>5. answer[r] # "none" => ~Queued(r)
    BY <2>1, <2>2, QueuedApart
  <2>6. ASSUME answer[r] # "none", NEW i \in 1 .. Len(running), running[i].req = r
        PROVE  i \in finished
    BY <2>1, <2>6 DEF RowsInv
  <2> QED
    BY <2>3, <2>4, <2>5, <2>6
<1> QED
  BY Scheduled, <1>1, PTL

(* The rows of the pool are those of the running list, one for one: none is *)
(* freed under a request, shared by two, or left without an owner.          *)
THEOREM RowsMatchRunning == SchedSpec => []RowsAreRunning
<1>1. SchedInv => RowsAreRunning
  <2> SUFFICES ASSUME SchedInv PROVE Cardinality(pool.live) = Len(running)
    BY DEF RowsAreRunning, SchedInv, RowsInv
  <2> DEFINE n == Len(running)
             f == [ i \in 1 .. n |-> running[i].seq ]
  <2>1. SchedTypeOK /\ RowsInv
    BY DEF SchedInv
  <2>2. n \in Nat
    BY <2>1, LenProperties DEF SchedTypeOK
  <2>3. pool.live = { f[i] : i \in 1 .. n } /\ \A i, j \in 1 .. n : f[i] = f[j] => i = j
    BY <2>1 DEF RowsInv
  <2>4. f \in [1 .. n -> pool.live]
    BY <2>3
  <2>5. f \in Bijection(1 .. n, pool.live)
    BY <2>3, <2>4 DEF Bijection, Injection, Surjection, IsInjective
  <2>6. ExistsBijection(1 .. n, pool.live)
    BY <2>5 DEF ExistsBijection
  <2>7. IsFiniteSet(1 .. n) /\ Cardinality(1 .. n) = n
    <3> HIDE DEF n
    <3>1. 1 \in Int /\ n \in Int /\ (IF 1 > n THEN 0 ELSE n - 1 + 1) = n
      BY <2>2
    <3> QED
      BY ONLY <3>1, FS_Interval
  <2>8. Cardinality(pool.live) = n
    <3> HIDE DEF n
    <3> QED
      BY <2>6, <2>7, FS_Bijection
  <2> QED
    BY <2>8
<1> QED
  BY Scheduled, <1>1, PTL

(* Requests start in the order they were submitted. *)
THEOREM ServedInOrder == SchedSpec => []InOrder
<1>1. SchedInv => InOrder
  <2> SUFFICES ASSUME SchedInv, NEW q \in 1 .. sent, NEW r \in 1 .. sent, q < r, Queued(q)
               PROVE  answer[r] = "none" /\ \A i \in 1 .. Len(running) : running[i].req # r
    BY DEF InOrder
  <2>1. SchedTypeOK /\ BegunInv
    BY DEF SchedInv
  <2>2. q \in Requests /\ r \in Requests
    BY <2>1, SchedulerSizes DEF SchedTypeOK, Requests
  <2>3. ~(r < q)
    BY <2>2 DEF Requests
  <2>4. ~Begun(r)
    BY <2>1, <2>2, <2>3 DEF BegunInv
  <2> QED
    BY <2>4 DEF Begun, Runs
<1> QED
  BY Scheduled, <1>1, PTL

(* When a step is planned, each row's KV is what its bookkeeping says is    *)
(* fed: no chunk of a prompt, and no token, was fed twice or skipped.       *)
THEOREM FedOnce == SchedSpec => []FedIsComputed
<1>1. SchedInv => FedIsComputed
  <2> SUFFICES ASSUME SchedInv, phase = "drop", NEW i \in 1 .. Len(running)
               PROVE  IF PromptComplete(running[i])
                      THEN SeqLen(pool, running[i].seq) = Len(text[running[i].seq]) - 1
                      ELSE SeqLen(pool, running[i].seq) = running[i].prefilled
    BY DEF FedIsComputed
  <2>1. FedInv /\ i \notin finished
    BY DEF SchedInv, PlanInv
  <2>2. UnderWay = {}
    BY DEF UnderWay
  <2> QED
    BY <2>1, <2>2 DEF FedInv, Booked
<1> QED
  BY Scheduled, <1>1, PTL

-----------------------------------------------------------------------------
(* What an item of a plan finds when its turn in the forward pass comes. *)
LEMMA ItemToCome ==
  ASSUME IInv, SchedInv, phase = "forward", NEW j \in at .. Len(plan)
  PROVE  LET id == running[plan[j].idx].seq
         IN  /\ id \in SeqIds /\ id \in pool.live
             /\ plan[j].len \in Nat /\ plan[j].len >= 1
             /\ SeqLen(pool, id) \in Nat /\ Len(text[id]) \in Nat
             /\ SeqLen(pool, id) + plan[j].len <= Len(text[id])
             /\ Len(text[id]) < MaxSeq
<1> DEFINE i == plan[j].idx
           row == running[i]
           size == Len(text[row.seq])
           own == Len(row.prompt)
<1>1. SchedTypeOK /\ RowsInv /\ PlanInv /\ TextInv /\ FedInv
  BY DEF SchedInv
<1>2. j \in 1 .. Len(plan) /\ j \in Ahead /\ j \notin UnderWay
  <2>1. at \in Nat \ {0} /\ Len(plan) \in Nat
    BY <1>1, LenProperties DEF SchedTypeOK
  <2> QED
    BY <2>1 DEF Ahead, UnderWay
<1>3. plan[j] \in Items /\ i \in 1 .. Len(running) /\ i \notin finished
  <2>1. plan \in Seq(Items)
    BY <1>1 DEF SchedTypeOK
  <2> QED
    BY <1>1, <1>2, <2>1, ElementOfSeq DEF PlanInv
<1>4. plan[j].len \in Nat /\ row \in Runnings /\ row.seq \in SeqIds
      /\ own \in Nat /\ row.prefilled \in Nat /\ row.seq \in pool.live
  <2>1. running \in Seq(Runnings)
    BY <1>1 DEF SchedTypeOK
  <2> QED
    BY <1>1, <1>3, <2>1, RowNumbers DEF Items, RowsInv
<1>5. size \in Nat /\ SeqLen(pool, row.seq) \in Nat
  <2>1. text[row.seq] \in Seq(Contents) /\ pool.slots[row.seq] \in Seq(Slots)
    BY <1>4, PoolFields DEF IInv, TypeOK
  <2> QED
    BY <2>1, LenProperties DEF SeqLen
<1>6. FitsRow(plan[j]) /\ RowText(i) /\ RowFed(i)
  BY <1>1, <1>2, <1>3, RowForm
<1>7. RowBooked(i)
  <2>1. \A k \in UnderWay : k \in 1 .. Len(plan)
    BY DEF UnderWay
  <2>2. \A k \in UnderWay : plan[k].idx # i
    BY <1>1, <1>2, <2>1 DEF PlanInv
  <2> QED
    BY <1>6, <2>2 DEF RowFed
<1>8. CASE PromptComplete(row)
  <2>1. plan[j].len = 1 /\ SeqLen(pool, row.seq) = size - 1 /\ size < MaxSeq
    BY <1>6, <1>7, <1>8 DEF FitsRow, RowText, RowBooked, Booked
  <2> QED
    BY <1>4, <1>5, <2>1
<1>9. CASE ~PromptComplete(row)
  <2>1. /\ plan[j].len >= 1 /\ row.prefilled + plan[j].len <= own
        /\ SeqLen(pool, row.seq) = row.prefilled /\ size = own /\ size < MaxSeq
    BY <1>6, <1>7, <1>9 DEF FitsRow, RowText, RowBooked, Booked
  <2> QED
    BY <1>4, <1>5, <2>1
<1> QED
  BY <1>8, <1>9

(* "A step never asks for more than the pool can give": the items of a plan *)
(* still to be fed fit the free slots, and each fits its row.               *)
THEOREM PlansFit == SchedSpec => []PlanFitsPool
<1>1. IInv /\ SchedInv => PlanFitsPool
  <2> SUFFICES ASSUME IInv, SchedInv, phase = "forward", NEW j \in at .. Len(plan)
               PROVE  plan[j].len <= Headroom(pool, running[plan[j].idx].seq)
    BY DEF PlanFitsPool, SchedInv, RoomInv
  <2> DEFINE size == Len(text[running[plan[j].idx].seq])
             fed == SeqLen(pool, running[plan[j].idx].seq)
             len == plan[j].len
  <2>1. /\ len \in Nat /\ fed \in Nat /\ size \in Nat /\ fed + len <= size /\ size < MaxSeq
        /\ MaxSeq \in Nat
    BY ItemToCome, PoolSizes
  <2>2. Headroom(pool, running[plan[j].idx].seq) = MaxSeq - fed
    BY DEF Headroom
  <2> HIDE DEF size, fed, len
  <2>3. len <= MaxSeq - fed
    BY <2>1
  <2> QED
    BY <2>2, <2>3 DEF len
<1> QED
  BY Scheduled, <1>1, PTL

(* The pool refuses no step of a plan, and a row that was sampled for has   *)
(* room for its token. forward_batch_rows propagates a failing extend to    *)
(* fail_all; only the device can make it do so.                             *)
PlanGoesThrough ==
  /\ phase = "forward" /\ at <= Len(plan) =>
       LET id == running[plan[at].idx].seq
       IN  /\ plan[at].len \in 1 .. MaxSeq
           /\ SeqLen(pool, id) + plan[at].len <= Len(text[id])
           /\ CanExtend(pool, id, plan[at].len)
  /\ phase = "advance" /\ at <= Len(plan) /\ plan[at].last =>
       LET id == running[plan[at].idx].seq
       IN  id \in pool.live /\ SeqLen(pool, id) = Len(text[id]) /\ Len(text[id]) < MaxSeq

LEMMA ForwardGoes ==
  ASSUME IInv, SchedInv, phase = "forward", at <= Len(plan)
  PROVE  LET id == running[plan[at].idx].seq
         IN  /\ plan[at].len \in 1 .. MaxSeq
             /\ SeqLen(pool, id) + plan[at].len <= Len(text[id])
             /\ CanExtend(pool, id, plan[at].len)
<1> DEFINE id == running[plan[at].idx].seq
           len == plan[at].len
           total == Asked(plan, Len(plan))
           before == Asked(plan, at - 1)
<1>1. SchedTypeOK /\ RoomInv
  BY DEF SchedInv
<1>2. at \in Nat \ {0} /\ Len(plan) \in Nat /\ plan \in Seq(Items)
  BY <1>1, LenProperties DEF SchedTypeOK
<1>3. at \in at .. Len(plan) /\ at \in 1 .. Len(plan) /\ at - 1 \in 0 .. Len(plan)
  BY <1>2
<1>4. /\ id \in pool.live /\ len \in Nat /\ len >= 1 /\ SeqLen(pool, id) \in Nat
      /\ Len(text[id]) \in Nat /\ SeqLen(pool, id) + len <= Len(text[id])
      /\ Len(text[id]) < MaxSeq /\ MaxSeq \in Nat
  BY <1>3, ItemToCome, PoolSizes
<1>5. before + len <= total /\ before \in Nat /\ total \in Nat
  <2>1. Asked(plan, at) = before + len /\ before \in Nat /\ total \in Nat
    BY <1>2, <1>3, AskedFacts
  <2>2. Asked(plan, at) <= total
    BY <1>2, <1>3, AskedGrows
  <2> QED
    BY <2>1, <2>2
<1>6. total - before <= FreeSlots(pool) /\ FreeSlots(pool) \in Nat
  BY <1>1, PoolFields DEF RoomInv, IInv, TypeOK
<1> HIDE DEF id, len, total, before
<1>7. len <= FreeSlots(pool)
  BY <1>4, <1>5, <1>6
<1>8. len \in 1 .. MaxSeq /\ SeqLen(pool, id) + len <= MaxSeq
  BY <1>4
<1> QED
  BY <1>4, <1>7, <1>8 DEF CanExtend, id, len

LEMMA SampledGoes ==
  ASSUME IInv, SchedInv, phase = "advance", at <= Len(plan), plan[at].last
  PROVE  LET id == running[plan[at].idx].seq
         IN  id \in pool.live /\ SeqLen(pool, id) = Len(text[id]) /\ Len(text[id]) < MaxSeq
<1> DEFINE id == Row.seq
           size == Len(text[id])
<1>1. SchedTypeOK /\ RowsInv /\ PlanInv /\ TextInv /\ FedInv
  BY DEF SchedInv
<1>2. /\ at \in 1 .. Len(plan) /\ Item.idx \in 1 .. Len(running) /\ Item.idx \notin finished
      /\ Row = running[Item.idx] /\ Item = plan[at] /\ id \in SeqIds
  BY <1>1, ItemFacts DEF Row, Item
<1>3. at \in Ahead /\ at \in UnderWay
  BY <1>1, <1>2 DEF Ahead, UnderWay, SchedTypeOK
<1>4. FitsRow(Item) /\ RowText(Item.idx) /\ RowFed(Item.idx)
  BY <1>1, <1>2, <1>3, RowForm
<1>5. id \in pool.live
  BY <1>1, <1>2 DEF RowsInv
<1>6. size \in Nat
  <2>1. text[id] \in Seq(Contents)
    BY <1>2 DEF IInv, TypeOK
  <2> QED
    BY <2>1, LenProperties
<1>7. SeqLen(pool, id) = Booked(Row) + Item.len /\ size < MaxSeq
  BY <1>2, <1>3, <1>4 DEF RowFed, RowText
<1>8. SeqLen(pool, id) = size
  <2>1. CASE PromptComplete(Row)
    <3>1. Item.len = 1 /\ Booked(Row) = size - 1
      BY <1>2, <1>4, <2>1 DEF FitsRow, Booked
    <3> QED
      BY <1>6, <1>7, <3>1
  <2>2. CASE ~PromptComplete(Row)
    BY <1>2, <1>4, <1>7, <2>2 DEF FitsRow, Booked, RowText
  <2> QED
    BY <2>1, <2>2
<1> QED
  BY <1>2, <1>5, <1>7, <1>8

(* In every state a step of a plan is one the pool and the row can take: no *)
(* guard of PrefixPool's Forward or Emit holds back a step of the worker.   *)
THEOREM PlansGoThrough == SchedSpec => []PlanGoesThrough
<1>1. IInv /\ SchedInv => PlanGoesThrough
  BY ForwardGoes, SampledGoes DEF PlanGoesThrough
<1> QED
  BY Scheduled, <1>1, PTL

-----------------------------------------------------------------------------
(* A request that is answered is answered for good... *)
LEMMA AnswerStays ==
  ASSUME IInv, PromptsInv, SchedInv, [SchedNext]_svars, NEW r \in Requests, answer[r] # "none"
  PROVE  answer'[r] = answer[r]
<1>1. /\ SchedTypeOK /\ LineInv /\ BegunInv /\ RowsInv /\ PlanInv
      /\ answer \in [Requests -> {"none", "stop", "length", "failed"}]
  BY DEF SchedInv, SchedTypeOK
<1>2. ~Queued(r)
  BY <1>1, QueuedApart
<1>3. ASSUME NEW q \in Requests, NEW event, Answer(q, event), answer[q] = "none" PROVE answer'[r] = answer[r]
  BY <1>1, <1>3 DEF Answer
<1>4. CASE EncodeFails
  <2>1. waiting # << >> /\ Answer(Head(waiting).req, "failed")
    BY <1>4 DEF EncodeFails
  <2>2. Head(waiting).req \in Requests /\ Queued(Head(waiting).req)
    BY <2>1, HeadQueued
  <2> QED
    BY <1>1, <1>3, <2>1, <2>2, QueuedApart
<1>5. CASE Reject
  <2>1. Answer(cand.req, "failed") /\ cand.req \in Requests /\ Queued(cand.req)
    BY <1>5 DEF Reject, PromptsInv, Queued
  <2> QED
    BY <1>1, <1>3, <2>1, QueuedApart
<1>6. CASE \/ AdvancePrompt \/ AdvanceEog
           \/ \E token \in Tokens : AdvanceHungUp(token) \/ AdvanceStop(token) \/ AdvanceToken(token)
  <2>1. /\ Item.idx \in 1 .. Len(running) /\ Item.idx \notin finished
        /\ Row = running[Item.idx] /\ Row.req \in Requests
    BY <1>1, <1>6, AdvancingSteps, ItemFacts DEF Advancing, Row
  <2>2. answer[Row.req] = "none"
    BY <1>1, <2>1 DEF RowsInv
  <2>3. answer' = answer \/ \E event \in {"stop", "length"} : Answer(Row.req, event)
    BY <1>6, AdvancingSteps DEF GoesOn
  <2> QED
    BY <1>3, <2>1, <2>2, <2>3
<1>7. CASE FailRunning
  <2>1. /\ running \in Seq(Runnings) /\ running # << >> /\ Answer(Head(running).req, "failed")
        /\ finished = {}
    BY <1>1, <1>7 DEF FailRunning, PlanInv, SchedTypeOK
  <2>2. Len(running) \in Nat /\ Len(running) # 0 /\ Head(running) = running[1]
    BY <2>1, EmptySeq, HeadTailProperties, LenProperties
  <2>3. 1 \in 1 .. Len(running)
    BY <2>2
  <2>4. running[1].req \in Requests /\ answer[running[1].req] = "none"
    BY <1>1, <2>1, <2>3, RowNumbers DEF RowsInv
  <2> QED
    BY <1>3, <2>1, <2>2, <2>4
<1>8. CASE FailWaiting
  BY <1>1, <1>2, <1>8 DEF FailWaiting, Queued
<1>9. CASE \/ Submit \/ \E q \in Requests : Disconnect(q)
  BY <1>9 DEF Submit, Disconnect
<1>10. CASE \/ Receive \/ AdmitNoMore \/ TakeNext \/ EvictTurn \/ EvictDone \/ Requeue
            \/ \E seq \in SeqIds : Start(seq)
  BY <1>10 DEF Receive, AdmitNoMore, TakeNext, EvictTurn, EvictDone, Requeue, Start, Granted, queues
<1>11. CASE \/ DropOrPass \/ MakePlan \/ ForwardItem \/ ForwardFails \/ ForwardDone
            \/ AdvanceDone \/ RetireLast \/ StepDone
  BY <1>11 DEF DropOrPass, MakePlan, ForwardItem, ForwardFails, ForwardDone, AdvanceDone,
               RetireLast, StepDone, queues
<1>12. CASE UNCHANGED svars
  BY <1>12 DEF svars, queues
<1>13. CASE Worker
  BY <1>4, <1>5, <1>6, <1>7, <1>8, <1>10, <1>11, <1>13 DEF Worker
<1> QED
  BY <1>9, <1>12, <1>13 DEF SchedNext

(* ... so a client is sent at most one Done or Failed event, however its    *)
(* request, its going away and the failures of steps interleave.            *)
THEOREM OneAnswer == SchedSpec => AnsweredOnce
<1>1. IInv /\ PromptsInv /\ SchedInv /\ [SchedNext]_svars
        => [\A r \in Requests : answer[r] # "none" => answer'[r] = answer[r]]_svars
  BY AnswerStays
<1> QED
  BY Scheduled, <1>1, PTL DEF SchedSpec, AnsweredOnce

=============================================================================

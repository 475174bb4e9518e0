----------------------- MODULE TensorParallel_proofs -----------------------
(***************************************************************************)
(* The scheduler with its gauges and, where it has followers, with what    *)
(* rank 0 tells them. Every step is a step of the scheduler, or refuses a  *)
(* picture, which is one more way for a row to leave: so all that is       *)
(* proved of the scheduler holds here too. That the gauges settle follows  *)
(* from counting where requests are.                                       *)
(***************************************************************************)
EXTENDS TensorParallel, Scheduler_proofs, FunctionTheorems

(* What rank 0 does that the scheduler alone would not. *)
LEMMA TPSteps ==
  ASSUME [TPNext]_tpvars
  PROVE  [SchedNext]_svars \/ RefusePicture
<1>1. CASE UNCHANGED tpvars
  BY <1>1 DEF tpvars, evars
<1>2. CASE EngineClients /\ Alone
  BY <1>2 DEF EngineClients, EngineCount, EngineSend, SchedNext
<1>3. CASE TPWorker
  <2>1. CASE TPReceive
    BY <2>1 DEF TPReceive, EngineReceive, SchedNext, Worker
  <2>2. CASE \E seq \in SeqIds : TPStart(seq)
    BY <2>2 DEF TPStart, SchedNext, Worker
  <2>3. CASE TPDrop \/ TPPlan
    BY <2>3 DEF TPDrop, TPPlan, SchedNext, Worker
  <2>4. CASE OutOfStep
    BY <2>4 DEF OutOfStep, evars
  <2>5. CASE TPForwardItem \/ TPForwardFails \/ TPForwardDone \/ TPAdvanceDone
    BY <2>5 DEF TPForwardItem, TPForwardFails, TPForwardDone, TPAdvanceDone, SchedNext, Worker
  <2>6. CASE \E token \in Tokens :
               (AdvanceHungUp(token) \/ AdvanceStop(token) \/ AdvanceToken(token)) /\ StepCounted /\ Alone
    BY <2>6 DEF SchedNext, Worker
  <2>7. CASE EngineFails /\ Alone
    BY <2>7 DEF EngineFails, SchedNext, Worker
  <2>8. CASE \/ (AdmitNoMore \/ TakeNext \/ EncodeFails) /\ StepCounted /\ Alone
             \/ (EvictTurn \/ EvictDone \/ Reject \/ Requeue) /\ StepCounted /\ Alone
             \/ (AdvancePrompt \/ AdvanceEog) /\ StepCounted /\ Alone
             \/ (RetireLast \/ StepDone) /\ StepCounted /\ Alone
    BY <2>8 DEF SchedNext, Worker
  <2> QED
    BY <1>3, <2>1, <2>2, <2>3, <2>4, <2>5, <2>6, <2>7, <2>8 DEF TPWorker
<1> QED
  BY <1>1, <1>2, <1>3 DEF TPNext

(* A refused picture's row leaves like a row whose client has gone. *)
LEMMA RefuseLeaves ==
  ASSUME IInv, SchedTypeOK, PlanInv, RefusePicture
  PROVE  /\ phase = "drop" /\ phase' = "drop" /\ finished = {} /\ finished' = {}
         /\ at' \in Nat \ {0} /\ running' \in Seq(Runnings)
         /\ Len(running') = Len(running) - 1
         /\ UNCHANGED << sent, gone, jobs, waiting, ask, cand, committed, freed, plan >>
         /\ \E i \in 1 .. Len(running) : \E m :
              /\ running[i].seq \in SeqIds /\ Retire(running[i].seq)
              /\ running[i].req \in Requests /\ Answer(running[i].req, "failed")
              /\ Departs(i, m)
<1>1. /\ running \in Seq(Runnings) /\ Len(running) \in Nat
      /\ phase = "drop" /\ phase' = phase /\ finished = {} /\ finished' = {}
      /\ UNCHANGED << sent, gone, jobs, waiting, ask, cand, committed, freed, plan >>
  BY LenProperties DEF SchedTypeOK, PlanInv, RefusePicture, ClientsIdle
<1>2. PICK i \in 1 .. Len(running) :
        /\ Retire(running[i].seq) /\ running' = SwapRemove(running, i)
        /\ Answer(running[i].req, "failed") /\ at' = Len(running)
  BY DEF RefusePicture
<1>3. running[i].seq \in SeqIds /\ running[i].req \in Requests
  BY <1>1, RowNumbers
<1>4. finished \subseteq 1 .. i /\ finished' = finished \ {i}
  BY <1>1
<1>5. running' \in Seq(Runnings) /\ \E m : Leaves(i, m)
  BY <1>1, <1>2, <1>4, SwapLeaves
<1>6. PICK m : Leaves(i, m)
  BY <1>5
<1>7. FreesRow(running[i].seq)
  BY <1>2, <1>3, RetireFrees
<1>8. Departs(i, m)
  BY <1>1, <1>2, <1>6, <1>7 DEF Departs
<1>9. at' \in Nat \ {0} /\ Len(running') = Len(running) - 1
  BY <1>1, <1>2, <1>6 DEF Leaves
<1> QED
  BY <1>1, <1>2, <1>3, <1>5, <1>8, <1>9

LEMMA RefuseKeeps ==
  ASSUME IInv, PromptsInv, SchedInv, RefusePicture
  PROVE  IInv' /\ PromptsInv' /\ SchedInv'
<1>1. SchedTypeOK /\ LineInv /\ BegunInv /\ RowsInv /\ PlanInv /\ TextInv /\ FedInv
  BY DEF SchedInv
<1>2. /\ phase = "drop" /\ phase' = "drop" /\ finished = {} /\ finished' = {}
      /\ at' \in Nat \ {0} /\ running' \in Seq(Runnings)
      /\ UNCHANGED << sent, gone, jobs, waiting, ask, cand, committed, freed, plan >>
  BY <1>1, RefuseLeaves
<1>3. PICK i \in 1 .. Len(running) : \E m :
        /\ running[i].seq \in SeqIds /\ Retire(running[i].seq)
        /\ running[i].req \in Requests /\ Answer(running[i].req, "failed")
        /\ Departs(i, m)
  BY <1>1, RefuseLeaves
<1>4. PICK m :
        /\ running[i].seq \in SeqIds /\ Retire(running[i].seq)
        /\ running[i].req \in Requests /\ Answer(running[i].req, "failed")
        /\ Departs(i, m)
  BY <1>3
<1>5. IInv'
  <2>1. Next
    BY <1>4 DEF Next
  <2> QED
    BY <2>1, StepInv
<1>6. PromptsInv'
  BY <1>2, PromptsKept
<1>7. SchedTypeOK'
  BY <1>1, <1>2, <1>4 DEF SchedTypeOK, Answer
<1>8. LineInv' /\ BegunInv'
  BY <1>1, <1>4, DepartRequests
<1>9. RowsInv'
  BY <1>1, <1>4, DepartRows
<1>10. PlanInv' /\ RoomInv'
  BY <1>2 DEF PlanInv, RoomInv
<1>11. TextInv' /\ FedInv'
  BY <1>1, <1>4, RowsDepart
<1> QED
  BY <1>5, <1>6, <1>7, <1>8, <1>9, <1>10, <1>11 DEF SchedInv

LEMMA TPStepInv ==
  ASSUME IInv, PromptsInv, SchedInv, [TPNext]_tpvars
  PROVE  IInv' /\ PromptsInv' /\ SchedInv'
<1>1. CASE RefusePicture
  BY <1>1, RefuseKeeps
<1>2. CASE [SchedNext]_svars
  BY <1>2, SchedInvStep, PromptsStep, StepSimulation, StepInv
<1> QED
  BY <1>1, <1>2, TPSteps

LEMMA TPScheduled == TPSpec => [](IInv /\ PromptsInv /\ SchedInv)
<1>1. TPInit => IInv /\ PromptsInv /\ SchedInv
  BY PromptsInit, InitInv, SchedInvInit DEF TPInit, EngineInit, SchedInit
<1>2. IInv /\ PromptsInv /\ SchedInv /\ [TPNext]_tpvars => (IInv /\ PromptsInv /\ SchedInv)'
  BY TPStepInv
<1> QED
  BY <1>1, <1>2, PTL DEF TPSpec

-----------------------------------------------------------------------------
(* Counting requests. What an enumeration without repeats enumerates. *)
LEMMA ListedOnce ==
  ASSUME NEW n \in Nat, NEW f, NEW T,
         \A i \in 1 .. n : f[i] \in T,
         \A t \in T : \E i \in 1 .. n : f[i] = t,
         \A i, j \in 1 .. n : f[i] = f[j] => i = j
  PROVE  IsFiniteSet(T) /\ Cardinality(T) = n
<1> DEFINE g == [ i \in 1 .. n |-> f[i] ]
<1>1. g \in Bijection(1 .. n, T)
  <2>1. g \in [1 .. n -> T] /\ DOMAIN g = 1 .. n /\ \A i \in 1 .. n : g[i] = f[i]
    OBVIOUS
  <2> HIDE DEF g
  <2> QED
    BY <2>1 DEF Bijection, Injection, Surjection, IsInjective
<1>2. IsFiniteSet(1 .. n) /\ Cardinality(1 .. n) = n
  <2>1. 1 \in Int /\ n \in Int /\ (IF 1 > n THEN 0 ELSE n - 1 + 1) = n
    OBVIOUS
  <2> QED
    BY ONLY <2>1, FS_Interval
<1>3. ExistsBijection(1 .. n, T)
  BY <1>1 DEF ExistsBijection
<1> QED
  BY <1>2, <1>3, FS_Bijection

LEMMA ApartAdds ==
  ASSUME NEW S, NEW T, IsFiniteSet(S), IsFiniteSet(T), \A x \in S : x \notin T
  PROVE  IsFiniteSet(S \cup T) /\ Cardinality(S \cup T) = Cardinality(S) + Cardinality(T)
<1>1. Cardinality(S \cap T) = 0
  <2>1. S \cap T = {}
    OBVIOUS
  <2> QED
    BY <2>1, FS_EmptySet
<1>2. Cardinality(S) \in Nat /\ Cardinality(T) \in Nat
  BY FS_CardinalityType
<1>3. /\ IsFiniteSet(S \cup T)
      /\ Cardinality(S \cup T) = Cardinality(S) + Cardinality(T) - Cardinality(S \cap T)
  BY FS_Union
<1> QED
  BY <1>1, <1>2, <1>3

(* Each request that was sent is in the channel, in the queue, in admit's   *)
(* hand, in a row, or finished.                                             *)
Hand == IF cand = NoCand THEN 0 ELSE 1
LEMMA RequestsCount ==
  ASSUME PromptsInv, SchedInv
  PROVE  /\ Cardinality(Finished) \in Nat
         /\ Cardinality(Finished) + Len(jobs) + Len(waiting) + Len(running) + Hand = sent
<1> DEFINE J == { jobs[i] : i \in 1 .. Len(jobs) }
           queue == [ i \in 1 .. Len(waiting) |-> waiting[i].req ]
           W == { queue[i] : i \in 1 .. Len(waiting) }
           rows == [ i \in 1 .. Len(running) |-> running[i].req ]
           R == { rows[i] : i \in 1 .. Len(running) }
           C == IF cand = NoCand THEN {} ELSE {cand.req}
           All == ((J \cup W) \cup C) \cup R
<1>1. /\ SchedTypeOK /\ LineInv /\ BegunInv /\ RowsInv
  BY DEF SchedInv
<1>2. /\ Len(jobs) \in Nat /\ Len(waiting) \in Nat /\ sent \in Nat /\ sent \in 0 .. NumRequests
      /\ \A i \in 1 .. Len(jobs) : jobs[i] \in Requests /\ jobs[i] \in Nat
      /\ \A i \in 1 .. Len(waiting) : waiting[i].req \in Requests /\ waiting[i].req \in Nat
      /\ cand # NoCand => cand.req \in Requests /\ cand.req \in Nat
      /\ NoCand.req = 0 /\ 0 \notin Requests
  BY <1>1, LineFacts DEF SchedTypeOK
<1>3. Len(running) \in Nat /\ \A i \in 1 .. Len(running) : running[i].req \in Requests
  BY <1>1, RowNumbers, LenProperties DEF SchedTypeOK
<1>4. IsFiniteSet(J) /\ Cardinality(J) = Len(jobs)
  <2>1. \A i, j \in 1 .. Len(jobs) : jobs[i] = jobs[j] => i = j
    BY <1>1, <1>2 DEF LineInv
  <2>2. /\ \A i \in 1 .. Len(jobs) : jobs[i] \in J
        /\ \A x \in J : \E i \in 1 .. Len(jobs) : jobs[i] = x
    OBVIOUS
  <2>3. Len(jobs) \in Nat
    BY <1>2
  <2> HIDE DEF J
  <2> QED
    BY ONLY <2>1, <2>2, <2>3, ListedOnce
<1>5. IsFiniteSet(W) /\ Cardinality(W) = Len(waiting)
  <2>1. \A i, j \in 1 .. Len(waiting) : queue[i] = queue[j] => i = j
    BY <1>1, <1>2 DEF LineInv
  <2>2. /\ \A i \in 1 .. Len(waiting) : queue[i] \in W
        /\ \A x \in W : \E i \in 1 .. Len(waiting) : queue[i] = x
    OBVIOUS
  <2>3. Len(waiting) \in Nat
    BY <1>2
  <2> HIDE DEF W, queue
  <2> QED
    BY ONLY <2>1, <2>2, <2>3, ListedOnce
<1>6. IsFiniteSet(R) /\ Cardinality(R) = Len(running)
  <2>1. \A i, j \in 1 .. Len(running) : rows[i] = rows[j] => i = j
    BY <1>1 DEF RowsInv
  <2>2. /\ \A i \in 1 .. Len(running) : rows[i] \in R
        /\ \A x \in R : \E i \in 1 .. Len(running) : rows[i] = x
    OBVIOUS
  <2> HIDE DEF R, rows
  <2> QED
    BY ONLY <1>3, <2>1, <2>2, ListedOnce
<1>7. IsFiniteSet(C) /\ Cardinality(C) = Hand
  BY FS_EmptySet, FS_Singleton DEF Hand
<1>8. \A r \in Requests : Queued(r) <=> r \in J \/ r \in W \/ r \in C
  BY <1>2 DEF Queued
<1>9. \A r : Runs(r) <=> r \in R
  BY DEF Runs
<1>10. \A x \in J : x \notin W
  BY <1>1, <1>2 DEF LineInv
<1>11. \A x \in J \cup W : x \notin C
  BY <1>1, <1>2 DEF LineInv
<1>12. J \subseteq Requests /\ W \subseteq Requests /\ C \subseteq Requests /\ R \subseteq Requests
  BY <1>2, <1>3
<1> HIDE DEF J, W, C, R
<1>13. \A x \in (J \cup W) \cup C : x \notin R
  BY <1>1, <1>8, <1>9, <1>12, QueuedApart
<1>14. /\ IsFiniteSet(All)
       /\ Cardinality(All) = Len(jobs) + Len(waiting) + Hand + Len(running)
  <2>1. IsFiniteSet(J \cup W) /\ Cardinality(J \cup W) = Len(jobs) + Len(waiting)
    BY <1>4, <1>5, <1>10, ApartAdds
  <2>2. /\ IsFiniteSet((J \cup W) \cup C)
        /\ Cardinality((J \cup W) \cup C) = Len(jobs) + Len(waiting) + Hand
    BY <1>7, <1>11, <2>1, ApartAdds
  <2>3. IsFiniteSet(All) /\ Cardinality(All) = Cardinality((J \cup W) \cup C) + Cardinality(R)
    BY ONLY <1>6, <1>13, <2>2, ApartAdds
  <2> HIDE DEF All
  <2> QED
    BY <1>6, <2>2, <2>3
<1>15. All \subseteq 1 .. sent
  <2>1. \A r \in Requests : Queued(r) => r <= sent
    BY <1>1 DEF LineInv
  <2>2. \A r \in Requests : Runs(r) => r <= sent
    BY <1>1 DEF BegunInv, Begun
  <2>3. \A r \in All : r \in Requests /\ r <= sent
    BY <1>8, <1>9, <1>12, <2>1, <2>2
  <2> QED
    BY <1>2, <2>3 DEF Requests
<1>16. Finished = (1 .. sent) \ All
  <2>1. \A r \in 1 .. sent : r \in Requests
    BY <1>2, SchedulerSizes DEF Requests
  <2>2. \A r \in 1 .. sent : r \in All <=> Queued(r) \/ Runs(r)
    BY <1>8, <1>9, <2>1
  <2> QED
    BY <2>2 DEF Finished, Runs
<1>17. IsFiniteSet(1 .. sent) /\ Cardinality(1 .. sent) = sent
  <2>1. 1 \in Int /\ sent \in Int /\ (IF 1 > sent THEN 0 ELSE sent - 1 + 1) = sent
    BY <1>2
  <2> QED
    BY ONLY <2>1, FS_Interval
<1> HIDE DEF All
<1>18. (1 .. sent) \cap All = All
  BY <1>15
<1>19. /\ IsFiniteSet(Finished) /\ Cardinality(Finished) = sent - Cardinality(All)
  <2>1. /\ IsFiniteSet((1 .. sent) \ All)
        /\ Cardinality((1 .. sent) \ All) = Cardinality(1 .. sent) - Cardinality((1 .. sent) \cap All)
    BY ONLY <1>17, FS_Difference
  <2> QED
    BY <1>16, <1>17, <1>18, <2>1
<1>20. Cardinality(Finished) \in Nat
  BY <1>19, FS_CardinalityType
<1>21. Hand \in Nat
  BY DEF Hand
<1> QED
  BY <1>2, <1>3, <1>14, <1>19, <1>20, <1>21

-----------------------------------------------------------------------------
(* What the gauges say in the middle of a step. Between steps `served` is   *)
(* what was drawn from the channel and is no longer held; during one,       *)
(* `before` is still to be shared between `served` and what is held. Where  *)
(* nothing failed the sums are exact. A step that fails has rows to fail.   *)
NoneFailed == \A r \in Requests : answer[r] # "failed"
OnTheWay == Len(jobs)
Drawn == sent - OnTheWay
GaugeInv ==
  /\ counting \in Nat /\ in_flight \in Nat /\ in_flight <= sent + counting
  /\ served \in Nat /\ before \in Nat
  /\ phase = "recv" =>
       /\ InFlight <= in_flight /\ in_flight <= InFlight + OnTheWay + counting
       /\ served + InFlight <= Drawn
       /\ NoneFailed => served + InFlight = Drawn
  /\ phase # "recv" => served + before <= Drawn
  /\ phase \notin {"recv", "fail"} =>
       /\ InFlight + Hand <= before
       /\ NoneFailed => served + before = Drawn
  /\ phase = "forward" => running # << >>
  /\ phase = "fail" /\ NoneFailed => running # << >>

LEMMA Numbers ==
  ASSUME SchedTypeOK
  PROVE  /\ sent \in Nat /\ OnTheWay \in Nat /\ InFlight \in Nat /\ Hand \in {0, 1}
         /\ Drawn \in Int /\ Drawn <= sent
         /\ phase \in {"evict", "decide"} <=> Hand = 1
<1>1. /\ sent \in 0 .. NumRequests /\ NumRequests \in Nat
      /\ jobs \in Seq(Requests) /\ waiting \in Seq([req : Requests, pending : BOOLEAN])
      /\ running \in Seq(Runnings)
      /\ phase \in {"evict", "decide"} <=> cand # NoCand
  BY SchedulerSizes DEF SchedTypeOK
<1>2. Len(jobs) \in Nat /\ Len(waiting) \in Nat /\ Len(running) \in Nat
  BY <1>1, LenProperties
<1>3. Hand \in {0, 1} /\ (phase \in {"evict", "decide"} <=> Hand = 1)
  BY <1>1 DEF Hand
<1>4. InFlight \in Nat /\ OnTheWay \in Nat
  BY <1>2 DEF InFlight, OnTheWay
<1>5. sent \in Nat
  BY <1>1
<1>6. Drawn \in Int /\ Drawn <= sent
  BY ONLY <1>4, <1>5 DEF Drawn
<1> QED
  BY <1>3, <1>4, <1>5, <1>6

LEMMA RequestsAccounted ==
  ASSUME PromptsInv, SchedInv
  PROVE  /\ Cardinality(Finished) \in Nat
         /\ Cardinality(Finished) + OnTheWay + InFlight + Hand = sent
<1>1. /\ Len(jobs) \in Nat /\ Len(waiting) \in Nat /\ Len(running) \in Nat
  BY LenProperties DEF SchedInv, SchedTypeOK
<1> QED
  BY <1>1, RequestsCount, Numbers DEF InFlight, OnTheWay, SchedInv

LEMMA NumbersThen ==
  ASSUME SchedTypeOK'
  PROVE  /\ Len(waiting)' \in Nat /\ Len(running)' \in Nat
         /\ InFlight' \in Nat /\ Hand' \in {0, 1}
         /\ phase' \in {"evict", "decide"} <=> Hand' = 1
<1>1. Hand' \in {0, 1} /\ (phase' \in {"evict", "decide"} <=> Hand' = 1)
  BY DEF Hand, SchedTypeOK
<1>2. Len(waiting)' \in Nat /\ Len(running)' \in Nat
  <2>1. waiting' \in Seq([req : Requests', pending : BOOLEAN]) /\ running' \in Seq(Runnings')
    BY DEF SchedTypeOK
  <2> QED
    BY <2>1, LenProperties
<1> QED
  BY <1>1, <1>2 DEF InFlight

(* A failure is for good. *)
LEMMA FailureStays ==
  ASSUME IInv, PromptsInv, SchedInv, [SchedNext]_svars \/ RefusePicture, NoneFailed'
  PROVE  NoneFailed
<1>1. CASE [SchedNext]_svars
  <2>1. ASSUME NEW r \in Requests, answer[r] = "failed" PROVE FALSE
    <3>1. answer'[r] = answer[r]
      BY <1>1, <2>1, AnswerStays
    <3> QED
      BY <2>1, <3>1 DEF NoneFailed
  <2> QED
    BY <2>1 DEF NoneFailed
<1>2. CASE RefusePicture
  <2>1. SchedTypeOK /\ PlanInv
    BY DEF SchedInv
  <2>2. PICK i \in 1 .. Len(running) :
          running[i].req \in Requests /\ Answer(running[i].req, "failed")
    BY <1>2, <2>1, RefuseLeaves
  <2>3. answer'[running[i].req] = "failed"
    BY <2>1, <2>2 DEF Answer, SchedTypeOK
  <2> QED
    BY <2>2, <2>3 DEF NoneFailed
<1> QED
  BY <1>1, <1>2

(* Within a step, what is held only goes down. *)
LEMMA HeldGoesDown ==
  ASSUME IInv, PromptsInv, SchedInv, SchedTypeOK', Worker \/ RefusePicture,
         phase \notin {"recv", "fail"}, phase = "forward" => running # << >>
  PROVE  /\ sent' = sent /\ jobs' = jobs
         /\ InFlight' + Hand' <= InFlight + Hand
         /\ phase' \in {"forward", "fail"} => running' # << >>
<1>1. SchedTypeOK /\ PlanInv
  BY DEF SchedInv
<1> DEFINE w == Len(waiting)
           n == Len(running)
<1>2. /\ w \in Nat /\ n \in Nat /\ Hand \in {0, 1}
      /\ phase \in {"evict", "decide"} <=> Hand = 1
      /\ Len(waiting)' \in Nat /\ Len(running)' \in Nat /\ Hand' \in {0, 1}
      /\ phase' \in {"evict", "decide"} <=> Hand' = 1
  <2>1. w \in Nat /\ n \in Nat
    BY <1>1, LenProperties DEF SchedTypeOK
  <2> QED
    BY <1>1, <2>1, Numbers, NumbersThen
<1>3. CASE RefusePicture
  <2>1. /\ phase = "drop" /\ phase' = "drop" /\ Len(running') = n - 1
        /\ sent' = sent /\ jobs' = jobs /\ waiting' = waiting /\ cand' = cand
    BY <1>1, <1>3, RefuseLeaves
  <2> QED
    BY <1>2, <2>1 DEF InFlight
<1>4. CASE TakeNext
  <2>1. /\ waiting # << >> /\ waiting' = Tail(waiting) /\ running' = running
        /\ phase = "admit" /\ phase' \in {"evict", "decide"} /\ sent' = sent /\ jobs' = jobs
    BY <1>4 DEF TakeNext, ClientsIdle
  <2>2. Len(waiting') = w - 1
    BY <1>1, <2>1, HeadTailProperties DEF SchedTypeOK
  <2> QED
    BY <1>2, <2>1, <2>2 DEF InFlight
<1>5. CASE EncodeFails
  <2>1. /\ waiting # << >> /\ waiting' = Tail(waiting) /\ running' = running
        /\ phase = "admit" /\ phase' = "admit" /\ sent' = sent /\ jobs' = jobs
    BY <1>5 DEF EncodeFails, ClientsIdle
  <2>2. Len(waiting') = w - 1
    BY <1>1, <2>1, HeadTailProperties DEF SchedTypeOK
  <2> QED
    BY <1>2, <2>1, <2>2 DEF InFlight
<1>6. CASE Requeue
  <2>1. /\ waiting' = << [ req |-> cand.req, pending |-> FALSE ] >> \o waiting
        /\ phase = "decide" /\ phase' = "drop" /\ running' = running
        /\ sent' = sent /\ jobs' = jobs
    BY <1>6 DEF Requeue, ClientsIdle
  <2>2. Len(waiting') = 1 + w
    <3>1. cand.req \in Requests
      BY <1>6 DEF Requeue, PromptsInv
    <3>2. << [ req |-> cand.req, pending |-> FALSE ] >> \in Seq([req : Requests, pending : BOOLEAN])
      BY <3>1
    <3> QED
      BY <1>1, <2>1, <3>2, ConcatProperties DEF SchedTypeOK
  <2> QED
    BY <1>2, <2>1, <2>2 DEF InFlight
<1>7. ASSUME NEW seq \in SeqIds, Start(seq)
      PROVE  /\ sent' = sent /\ jobs' = jobs /\ phase' = "admit"
             /\ InFlight' + Hand' <= InFlight + Hand
  <2>1. /\ phase = "decide" /\ phase' = "admit" /\ waiting' = waiting
        /\ sent' = sent /\ jobs' = jobs
        /\ running' = Append(running, [ seq |-> seq, req |-> cand.req, prompt |-> cand.prompt,
                                        prefilled |-> SeqLen(pool', seq) ])
    BY <1>7 DEF Start, Starts, Granted, queues
  <2>2. Len(running') = n + 1
    BY <2>1, <1>1 DEF SchedTypeOK
  <2> QED
    BY <1>2, <2>1, <2>2 DEF InFlight
<1>8. CASE DropOrPass \/ RetireLast
  <2>1. /\ sent' = sent /\ jobs' = jobs /\ waiting' = waiting /\ phase' = phase
        /\ phase \in {"drop", "retire"}
    BY <1>8 DEF DropOrPass, RetireLast, queues
  <2>2. Len(running)' <= n
    <3>1. CASE (DropOrPass /\ running[at].req \in gone) \/ RetireLast
      <4>1. PICK i, m : Departs(i, m)
        BY <1>1, <3>1, DepartSteps
      <4>2. Len(running') = n - 1
        BY <4>1 DEF Departs, Leaves
      <4> QED
        BY <1>2, <4>2
    <3>2. CASE DropOrPass /\ ~(running[at].req \in gone)
      BY <1>2, <3>2 DEF DropOrPass
    <3> QED
      BY <1>8, <3>1, <3>2
  <2> QED
    BY <1>2, <2>1, <2>2 DEF InFlight
<1>9. CASE \/ AdvancePrompt \/ AdvanceEog
           \/ \E token \in Tokens : AdvanceHungUp(token) \/ AdvanceStop(token) \/ AdvanceToken(token)
  <2>1. Advancing
    BY <1>9, AdvancingSteps
  <2>2. /\ sent' = sent /\ jobs' = jobs /\ waiting' = waiting /\ cand' = cand
        /\ phase = "advance" /\ phase' = "advance"
    BY <2>1 DEF Advancing, ClientsIdle
  <2>3. Len(running') = n
    <3>1. /\ running \in Seq(Runnings) /\ DOMAIN running' = DOMAIN running
          /\ running' \in Seq(Runnings)
      BY <1>1, <2>1 DEF Advancing, Fed, SchedTypeOK, Runnings
    <3> QED
      BY <3>1, LenProperties
  <2> QED
    BY <1>2, <2>2, <2>3 DEF InFlight
<1>10. CASE MakePlan
  <2>1. /\ sent' = sent /\ jobs' = jobs /\ waiting' = waiting /\ running' = running
        /\ phase = "drop" /\ phase' \in {"recv", "fail", "forward"}
        /\ phase' \in {"forward", "fail"} => running # << >>
    BY <1>10 DEF MakePlan, queues
  <2> QED
    BY <1>2, <2>1 DEF InFlight
<1>11. CASE ForwardItem \/ ForwardFails
  <2>1. /\ sent' = sent /\ jobs' = jobs /\ waiting' = waiting /\ running' = running
        /\ phase = "forward" /\ phase' \in {"fail", "forward"}
    BY <1>11 DEF ForwardItem, ForwardFails, queues
  <2> QED
    BY <1>2, <2>1 DEF InFlight
<1>12. CASE AdmitNoMore \/ EvictTurn \/ EvictDone \/ ForwardDone \/ AdvanceDone \/ StepDone
  <2>1. /\ sent' = sent /\ jobs' = jobs /\ waiting' = waiting /\ running' = running /\ cand' = cand
        /\ phase' \notin {"forward", "fail"}
    BY <1>12 DEF AdmitNoMore, EvictTurn, EvictDone, ForwardDone, AdvanceDone, StepDone, queues, locals
  <2>2. InFlight' = InFlight /\ Hand' = Hand
    BY <2>1 DEF InFlight, Hand
  <2> QED
    BY <1>2, <2>1, <2>2 DEF InFlight
<1>13. CASE Reject
  <2>1. /\ phase = "decide" /\ phase' = "admit" /\ waiting' = waiting /\ running' = running
        /\ sent' = sent /\ jobs' = jobs
    BY <1>13 DEF Reject, ClientsIdle
  <2> QED
    BY <1>2, <2>1 DEF InFlight
<1>14. ~Receive /\ ~FailRunning /\ ~FailWaiting
  BY DEF Receive, FailRunning, FailWaiting
<1> QED
  BY <1>3, <1>4, <1>5, <1>6, <1>7, <1>8, <1>9, <1>10, <1>11, <1>12, <1>13, <1>14 DEF Worker

LEMMA GaugeInit == TPInit => GaugeInv
<1> SUFFICES ASSUME TPInit PROVE GaugeInv
  OBVIOUS
<1>1. /\ sent = 0 /\ jobs = << >> /\ waiting = << >> /\ running = << >> /\ phase = "recv"
      /\ in_flight = 0 /\ served = 0 /\ before = 0 /\ counting = 0
  BY DEF TPInit, EngineInit, SchedInit
<1>2. OnTheWay = 0 /\ InFlight = 0
  BY <1>1 DEF InFlight, OnTheWay
<1>3. sent = 0 /\ in_flight = 0 /\ served = 0 /\ before = 0 /\ counting = 0
  BY <1>1
<1>4. Drawn = 0
  BY ONLY <1>2, <1>3 DEF Drawn
<1>5. /\ counting \in Nat /\ in_flight \in Nat /\ in_flight <= sent + counting
      /\ served \in Nat /\ before \in Nat /\ InFlight <= in_flight
      /\ in_flight <= InFlight + OnTheWay + counting /\ served + InFlight = 0
  BY ONLY <1>2, <1>3
<1>6. phase = "recv"
  BY <1>1
<1> QED
  BY ONLY <1>4, <1>5, <1>6 DEF GaugeInv

(* run_inner's count after a step in which nothing was added. *)
LEMMA CountedOnce ==
  ASSUME SchedTypeOK, SchedTypeOK', GaugeInv, StepCounted,
         phase \notin {"recv", "fail"}, NoneFailed' => NoneFailed,
         sent' = sent, jobs' = jobs, InFlight' + Hand' <= InFlight + Hand,
         phase' \in {"forward", "fail"} => running' # << >>
  PROVE  GaugeInv'
<1>1. InFlight \in Nat /\ Hand \in {0, 1} /\ sent \in Nat /\ OnTheWay \in Nat
  BY Numbers
<1>2. InFlight' \in Nat /\ Hand' \in {0, 1} /\ (phase' \in {"evict", "decide"} <=> Hand' = 1)
  BY NumbersThen
<1>3. /\ counting \in Nat /\ in_flight \in Nat /\ in_flight <= sent + counting
      /\ served \in Nat /\ before \in Nat
      /\ served + before <= Drawn /\ InFlight + Hand <= before
      /\ NoneFailed => served + before = Drawn
  BY DEF GaugeInv
<1>4. Drawn' = Drawn /\ Drawn \in Int /\ Drawn <= sent /\ sent' = sent /\ OnTheWay' = OnTheWay
  <2>1. sent' = sent /\ OnTheWay' = OnTheWay
    BY DEF OnTheWay
  <2> QED
    BY <2>1, Numbers DEF Drawn
<1>5. PICK k \in Nat : k = InFlight'
  BY <1>2
<1>6. PICK h \in {0, 1} : h = Hand'
  BY <1>2
<1>7. k <= before /\ k + h <= before /\ before <= Drawn
  <2>1. k + h <= InFlight + Hand
    <3>1. InFlight' + Hand' <= InFlight + Hand
      OBVIOUS
    <3> QED
      BY ONLY <1>5, <1>6, <3>1
  <2> QED
    BY ONLY <1>1, <1>3, <1>4, <2>1
<1>8. NoneFailed' => NoneFailed
  OBVIOUS
<1>9. CASE phase' = "recv"
  <2>1. in_flight' = InFlight' /\ served' = Served(before, InFlight') /\ before' = 0 /\ counting' = counting
    BY <1>9 DEF StepCounted
  <2>2. in_flight' = k /\ served' = Served(before, k) /\ before' = 0 /\ counting' = counting
    BY ONLY <1>5, <2>1
  <2>3. /\ served' + k = served + before /\ served' \in Nat /\ before' \in Nat
        /\ in_flight' \in Nat /\ in_flight' <= sent + counting'
        /\ counting' \in Nat /\ k <= in_flight' /\ in_flight' <= k + OnTheWay + counting'
        /\ served' + k <= Drawn /\ (NoneFailed => served' + k = Drawn)
    BY ONLY <1>1, <1>3, <1>4, <1>7, <2>2 DEF Served
  <2>4. /\ served' \in Nat /\ before' \in Nat
        /\ in_flight' \in Nat /\ in_flight' <= sent' + counting'
        /\ counting' \in Nat /\ InFlight' <= in_flight' /\ in_flight' <= InFlight' + OnTheWay' + counting'
        /\ served' + InFlight' <= Drawn' /\ (NoneFailed' => served' + InFlight' = Drawn')
    BY ONLY <1>4, <1>5, <1>8, <2>3, Zenon
  <2> QED
    BY ONLY <1>9, <2>4 DEF GaugeInv
<1>10. CASE phase' = "fail"
  <2>1. before' = InFlight' /\ in_flight' = in_flight /\ served' = served /\ counting' = counting
    BY <1>10 DEF StepCounted
  <2>2. before' = k /\ in_flight' = in_flight /\ served' = served /\ counting' = counting
    BY ONLY <1>5, <2>1
  <2>3. /\ served' + before' <= Drawn /\ before' \in Nat
        /\ in_flight' \in Nat /\ counting' \in Nat /\ in_flight' <= sent + counting' /\ served' \in Nat
    BY ONLY <1>3, <1>4, <1>7, <2>2
  <2>4. /\ served' + before' <= Drawn' /\ before' \in Nat
        /\ in_flight' \in Nat /\ counting' \in Nat /\ in_flight' <= sent' + counting' /\ served' \in Nat
    BY ONLY <1>4, <2>3, Zenon
  <2>5. running' # << >>
    BY <1>10
  <2> QED
    BY ONLY <1>10, <2>4, <2>5 DEF GaugeInv
<1>11. CASE phase' \notin {"recv", "fail"}
  <2>1. before' = before /\ in_flight' = in_flight /\ served' = served /\ counting' = counting
    BY <1>11 DEF StepCounted, gauges
  <2>2. /\ in_flight' \in Nat /\ counting' \in Nat /\ in_flight' <= sent + counting' /\ served' \in Nat /\ before' \in Nat
        /\ served' + before' <= Drawn /\ k + h <= before'
        /\ NoneFailed => served' + before' = Drawn
    BY ONLY <1>3, <1>4, <1>7, <2>1
  <2>3. /\ in_flight' \in Nat /\ counting' \in Nat /\ in_flight' <= sent' + counting' /\ served' \in Nat /\ before' \in Nat
        /\ served' + before' <= Drawn' /\ InFlight' + Hand' <= before'
        /\ NoneFailed' => served' + before' = Drawn'
    BY ONLY <1>4, <1>5, <1>6, <1>8, <2>2, Zenon
  <2>4. phase' = "forward" => running' # << >>
    OBVIOUS
  <2> QED
    BY ONLY <1>11, <2>3, <2>4 DEF GaugeInv
<1> QED
  BY <1>9, <1>10, <1>11

(* The worker's steps, but for the first and those that fail the rows: each *)
(* is one of the scheduler's, or refuses a picture, and is counted so.      *)
TPCounted == (Worker \/ RefusePicture) /\ StepCounted /\ phase \notin {"recv", "fail"}
LEMMA CountedSteps ==
  ASSUME TPWorker
  PROVE  \/ EngineReceive
         \/ EngineFails
         \/ UNCHANGED evars
         \/ TPCounted
<1>1. CASE TPReceive
  BY <1>1 DEF TPReceive
<1>2. ASSUME NEW seq \in SeqIds, TPStart(seq) PROVE TPCounted
  BY <1>2 DEF TPStart, TPCounted, Worker, Start, Granted
<1>3. CASE TPDrop \/ TPPlan
  BY <1>3 DEF TPDrop, TPPlan, TPCounted, Worker, DropOrPass, MakePlan
<1>4. CASE RefusePicture
  BY <1>4 DEF TPCounted, RefusePicture, StepCounted
<1>5. CASE OutOfStep
  BY <1>5 DEF OutOfStep
<1>6. CASE TPForwardItem \/ TPForwardFails \/ TPForwardDone \/ TPAdvanceDone
  BY <1>6 DEF TPForwardItem, TPForwardFails, TPForwardDone, TPAdvanceDone, TPCounted, Worker,
              ForwardItem, ForwardFails, ForwardDone, AdvanceDone
<1>7. CASE \E token \in Tokens :
             (AdvanceHungUp(token) \/ AdvanceStop(token) \/ AdvanceToken(token)) /\ StepCounted /\ Alone
  BY <1>7 DEF TPCounted, Worker, AdvanceHungUp, AdvanceStop, AdvanceToken, Advancing
<1>8. CASE EngineFails /\ Alone
  BY <1>8
<1>9. CASE \/ (AdmitNoMore \/ TakeNext \/ EncodeFails) /\ StepCounted /\ Alone
           \/ (EvictTurn \/ EvictDone \/ Reject \/ Requeue) /\ StepCounted /\ Alone
           \/ (AdvancePrompt \/ AdvanceEog) /\ StepCounted /\ Alone
           \/ (RetireLast \/ StepDone) /\ StepCounted /\ Alone
  BY <1>9 DEF TPCounted, Worker, AdmitNoMore, TakeNext, EncodeFails, EvictTurn, EvictDone, Reject,
              Requeue, AdvancePrompt, AdvanceEog, Advancing, RetireLast, StepDone
<1> QED
  BY <1>1, <1>2, <1>3, <1>4, <1>5, <1>6, <1>7, <1>8, <1>9 DEF TPWorker

LEMMA GaugeStep ==
  ASSUME IInv, PromptsInv, SchedInv, GaugeInv, [TPNext]_tpvars
  PROVE  GaugeInv'
<1>1. SchedTypeOK /\ SchedTypeOK' /\ PlanInv /\ LineInv
  BY TPStepInv DEF SchedInv
<1>2. /\ sent \in Nat /\ OnTheWay \in Nat /\ InFlight \in Nat /\ Hand \in {0, 1}
      /\ Drawn \in Int /\ Drawn <= sent
  BY <1>1, Numbers
<1>3. NoneFailed' => NoneFailed
  BY TPSteps, FailureStays
<1>4. CASE UNCHANGED evars
  BY <1>4 DEF evars, svars, queues, locals, gauges, GaugeInv, NoneFailed,
              Drawn, OnTheWay, InFlight, Hand
<1>5. CASE EngineCount
  <2>1. /\ UNCHANGED << sent, jobs, waiting, running, phase, cand, answer >>
        /\ in_flight' = in_flight + 1 /\ served' = served /\ before' = before
        /\ counting' = counting + 1
    BY <1>5 DEF EngineCount, svars, queues, locals
  <2>2. OnTheWay' = OnTheWay /\ Drawn' = Drawn /\ InFlight' = InFlight /\ Hand' = Hand
    BY <2>1 DEF OnTheWay, Drawn, InFlight, Hand
  <2>3. /\ counting \in Nat /\ in_flight \in Nat /\ in_flight <= sent + counting
        /\ phase = "recv" => InFlight <= in_flight /\ in_flight <= InFlight + OnTheWay + counting
    BY DEF GaugeInv
  <2>4. sent' = sent /\ phase' = phase /\ in_flight' = in_flight + 1 /\ counting' = counting + 1
    BY <2>1
  <2>5. /\ counting' \in Nat /\ in_flight' \in Nat /\ in_flight' <= sent' + counting'
        /\ phase' = "recv" => InFlight' <= in_flight' /\ in_flight' <= InFlight' + OnTheWay' + counting'
    BY ONLY <1>2, <2>2, <2>3, <2>4
  <2>6. NoneFailed' = NoneFailed
    BY <2>1 DEF NoneFailed
  <2> QED
    BY <2>1, <2>2, <2>5, <2>6 DEF GaugeInv
<1>11. CASE EngineSend
  <2>1. /\ sent' = sent + 1 /\ jobs' = Append(jobs, sent + 1)
        /\ waiting' = waiting /\ running' = running /\ phase' = phase /\ cand' = cand
        /\ answer' = answer /\ counting > 0 /\ counting' = counting - 1
        /\ in_flight' = in_flight /\ served' = served /\ before' = before
    BY <1>11 DEF EngineSend, Submit, locals
  <2>2. OnTheWay' = OnTheWay + 1
    BY <1>1, <2>1 DEF SchedTypeOK, OnTheWay
  <2>3. /\ sent' = sent + 1 /\ phase' = phase /\ counting > 0 /\ counting' = counting - 1
        /\ in_flight' = in_flight /\ served' = served /\ before' = before
    BY <2>1
  <2>4. Drawn' = Drawn
    BY ONLY <1>2, <2>2, <2>3 DEF Drawn
  <2>5. InFlight' = InFlight /\ Hand' = Hand
    BY <2>1 DEF InFlight, Hand
  <2>6. /\ counting \in Nat /\ in_flight \in Nat /\ in_flight <= sent + counting
        /\ phase = "recv" => InFlight <= in_flight /\ in_flight <= InFlight + OnTheWay + counting
    BY DEF GaugeInv
  <2>7. /\ counting' \in Nat /\ in_flight' \in Nat /\ in_flight' <= sent' + counting'
        /\ phase' = "recv" => InFlight' <= in_flight' /\ in_flight' <= InFlight' + OnTheWay' + counting'
    BY ONLY <1>2, <2>2, <2>3, <2>5, <2>6
  <2>8. NoneFailed' = NoneFailed
    BY <2>1 DEF NoneFailed
  <2> QED
    BY <2>1, <2>4, <2>5, <2>7, <2>8 DEF GaugeInv
<1>6. ASSUME NEW r \in Requests, Disconnect(r), UNCHANGED gauges PROVE GaugeInv'
  <2>1. UNCHANGED << sent, jobs, waiting, running, phase, cand, answer, in_flight, served, before,
                   counting >>
    BY <1>6 DEF Disconnect, locals, gauges
  <2> QED
    BY <2>1 DEF GaugeInv, NoneFailed, Drawn, OnTheWay, InFlight, Hand
<1>7. CASE EngineReceive
  <2>1. /\ phase = "recv" /\ phase' = "admit" /\ jobs' = << >> /\ running' = running
        /\ sent' = sent /\ cand' = cand /\ in_flight' = in_flight /\ served' = served
        /\ before' = InFlight' /\ counting' = counting
        /\ waiting' = waiting \o [ i \in 1 .. Len(jobs) |->
                         [ req |-> jobs[i], pending |-> HadVision(ask[jobs[i]].prompt) ] ]
    BY <1>7 DEF EngineReceive, Receive
  <2>2. OnTheWay' = 0
    BY <2>1 DEF OnTheWay
  <2>3. InFlight' = InFlight + OnTheWay
    <3> DEFINE new == [ i \in 1 .. Len(jobs) |->
                          [ req |-> jobs[i], pending |-> HadVision(ask[jobs[i]].prompt) ] ]
    <3>1. /\ jobs \in Seq(Requests) /\ running \in Seq(Runnings)
          /\ waiting \in Seq([req : Requests, pending : BOOLEAN])
      BY <1>1 DEF SchedTypeOK
    <3>2. Len(jobs) \in Nat /\ Len(waiting) \in Nat /\ Len(running) \in Nat
      BY <3>1, LenProperties
    <3>3. \A i \in 1 .. Len(jobs) : jobs[i] \in Requests /\ HadVision(ask[jobs[i]].prompt) \in BOOLEAN
      BY <3>1, ElementOfSeq DEF HadVision
    <3>4. \A i \in 1 .. Len(jobs) : new[i] \in [req : Requests, pending : BOOLEAN]
      BY <3>3
    <3>5. new \in Seq([req : Requests, pending : BOOLEAN]) /\ Len(new) = Len(jobs)
      <4> DEFINE n == Len(jobs)
                 E == [req : Requests, pending : BOOLEAN]
      <4>1. n \in Nat /\ new \in [1 .. n -> E] /\ DOMAIN new = 1 .. n
        BY <3>2, <3>4
      <4> HIDE DEF new, E
      <4>2. new \in Seq(E) /\ Len(new) = n
        <5> HIDE DEF n
        <5> QED
          BY ONLY <4>1, IsASeq
      <4> QED
        BY <4>2 DEF E
    <3> HIDE DEF new
    <3>6. Len(waiting \o new) = Len(waiting) + Len(new)
      BY ONLY <3>1, <3>5, ConcatProperties
    <3>7. Len(waiting') = Len(waiting) + Len(jobs) /\ running' = running
      BY <2>1, <3>5, <3>6 DEF new
    <3> QED
      BY <3>2, <3>7 DEF InFlight, OnTheWay
  <2>4. Hand' = 0
    BY <1>1, <2>1 DEF Hand, SchedTypeOK
  <2>5. /\ counting \in Nat /\ in_flight \in Nat /\ in_flight <= sent + counting
        /\ served \in Nat /\ served + InFlight <= Drawn
        /\ NoneFailed => served + InFlight = Drawn
    BY <2>1 DEF GaugeInv
  <2>6. /\ phase' = "admit" /\ sent' = sent
        /\ in_flight' = in_flight /\ served' = served /\ before' = InFlight' /\ counting' = counting
    BY <2>1
  <2>7. Drawn' = sent /\ Drawn = sent - OnTheWay
    BY ONLY <1>2, <2>2, <2>6 DEF Drawn
  <2>8. /\ counting' \in Nat /\ in_flight' \in Nat /\ in_flight' <= sent' + counting' /\ served' \in Nat /\ before' \in Nat
        /\ served' + before' <= Drawn' /\ InFlight' + Hand' <= before'
        /\ NoneFailed' => served' + before' = Drawn'
    BY ONLY <1>2, <1>3, <2>3, <2>4, <2>5, <2>6, <2>7
  <2> QED
    BY ONLY <2>6, <2>8 DEF GaugeInv
<1>8. CASE EngineFails
  <2>1. /\ phase = "fail" /\ sent' = sent /\ jobs' = jobs /\ AllFailed
    BY <1>8 DEF EngineFails, FailRunning, FailWaiting, ClientsIdle
  <2>2. /\ counting \in Nat /\ in_flight \in Nat /\ in_flight <= sent + counting
        /\ served \in Nat /\ before \in Nat /\ served + before <= Drawn
        /\ NoneFailed => running # << >>
    BY <2>1 DEF GaugeInv
  <2>3. Drawn' = Drawn /\ OnTheWay' = OnTheWay /\ sent' = sent
    BY <2>1 DEF Drawn, OnTheWay
  <2>4. CASE FailRunning
    <3>1. phase' = "fail" /\ UNCHANGED gauges
      BY <2>1, <2>4 DEF FailRunning, AllFailed
    <3>2. ~NoneFailed'
      <4>1. /\ running # << >> /\ running \in Seq(Runnings)
            /\ Answer(Head(running).req, "failed")
        BY <1>1, <2>4 DEF FailRunning, SchedTypeOK
      <4>2. Head(running) \in Runnings
        BY <4>1, HeadTailProperties
      <4>3. Head(running).req \in Requests
        BY <4>2 DEF Runnings
      <4>4. answer'[Head(running).req] = "failed"
        BY <1>1, <4>1, <4>3 DEF Answer, SchedTypeOK
      <4> QED
        BY <4>3, <4>4 DEF NoneFailed
    <3>3. in_flight' = in_flight /\ served' = served /\ before' = before /\ counting' = counting
      BY <3>1 DEF gauges
    <3>4. /\ counting' \in Nat /\ in_flight' \in Nat /\ in_flight' <= sent' + counting'
          /\ served' \in Nat /\ before' \in Nat
          /\ served' + before' <= Drawn'
      BY ONLY <2>2, <2>3, <3>3
    <3> QED
      BY ONLY <3>1, <3>2, <3>4 DEF GaugeInv
  <2>5. CASE FailWaiting
    <3>1. /\ phase' = "recv" /\ running = << >> /\ running' = << >> /\ waiting' = << >>
          /\ in_flight' = 0 /\ served' = served + before /\ before' = 0 /\ counting' = counting
      BY <2>1, <2>5 DEF FailWaiting, AllFailed
    <3>2. InFlight' = 0 /\ ~NoneFailed'
      BY <1>3, <2>2, <3>1 DEF InFlight
    <3>3. /\ in_flight' = 0 /\ served' = served + before /\ before' = 0 /\ counting' = counting
          /\ phase' = "recv"
      BY <3>1
    <3>4. /\ counting' \in Nat /\ in_flight' \in Nat /\ in_flight' <= sent' + counting'
          /\ InFlight' <= in_flight' /\ in_flight' <= InFlight' + OnTheWay' + counting'
          /\ served' \in Nat /\ served' + InFlight' <= Drawn' /\ before' \in Nat
      BY ONLY <1>2, <2>2, <2>3, <3>2, <3>3
    <3> QED
      BY ONLY <3>2, <3>3, <3>4 DEF GaugeInv
  <2> QED
    BY <1>8, <2>4, <2>5 DEF EngineFails
<1>9. CASE TPCounted
  <2>1. /\ (Worker \/ RefusePicture) /\ StepCounted /\ phase \notin {"recv", "fail"}
        /\ phase = "forward" => running # << >>
    BY <1>9 DEF TPCounted, GaugeInv
  <2>2. /\ sent' = sent /\ jobs' = jobs /\ InFlight' + Hand' <= InFlight + Hand
        /\ phase' \in {"forward", "fail"} => running' # << >>
    BY <1>1, <1>9, <2>1, HeldGoesDown DEF TPCounted
  <2> QED
    BY <1>1, <1>3, <1>9, <2>2, CountedOnce DEF TPCounted
<1>10. CASE UNCHANGED tpvars
  BY <1>4, <1>10 DEF tpvars
<1> QED
  BY <1>4, <1>5, <1>6, <1>7, <1>8, <1>9, <1>10, <1>11, CountedSteps DEF TPNext, EngineClients

-----------------------------------------------------------------------------
(* What the worker's types are does not depend on the gauges or on the      *)
(* followers: also with a row that is refused after its admission, a        *)
(* request in admit's hand is one being decided on, a plan is a plan and    *)
(* the finished rows are rows.                                              *)
THEOREM TPTypes == TPSpec => []SchedTypeOK
<1>1. SchedInv => SchedTypeOK
  BY DEF SchedInv
<1> QED
  BY TPScheduled, <1>1, PTL

(* Handlers count in_flight up and then send, the worker stores what the     *)
(* scheduler holds, without a lock and in any order; and yet between steps   *)
(* in_flight counts everything that is queued or running, and beyond it only *)
(* requests that are in the channel or about to be. `served`, which is summed *)
(* from differences of what the scheduler held before and after each step,  *)
(* counts no request still on its way, and every other unless one failed.   *)
THEOREM GaugesHeal == TPSpec => []GaugesSettle
<1>1. ASSUME PromptsInv, SchedInv, GaugeInv PROVE GaugesSettle
  <2>1. /\ sent \in Nat /\ OnTheWay \in Nat /\ InFlight \in Nat /\ Hand \in {0, 1}
        /\ Drawn \in Int /\ (phase \in {"evict", "decide"} <=> Hand = 1)
    BY <1>1, Numbers DEF SchedInv
  <2>2. in_flight \in 0 .. sent + counting /\ in_flight \in Nat /\ served \in Nat /\ counting \in Nat
    BY <1>1, <2>1 DEF GaugeInv
  <2>3. CASE phase = "recv"
    <3>1. Cardinality(Finished) = Drawn - InFlight
      <4>1. /\ Cardinality(Finished) \in Nat
            /\ Cardinality(Finished) + OnTheWay + InFlight + Hand = sent
        BY <1>1, RequestsAccounted
      <4>2. Hand = 0
        BY <2>1, <2>3
      <4> QED
        BY ONLY <2>1, <4>1, <4>2 DEF Drawn
    <3>2. /\ InFlight <= in_flight /\ in_flight <= InFlight + OnTheWay + counting
          /\ served + InFlight <= Drawn
          /\ NoneFailed => served + InFlight = Drawn
      BY <1>1, <2>3 DEF GaugeInv
    <3>3. /\ served <= Cardinality(Finished)
          /\ NoneFailed => served = Cardinality(Finished)
      BY ONLY <2>1, <2>2, <3>1, <3>2
    <3>4. in_flight \in InFlight .. InFlight + OnTheWay + counting
      BY ONLY <2>1, <2>2, <3>2
    <3> QED
      BY <2>2, <3>3, <3>4 DEF GaugesSettle, NoneFailed, OnTheWay
  <2> QED
    BY <2>2, <2>3 DEF GaugesSettle
<1>2. IInv /\ PromptsInv /\ SchedInv /\ GaugeInv /\ [TPNext]_tpvars => GaugeInv'
  BY GaugeStep
<1> QED
  BY TPScheduled, GaugeInit, <1>1, <1>2, PTL DEF TPSpec

-----------------------------------------------------------------------------
(* Lockstep. What a follower's state may be; its pool has no borrowers. *)
Followers ==
  { f \in [ pool : Pools, prompts : [SeqIds -> Seq(Contents)], at : {"plan", "retired", "dead"} ] :
      WholePool(f.pool) }

(* A step gathers rows until it has a plan. Those that are new to it hold    *)
(* nothing yet, and each has the first number that was not taken when it came. *)
Gathering == phase \in {"admit", "evict", "decide", "drop"}
FirstFree(i) ==
  \A other \in SeqIds :
    \/ other \in known
    \/ \E j \in 1 .. i - 1 : IsNew(running[j]) /\ running[j].seq = other
    \/ running[i].seq <= other
Gathered ==
  /\ known \subseteq pool.live
  /\ \A i \in 1 .. Len(running) : IsNew(running[i]) =>
       FirstFree(i) /\ SeqLen(pool, running[i].seq) = 0

(* The rows the follower has by now. *)
Followed ==
  IF Gathering THEN known
  ELSE IF phase = "retire" THEN pool.live \ { running[i].seq : i \in finished }
  ELSE pool.live

(* A row of the follower's: it has run all of the plan, rank 0 does so one   *)
(* item after another.                                                       *)
ToCome == { j \in 1 .. Len(plan) : phase = "forward" /\ j >= at }
Follows(i) ==
  LET seq == running[i].seq
  IN  /\ follower.prompts[seq] = running[i].prompt
      /\ (\A j \in ToCome : plan[j].idx # i) => SeqLen(follower.pool, seq) = SeqLen(pool, seq)
      /\ \A j \in ToCome : plan[j].idx = i =>
           SeqLen(follower.pool, seq) = SeqLen(pool, seq) + plan[j].len

Unborrowed == \A id \in SeqIds : pool.borrowed[id] = 0
Clean == tp /\ slips = {}
Locked ==
  /\ follower \in Followers
  /\ phase # "fail"
  /\ follower.at = IF phase \in {"forward", "advance"} THEN "retired" ELSE "plan"
  /\ follower.pool.live = Followed
  /\ Unborrowed
  /\ Gathering => Gathered
  /\ \A i \in 1 .. Len(running) : running[i].seq \in Followed => Follows(i)
LockInv == Clean => Locked

(* One turn of each of the follower's loops. *)
LEMMA FollowerFields ==
  ASSUME NEW f \in Followers
  PROVE  /\ f.pool \in Pools /\ WholePool(f.pool)
         /\ f.prompts \in [SeqIds -> Seq(Contents)] /\ f.at \in {"plan", "retired", "dead"}
         /\ f = [ pool |-> f.pool, prompts |-> f.prompts, at |-> f.at ]
BY DEF Followers

LEMMA FollowerStops ==
  ASSUME NEW f \in Followers, NEW a \in {"plan", "retired", "dead"}
  PROVE  /\ [ f EXCEPT !.at = a ] \in Followers
         /\ [ f EXCEPT !.at = a ].pool = f.pool /\ [ f EXCEPT !.at = a ].prompts = f.prompts
         /\ [ f EXCEPT !.at = a ].at = a
<1> DEFINE g == [ pool |-> f.pool, prompts |-> f.prompts, at |-> a ]
<1>1. [ f EXCEPT !.at = a ] = g
  BY FollowerFields
<1>2. g \in Followers
  BY FollowerFields DEF Followers
<1> QED
  BY <1>1, <1>2

LEMMA FollowerGoes ==
  ASSUME NEW f \in Followers, NEW p \in Pools, WholePool(p), NEW t \in [SeqIds -> Seq(Contents)],
         NEW g, g = [ pool |-> p, prompts |-> t, at |-> f.at ]
  PROVE  g \in Followers /\ g.pool = p /\ g.prompts = t /\ g.at = f.at
<1>1. f.at \in {"plan", "retired", "dead"}
  BY FollowerFields
<1> QED
  BY <1>1 DEF Followers

LEMMA AdmittedFacts ==
  ASSUME NEW f \in Followers, NEW new \in Runnings
  PROVE  /\ Admitted(f, new) \in Followers
         /\ f.at # "dead" /\ CanAlloc(f.pool, new.seq) =>
              LET g == Admitted(f, new)
              IN  /\ g.at = f.at /\ g.pool.live = f.pool.live \cup {new.seq}
                  /\ g.pool.slots = f.pool.slots
                  /\ g.prompts = [f.prompts EXCEPT ![new.seq] = new.prompt]
<1>1. new.seq \in SeqIds /\ new.prompt \in Seq(Contents)
  BY TextIsTokens DEF Runnings
<1>2. CASE f.at = "dead" \/ ~CanAlloc(f.pool, new.seq)
  <2>1. Admitted(f, new) = [ f EXCEPT !.at = "dead" ]
    BY <1>2 DEF Admitted
  <2> QED
    BY <1>2, <2>1, FollowerStops
<1>3. CASE ~(f.at = "dead" \/ ~CanAlloc(f.pool, new.seq))
  <2> DEFINE p == Alloc(f.pool, new.seq)
             t == [f.prompts EXCEPT ![new.seq] = new.prompt]
  <2>1. /\ p \in Pools /\ WholePool(p) /\ p.live = f.pool.live \cup {new.seq}
        /\ p.slots = f.pool.slots
    BY <1>1, FollowerFields, AllocFacts, WholeAlloc
  <2>2. t \in [SeqIds -> Seq(Contents)]
    BY <1>1, FollowerFields
  <2>3. Admitted(f, new) = [ pool |-> p, prompts |-> t, at |-> f.at ]
    <3>1. Admitted(f, new) = [ f EXCEPT !.pool = p, !.prompts = t ]
      BY <1>3, FollowerFields DEF Admitted
    <3> HIDE DEF p, t
    <3> QED
      BY <3>1, FollowerFields
  <2> HIDE DEF p, t
  <2>4. LET g == Admitted(f, new)
        IN  g \in Followers /\ g.pool = p /\ g.prompts = t /\ g.at = f.at
    BY <2>1, <2>2, <2>3, FollowerGoes
  <2> QED
    BY <2>1, <2>4 DEF t
<1> QED
  BY <1>2, <1>3

LEMMA RanFacts ==
  ASSUME NEW f \in Followers, NEW item \in Items, running[item.idx].seq \in SeqIds
  PROVE  /\ Ran(f, item) \in Followers
         /\ LET seq == running[item.idx].seq
                g == Ran(f, item)
            IN  /\ f.at # "dead" /\ CanExtend(f.pool, seq, item.len)
                /\ (item.kind = "prefill" => f.prompts[seq] # << >>)
                => /\ g.at = f.at /\ g.prompts = f.prompts /\ g.pool.live = f.pool.live
                   /\ FreeSlots(g.pool) = FreeSlots(f.pool) - item.len
                   /\ SeqLen(g.pool, seq) = SeqLen(f.pool, seq) + item.len
                   /\ \A other \in SeqIds \ {seq} : SeqLen(g.pool, other) = SeqLen(f.pool, other)
<1> DEFINE seq == running[item.idx].seq
           Stops == \/ f.at = "dead"
                    \/ item.kind = "prefill" /\ f.prompts[seq] = << >>
                    \/ ~CanExtend(f.pool, seq, item.len)
<1>1. seq \in SeqIds /\ item.len \in Nat
  BY DEF Items
<1>2. CASE Stops
  <2>1. Ran(f, item) = [ f EXCEPT !.at = "dead" ]
    BY <1>2 DEF Ran
  <2> QED
    BY <1>2, <2>1, FollowerStops
<1>3. CASE ~Stops
  <2> DEFINE p == Extend(f.pool, seq, item.len)
  <2>1. Ran(f, item) = [ f EXCEPT !.pool = p ]
    BY <1>3 DEF Ran
  <2>2. f.pool \in Pools /\ WholePool(f.pool) /\ CanExtend(f.pool, seq, item.len)
    BY <1>3, FollowerFields
  <2> HIDE DEF seq
  <2>3. /\ p \in Pools /\ p.live = f.pool.live
        /\ FreeSlots(p) = FreeSlots(f.pool) - item.len
        /\ SeqLen(p, seq) = SeqLen(f.pool, seq) + item.len
        /\ \A other \in SeqIds \ {seq} : p.slots[other] = f.pool.slots[other]
    BY <1>1, <2>2, ExtendFacts
  <2>4. WholePool(p)
    BY <1>1, <2>2, WholeExtend
  <2> HIDE DEF p
  <2>5. f.prompts \in [SeqIds -> Seq(Contents)] /\ Ran(f, item) = [ pool |-> p, prompts |-> f.prompts, at |-> f.at ]
    BY <2>1, FollowerFields
  <2>6. LET g == Ran(f, item)
        IN  g \in Followers /\ g.pool = p /\ g.prompts = f.prompts /\ g.at = f.at
    BY <2>3, <2>4, <2>5, FollowerGoes
  <2> QED
    BY <2>3, <2>6 DEF SeqLen, seq
<1> QED
  BY <1>2, <1>3

LEMMA FreedFacts ==
  ASSUME NEW f \in Followers, NEW seq \in SeqIds
  PROVE  /\ Freed(f, seq) \in Followers
         /\ Freed(f, seq).at = f.at /\ Freed(f, seq).pool.live = f.pool.live \ {seq}
         /\ \A other \in SeqIds \ {seq} :
              /\ Freed(f, seq).prompts[other] = f.prompts[other]
              /\ SeqLen(Freed(f, seq).pool, other) = SeqLen(f.pool, other)
<1> DEFINE p == Free(f.pool, seq)
           t == [f.prompts EXCEPT ![seq] = << >>]
<1>1. f.pool \in Pools /\ WholePool(f.pool) /\ f.prompts \in [SeqIds -> Seq(Contents)]
  BY FollowerFields
<1>2. /\ p \in Pools /\ WholePool(p) /\ p.live = f.pool.live \ {seq}
      /\ \A other \in SeqIds \ {seq} : p.slots[other] = f.pool.slots[other]
  <2>1. CASE seq \in f.pool.live
    BY <1>1, <2>1, WholeFree DEF WholePool
  <2>2. CASE seq \notin f.pool.live
    BY <1>1, <2>2 DEF Free
  <2> QED
    BY <2>1, <2>2
<1>3. t \in [SeqIds -> Seq(Contents)] /\ \A other \in SeqIds \ {seq} : t[other] = f.prompts[other]
  BY <1>1
<1>4. Freed(f, seq) = [ pool |-> p, prompts |-> t, at |-> f.at ]
  <2>1. Freed(f, seq) = [ f EXCEPT !.pool = p, !.prompts = t ]
    BY FollowerFields DEF Freed
  <2> HIDE DEF p, t
  <2> QED
    BY <2>1, FollowerFields
<1> HIDE DEF p, t
<1>5. LET g == Freed(f, seq)
      IN  g \in Followers /\ g.pool = p /\ g.prompts = t /\ g.at = f.at
  BY <1>2, <1>3, <1>4, FollowerGoes
<1> QED
  BY <1>2, <1>3, <1>5 DEF SeqLen


(* The loops themselves, unrolled. *)
LEMMA FollowersLoop ==
  ASSUME NEW n \in Nat, NEW f \in Followers, NEW turn \in [1 .. n -> [Followers -> Followers]]
  PROVE  \E h \in [0 .. n -> Followers] : h[0] = f /\ \A i \in 1 .. n : h[i] = turn[i][h[i - 1]]
BY LoopExists

LEMMA NewsLoop ==
  ASSUME running \in Seq(Runnings), NEW f \in Followers
  PROVE  \E g : /\ AfterNews(f) = g[Len(running)] /\ g[0] = f
                /\ \A i \in 1 .. Len(running) :
                     g[i] = IF IsNew(running[i]) THEN Admitted(g[i - 1], running[i]) ELSE g[i - 1]
<1> DEFINE n == Len(running)
           Turn(h, i) == IF IsNew(running[i]) THEN Admitted(h, running[i]) ELSE h
           turn == [ i \in 1 .. n |-> [ h \in Followers |-> Turn(h, i) ] ]
           g == CHOOSE h : h = [ i \in 0 .. n |->
                  IF i = 0 THEN f
                  ELSE IF IsNew(running[i]) THEN Admitted(h[i - 1], running[i]) ELSE h[i - 1] ]
<1>1. n \in Nat
  BY LenProperties
<1>2. ASSUME NEW i \in 1 .. n, NEW h \in Followers PROVE Turn(h, i) \in Followers
  BY RowNumbers, AdmittedFacts
<1>3. turn \in [1 .. n -> [Followers -> Followers]] /\ \A i \in 1 .. n, h \in Followers : turn[i][h] = Turn(h, i)
  <2> HIDE DEF Turn
  <2> QED
    BY <1>2
<1>4. AfterNews(f) = g[n]
  BY DEF AfterNews
<1> HIDE DEF turn, n
<1>5. PICK h \in [0 .. n -> Followers] : h[0] = f /\ \A i \in 1 .. n : h[i] = turn[i][h[i - 1]]
  BY <1>1, <1>3, FollowersLoop
<1>6. \A i \in 1 .. n : h[i] = Turn(h[i - 1], i)
  <2> HIDE DEF Turn
  <2> QED
    BY <1>1, <1>3, <1>5
<1>7. h = [ i \in 0 .. n |-> IF i = 0 THEN f
            ELSE IF IsNew(running[i]) THEN Admitted(h[i - 1], running[i]) ELSE h[i - 1] ]
  BY <1>1, <1>5, <1>6
<1>8. g = [ i \in 0 .. n |-> IF i = 0 THEN f
            ELSE IF IsNew(running[i]) THEN Admitted(g[i - 1], running[i]) ELSE g[i - 1] ]
  BY <1>7
<1> HIDE DEF g
<1>9. g[0] = f /\ \A i \in 1 .. n : g[i] = IF IsNew(running[i]) THEN Admitted(g[i - 1], running[i]) ELSE g[i - 1]
  BY <1>1, <1>8
<1> QED
  BY <1>4, <1>9 DEF n

LEMMA ItemsLoop ==
  ASSUME NEW f \in Followers, NEW items \in Seq(Items),
         \A k \in 1 .. Len(items) : running[items[k].idx].seq \in SeqIds
  PROVE  \E g : /\ AfterItems(f, items) = g[Len(items)] /\ g[0] = f
                /\ \A k \in 1 .. Len(items) : g[k] = Ran(g[k - 1], items[k])
<1> DEFINE n == Len(items)
           turn == [ k \in 1 .. n |-> [ h \in Followers |-> Ran(h, items[k]) ] ]
           g == CHOOSE h : h = [ k \in 0 .. n |-> IF k = 0 THEN f ELSE Ran(h[k - 1], items[k]) ]
<1>1. n \in Nat /\ \A k \in 1 .. n : items[k] \in Items
  BY LenProperties, ElementOfSeq
<1>2. ASSUME NEW k \in 1 .. n, NEW h \in Followers PROVE Ran(h, items[k]) \in Followers
  BY <1>1, RanFacts
<1>3. /\ turn \in [1 .. n -> [Followers -> Followers]]
      /\ \A k \in 1 .. n, h \in Followers : turn[k][h] = Ran(h, items[k])
  BY <1>2
<1>4. AfterItems(f, items) = g[n]
  BY DEF AfterItems
<1> HIDE DEF turn, n
<1>5. PICK h \in [0 .. n -> Followers] : h[0] = f /\ \A k \in 1 .. n : h[k] = turn[k][h[k - 1]]
  BY <1>1, <1>3, FollowersLoop
<1>6. h = [ k \in 0 .. n |-> IF k = 0 THEN f ELSE Ran(h[k - 1], items[k]) ]
  <2>1. \A k \in 1 .. n : h[k] = Ran(h[k - 1], items[k])
    BY <1>1, <1>3, <1>5
  <2> QED
    BY <1>1, <1>5, <2>1
<1>7. g = [ k \in 0 .. n |-> IF k = 0 THEN f ELSE Ran(g[k - 1], items[k]) ]
  BY <1>6
<1> HIDE DEF g
<1>8. g[0] = f /\ \A k \in 1 .. n : g[k] = Ran(g[k - 1], items[k])
  BY <1>1, <1>7
<1> QED
  BY <1>4, <1>8 DEF n

LEMMA RetiredLoop ==
  ASSUME running \in Seq(Runnings), NEW f \in Followers
  PROVE  \E g : /\ AfterRetired(f) = g[Len(running)] /\ g[0] = f
                /\ \A i \in 1 .. Len(running) :
                     g[i] = IF i \in finished THEN Freed(g[i - 1], running[i].seq) ELSE g[i - 1]
<1> DEFINE n == Len(running)
           Turn(h, i) == IF i \in finished THEN Freed(h, running[i].seq) ELSE h
           turn == [ i \in 1 .. n |-> [ h \in Followers |-> Turn(h, i) ] ]
           g == CHOOSE h : h = [ i \in 0 .. n |->
                  IF i = 0 THEN f
                  ELSE IF i \in finished THEN Freed(h[i - 1], running[i].seq) ELSE h[i - 1] ]
<1>1. n \in Nat
  BY LenProperties
<1>2. ASSUME NEW i \in 1 .. n, NEW h \in Followers PROVE Turn(h, i) \in Followers
  BY RowNumbers, FreedFacts
<1>3. turn \in [1 .. n -> [Followers -> Followers]] /\ \A i \in 1 .. n, h \in Followers : turn[i][h] = Turn(h, i)
  <2> HIDE DEF Turn
  <2> QED
    BY <1>2
<1>4. AfterRetired(f) = g[n]
  BY DEF AfterRetired
<1> HIDE DEF turn, n
<1>5. PICK h \in [0 .. n -> Followers] : h[0] = f /\ \A i \in 1 .. n : h[i] = turn[i][h[i - 1]]
  BY <1>1, <1>3, FollowersLoop
<1>6. \A i \in 1 .. n : h[i] = Turn(h[i - 1], i)
  <2> HIDE DEF Turn
  <2> QED
    BY <1>1, <1>3, <1>5
<1>7. h = [ i \in 0 .. n |-> IF i = 0 THEN f
            ELSE IF i \in finished THEN Freed(h[i - 1], running[i].seq) ELSE h[i - 1] ]
  BY <1>1, <1>5, <1>6
<1>8. g = [ i \in 0 .. n |-> IF i = 0 THEN f
            ELSE IF i \in finished THEN Freed(g[i - 1], running[i].seq) ELSE g[i - 1] ]
  BY <1>7
<1> HIDE DEF g
<1>9. g[0] = f /\ \A i \in 1 .. n : g[i] = IF i \in finished THEN Freed(g[i - 1], running[i].seq) ELSE g[i - 1]
  BY <1>1, <1>8
<1> QED
  BY <1>4, <1>9 DEF n

(* What the loops have done after some of their turns. *)
NewsAt(f, h, i) ==
  /\ h \in Followers /\ h.at = f.at /\ h.pool.slots = f.pool.slots
  /\ \A id : id \in h.pool.live <=>
       id \in known \/ \E j \in 1 .. i : IsNew(running[j]) /\ running[j].seq = id
  /\ \A j \in 1 .. Len(running) : h.prompts[running[j].seq] =
       IF j \in 1 .. i /\ IsNew(running[j]) THEN running[j].prompt ELSE f.prompts[running[j].seq]

LEMMA NewsTurn ==
  ASSUME SchedTypeOK, RowsInv, Gathered, NEW f, f.at # "dead",
         NEW i \in 1 .. Len(running), NEW h, NewsAt(f, h, i - 1)
  PROVE  NewsAt(f, IF IsNew(running[i]) THEN Admitted(h, running[i]) ELSE h, i)
<1> DEFINE n == Len(running)
           seq == running[i].seq
<1>1. running \in Seq(Runnings) /\ n \in Nat
  BY LenProperties DEF SchedTypeOK
<1>2. running[i] \in Runnings /\ seq \in SeqIds
  BY <1>1, RowNumbers
<1>3. \A j \in 1 .. i : j \in 1 .. i - 1 \/ j = i
  BY <1>1
<1>4. \A j \in 1 .. i - 1 : j \in 1 .. i /\ j # i /\ j \in 1 .. n
  BY <1>1
<1>5. \A j, k \in 1 .. n : running[j].seq = running[k].seq => j = k
  BY DEF RowsInv
<1>6. i \in 1 .. i
  BY <1>1
<1>7. CASE IsNew(running[i])
  <2> DEFINE q == Admitted(h, running[i])
  <2>1. CanAlloc(h.pool, seq)
    <3>1. seq \notin h.pool.live
      BY <1>4, <1>5, <1>7 DEF NewsAt, IsNew
    <3>2. ASSUME NEW other \in SeqIds, other \notin h.pool.live PROVE seq <= other
      <4>1. FirstFree(i)
        BY <1>7 DEF Gathered
      <4> QED
        BY <3>2, <4>1 DEF FirstFree, NewsAt
    <3> QED
      BY <1>2, <3>1, <3>2 DEF CanAlloc
  <2>2. /\ q \in Followers /\ q.at = h.at /\ q.pool.live = h.pool.live \cup {seq}
        /\ q.pool.slots = h.pool.slots
        /\ q.prompts = [h.prompts EXCEPT ![seq] = running[i].prompt]
    BY <1>2, <2>1, AdmittedFacts DEF NewsAt
  <2> HIDE DEF q
  <2>3. \A id : id \in q.pool.live <=>
          id \in known \/ \E j \in 1 .. i : IsNew(running[j]) /\ running[j].seq = id
    BY <1>3, <1>4, <1>6, <1>7, <2>2 DEF NewsAt
  <2>4. ASSUME NEW j \in 1 .. n
        PROVE  q.prompts[running[j].seq] =
                 IF j \in 1 .. i /\ IsNew(running[j]) THEN running[j].prompt ELSE f.prompts[running[j].seq]
    <3>1. running[j].seq \in SeqIds /\ h.prompts \in [SeqIds -> Seq(Contents)]
      BY <1>1, RowNumbers, FollowerFields DEF NewsAt
    <3>2. CASE j = i
      BY <1>6, <1>7, <2>2, <3>1, <3>2
    <3>3. CASE j # i
      <4>1. running[j].seq # seq /\ (j \in 1 .. i <=> j \in 1 .. i - 1)
        BY <1>3, <1>4, <1>5, <3>3
      <4>2. q.prompts[running[j].seq] = h.prompts[running[j].seq]
        BY <2>2, <3>1, <4>1
      <4> QED
        BY <4>1, <4>2 DEF NewsAt
    <3> QED
      BY <3>2, <3>3
  <2>5. NewsAt(f, q, i)
    BY <2>2, <2>3, <2>4 DEF NewsAt
  <2> QED
    BY <1>7, <2>5 DEF q
<1>8. CASE ~IsNew(running[i])
  <2>1. \A id : (\E j \in 1 .. i : IsNew(running[j]) /\ running[j].seq = id)
                <=> \E j \in 1 .. i - 1 : IsNew(running[j]) /\ running[j].seq = id
    BY <1>3, <1>4, <1>8
  <2>2. \A j \in 1 .. n : j \in 1 .. i /\ IsNew(running[j]) <=> j \in 1 .. i - 1 /\ IsNew(running[j])
    BY <1>3, <1>4, <1>8
  <2>3. NewsAt(f, h, i)
    BY <2>1, <2>2 DEF NewsAt
  <2> QED
    BY <1>8, <2>3
<1> QED
  BY <1>7, <1>8

LEMMA NewsFacts ==
  ASSUME SchedTypeOK, RowsInv, Gathered, NEW f \in Followers, f.at # "dead", f.pool.live = known
  PROVE  LET h == AfterNews(f)
         IN  /\ h \in Followers /\ h.at = f.at /\ h.pool.slots = f.pool.slots
             /\ h.pool.live = pool.live
             /\ \A j \in 1 .. Len(running) : h.prompts[running[j].seq] =
                  IF IsNew(running[j]) THEN running[j].prompt ELSE f.prompts[running[j].seq]
<1> DEFINE n == Len(running)
<1>1. running \in Seq(Runnings) /\ n \in Nat
  BY LenProperties DEF SchedTypeOK
<1>2. PICK g : /\ AfterNews(f) = g[n] /\ g[0] = f
               /\ \A i \in 1 .. n :
                    g[i] = IF IsNew(running[i]) THEN Admitted(g[i - 1], running[i]) ELSE g[i - 1]
  BY <1>1, NewsLoop
<1> DEFINE I == { i \in 0 .. n : NewsAt(f, g[i], i) }
<1>3. 0 \in I
  <2>1. \A j : j \notin 1 .. 0
    OBVIOUS
  <2>2. NewsAt(f, f, 0)
    BY <2>1 DEF NewsAt
  <2> QED
    BY <1>1, <1>2, <2>2
<1>4. ASSUME NEW i \in 1 .. n, i - 1 \in I PROVE i \in I
  <2>1. NewsAt(f, g[i - 1], i - 1)
    BY <1>4
  <2>2. NewsAt(f, g[i], i)
    BY <1>2, <2>1, NewsTurn
  <2> QED
    BY <1>1, <2>2
<1> HIDE DEF I
<1>5. \A i \in 0 .. n : i \in I
  <2> HIDE DEF n
  <2> QED
    BY ONLY <1>1, <1>3, <1>4, LoopInduction
<1>6. NewsAt(f, AfterNews(f), n)
  BY <1>1, <1>2, <1>5 DEF I
<1>7. AfterNews(f).pool.live = pool.live
  <2>1. \A id : id \in pool.live <=> \E j \in 1 .. n : running[j].seq = id
    BY DEF RowsInv
  <2>2. known \subseteq pool.live
    BY DEF Gathered
  <2>3. \A id : id \in AfterNews(f).pool.live <=> id \in pool.live
    BY <1>6, <2>1, <2>2 DEF NewsAt, IsNew
  <2> QED
    BY <2>3
<1> QED
  BY <1>6, <1>7 DEF NewsAt

ItsSeq(item) == running[item.idx].seq
(* What a follower can run: rows it has, each once, with room in each and in *)
(* the pool.                                                                *)
Runnable(f, items) ==
  /\ \A k \in 1 .. Len(items) :
       /\ ItsSeq(items[k]) \in f.pool.live
       /\ SeqLen(f.pool, ItsSeq(items[k])) + items[k].len <= MaxSeq
       /\ items[k].kind = "prefill" => f.prompts[ItsSeq(items[k])] # << >>
  /\ \A j, k \in 1 .. Len(items) : ItsSeq(items[j]) = ItsSeq(items[k]) => j = k
  /\ Asked(items, Len(items)) <= FreeSlots(f.pool)
RunAt(f, items, h, k) ==
  /\ h \in Followers /\ h.at = f.at /\ h.prompts = f.prompts /\ h.pool.live = f.pool.live
  /\ FreeSlots(h.pool) = FreeSlots(f.pool) - Asked(items, k)
  /\ \A id \in SeqIds : (\A j \in 1 .. k : ItsSeq(items[j]) # id) => SeqLen(h.pool, id) = SeqLen(f.pool, id)
  /\ \A j \in 1 .. k : SeqLen(h.pool, ItsSeq(items[j])) = SeqLen(f.pool, ItsSeq(items[j])) + items[j].len

LEMMA ItemsTurn ==
  ASSUME NEW items \in Seq(Items), NEW f \in Followers, f.at # "dead", Runnable(f, items),
         NEW k \in 1 .. Len(items), NEW h, RunAt(f, items, h, k - 1)
  PROVE  RunAt(f, items, Ran(h, items[k]), k)
<1> DEFINE id == ItsSeq(items[k])
           len == items[k].len
           q == Ran(h, items[k])
<1>1. Len(items) \in Nat /\ items[k] \in Items /\ len \in Nat
  <2>1. Len(items) \in Nat /\ items[k] \in Items
    BY LenProperties, ElementOfSeq
  <2> QED
    BY <2>1 DEF Items
<1>2. f.pool \in Pools /\ f.pool.live \subseteq SeqIds /\ FreeSlots(f.pool) \in Nat
  BY FollowerFields, PoolFields
<1>3. h \in Followers /\ h.pool \in Pools
  BY FollowerFields DEF RunAt
<1>4. id \in f.pool.live /\ id \in SeqIds
  BY <1>2 DEF Runnable
<1>5. \A j \in 1 .. k - 1 : j \in 1 .. Len(items) /\ j # k /\ ItsSeq(items[j]) # id
  BY <1>1 DEF Runnable
<1>6. SeqLen(h.pool, id) = SeqLen(f.pool, id) /\ SeqLen(f.pool, id) \in Nat
  BY <1>2, <1>4, <1>5, PoolFields DEF RunAt
<1>7. /\ Asked(items, k) = Asked(items, k - 1) + len
      /\ Asked(items, k) \in Nat /\ Asked(items, k - 1) \in Nat
      /\ Asked(items, k) <= Asked(items, Len(items)) /\ Asked(items, Len(items)) \in Nat
  <2>1. k - 1 \in 0 .. Len(items) /\ k \in 0 .. Len(items) /\ Len(items) \in 0 .. Len(items)
    BY <1>1
  <2> QED
    BY <2>1, AskedFacts, AskedGrows
<1>8. FreeSlots(h.pool) = FreeSlots(f.pool) - Asked(items, k - 1) /\ len <= FreeSlots(h.pool)
  <2>1. FreeSlots(h.pool) = FreeSlots(f.pool) - Asked(items, k - 1)
    BY DEF RunAt
  <2>2. Asked(items, Len(items)) <= FreeSlots(f.pool)
    BY DEF Runnable
  <2> QED
    BY ONLY <1>1, <1>2, <1>7, <2>1, <2>2
<1>9. CanExtend(h.pool, id, len)
  <2>1. id \in h.pool.live
    BY <1>4 DEF RunAt
  <2>2. SeqLen(h.pool, id) + len <= MaxSeq
    BY <1>6 DEF Runnable
  <2> QED
    BY <1>8, <2>1, <2>2 DEF CanExtend
<1>10. items[k].kind = "prefill" => h.prompts[id] # << >>
  BY DEF Runnable, RunAt
<1>11. /\ q \in Followers /\ q.at = h.at /\ q.prompts = h.prompts /\ q.pool.live = h.pool.live
       /\ FreeSlots(q.pool) = FreeSlots(h.pool) - len
       /\ SeqLen(q.pool, id) = SeqLen(h.pool, id) + len
       /\ \A other \in SeqIds \ {id} : SeqLen(q.pool, other) = SeqLen(h.pool, other)
  <2>1. h.at # "dead"
    BY DEF RunAt
  <2> QED
    BY <1>1, <1>3, <1>4, <1>9, <1>10, <2>1, RanFacts DEF ItsSeq
<1> HIDE DEF q
<1>12. FreeSlots(q.pool) = FreeSlots(f.pool) - Asked(items, k)
  BY ONLY <1>1, <1>2, <1>7, <1>8, <1>11
<1>13. \A j \in 1 .. k : j \in 1 .. k - 1 \/ j = k
  BY <1>1
<1>14. \A j \in 1 .. k - 1 : j \in 1 .. k
  BY <1>1
<1>15. k \in 1 .. k
  BY <1>1
<1>16. ASSUME NEW x \in SeqIds, \A j \in 1 .. k : ItsSeq(items[j]) # x
       PROVE  SeqLen(q.pool, x) = SeqLen(f.pool, x)
  <2>1. x # id
    BY <1>15, <1>16
  <2>2. SeqLen(q.pool, x) = SeqLen(h.pool, x)
    BY <1>11, <2>1
  <2>3. \A j \in 1 .. k - 1 : ItsSeq(items[j]) # x
    BY <1>14, <1>16
  <2>4. SeqLen(h.pool, x) = SeqLen(f.pool, x)
    BY <2>3 DEF RunAt
  <2> QED
    BY <2>2, <2>4
<1>17. ASSUME NEW j \in 1 .. k
       PROVE  SeqLen(q.pool, ItsSeq(items[j])) = SeqLen(f.pool, ItsSeq(items[j])) + items[j].len
  <2>1. CASE j = k
    BY <1>6, <1>11, <2>1
  <2>2. CASE j \in 1 .. k - 1
    <3>1. ItsSeq(items[j]) \in SeqIds \ {id}
      BY <1>2, <1>5, <2>2 DEF Runnable
    <3>2. SeqLen(q.pool, ItsSeq(items[j])) = SeqLen(h.pool, ItsSeq(items[j]))
      BY <1>11, <3>1
    <3>3. SeqLen(h.pool, ItsSeq(items[j])) = SeqLen(f.pool, ItsSeq(items[j])) + items[j].len
      BY <2>2 DEF RunAt
    <3> QED
      BY <3>2, <3>3
  <2> QED
    BY <1>13, <2>1, <2>2
<1>18. RunAt(f, items, q, k)
  <2>1. q.at = f.at /\ q.prompts = f.prompts /\ q.pool.live = f.pool.live
    BY <1>11 DEF RunAt
  <2> QED
    BY <1>11, <1>12, <1>16, <1>17, <2>1 DEF RunAt
<1> QED
  BY <1>18 DEF q

LEMMA ItemsFacts ==
  ASSUME NEW items \in Seq(Items), NEW f \in Followers, f.at # "dead", Runnable(f, items)
  PROVE  RunAt(f, items, AfterItems(f, items), Len(items))
<1> DEFINE n == Len(items)
<1>1. n \in Nat
  BY LenProperties
<1>2. \A k \in 1 .. n : ItsSeq(items[k]) \in SeqIds
  BY FollowerFields, PoolFields DEF Runnable
<1>3. PICK g : /\ AfterItems(f, items) = g[n] /\ g[0] = f
               /\ \A k \in 1 .. n : g[k] = Ran(g[k - 1], items[k])
  BY <1>2, ItemsLoop DEF ItsSeq
<1> DEFINE I == { k \in 0 .. n : RunAt(f, items, g[k], k) }
<1>4. 0 \in I
  <2>1. Asked(items, 0) = 0 /\ \A j : j \notin 1 .. 0
    BY AskedFacts
  <2>2. FreeSlots(f.pool) \in Nat
    BY FollowerFields, PoolFields
  <2>3. FreeSlots(f.pool) = FreeSlots(f.pool) - Asked(items, 0)
    BY <2>1, <2>2
  <2>4. RunAt(f, items, f, 0)
    BY <2>1, <2>3 DEF RunAt
  <2> QED
    BY <1>1, <1>3, <2>4
<1>5. ASSUME NEW k \in 1 .. n, k - 1 \in I PROVE k \in I
  <2>1. RunAt(f, items, g[k - 1], k - 1)
    BY <1>5
  <2>2. RunAt(f, items, g[k], k)
    BY <1>3, <2>1, ItemsTurn
  <2> QED
    BY <1>1, <2>2
<1> HIDE DEF I
<1>6. \A k \in 0 .. n : k \in I
  <2> HIDE DEF n
  <2> QED
    BY ONLY <1>1, <1>4, <1>5, LoopInduction
<1> QED
  BY <1>1, <1>3, <1>6 DEF I

RetiredAt(f, h, i) ==
  /\ h \in Followers /\ h.at = f.at
  /\ \A id : id \in h.pool.live <=>
       id \in f.pool.live /\ \A j \in 1 .. i : j \in finished => running[j].seq # id
  /\ \A id \in SeqIds : (\A j \in 1 .. i : j \in finished => running[j].seq # id) =>
       h.prompts[id] = f.prompts[id] /\ SeqLen(h.pool, id) = SeqLen(f.pool, id)

LEMMA RetiredTurn ==
  ASSUME running \in Seq(Runnings), NEW f, NEW i \in 1 .. Len(running), NEW h, RetiredAt(f, h, i - 1)
  PROVE  RetiredAt(f, IF i \in finished THEN Freed(h, running[i].seq) ELSE h, i)
<1> DEFINE seq == running[i].seq
           q == Freed(h, seq)
<1>1. Len(running) \in Nat /\ seq \in SeqIds
  BY LenProperties, RowNumbers
<1>2. /\ \A j \in 1 .. i : j \in 1 .. i - 1 \/ j = i
      /\ \A j \in 1 .. i - 1 : j \in 1 .. i
      /\ i \in 1 .. i
  BY <1>1
<1>3. CASE i \in finished
  <2>1. /\ q \in Followers /\ q.at = h.at /\ q.pool.live = h.pool.live \ {seq}
        /\ \A other \in SeqIds \ {seq} :
             q.prompts[other] = h.prompts[other] /\ SeqLen(q.pool, other) = SeqLen(h.pool, other)
    BY <1>1, FreedFacts DEF RetiredAt
  <2> HIDE DEF q
  <2>2. \A id : id \in q.pool.live <=>
          id \in f.pool.live /\ \A j \in 1 .. i : j \in finished => running[j].seq # id
    BY <1>2, <1>3, <2>1 DEF RetiredAt
  <2>3. \A id \in SeqIds : (\A j \in 1 .. i : j \in finished => running[j].seq # id) =>
          q.prompts[id] = f.prompts[id] /\ SeqLen(q.pool, id) = SeqLen(f.pool, id)
    BY <1>2, <1>3, <2>1 DEF RetiredAt
  <2>4. RetiredAt(f, q, i)
    BY <2>1, <2>2, <2>3 DEF RetiredAt
  <2> QED
    BY <1>3, <2>4 DEF q
<1>4. CASE i \notin finished
  <2>1. \A id : (\A j \in 1 .. i : j \in finished => running[j].seq # id)
                <=> \A j \in 1 .. i - 1 : j \in finished => running[j].seq # id
    BY <1>2, <1>4
  <2>2. RetiredAt(f, h, i)
    BY <2>1 DEF RetiredAt
  <2> QED
    BY <1>4, <2>2
<1> QED
  BY <1>3, <1>4

LEMMA RetiredFacts ==
  ASSUME running \in Seq(Runnings), NEW f \in Followers
  PROVE  RetiredAt(f, AfterRetired(f), Len(running))
<1> DEFINE n == Len(running)
<1>1. n \in Nat
  BY LenProperties
<1>2. PICK g : /\ AfterRetired(f) = g[n] /\ g[0] = f
               /\ \A i \in 1 .. n :
                    g[i] = IF i \in finished THEN Freed(g[i - 1], running[i].seq) ELSE g[i - 1]
  BY RetiredLoop
<1> DEFINE I == { i \in 0 .. n : RetiredAt(f, g[i], i) }
<1>3. 0 \in I
  <2>1. \A j : j \notin 1 .. 0
    OBVIOUS
  <2>2. RetiredAt(f, f, 0)
    BY <2>1 DEF RetiredAt
  <2> QED
    BY <1>1, <1>2, <2>2
<1>4. ASSUME NEW i \in 1 .. n, i - 1 \in I PROVE i \in I
  <2>1. RetiredAt(f, g[i - 1], i - 1)
    BY <1>4
  <2>2. RetiredAt(f, g[i], i)
    BY <1>2, <2>1, RetiredTurn
  <2> QED
    BY <1>1, <2>2
<1> HIDE DEF I
<1>5. \A i \in 0 .. n : i \in I
  <2> HIDE DEF n
  <2> QED
    BY ONLY <1>1, <1>3, <1>4, LoopInduction
<1> QED
  BY <1>1, <1>2, <1>5 DEF I

(* A follower's pool has as many free slots as rank 0's has, or more: its    *)
(* rows are as long, and it has no cache to hold any.                        *)
RowPlaces(p) == { place \in SeqIds \X Nat : place[2] \in 1 .. SeqLen(p, place[1]) }
InRows(p) == { p.slots[place[1]][place[2]] : place \in RowPlaces(p) }
OnStack(p) == { p.free[n] : n \in 1 .. FreeSlots(p) }

LEMMA PlaceInRow ==
  ASSUME NEW p, NEW id \in SeqIds, NEW i \in 1 .. SeqLen(p, id), SeqLen(p, id) \in Nat
  PROVE  <<id, i>> \in RowPlaces(p) /\ p.slots[id][i] \in InRows(p)
<1>1. <<id, i>> \in RowPlaces(p)
  BY DEF RowPlaces
<1>2. p.slots[<<id, i>>[1]][<<id, i>>[2]] \in InRows(p)
  BY <1>1 DEF InRows
<1> QED
  BY <1>1, <1>2

LEMMA InRowsPlace ==
  ASSUME NEW p, NEW s \in InRows(p)
  PROVE  \E id \in SeqIds : \E i \in 1 .. SeqLen(p, id) : p.slots[id][i] = s
<1>1. PICK place \in RowPlaces(p) : p.slots[place[1]][place[2]] = s
  BY DEF InRows
<1>2. place[1] \in SeqIds /\ place[2] \in 1 .. SeqLen(p, place[1])
  BY <1>1 DEF RowPlaces
<1> QED
  BY <1>1, <1>2

LEMMA PlacesHeld ==
  ASSUME NEW p \in Pools, RowsOnce(p)
  PROVE  ExistsBijection(RowPlaces(p), InRows(p))
<1> DEFINE P == RowPlaces(p)
           g == [ place \in P |-> p.slots[place[1]][place[2]] ]
<1>1. ASSUME NEW a \in P, NEW b \in P, g[a] = g[b] PROVE a = b
  <2>1. a \in SeqIds \X Nat /\ b \in SeqIds \X Nat
    BY DEF RowPlaces
  <2>2. /\ a[1] \in SeqIds /\ a[2] \in 1 .. SeqLen(p, a[1]) /\ a = <<a[1], a[2]>>
        /\ b[1] \in SeqIds /\ b[2] \in 1 .. SeqLen(p, b[1]) /\ b = <<b[1], b[2]>>
    BY <2>1 DEF RowPlaces
  <2>3. p.slots[a[1]][a[2]] = p.slots[b[1]][b[2]]
    BY <1>1
  <2>4. a[1] = b[1] /\ a[2] = b[2]
    BY <2>2, <2>3 DEF RowsOnce
  <2> QED
    BY <2>2, <2>4
<1>2. g \in [P -> InRows(p)] /\ \A s \in InRows(p) : \E a \in P : g[a] = s
  BY DEF InRows
<1> HIDE DEF g, P
<1>3. g \in Bijection(P, InRows(p))
  BY <1>1, <1>2 DEF Bijection, Injection, Surjection, IsInjective
<1> QED
  BY <1>3 DEF ExistsBijection, P

LEMMA StackCount ==
  ASSUME NEW p \in Pools, StackOnce(p), RowsOrStack(p)
  PROVE  /\ OnStack(p) \subseteq Slots /\ InRows(p) \subseteq Slots
         /\ IsFiniteSet(OnStack(p)) /\ IsFiniteSet(InRows(p))
         /\ Cardinality(OnStack(p)) = FreeSlots(p)
         /\ Cardinality(OnStack(p) \cup InRows(p)) = FreeSlots(p) + Cardinality(InRows(p))
<1>1. FreeSlots(p) \in Nat /\ p.free \in Seq(Slots) /\ Len(p.free) = FreeSlots(p)
  BY PoolFields DEF FreeSlots
<1>2. OnStack(p) \subseteq Slots
  BY <1>1, ElementOfSeq DEF OnStack
<1>3. InRows(p) \subseteq Slots
  <2>1. ASSUME NEW s \in InRows(p) PROVE s \in Slots
    <3>1. PICK id \in SeqIds : \E i \in 1 .. SeqLen(p, id) : p.slots[id][i] = s
      BY InRowsPlace
    <3>2. p.slots[id] \in Seq(Slots)
      BY PoolFields
    <3> QED
      BY <3>1, <3>2, ElementOfSeq DEF SeqLen
  <2> QED
    BY <2>1
<1>4. IsFiniteSet(InRows(p))
  BY <1>3, PoolSizes, FS_Subset
<1>5. IsFiniteSet(OnStack(p)) /\ Cardinality(OnStack(p)) = FreeSlots(p)
  <2> DEFINE n == FreeSlots(p)
             f == p.free
             T == OnStack(p)
  <2>1. /\ n \in Nat
        /\ \A i \in 1 .. n : f[i] \in T
        /\ \A t \in T : \E i \in 1 .. n : f[i] = t
        /\ \A i, j \in 1 .. n : f[i] = f[j] => i = j
    BY <1>1 DEF OnStack, StackOnce
  <2> HIDE DEF n, f, T
  <2>2. IsFiniteSet(T) /\ Cardinality(T) = n
    BY <2>1, ListedOnce
  <2> QED
    BY <2>2 DEF n, T
<1>6. \A s \in OnStack(p) : s \notin InRows(p)
  <2>1. ASSUME NEW s \in OnStack(p), s \in InRows(p) PROVE FALSE
    <3>1. PICK n \in 1 .. FreeSlots(p) : p.free[n] = s
      BY <2>1 DEF OnStack
    <3>2. PICK id \in SeqIds : \E i \in 1 .. SeqLen(p, id) : p.slots[id][i] = s
      BY <2>1, InRowsPlace
    <3> QED
      BY <3>1, <3>2 DEF RowsOrStack
  <2> QED
    BY <2>1
<1>7. Cardinality(OnStack(p) \cup InRows(p)) = FreeSlots(p) + Cardinality(InRows(p))
  BY <1>4, <1>5, <1>6, ApartAdds
<1> QED
  BY <1>2, <1>3, <1>4, <1>5, <1>7

LEMMA FreeBeside ==
  ASSUME TypeOK, OneOwner, \A id \in SeqIds : pool.borrowed[id] = 0,
         NEW q, WholePool(q), \A id \in SeqIds : SeqLen(q, id) = SeqLen(pool, id)
  PROVE  FreeSlots(pool) <= FreeSlots(q)
<1>1. pool \in Pools /\ q \in Pools /\ OnePlace(q)
  BY DEF TypeOK, WholePool
<1>2. StackOnce(pool) /\ RowsOnce(pool) /\ RowsOrStack(pool)
  <2>1. \A id \in SeqIds : OwnedPos(id) = 1 .. SeqLen(pool, id)
    BY <1>1, PoolFields DEF OwnedPos
  <2>2. StackOnce(pool)
    BY DEF StackOnce, OneOwner, FreeOnce
  <2>3. RowsOnce(pool)
    <3>1. ASSUME NEW a \in SeqIds, NEW b \in SeqIds, NEW i \in 1 .. SeqLen(pool, a),
                 NEW j \in 1 .. SeqLen(pool, b), pool.slots[a][i] = pool.slots[b][j]
          PROVE  a = b /\ i = j
      <4>1. i \in OwnedPos(a) /\ j \in OwnedPos(b)
        BY <2>1
      <4> QED
        BY <3>1, <4>1 DEF OneOwner, OwnedOnce
    <3> QED
      BY <3>1 DEF RowsOnce
  <2>4. RowsOrStack(pool)
    BY <2>1 DEF RowsOrStack, OneOwner, FreeOrOwned
  <2> QED
    BY <2>2, <2>3, <2>4
<1>3. StackOnce(q) /\ RowsOnce(q) /\ RowsOrStack(q) /\ EveryPlace(q)
  BY <1>1 DEF OnePlace
<1>4. RowPlaces(q) = RowPlaces(pool)
  BY DEF RowPlaces
<1>5. Cardinality(InRows(q)) = Cardinality(InRows(pool))
  <2> DEFINE P == RowPlaces(pool)
             S == InRows(pool)
             T == InRows(q)
  <2>1. ExistsBijection(P, S) /\ ExistsBijection(P, T)
    BY <1>1, <1>2, <1>3, <1>4, PlacesHeld
  <2>2. IsFiniteSet(S)
    BY <1>1, <1>2, StackCount
  <2> HIDE DEF P, S, T
  <2>3. ExistsBijection(S, P)
    BY <2>1, Fun_ExistsBijSymmetric
  <2>4. ExistsBijection(S, T)
    BY <2>1, <2>3, Fun_ExistsBijTransitive
  <2>5. Cardinality(S) = Cardinality(T)
    BY <2>2, <2>4, FS_Bijection
  <2> QED
    BY <2>5 DEF S, T
<1>6. OnStack(q) \cup InRows(q) = Slots
  <2>1. ASSUME NEW s \in Slots PROVE s \in OnStack(q) \cup InRows(q)
    <3>1. CASE \E n \in 1 .. FreeSlots(q) : q.free[n] = s
      BY <3>1 DEF OnStack
    <3>2. CASE \E id \in SeqIds : \E i \in 1 .. SeqLen(q, id) : q.slots[id][i] = s
      <4>1. PICK id \in SeqIds : \E i \in 1 .. SeqLen(q, id) : q.slots[id][i] = s
        BY <3>2
      <4>2. SeqLen(q, id) \in Nat
        BY <1>1, PoolFields
      <4> QED
        BY <4>1, <4>2, PlaceInRow
    <3> QED
      BY <1>3, <3>1, <3>2 DEF EveryPlace
  <2> QED
    BY <1>1, <1>3, <2>1, StackCount
<1>7. FreeSlots(q) + Cardinality(InRows(q)) = Cardinality(Slots)
  BY <1>1, <1>3, <1>6, StackCount
<1>8. FreeSlots(pool) + Cardinality(InRows(pool)) <= Cardinality(Slots)
  <2>1. OnStack(pool) \cup InRows(pool) \subseteq Slots
    BY <1>1, <1>2, StackCount
  <2>2. Cardinality(OnStack(pool) \cup InRows(pool)) <= Cardinality(Slots)
    BY <2>1, PoolSizes, FS_Subset
  <2> QED
    BY <1>1, <1>2, <2>2, StackCount
<1>9. /\ Cardinality(Slots) \in Nat /\ Cardinality(InRows(pool)) \in Nat
      /\ FreeSlots(q) \in Nat /\ FreeSlots(pool) \in Nat
  BY <1>1, <1>2, StackCount, PoolSizes, PoolFields, FS_CardinalityType
<1> QED
  BY ONLY <1>5, <1>7, <1>8, <1>9

(* Once the rows are gathered, a follower that has been told of the new ones *)
(* has what rank 0 has.                                                     *)
Beside(f) ==
  /\ f \in Followers /\ f.at = "plan" /\ f.pool.live = pool.live
  /\ \A id \in SeqIds : SeqLen(f.pool, id) = SeqLen(pool, id)
  /\ \A i \in 1 .. Len(running) : f.prompts[running[i].seq] = running[i].prompt

LEMMA NewsBeside ==
  ASSUME IInv, SchedInv, Locked, phase = "drop"
  PROVE  Beside(AfterNews(follower))
<1> DEFINE h == AfterNews(follower)
<1>1. SchedTypeOK /\ RowsInv
  BY DEF SchedInv
<1>2. /\ follower \in Followers /\ follower.at = "plan" /\ follower.pool.live = known
      /\ Gathered /\ \A i \in 1 .. Len(running) : running[i].seq \in known => Follows(i)
  BY DEF Locked, Gathering, Followed
<1>3. /\ h \in Followers /\ h.at = "plan" /\ h.pool.slots = follower.pool.slots
      /\ h.pool.live = pool.live
      /\ \A j \in 1 .. Len(running) : h.prompts[running[j].seq] =
           IF IsNew(running[j]) THEN running[j].prompt ELSE follower.prompts[running[j].seq]
  BY <1>1, <1>2, NewsFacts
<1> HIDE DEF h
<1>4. ToCome = {}
  BY DEF ToCome
<1>5. \A i \in 1 .. Len(running) : ~IsNew(running[i]) =>
        /\ follower.prompts[running[i].seq] = running[i].prompt
        /\ SeqLen(follower.pool, running[i].seq) = SeqLen(pool, running[i].seq)
  BY <1>2, <1>4 DEF IsNew, Follows
<1>6. ASSUME NEW id \in SeqIds PROVE SeqLen(h.pool, id) = SeqLen(pool, id)
  <2>1. SeqLen(h.pool, id) = SeqLen(follower.pool, id)
    BY <1>3 DEF SeqLen
  <2>2. \A x \in SeqIds \ known : SeqLen(follower.pool, x) = 0
    BY <1>2, FollowerFields DEF WholePool
  <2>3. CASE id \notin pool.live
    <3>1. SeqLen(pool, id) = 0
      BY <2>3, DeadRow
    <3>2. id \notin known
      BY <1>2, <2>3 DEF Gathered
    <3> QED
      BY <2>1, <2>2, <3>1, <3>2
  <2>4. CASE id \in pool.live
    <3>1. PICK i \in 1 .. Len(running) : running[i].seq = id
      BY <1>1, <2>4 DEF RowsInv
    <3>2. CASE IsNew(running[i])
      BY <1>2, <2>1, <2>2, <3>1, <3>2 DEF Gathered, IsNew
    <3>3. CASE ~IsNew(running[i])
      BY <1>5, <2>1, <3>1, <3>3
    <3> QED
      BY <3>2, <3>3
  <2> QED
    BY <2>3, <2>4
<1>7. Beside(h)
  BY <1>3, <1>5, <1>6 DEF Beside
<1> QED
  BY <1>7 DEF h

LEMMA PlanRunnable ==
  ASSUME IInv, SchedInv, phase = "drop", Unborrowed,
         NEW f, Beside(f)
  PROVE  PlanOf \in Seq(Items) /\ Runnable(f, PlanOf)
<1>1. /\ SchedTypeOK /\ RowsInv /\ PlanInv /\ TextInv /\ FedInv /\ running \in Seq(Runnings)
      /\ TypeOK /\ OneOwner /\ pool \in Pools /\ finished = {}
  BY DEF SchedInv, SchedTypeOK, IInv, TypeOK, PlanInv
<1>2. FreeSlots(pool) \in Nat
  BY <1>1, PoolFields
<1>3. /\ PlanOf \in Seq(Items)
      /\ \A j \in 1 .. Len(PlanOf) : RowItem(PlanOf[j])
      /\ \A j, k \in 1 .. Len(PlanOf) : PlanOf[j].idx = PlanOf[k].idx => j = k
      /\ Asked(PlanOf, Len(PlanOf)) <= FreeSlots(pool)
  BY <1>1, <1>2, PlanOfFacts
<1> DEFINE items == PlanOf
<1> HIDE DEF items
<1>4. ASSUME NEW k \in 1 .. Len(items)
      PROVE  /\ ItsSeq(items[k]) \in f.pool.live
             /\ SeqLen(f.pool, ItsSeq(items[k])) + items[k].len <= MaxSeq
             /\ items[k].kind = "prefill" => f.prompts[ItsSeq(items[k])] # << >>
  <2> DEFINE item == items[k]
             i == item.idx
             row == running[i]
             size == Len(text[row.seq])
             own == Len(row.prompt)
             held == SeqLen(pool, row.seq)
  <2>1. item \in Items /\ i \in 1 .. Len(running) /\ FitsRow(item)
    BY <1>3, ElementOfSeq DEF items, RowItem
  <2>2. /\ item.len \in Nat /\ row.seq \in SeqIds /\ own \in Nat /\ row.prefilled \in Nat
        /\ row.seq \in pool.live
    BY <1>1, <2>1, RowNumbers DEF Items, RowsInv
  <2>3. size \in Nat /\ held \in Nat /\ MaxSeq \in Nat
    <3>1. text[row.seq] \in Seq(Contents)
      BY <1>1, <2>2 DEF TypeOK
    <3> QED
      BY <1>1, <2>2, <3>1, PoolFields, PoolSizes, LenProperties
  <2>4. RowText(i) /\ RowBooked(i)
    <3>1. UnderWay = {}
      BY DEF UnderWay
    <3> QED
      BY <1>1, <2>1, <3>1, RowForm, AtRest
  <2>5. held + item.len <= MaxSeq /\ (item.kind = "prefill" => own > 0)
    <3>1. CASE PromptComplete(row)
      <4>1. item.len = 1 /\ item.kind = "decode" /\ held = size - 1 /\ size < MaxSeq
        BY <2>1, <2>4, <3>1 DEF FitsRow, RowText, RowBooked, Booked
      <4> QED
        BY <2>2, <2>3, <4>1
    <3>2. CASE ~PromptComplete(row)
      <4>1. /\ item.len >= 1 /\ row.prefilled + item.len <= own
            /\ held = row.prefilled /\ size = own /\ size < MaxSeq
        BY <2>1, <2>4, <3>2 DEF FitsRow, RowText, RowBooked, Booked
      <4>2. item.len \in Nat /\ own \in Nat /\ row.prefilled \in Nat
        BY <2>2
      <4> HIDE DEF item, own, held, size, row
      <4>3. held + item.len <= MaxSeq /\ own > 0
        BY ONLY <2>3, <4>1, <4>2
      <4> QED
        BY <4>3
    <3> QED
      BY <3>1, <3>2
  <2>6. own > 0 => row.prompt # << >>
    BY EmptySeq
  <2>7. f.pool.live = pool.live /\ SeqLen(f.pool, row.seq) = held /\ f.prompts[row.seq] = row.prompt
    BY <2>1, <2>2 DEF Beside
  <2> QED
    BY <2>2, <2>5, <2>6, <2>7 DEF ItsSeq
<1>5. \A j, k \in 1 .. Len(items) : ItsSeq(items[j]) = ItsSeq(items[k]) => j = k
  <2>1. \A j \in 1 .. Len(items) : items[j].idx \in 1 .. Len(running)
    BY <1>3 DEF items, RowItem
  <2> QED
    BY <1>1, <1>3, <2>1 DEF items, ItsSeq, RowsInv
<1>6. Asked(items, Len(items)) <= FreeSlots(f.pool)
  <2>1. FreeSlots(pool) <= FreeSlots(f.pool)
    BY <1>1, FollowerFields, FreeBeside DEF Beside, Unborrowed
  <2>2. f.pool \in Pools
    BY FollowerFields DEF Beside
  <2>3. FreeSlots(f.pool) \in Nat
    BY <2>2, PoolFields
  <2>4. Asked(items, Len(items)) \in Nat
    <3>1. Len(items) \in Nat
      BY <1>3, LenProperties DEF items
    <3>2. Len(items) \in 0 .. Len(items)
      BY <3>1
    <3> QED
      BY <1>3, <3>2, AskedFacts DEF items
  <2> QED
    BY <1>2, <1>3, <2>1, <2>3, <2>4 DEF items
<1>7. Runnable(f, items)
  BY <1>4, <1>5, <1>6 DEF Runnable
<1> QED
  BY <1>3, <1>7 DEF items

(* What was told stays told, and what slipped stays slipped. *)
LEMMA SlipsStay ==
  ASSUME [TPNext]_tpvars, Clean'
  PROVE  Clean
<1>1. tp' = tp /\ (tp => slips \subseteq slips')
  <2>1. CASE UNCHANGED tpvars
    BY <2>1 DEF tpvars
  <2>2. CASE Alone
    BY <2>2 DEF Alone
  <2>3. CASE TPReceive \/ TPAdvanceDone
    BY <2>3 DEF TPReceive, TPAdvanceDone
  <2>4. CASE \E seq \in SeqIds : TPStart(seq)
    BY <2>4 DEF TPStart, Slipped
  <2>5. CASE TPDrop \/ TPPlan
    BY <2>5 DEF TPDrop, TPPlan, Slipped
  <2>6. CASE RefusePicture \/ OutOfStep
    BY <2>6 DEF RefusePicture, OutOfStep, Slipped
  <2>7. CASE TPForwardItem \/ TPForwardDone \/ TPForwardFails
    BY <2>7 DEF TPForwardItem, TPForwardDone, TPForwardFails, Alone, Slipped
  <2> QED
    BY <2>1, <2>2, <2>3, <2>4, <2>5, <2>6, <2>7 DEF TPNext, TPWorker
<1> QED
  BY <1>1 DEF Clean

(* Without a hit in the cache no row borrows. *)
LEMMA BorrowsNothing ==
  ASSUME IInv, IInv', Unborrowed,
         \/ pool' = pool
         \/ \E id \in SeqIds, prompt \in Prompts : Admit(id, prompt) /\ SeqLen(pool', id) = 0
         \/ \E key \in DOMAIN cache.blocks : EvictOne(key)
         \/ \E id \in SeqIds, n \in 1 .. MaxSeq : Forward(id, n)
         \/ \E id \in SeqIds : Retire(id)
  PROVE  Unborrowed'
<1>1. TypeOK /\ TypeOK' /\ pool \in Pools /\ pool' \in Pools
  BY DEF IInv, TypeOK
<1>2. CASE pool' = pool
  BY <1>2 DEF Unborrowed
<1>3. ASSUME NEW id \in SeqIds, NEW prompt \in Prompts, Admit(id, prompt), SeqLen(pool', id) = 0
      PROVE  Unborrowed'
  <2>1. pool'.borrowed[id] = 0
    <3>1. pool'.borrowed[id] <= SeqLen(pool', id) /\ pool'.borrowed[id] \in Nat
      BY <1>1, PoolFields DEF TypeOK
    <3> QED
      BY <1>3, <3>1
  <2>2. ASSUME NEW other \in SeqIds \ {id} PROVE pool'.borrowed[other] = pool.borrowed[other]
    <3> DEFINE p == Alloc(pool, id)
    <3>1. p \in Pools /\ p.borrowed = pool.borrowed
      BY <1>1, AllocFacts
    <3>2. CASE HadVision(prompt)
      BY <1>3, <3>1, <3>2 DEF Admit
    <3>3. CASE ~HadVision(prompt)
      <4>1. PICK n \in 0 .. FullBlocks(prompt) :
              /\ Longest(cache, Ids(prompt), Len(prompt) - 1, n)
              /\ pool' = AttachPrefix(p, id, HitSlots(cache, Ids(prompt), n))
        BY <1>3, <3>3 DEF Admit
      <4>2. HitSlots(cache, Ids(prompt), n) \in Seq(Slots)
        <5>1. n \in Nat /\ \A i \in 1 .. n : KeyOf(Ids(prompt), i) \in DOMAIN cache.blocks
          BY <4>1 DEF Longest
        <5> QED
          BY <1>1, <5>1, HitSlotsFacts
      <4> HIDE DEF p
      <4>3. pool'.borrowed[other] = p.borrowed[other]
        BY <3>1, <4>1, <4>2, AttachFacts
      <4> QED
        BY <3>1, <4>3
    <3> QED
      BY <3>2, <3>3
  <2> QED
    BY <2>1, <2>2 DEF Unborrowed
<1>4. ASSUME NEW key \in DOMAIN cache.blocks, EvictOne(key) PROVE Unborrowed'
  <2>1. cache.blocks[key].slots \in Seq(Slots)
    BY <1>1, BlockFacts
  <2>2. pool'.borrowed = pool.borrowed
    BY <1>1, <1>4, <2>1, ReleaseFacts DEF EvictOne
  <2> QED
    BY <2>2 DEF Unborrowed
<1>5. ASSUME NEW id \in SeqIds, NEW n \in 1 .. MaxSeq, Forward(id, n) PROVE Unborrowed'
  <2>1. n \in Nat
    BY <1>5
  <2>2. pool'.borrowed = pool.borrowed
    BY <1>1, <1>5, <2>1, ExtendFacts DEF Forward
  <2> QED
    BY <2>2 DEF Unborrowed
<1>6. ASSUME NEW id \in SeqIds, Retire(id) PROVE Unborrowed'
  <2>1. id \in pool.live /\ pool.borrowed[id] = 0 /\ SeqLen(pool, id) \in Nat
    BY <1>1, <1>6, PoolFields DEF Retire, Unborrowed
  <2>2. PICK q \in Pools :
          /\ pool' = Free(q, id) /\ q.live = pool.live /\ q.borrowed[id] <= SeqLen(q, id)
          /\ \A other \in SeqIds \ {id} : q.borrowed[other] = pool.borrowed[other]
    <3> DEFINE upto == FullBlocks(text[id]) * BLOCK
    <3>1. CASE ~HadVision(text[id]) /\ upto > 0 /\ CanKeepPrefix(pool, id, upto)
      <4>1. pool' = Free(KeepPrefix(pool, id, upto), id)
        BY <1>6, <3>1 DEF Retire, Drop
      <4>2. upto \in Nat
        <5>1. text[id] \in Seq(Contents)
          BY <1>1 DEF TypeOK
        <5> QED
          BY <5>1, LenProperties, WholeBlocks
      <4>3. upto <= SeqLen(pool, id)
        BY <3>1 DEF CanKeepPrefix
      <4> HIDE DEF upto
      <4>4. KeepPrefix(pool, id, upto).borrowed[id] <= SeqLen(KeepPrefix(pool, id, upto), id)
        BY <1>1, <2>1, <4>2, <4>3, KeepFacts DEF SeqLen
      <4> QED
        BY <1>1, <4>1, <4>2, <4>4, KeepFacts
    <3>2. CASE ~(~HadVision(text[id]) /\ upto > 0 /\ CanKeepPrefix(pool, id, upto))
      <4>1. pool' = Free(pool, id)
        BY <1>6, <3>2 DEF Retire, Drop
      <4> QED
        BY <1>1, <2>1, <4>1
    <3> QED
      BY <3>1, <3>2
  <2>3. /\ pool'.borrowed[id] = 0
        /\ \A other \in SeqIds \ {id} : pool'.borrowed[other] = q.borrowed[other]
    BY <2>1, <2>2, FreeFacts
  <2> QED
    BY <2>2, <2>3 DEF Unborrowed
<1> QED
  BY <1>2, <1>3, <1>4, <1>5, <1>6

(* What a step leaves of it, action by action: first those that gather rows. *)
LEMMA LockKept ==
  ASSUME Locked, Unborrowed', UNCHANGED << follower, known, running >>,
         pool'.live = pool.live, \A id \in SeqIds : SeqLen(pool', id) = SeqLen(pool, id),
         running \in Seq(Runnings),
         (Gathering /\ Gathering') \/ UNCHANGED << phase, plan, at, finished >>
  PROVE  Locked'
<1>1. \A i \in 1 .. Len(running) : SeqLen(pool', running[i].seq) = SeqLen(pool, running[i].seq)
  BY RowNumbers
<1>2. Gathering' = Gathering /\ Followed' = Followed
  BY DEF Gathering, Followed
<1>3. ToCome' = ToCome /\ \A j \in ToCome : plan'[j] = plan[j]
  BY DEF ToCome, Gathering
<1>4. phase' # "fail" /\ phase \in {"forward", "advance"} <=> phase' \in {"forward", "advance"}
  BY DEF Gathering, Locked
<1>5. follower'.at = IF phase' \in {"forward", "advance"} THEN "retired" ELSE "plan"
  BY DEF Gathering, Locked
<1>6. Gathering' => Gathered'
  BY <1>1, <1>2 DEF Locked, Gathered, FirstFree, IsNew
<1>7. ASSUME NEW i \in 1 .. Len(running)', running'[i].seq \in Followed' PROVE Follows(i)'
  BY <1>1, <1>2, <1>3, <1>7 DEF Locked, Follows
<1>8. phase' # "fail" /\ follower' \in Followers' /\ follower'.pool.live = Followed'
  BY <1>2 DEF Locked, Gathering
<1> QED
  BY <1>5, <1>6, <1>7, <1>8 DEF Locked

LEMMA LockReceive ==
  ASSUME SchedInv, Locked, TPReceive, tp
  PROVE  Locked'
<1>1. /\ phase = "recv" /\ phase' = "admit"
      /\ UNCHANGED << pool, running, follower >>
      /\ known' = { running[i].seq : i \in 1 .. Len(running) } /\ known' = pool.live
  BY DEF TPReceive, EngineReceive, Receive, vars, SchedInv, RowsInv
<1>2. Followed = pool.live /\ Followed' = pool.live /\ ~Gathering /\ Gathering'
  BY <1>1 DEF Followed, Gathering, SchedInv, PlanInv
<1>3. ToCome = {} /\ ToCome' = {}
  BY <1>1 DEF ToCome
<1>4. Gathered'
  BY <1>1 DEF Gathered, IsNew
<1>5. Unborrowed'
  BY <1>1 DEF Locked, Unborrowed
<1>6. ASSUME NEW i \in 1 .. Len(running)', running'[i].seq \in Followed' PROVE Follows(i)'
  BY <1>1, <1>2, <1>3, <1>6 DEF Locked, Follows
<1>7. /\ follower' \in Followers' /\ follower'.at = "plan" /\ follower'.pool.live = Followed'
  BY <1>1, <1>2 DEF Locked
<1> QED
  BY <1>1, <1>4, <1>5, <1>6, <1>7 DEF Locked

LEMMA LockStart ==
  ASSUME IInv, IInv', PromptsInv, SchedInv, Locked, NEW seq \in SeqIds, TPStart(seq), Clean'
  PROVE  Locked'
<1>0. PICK n \in Nat : n = Len(running)
  BY LenProperties DEF SchedInv, SchedTypeOK
<1>1. /\ phase = "decide" /\ phase' = "admit" /\ Admit(seq, cand.prompt)
      /\ running' = Append(running, [ seq |-> seq, req |-> cand.req, prompt |-> cand.prompt,
                                      prefilled |-> SeqLen(pool', seq) ])
      /\ UNCHANGED << follower, known >>
  BY DEF TPStart, Start, Granted, Starts
<1>2. SeqLen(pool', seq) = 0
  <2>1. SeqLen(pool', seq) > 0 => slips' # {} \/ ~tp'
    BY DEF TPStart, Slipped
  <2>2. SeqLen(pool', seq) \in Nat
    BY <1>1, PromptsInv, AdmitRow DEF PromptsInv
  <2> QED
    BY <2>1, <2>2 DEF Clean
<1>3. /\ seq \notin pool.live /\ pool'.live = pool.live \cup {seq}
      /\ \A other \in SeqIds \ {seq} : SeqLen(pool', other) = SeqLen(pool, other)
  BY <1>1, AdmitRow DEF PromptsInv, KeepsRow
<1>4. CanAlloc(pool, seq)
  BY <1>1 DEF Admit
<1>5. running \in Seq(Runnings) /\ n \in Nat /\ n = Len(running)
  BY <1>0 DEF SchedInv, SchedTypeOK
<1>6. Len(running') = n + 1 /\ running'[n + 1].seq = seq /\ \A i \in 1 .. n : running'[i] = running[i]
  <2> DEFINE r == [ seq |-> seq, req |-> cand.req, prompt |-> cand.prompt, prefilled |-> SeqLen(pool', seq) ]
  <2>1. r.seq = seq
    OBVIOUS
  <2> HIDE DEF r
  <2>2. running' = Append(running, r)
    BY <1>1 DEF r
  <2> QED
    BY <1>5, <2>1, <2>2, AppendProperties
<1>7. \A i \in 1 .. n + 1 : i \in 1 .. n \/ i = n + 1
  BY <1>5
<1>8. \A i \in 1 .. n : i \in 1 .. n + 1 /\ running[i].seq \in SeqIds /\ running[i].seq \in pool.live /\ running[i].seq # seq
  BY <1>3, <1>5, <1>7, RowNumbers DEF SchedInv, RowsInv
<1>9. Gathering /\ Gathering' /\ Followed = known /\ Followed' = known
  BY <1>1 DEF Gathering, Followed
<1>10. known \subseteq pool.live /\ seq \notin known
  BY <1>3, <1>9 DEF Locked, Gathered
<1>11. Gathered'
  <2>1. known' \subseteq pool'.live
    BY <1>1, <1>3, <1>10
  <2>2. ASSUME NEW i \in 1 .. n + 1, IsNew(running[i])'
        PROVE  FirstFree(i)' /\ SeqLen(pool', running'[i].seq) = 0
    <3>1. CASE i \in 1 .. n
      <4>1. running'[i] = running[i] /\ IsNew(running[i])
        BY <1>1, <1>6, <2>2, <3>1 DEF IsNew
      <4>2. FirstFree(i) /\ SeqLen(pool, running[i].seq) = 0
        BY <1>5, <1>9, <3>1, <4>1 DEF Locked, Gathered
      <4>3. \A j \in 1 .. i - 1 : running'[j] = running[j]
        BY <1>5, <1>6, <3>1
      <4>4. FirstFree(i)'
        BY <1>1, <4>1, <4>2, <4>3 DEF FirstFree, IsNew
      <4> QED
        BY <1>3, <1>8, <3>1, <4>1, <4>2, <4>4
    <3>2. CASE i = n + 1
      <4>1. ASSUME NEW other \in SeqIds, other \notin known,
                   \A j \in 1 .. n : IsNew(running[j]) => running[j].seq # other
            PROVE  seq <= other
        <5>1. other \notin pool.live
          BY <1>5, <4>1 DEF SchedInv, RowsInv, IsNew
        <5> QED
          BY <1>4, <5>1 DEF CanAlloc
      <4>2. n + 1 - 1 = n
        BY <1>5
      <4>3. \A j \in 1 .. n : running'[j] = running[j] /\ (IsNew(running[j])' <=> IsNew(running[j]))
        BY <1>1, <1>6 DEF IsNew
      <4>4. FirstFree(n + 1)'
        BY <1>1, <1>6, <4>1, <4>2, <4>3 DEF FirstFree
      <4> QED
        BY <1>2, <1>6, <3>2, <4>4
    <3> QED
      BY <1>7, <2>2, <3>1, <3>2
  <2> QED
    BY <1>6, <2>1, <2>2 DEF Gathered
<1>12. Unborrowed'
  <2>1. cand.prompt \in Prompts
    BY <1>1 DEF PromptsInv
  <2> QED
    BY <1>1, <1>2, <2>1, BorrowsNothing DEF Locked
<1>13. ASSUME NEW i \in 1 .. n + 1, running'[i].seq \in Followed' PROVE Follows(i)'
  <2>1. i \in 1 .. n
    BY <1>6, <1>7, <1>9, <1>10, <1>13
  <2>2. Follows(i) /\ running'[i] = running[i]
    BY <1>5, <1>6, <1>9, <1>13, <2>1 DEF Locked
  <2>3. SeqLen(pool', running[i].seq) = SeqLen(pool, running[i].seq)
    BY <1>3, <1>8, <2>1
  <2>4. ToCome = {} /\ ToCome' = {}
    BY <1>1 DEF ToCome
  <2> QED
    BY <1>1, <2>2, <2>3, <2>4 DEF Follows
<1>14. follower' \in Followers' /\ follower'.at = "plan" /\ follower'.pool.live = Followed'
  BY <1>1, <1>9 DEF Locked
<1> QED
  BY <1>1, <1>6, <1>11, <1>12, <1>13, <1>14 DEF Locked

(* The first broadcast: the new rows, and the plan. *)
LEMMA LockPlan ==
  ASSUME IInv, SchedInv, Locked, TPPlan, Clean, Clean'
  PROVE  Locked'
<1>1. /\ phase = "drop" /\ phase' \in {"recv", "forward"} /\ at' = 1 /\ plan' = PlanOf
      /\ UNCHANGED << pool, running, finished, known >>
      /\ follower' = IF phase' = "forward" THEN FollowsPlan(follower, plan') ELSE follower
      /\ phase' = "recv" => running = << >>
  <2>1. phase' # "fail"
    BY DEF TPPlan, Slipped, Clean
  <2> QED
    BY <2>1 DEF TPPlan, MakePlan, vars, Clean
<1>2. running \in Seq(Runnings) /\ pool.live = { running[i].seq : i \in 1 .. Len(running) }
  BY DEF SchedInv, SchedTypeOK, RowsInv
<1>3. /\ follower \in Followers /\ follower.at = "plan" /\ follower.pool.live = known
      /\ known \subseteq pool.live /\ Unborrowed
  BY <1>1 DEF Locked, Gathering, Followed, Gathered
<1>4. ~Gathering' /\ Followed' = pool.live /\ Unborrowed'
  BY <1>1, <1>3 DEF Gathering, Followed, Unborrowed
<1>5. CASE phase' = "recv"
  <2>1. Len(running) = 0 /\ \A i : i \notin 1 .. Len(running)
    BY <1>1, <1>5
  <2>2. pool.live = {} /\ known = {}
    BY <1>2, <1>3, <2>1
  <2>3. follower' = follower
    BY <1>1, <1>5
  <2> QED
    BY <1>1, <1>3, <1>4, <1>5, <2>1, <2>2, <2>3 DEF Locked
<1>6. CASE phase' = "forward"
  <2> DEFINE h == AfterNews(follower)
             q == AfterItems(h, PlanOf)
  <2>1. Beside(h)
    BY <1>1, NewsBeside
  <2>2. PlanOf \in Seq(Items) /\ Runnable(h, PlanOf)
    BY <1>1, <1>3, <2>1, PlanRunnable
  <2>3. RunAt(h, PlanOf, q, Len(PlanOf))
    <3>1. h \in Followers /\ h.at # "dead"
      BY <2>1 DEF Beside
    <3> QED
      BY <2>2, <3>1, ItemsFacts
  <2>4. follower' = FollowsPlan(follower, PlanOf)
    BY <1>1, <1>6
  <2>5. follower' = IF q.at = "dead" THEN q ELSE [ q EXCEPT !.at = "retired" ]
    BY <2>4 DEF FollowsPlan
  <2> HIDE DEF h, q
  <2>6. q \in Followers /\ q.at = "plan" /\ q.prompts = h.prompts /\ q.pool.live = pool.live
    BY <2>1, <2>3 DEF RunAt, Beside
  <2>7. follower' = [ q EXCEPT !.at = "retired" ]
    BY <2>5, <2>6
  <2>8. /\ follower' \in Followers /\ follower'.at = "retired"
        /\ follower'.pool = q.pool /\ follower'.prompts = q.prompts
    BY <2>6, <2>7, FollowerStops
  <2>9. Len(PlanOf) \in Nat /\ \A j : j \in ToCome' <=> j \in 1 .. Len(PlanOf)
    <3>1. Len(PlanOf) \in Nat
      BY <2>2, LenProperties
    <3> QED
      BY <1>1, <1>6, <3>1 DEF ToCome
  <2>10. \A j \in 1 .. Len(PlanOf) : PlanOf[j].idx \in 1 .. Len(running)
    <3>1. FreeSlots(pool) \in Nat
      BY PoolFields DEF IInv, TypeOK
    <3> QED
      BY <1>2, <3>1, PlanOfFacts DEF RowItem
  <2>11. ASSUME NEW i \in 1 .. Len(running) PROVE Follows(i)'
    <3>1. running'[i] = running[i] /\ running[i].seq \in SeqIds
      BY <1>1, <1>2, RowNumbers
    <3>2. /\ follower'.prompts[running[i].seq] = running[i].prompt
          /\ SeqLen(h.pool, running[i].seq) = SeqLen(pool, running[i].seq)
      BY <2>1, <2>6, <2>8, <3>1 DEF Beside
    <3>3. ASSUME \A j \in 1 .. Len(PlanOf) : PlanOf[j].idx # i
          PROVE  SeqLen(q.pool, running[i].seq) = SeqLen(pool, running[i].seq)
      <4>1. \A j \in 1 .. Len(PlanOf) : ItsSeq(PlanOf[j]) # running[i].seq
        BY <2>10, <3>3 DEF ItsSeq, SchedInv, RowsInv
      <4> QED
        BY <2>3, <3>1, <3>2, <4>1 DEF RunAt
    <3>4. ASSUME NEW j \in 1 .. Len(PlanOf), PlanOf[j].idx = i
          PROVE  SeqLen(q.pool, running[i].seq) = SeqLen(pool, running[i].seq) + PlanOf[j].len
      <4>1. ItsSeq(PlanOf[j]) = running[i].seq
        BY <3>4 DEF ItsSeq
      <4> QED
        BY <2>3, <3>2, <4>1 DEF RunAt
    <3>5. plan' = PlanOf /\ pool' = pool /\ running' = running /\ follower'.pool = q.pool
      BY <1>1, <2>8
    <3> QED
      BY <2>9, <3>2, <3>3, <3>4, <3>5 DEF Follows
  <2>12. running' = running /\ follower'.pool.live = Followed'
    BY <1>1, <1>4, <2>6, <2>8
  <2> QED
    BY <1>4, <1>6, <2>8, <2>11, <2>12 DEF Locked
<1> QED
  BY <1>1, <1>5, <1>6

(* The pass: rank 0's rows grow to what the follower's are. *)
LEMMA LockForward ==
  ASSUME IInv, IInv', SchedInv, Locked, ForwardItem, UNCHANGED << follower, known >>
  PROVE  Locked'
<1>1. /\ phase = "forward" /\ phase' = "forward" /\ at' = at + 1
      /\ UNCHANGED << running, plan, finished, follower, known >>
      /\ at <= Len(plan) /\ Forward(Row.seq, Item.len)
  BY DEF ForwardItem, Row, Item
<1>2. SchedTypeOK /\ PlanInv /\ RowsInv /\ running \in Seq(Runnings)
  BY DEF SchedInv, SchedTypeOK
<1>3. at \in 1 .. Len(plan) /\ Item.len \in Nat /\ Item.idx \in 1 .. Len(running) /\ Row.seq \in SeqIds
  BY <1>1, <1>2, ItemFacts
<1>4. Item.len \in 1 .. MaxSeq
  BY <1>1 DEF Forward
<1>5. /\ pool'.live = pool.live /\ SeqLen(pool', Row.seq) = SeqLen(pool, Row.seq) + Item.len
      /\ \A other \in SeqIds \ {Row.seq} : SeqLen(pool', other) = SeqLen(pool, other)
  BY <1>1, <1>3, <1>4, ForwardRow DEF KeepsRow
<1>6. ~Gathering' /\ Followed = pool.live /\ Followed' = pool.live
  BY <1>1, <1>5 DEF Gathering, Followed
<1>7. Unborrowed'
  BY <1>1, <1>3, <1>4, BorrowsNothing DEF Locked
<1>8. at \in Nat /\ Len(plan) \in Nat
  BY <1>2, LenProperties DEF SchedTypeOK
<1>9. \A j : j \in ToCome' <=> j \in ToCome /\ j # at
  BY <1>1, <1>8 DEF ToCome
<1>10. at \in ToCome /\ \A j \in ToCome : j \in 1 .. Len(plan)
  BY <1>1, <1>3, <1>8 DEF ToCome
<1>11. ASSUME NEW i \in 1 .. Len(running) PROVE Follows(i)'
  <2>1. running[i].seq \in SeqIds /\ SeqLen(pool, running[i].seq) \in Nat
    BY <1>2, RowNumbers, PoolFields DEF IInv, TypeOK
  <2>2. Follows(i)
    BY <1>2, <1>6 DEF Locked, RowsInv
  <2>3. CASE i = Item.idx
    <3>1. running[i].seq = Row.seq
      BY <2>3 DEF Row
    <3>2. SeqLen(follower.pool, running[i].seq) = SeqLen(pool, running[i].seq) + plan[at].len
      BY <1>10, <2>2, <2>3 DEF Follows, Item
    <3>3. SeqLen(follower.pool, running[i].seq) = SeqLen(pool', running[i].seq)
      BY <1>5, <3>1, <3>2 DEF Item
    <3>4. \A j \in ToCome' : plan[j].idx # i
      BY <1>1, <1>2, <1>3, <1>9, <1>10, <2>3 DEF PlanInv, Item
    <3> QED
      BY <1>1, <2>2, <3>3, <3>4 DEF Follows
  <2>4. CASE i # Item.idx
    <3>1. running[i].seq # Row.seq
      BY <1>2, <1>3, <2>4 DEF RowsInv, Row
    <3>2. SeqLen(pool', running[i].seq) = SeqLen(pool, running[i].seq)
      BY <1>5, <2>1, <3>1
    <3>3. (\A j \in ToCome' : plan[j].idx # i) => \A j \in ToCome : plan[j].idx # i
      BY <1>9, <2>4 DEF Item
    <3> QED
      BY <1>1, <1>9, <2>2, <3>2, <3>3 DEF Follows
  <2> QED
    BY <2>3, <2>4
<1>12. follower' \in Followers' /\ follower'.at = "retired" /\ follower'.pool.live = Followed'
  BY <1>1, <1>6 DEF Locked
<1> QED
  BY <1>1, <1>6, <1>7, <1>11, <1>12 DEF Locked

LEMMA LockForwardDone ==
  ASSUME SchedInv, Locked, ForwardDone, UNCHANGED << follower, known >>
  PROVE  Locked'
<1>1. /\ phase = "forward" /\ phase' = "advance" /\ at > Len(plan)
      /\ UNCHANGED << pool, running, follower, known >>
  BY DEF ForwardDone, vars
<1>2. ToCome = {} /\ ToCome' = {}
  <2>1. at \in Nat /\ Len(plan) \in Nat
    BY LenProperties DEF SchedInv, SchedTypeOK
  <2> QED
    BY <1>1, <2>1 DEF ToCome
<1>3. ~Gathering' /\ Followed = pool.live /\ Followed' = pool.live /\ Unborrowed'
  BY <1>1 DEF Gathering, Followed, Locked, Unborrowed
<1>4. ASSUME NEW i \in 1 .. Len(running)', running'[i].seq \in Followed' PROVE Follows(i)'
  BY <1>1, <1>2, <1>3, <1>4 DEF Locked, Follows
<1>5. follower' \in Followers' /\ follower'.at = "retired" /\ follower'.pool.live = Followed'
  BY <1>1, <1>3 DEF Locked
<1> QED
  BY <1>1, <1>3, <1>4, <1>5 DEF Locked

LEMMA LockAdvance ==
  ASSUME SchedInv, Locked, UNCHANGED << follower, known >>, Advancing, pool' = pool
  PROVE  Locked'
<1>1. /\ phase = "advance" /\ phase' = "advance" /\ SchedTypeOK /\ PlanInv
  BY DEF Advancing, SchedInv
<1>2. /\ Len(running') = Len(running)
      /\ \A i \in 1 .. Len(running) : running'[i].seq = running[i].seq /\ running'[i].prompt = running[i].prompt
  BY <1>1, FedFacts DEF Row
<1>3. ToCome = {} /\ ToCome' = {}
  BY <1>1 DEF ToCome
<1>4. ~Gathering' /\ Followed = pool.live /\ Followed' = pool.live /\ Unborrowed'
  BY <1>1 DEF Gathering, Followed, Locked, Unborrowed
<1>5. ASSUME NEW i \in 1 .. Len(running), running'[i].seq \in Followed' PROVE Follows(i)'
  BY <1>2, <1>3, <1>4, <1>5 DEF Locked, Follows
<1>6. follower' \in Followers' /\ follower'.at = "retired" /\ follower'.pool.live = Followed'
  BY <1>1, <1>4 DEF Locked
<1> QED
  BY <1>1, <1>2, <1>4, <1>5, <1>6 DEF Locked

(* The second broadcast: who retires. The follower frees them at once, rank  *)
(* 0 one after another.                                                      *)
LEMMA LockAdvanceDone ==
  ASSUME SchedInv, Locked, TPAdvanceDone, tp
  PROVE  Locked'
<1>1. /\ phase = "advance" /\ phase' = "retire"
      /\ UNCHANGED << pool, running, finished, known >>
      /\ follower' = [ AfterRetired(follower) EXCEPT !.at = "plan" ]
  BY DEF TPAdvanceDone, AdvanceDone, vars, FollowsRetired
<1>2. running \in Seq(Runnings) /\ RowsInv /\ finished \subseteq 1 .. Len(running)
  BY DEF SchedInv, SchedTypeOK
<1>3. follower \in Followers /\ Followed = pool.live /\ follower.pool.live = pool.live
  BY <1>1 DEF Locked, Followed, Gathering
<1> DEFINE h == AfterRetired(follower)
<1>4. RetiredAt(follower, h, Len(running))
  BY <1>2, <1>3, RetiredFacts
<1>5. h \in Followers
  BY <1>4 DEF RetiredAt
<1> HIDE DEF h
<1>6. /\ follower' \in Followers /\ follower'.at = "plan"
      /\ follower'.pool = h.pool /\ follower'.prompts = h.prompts
  BY <1>1, <1>5, FollowerStops DEF h
<1>7. ~Gathering' /\ Followed' = pool.live \ { running[i].seq : i \in finished } /\ Unborrowed'
  BY <1>1 DEF Gathering, Followed, Locked, Unborrowed
<1>8. h.pool.live = pool.live \ { running[i].seq : i \in finished }
  BY <1>2, <1>3, <1>4 DEF RetiredAt
<1>9. ToCome = {} /\ ToCome' = {}
  BY <1>1 DEF ToCome
<1>10. ASSUME NEW i \in 1 .. Len(running), running[i].seq \in Followed' PROVE Follows(i)'
  <2>1. Follows(i) /\ running[i].seq \in SeqIds
    BY <1>2, <1>3, RowNumbers DEF Locked, RowsInv
  <2>2. \A j \in 1 .. Len(running) : j \in finished => running[j].seq # running[i].seq
    BY <1>7, <1>10
  <2>3. /\ h.prompts[running[i].seq] = follower.prompts[running[i].seq]
        /\ SeqLen(h.pool, running[i].seq) = SeqLen(follower.pool, running[i].seq)
    BY <1>4, <2>1, <2>2 DEF RetiredAt
  <2> QED
    BY <1>1, <1>6, <1>9, <2>1, <2>3 DEF Follows
<1> QED
  BY <1>1, <1>6, <1>7, <1>8, <1>10 DEF Locked

LEMMA LockRetire ==
  ASSUME IInv, IInv', SchedInv, Locked, RetireLast, UNCHANGED << follower, known >>
  PROVE  Locked'
<1> DEFINE idx == Max(finished)
           seq == running[idx].seq
<1>1. /\ phase = "retire" /\ phase' = "retire" /\ finished # {} /\ Retire(seq)
      /\ running' = SwapRemove(running, idx) /\ finished' = finished \ {idx}
  BY DEF RetireLast
<1>2. running \in Seq(Runnings) /\ RowsInv /\ finished \in SUBSET (1 .. Len(running)) /\ Len(running) \in Nat
  BY LenProperties DEF SchedInv, SchedTypeOK
<1>3. idx \in finished /\ \A j \in finished : j <= idx
  BY <1>1, <1>2, LargestRow
<1>4. idx \in 1 .. Len(running) /\ seq \in SeqIds
  BY <1>2, <1>3, RowNumbers
<1>5. finished \subseteq 1 .. idx
  BY <1>2, <1>3
<1> HIDE DEF idx
<1>6. \E m : Leaves(idx, m)
  BY <1>1, <1>2, <1>4, <1>5, SwapLeaves
<1>7. PICK m : Leaves(idx, m)
  BY <1>6
<1>8. /\ pool'.live = pool.live \ {seq}
      /\ \A other \in SeqIds \ {seq} : SeqLen(pool', other) = SeqLen(pool, other)
  BY <1>1, <1>4, RetireFrees DEF FreesRow, KeepsRow
<1>9. Unborrowed'
  BY <1>1, <1>4, BorrowsNothing DEF Locked
<1>10. Len(running') \in Nat /\ Len(running') = Len(running) - 1
  BY <1>2, <1>4, <1>7 DEF Leaves
<1>11. /\ Followed = pool.live \ { running[i].seq : i \in finished }
       /\ Followed' = pool'.live \ { running'[i].seq : i \in finished' }
  BY <1>1 DEF Followed, Gathering
<1>12. \A j \in 1 .. Len(running') :
         /\ m[j] \in 1 .. Len(running) /\ m[j] # idx
         /\ running'[j] = running[m[j]] /\ (j \in finished' <=> m[j] \in finished)
  BY <1>7, <1>10 DEF Leaves
<1>13. finished' \subseteq 1 .. Len(running')
  BY <1>1, <1>2, <1>4, <1>5, SwapLeaves
<1>14. \A k \in finished : k = idx \/ \E j \in finished' : running'[j].seq = running[k].seq
  <2>1. ASSUME NEW k \in finished, k # idx PROVE \E j \in finished' : running'[j].seq = running[k].seq
    <3>1. k \in 1 .. Len(running)
      BY <1>2
    <3>2. PICK j \in 1 .. Len(running) - 1 : m[j] = k
      BY <1>7, <2>1, <3>1 DEF Leaves
    <3> QED
      BY <1>10, <1>12, <2>1, <3>2
  <2> QED
    BY <2>1
<1>15. Followed' = Followed
  <2>1. ASSUME NEW x \in Followed' PROVE x \in Followed
    <3>1. x \in pool.live /\ x # seq /\ \A j \in finished' : running'[j].seq # x
      BY <1>8, <1>11, <2>1
    <3>2. \A k \in finished : running[k].seq # x
      BY <1>14, <3>1
    <3> QED
      BY <1>11, <3>1, <3>2
  <2>2. ASSUME NEW x \in Followed PROVE x \in Followed'
    <3>1. x \in pool.live /\ \A k \in finished : running[k].seq # x
      BY <1>11, <2>2
    <3>2. x # seq /\ \A j \in finished' : running'[j].seq # x
      BY <1>3, <1>12, <1>13, <3>1
    <3> QED
      BY <1>8, <1>11, <3>1, <3>2
  <2> QED
    BY <2>1, <2>2
<1>16. ToCome = {} /\ ToCome' = {}
  BY <1>1 DEF ToCome
<1>17. ASSUME NEW j \in 1 .. Len(running'), running'[j].seq \in Followed' PROVE Follows(j)'
  <2> DEFINE k == m[j]
  <2>1. k \in 1 .. Len(running) /\ k # idx /\ running'[j] = running[k]
    BY <1>12
  <2>2. Follows(k) /\ running[k].seq \in SeqIds
    BY <1>2, <1>15, <1>17, <2>1, RowNumbers DEF Locked
  <2>3. running[k].seq # seq
    BY <1>2, <1>4, <2>1 DEF RowsInv
  <2>4. SeqLen(pool', running[k].seq) = SeqLen(pool, running[k].seq)
    BY <1>8, <2>2, <2>3
  <2> HIDE DEF k
  <2> QED
    BY <1>16, <2>1, <2>2, <2>4 DEF Follows
<1>18. /\ ~Gathering' /\ follower' \in Followers' /\ follower'.at = "plan"
       /\ follower'.pool.live = Followed'
  BY <1>1, <1>15 DEF Locked, Gathering
<1> QED
  BY <1>1, <1>9, <1>17, <1>18 DEF Locked

LEMMA LockStepDone ==
  ASSUME Locked, StepDone, UNCHANGED << follower, known >>
  PROVE  Locked'
<1>1. /\ phase = "retire" /\ phase' = "recv" /\ finished = {}
      /\ UNCHANGED << pool, running, follower, known, finished >>
  BY DEF StepDone, vars, locals
<1>2. ~Gathering' /\ Followed = pool.live /\ Followed' = pool.live /\ Unborrowed'
  BY <1>1 DEF Gathering, Followed, Locked, Unborrowed
<1>3. ToCome = {} /\ ToCome' = {}
  BY <1>1 DEF ToCome
<1>4. ASSUME NEW i \in 1 .. Len(running)', running'[i].seq \in Followed' PROVE Follows(i)'
  BY <1>1, <1>2, <1>3, <1>4 DEF Locked, Follows
<1>5. follower' \in Followers' /\ follower'.at = "plan" /\ follower'.pool.live = Followed'
  BY <1>1, <1>2 DEF Locked
<1> QED
  BY <1>1, <1>2, <1>4, <1>5 DEF Locked

(* The steps no follower hears of, and that do not concern it. *)
LEMMA LockAlone ==
  ASSUME IInv, IInv', SchedInv, Locked, UNCHANGED << follower, known >>,
         \/ EngineClients \/ AdmitNoMore \/ TakeNext \/ EncodeFails \/ EvictTurn \/ EvictDone
         \/ Reject \/ Requeue
         \/ DropOrPass /\ ~(Len(running') < Len(running))
  PROVE  Locked'
<1>1. running \in Seq(Runnings) /\ Len(running) \in Nat
  BY LenProperties DEF SchedInv, SchedTypeOK
<1>2. CASE EngineClients
  <2>1. UNCHANGED << pool, running, phase, plan, at, finished >>
    BY <1>2 DEF EngineClients, EngineCount, EngineSend, Submit, Disconnect, svars, queues, vars, locals
  <2> QED
    BY <1>1, <2>1, LockKept DEF Locked, Unborrowed
<1>3. CASE AdmitNoMore \/ TakeNext \/ EncodeFails \/ EvictDone \/ Reject \/ Requeue
  <2>1. UNCHANGED << pool, running >> /\ Gathering /\ Gathering'
    BY <1>3 DEF AdmitNoMore, TakeNext, EncodeFails, EvictDone, Reject, Requeue, vars, Gathering
  <2> QED
    BY <1>1, <2>1, LockKept DEF Locked, Unborrowed
<1>4. CASE EvictTurn
  <2>1. PICK key \in DOMAIN cache.blocks : EvictOne(key)
    BY <1>4 DEF EvictTurn
  <2>2. pool'.live = pool.live /\ \A id \in SeqIds : SeqLen(pool', id) = SeqLen(pool, id)
    BY <2>1, EvictRows DEF KeepsRow
  <2>3. Unborrowed'
    BY <2>1, BorrowsNothing DEF Locked
  <2>4. running' = running /\ Gathering /\ Gathering'
    BY <1>4 DEF EvictTurn, Gathering
  <2> QED
    BY <1>1, <2>2, <2>3, <2>4, LockKept
<1>5. CASE DropOrPass /\ ~(Len(running') < Len(running))
  <2>1. phase = "drop" /\ phase' = "drop" /\ at <= Len(running) /\ at \in Nat \ {0}
    BY <1>5 DEF DropOrPass, SchedInv, SchedTypeOK
  <2>2. running[at].req \notin gone
    <3>1. ASSUME running[at].req \in gone PROVE FALSE
      <4>1. running' = SwapRemove(running, at)
        BY <1>5, <3>1 DEF DropOrPass
      <4>2. at \in 1 .. Len(running)
        BY <1>1, <2>1
      <4>3. Len(running') = Len(running) - 1
        BY <1>1, <4>1, <4>2, SwapRemoveFacts
      <4> QED
        BY <1>1, <1>5, <4>3
    <3> QED
      BY <3>1
  <2>3. UNCHANGED << pool, running >> /\ Gathering /\ Gathering'
    BY <1>5, <2>1, <2>2 DEF DropOrPass, vars, Gathering
  <2> QED
    BY <1>1, <2>3, LockKept DEF Locked, Unborrowed
<1> QED
  BY <1>2, <1>3, <1>4, <1>5

LEMMA LockStep ==
  ASSUME IInv, PromptsInv, SchedInv, LockInv, [TPNext]_tpvars
  PROVE  LockInv'
<1> SUFFICES ASSUME Clean' PROVE Locked'
  BY DEF LockInv
<1>1. Clean /\ Locked /\ tp
  BY SlipsStay DEF LockInv, Clean
<1>2. IInv' /\ running \in Seq(Runnings)
  BY TPStepInv DEF SchedInv, SchedTypeOK
<1>3. CASE UNCHANGED tpvars
  <2>1. UNCHANGED << pool, running, phase, plan, at, finished, follower, known >>
    BY <1>3 DEF tpvars, evars, svars, vars, locals
  <2> QED
    BY <1>1, <1>2, <2>1, LockKept DEF Locked, Unborrowed
<1>4. CASE Alone /\ (\/ EngineClients \/ AdmitNoMore \/ TakeNext \/ EncodeFails \/ EvictTurn
                     \/ EvictDone \/ Reject \/ Requeue)
  BY <1>1, <1>2, <1>4, LockAlone DEF Alone
<1>5. CASE TPReceive
  BY <1>1, <1>5, LockReceive
<1>6. ASSUME NEW seq \in SeqIds, TPStart(seq) PROVE Locked'
  BY <1>1, <1>2, <1>6, LockStart
<1>7. CASE TPDrop
  <2>1. DropOrPass /\ ~(Len(running') < Len(running)) /\ UNCHANGED << follower, known >>
    BY <1>1, <1>7 DEF TPDrop, Slipped, Clean
  <2> QED
    BY <1>1, <1>2, <2>1, LockAlone
<1>8. CASE RefusePicture \/ TPForwardFails
  BY <1>1, <1>8 DEF RefusePicture, TPForwardFails, Slipped, Clean
<1>9. CASE TPPlan
  BY <1>1, <1>9, LockPlan
<1>10. CASE OutOfStep
  BY <1>1, <1>10 DEF OutOfStep, Locked
<1>11. CASE TPForwardItem
  BY <1>1, <1>2, <1>11, LockForward DEF TPForwardItem, Alone
<1>12. CASE TPForwardDone
  BY <1>1, <1>12, LockForwardDone DEF TPForwardDone, Alone
<1>13. ASSUME Alone,
              \/ AdvancePrompt \/ AdvanceEog
              \/ \E token \in Tokens : AdvanceHungUp(token) \/ AdvanceStop(token) \/ AdvanceToken(token)
       PROVE  Locked'
  <2>1. Advancing /\ pool' = pool
    BY <1>13 DEF AdvancePrompt, AdvanceEog, AdvanceHungUp, AdvanceStop, AdvanceToken, Emit, vars
  <2> QED
    BY <1>1, <1>13, <2>1, LockAdvance DEF Alone
<1>14. CASE TPAdvanceDone
  BY <1>1, <1>14, LockAdvanceDone
<1>15. CASE RetireLast /\ Alone
  BY <1>1, <1>2, <1>15, LockRetire DEF Alone
<1>16. CASE StepDone /\ Alone
  BY <1>1, <1>16, LockStepDone DEF Alone
<1>17. CASE EngineFails
  BY <1>1, <1>17 DEF EngineFails, FailRunning, FailWaiting, Locked
<1> QED
  BY <1>3, <1>4, <1>5, <1>6, <1>7, <1>8, <1>9, <1>10, <1>11, <1>12, <1>13, <1>14, <1>15, <1>16, <1>17
     DEF TPNext, TPWorker

LEMMA LockInit == TPInit => LockInv
<1> SUFFICES ASSUME TPInit PROVE Locked
  BY DEF LockInv
<1>1. /\ phase = "recv" /\ running = << >>
      /\ follower = [ pool |-> pool, prompts |-> [id \in SeqIds |-> << >>], at |-> "plan" ]
  BY DEF TPInit, EngineInit, SchedInit
<1>2. PICK order \in StackOrders : pool = NewPool(order)
  BY DEF TPInit, EngineInit, SchedInit, Init
<1>3. WholePool(pool)
  BY <1>2, WholeNew
<1>4. follower \in Followers
  <2>1. << >> \in Seq(Contents)
    BY EmptySeq
  <2>2. [id \in SeqIds |-> << >>] \in [SeqIds -> Seq(Contents)]
    BY <2>1
  <2> QED
    BY <1>1, <1>3, <2>2 DEF Followers, WholePool
<1>5. Unborrowed
  BY <1>3 DEF Unborrowed, WholePool
<1>6. ~Gathering /\ Followed = pool.live /\ follower.pool = pool /\ follower.at = "plan"
  BY <1>1 DEF Gathering, Followed
<1>7. \A i : i \notin 1 .. Len(running)
  BY <1>1
<1> QED
  BY <1>1, <1>4, <1>5, <1>6, <1>7 DEF Locked

(* Every step a follower is kept in lockstep with rank 0: its own pool gives *)
(* out the row numbers rank 0's did, its rows are as long and have the same  *)
(* prompts, and it gives up on nothing it is told, unless rank 0 did to its  *)
(* rows what no broadcast says.                                              *)
THEOREM FollowersKeepUp == TPSpec => []Lockstep
<1>1. ASSUME SchedInv, LockInv PROVE Lockstep
  <2> SUFFICES ASSUME Clean
               PROVE  /\ follower.at # "dead"
                      /\ phase = "recv" =>
                           /\ follower.at = "plan"
                           /\ follower.pool.live = pool.live
                           /\ \A i \in 1 .. Len(running) :
                                /\ SeqLen(follower.pool, running[i].seq) = SeqLen(pool, running[i].seq)
                                /\ follower.prompts[running[i].seq] = running[i].prompt
    BY DEF Lockstep, Clean
  <2>1. Locked
    BY <1>1 DEF LockInv
  <2>2. follower.at # "dead"
    BY <2>1 DEF Locked
  <2>3. ASSUME phase = "recv"
        PROVE  /\ follower.at = "plan" /\ follower.pool.live = pool.live
               /\ \A i \in 1 .. Len(running) :
                    /\ SeqLen(follower.pool, running[i].seq) = SeqLen(pool, running[i].seq)
                    /\ follower.prompts[running[i].seq] = running[i].prompt
    <3>1. Followed = pool.live /\ ToCome = {}
      BY <2>3 DEF Followed, Gathering, ToCome
    <3>2. \A i \in 1 .. Len(running) : Follows(i)
      BY <1>1, <2>1, <3>1 DEF Locked, SchedInv, RowsInv
    <3> QED
      BY <2>1, <2>3, <3>1, <3>2 DEF Locked, Follows
  <2> QED
    BY <2>2, <2>3
<1>2. IInv /\ PromptsInv /\ SchedInv /\ LockInv /\ [TPNext]_tpvars => LockInv'
  BY LockStep
<1> QED
  BY TPScheduled, LockInit, <1>1, <1>2, PTL DEF TPSpec
=============================================================================

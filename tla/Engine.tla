------------------------------- MODULE Engine -------------------------------
(***************************************************************************)
(* The gauges the engine keeps beside the scheduler, of                    *)
(* crates/server/src/engine.rs: `in_flight`, which submit counts up before *)
(* it sends the request, and the worker overwrites after each step with    *)
(* what the scheduler holds, and `served`, what left the scheduler from    *)
(* one step to the next. Handlers and worker write `in_flight` without a   *)
(* lock.                                                                   *)
(***************************************************************************)
EXTENDS Scheduler

VARIABLES
  in_flight,  \* Engine::in_flight
  served,     \* Engine::served
  before,     \* run_inner's before, and its n for a step that failed
  counting    \* handlers in submit that have counted and not sent yet

gauges == << in_flight, served, before, counting >>
evars == << svars, gauges >>

InFlight == Len(running) + Len(waiting)

EngineInit == SchedInit /\ in_flight = 0 /\ served = 0 /\ before = 0 /\ counting = 0

(* submit is two statements of a handler, and the worker does not wait.    *)
EngineCount ==
  /\ sent + counting < NumRequests
  /\ in_flight' = in_flight + 1 /\ counting' = counting + 1
  /\ UNCHANGED << svars, served, before >>
EngineSend ==
  /\ counting > 0 /\ counting' = counting - 1
  /\ Submit
  /\ UNCHANGED << in_flight, served, before >>

EngineReceive == Receive /\ before' = InFlight' /\ UNCHANGED << in_flight, served, counting >>

Served(held, left) == served + (IF held > left THEN held - left ELSE 0)

(* After a step: once the scheduler is back to run_inner. *)
StepCounted ==
  IF phase' = "recv" /\ phase # "fail"
  THEN /\ in_flight' = InFlight' /\ served' = Served(before, InFlight') /\ before' = 0
       /\ UNCHANGED counting
  ELSE IF phase' = "fail" /\ phase # "fail"
  THEN before' = InFlight' /\ UNCHANGED << in_flight, served, counting >>
  ELSE UNCHANGED gauges

(* Mutant of AllFailed: the gauge keeps what it had. *)
AllFailedUnset ==
  IF phase' = "recv" THEN served' = served + before /\ before' = 0 /\ UNCHANGED << in_flight, counting >>
                     ELSE UNCHANGED gauges
(* After fail_all. *)
AllFailed ==
  IF phase' = "recv" THEN in_flight' = 0 /\ served' = served + before /\ before' = 0 /\ UNCHANGED counting
                     ELSE UNCHANGED gauges

(* The worker's other actions, and clients that leave. *)
EngineClients == EngineCount \/ EngineSend \/ (\E r \in Requests : Disconnect(r) /\ UNCHANGED gauges)
EngineFails == (FailRunning \/ FailWaiting) /\ AllFailed

-----------------------------------------------------------------------------
Finished == { r \in 1 .. sent : ~Queued(r) /\ \A i \in 1 .. Len(running) : running[i].req # r }

(* The worker overwrites what submit counted, and submit counts what the     *)
(* worker has not seen, but neither lasts: between steps in_flight counts    *)
(* all that the scheduler holds, and beyond that only requests on their way  *)
(* to it, sent or about to be. It counts no request twice. And `served` has  *)
(* counted no request that is still on its way, and, unless some request     *)
(* failed, every one that is not.                                            *)
GaugesSettle ==
  /\ in_flight \in 0 .. sent + counting
  /\ phase = "recv" =>
       /\ in_flight \in InFlight .. InFlight + Len(jobs) + counting
       /\ served <= Cardinality(Finished)
       /\ (\A r \in Requests : answer[r] # "failed") => served = Cardinality(Finished)

=============================================================================

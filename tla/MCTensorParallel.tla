-------------------------- MODULE MCTensorParallel --------------------------
(***************************************************************************)
(* The instance of MCScheduler, with the gauges and a follower beside it:  *)
(* two requests of any kind; or, without followers, three that share       *)
(* blocks, and then no client leaves and no device fails. Slots are        *)
(* interchangeable: the free stack starts in some order.                   *)
(***************************************************************************)
EXTENDS MCScheduler, TensorParallel

MCAllAsks == MCAsks \cup MCSharedAsks
NoAsk == CHOOSE a \in MCSharedAsks : TRUE

Three == ~tp /\ \A r \in Requests : ask[r] \in MCSharedAsks
MCInit ==
  /\ pool = NewPool(CHOOSE order \in StackOrders : TRUE)
  /\ TPInit
  /\ Three \/ (ask[1] \in MCAsks /\ ask[2] \in MCAsks /\ ask[3] = NoAsk)
MCNext ==
  /\ TPNext
  /\ IF Three THEN gone' = {} /\ faults' = 0 ELSE sent' + counting' <= 2
MCSpec == MCInit /\ [][MCNext]_tpvars /\ WF_tpvars(TPWorker)

TPView ==
  << View, gauges, tp, known, slips, follower.at, follower.prompts, follower.pool.live,
     [ id \in SeqIds |-> SeqLen(follower.pool, id) ] >>
=============================================================================

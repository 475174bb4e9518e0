-------------------------- MODULE MCAttachFailure --------------------------
(***************************************************************************)
(* AttachFailure on the pool of MCScheduler, with one kind of request: the *)
(* second one to come finds the first one's block.                         *)
(***************************************************************************)
EXTENDS AttachFailure

MCTokens == { 0, 1 }
MCAsks == { [ prompt |-> << 0, 0, 1 >>, max_tokens |-> 2 ] }
MCPrompts == { << 0, 0, 1 >> }
=============================================================================

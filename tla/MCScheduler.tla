---------------------------- MODULE MCScheduler ----------------------------
(***************************************************************************)
(* Scheduler with six slots, two rows and a forward pass of two rows. Two  *)
(* kinds of request share a first block, and one of them fills the pool by *)
(* itself, so that prompts are chunked, requeued and refused, and blocks   *)
(* are hit and evicted; one is short enough to finish in the same step as  *)
(* another; one carries a picture. Two requests of any kind are enough for *)
(* all but a queue behind two rows: for that MCTensorParallel takes three, *)
(* of the first two kinds or a picture alone.                              *)
(***************************************************************************)
EXTENDS Scheduler

CONSTANT img

MCImages == { img }
MCTokens == { 0, 1 }
MCAsks == { [ prompt |-> << 0, 0, 1 >>, max_tokens |-> 2 ],
            [ prompt |-> << 0, 0, 1, 1, 1 >>, max_tokens |-> 1 ],
            [ prompt |-> << 1 >>, max_tokens |-> 2 ],
            [ prompt |-> << img, 1 >>, max_tokens |-> 3 ] }
MCSharedAsks ==
  { a \in MCAsks : a.prompt[1] = 0 } \cup { [ prompt |-> << img >>, max_tokens |-> 1 ] }
MCPrompts ==
  LET prompts == { a.prompt : a \in MCAsks \cup MCSharedAsks }
  IN  prompts \cup { Ids(prompt) : prompt \in prompts }

(* The worker never looks at which slots it has, only at how many: states    *)
(* that differ in their names are one. What is told apart is the KV that     *)
(* rows and blocks hold, and how many slots they and the free stack name.    *)
SlotsNamed ==
  ToSet(pool.free) \cup UNION { ToSet(pool.slots[id]) : id \in SeqIds }
    \cup UNION { ToSet(cache.blocks[k].slots) : k \in DOMAIN cache.blocks }
View ==
  << FreeSlots(pool), Cardinality(SlotsNamed), pool.live, pool.borrowed,
     [ id \in SeqIds |-> [ pos \in 1 .. SeqLen(pool, id) |-> kv[pool.slots[id][pos]] ] ],
     [ k \in DOMAIN cache.blocks |-> << cache.blocks[k].refs, cache.blocks[k].last_used,
                                       [ j \in 1 .. BLOCK |-> kv[cache.blocks[k].slots[j]] ] >> ],
     cache.tick, lease, text, queues, running, phase, locals, faults >>
=============================================================================

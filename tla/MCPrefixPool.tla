---------------------------- MODULE MCPrefixPool ----------------------------
(***************************************************************************)
(* PrefixPool on five slots, two rows and two-token blocks. The prompts    *)
(* share a first block, share only the content of a block at another       *)
(* place, or carry a picture whose placeholders are the ids of another.     *)
(***************************************************************************)
EXTENDS PrefixPool

CONSTANT img

MCImages == { img }
MCTokens == { 0, 1 }
MCPrompts == { << 0, 0, 1 >>, << 0, 0 >>, << img, img, 1 >> }

(* Slots are interchangeable. *)
SlotSymmetry == Permutations(Slots)

(* A free slot still holds the KV of its last owner; nothing reads it before *)
(* the next owner has written it, so states that differ only there are one.  *)
UsedKv == [ s \in Slots |-> IF s \in ToSet(pool.free) THEN << >> ELSE kv[s] ]
View == << pool, cache, lease, text, UsedKv >>
=============================================================================

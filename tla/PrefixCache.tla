---------------------------- MODULE PrefixCache ----------------------------
(***************************************************************************)
(* The prefix cache of crates/server/src/prefix.rs: finished sequences     *)
(* leave the KV of their full blocks behind, and later prompts that start  *)
(* with the same tokens borrow it.                                         *)
(*                                                                         *)
(* A block is keyed by a hash chained over every block before it. The key  *)
(* is modelled as what the chain identifies, the token prefix that ends    *)
(* with the block: two blocks collide here exactly when their prefixes are *)
(* equal (a 64-bit collision is out of scope, as the source says).         *)
(*                                                                         *)
(* Like KvPool, the module holds no state: an operator per method, from a  *)
(* cache value to a cache value. The lookup statistics are left out.       *)
(***************************************************************************)
EXTENDS KvPool

CONSTANTS
  BLOCK,   \* tokens per cached block
  Tokens   \* token ids

ASSUME BlockSize == BLOCK \in Nat \ {0}

Keys == Seq(Tokens)
Entries == [slots : Seq(Slots), refs : Nat, last_used : Nat]

(* PrefixCache::{blocks, tick}. *)
NewCache == [blocks |-> << >>, tick |-> 0]

(* The chained hash of block i, and the hashes of all the full blocks. *)
KeyOf(tokens, i) == SubSeq(tokens, 1, i * BLOCK)
FullBlocks(tokens) == Len(tokens) \div BLOCK
KeysOf(tokens) == { KeyOf(tokens, i) : i \in 1 .. FullBlocks(tokens) }

-----------------------------------------------------------------------------
(* lookup's loop stops after n blocks: all n are cached and within `limit` *)
(* tokens, and the next one is past the end, past the limit or missing.    *)
Longest(c, tokens, limit, n) ==
  /\ n * BLOCK <= limit
  /\ \A i \in 1 .. n : KeyOf(tokens, i) \in DOMAIN c.blocks
  /\ n < FullBlocks(tokens) /\ (n + 1) * BLOCK <= limit
       => KeyOf(tokens, n + 1) \notin DOMAIN c.blocks

(* The keys and the slots of the Prefix it returns for those n blocks... *)
HitKeys(tokens, n) == { KeyOf(tokens, i) : i \in 1 .. n }
HitSlots(c, tokens, n) ==
  [ pos \in 1 .. n * BLOCK |->
      c.blocks[KeyOf(tokens, ((pos - 1) \div BLOCK) + 1)].slots[((pos - 1) % BLOCK) + 1] ]

(* ... and the cache after it: the blocks hit are warm and have one more reader. *)
Lookup(c, hit) ==
  [ tick   |-> c.tick + 1,
    blocks |-> [ k \in DOMAIN c.blocks |->
                   IF k \in hit
                   THEN [ c.blocks[k] EXCEPT !.refs = @ + 1, !.last_used = c.tick + 1 ]
                   ELSE c.blocks[k] ] ]

(* release: gives back the references of a Prefix (saturating_sub). *)
Release(c, keys) ==
  [ tick   |-> c.tick,
    blocks |-> [ k \in DOMAIN c.blocks |->
                   IF k \in keys /\ c.blocks[k].refs > 0
                   THEN [ c.blocks[k] EXCEPT !.refs = @ - 1 ]
                   ELSE c.blocks[k] ] ]

(* Mutant of NewEntry: every block gets the first slots that were kept. *)
FirstSlots(kept, key, now) ==
  [ slots |-> SubSeq(kept, 1, BLOCK), refs |-> 0, last_used |-> now ]

(* insert, once keep_prefix has returned the slots `kept`: a key already    *)
(* present keeps its old slots, and every block of the prefix is warm.     *)
NewEntry(kept, key, now) ==
  [ slots |-> SubSeq(kept, Len(key) - BLOCK + 1, Len(key)), refs |-> 0, last_used |-> now ]
Insert(c, kept, tokens) ==
  [ tick   |-> c.tick + 1,
    blocks |-> [ k \in DOMAIN c.blocks \cup KeysOf(tokens) |->
                   IF k \notin DOMAIN c.blocks
                   THEN NewEntry(kept, k, c.tick + 1)
                   ELSE IF k \in KeysOf(tokens)
                        THEN [ c.blocks[k] EXCEPT !.last_used = c.tick + 1 ]
                        ELSE c.blocks[k] ] ]

(* Mutant of Cold: eviction does not look at refs. *)
AnyBlock(c) == DOMAIN c.blocks

(* evict_for's victims: of the blocks nobody reads, one of the coldest. *)
Cold(c) == { k \in DOMAIN c.blocks : c.blocks[k].refs = 0 }
Victims(c) ==
  { k \in Cold(c) : \A other \in Cold(c) : c.blocks[k].last_used <= c.blocks[other].last_used }
Evict(c, key) ==
  [ tick |-> c.tick, blocks |-> [ k \in DOMAIN c.blocks \ {key} |-> c.blocks[k] ] ]

=============================================================================

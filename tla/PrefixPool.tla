----------------------------- MODULE PrefixPool -----------------------------
(***************************************************************************)
(* The pool and the prefix cache as the scheduler's worker thread uses     *)
(* them (crates/server/src/scheduler.rs: admit, step, advance, retire,     *)
(* fail_all): who owns each slot, who reads it, and whose keys and values  *)
(* it holds.                                                               *)
(*                                                                         *)
(* A running row has a text, its prompt followed by what it generated. The *)
(* forward pass computes the KV of the next tokens of the text, and the KV *)
(* at a position depends on the whole text up to it: `kv` records, for     *)
(* each slot, the text prefix whose last token was computed there. It is   *)
(* what the device memory holds, not something the program can inspect.    *)
(*                                                                         *)
(* An image is spliced into a prompt as placeholder tokens. The KV depends *)
(* on the picture; the ids the cache hashes do not.                        *)
(***************************************************************************)
EXTENDS PrefixCache

CONSTANTS
  Images,    \* pictures; one content element per placeholder position
  Pad,       \* the placeholder token id every picture is hashed as
  Prompts,   \* the prompts requests may bring
  MaxTick    \* bound on the cache's clock

Contents == Tokens \cup Images
ASSUME TextIsTokens ==
  /\ Pad \in Tokens
  /\ Images \cap Tokens = {}
  /\ Prompts \subseteq Seq(Contents)
  /\ MaxTick \in Nat

VARIABLES
  pool,    \* KvPool
  cache,   \* PrefixCache
  lease,   \* SeqIds -> the keys of Running::prefix
  text,    \* SeqIds -> Running::{prompt, generated}
  kv       \* Slots -> the text whose KV the slot holds

vars == << pool, cache, lease, text, kv >>

HadVision(t) == \E i \in 1 .. Len(t) : t[i] \in Images
Ids(t) == [ i \in 1 .. Len(t) |-> IF t[i] \in Images THEN Pad ELSE t[i] ]

Init ==
  /\ \E order \in StackOrders : pool = NewPool(order)
  /\ cache = NewCache
  /\ lease = [id \in SeqIds |-> {}]
  /\ text = [id \in SeqIds |-> << >>]
  /\ kv = [s \in Slots |-> << >>]

-----------------------------------------------------------------------------
(* admit, once a prompt fits: claim a row and borrow whatever of the prompt *)
(* is cached, short of its last token. A picture's prompt looks nothing up. *)
Admit(id, prompt) ==
  /\ CanAlloc(pool, id)
  /\ Len(prompt) + 1 <= MaxSeq
  /\ cache.tick < MaxTick
  /\ text' = [text EXCEPT ![id] = prompt]
  /\ IF HadVision(prompt)
     THEN /\ pool' = Alloc(pool, id)
          /\ UNCHANGED << cache, lease >>
     ELSE \E n \in 0 .. FullBlocks(prompt) :
            /\ Longest(cache, Ids(prompt), Len(prompt) - 1, n)
            /\ cache' = Lookup(cache, HitKeys(Ids(prompt), n))
            /\ pool' = AttachPrefix(Alloc(pool, id), id, HitSlots(cache, Ids(prompt), n))
            /\ lease' = [lease EXCEPT ![id] = HitKeys(Ids(prompt), n)]
  /\ UNCHANGED kv

(* evict_for, one turn of its loop. *)
EvictOne(key) ==
  /\ key \in Victims(cache)
  /\ pool' = ReleaseSlots(pool, cache.blocks[key].slots)
  /\ cache' = Evict(cache, key)
  /\ UNCHANGED << lease, text, kv >>

(* forward_batch_rows, for one item: n slots, and the KV of n tokens in them. *)
Forward(id, n) ==
  /\ n \in 1 .. MaxSeq
  /\ SeqLen(pool, id) + n <= Len(text[id])
  /\ CanExtend(pool, id, n)
  /\ pool' = Extend(pool, id, n)
  /\ kv' = [ s \in Slots |->
               IF \E i \in 1 .. n : s = Popped(pool, n)[i]
               THEN LET i == CHOOSE j \in 1 .. n : s = Popped(pool, n)[j]
                    IN  SubSeq(text[id], 1, SeqLen(pool, id) + i)
               ELSE kv[s] ]
  /\ UNCHANGED << cache, lease, text >>

(* advance_token keeps a sampled token: the text is one longer than its KV. *)
Emit(id, token) ==
  /\ id \in pool.live
  /\ SeqLen(pool, id) = Len(text[id])
  /\ Len(text[id]) < MaxSeq
  /\ text' = [text EXCEPT ![id] = Append(@, token)]
  /\ UNCHANGED << pool, cache, lease, kv >>

(* The row is gone: its slots go back, except those it does not own. *)
Drop(p, id) ==
  /\ pool' = Free(p, id)
  /\ lease' = [lease EXCEPT ![id] = {}]
  /\ text' = [text EXCEPT ![id] = << >>]
  /\ UNCHANGED kv

(* retire: release the lease, offer the full blocks to the cache, free the  *)
(* rest. keep_prefix refuses a text longer than the KV computed for it, and *)
(* the refusal is only logged. A picture's blocks are never offered.        *)
Retire(id) ==
  LET released == Release(cache, lease[id])
      upto == FullBlocks(text[id]) * BLOCK
  IN  /\ id \in pool.live
      /\ cache.tick < MaxTick
      /\ IF ~HadVision(text[id]) /\ upto > 0 /\ CanKeepPrefix(pool, id, upto)
         THEN /\ cache' = Insert(released, SubSeq(pool.slots[id], 1, upto), Ids(text[id]))
              /\ Drop(KeepPrefix(pool, id, upto), id)
         ELSE /\ cache' = released
              /\ Drop(pool, id)

(* fail_all, for one row: freed, and neither released nor cached. *)
Fail(id) ==
  /\ id \in pool.live
  /\ Drop(pool, id)
  /\ UNCHANGED cache

Next ==
  \/ \E id \in SeqIds, prompt \in Prompts : Admit(id, prompt)
  \/ \E key \in DOMAIN cache.blocks : EvictOne(key)
  \/ \E id \in SeqIds, n \in 1 .. MaxSeq : Forward(id, n)
  \/ \E id \in SeqIds, token \in Tokens : Emit(id, token)
  \/ \E id \in SeqIds : Retire(id)
  \/ \E id \in SeqIds : Fail(id)

Spec == Init /\ [][Next]_vars

-----------------------------------------------------------------------------
(* The values the state may take. *)
TypeOK ==
  /\ pool \in Pools
  /\ \A id \in SeqIds :
       /\ pool.borrowed[id] <= SeqLen(pool, id)
       /\ SeqLen(pool, id) <= Len(text[id])
       /\ id \notin pool.live => text[id] = << >>
  /\ DOMAIN cache.blocks \subseteq Keys
  /\ \A k \in DOMAIN cache.blocks :
       /\ cache.blocks[k] \in Entries
       /\ Len(cache.blocks[k].slots) = BLOCK
       /\ Len(k) >= BLOCK
  /\ cache.tick \in Nat
  /\ lease \in [SeqIds -> SUBSET Keys]
  /\ text \in [SeqIds -> Seq(Contents)]
  /\ kv \in [Slots -> Seq(Contents)]

OwnedPos(id) == pool.borrowed[id] + 1 .. SeqLen(pool, id)

(* A slot has one owner: it is on the free stack once, or owned by one row   *)
(* at one position, or held by one cached block at one place. Freeing a      *)
(* borrowed slot, caching a block twice or evicting a kept one breaks it,    *)
(* and two requests then write over each other's keys.                       *)
FreeOnce == \A i, j \in 1 .. FreeSlots(pool) : pool.free[i] = pool.free[j] => i = j
FreeOrOwned ==
  \A i \in 1 .. FreeSlots(pool), id \in SeqIds : \A pos \in OwnedPos(id) :
    pool.free[i] # pool.slots[id][pos]
FreeOrCached ==
  \A i \in 1 .. FreeSlots(pool), k \in DOMAIN cache.blocks, j \in 1 .. BLOCK :
    pool.free[i] # cache.blocks[k].slots[j]
OwnedOnce ==
  \A a, b \in SeqIds : \A p \in OwnedPos(a), q \in OwnedPos(b) :
    pool.slots[a][p] = pool.slots[b][q] => a = b /\ p = q
OwnedOrCached ==
  \A id \in SeqIds, k \in DOMAIN cache.blocks : \A pos \in OwnedPos(id), j \in 1 .. BLOCK :
    pool.slots[id][pos] # cache.blocks[k].slots[j]
CachedOnce ==
  \A k, l \in DOMAIN cache.blocks : \A i, j \in 1 .. BLOCK :
    cache.blocks[k].slots[i] = cache.blocks[l].slots[j] => k = l /\ i = j
OneOwner ==
  /\ FreeOnce
  /\ FreeOrOwned
  /\ FreeOrCached
  /\ OwnedOnce
  /\ OwnedOrCached
  /\ CachedOnce

(* The rows reading a block. *)
Readers(k) == { id \in SeqIds : k \in lease[id] }

(* A row's lease names the first blocks of its text, those it borrows. *)
LeaseIsPrefix(id) ==
  \E n \in 0 .. Len(text[id]) :
    /\ pool.borrowed[id] = n * BLOCK
    /\ n * BLOCK <= Len(text[id])
    /\ lease[id] = HitKeys(text[id], n)

(* Every slot a row borrows is a slot of a cached block it has leased, and   *)
(* the block counts at least as many references as it has readers: eviction, *)
(* which looks only at the count, cannot take a block from under a row.      *)
BorrowsFromLease(id) ==
  \A pos \in 1 .. pool.borrowed[id] : \E k \in lease[id] : \E j \in 1 .. BLOCK :
    pool.slots[id][pos] = cache.blocks[k].slots[j]
LeasesHold ==
  /\ \A id \in SeqIds : lease[id] \subseteq DOMAIN cache.blocks
  /\ \A id \in SeqIds : LeaseIsPrefix(id) /\ BorrowsFromLease(id)
  /\ \A k \in DOMAIN cache.blocks : cache.blocks[k].refs >= Cardinality(Readers(k))

(* A cached block holds the KV of exactly the prefix it is keyed by. *)
CacheServesItsKey ==
  \A k \in DOMAIN cache.blocks, j \in 1 .. BLOCK :
    kv[cache.blocks[k].slots[j]] = SubSeq(k, 1, Len(k) - BLOCK + j)

(* What attention reads for a row at a position is the KV of that row's own  *)
(* text up to that position, whether the row computed it, borrowed it from   *)
(* another request, or runs beside rows that are freed, evicted and reused.  *)
ReadsOwnKv ==
  \A id \in SeqIds : \A pos \in 1 .. SeqLen(pool, id) :
    kv[pool.slots[id][pos]] = SubSeq(text[id], 1, pos)

(* Every slot is free, owned by a row, or held by the cache.                 *)
(* prefix.rs: insert "takes ownership of the slots it keeps".                *)
EverySlotAccounted ==
  \A s \in Slots :
    \/ \E i \in 1 .. FreeSlots(pool) : pool.free[i] = s
    \/ \E id \in SeqIds : \E pos \in OwnedPos(id) : pool.slots[id][pos] = s
    \/ \E k \in DOMAIN cache.blocks : \E j \in 1 .. BLOCK : cache.blocks[k].slots[j] = s

(* prefix.rs, Entry::refs: "How many live sequences currently borrow this    *)
(* block". A row that fails does not give its references back; those are     *)
(* lost for good, and the block with them: it is never evicted again, and no *)
(* later release makes up for them.                                         *)
Lost(k) == cache.blocks[k].refs - Cardinality(Readers(k))
PinnedForGood ==
  [][\A k \in DOMAIN cache.blocks :
       Lost(k) > 0 => k \in DOMAIN cache'.blocks /\ Lost(k)' >= Lost(k)]_vars

=============================================================================

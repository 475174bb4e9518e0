------------------------- MODULE PrefixPool_proofs -------------------------
(***************************************************************************)
(* The safety of PrefixPool for every pool, block size, prompt and number  *)
(* of rows. The invariants the model checker checks are inductive only     *)
(* together:                                                               *)
(*                                                                         *)
(*   - a slot stays with one owner because a retired row keeps for the     *)
(*     cache only blocks past its lease, whose slots it owns;              *)
(*   - a lease outlives its row's reads because eviction takes only blocks *)
(*     without references, and references are never fewer than readers;    *)
(*   - a row reads its own KV because the slots it owns are written by it  *)
(*     alone, and those it borrows hold what their key says.               *)
(***************************************************************************)
EXTENDS PrefixPool, KvPool_proofs, FiniteSetTheorems

IInv ==
  /\ TypeOK
  /\ OneOwner
  /\ LeasesHold
  /\ CacheServesItsKey
  /\ ReadsOwnKv

-----------------------------------------------------------------------------
(* What TypeOK says of one row and of one block. *)
LEMMA RowFacts ==
  ASSUME TypeOK, NEW id \in SeqIds
  PROVE  /\ pool.slots[id] \in Seq(Slots) /\ SeqLen(pool, id) \in Nat
         /\ pool.borrowed[id] \in Nat /\ pool.borrowed[id] <= SeqLen(pool, id)
         /\ text[id] \in Seq(Contents) /\ Len(text[id]) \in Nat
         /\ SeqLen(pool, id) <= Len(text[id])
         /\ FreeSlots(pool) \in Nat
<1>1. pool \in Pools
  BY DEF TypeOK
<1>2. pool.slots[id] \in Seq(Slots) /\ SeqLen(pool, id) \in Nat /\ FreeSlots(pool) \in Nat
  BY <1>1, PoolFields
<1>3. pool.borrowed[id] \in Nat
  BY <1>1, PoolFields
<1>4. text[id] \in Seq(Contents) /\ Len(text[id]) \in Nat
  BY LenProperties DEF TypeOK
<1> QED
  BY <1>2, <1>3, <1>4 DEF TypeOK

LEMMA BlockFacts ==
  ASSUME TypeOK, NEW k \in DOMAIN cache.blocks
  PROVE  /\ cache.blocks[k].slots \in Seq(Slots)
         /\ Len(cache.blocks[k].slots) = BLOCK
         /\ cache.blocks[k].refs \in Nat
         /\ k \in Seq(Tokens) /\ Len(k) \in Nat /\ Len(k) >= BLOCK
         /\ \A j \in 1 .. BLOCK : cache.blocks[k].slots[j] \in Slots
<1>1. /\ cache.blocks[k].slots \in Seq(Slots)
      /\ Len(cache.blocks[k].slots) = BLOCK
      /\ cache.blocks[k].refs \in Nat
      /\ k \in Seq(Tokens) /\ Len(k) >= BLOCK
  BY DEF TypeOK, Entries, Keys
<1>2. Len(k) \in Nat
  BY <1>1, LenProperties
<1>3. \A j \in 1 .. BLOCK : cache.blocks[k].slots[j] \in Slots
  BY <1>1, ElementOfSeq
<1> QED
  BY <1>1, <1>2, <1>3

(* A row that does not exist has nothing. *)
LEMMA DeadRow ==
  ASSUME IInv, NEW id \in SeqIds \ pool.live
  PROVE  /\ text[id] = << >> /\ SeqLen(pool, id) = 0 /\ pool.borrowed[id] = 0
         /\ lease[id] = {}
<1>1. text[id] = << >> /\ Len(text[id]) = 0
  BY DEF IInv, TypeOK
<1>2. SeqLen(pool, id) = 0 /\ pool.borrowed[id] = 0
  BY <1>1, RowFacts DEF IInv
<1>3. PICK n \in 0 .. Len(text[id]) : lease[id] = HitKeys(text[id], n)
  BY DEF IInv, LeasesHold, LeaseIsPrefix
<1>4. n = 0
  BY <1>1, <1>3
<1> QED
  BY <1>1, <1>2, <1>3, <1>4 DEF HitKeys

(* A prefix of a text is a prefix of the text with one more token. *)
LEMMA PrefixOfAppend ==
  ASSUME NEW S, NEW t \in Seq(S), NEW x \in S, NEW m \in 0 .. Len(t)
  PROVE  SubSeq(Append(t, x), 1, m) = SubSeq(t, 1, m)
OBVIOUS

(* The number of readers of a block. *)
LEMMA ReadersFinite ==
  ASSUME NEW k
  PROVE  /\ IsFiniteSet(Readers(k)) /\ Cardinality(Readers(k)) \in Nat
         /\ Cardinality(Readers(k)) = 0 <=> Readers(k) = {}
<1>1. IsFiniteSet(SeqIds)
  BY PoolSizes, FS_Interval DEF SeqIds
<1>2. IsFiniteSet(Readers(k))
  BY <1>1, FS_Subset DEF Readers
<1> QED
  BY <1>2, FS_CardinalityType, FS_EmptySet

-----------------------------------------------------------------------------
LEMMA InitInv == Init => IInv
<1> SUFFICES ASSUME Init PROVE IInv
  OBVIOUS
<1>1. PICK order \in StackOrders : pool = NewPool(order)
  BY DEF Init
<1>2. /\ order \in [1 .. Cardinality(Slots) -> Slots] /\ IsInjective(order)
      /\ Cardinality(Slots) \in Nat
  BY <1>1, PoolSizes, FS_CardinalityType DEF StackOrders
<1>3. order \in Seq(Slots) /\ Len(order) = Cardinality(Slots)
  BY <1>2
<1>4. << >> \in Seq(Slots) /\ << >> \in Seq(Contents) /\ Len(<< >>) = 0
  OBVIOUS
<1>5. /\ pool \in Pools /\ pool.free = order /\ pool.live = {}
      /\ \A id \in SeqIds : pool.slots[id] = << >> /\ pool.borrowed[id] = 0
  BY <1>1, <1>3, <1>4 DEF NewPool, Pools
<1>6. cache.blocks = << >> /\ cache.tick = 0 /\ DOMAIN cache.blocks = {}
  BY DEF Init, NewCache
<1>7. /\ \A id \in SeqIds : lease[id] = {} /\ text[id] = << >> /\ SeqLen(pool, id) = 0
      /\ lease \in [SeqIds -> SUBSET Keys] /\ text \in [SeqIds -> Seq(Contents)]
      /\ kv \in [Slots -> Seq(Contents)]
  BY <1>4, <1>5 DEF Init, SeqLen
<1>8. TypeOK
  BY <1>4, <1>5, <1>6, <1>7 DEF TypeOK
<1>9. OneOwner
  <2>1. FreeOnce
    BY <1>2, <1>3, <1>5 DEF FreeOnce, IsInjective, FreeSlots
  <2>2. FreeOrOwned /\ OwnedOnce /\ OwnedOrCached
    BY <1>5, <1>7 DEF FreeOrOwned, OwnedOnce, OwnedOrCached, OwnedPos
  <2>3. FreeOrCached /\ CachedOnce
    BY <1>6 DEF FreeOrCached, CachedOnce
  <2> QED
    BY <2>1, <2>2, <2>3 DEF OneOwner
<1>10. LeasesHold
  <2>1. ASSUME NEW id \in SeqIds
        PROVE  lease[id] \subseteq DOMAIN cache.blocks /\ LeaseIsPrefix(id) /\ BorrowsFromLease(id)
    <3>1. HitKeys(text[id], 0) = {}
      BY DEF HitKeys
    <3>2. 0 \in 0 .. Len(text[id]) /\ 0 * BLOCK = 0 /\ 0 <= Len(text[id])
      BY <1>4, <1>7, BlockSize
    <3>3. LeaseIsPrefix(id)
      BY <1>5, <1>7, <3>1, <3>2 DEF LeaseIsPrefix
    <3> QED
      BY <1>5, <1>7, <3>3 DEF BorrowsFromLease
  <2> QED
    BY <1>6, <2>1 DEF LeasesHold
<1>11. CacheServesItsKey /\ ReadsOwnKv
  BY <1>6, <1>7 DEF CacheServesItsKey, ReadsOwnKv
<1> QED
  BY <1>8, <1>9, <1>10, <1>11 DEF IInv

-----------------------------------------------------------------------------
(* A token more: what is a prefix of the text stays one. *)
LEMMA EmitInv ==
  ASSUME IInv, NEW id \in SeqIds, NEW token \in Tokens, Emit(id, token)
  PROVE  IInv'
<1> DEFINE t == text[id]
<1>1. /\ t \in Seq(Contents) /\ token \in Contents /\ Len(t) \in Nat
      /\ SeqLen(pool, id) = Len(t) /\ id \in pool.live
      /\ UNCHANGED << pool, cache, lease, kv >>
      /\ text' = [text EXCEPT ![id] = Append(t, token)]
  BY RowFacts DEF Emit, IInv, Contents
<1>2. Append(t, token) \in Seq(Contents) /\ Len(Append(t, token)) = Len(t) + 1
  BY <1>1
<1>3. /\ text' \in [SeqIds -> Seq(Contents)]
      /\ text'[id] = Append(t, token)
      /\ \A other \in SeqIds \ {id} : text'[other] = text[other]
  BY <1>1, <1>2 DEF IInv, TypeOK
<1>4. \A other \in SeqIds, m \in Nat :
        m <= Len(text[other]) =>
          m <= Len(text'[other]) /\ SubSeq(text'[other], 1, m) = SubSeq(text[other], 1, m)
  <2> SUFFICES ASSUME NEW other \in SeqIds, NEW m \in Nat, m <= Len(text[other])
               PROVE  m <= Len(text'[other])
                        /\ SubSeq(text'[other], 1, m) = SubSeq(text[other], 1, m)
    OBVIOUS
  <2>1. CASE other = id
    <3>1. m \in 0 .. Len(t) /\ m <= Len(t) + 1
      BY <1>1, <2>1
    <3>2. SubSeq(Append(t, token), 1, m) = SubSeq(t, 1, m)
      BY <1>1, <3>1, PrefixOfAppend
    <3> QED
      BY <1>2, <1>3, <2>1, <3>1, <3>2
  <2>2. CASE other # id
    BY <1>3, <2>2
  <2> QED
    BY <2>1, <2>2
<1>5. TypeOK'
  <2>1. ASSUME NEW other \in SeqIds
        PROVE  /\ pool.borrowed[other] <= SeqLen(pool, other)
               /\ SeqLen(pool, other) <= Len(text'[other])
               /\ other \notin pool.live => text'[other] = << >>
    BY <1>1, <1>3, <1>4, RowFacts DEF IInv, TypeOK
  <2> QED
    BY <1>1, <1>3, <2>1 DEF IInv, TypeOK, SeqLen
<1>6. OneOwner'
  BY <1>1 DEF IInv, OneOwner, FreeOnce, FreeOrOwned, FreeOrCached, OwnedOnce, OwnedOrCached,
              CachedOnce, OwnedPos, SeqLen, FreeSlots
<1>7. LeasesHold'
  <2>1. ASSUME NEW other \in SeqIds
        PROVE  LeaseIsPrefix(other)'
    <3>1. PICK n \in 0 .. Len(text[other]) :
            /\ pool.borrowed[other] = n * BLOCK
            /\ n * BLOCK <= Len(text[other])
            /\ lease[other] = HitKeys(text[other], n)
      BY DEF IInv, LeasesHold, LeaseIsPrefix
    <3>2. Len(text[other]) \in Nat /\ Len(text'[other]) \in Nat
      BY <1>3, LenProperties, RowFacts DEF IInv
    <3>3. n \in 0 .. Len(text'[other]) /\ n * BLOCK <= Len(text'[other])
      BY <1>4, <3>1, <3>2, BlockSize
    <3>4. ASSUME NEW i \in 1 .. n
          PROVE  KeyOf(text'[other], i) = KeyOf(text[other], i)
      <4>1. i * BLOCK \in Nat /\ i * BLOCK <= n * BLOCK
        BY BlockSize
      <4>2. i * BLOCK <= Len(text[other])
        BY <3>1, <3>2, <4>1, BlockSize
      <4> QED
        BY <1>4, <4>1, <4>2 DEF KeyOf
    <3>5. HitKeys(text'[other], n) = HitKeys(text[other], n)
      BY <3>4 DEF HitKeys
    <3> QED
      BY <1>1, <3>1, <3>3, <3>5 DEF LeaseIsPrefix
  <2>2. \A other \in SeqIds : BorrowsFromLease(other)'
    BY <1>1 DEF IInv, LeasesHold, BorrowsFromLease
  <2> QED
    BY <1>1, <2>1, <2>2 DEF IInv, LeasesHold, Readers
<1>8. CacheServesItsKey'
  BY <1>1 DEF IInv, CacheServesItsKey
<1>9. ReadsOwnKv'
  <2> SUFFICES ASSUME NEW other \in SeqIds, NEW pos \in 1 .. SeqLen(pool, other)
               PROVE  kv[pool.slots[other][pos]] = SubSeq(text'[other], 1, pos)
    BY <1>1 DEF ReadsOwnKv, SeqLen
  <2>1. pos \in Nat /\ pos <= Len(text[other])
    BY RowFacts DEF IInv
  <2> QED
    BY <1>4, <2>1 DEF IInv, ReadsOwnKv
<1> QED
  BY <1>5, <1>6, <1>7, <1>8, <1>9 DEF IInv

-----------------------------------------------------------------------------
(* A block nobody reads goes: its slots, and only they, become free. *)
LEMMA EvictInv ==
  ASSUME IInv, NEW key \in DOMAIN cache.blocks, EvictOne(key)
  PROVE  IInv'
<1> DEFINE b == cache.blocks[key].slots
           f == FreeSlots(pool)
<1>1. /\ pool' = ReleaseSlots(pool, b) /\ cache' = Evict(cache, key)
      /\ UNCHANGED << lease, text, kv >>
      /\ cache.blocks[key].refs = 0
  BY DEF EvictOne, Victims, Cold
<1>2. TypeOK /\ pool \in Pools /\ b \in Seq(Slots) /\ Len(b) = BLOCK /\ f \in Nat
      /\ BLOCK \in Nat \ {0}
  BY BlockFacts, BlockSize, PoolFields DEF IInv, TypeOK
<1>3. /\ pool' \in Pools /\ pool'.live = pool.live /\ pool'.slots = pool.slots
      /\ pool'.borrowed = pool.borrowed
      /\ FreeSlots(pool') = f + BLOCK
      /\ \A i \in 1 .. f : pool'.free[i] = pool.free[i]
      /\ \A i \in f + 1 .. f + BLOCK : pool'.free[i] = b[BLOCK - (i - f) + 1]
  <2> DEFINE q == ReleaseSlots(pool, b)
  <2>1. /\ q \in Pools /\ q.live = pool.live /\ q.slots = pool.slots
        /\ q.borrowed = pool.borrowed
        /\ FreeSlots(q) = f + Len(b)
        /\ \A i \in 1 .. f : q.free[i] = pool.free[i]
        /\ \A i \in f + 1 .. f + Len(b) : q.free[i] = b[Len(b) - (i - f) + 1]
    BY <1>2, ReleaseFacts
  <2> QED
    BY <1>1, <1>2, <2>1, Zenon
<1>4. /\ DOMAIN cache'.blocks = DOMAIN cache.blocks \ {key}
      /\ \A k \in DOMAIN cache'.blocks : cache'.blocks[k] = cache.blocks[k]
      /\ cache'.tick = cache.tick
  BY <1>1 DEF Evict
<1>5. \A i \in 1 .. FreeSlots(pool') :
        \/ i \in 1 .. f /\ pool'.free[i] = pool.free[i]
        \/ \E j \in 1 .. BLOCK : i = f + BLOCK - j + 1 /\ pool'.free[i] = b[j]
  <2> SUFFICES ASSUME NEW i \in 1 .. FreeSlots(pool'), i \notin 1 .. f
               PROVE  \E j \in 1 .. BLOCK : i = f + BLOCK - j + 1 /\ pool'.free[i] = b[j]
    BY <1>3
  <2>1. /\ i \in f + 1 .. f + BLOCK
        /\ BLOCK - (i - f) + 1 \in 1 .. BLOCK
        /\ i = f + BLOCK - (BLOCK - (i - f) + 1) + 1
    BY <1>2, <1>3
  <2> QED
    BY <1>3, <2>1
<1> HIDE DEF b, f
<1>6. TypeOK'
  <2>1. \A id \in SeqIds : SeqLen(pool', id) = SeqLen(pool, id)
    BY <1>3 DEF SeqLen
  <2> QED
    BY <1>1, <1>2, <1>3, <1>4, <2>1 DEF TypeOK
<1>7. \A id \in SeqIds : OwnedPos(id)' = OwnedPos(id)
  BY <1>3 DEF OwnedPos, SeqLen
<1>8. OneOwner'
  <2>1. FreeOnce'
    <3>1. /\ \A i, j \in 1 .. f : pool.free[i] = pool.free[j] => i = j
          /\ \A i \in 1 .. f, j \in 1 .. BLOCK : pool.free[i] # b[j]
          /\ \A i, j \in 1 .. BLOCK : b[i] = b[j] => i = j
      BY DEF IInv, OneOwner, FreeOnce, FreeOrCached, CachedOnce, f, b
    <3> QED
      BY ONLY <1>5, <3>1 DEF FreeOnce
  <2>2. FreeOrOwned'
    BY <1>3, <1>5, <1>7 DEF IInv, OneOwner, FreeOrOwned, OwnedOrCached, f, b
  <2>3. FreeOrCached'
    BY <1>4, <1>5 DEF IInv, OneOwner, FreeOrCached, CachedOnce, f, b
  <2>4. OwnedOnce'
    BY <1>3, <1>7 DEF IInv, OneOwner, OwnedOnce
  <2>5. OwnedOrCached'
    BY <1>3, <1>4, <1>7 DEF IInv, OneOwner, OwnedOrCached
  <2>6. CachedOnce'
    BY <1>4 DEF IInv, OneOwner, CachedOnce
  <2> QED
    BY <2>1, <2>2, <2>3, <2>4, <2>5, <2>6 DEF OneOwner
<1>9. LeasesHold'
  <2>1. \A id \in SeqIds : key \notin lease[id]
    <3>1. Cardinality(Readers(key)) = 0
      BY <1>1, ReadersFinite DEF IInv, LeasesHold
    <3> QED
      BY <3>1, ReadersFinite DEF Readers
  <2>2. \A id \in SeqIds : LeaseIsPrefix(id)'
    BY <1>1, <1>3 DEF IInv, LeasesHold, LeaseIsPrefix
  <2>3. \A id \in SeqIds : lease'[id] \subseteq DOMAIN cache'.blocks
    BY <1>1, <1>4, <2>1 DEF IInv, LeasesHold
  <2>4. ASSUME NEW id \in SeqIds PROVE BorrowsFromLease(id)'
    <3>1. BorrowsFromLease(id)
      BY DEF IInv, LeasesHold
    <3> QED
      BY <1>1, <1>3, <1>4, <2>3, <3>1 DEF BorrowsFromLease
  <2>5. \A k \in DOMAIN cache'.blocks : cache'.blocks[k].refs >= Cardinality(Readers(k)')
    BY <1>1, <1>4 DEF IInv, LeasesHold, Readers
  <2> QED
    BY <2>2, <2>3, <2>4, <2>5 DEF LeasesHold
<1>10. CacheServesItsKey' /\ ReadsOwnKv'
  BY <1>1, <1>3, <1>4 DEF IInv, CacheServesItsKey, ReadsOwnKv, SeqLen
<1> QED
  BY <1>6, <1>8, <1>9, <1>10 DEF IInv

-----------------------------------------------------------------------------
(* How a row ends, by retire or by fail_all: the pool gets back what the row *)
(* owns past `upto`...                                                       *)
GivesBack(id, upto) ==
  /\ pool' \in Pools
  /\ pool'.live = pool.live \ {id}
  /\ pool'.slots[id] = << >> /\ pool'.borrowed[id] = 0
  /\ \A other \in SeqIds \ {id} :
       pool'.slots[other] = pool.slots[other] /\ pool'.borrowed[other] = pool.borrowed[other]
  /\ \A i \in 1 .. FreeSlots(pool') :
       \/ i \in 1 .. FreeSlots(pool) /\ pool'.free[i] = pool.free[i]
       \/ \E pos \in OwnedPos(id) :
            /\ pos > upto
            /\ i = FreeSlots(pool) + SeqLen(pool, id) - pos + 1
            /\ pool'.free[i] = pool.slots[id][pos]

(* ... the cache gets blocks of the row's text, of slots the row owned before *)
(* `upto`, and what it had it keeps, with at most the row's references less. *)
Offered(id, upto, k, a) ==
  /\ k = KeyOf(text[id], a) /\ k \in Keys /\ Len(k) = a * BLOCK
  /\ a * BLOCK <= upto
  /\ pool.borrowed[id] <= a * BLOCK - BLOCK
  /\ cache'.blocks[k] \in Entries
  /\ Len(cache'.blocks[k].slots) = BLOCK
  /\ \A j \in 1 .. BLOCK :
       cache'.blocks[k].slots[j] = pool.slots[id][a * BLOCK - BLOCK + j]
Keeps(id, k) ==
  /\ cache'.blocks[k] \in Entries
  /\ cache'.blocks[k].slots = cache.blocks[k].slots
  /\ \/ cache'.blocks[k].refs >= cache.blocks[k].refs
     \/ k \in lease[id] /\ cache'.blocks[k].refs = cache.blocks[k].refs - 1
CacheTakes(id, upto) ==
  /\ cache'.tick \in Nat
  /\ DOMAIN cache.blocks \subseteq DOMAIN cache'.blocks
  /\ \A k \in DOMAIN cache.blocks : Keeps(id, k)
  /\ \A k \in DOMAIN cache'.blocks \ DOMAIN cache.blocks :
       \E a \in Nat \ {0} : Offered(id, upto, k, a)

(* ... and the row is cleared. *)
Clears(id) ==
  /\ lease' = [lease EXCEPT ![id] = {}]
  /\ text' = [text EXCEPT ![id] = << >>]
  /\ kv' = kv

(* A prefix of a prefix. *)
LEMMA PrefixOfPrefix ==
  ASSUME NEW S, NEW t \in Seq(S), NEW m \in 0 .. Len(t), NEW n \in 0 .. m
  PROVE  SubSeq(SubSeq(t, 1, m), 1, n) = SubSeq(t, 1, n)
OBVIOUS

(* More blocks are more tokens. *)
LEMMA TimesMonotone ==
  ASSUME NEW x \in Nat, NEW y \in Nat, NEW z \in Nat, x <= y
  PROVE  x * z \in Nat /\ y * z \in Nat /\ x * z <= y * z
<1>1. x * z \in Nat /\ (y - x) * z \in Nat
  <2>1. y - x \in Nat
    OBVIOUS
  <2> QED
    BY <2>1
<1>2. y * z = x * z + (y - x) * z
  OBVIOUS
<1> QED
  BY <1>1, <1>2

(* Where one block ends and where another does: the blocks are the same, or apart. *)
LEMMA BlocksApart ==
  ASSUME NEW a \in Nat, NEW c \in Nat, NEW i \in 1 .. BLOCK, NEW j \in 1 .. BLOCK,
         a * BLOCK - BLOCK + i = c * BLOCK - BLOCK + j
  PROVE  a = c /\ i = j
<1>1. BLOCK \in Nat \ {0}
  BY BlockSize
<1>2. ASSUME NEW x \in Nat, NEW y \in Nat, x < y
      PROVE  x * BLOCK + BLOCK <= y * BLOCK
  <2>1. x + 1 <= y
    BY <1>2
  <2>2. (x + 1) * BLOCK <= y * BLOCK
    BY <1>1, <2>1
  <2> QED
    BY <1>1, <2>2
<1>3. a * BLOCK \in Nat /\ c * BLOCK \in Nat
  BY <1>1
<1>4. ~(a < c)
  BY <1>1, <1>2, <1>3
<1>5. ~(c < a)
  BY <1>1, <1>2, <1>3
<1>6. a = c
  BY <1>4, <1>5
<1> QED
  BY <1>1, <1>3, <1>6

(* The places of an offered block in its row. *)
LEMMA OfferedPlaces ==
  ASSUME TypeOK, NEW id \in SeqIds, NEW upto \in Nat, upto <= SeqLen(pool, id),
         NEW k, NEW a \in Nat \ {0}, Offered(id, upto, k, a), NEW j \in 1 .. BLOCK
  PROVE  /\ a * BLOCK - BLOCK + j \in OwnedPos(id)
         /\ a * BLOCK - BLOCK + j <= upto
         /\ cache'.blocks[k].slots[j] = pool.slots[id][a * BLOCK - BLOCK + j]
<1> DEFINE m == a * BLOCK
<1>1. BLOCK \in Nat /\ SeqLen(pool, id) \in Nat /\ pool.borrowed[id] \in Nat
  BY BlockSize, RowFacts
<1>2. m \in Nat
  BY <1>1, TimesMonotone
<1>3. /\ m <= upto /\ pool.borrowed[id] <= m - BLOCK
      /\ cache'.blocks[k].slots[j] = pool.slots[id][m - BLOCK + j]
  BY DEF Offered
<1> HIDE DEF m
<1>4. m - BLOCK + j <= upto /\ m - BLOCK + j \in pool.borrowed[id] + 1 .. SeqLen(pool, id)
  BY <1>1, <1>2, <1>3
<1> QED
  BY <1>3, <1>4 DEF OwnedPos, m

LEMMA DropInv ==
  ASSUME IInv, NEW id \in SeqIds, NEW upto \in Nat, upto <= SeqLen(pool, id),
         GivesBack(id, upto), CacheTakes(id, upto), Clears(id)
  PROVE  IInv'
<1> DEFINE f == FreeSlots(pool)
           l == SeqLen(pool, id)
           new == DOMAIN cache'.blocks \ DOMAIN cache.blocks
<1>1. /\ TypeOK /\ OneOwner /\ LeasesHold /\ CacheServesItsKey /\ ReadsOwnKv
      /\ BLOCK \in Nat \ {0} /\ f \in Nat /\ l \in Nat
  BY RowFacts, BlockSize DEF IInv
<1>2. /\ OwnedPos(id)' = {} /\ SeqLen(pool', id) = 0
      /\ \A other \in SeqIds \ {id} :
           SeqLen(pool', other) = SeqLen(pool, other) /\ OwnedPos(other)' = OwnedPos(other)
  BY DEF GivesBack, OwnedPos, SeqLen
<1>3. /\ lease'[id] = {} /\ text'[id] = << >>
      /\ \A other \in SeqIds \ {id} : lease'[other] = lease[other] /\ text'[other] = text[other]
      /\ lease' \in [SeqIds -> SUBSET Keys] /\ text' \in [SeqIds -> Seq(Contents)]
      /\ kv' = kv
  BY <1>1 DEF Clears, TypeOK
<1>4. \A k \in DOMAIN cache.blocks :
        k \in DOMAIN cache'.blocks /\ cache'.blocks[k].slots = cache.blocks[k].slots
  BY DEF CacheTakes, Keeps
<1>5. ASSUME NEW k \in new
      PROVE  \E a \in Nat \ {0} : Offered(id, upto, k, a)
  BY DEF CacheTakes
<1>6. ASSUME NEW k \in new, NEW j \in 1 .. BLOCK
      PROVE  \E pos \in OwnedPos(id) : pos <= upto /\ cache'.blocks[k].slots[j] = pool.slots[id][pos]
  <2>1. PICK a \in Nat \ {0} : Offered(id, upto, k, a)
    BY <1>5
  <2> QED
    BY <1>1, <2>1, OfferedPlaces
<1>7. TypeOK'
  <2>1. ASSUME NEW other \in SeqIds
        PROVE  /\ pool'.borrowed[other] <= SeqLen(pool', other)
               /\ SeqLen(pool', other) <= Len(text'[other])
               /\ other \notin pool'.live => text'[other] = << >>
    <3>1. CASE other = id
      BY <1>2, <1>3, <3>1 DEF GivesBack
    <3>2. CASE other # id
      BY <1>1, <1>2, <1>3, <3>2 DEF GivesBack, TypeOK
    <3> QED
      BY <3>1, <3>2
  <2>2. ASSUME NEW k \in DOMAIN cache'.blocks
        PROVE  /\ k \in Keys
               /\ cache'.blocks[k] \in Entries
               /\ Len(cache'.blocks[k].slots) = BLOCK
               /\ Len(k) >= BLOCK
    <3>1. CASE k \in DOMAIN cache.blocks
      BY <1>1, <3>1 DEF CacheTakes, Keeps, TypeOK
    <3>2. CASE k \in new
      <4>1. PICK a \in Nat \ {0} : Offered(id, upto, k, a)
        BY <1>5, <3>2
      <4>2. a * BLOCK >= BLOCK
        BY <1>1
      <4> QED
        BY <4>1, <4>2 DEF Offered
    <3> QED
      BY <3>1, <3>2
  <2> QED
    BY <1>1, <1>3, <2>1, <2>2 DEF TypeOK, GivesBack, CacheTakes
<1>8. OneOwner'
  <2>1. /\ FreeOnce /\ FreeOrOwned /\ FreeOrCached /\ OwnedOnce /\ OwnedOrCached /\ CachedOnce
    BY <1>1 DEF OneOwner
  <2>2. \A i \in 1 .. FreeSlots(pool') :
          \/ i \in 1 .. f /\ pool'.free[i] = pool.free[i]
          \/ \E pos \in OwnedPos(id) : /\ pos > upto /\ i = f + l - pos + 1
                                       /\ pool'.free[i] = pool.slots[id][pos]
    BY DEF GivesBack
  <2> HIDE DEF f, l, new
  <2>3. FreeOnce'
    <3>1. /\ \A i, j \in 1 .. f : pool.free[i] = pool.free[j] => i = j
          /\ \A i \in 1 .. f, pos \in OwnedPos(id) : pool.free[i] # pool.slots[id][pos]
          /\ \A p, q \in OwnedPos(id) : pool.slots[id][p] = pool.slots[id][q] => p = q
      BY <2>1 DEF FreeOnce, FreeOrOwned, OwnedOnce, f
    <3> QED
      BY ONLY <2>2, <3>1 DEF FreeOnce
  <2>4. FreeOrOwned'
    <3> SUFFICES ASSUME NEW i \in 1 .. FreeSlots(pool'), NEW other \in SeqIds,
                        NEW pos \in OwnedPos(other)'
                 PROVE  pool'.free[i] # pool'.slots[other][pos]
      BY DEF FreeOrOwned
    <3>1. other # id /\ pos \in OwnedPos(other) /\ pool'.slots[other] = pool.slots[other]
      BY <1>2 DEF GivesBack
    <3> QED
      BY <2>1, <2>2, <3>1 DEF FreeOrOwned, OwnedOnce, f
  <2>5. FreeOrCached'
    <3> SUFFICES ASSUME NEW i \in 1 .. FreeSlots(pool'), NEW k \in DOMAIN cache'.blocks,
                        NEW j \in 1 .. BLOCK
                 PROVE  pool'.free[i] # cache'.blocks[k].slots[j]
      BY DEF FreeOrCached
    <3>1. CASE k \in DOMAIN cache.blocks
      BY <1>4, <2>1, <2>2, <3>1 DEF FreeOrCached, OwnedOrCached, f
    <3>2. CASE k \in new
      <4>1. PICK pos \in OwnedPos(id) :
              pos <= upto /\ cache'.blocks[k].slots[j] = pool.slots[id][pos]
        BY <1>6, <3>2
      <4>2. pos \in Int
        BY DEF OwnedPos
      <4> QED
        BY <2>1, <2>2, <4>1, <4>2 DEF FreeOrOwned, OwnedOnce, OwnedPos, f
    <3> QED
      BY <3>1, <3>2 DEF new
  <2>6. OwnedOnce'
    <3> SUFFICES ASSUME NEW a \in SeqIds, NEW b \in SeqIds,
                        NEW p \in OwnedPos(a)', NEW q \in OwnedPos(b)',
                        pool'.slots[a][p] = pool'.slots[b][q]
                 PROVE  a = b /\ p = q
      BY DEF OwnedOnce
    <3>1. /\ a # id /\ p \in OwnedPos(a) /\ pool'.slots[a] = pool.slots[a]
          /\ b # id /\ q \in OwnedPos(b) /\ pool'.slots[b] = pool.slots[b]
      BY <1>2 DEF GivesBack
    <3> QED
      BY <2>1, <3>1 DEF OwnedOnce
  <2>7. OwnedOrCached'
    <3> SUFFICES ASSUME NEW other \in SeqIds, NEW k \in DOMAIN cache'.blocks,
                        NEW pos \in OwnedPos(other)', NEW j \in 1 .. BLOCK
                 PROVE  pool'.slots[other][pos] # cache'.blocks[k].slots[j]
      BY DEF OwnedOrCached
    <3>1. other # id /\ pos \in OwnedPos(other) /\ pool'.slots[other] = pool.slots[other]
      BY <1>2 DEF GivesBack
    <3>2. CASE k \in DOMAIN cache.blocks
      BY <1>4, <2>1, <3>1, <3>2 DEF OwnedOrCached
    <3>3. CASE k \in new
      BY <1>6, <2>1, <3>1, <3>3 DEF OwnedOnce
    <3> QED
      BY <3>2, <3>3 DEF new
  <2>8. CachedOnce'
    <3> SUFFICES ASSUME NEW k \in DOMAIN cache'.blocks, NEW m \in DOMAIN cache'.blocks,
                        NEW i \in 1 .. BLOCK, NEW j \in 1 .. BLOCK,
                        cache'.blocks[k].slots[i] = cache'.blocks[m].slots[j]
                 PROVE  k = m /\ i = j
      BY DEF CachedOnce
    <3>1. CASE k \in DOMAIN cache.blocks /\ m \in DOMAIN cache.blocks
      BY <1>4, <2>1, <3>1 DEF CachedOnce
    <3>2. CASE k \in new /\ m \in DOMAIN cache.blocks
      BY <1>4, <1>6, <2>1, <3>2 DEF OwnedOrCached
    <3>3. CASE k \in DOMAIN cache.blocks /\ m \in new
      BY <1>4, <1>6, <2>1, <3>3 DEF OwnedOrCached
    <3>4. CASE k \in new /\ m \in new
      <4>1. PICK a \in Nat \ {0} : Offered(id, upto, k, a)
        BY <1>5, <3>4
      <4>2. PICK c \in Nat \ {0} : Offered(id, upto, m, c)
        BY <1>5, <3>4
      <4>3. a * BLOCK - BLOCK + i = c * BLOCK - BLOCK + j
        BY <1>1, <2>1, <4>1, <4>2, OfferedPlaces DEF OwnedOnce
      <4>4. a = c /\ i = j
        BY <4>3, BlocksApart
      <4> QED
        BY <4>1, <4>2, <4>4 DEF Offered
    <3> QED
      BY <3>1, <3>2, <3>3, <3>4 DEF new
  <2> QED
    BY <2>3, <2>4, <2>5, <2>6, <2>7, <2>8 DEF OneOwner
<1>9. LeasesHold'
  <2>1. \A other \in SeqIds : lease'[other] \subseteq DOMAIN cache'.blocks
    BY <1>1, <1>3, <1>4 DEF LeasesHold
  <2>2. LeaseIsPrefix(id)'
    <3>1. HitKeys(text'[id], 0) = {}
      BY DEF HitKeys
    <3>2. 0 \in 0 .. Len(text'[id]) /\ 0 * BLOCK = 0 /\ 0 <= Len(text'[id])
      BY <1>1, <1>3
    <3> QED
      BY <1>3, <3>1, <3>2 DEF LeaseIsPrefix, GivesBack
  <2>3. BorrowsFromLease(id)'
    BY DEF BorrowsFromLease, GivesBack
  <2>4. \A other \in SeqIds \ {id} : LeaseIsPrefix(other)'
    BY <1>1, <1>3 DEF LeasesHold, LeaseIsPrefix, GivesBack
  <2>5. ASSUME NEW other \in SeqIds \ {id} PROVE BorrowsFromLease(other)'
    <3>1. BorrowsFromLease(other) /\ lease[other] \subseteq DOMAIN cache.blocks
      BY <1>1 DEF LeasesHold
    <3>2. \A k \in lease[other] : cache'.blocks[k].slots = cache.blocks[k].slots
      BY <1>4, <3>1
    <3>3. /\ pool'.borrowed[other] = pool.borrowed[other]
          /\ pool'.slots[other] = pool.slots[other] /\ lease'[other] = lease[other]
      BY <1>3 DEF GivesBack
    <3> QED
      BY <3>1, <3>2, <3>3 DEF BorrowsFromLease
  <2>6. ASSUME NEW k \in DOMAIN cache'.blocks
        PROVE  cache'.blocks[k].refs >= Cardinality(Readers(k)')
    <3>1. Readers(k)' = Readers(k) \ {id}
      BY <1>3 DEF Readers
    <3>2. IsFiniteSet(Readers(k)) /\ Cardinality(Readers(k)) \in Nat
      BY ReadersFinite
    <3>3. Cardinality(Readers(k)') <= Cardinality(Readers(k))
      BY <3>1, <3>2, FS_Subset
    <3>4. id \in Readers(k) => Cardinality(Readers(k)') = Cardinality(Readers(k)) - 1
      BY <3>1, <3>2, FS_RemoveElement
    <3>5. Cardinality(Readers(k)') \in Nat
      BY <3>1, <3>2, FS_Subset, FS_CardinalityType
    <3>6. cache'.blocks[k].refs \in Nat
      BY <1>7 DEF TypeOK, Entries
    <3>7. CASE k \in DOMAIN cache.blocks
      <4>1. cache.blocks[k].refs >= Cardinality(Readers(k)) /\ cache.blocks[k].refs \in Nat
        BY <1>1, <3>7, BlockFacts DEF LeasesHold
      <4>2. CASE cache'.blocks[k].refs >= cache.blocks[k].refs
        BY <3>2, <3>3, <3>5, <3>6, <4>1, <4>2
      <4>3. CASE k \in lease[id] /\ cache'.blocks[k].refs = cache.blocks[k].refs - 1
        <5>1. id \in Readers(k)
          BY <4>3 DEF Readers
        <5> QED
          BY <3>2, <3>4, <4>1, <4>3, <5>1
      <4> QED
        BY <3>7, <4>2, <4>3 DEF CacheTakes, Keeps
    <3>8. CASE k \notin DOMAIN cache.blocks
      <4>1. Readers(k) = {}
        BY <1>1, <3>8 DEF Readers, LeasesHold
      <4> QED
        BY <3>1, <3>6, <4>1, FS_EmptySet
    <3> QED
      BY <3>7, <3>8
  <2> QED
    BY <2>1, <2>2, <2>3, <2>4, <2>5, <2>6 DEF LeasesHold
<1>10. CacheServesItsKey'
  <2> SUFFICES ASSUME NEW k \in DOMAIN cache'.blocks, NEW j \in 1 .. BLOCK
               PROVE  kv[cache'.blocks[k].slots[j]] = SubSeq(k, 1, Len(k) - BLOCK + j)
    BY <1>3 DEF CacheServesItsKey
  <2>1. CASE k \in DOMAIN cache.blocks
    BY <1>1, <1>4, <2>1 DEF CacheServesItsKey
  <2>2. CASE k \in new
    <3>1. PICK a \in Nat \ {0} : Offered(id, upto, k, a)
      BY <1>5, <2>2
    <3> DEFINE m == a * BLOCK
               n == m - BLOCK + j
    <3>2. /\ n \in OwnedPos(id) /\ cache'.blocks[k].slots[j] = pool.slots[id][n]
      BY <1>1, <3>1, OfferedPlaces
    <3>3. m \in Nat /\ m >= BLOCK
      <4>1. BLOCK \in Nat \ {0} /\ a \in Nat \ {0}
        BY <1>1
      <4> QED
        BY ONLY <4>1
    <3>9. k = SubSeq(text[id], 1, m) /\ Len(k) = m /\ m <= upto
      BY <3>1 DEF Offered, KeyOf
    <3>4. text[id] \in Seq(Contents) /\ Len(text[id]) \in Nat /\ l <= Len(text[id])
      BY <1>1, RowFacts
    <3> HIDE DEF m, l
    <3>5. n \in 0 .. m /\ n \in 1 .. l /\ m \in 0 .. Len(text[id])
      <4>1. upto \in Nat /\ upto <= l /\ BLOCK \in Nat /\ l \in Nat
        BY <1>1 DEF l
      <4> QED
        BY <3>3, <3>9, <3>4, <4>1
    <3> USE DEF l
    <3>6. kv[pool.slots[id][n]] = SubSeq(text[id], 1, n)
      BY <1>1, <3>5 DEF ReadsOwnKv
    <3> HIDE DEF n
    <3>7. SubSeq(SubSeq(text[id], 1, m), 1, n) = SubSeq(text[id], 1, n)
      BY <3>4, <3>5, PrefixOfPrefix
    <3>8. Len(k) - BLOCK + j = n
      BY <3>9 DEF n
    <3> QED
      BY <3>2, <3>9, <3>6, <3>7, <3>8
  <2> QED
    BY <2>1, <2>2
<1>11. ReadsOwnKv'
  <2> SUFFICES ASSUME NEW other \in SeqIds, NEW pos \in 1 .. SeqLen(pool', other)
               PROVE  kv[pool'.slots[other][pos]] = SubSeq(text'[other], 1, pos)
    BY <1>3 DEF ReadsOwnKv
  <2>1. other # id
    BY <1>2
  <2>2. pool'.slots[other] = pool.slots[other] /\ text'[other] = text[other]
    BY <1>3, <2>1 DEF GivesBack
  <2>3. pos \in 1 .. SeqLen(pool, other)
    BY <1>2, <2>1
  <2> QED
    BY <1>1, <2>2, <2>3 DEF ReadsOwnKv
<1> QED
  BY <1>7, <1>8, <1>9, <1>10, <1>11 DEF IInv

-----------------------------------------------------------------------------
(* free, after the boundary of the row was moved up to `upto` or left. *)
LEMMA FreeGivesBack ==
  ASSUME TypeOK, NEW id \in pool.live, NEW upto \in Nat, upto <= SeqLen(pool, id),
         NEW q \in Pools, q.live = pool.live, q.slots = pool.slots, q.free = pool.free,
         \A other \in SeqIds \ {id} : q.borrowed[other] = pool.borrowed[other],
         upto <= q.borrowed[id], pool.borrowed[id] <= q.borrowed[id],
         q.borrowed[id] <= SeqLen(pool, id),
         pool' = Free(q, id)
  PROVE  GivesBack(id, upto)
<1> DEFINE f == FreeSlots(pool)
           l == SeqLen(pool, id)
           b == q.borrowed[id]
<1>1. /\ id \in SeqIds /\ f \in Nat /\ l \in Nat /\ b \in Nat /\ pool.borrowed[id] \in Nat
  BY RowFacts, PoolFields DEF TypeOK
<1>2. FreeSlots(q) = f /\ SeqLen(q, id) = l /\ id \in q.live
  BY DEF FreeSlots, SeqLen
<1>3. /\ Free(q, id) \in Pools
      /\ Free(q, id).live = q.live \ {id}
      /\ Free(q, id).slots[id] = << >>
      /\ Free(q, id).borrowed[id] = 0
      /\ \A other \in SeqIds \ {id} :
           /\ Free(q, id).slots[other] = q.slots[other]
           /\ Free(q, id).borrowed[other] = q.borrowed[other]
      /\ FreeSlots(Free(q, id)) = f + l - b
      /\ \A i \in 1 .. f : Free(q, id).free[i] = q.free[i]
      /\ \A i \in f + 1 .. f + l - b : Free(q, id).free[i] = q.slots[id][l - (i - f) + 1]
  <2>1. id \in SeqIds /\ id \in q.live /\ q.borrowed[id] <= SeqLen(q, id)
    BY <1>1, <1>2
  <2>2. /\ Free(q, id) \in Pools
        /\ Free(q, id).live = q.live \ {id}
        /\ Free(q, id).slots[id] = << >>
        /\ Free(q, id).borrowed[id] = 0
        /\ \A other \in SeqIds \ {id} :
             /\ Free(q, id).slots[other] = q.slots[other]
             /\ Free(q, id).borrowed[other] = q.borrowed[other]
        /\ FreeSlots(Free(q, id)) = FreeSlots(q) + SeqLen(q, id) - q.borrowed[id]
        /\ \A i \in 1 .. FreeSlots(q) : Free(q, id).free[i] = q.free[i]
        /\ \A i \in FreeSlots(q) + 1 .. FreeSlots(q) + SeqLen(q, id) - q.borrowed[id] :
             Free(q, id).free[i] = q.slots[id][SeqLen(q, id) - (i - FreeSlots(q)) + 1]
    BY <2>1, FreeFacts, Zenon
  <2> QED
    BY <1>2, <2>2, Zenon
<1> HIDE DEF f, l, b
<1>4. ASSUME NEW i \in 1 .. FreeSlots(pool'), ~(i \in 1 .. f)
      PROVE  \E pos \in OwnedPos(id) : /\ pos > upto
                                       /\ i = f + l - pos + 1
                                       /\ pool'.free[i] = pool.slots[id][pos]
  <2> DEFINE pos == l - (i - f) + 1
  <2>1. i \in f + 1 .. f + l - b
    BY <1>1, <1>3, <1>4
  <2>2. pos \in b + 1 .. l /\ i = f + l - pos + 1
    BY <1>1, <2>1
  <2>3. pos > upto /\ pos \in OwnedPos(id)
    BY <1>1, <2>2 DEF OwnedPos, l, b
  <2>4. pool'.free[i] = pool.slots[id][pos]
    BY <1>3, <2>1
  <2> HIDE DEF pos
  <2> QED
    BY <2>2, <2>3, <2>4
<1>5. \A i \in 1 .. f : pool'.free[i] = pool.free[i]
  BY <1>3
<1> QED
  BY <1>3, <1>4, <1>5 DEF GivesBack, f, l

(* release takes at most the row's references back. *)
LEMMA ReleaseKeeps ==
  ASSUME TypeOK, NEW id \in SeqIds
  PROVE  LET r == Release(cache, lease[id])
         IN  /\ r.tick = cache.tick /\ DOMAIN r.blocks = DOMAIN cache.blocks
             /\ \A k \in DOMAIN cache.blocks :
                  /\ r.blocks[k] \in Entries
                  /\ r.blocks[k].slots = cache.blocks[k].slots
                  /\ \/ r.blocks[k].refs >= cache.blocks[k].refs
                     \/ k \in lease[id] /\ r.blocks[k].refs = cache.blocks[k].refs - 1
<1> DEFINE r == Release(cache, lease[id])
<1>1. r.tick = cache.tick /\ DOMAIN r.blocks = DOMAIN cache.blocks
  BY DEF Release
<1>2. ASSUME NEW k \in DOMAIN cache.blocks
      PROVE  /\ r.blocks[k] \in Entries
             /\ r.blocks[k].slots = cache.blocks[k].slots
             /\ \/ r.blocks[k].refs >= cache.blocks[k].refs
                \/ k \in lease[id] /\ r.blocks[k].refs = cache.blocks[k].refs - 1
  <2>1. cache.blocks[k] \in Entries
    BY DEF TypeOK
  <2>2. CASE k \in lease[id] /\ cache.blocks[k].refs > 0
    <3>1. r.blocks[k] = [ cache.blocks[k] EXCEPT !.refs = @ - 1 ]
      BY <2>2 DEF Release
    <3> QED
      BY <2>1, <2>2, <3>1 DEF Entries
  <2>3. CASE ~(k \in lease[id] /\ cache.blocks[k].refs > 0)
    <3>1. r.blocks[k] = cache.blocks[k]
      BY <2>3 DEF Release
    <3> QED
      BY <2>1, <3>1 DEF Entries
  <2> QED
    BY <2>2, <2>3
<1> QED
  BY <1>1, <1>2

LEMMA FailInv ==
  ASSUME IInv, NEW id \in SeqIds, Fail(id)
  PROVE  IInv'
<1>1. TypeOK /\ id \in pool.live /\ pool \in Pools
  BY DEF IInv, Fail, TypeOK
<1>2. pool.borrowed[id] \in Nat /\ pool.borrowed[id] <= SeqLen(pool, id) /\ SeqLen(pool, id) \in Nat
  BY <1>1, RowFacts
<1>3. GivesBack(id, 0)
  BY <1>1, <1>2, FreeGivesBack DEF Fail, Drop
<1>4. CacheTakes(id, 0)
  <2>1. cache' = cache /\ cache.tick \in Nat
    BY <1>1 DEF Fail, TypeOK
  <2>2. \A k \in DOMAIN cache.blocks : Keeps(id, k)
    BY <1>1, <2>1 DEF TypeOK, Keeps, Entries
  <2> QED
    BY <2>1, <2>2 DEF CacheTakes
<1>5. Clears(id)
  BY DEF Fail, Drop, Clears
<1> QED
  BY <1>2, <1>3, <1>4, <1>5, DropInv

(* As many whole blocks as fit. *)
LEMMA WholeBlocks ==
  ASSUME NEW t, Len(t) \in Nat
  PROVE  FullBlocks(t) \in Nat /\ FullBlocks(t) * BLOCK \in Nat /\ FullBlocks(t) * BLOCK <= Len(t)
<1> DEFINE n == Len(t)
           d == n \div BLOCK
<1>1. BLOCK \in Nat \ {0} /\ n \in Nat
  BY BlockSize
<1> HIDE DEF n
<1>2. d \in Nat /\ d * BLOCK <= n
  BY ONLY <1>1
<1> HIDE DEF d
<1>3. d * BLOCK \in Nat
  BY <1>1, <1>2
<1> QED
  BY <1>2, <1>3 DEF FullBlocks, d, n

(* The blocks insert takes: past the row's lease, and of the slots it kept. *)
LEMMA NewBlock ==
  ASSUME IInv, NEW id \in SeqIds, ~HadVision(text[id]),
         NEW upto, upto = FullBlocks(text[id]) * BLOCK, upto <= SeqLen(pool, id),
         NEW c, DOMAIN c.blocks = DOMAIN cache.blocks, c.tick = cache.tick,
         cache' = Insert(c, SubSeq(pool.slots[id], 1, upto), Ids(text[id])),
         NEW k \in DOMAIN cache'.blocks \ DOMAIN cache.blocks
  PROVE  \E a \in Nat \ {0} : Offered(id, upto, k, a)
<1> DEFINE t == text[id]
           l == SeqLen(pool, id)
           kept == SubSeq(pool.slots[id], 1, upto)
<1>1. /\ t \in Seq(Contents) /\ Len(t) \in Nat /\ BLOCK \in Nat \ {0}
      /\ pool.slots[id] \in Seq(Slots) /\ l \in Nat /\ l = Len(pool.slots[id])
      /\ cache.tick \in Nat
  BY RowFacts, BlockSize DEF IInv, TypeOK, SeqLen
<1>2. t \in Seq(Tokens) /\ Ids(t) = t
  <2>1. \A i \in 1 .. Len(t) : t[i] \in Contents /\ t[i] \notin Images
    BY <1>1, ElementOfSeq DEF HadVision
  <2>2. t = [i \in 1 .. Len(t) |-> t[i]]
    BY <1>1
  <2>3. Ids(t) = [i \in 1 .. Len(t) |-> t[i]]
    BY <2>1 DEF Ids
  <2>4. \A i \in 1 .. Len(t) : t[i] \in Tokens
    BY <2>1 DEF Contents
  <2>5. [i \in 1 .. Len(t) |-> t[i]] \in Seq(Tokens)
    BY <1>1, <2>4
  <2> QED
    BY <2>2, <2>3, <2>5
<1>3. k \in KeysOf(t) /\ cache'.blocks[k] = NewEntry(kept, k, cache.tick + 1)
  BY <1>2 DEF Insert
<1>4. PICK a \in 1 .. FullBlocks(t) : k = KeyOf(t, a)
  BY <1>3 DEF KeysOf
<1> DEFINE m == a * BLOCK
<1>5. FullBlocks(t) \in Nat /\ upto \in Nat /\ upto <= Len(t)
  BY <1>1, WholeBlocks
<1>6. m \in Nat /\ m >= BLOCK /\ m <= upto
  <2>1. a \in Nat /\ a <= FullBlocks(t) /\ 1 \in Nat /\ 1 <= a /\ BLOCK \in Nat
    BY <1>1, <1>5
  <2>2. 1 * BLOCK <= m /\ m <= FullBlocks(t) * BLOCK /\ m \in Nat
    BY <1>5, <2>1, TimesMonotone
  <2> QED
    BY <1>1, <2>2
<1>7. k \in Keys /\ Len(k) = m
  <2>1. 1 \in 1 .. Len(t) + 1 /\ m \in 0 .. Len(t) /\ 1 <= m
    BY <1>1, <1>5, <1>6
  <2>2. k = SubSeq(t, 1, m)
    BY <1>4 DEF KeyOf
  <2> HIDE DEF m, t
  <2>3. SubSeq(t, 1, m) \in Seq(Tokens) /\ Len(SubSeq(t, 1, m)) = m
    BY <1>2, <2>1, SliceFacts
  <2> QED
    BY <2>2, <2>3 DEF Keys
<1>8. pool.borrowed[id] <= m - BLOCK
  <2>1. PICK n \in 0 .. Len(t) : pool.borrowed[id] = n * BLOCK /\ lease[id] = HitKeys(t, n)
    BY DEF IInv, LeasesHold, LeaseIsPrefix
  <2>2. k \notin lease[id]
    BY DEF IInv, LeasesHold
  <2>3. n < a
    BY <1>1, <1>4, <1>5, <2>1, <2>2 DEF HitKeys
  <2>4. n \in Nat /\ a \in Nat
    BY <1>1, <1>5
  <2>5. n * BLOCK <= a * BLOCK - BLOCK
    <3>1. n <= a - 1
      BY <2>3, <2>4
    <3>4. a - 1 \in Nat /\ BLOCK \in Nat
      BY <1>1, <1>5
    <3>2. n * BLOCK <= (a - 1) * BLOCK
      BY <1>1, <2>4, <3>1, <3>4, TimesMonotone
    <3>3. (a - 1) * BLOCK = a * BLOCK - BLOCK
      BY ONLY <1>1, <2>4
    <3> QED
      BY <3>2, <3>3
  <2> QED
    BY <2>1, <2>5
<1> HIDE DEF m
<1>9. kept \in Seq(Slots) /\ Len(kept) = upto /\ \A i \in 1 .. upto : kept[i] = pool.slots[id][i]
  <2>1. 1 \in 1 .. Len(pool.slots[id]) + 1 /\ upto \in 0 .. Len(pool.slots[id]) /\ 1 <= upto
    BY <1>1, <1>5, <1>6
  <2>2. /\ SubSeq(pool.slots[id], 1, upto) \in Seq(Slots)
        /\ Len(SubSeq(pool.slots[id], 1, upto)) = IF 1 <= upto THEN upto - 1 + 1 ELSE 0
        /\ \A i \in 1 .. upto - 1 + 1 :
             SubSeq(pool.slots[id], 1, upto)[i] = pool.slots[id][1 + i - 1]
    BY <1>1, <2>1, SliceFacts
  <2> QED
    BY <1>5, <2>1, <2>2
<1> HIDE DEF kept
<1>10. /\ SubSeq(kept, m - BLOCK + 1, m) \in Seq(Slots)
       /\ Len(SubSeq(kept, m - BLOCK + 1, m)) = BLOCK
       /\ \A j \in 1 .. BLOCK : SubSeq(kept, m - BLOCK + 1, m)[j] = pool.slots[id][m - BLOCK + j]
  <2> DEFINE s == m - BLOCK + 1
  <2>1. s \in 1 .. Len(kept) + 1 /\ m \in 0 .. Len(kept) /\ s <= m /\ m - s + 1 = BLOCK
    BY <1>1, <1>5, <1>6, <1>9
  <2>2. \A j \in 1 .. BLOCK : s + j - 1 = m - BLOCK + j /\ m - BLOCK + j \in 1 .. upto
    BY <1>1, <1>5, <1>6
  <2> HIDE DEF s
  <2>3. /\ SubSeq(kept, s, m) \in Seq(Slots)
        /\ Len(SubSeq(kept, s, m)) = IF s <= m THEN m - s + 1 ELSE 0
        /\ \A i \in 1 .. m - s + 1 : SubSeq(kept, s, m)[i] = kept[s + i - 1]
    BY <1>9, <2>1, SliceFacts
  <2>4. \A j \in 1 .. BLOCK : SubSeq(kept, s, m)[j] = pool.slots[id][m - BLOCK + j]
    BY <1>9, <2>1, <2>2, <2>3
  <2> QED
    BY <2>1, <2>3, <2>4 DEF s
<1>11. /\ cache'.blocks[k] \in Entries
       /\ cache'.blocks[k].slots = SubSeq(kept, m - BLOCK + 1, m)
  <2>1. cache'.blocks[k] =
          [ slots |-> SubSeq(kept, m - BLOCK + 1, m), refs |-> 0, last_used |-> cache.tick + 1 ]
    BY <1>3, <1>7 DEF NewEntry
  <2>2. cache.tick + 1 \in Nat /\ 0 \in Nat
    BY <1>1
  <2>3. SubSeq(kept, m - BLOCK + 1, m) \in Seq(Slots)
    BY <1>10
  <2> QED
    BY ONLY <2>1, <2>2, <2>3 DEF Entries
<1> QED
  <2>1. a \in Nat \ {0}
    BY <1>5
  <2>2. Offered(id, upto, k, a)
    BY <1>4, <1>6, <1>7, <1>8, <1>10, <1>11 DEF Offered, m
  <2> QED
    BY <2>1, <2>2

LEMMA RetireInv ==
  ASSUME IInv, NEW id \in SeqIds, Retire(id)
  PROVE  IInv'
<1> DEFINE released == Release(cache, lease[id])
           upto == FullBlocks(text[id]) * BLOCK
           kept == SubSeq(pool.slots[id], 1, upto)
<1>1. TypeOK /\ id \in pool.live /\ pool \in Pools /\ cache.tick \in Nat
  BY DEF IInv, Retire, TypeOK
<1>2. pool.borrowed[id] \in Nat /\ pool.borrowed[id] <= SeqLen(pool, id) /\ SeqLen(pool, id) \in Nat
  BY <1>1, RowFacts
<1>3. /\ released.tick = cache.tick /\ DOMAIN released.blocks = DOMAIN cache.blocks
      /\ \A k \in DOMAIN cache.blocks :
           /\ released.blocks[k] \in Entries
           /\ released.blocks[k].slots = cache.blocks[k].slots
           /\ \/ released.blocks[k].refs >= cache.blocks[k].refs
              \/ k \in lease[id] /\ released.blocks[k].refs = cache.blocks[k].refs - 1
  BY <1>1, ReleaseKeeps
<1> HIDE DEF released
<1>4. CASE cache' = released /\ Drop(pool, id)
  <2>1. GivesBack(id, 0)
    BY <1>1, <1>2, <1>4, FreeGivesBack DEF Drop
  <2>2. \A k \in DOMAIN cache.blocks : Keeps(id, k)
    BY <1>3, <1>4 DEF Keeps
  <2>3. CacheTakes(id, 0)
    BY <1>1, <1>3, <1>4, <2>2 DEF CacheTakes
  <2>4. Clears(id)
    BY <1>4 DEF Drop, Clears
  <2> QED
    BY <1>2, <2>1, <2>3, <2>4, DropInv
<1>5. CASE /\ ~HadVision(text[id]) /\ upto > 0 /\ CanKeepPrefix(pool, id, upto)
           /\ cache' = Insert(released, kept, Ids(text[id]))
           /\ Drop(KeepPrefix(pool, id, upto), id)
  <2>1. upto \in Nat
    <3>1. Len(text[id]) \in Nat
      BY <1>1, RowFacts
    <3> QED
      BY <3>1, WholeBlocks
  <2>2. upto <= SeqLen(pool, id)
    BY <1>5 DEF CanKeepPrefix
  <2>3. ASSUME NEW k \in DOMAIN cache'.blocks \ DOMAIN cache.blocks
        PROVE  \E a \in Nat \ {0} : Offered(id, upto, k, a)
    BY <1>3, <1>5, <2>2, NewBlock
  <2> HIDE DEF upto, kept
  <2>4. GivesBack(id, upto)
    <3> DEFINE q == KeepPrefix(pool, id, upto)
    <3>1. /\ q \in Pools /\ q.live = pool.live /\ q.free = pool.free /\ q.slots = pool.slots
          /\ q.borrowed[id] = IF pool.borrowed[id] < upto THEN upto ELSE pool.borrowed[id]
          /\ \A other \in SeqIds \ {id} : q.borrowed[other] = pool.borrowed[other]
      BY <1>1, <2>1, KeepFacts
    <3>2. pool' = Free(q, id)
      BY <1>5 DEF Drop
    <3> HIDE DEF q
    <3>3. /\ upto <= q.borrowed[id] /\ pool.borrowed[id] <= q.borrowed[id]
          /\ q.borrowed[id] <= SeqLen(pool, id)
      BY <1>2, <2>1, <2>2, <3>1
    <3> QED
      BY <1>1, <2>1, <2>2, <3>1, <3>2, <3>3, FreeGivesBack
  <2>5. ASSUME NEW k \in DOMAIN cache.blocks
        PROVE  k \in DOMAIN cache'.blocks /\ Keeps(id, k)
    <3>1. \/ cache'.blocks[k] = released.blocks[k]
          \/ cache'.blocks[k] = [ released.blocks[k] EXCEPT !.last_used = released.tick + 1 ]
      BY <1>3, <1>5 DEF Insert
    <3>2. k \in DOMAIN cache'.blocks
      BY <1>3, <1>5 DEF Insert
    <3>3. /\ cache'.blocks[k] \in Entries
          /\ cache'.blocks[k].slots = released.blocks[k].slots
          /\ cache'.blocks[k].refs = released.blocks[k].refs
      BY <1>1, <1>3, <3>1 DEF Entries
    <3> QED
      BY <1>3, <3>2, <3>3 DEF Keeps
  <2>6. cache'.tick \in Nat
    BY <1>1, <1>3, <1>5 DEF Insert
  <2>7. CacheTakes(id, upto)
    BY <2>3, <2>5, <2>6 DEF CacheTakes
  <2>8. Clears(id)
    BY <1>5 DEF Drop, Clears
  <2> QED
    BY <2>1, <2>2, <2>4, <2>7, <2>8, DropInv
<1> QED
  BY <1>4, <1>5 DEF Retire, released

-----------------------------------------------------------------------------
(* A slot that a row reads, borrowed or owned, is not free. *)
LEMMA ReadIsNotFree ==
  ASSUME IInv, NEW id \in SeqIds, NEW pos \in 1 .. SeqLen(pool, id),
         NEW i \in 1 .. FreeSlots(pool)
  PROVE  pool.free[i] # pool.slots[id][pos]
<1>1. pool.borrowed[id] \in Nat /\ SeqLen(pool, id) \in Nat
  BY RowFacts DEF IInv
<1>2. CASE pos <= pool.borrowed[id]
  <2>1. pos \in 1 .. pool.borrowed[id]
    BY <1>1, <1>2
  <2>2. PICK k \in lease[id] : \E j \in 1 .. BLOCK : pool.slots[id][pos] = cache.blocks[k].slots[j]
    BY <2>1 DEF IInv, LeasesHold, BorrowsFromLease
  <2>3. k \in DOMAIN cache.blocks
    BY DEF IInv, LeasesHold
  <2> QED
    BY <2>2, <2>3 DEF IInv, OneOwner, FreeOrCached
<1>3. CASE ~(pos <= pool.borrowed[id])
  <2>1. pos \in OwnedPos(id)
    BY <1>1, <1>3 DEF OwnedPos
  <2> QED
    BY <2>1 DEF IInv, OneOwner, FreeOrOwned
<1> QED
  BY <1>2, <1>3

(* The pass writes the row's new slots, each with its own prefix, and no other. *)
LEMMA ForwardWrites ==
  ASSUME IInv, NEW id \in SeqIds, NEW n \in 1 .. MaxSeq, Forward(id, n)
  PROVE  /\ kv' \in [Slots -> Seq(Contents)]
         /\ \A i \in 1 .. n : kv'[pool.free[FreeSlots(pool) - i + 1]]
                                = SubSeq(text[id], 1, SeqLen(pool, id) + i)
         /\ \A s \in Slots : (\A i \in 1 .. FreeSlots(pool) : pool.free[i] # s) => kv'[s] = kv[s]
<1> DEFINE f == FreeSlots(pool)
           l == SeqLen(pool, id)
           pop == Popped(pool, n)
           prefix(j) == SubSeq(text[id], 1, l + j)
<1>1. /\ pool \in Pools /\ n \in Nat /\ n >= 1 /\ f \in Nat /\ l \in Nat /\ n <= f
      /\ CanExtend(pool, id, n) /\ l + n <= Len(text[id])
      /\ text[id] \in Seq(Contents) /\ pool.free \in Seq(Slots) /\ f = Len(pool.free)
      /\ kv \in [Slots -> Seq(Contents)]
  BY RowFacts, PoolSizes, PoolFields DEF IInv, TypeOK, Forward, CanExtend, FreeSlots
<1>2. \A i \in 1 .. n : pop[i] = pool.free[f - i + 1]
  BY <1>1, ExtendFacts
<1>3. kv' = [ s \in Slots |-> IF \E i \in 1 .. n : s = pop[i]
                              THEN prefix(CHOOSE j \in 1 .. n : s = pop[j])
                              ELSE kv[s] ]
  BY DEF Forward
<1>4. \A j \in 1 .. n : prefix(j) \in Seq(Contents)
  <2> SUFFICES ASSUME NEW j \in 1 .. n PROVE prefix(j) \in Seq(Contents)
    OBVIOUS
  <2>1. 1 \in 1 .. Len(text[id]) + 1 /\ l + j \in 0 .. Len(text[id])
    BY <1>1, LenProperties
  <2> QED
    BY <1>1, <2>1, SliceFacts
<1> HIDE DEF pop, prefix, f, l
<1>5. kv' \in [Slots -> Seq(Contents)]
  <2>1. ASSUME NEW s \in Slots
        PROVE  kv'[s] \in Seq(Contents)
    <3>1. CASE \E i \in 1 .. n : s = pop[i]
      <4>1. (CHOOSE j \in 1 .. n : s = pop[j]) \in 1 .. n
        BY <3>1
      <4> QED
        BY <1>3, <1>4, <3>1, <4>1
    <3>2. CASE ~ \E i \in 1 .. n : s = pop[i]
      BY <1>1, <1>3, <3>2
    <3> QED
      BY <3>1, <3>2
  <2> QED
    BY <1>3, <2>1
<1>6. ASSUME NEW i \in 1 .. n
      PROVE  kv'[pool.free[f - i + 1]] = prefix(i)
  <2> DEFINE s == pool.free[f - i + 1]
  <2>1. f - i + 1 \in 1 .. f
    BY <1>1
  <2>2. s \in Slots
    BY <1>1, <2>1, ElementOfSeq
  <2>3. s = pop[i]
    BY <1>2
  <2>4. ASSUME NEW j \in 1 .. n, s = pop[j]
        PROVE  j = i
    <3>1. pool.free[f - i + 1] = pool.free[f - j + 1] /\ f - j + 1 \in 1 .. f
      BY <1>1, <1>2, <2>4
    <3>2. f - i + 1 = f - j + 1
      BY <2>1, <3>1 DEF IInv, OneOwner, FreeOnce, f
    <3> QED
      BY <1>1, <3>2
  <2> HIDE DEF s
  <2>5. (CHOOSE j \in 1 .. n : s = pop[j]) = i
    BY <2>3, <2>4
  <2>6. kv'[s] = prefix(CHOOSE j \in 1 .. n : s = pop[j])
    BY <1>3, <2>2, <2>3
  <2> QED
    BY <2>5, <2>6 DEF s
<1>7. ASSUME NEW s \in Slots, \A i \in 1 .. f : pool.free[i] # s
      PROVE  kv'[s] = kv[s]
  <2>1. \A i \in 1 .. n : s # pop[i]
    <3> SUFFICES ASSUME NEW i \in 1 .. n PROVE s # pop[i]
      OBVIOUS
    <3>1. f - i + 1 \in 1 .. f
      BY <1>1
    <3> QED
      BY <1>2, <1>7, <3>1
  <2> QED
    BY <1>3, <2>1
<1> QED
  BY <1>5, <1>6, <1>7 DEF f, l, prefix

LEMMA ForwardInv ==
  ASSUME IInv, NEW id \in SeqIds, NEW n \in 1 .. MaxSeq, Forward(id, n)
  PROVE  IInv'
<1> DEFINE f == FreeSlots(pool)
           l == SeqLen(pool, id)
<1>1. /\ TypeOK /\ OneOwner /\ LeasesHold /\ CacheServesItsKey /\ ReadsOwnKv
      /\ pool \in Pools /\ n \in Nat /\ n >= 1 /\ f \in Nat /\ l \in Nat /\ n <= f
      /\ l + n <= Len(text[id]) /\ CanExtend(pool, id, n)
      /\ pool' = Extend(pool, id, n) /\ UNCHANGED << cache, lease, text >>
  BY RowFacts, PoolSizes DEF IInv, TypeOK, Forward, CanExtend
<1>2. /\ pool' \in Pools /\ pool'.live = pool.live /\ pool'.borrowed = pool.borrowed
      /\ FreeSlots(pool') = f - n
      /\ \A i \in 1 .. f - n : pool'.free[i] = pool.free[i]
      /\ \A other \in SeqIds \ {id} : pool'.slots[other] = pool.slots[other]
      /\ SeqLen(pool', id) = l + n
      /\ \A pos \in 1 .. l : pool'.slots[id][pos] = pool.slots[id][pos]
      /\ \A i \in 1 .. n : pool'.slots[id][l + i] = pool.free[f - i + 1]
  BY <1>1, ExtendFacts
<1>3. /\ kv' \in [Slots -> Seq(Contents)]
      /\ \A i \in 1 .. n : kv'[pool.free[f - i + 1]] = SubSeq(text[id], 1, l + i)
      /\ \A s \in Slots : (\A i \in 1 .. f : pool.free[i] # s) => kv'[s] = kv[s]
  BY ForwardWrites
<1> HIDE DEF f, l
<1>4. \A other \in SeqIds \ {id} : SeqLen(pool', other) = SeqLen(pool, other)
  BY <1>2 DEF SeqLen
<1>5. ASSUME NEW other \in SeqIds, NEW pos \in 1 .. SeqLen(pool', other)
      PROVE  \/ /\ pos \in 1 .. SeqLen(pool, other)
                /\ pool'.slots[other][pos] = pool.slots[other][pos]
             \/ /\ other = id
                /\ \E i \in 1 .. n : pos = l + i /\ pool'.slots[id][pos] = pool.free[f - i + 1]
  <2>1. CASE other # id
    BY <1>2, <1>4, <2>1
  <2>2. CASE other = id /\ pos <= l
    <3>1. pos \in 1 .. l
      BY <1>1, <1>2, <2>2
    <3> QED
      BY <1>2, <2>2, <3>1 DEF l
  <2>3. CASE other = id /\ ~(pos <= l)
    <3>1. pos - l \in 1 .. n /\ pos = l + (pos - l)
      BY <1>1, <1>2, <2>3
    <3> QED
      BY <1>2, <2>3, <3>1
  <2> QED
    BY <2>1, <2>2, <2>3
<1>6. ASSUME NEW other \in SeqIds, NEW pos \in OwnedPos(other)'
      PROVE  \/ pos \in OwnedPos(other) /\ pool'.slots[other][pos] = pool.slots[other][pos]
             \/ /\ other = id
                /\ \E i \in 1 .. n : pos = l + i /\ pool'.slots[id][pos] = pool.free[f - i + 1]
  <2>1. /\ pool.borrowed[other] \in Nat /\ SeqLen(pool, other) \in Nat
        /\ SeqLen(pool', other) \in Nat
    BY <1>1, <1>2, RowFacts, PoolFields
  <2>2. pos \in Int /\ pos >= pool.borrowed[other] + 1 /\ pos \in 1 .. SeqLen(pool', other)
    BY <1>2, <2>1 DEF OwnedPos
  <2>3. pos \in 1 .. SeqLen(pool, other) => pos \in OwnedPos(other)
    BY <2>1, <2>2 DEF OwnedPos
  <2> QED
    BY <1>5, <2>2, <2>3
<1>7. TypeOK'
  <2>1. ASSUME NEW other \in SeqIds
        PROVE  /\ pool'.borrowed[other] <= SeqLen(pool', other)
               /\ SeqLen(pool', other) <= Len(text'[other])
               /\ other \notin pool'.live => text'[other] = << >>
    <3>1. CASE other = id
      <4>1. pool.borrowed[id] \in Nat /\ pool.borrowed[id] <= l
        BY <1>1, RowFacts DEF l
      <4>2. pool.borrowed[id] <= l + n
        BY <1>1, <4>1
      <4> QED
        BY <1>1, <1>2, <3>1, <4>2 DEF TypeOK
    <3>2. CASE other # id
      BY <1>1, <1>2, <1>4, <3>2 DEF TypeOK
    <3> QED
      BY <3>1, <3>2
  <2> QED
    BY <1>1, <1>2, <1>3, <2>1 DEF TypeOK
<1>8. \A i \in 1 .. FreeSlots(pool') : i \in 1 .. f - n /\ i \in 1 .. f /\ pool'.free[i] = pool.free[i]
  BY <1>1, <1>2
<1>9. \A i \in 1 .. n : f - i + 1 \in 1 .. f /\ f - i + 1 \notin 1 .. f - n
  BY <1>1
<1>10. /\ FreeOnce /\ FreeOrOwned /\ FreeOrCached /\ OwnedOnce /\ OwnedOrCached /\ CachedOnce
  BY <1>1 DEF OneOwner
<1>11. OneOwner'
  <2>1. FreeOnce'
    BY <1>8, <1>10 DEF FreeOnce, f
  <2>2. FreeOrOwned'
    <3> SUFFICES ASSUME NEW i \in 1 .. FreeSlots(pool'), NEW other \in SeqIds,
                        NEW pos \in OwnedPos(other)'
                 PROVE  pool'.free[i] # pool'.slots[other][pos]
      BY DEF FreeOrOwned
    <3>1. CASE pos \in OwnedPos(other) /\ pool'.slots[other][pos] = pool.slots[other][pos]
      BY <1>8, <1>10, <3>1 DEF FreeOrOwned, f
    <3>2. CASE other = id /\ \E m \in 1 .. n : pool'.slots[id][pos] = pool.free[f - m + 1]
      BY <1>8, <1>9, <1>10, <3>2 DEF FreeOnce, f
    <3> QED
      BY <1>6, <3>1, <3>2
  <2>3. FreeOrCached'
    BY <1>1, <1>8, <1>10 DEF FreeOrCached, f
  <2>4. OwnedOnce'
    <3> SUFFICES ASSUME NEW a \in SeqIds, NEW b \in SeqIds,
                        NEW p \in OwnedPos(a)', NEW q \in OwnedPos(b)',
                        pool'.slots[a][p] = pool'.slots[b][q]
                 PROVE  a = b /\ p = q
      BY DEF OwnedOnce
    <3> DEFINE old(c, r) == r \in OwnedPos(c) /\ pool'.slots[c][r] = pool.slots[c][r]
               fresh(c, r) == /\ c = id
                              /\ \E i \in 1 .. n : /\ r = l + i
                                                   /\ pool'.slots[id][r] = pool.free[f - i + 1]
    <3>1. CASE old(a, p) /\ old(b, q)
      <4>1. p \in OwnedPos(a) /\ q \in OwnedPos(b) /\ pool.slots[a][p] = pool.slots[b][q]
        BY <3>1
      <4>2. OwnedOnce
        BY <1>10
      <4> QED
        BY ONLY <4>1, <4>2, a \in SeqIds, b \in SeqIds DEF OwnedOnce
    <3>2. CASE old(a, p) /\ fresh(b, q)
      BY <1>9, <1>10, <3>2 DEF FreeOrOwned, f
    <3>3. CASE fresh(a, p) /\ old(b, q)
      BY <1>9, <1>10, <3>3 DEF FreeOrOwned, f
    <3>4. CASE fresh(a, p) /\ fresh(b, q)
      <4>1. PICK i \in 1 .. n : p = l + i /\ pool'.slots[id][p] = pool.free[f - i + 1]
        BY <3>4
      <4>2. PICK j \in 1 .. n : q = l + j /\ pool'.slots[id][q] = pool.free[f - j + 1]
        BY <3>4
      <4>3. f - i + 1 = f - j + 1
        BY <1>9, <1>10, <3>4, <4>1, <4>2 DEF FreeOnce, f
      <4>4. i = j
        BY <1>1, <4>3
      <4> QED
        BY <3>4, <4>1, <4>2, <4>4
    <3>5. (old(a, p) \/ fresh(a, p)) /\ (old(b, q) \/ fresh(b, q))
      BY <1>6
    <3> QED
      BY <3>1, <3>2, <3>3, <3>4, <3>5
  <2>5. OwnedOrCached'
    <3> SUFFICES ASSUME NEW other \in SeqIds, NEW k \in DOMAIN cache.blocks,
                        NEW pos \in OwnedPos(other)', NEW j \in 1 .. BLOCK
                 PROVE  pool'.slots[other][pos] # cache.blocks[k].slots[j]
      BY <1>1 DEF OwnedOrCached
    <3>1. CASE pos \in OwnedPos(other) /\ pool'.slots[other][pos] = pool.slots[other][pos]
      BY <1>10, <3>1 DEF OwnedOrCached
    <3>2. CASE other = id /\ \E m \in 1 .. n : pool'.slots[id][pos] = pool.free[f - m + 1]
      BY <1>9, <1>10, <3>2 DEF FreeOrCached, f
    <3> QED
      BY <1>6, <3>1, <3>2
  <2>6. CachedOnce'
    BY <1>1, <1>10 DEF CachedOnce
  <2> QED
    BY <2>1, <2>2, <2>3, <2>4, <2>5, <2>6 DEF OneOwner
<1>12. LeasesHold'
  <2>1. \A other \in SeqIds : LeaseIsPrefix(other)'
    BY <1>1, <1>2 DEF LeasesHold, LeaseIsPrefix
  <2>2. ASSUME NEW other \in SeqIds PROVE BorrowsFromLease(other)'
    <3>1. \A pos \in 1 .. pool.borrowed[other] : pool'.slots[other][pos] = pool.slots[other][pos]
      <4>1. /\ pool.borrowed[other] \in Nat /\ pool.borrowed[other] <= SeqLen(pool, other)
            /\ SeqLen(pool, other) \in Nat
        BY <1>1, RowFacts
      <4> QED
        BY <1>2, <4>1 DEF l
    <3>2. BorrowsFromLease(other)
      BY <1>1 DEF LeasesHold
    <3>3. cache' = cache /\ lease' = lease /\ pool'.borrowed = pool.borrowed
      BY <1>1, <1>2
    <3> QED
      BY ONLY <3>1, <3>2, <3>3 DEF BorrowsFromLease
  <2> QED
    BY <1>1, <2>1, <2>2 DEF LeasesHold, Readers
<1>13. CacheServesItsKey'
  <2> SUFFICES ASSUME NEW k \in DOMAIN cache.blocks, NEW j \in 1 .. BLOCK
               PROVE  kv'[cache.blocks[k].slots[j]] = SubSeq(k, 1, Len(k) - BLOCK + j)
    BY <1>1 DEF CacheServesItsKey
  <2>1. /\ cache.blocks[k].slots[j] \in Slots
        /\ \A i \in 1 .. f : pool.free[i] # cache.blocks[k].slots[j]
    BY <1>1, <1>10, BlockFacts DEF FreeOrCached, f
  <2> QED
    BY <1>1, <1>3, <2>1 DEF CacheServesItsKey
<1>14. ReadsOwnKv'
  <2> SUFFICES ASSUME NEW other \in SeqIds, NEW pos \in 1 .. SeqLen(pool', other)
               PROVE  kv'[pool'.slots[other][pos]] = SubSeq(text[other], 1, pos)
    BY <1>1 DEF ReadsOwnKv
  <2>1. CASE pos \in 1 .. SeqLen(pool, other) /\ pool'.slots[other][pos] = pool.slots[other][pos]
    <3>1. pool.slots[other] \in Seq(Slots) /\ SeqLen(pool, other) = Len(pool.slots[other])
      BY <1>1, RowFacts DEF SeqLen
    <3>2. pool.slots[other][pos] \in Slots
      BY <2>1, <3>1, ElementOfSeq
    <3>3. \A i \in 1 .. f : pool.free[i] # pool.slots[other][pos]
      BY <2>1, ReadIsNotFree DEF f
    <3> QED
      BY <1>1, <1>3, <2>1, <3>2, <3>3 DEF ReadsOwnKv
  <2>2. CASE /\ other = id
             /\ \E i \in 1 .. n : pos = l + i /\ pool'.slots[id][pos] = pool.free[f - i + 1]
    BY <1>3, <2>2
  <2> QED
    BY <1>5, <2>1, <2>2
<1> QED
  BY <1>7, <1>11, <1>12, <1>13, <1>14 DEF IInv

-----------------------------------------------------------------------------
(* Positions by block: the a-th block and the j-th place in it. *)
BlockOf(pos) == ((pos - 1) \div BLOCK) + 1
PlaceOf(pos) == ((pos - 1) % BLOCK) + 1

LEMMA BlockAndPlace ==
  ASSUME NEW n \in Nat, NEW pos \in 1 .. n * BLOCK
  PROVE  /\ BlockOf(pos) \in 1 .. n /\ PlaceOf(pos) \in 1 .. BLOCK
         /\ pos = BlockOf(pos) * BLOCK - BLOCK + PlaceOf(pos)
<1> DEFINE x == pos - 1
           d == x \div BLOCK
           r == x % BLOCK
<1>1. BLOCK \in Nat \ {0} /\ n * BLOCK \in Nat
  <2>1. BLOCK \in Nat \ {0}
    BY BlockSize
  <2> QED
    BY <2>1, TimesMonotone
<1>2. x \in Nat /\ x < n * BLOCK /\ pos = x + 1
  BY <1>1
<1> HIDE DEF x
<1>3. d \in Nat /\ r \in 0 .. BLOCK - 1 /\ x = d * BLOCK + r
  BY ONLY <1>1, <1>2
<1> HIDE DEF d, r
<1>4. d < n
  <2>1. SUFFICES ASSUME n <= d PROVE FALSE
    BY <1>3
  <2>2. n * BLOCK <= d * BLOCK /\ d * BLOCK \in Nat
    BY <1>1, <1>3, <2>1, TimesMonotone
  <2> QED
    BY <1>1, <1>2, <1>3, <2>2
<1>5. d + 1 \in 1 .. n /\ r + 1 \in 1 .. BLOCK
  BY <1>1, <1>3, <1>4
<1>6. (d + 1) * BLOCK = d * BLOCK + BLOCK
  BY ONLY <1>1, <1>3
<1>7. pos = (d + 1) * BLOCK - BLOCK + (r + 1)
  <2>1. d * BLOCK \in Nat
    BY <1>1, <1>3, TimesMonotone
  <2> QED
    BY <1>1, <1>2, <1>3, <1>6, <2>1
<1> QED
  BY <1>5, <1>7 DEF BlockOf, PlaceOf, x, d, r

(* What an admitted row borrows: n blocks of its prompt, in order. *)
Borrows(id, prompt, n) ==
  /\ pool' \in Pools
  /\ pool'.live = pool.live \cup {id}
  /\ pool'.free = pool.free
  /\ \A other \in SeqIds \ {id} :
       pool'.slots[other] = pool.slots[other] /\ pool'.borrowed[other] = pool.borrowed[other]
  /\ pool'.borrowed[id] = n * BLOCK /\ SeqLen(pool', id) = n * BLOCK
  /\ \A pos \in 1 .. n * BLOCK :
       pool'.slots[id][pos] = cache.blocks[KeyOf(prompt, BlockOf(pos))].slots[PlaceOf(pos)]

(* What the lookup does to the cache and the leases. *)
Leases(id, hit) ==
  /\ hit \subseteq DOMAIN cache.blocks
  /\ cache'.tick \in Nat
  /\ DOMAIN cache'.blocks = DOMAIN cache.blocks
  /\ \A k \in DOMAIN cache.blocks :
       /\ cache'.blocks[k] \in Entries
       /\ cache'.blocks[k].slots = cache.blocks[k].slots
       /\ cache'.blocks[k].refs = cache.blocks[k].refs + (IF k \in hit THEN 1 ELSE 0)
  /\ lease' = [lease EXCEPT ![id] = hit]

LEMMA BorrowInv ==
  ASSUME IInv, NEW id \in SeqIds \ pool.live, NEW prompt \in Prompts,
         NEW n \in Nat, n * BLOCK <= Len(prompt),
         Borrows(id, prompt, n), Leases(id, HitKeys(prompt, n)),
         text' = [text EXCEPT ![id] = prompt], kv' = kv
  PROVE  IInv'
<1> DEFINE hit == HitKeys(prompt, n)
<1>1. /\ TypeOK /\ OneOwner /\ LeasesHold /\ CacheServesItsKey /\ ReadsOwnKv
      /\ BLOCK \in Nat \ {0} /\ prompt \in Seq(Contents) /\ Len(prompt) \in Nat
      /\ n * BLOCK \in Nat
  <2>1. prompt \in Seq(Contents)
    BY TextIsTokens
  <2> QED
    BY <2>1, BlockSize, LenProperties, TimesMonotone DEF IInv
<1>2. lease[id] = {} /\ text[id] = << >>
  BY DeadRow
<1>3. /\ hit \subseteq DOMAIN cache.blocks
      /\ lease' = [lease EXCEPT ![id] = hit]
      /\ DOMAIN cache'.blocks = DOMAIN cache.blocks
      /\ \A k \in DOMAIN cache.blocks : cache'.blocks[k].slots = cache.blocks[k].slots
  BY DEF Leases
<1>4. ASSUME NEW a \in 1 .. n
      PROVE  KeyOf(prompt, a) \in hit /\ KeyOf(prompt, a) \in DOMAIN cache.blocks
  BY <1>3 DEF HitKeys
<1> HIDE DEF hit
<1>5. /\ lease'[id] = hit /\ text'[id] = prompt
      /\ \A other \in SeqIds \ {id} : lease'[other] = lease[other] /\ text'[other] = text[other]
      /\ lease' \in [SeqIds -> SUBSET Keys] /\ text' \in [SeqIds -> Seq(Contents)]
  BY <1>1, <1>3 DEF TypeOK
<1>6. /\ OwnedPos(id)' = {}
      /\ \A other \in SeqIds \ {id} :
           SeqLen(pool', other) = SeqLen(pool, other) /\ OwnedPos(other)' = OwnedPos(other)
  <2>1. n * BLOCK + 1 .. n * BLOCK = {}
    BY <1>1
  <2> QED
    BY <2>1 DEF Borrows, OwnedPos, SeqLen
<1>7. TypeOK'
  <2>1. ASSUME NEW other \in SeqIds
        PROVE  /\ pool'.borrowed[other] <= SeqLen(pool', other)
               /\ SeqLen(pool', other) <= Len(text'[other])
               /\ other \notin pool'.live => text'[other] = << >>
    <3>1. CASE other = id
      BY <1>1, <1>5, <3>1 DEF Borrows
    <3>2. CASE other # id
      BY <1>1, <1>5, <1>6, <3>2 DEF Borrows, TypeOK
    <3> QED
      BY <3>1, <3>2
  <2>2. ASSUME NEW k \in DOMAIN cache'.blocks
        PROVE  /\ k \in Keys
               /\ cache'.blocks[k] \in Entries
               /\ Len(cache'.blocks[k].slots) = BLOCK
               /\ Len(k) >= BLOCK
    BY <1>1, <1>3 DEF Leases, TypeOK
  <2>3. pool' \in Pools /\ cache'.tick \in Nat /\ kv' \in [Slots -> Seq(Contents)]
    BY <1>1 DEF Borrows, Leases, TypeOK
  <2> QED
    BY <1>5, <2>1, <2>2, <2>3 DEF TypeOK
<1>8. OneOwner'
  <2>1. /\ FreeOnce /\ FreeOrOwned /\ FreeOrCached /\ OwnedOnce /\ OwnedOrCached /\ CachedOnce
    BY <1>1 DEF OneOwner
  <2>2. pool'.free = pool.free /\ FreeSlots(pool') = FreeSlots(pool)
    BY DEF Borrows, FreeSlots
  <2>3. ASSUME NEW other \in SeqIds, NEW pos \in OwnedPos(other)'
        PROVE  pos \in OwnedPos(other) /\ pool'.slots[other][pos] = pool.slots[other][pos]
    BY <1>6 DEF Borrows
  <2>4. FreeOnce' /\ FreeOrCached' /\ CachedOnce'
    BY <1>3, <2>1, <2>2 DEF FreeOnce, FreeOrCached, CachedOnce
  <2>5. FreeOrOwned'
    BY <2>1, <2>2, <2>3 DEF FreeOrOwned
  <2>6. OwnedOnce'
    BY <2>1, <2>3 DEF OwnedOnce
  <2>7. OwnedOrCached'
    BY <1>3, <2>1, <2>3 DEF OwnedOrCached
  <2> QED
    BY <2>4, <2>5, <2>6, <2>7 DEF OneOwner
<1>9. LeasesHold'
  <2>1. \A other \in SeqIds : lease'[other] \subseteq DOMAIN cache'.blocks
    BY <1>1, <1>3, <1>5 DEF LeasesHold
  <2>2. LeaseIsPrefix(id)'
    <3>1. n <= n * BLOCK
      <4>1. n * 1 <= n * BLOCK
        BY ONLY <1>1, n \in Nat
      <4> QED
        BY <4>1
    <3>2. n \in 0 .. Len(prompt)
      BY <1>1, <3>1
    <3>3. pool'.borrowed[id] = n * BLOCK
      BY DEF Borrows
    <3> QED
      BY <1>5, <3>2, <3>3 DEF LeaseIsPrefix, hit
  <2>3. BorrowsFromLease(id)'
    <3> SUFFICES ASSUME NEW pos \in 1 .. n * BLOCK
                 PROVE  \E k \in hit : \E j \in 1 .. BLOCK :
                          pool'.slots[id][pos] = cache'.blocks[k].slots[j]
      BY <1>5 DEF BorrowsFromLease, Borrows
    <3>1. BlockOf(pos) \in 1 .. n /\ PlaceOf(pos) \in 1 .. BLOCK
      BY BlockAndPlace
    <3>2. /\ KeyOf(prompt, BlockOf(pos)) \in hit
          /\ cache'.blocks[KeyOf(prompt, BlockOf(pos))].slots
               = cache.blocks[KeyOf(prompt, BlockOf(pos))].slots
      BY <1>3, <1>4, <3>1
    <3>3. pool'.slots[id][pos] = cache.blocks[KeyOf(prompt, BlockOf(pos))].slots[PlaceOf(pos)]
      BY DEF Borrows
    <3> QED
      BY <3>1, <3>2, <3>3
  <2>4. \A other \in SeqIds \ {id} : LeaseIsPrefix(other)'
    BY <1>1, <1>5 DEF LeasesHold, LeaseIsPrefix, Borrows
  <2>5. ASSUME NEW other \in SeqIds \ {id} PROVE BorrowsFromLease(other)'
    <3>1. BorrowsFromLease(other) /\ lease[other] \subseteq DOMAIN cache.blocks
      BY <1>1 DEF LeasesHold
    <3>2. \A k \in lease[other] : cache'.blocks[k].slots = cache.blocks[k].slots
      BY <1>3, <3>1
    <3>3. /\ pool'.borrowed[other] = pool.borrowed[other]
          /\ pool'.slots[other] = pool.slots[other] /\ lease'[other] = lease[other]
      BY <1>5 DEF Borrows
    <3> QED
      BY ONLY <3>1, <3>2, <3>3 DEF BorrowsFromLease
  <2>6. ASSUME NEW k \in DOMAIN cache'.blocks
        PROVE  cache'.blocks[k].refs >= Cardinality(Readers(k)')
    <3>1. k \in DOMAIN cache.blocks
      BY <1>3
    <3>2. IsFiniteSet(Readers(k)) /\ Cardinality(Readers(k)) \in Nat
      BY ReadersFinite
    <3>3. cache.blocks[k].refs >= Cardinality(Readers(k)) /\ cache.blocks[k].refs \in Nat
      BY <1>1, <3>1, BlockFacts DEF LeasesHold
    <3>4. id \notin Readers(k)
      BY <1>2 DEF Readers
    <3>5. CASE k \in hit
      <4>1. Readers(k)' = Readers(k) \cup {id}
        BY <1>5, <3>5 DEF Readers
      <4>2. Cardinality(Readers(k)') = Cardinality(Readers(k)) + 1
        BY <3>2, <3>4, <4>1, FS_AddElement
      <4>3. cache'.blocks[k].refs = cache.blocks[k].refs + 1
        BY <3>1, <3>5 DEF Leases, hit
      <4> QED
        BY <3>2, <3>3, <4>2, <4>3
    <3>6. CASE k \notin hit
      <4>1. Readers(k)' = Readers(k)
        BY <1>2, <1>5, <3>6 DEF Readers
      <4>2. cache'.blocks[k].refs = cache.blocks[k].refs + 0
        BY <3>1, <3>6 DEF Leases, hit
      <4> QED
        BY <3>2, <3>3, <4>1, <4>2
    <3> QED
      BY <3>5, <3>6
  <2> QED
    BY <2>1, <2>2, <2>3, <2>4, <2>5, <2>6 DEF LeasesHold
<1>10. CacheServesItsKey'
  BY <1>1, <1>3 DEF CacheServesItsKey
<1>11. ReadsOwnKv'
  <2> SUFFICES ASSUME NEW other \in SeqIds, NEW pos \in 1 .. SeqLen(pool', other)
               PROVE  kv[pool'.slots[other][pos]] = SubSeq(text'[other], 1, pos)
    BY DEF ReadsOwnKv
  <2>1. CASE other # id
    BY <1>1, <1>5, <1>6, <2>1 DEF ReadsOwnKv, Borrows
  <2>2. CASE other = id
    <3> DEFINE a == BlockOf(pos)
               j == PlaceOf(pos)
               k == KeyOf(prompt, a)
               m == a * BLOCK
    <3>1. pos \in 1 .. n * BLOCK
      BY <2>2 DEF Borrows
    <3>2. a \in 1 .. n /\ j \in 1 .. BLOCK /\ pos = m - BLOCK + j
      BY <3>1, BlockAndPlace
    <3>3. k \in DOMAIN cache.blocks /\ k = SubSeq(prompt, 1, m)
      BY <1>4, <3>2 DEF KeyOf
    <3>4. pool'.slots[id][pos] = cache.blocks[k].slots[j]
      BY <3>1 DEF Borrows
    <3>5. m \in Nat /\ m >= BLOCK /\ m <= n * BLOCK
      <4>1. a \in Nat /\ 1 \in Nat /\ 1 <= a /\ a <= n /\ BLOCK \in Nat
        BY <1>1, <3>2
      <4>2. 1 * BLOCK <= a * BLOCK /\ a * BLOCK <= n * BLOCK /\ a * BLOCK \in Nat
        BY <4>1, TimesMonotone
      <4> QED
        BY <1>1, <4>2
    <3> HIDE DEF a, j, k, m
    <3>6. m \in 0 .. Len(prompt) /\ pos \in 0 .. m
      BY <1>1, <3>2, <3>5
    <3>7. Len(k) = m
      <4>1. 1 \in 1 .. Len(prompt) + 1 /\ 1 <= m
        BY <1>1, <3>5
      <4>2. Len(SubSeq(prompt, 1, m)) = IF 1 <= m THEN m - 1 + 1 ELSE 0
        BY <1>1, <3>6, <4>1, SliceFacts
      <4> QED
        BY <3>3, <3>5, <4>1, <4>2
    <3>8. kv[cache.blocks[k].slots[j]] = SubSeq(k, 1, m - BLOCK + j)
      BY <1>1, <3>2, <3>3, <3>7 DEF CacheServesItsKey
    <3>9. SubSeq(SubSeq(prompt, 1, m), 1, pos) = SubSeq(prompt, 1, pos)
      BY <1>1, <3>6, PrefixOfPrefix
    <3> QED
      BY <1>5, <2>2, <3>2, <3>3, <3>4, <3>8, <3>9
  <2> QED
    BY <2>1, <2>2
<1> QED
  BY <1>7, <1>8, <1>9, <1>10, <1>11 DEF IInv

(* Slots of cached blocks laid end to end are a sequence of slots. *)
LEMMA HitSlotsFacts ==
  ASSUME TypeOK, NEW t, NEW n \in Nat,
         \A i \in 1 .. n : KeyOf(t, i) \in DOMAIN cache.blocks
  PROVE  LET s == HitSlots(cache, t, n)
         IN  /\ s \in Seq(Slots) /\ Len(s) = n * BLOCK
             /\ \A pos \in 1 .. n * BLOCK :
                  s[pos] = cache.blocks[KeyOf(t, BlockOf(pos))].slots[PlaceOf(pos)]
<1> DEFINE m == n * BLOCK
           at(pos) == cache.blocks[KeyOf(t, BlockOf(pos))].slots[PlaceOf(pos)]
<1>1. m \in Nat
  BY BlockSize, TimesMonotone
<1>2. HitSlots(cache, t, n) = [ pos \in 1 .. m |-> at(pos) ]
  BY DEF HitSlots, BlockOf, PlaceOf
<1>3. ASSUME NEW pos \in 1 .. m
      PROVE  at(pos) \in Slots
  <2>1. BlockOf(pos) \in 1 .. n /\ PlaceOf(pos) \in 1 .. BLOCK
    BY BlockAndPlace
  <2> QED
    BY <2>1, BlockFacts
<1> HIDE DEF m, at
<1>4. [ pos \in 1 .. m |-> at(pos) ] \in Seq(Slots) /\ Len([ pos \in 1 .. m |-> at(pos) ]) = m
  BY <1>1, <1>3
<1> QED
  BY <1>2, <1>4 DEF m, at

(* A block hit once more. *)
LEMMA WarmEntry ==
  ASSUME NEW e \in Entries, NEW now \in Nat
  PROVE  /\ [ e EXCEPT !.refs = @ + 1, !.last_used = now ] \in Entries
         /\ [ e EXCEPT !.refs = @ + 1, !.last_used = now ].slots = e.slots
         /\ [ e EXCEPT !.refs = @ + 1, !.last_used = now ].refs = e.refs + 1
<1> DEFINE x == [ e EXCEPT !.refs = @ + 1 ]
           y == [ x EXCEPT !.last_used = now ]
<1>1. [ e EXCEPT !.refs = @ + 1, !.last_used = now ] = y
  BY DEF Entries
<1>2. x \in Entries /\ x.slots = e.slots /\ x.refs = e.refs + 1
  BY DEF Entries
<1> HIDE DEF x
<1>3. y \in Entries /\ y.slots = x.slots /\ y.refs = x.refs
  BY <1>2 DEF Entries
<1> QED
  BY <1>1, <1>2, <1>3, Zenon

LEMMA AdmitInv ==
  ASSUME IInv, NEW id \in SeqIds, NEW prompt \in Prompts, Admit(id, prompt)
  PROVE  IInv'
<1>1. /\ TypeOK /\ pool \in Pools /\ id \in SeqIds \ pool.live
      /\ prompt \in Seq(Contents) /\ Len(prompt) \in Nat
      /\ BLOCK \in Nat \ {0} /\ cache.tick \in Nat
  BY TextIsTokens, BlockSize, LenProperties DEF IInv, TypeOK, Admit, CanAlloc
<1>2. /\ text' = [text EXCEPT ![id] = prompt] /\ kv' = kv
      /\ lease \in [SeqIds -> SUBSET Keys]
  BY <1>1 DEF Admit, TypeOK
<1> DEFINE q == Alloc(pool, id)
<1>3. /\ q \in Pools /\ q.live = pool.live \cup {id} /\ q.free = pool.free
      /\ q.slots = pool.slots /\ q.borrowed = pool.borrowed
  BY <1>1, AllocFacts
<1> HIDE DEF q
<1>4. CASE HadVision(prompt)
  <2>1. pool' = q /\ cache' = cache /\ lease' = lease
    BY <1>4 DEF Admit, q
  <2>2. lease[id] = {} /\ pool.borrowed[id] = 0 /\ SeqLen(pool, id) = 0
    BY <1>1, DeadRow
  <2>3. 0 * BLOCK = 0 /\ 1 .. 0 = {} /\ HitKeys(prompt, 0) = {}
    BY <1>1 DEF HitKeys
  <2>4. Borrows(id, prompt, 0)
    BY <1>3, <2>1, <2>2, <2>3 DEF Borrows, SeqLen
  <2>5. Leases(id, HitKeys(prompt, 0))
    <3>1. \A k \in DOMAIN cache.blocks : /\ cache.blocks[k] \in Entries
                                         /\ cache.blocks[k].refs + 0 = cache.blocks[k].refs
      BY <1>1 DEF TypeOK, Entries
    <3>2. lease = [lease EXCEPT ![id] = {}]
      BY <1>2, <2>2
    <3> QED
      BY <1>1, <2>1, <2>3, <3>1, <3>2 DEF Leases
  <2>6. 0 * BLOCK <= Len(prompt)
    BY <1>1, <2>3
  <2> QED
    BY <1>1, <1>2, <2>4, <2>5, <2>6, BorrowInv
<1>5. CASE ~HadVision(prompt)
  <2>1. Ids(prompt) = prompt
    <3>1. \A i \in 1 .. Len(prompt) : prompt[i] \notin Images
      BY <1>5 DEF HadVision
    <3>2. Ids(prompt) = [i \in 1 .. Len(prompt) |-> prompt[i]]
      BY <3>1 DEF Ids
    <3> QED
      BY <1>1, <3>2
  <2>2. PICK n \in 0 .. FullBlocks(prompt) :
          /\ Longest(cache, prompt, Len(prompt) - 1, n)
          /\ cache' = Lookup(cache, HitKeys(prompt, n))
          /\ pool' = AttachPrefix(q, id, HitSlots(cache, prompt, n))
          /\ lease' = [lease EXCEPT ![id] = HitKeys(prompt, n)]
    BY <1>5, <2>1 DEF Admit, q
  <2> DEFINE hit == HitKeys(prompt, n)
             s == HitSlots(cache, prompt, n)
  <2>3. /\ n \in Nat /\ n * BLOCK \in Nat /\ n * BLOCK <= Len(prompt)
        /\ \A i \in 1 .. n : KeyOf(prompt, i) \in DOMAIN cache.blocks
    <3>1. n \in Nat
      BY <1>1, WholeBlocks
    <3>2. n * BLOCK \in Nat
      BY <1>1, <3>1, TimesMonotone
    <3>3. n * BLOCK <= Len(prompt) - 1
      BY <2>2 DEF Longest
    <3>4. \A i \in 1 .. n : KeyOf(prompt, i) \in DOMAIN cache.blocks
      BY <2>2 DEF Longest
    <3> QED
      BY <1>1, <3>1, <3>2, <3>3, <3>4
  <2>4. hit \subseteq DOMAIN cache.blocks
    BY <2>3 DEF HitKeys
  <2>5. /\ s \in Seq(Slots) /\ Len(s) = n * BLOCK
        /\ \A pos \in 1 .. n * BLOCK :
             s[pos] = cache.blocks[KeyOf(prompt, BlockOf(pos))].slots[PlaceOf(pos)]
    BY <1>1, <2>3, HitSlotsFacts
  <2> HIDE DEF hit, s
  <2>6. Borrows(id, prompt, n)
    <3>1. /\ pool' \in Pools /\ pool'.live = q.live /\ pool'.free = q.free
          /\ pool'.slots[id] = s /\ pool'.borrowed[id] = Len(s)
          /\ \A other \in SeqIds \ {id} : /\ pool'.slots[other] = q.slots[other]
                                          /\ pool'.borrowed[other] = q.borrowed[other]
      <4>1. pool' = AttachPrefix(q, id, s)
        BY <2>2 DEF s
      <4> QED
        BY <1>3, <2>5, <4>1, AttachFacts
    <3> QED
      BY <1>3, <2>5, <3>1 DEF Borrows, SeqLen
  <2>7. Leases(id, hit)
    <3>1. /\ cache'.tick = cache.tick + 1 /\ DOMAIN cache'.blocks = DOMAIN cache.blocks
          /\ \A k \in DOMAIN cache.blocks : cache'.blocks[k] =
               IF k \in hit
               THEN [ cache.blocks[k] EXCEPT !.refs = @ + 1, !.last_used = cache.tick + 1 ]
               ELSE cache.blocks[k]
      BY <2>2 DEF Lookup, hit
    <3>2. ASSUME NEW k \in DOMAIN cache.blocks
          PROVE  /\ cache'.blocks[k] \in Entries
                 /\ cache'.blocks[k].slots = cache.blocks[k].slots
                 /\ cache'.blocks[k].refs = cache.blocks[k].refs + (IF k \in hit THEN 1 ELSE 0)
      <4>1. cache.blocks[k] \in Entries /\ cache.tick + 1 \in Nat
        BY <1>1 DEF TypeOK
      <4>2. CASE k \in hit
        <5>1. cache'.blocks[k] =
                [ cache.blocks[k] EXCEPT !.refs = @ + 1, !.last_used = cache.tick + 1 ]
          BY <3>1, <4>2
        <5>2. /\ [ cache.blocks[k] EXCEPT !.refs = @ + 1, !.last_used = cache.tick + 1 ] \in Entries
              /\ [ cache.blocks[k] EXCEPT !.refs = @ + 1, !.last_used = cache.tick + 1 ].slots
                   = cache.blocks[k].slots
              /\ [ cache.blocks[k] EXCEPT !.refs = @ + 1, !.last_used = cache.tick + 1 ].refs
                   = cache.blocks[k].refs + 1
          BY <4>1, WarmEntry
        <5> QED
          BY ONLY <4>2, <5>1, <5>2
      <4>3. CASE k \notin hit
        <5>1. cache'.blocks[k] = cache.blocks[k]
          BY <3>1, <4>3
        <5> QED
          BY ONLY <4>1, <4>3, <5>1 DEF Entries
      <4> QED
        BY <4>2, <4>3
    <3>3. lease' = [lease EXCEPT ![id] = hit]
      BY <2>2 DEF hit
    <3>4. cache'.tick \in Nat
      <4>1. cache'.tick = cache.tick + 1
        BY <3>1
      <4> QED
        BY ONLY <1>1, <4>1
    <3> QED
      BY <2>4, <3>1, <3>2, <3>3, <3>4 DEF Leases
  <2> QED
    BY <1>1, <1>2, <2>3, <2>6, <2>7, BorrowInv DEF hit
<1> QED
  BY <1>4, <1>5

-----------------------------------------------------------------------------
(* Each action of the worker keeps the invariant. *)
LEMMA StepInv ==
  ASSUME IInv, [Next]_vars
  PROVE  IInv'
<1>1. CASE \E id \in SeqIds, prompt \in Prompts : Admit(id, prompt)
  BY <1>1, AdmitInv
<1>2. CASE \E key \in DOMAIN cache.blocks : EvictOne(key)
  BY <1>2, EvictInv
<1>3. CASE \E id \in SeqIds, n \in 1 .. MaxSeq : Forward(id, n)
  BY <1>3, ForwardInv
<1>4. CASE \E id \in SeqIds, token \in Tokens : Emit(id, token)
  BY <1>4, EmitInv
<1>5. CASE \E id \in SeqIds : Retire(id)
  BY <1>5, RetireInv
<1>6. CASE \E id \in SeqIds : Fail(id)
  BY <1>6, FailInv
<1>7. CASE UNCHANGED vars
  BY <1>7 DEF vars, IInv, TypeOK, OneOwner, FreeOnce, FreeOrOwned, FreeOrCached, OwnedOnce,
              OwnedOrCached, CachedOnce, OwnedPos, LeasesHold, LeaseIsPrefix,
              BorrowsFromLease, Readers, CacheServesItsKey, ReadsOwnKv
<1> QED
  BY <1>1, <1>2, <1>3, <1>4, <1>5, <1>6, <1>7 DEF Next

(* Every reachable state satisfies the inductive invariant. *)
THEOREM Safety == Spec => []IInv
<1> QED
  BY InitInv, StepInv, PTL DEF Spec

(* The pool, the cache, the leases and the memory keep their types, a row   *)
(* never borrows more than it has, nor has more KV than text.              *)
THEOREM TypeCorrect == Spec => []TypeOK
<1>1. IInv => TypeOK
  BY DEF IInv
<1> QED
  BY <1>1, Safety, PTL

(* A slot is free, or owned by one row, or held by one cached block: no two *)
(* requests ever write the same slot, whatever is cached, shared or evicted *)
(* between them.                                                           *)
THEOREM SlotsHaveOneOwner == Spec => []OneOwner
<1>1. IInv => OneOwner
  BY DEF IInv
<1> QED
  BY <1>1, Safety, PTL

(* What a row borrows stays cached, and counted, for as long as it does. *)
THEOREM LeasesAreHeld == Spec => []LeasesHold
<1>1. IInv => LeasesHold
  BY DEF IInv
<1> QED
  BY <1>1, Safety, PTL

(* A cached block holds the keys and values of the prefix that finds it. *)
THEOREM CacheIsSound == Spec => []CacheServesItsKey
<1>1. IInv => CacheServesItsKey
  BY DEF IInv
<1> QED
  BY <1>1, Safety, PTL

(* Attention reads, at every position of every row, the KV of that row's   *)
(* own text up to there: batching and prefix reuse do not mix requests.    *)
THEOREM RowsReadTheirOwnKv == Spec => []ReadsOwnKv
<1>1. IInv => ReadsOwnKv
  BY DEF IInv
<1> QED
  BY <1>1, Safety, PTL

-----------------------------------------------------------------------------
(* What a row takes and gives back changes a block's references and readers  *)
(* alike; what a row that fails keeps is on top of them.                    *)
LEMMA LostByRow ==
  ASSUME IInv, NEW id \in SeqIds, lease' = [lease EXCEPT ![id] = {}],
         NEW k \in DOMAIN cache.blocks, k \in DOMAIN cache'.blocks,
         \/ cache'.blocks[k].refs = cache.blocks[k].refs
         \/ k \in lease[id] /\ cache'.blocks[k].refs = cache.blocks[k].refs - 1
  PROVE  Lost(k)' >= Lost(k)
<1> DEFINE a == cache.blocks[k].refs
           b == cache'.blocks[k].refs
           m == Cardinality(Readers(k))
           n == Cardinality(Readers(k)')
<1>1. Readers(k)' = Readers(k) \ {id}
  BY DEF Readers, IInv, TypeOK
<1>2. a \in Nat /\ IsFiniteSet(Readers(k)) /\ m \in Nat
  BY BlockFacts, ReadersFinite DEF IInv
<1>3. n \in Nat /\ n <= m
  BY <1>1, <1>2, FS_Subset, FS_CardinalityType
<1>4. k \in lease[id] => n = m - 1
  BY <1>1, <1>2, FS_RemoveElement DEF Readers
<1>5. Lost(k) = a - m /\ Lost(k)' = b - n
  BY DEF Lost
<1>6. b = a \/ (k \in lease[id] /\ b = a - 1)
  OBVIOUS
<1> HIDE DEF a, b, m, n
<1> QED
  BY <1>2, <1>3, <1>4, <1>5, <1>6

LEMMA LostByFail ==
  ASSUME IInv, NEW id \in SeqIds, Fail(id), NEW k \in DOMAIN cache.blocks
  PROVE  k \in DOMAIN cache'.blocks /\ Lost(k)' >= Lost(k)
<1>1. cache' = cache /\ lease' = [lease EXCEPT ![id] = {}]
  BY DEF Fail, Drop
<1> QED
  BY <1>1, LostByRow

LEMMA LostByRetire ==
  ASSUME IInv, NEW id \in SeqIds, Retire(id), NEW k \in DOMAIN cache.blocks
  PROVE  k \in DOMAIN cache'.blocks /\ Lost(k)' >= Lost(k)
<1> DEFINE released == Release(cache, lease[id])
<1>1. lease' = [lease EXCEPT ![id] = {}]
  BY DEF Retire, Drop
<1>2. cache.blocks[k] \in Entries
  BY DEF IInv, TypeOK
<1>3. /\ k \in DOMAIN released.blocks /\ released.blocks[k] \in Entries
      /\ \/ released.blocks[k].refs = cache.blocks[k].refs
         \/ k \in lease[id] /\ released.blocks[k].refs = cache.blocks[k].refs - 1
  <2>1. CASE k \in lease[id] /\ cache.blocks[k].refs > 0
    <3>1. released.blocks[k] = [ cache.blocks[k] EXCEPT !.refs = @ - 1 ]
      BY <2>1 DEF Release
    <3> QED
      BY <1>2, <2>1, <3>1 DEF Entries, Release
  <2>2. CASE ~(k \in lease[id] /\ cache.blocks[k].refs > 0)
    <3>1. released.blocks[k] = cache.blocks[k]
      BY <2>2 DEF Release
    <3> QED
      BY <1>2, <3>1 DEF Release
  <2> QED
    BY <2>1, <2>2
<1> HIDE DEF released
<1>4. k \in DOMAIN cache'.blocks /\ cache'.blocks[k].refs = released.blocks[k].refs
  <2>1. CASE cache' = released
    BY <1>3, <2>1
  <2>2. ASSUME NEW kept, NEW tokens, cache' = Insert(released, kept, tokens)
        PROVE  k \in DOMAIN cache'.blocks /\ cache'.blocks[k].refs = released.blocks[k].refs
    <3>1. k \in DOMAIN cache'.blocks
      BY <1>3, <2>2 DEF Insert
    <3>2. CASE k \in KeysOf(tokens)
      <4>1. cache'.blocks[k] = [ released.blocks[k] EXCEPT !.last_used = released.tick + 1 ]
        BY <1>3, <2>2, <3>2 DEF Insert
      <4> QED
        BY <1>3, <3>1, <4>1 DEF Entries
    <3>3. CASE k \notin KeysOf(tokens)
      <4>1. cache'.blocks[k] = released.blocks[k]
        BY <1>3, <2>2, <3>3 DEF Insert
      <4> QED
        BY <3>1, <4>1
    <3> QED
      BY <3>2, <3>3
  <2> QED
    BY <2>1, <2>2 DEF Retire, released
<1> QED
  BY <1>1, <1>3, <1>4, LostByRow

LEMMA LostByAdmit ==
  ASSUME IInv, NEW id \in SeqIds, NEW prompt \in Prompts, Admit(id, prompt), NEW k \in DOMAIN cache.blocks
  PROVE  k \in DOMAIN cache'.blocks /\ Lost(k)' >= Lost(k)
<1>1. cache.blocks[k] \in Entries /\ cache.tick \in Nat /\ lease \in [SeqIds -> SUBSET Keys]
  BY DEF IInv, TypeOK
<1>2. lease[id] = {} /\ id \notin Readers(k)
  BY DeadRow DEF Admit, CanAlloc, Readers
<1>3. CASE HadVision(prompt)
  <2>1. cache' = cache /\ lease' = lease
    BY <1>3 DEF Admit
  <2>2. lease' = [lease EXCEPT ![id] = {}]
    BY <1>1, <1>2, <2>1
  <2> QED
    BY <2>1, <2>2, LostByRow
<1>4. CASE ~HadVision(prompt)
  <2>1. PICK hit : cache' = Lookup(cache, hit) /\ lease' = [lease EXCEPT ![id] = hit]
    BY <1>4 DEF Admit
  <2>2. k \in DOMAIN cache'.blocks
    BY <2>1 DEF Lookup
  <2>3. cache.blocks[k].refs \in Nat /\ IsFiniteSet(Readers(k)) /\ Cardinality(Readers(k)) \in Nat
    BY BlockFacts, ReadersFinite DEF IInv
  <2>4. CASE k \in hit
    <3>1. cache'.blocks[k] = [ cache.blocks[k] EXCEPT !.refs = @ + 1, !.last_used = cache.tick + 1 ]
      BY <2>1, <2>4 DEF Lookup
    <3>2. cache.tick + 1 \in Nat
      BY <1>1
    <3>3. cache'.blocks[k].refs = cache.blocks[k].refs + 1
      BY <1>1, <3>1, <3>2, WarmEntry
    <3>4. Readers(k)' = Readers(k) \cup {id}
      BY <1>1, <2>1, <2>4 DEF Readers
    <3>5. Cardinality(Readers(k)') = Cardinality(Readers(k)) + 1
      BY <1>2, <2>3, <3>4, FS_AddElement
    <3> QED
      BY <2>2, <2>3, <3>3, <3>5 DEF Lost
  <2>5. CASE k \notin hit
    <3>1. cache'.blocks[k] = cache.blocks[k]
      BY <2>1, <2>5 DEF Lookup
    <3>2. Readers(k)' = Readers(k)
      BY <1>1, <1>2, <2>1, <2>5 DEF Readers
    <3> QED
      BY <2>2, <2>3, <3>1, <3>2 DEF Lost
  <2> QED
    BY <2>4, <2>5
<1> QED
  BY <1>3, <1>4

LEMMA LostByEvict ==
  ASSUME IInv, NEW key, EvictOne(key), NEW k \in DOMAIN cache.blocks, Lost(k) > 0
  PROVE  k \in DOMAIN cache'.blocks /\ Lost(k)' >= Lost(k)
<1>1. cache.blocks[k].refs \in Nat /\ Cardinality(Readers(k)) \in Nat
  BY BlockFacts, ReadersFinite DEF IInv
<1>2. cache.blocks[key].refs = 0
  BY DEF EvictOne, Victims, Cold
<1>3. k # key
  BY <1>1, <1>2 DEF Lost
<1>4. k \in DOMAIN cache'.blocks /\ cache'.blocks[k] = cache.blocks[k] /\ lease' = lease
  BY <1>3 DEF EvictOne, Evict
<1>5. Readers(k)' = Readers(k)
  BY <1>4 DEF Readers
<1> QED
  BY <1>1, <1>4, <1>5 DEF Lost

(* A reference that fail_all leaves behind pins its block for good, in every *)
(* pool and under every workload: the block is never evicted, and nothing    *)
(* that is released or admitted later brings its count back to its readers.  *)
THEOREM LostReferencesPin == Spec => PinnedForGood
<1>1. ASSUME IInv, [Next]_vars, NEW k \in DOMAIN cache.blocks, Lost(k) > 0
      PROVE  k \in DOMAIN cache'.blocks /\ Lost(k)' >= Lost(k)
  <2>1. cache.blocks[k].refs \in Nat /\ Cardinality(Readers(k)) \in Nat
    BY <1>1, BlockFacts, ReadersFinite DEF IInv
  <2>2. ASSUME cache' = cache, lease' = lease PROVE k \in DOMAIN cache'.blocks /\ Lost(k)' >= Lost(k)
    BY <1>1, <2>1, <2>2 DEF Lost, Readers
  <2>3. ASSUME NEW id \in SeqIds, NEW prompt \in Prompts, Admit(id, prompt)
        PROVE  k \in DOMAIN cache'.blocks /\ Lost(k)' >= Lost(k)
    BY <1>1, <2>3, LostByAdmit
  <2>4. ASSUME NEW key, EvictOne(key) PROVE k \in DOMAIN cache'.blocks /\ Lost(k)' >= Lost(k)
    BY <1>1, <2>4, LostByEvict
  <2>5. ASSUME NEW id \in SeqIds, Retire(id) \/ Fail(id) PROVE k \in DOMAIN cache'.blocks /\ Lost(k)' >= Lost(k)
    BY <1>1, <2>5, LostByRetire, LostByFail
  <2>6. CASE \E id \in SeqIds : (\E n \in 1 .. MaxSeq : Forward(id, n)) \/ (\E token \in Tokens : Emit(id, token))
    BY <2>2, <2>6 DEF Forward, Emit
  <2>7. CASE UNCHANGED vars
    BY <2>2, <2>7 DEF vars
  <2> QED
    BY <1>1, <2>3, <2>4, <2>5, <2>6, <2>7 DEF Next
<1>2. IInv /\ [Next]_vars => [\A k \in DOMAIN cache.blocks :
        Lost(k) > 0 => k \in DOMAIN cache'.blocks /\ Lost(k)' >= Lost(k)]_vars
  BY <1>1
<1> QED
  BY <1>2, Safety, PTL DEF Spec, PinnedForGood

=============================================================================

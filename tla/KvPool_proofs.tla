--------------------------- MODULE KvPool_proofs ---------------------------
(***************************************************************************)
(* What each method of the pool does to its slots, position by position,   *)
(* for every number of slots, rows and tokens: the lemmas that the proofs  *)
(* about PrefixPool use in place of the sequences the methods build. First *)
(* what those proofs, and those of the modules above, need of numbers,     *)
(* loops and sequences.                                                    *)
(***************************************************************************)
EXTENDS KvPool, TLAPS, SequenceTheorems, WellFoundedInduction, FiniteSetTheorems

(* Induction over the naturals, for a set of them. *)
LEMMA SetInduction ==
  ASSUME NEW S, 0 \in S, \A n \in Nat : n \in S => n + 1 \in S
  PROVE  Nat \subseteq S
<1> SUFFICES ASSUME Nat \ S # {} PROVE FALSE
  OBVIOUS
<1>1. PICK x \in Nat \ S : \A y \in Nat \ S : ~ (<< y, x >> \in OpToRel(<, Nat))
  BY NatLessThanWellFounded, WFMin
<1>2. x \in Nat \ {0}
  OBVIOUS
<1>3. x - 1 \in Nat /\ x - 1 < x /\ (x - 1) + 1 = x
  BY <1>2
<1>4. << x - 1, x >> \in OpToRel(<, Nat)
  BY <1>2, <1>3 DEF OpToRel
<1> QED
  BY <1>1, <1>3, <1>4

(* A loop of n turns, each from what the one before it left, has a history: *)
(* what a recursive function over 0 .. n chooses is there to be chosen.     *)
LEMMA LoopExists ==
  ASSUME NEW T, NEW init \in T, NEW n \in Nat, NEW turn \in [1 .. n -> [T -> T]]
  PROVE  \E f \in [0 .. n -> T] : f[0] = init /\ \A i \in 1 .. n : f[i] = turn[i][f[i - 1]]
<1> DEFINE S == { m \in Nat : m <= n => \E f \in [0 .. m -> T] :
                    f[0] = init /\ \A i \in 1 .. m : f[i] = turn[i][f[i - 1]] }
<1>1. 0 \in S
  <2> DEFINE f == [ i \in 0 .. 0 |-> init ]
  <2>1. f \in [0 .. 0 -> T] /\ f[0] = init /\ \A i \in 1 .. 0 : f[i] = turn[i][f[i - 1]]
    BY SMT
  <2> QED
    BY <2>1
<1>2. ASSUME NEW m \in Nat, m \in S PROVE m + 1 \in S
  <2> SUFFICES ASSUME m + 1 <= n
               PROVE  \E g \in [0 .. m + 1 -> T] :
                        g[0] = init /\ \A i \in 1 .. m + 1 : g[i] = turn[i][g[i - 1]]
    BY SMT
  <2>1. m <= n
    OBVIOUS
  <2>2. PICK f \in [0 .. m -> T] : f[0] = init /\ \A i \in 1 .. m : f[i] = turn[i][f[i - 1]]
    BY <1>2, <2>1
  <2> DEFINE g == [ i \in 0 .. m + 1 |-> IF i = m + 1 THEN turn[m + 1][f[m]] ELSE f[i] ]
  <2>3. turn[m + 1][f[m]] \in T
    BY <2>2
  <2>4. g \in [0 .. m + 1 -> T]
    BY <2>3
  <2>5. ASSUME NEW i \in 1 .. m + 1 PROVE g[i] = turn[i][g[i - 1]]
    <3>1. CASE i = m + 1
      BY <3>1
    <3>2. CASE i \in 1 .. m
      <4>1. f[i] = turn[i][f[i - 1]] /\ g[i] = f[i] /\ g[i - 1] = f[i - 1]
        BY <2>2, <3>2
      <4> QED
          BY <4>1
    <3> QED
        BY <3>1, <3>2
  <2>6. g[0] = init
    BY <2>2
  <2> HIDE DEF g
  <2> QED
    BY <2>4, <2>5, <2>6
<1> HIDE DEF S
<1>3. n \in S
  BY <1>1, <1>2, SetInduction
<1>4. n <= n
  OBVIOUS
<1> QED
  BY <1>3, <1>4 DEF S

(* What holds before the first turn and is kept by each holds all along. *)
LEMMA LoopInduction ==
  ASSUME NEW n \in Nat, NEW I, 0 \in I, \A i \in 1 .. n : i - 1 \in I => i \in I
  PROVE  \A i \in 0 .. n : i \in I
<1> DEFINE S == { m \in Nat : m <= n => m \in I }
<1>1. 0 \in S
  OBVIOUS
<1>2. ASSUME NEW m \in Nat, m \in S PROVE m + 1 \in S
  <2> SUFFICES ASSUME m + 1 <= n PROVE m + 1 \in I
    OBVIOUS
  <2>1. m \in I /\ m + 1 \in 1 .. n /\ (m + 1) - 1 = m
    BY <1>2
  <2> QED
    BY <2>1
<1> HIDE DEF S
<1>3. Nat \subseteq S
  BY <1>1, <1>2, SetInduction
<1> QED
  BY <1>3 DEF S

(* Reverse, pointwise. *)
LEMMA ReverseFacts ==
  ASSUME NEW S, NEW s \in Seq(S)
  PROVE  /\ Reverse(s) \in Seq(S)
         /\ Len(Reverse(s)) = Len(s)
         /\ \A i \in 1 .. Len(s) : Reverse(s)[i] = s[Len(s) - i + 1]
BY DEF Reverse

(* A slice of a sequence, pointwise. *)
LEMMA SliceFacts ==
  ASSUME NEW S, NEW s \in Seq(S), NEW m \in 1 .. Len(s) + 1, NEW n \in 0 .. Len(s)
  PROVE  /\ SubSeq(s, m, n) \in Seq(S)
         /\ Len(SubSeq(s, m, n)) = IF m <= n THEN n - m + 1 ELSE 0
         /\ \A i \in 1 .. n - m + 1 : SubSeq(s, m, n)[i] = s[m + i - 1]
<1>1. \A i \in m .. n : s[i] \in S
  BY ElementOfSeq
<1> QED
  BY <1>1, SubSeqProperties

(* Slots given back land on top of the stack, the last one first. *)
LEMMA GiveBackFacts ==
  ASSUME NEW S, NEW f \in Seq(S), NEW s \in Seq(S)
  PROVE  /\ f \o Reverse(s) \in Seq(S)
         /\ Len(f \o Reverse(s)) = Len(f) + Len(s)
         /\ \A i \in 1 .. Len(f) : (f \o Reverse(s))[i] = f[i]
         /\ \A i \in Len(f) + 1 .. Len(f) + Len(s) :
              (f \o Reverse(s))[i] = s[Len(s) - (i - Len(f)) + 1]
<1> DEFINE r == Reverse(s)
<1>1. /\ r \in Seq(S)
      /\ Len(r) = Len(s)
      /\ \A i \in 1 .. Len(s) : r[i] = s[Len(s) - i + 1]
  BY ReverseFacts
<1> HIDE DEF r
<1>2. Len(f) \in Nat /\ Len(s) \in Nat
  BY LenProperties
<1>3. /\ f \o r \in Seq(S)
      /\ Len(f \o r) = Len(f) + Len(r)
      /\ \A i \in 1 .. Len(f) + Len(r) :
           (f \o r)[i] = IF i <= Len(f) THEN f[i] ELSE r[i - Len(f)]
  <2>1. r \in Seq(S)
    BY <1>1
  <2> QED
    BY ONLY <2>1, f \in Seq(S), ConcatProperties
<1>4. /\ \A i \in 1 .. Len(f) : (f \o r)[i] = f[i]
      /\ \A i \in Len(f) + 1 .. Len(f) + Len(s) :
           (f \o r)[i] = s[Len(s) - (i - Len(f)) + 1]
  <2>1. ASSUME NEW i \in 1 .. Len(f)
        PROVE  (f \o r)[i] = f[i]
    BY <1>1, <1>2, <1>3
  <2>2. ASSUME NEW i \in Len(f) + 1 .. Len(f) + Len(s)
        PROVE  (f \o r)[i] = s[Len(s) - (i - Len(f)) + 1]
    <3>1. i \in 1 .. Len(f) + Len(r) /\ ~(i <= Len(f)) /\ i - Len(f) \in 1 .. Len(s)
      BY <1>1, <1>2
    <3> QED
      BY <1>1, <1>3, <3>1
  <2> QED
    BY <2>1, <2>2
<1> QED
  BY <1>1, <1>3, <1>4 DEF r

(* The fields of a pool. *)
LEMMA PoolFields ==
  ASSUME NEW p \in Pools
  PROVE  /\ p.free \in Seq(Slots) /\ p.live \subseteq SeqIds
         /\ p.slots \in [SeqIds -> Seq(Slots)] /\ p.borrowed \in [SeqIds -> Nat]
         /\ FreeSlots(p) \in Nat
         /\ \A id \in SeqIds : SeqLen(p, id) \in Nat /\ p.slots[id] \in Seq(Slots)
BY LenProperties DEF Pools, FreeSlots, SeqLen

(* alloc changes only which rows exist. *)
LEMMA AllocFacts ==
  ASSUME NEW p \in Pools, NEW id \in SeqIds
  PROVE  /\ Alloc(p, id) \in Pools
         /\ Alloc(p, id).live = p.live \cup {id}
         /\ Alloc(p, id).free = p.free
         /\ Alloc(p, id).slots = p.slots
         /\ Alloc(p, id).borrowed = p.borrowed
BY DEF Alloc, Pools

(* extend moves the top n slots of the stack to the end of the row. *)
LEMMA ExtendFacts ==
  ASSUME NEW p \in Pools, NEW id \in SeqIds, NEW n \in Nat, CanExtend(p, id, n)
  PROVE  /\ Extend(p, id, n) \in Pools
         /\ Extend(p, id, n).live = p.live
         /\ Extend(p, id, n).borrowed = p.borrowed
         /\ FreeSlots(Extend(p, id, n)) = FreeSlots(p) - n
         /\ \A i \in 1 .. FreeSlots(p) - n : Extend(p, id, n).free[i] = p.free[i]
         /\ \A other \in SeqIds \ {id} : Extend(p, id, n).slots[other] = p.slots[other]
         /\ SeqLen(Extend(p, id, n), id) = SeqLen(p, id) + n
         /\ \A pos \in 1 .. SeqLen(p, id) :
              Extend(p, id, n).slots[id][pos] = p.slots[id][pos]
         /\ \A i \in 1 .. n :
              Extend(p, id, n).slots[id][SeqLen(p, id) + i] = p.free[FreeSlots(p) - i + 1]
         /\ Len(Popped(p, n)) = n
         /\ \A i \in 1 .. n : Popped(p, n)[i] = p.free[FreeSlots(p) - i + 1]
<1> DEFINE f == FreeSlots(p)
           l == SeqLen(p, id)
           top == SubSeq(p.free, f - n + 1, f)
           rest == SubSeq(p.free, 1, f - n)
           pop == Popped(p, n)
           q == Extend(p, id, n)
<1>1. /\ p.free \in Seq(Slots) /\ p.slots[id] \in Seq(Slots)
      /\ f \in Nat /\ l \in Nat /\ n <= f
      /\ f = Len(p.free) /\ l = Len(p.slots[id])
  BY PoolFields DEF CanExtend, FreeSlots, SeqLen
<1>2. /\ top \in Seq(Slots) /\ Len(top) = n
      /\ \A i \in 1 .. n : top[i] = p.free[f - n + i]
  <2>1. f - n + 1 \in 1 .. Len(p.free) + 1 /\ f \in 0 .. Len(p.free)
    BY <1>1
  <2> QED
    BY <1>1, <2>1, SliceFacts
<1>3. /\ rest \in Seq(Slots) /\ Len(rest) = f - n
      /\ \A i \in 1 .. f - n : rest[i] = p.free[i]
  <2>1. 1 \in 1 .. Len(p.free) + 1 /\ f - n \in 0 .. Len(p.free)
    BY <1>1
  <2> QED
    BY <1>1, <2>1, SliceFacts
<1> HIDE DEF f, l, top, rest
<1>4. pop \in Seq(Slots) /\ Len(pop) = n
  <2>1. top \in Seq(Slots)
    BY <1>2
  <2>2. Reverse(top) \in Seq(Slots) /\ Len(Reverse(top)) = Len(top)
    BY ONLY <2>1, ReverseFacts
  <2> QED
    BY <1>2, <2>2 DEF Popped, top, f
<1>5. \A i \in 1 .. n : pop[i] = p.free[f - i + 1]
  <2> SUFFICES ASSUME NEW i \in 1 .. n PROVE pop[i] = p.free[f - i + 1]
    OBVIOUS
  <2>0. f \in Nat
    BY <1>1
  <2>1. pop[i] = top[n - i + 1]
    BY <1>2 DEF Popped, Reverse, top, f
  <2>2. n - i + 1 \in 1 .. n /\ f - n + (n - i + 1) = f - i + 1
    BY <2>0
  <2> QED
    BY <1>2, <2>1, <2>2
<1> HIDE DEF pop
<1>6. /\ p.slots[id] \o pop \in Seq(Slots)
      /\ Len(p.slots[id] \o pop) = l + n
      /\ \A i \in 1 .. l : (p.slots[id] \o pop)[i] = p.slots[id][i]
      /\ \A i \in 1 .. n : (p.slots[id] \o pop)[l + i] = pop[i]
  <2>1. pop \in Seq(Slots) /\ p.slots[id] \in Seq(Slots)
    BY <1>1, <1>4
  <2>2. /\ p.slots[id] \o pop \in Seq(Slots)
        /\ Len(p.slots[id] \o pop) = Len(p.slots[id]) + Len(pop)
        /\ \A i \in 1 .. Len(p.slots[id]) + Len(pop) : (p.slots[id] \o pop)[i] =
             IF i <= Len(p.slots[id]) THEN p.slots[id][i] ELSE pop[i - Len(p.slots[id])]
    BY ONLY <2>1, ConcatProperties
  <2>3. ASSUME NEW i \in 1 .. l
        PROVE  (p.slots[id] \o pop)[i] = p.slots[id][i]
    BY <1>1, <1>4, <2>2
  <2>4. ASSUME NEW i \in 1 .. n
        PROVE  (p.slots[id] \o pop)[l + i] = pop[i]
    <3>1. l + i \in 1 .. l + n /\ ~(l + i <= l) /\ (l + i) - l = i
      BY <1>1
    <3> QED
      BY <1>1, <1>4, <2>2, <3>1
  <2> QED
    BY <1>1, <1>4, <2>2, <2>3, <2>4
<1>7. /\ q.free = rest /\ q.live = p.live /\ q.borrowed = p.borrowed
      /\ q.slots = [p.slots EXCEPT ![id] = p.slots[id] \o pop]
  BY DEF Extend, Pools, rest, f, pop
<1>8. q \in Pools
  BY <1>3, <1>6, Zenon DEF Extend, Pools, rest, f, pop
<1>9. /\ \A other \in SeqIds \ {id} : q.slots[other] = p.slots[other]
      /\ q.slots[id] = p.slots[id] \o pop
  BY <1>7, PoolFields
<1>10. /\ FreeSlots(q) = f - n
       /\ \A i \in 1 .. f - n : q.free[i] = p.free[i]
  BY <1>3, <1>7 DEF FreeSlots
<1>11. /\ SeqLen(q, id) = l + n
       /\ \A i \in 1 .. l : q.slots[id][i] = p.slots[id][i]
       /\ \A i \in 1 .. n : q.slots[id][l + i] = p.free[f - i + 1]
  BY <1>5, <1>6, <1>9 DEF SeqLen
<1> QED
  BY <1>4, <1>5, <1>7, <1>8, <1>9, <1>10, <1>11, Zenon DEF f, l, pop

(* attach_prefix fills one row, and marks all of it borrowed. *)
LEMMA AttachFacts ==
  ASSUME NEW p \in Pools, NEW id \in SeqIds, NEW slots \in Seq(Slots)
  PROVE  /\ AttachPrefix(p, id, slots) \in Pools
         /\ AttachPrefix(p, id, slots).live = p.live
         /\ AttachPrefix(p, id, slots).free = p.free
         /\ AttachPrefix(p, id, slots).slots[id] = slots
         /\ AttachPrefix(p, id, slots).borrowed[id] = Len(slots)
         /\ \A other \in SeqIds \ {id} :
              /\ AttachPrefix(p, id, slots).slots[other] = p.slots[other]
              /\ AttachPrefix(p, id, slots).borrowed[other] = p.borrowed[other]
<1>1. Len(slots) \in Nat
  BY LenProperties
<1> QED
  BY <1>1 DEF AttachPrefix, Pools

(* keep_prefix moves one row's boundary between what it borrows and owns. *)
LEMMA KeepFacts ==
  ASSUME NEW p \in Pools, NEW id \in SeqIds, NEW upto \in Nat
  PROVE  /\ KeepPrefix(p, id, upto) \in Pools
         /\ KeepPrefix(p, id, upto).live = p.live
         /\ KeepPrefix(p, id, upto).free = p.free
         /\ KeepPrefix(p, id, upto).slots = p.slots
         /\ KeepPrefix(p, id, upto).borrowed[id] =
              IF p.borrowed[id] < upto THEN upto ELSE p.borrowed[id]
         /\ \A other \in SeqIds \ {id} :
              KeepPrefix(p, id, upto).borrowed[other] = p.borrowed[other]
BY DEF KeepPrefix, Pools

(* release_slots puts the slots on top of the stack. *)
LEMMA ReleaseFacts ==
  ASSUME NEW p \in Pools, NEW slots \in Seq(Slots)
  PROVE  /\ ReleaseSlots(p, slots) \in Pools
         /\ ReleaseSlots(p, slots).live = p.live
         /\ ReleaseSlots(p, slots).slots = p.slots
         /\ ReleaseSlots(p, slots).borrowed = p.borrowed
         /\ FreeSlots(ReleaseSlots(p, slots)) = FreeSlots(p) + Len(slots)
         /\ \A i \in 1 .. FreeSlots(p) : ReleaseSlots(p, slots).free[i] = p.free[i]
         /\ \A i \in FreeSlots(p) + 1 .. FreeSlots(p) + Len(slots) :
              ReleaseSlots(p, slots).free[i] = slots[Len(slots) - (i - FreeSlots(p)) + 1]
<1>1. p.free \in Seq(Slots)
  BY PoolFields
<1>2. /\ p.free \o Reverse(slots) \in Seq(Slots)
      /\ Len(p.free \o Reverse(slots)) = Len(p.free) + Len(slots)
      /\ \A i \in 1 .. Len(p.free) : (p.free \o Reverse(slots))[i] = p.free[i]
      /\ \A i \in Len(p.free) + 1 .. Len(p.free) + Len(slots) :
           (p.free \o Reverse(slots))[i] = slots[Len(slots) - (i - Len(p.free)) + 1]
  BY <1>1, GiveBackFacts
<1>3. /\ ReleaseSlots(p, slots).free = p.free \o Reverse(slots)
      /\ ReleaseSlots(p, slots).live = p.live
      /\ ReleaseSlots(p, slots).slots = p.slots
      /\ ReleaseSlots(p, slots).borrowed = p.borrowed
  BY DEF ReleaseSlots, Pools
<1>4. ReleaseSlots(p, slots) \in Pools
  BY <1>2 DEF ReleaseSlots, Pools
<1> QED
  BY <1>2, <1>3, <1>4 DEF FreeSlots

(* free puts exactly what the row owns on top of the stack, and clears the row. *)
LEMMA FreeFacts ==
  ASSUME NEW p \in Pools, NEW id \in SeqIds, id \in p.live,
         p.borrowed[id] <= SeqLen(p, id)
  PROVE  /\ Free(p, id) \in Pools
         /\ Free(p, id).live = p.live \ {id}
         /\ Free(p, id).slots[id] = << >>
         /\ Free(p, id).borrowed[id] = 0
         /\ \A other \in SeqIds \ {id} :
              /\ Free(p, id).slots[other] = p.slots[other]
              /\ Free(p, id).borrowed[other] = p.borrowed[other]
         /\ FreeSlots(Free(p, id)) = FreeSlots(p) + SeqLen(p, id) - p.borrowed[id]
         /\ \A i \in 1 .. FreeSlots(p) : Free(p, id).free[i] = p.free[i]
         /\ \A i \in FreeSlots(p) + 1 .. FreeSlots(p) + SeqLen(p, id) - p.borrowed[id] :
              Free(p, id).free[i] = p.slots[id][SeqLen(p, id) - (i - FreeSlots(p)) + 1]
<1> DEFINE b == p.borrowed[id]
           f == FreeSlots(p)
           l == SeqLen(p, id)
           own == Owned(p, id)
           back == p.free \o Reverse(own)
<1>1. f \in Nat /\ l \in Nat /\ b \in Nat /\ b <= l
  BY PoolFields DEF Pools
<1>2. /\ p.free \in Seq(Slots) /\ f = Len(p.free)
      /\ p.slots[id] \in Seq(Slots) /\ l = Len(p.slots[id])
  BY PoolFields DEF SeqLen, FreeSlots
<1>3. own = SubSeq(p.slots[id], b + 1, l)
  BY DEF Owned, SeqLen
<1> HIDE DEF b, f, l, own
<1>4. /\ own \in Seq(Slots) /\ Len(own) = l - b
      /\ \A i \in 1 .. l - b : own[i] = p.slots[id][b + i]
  <2>1. b + 1 \in 1 .. Len(p.slots[id]) + 1 /\ l \in 0 .. Len(p.slots[id])
    BY <1>1, <1>2
  <2>2. /\ own \in Seq(Slots)
        /\ Len(own) = IF b + 1 <= l THEN l - (b + 1) + 1 ELSE 0
        /\ \A i \in 1 .. l - (b + 1) + 1 : own[i] = p.slots[id][(b + 1) + i - 1]
    <3> DEFINE s == p.slots[id]
               m == b + 1
    <3>1. s \in Seq(Slots) /\ m \in 1 .. Len(s) + 1 /\ l \in 0 .. Len(s)
      BY <1>2, <2>1
    <3>2. own = SubSeq(s, m, l)
      BY <1>3
    <3> HIDE DEF s, m
    <3>3. /\ own \in Seq(Slots)
          /\ Len(own) = IF m <= l THEN l - m + 1 ELSE 0
          /\ \A i \in 1 .. l - m + 1 : own[i] = s[m + i - 1]
      BY ONLY <3>1, <3>2, SliceFacts
    <3> QED
      BY <3>3 DEF s, m
  <2>3. Len(own) = l - b
    BY <1>1, <2>2
  <2>4. ASSUME NEW i \in 1 .. l - b
        PROVE  own[i] = p.slots[id][b + i]
    <3>1. i \in 1 .. l - (b + 1) + 1 /\ (b + 1) + i - 1 = b + i
      BY <1>1
    <3> QED
      BY <2>2, <3>1
  <2> QED
    BY <2>2, <2>3, <2>4
<1>5. /\ back \in Seq(Slots)
      /\ Len(back) = f + (l - b)
      /\ \A i \in 1 .. f : back[i] = p.free[i]
      /\ \A i \in f + 1 .. f + (l - b) : back[i] = own[(l - b) - (i - f) + 1]
  <2>1. own \in Seq(Slots) /\ p.free \in Seq(Slots) /\ Len(own) = l - b /\ f = Len(p.free)
    BY <1>2, <1>4
  <2>2. /\ back \in Seq(Slots)
        /\ Len(back) = Len(p.free) + Len(own)
        /\ \A i \in 1 .. Len(p.free) : back[i] = p.free[i]
        /\ \A i \in Len(p.free) + 1 .. Len(p.free) + Len(own) :
             back[i] = own[Len(own) - (i - Len(p.free)) + 1]
    BY ONLY <2>1, GiveBackFacts, Zenon
  <2> QED
    BY ONLY <2>1, <2>2, Zenon
<1> HIDE DEF back
<1>6. \A i \in f + 1 .. f + (l - b) : back[i] = p.slots[id][l - (i - f) + 1]
  <2> SUFFICES ASSUME NEW i \in f + 1 .. f + (l - b)
               PROVE  back[i] = p.slots[id][l - (i - f) + 1]
    OBVIOUS
  <2>1. (l - b) - (i - f) + 1 \in 1 .. l - b
    BY <1>1
  <2>2. b + ((l - b) - (i - f) + 1) = l - (i - f) + 1
    BY <1>1
  <2> QED
    <3>1. back[i] = own[(l - b) - (i - f) + 1]
      BY <1>5
    <3> DEFINE j == (l - b) - (i - f) + 1
    <3>2. j \in 1 .. l - b /\ b + j = l - (i - f) + 1
      BY <2>1, <2>2
    <3> HIDE DEF j
    <3>3. own[j] = p.slots[id][b + j]
      BY <1>4, <3>2
    <3> QED
      BY <3>1, <3>2, <3>3, Zenon DEF j
<1>7. Free(p, id) = [ free |-> back, live |-> p.live \ {id},
                      slots |-> [p.slots EXCEPT ![id] = << >>],
                      borrowed |-> [p.borrowed EXCEPT ![id] = 0] ]
  BY DEF Free, Cleared, Pools, back, own
<1>8. Free(p, id) \in Pools
  <2>1. << >> \in Seq(Slots)
    OBVIOUS
  <2>2. back \in Seq(Slots)
    BY <1>5
  <2> QED
    BY <1>7, <2>1, <2>2 DEF Pools
<1>9. /\ Free(p, id).slots[id] = << >>
      /\ Free(p, id).borrowed[id] = 0
      /\ \A other \in SeqIds \ {id} :
           /\ Free(p, id).slots[other] = p.slots[other]
           /\ Free(p, id).borrowed[other] = p.borrowed[other]
  BY <1>7, PoolFields
<1>10. f + (l - b) = f + l - b
  BY <1>1
<1> QED
  BY <1>5, <1>6, <1>7, <1>8, <1>9, <1>10 DEF FreeSlots, f, l, b

-----------------------------------------------------------------------------
(* A pool in which nobody borrows: every slot is in one place, on the stack  *)
(* or in a row, and a row that is None has none.                             *)
EveryPlace(p) ==
  \A s \in Slots : \/ \E n \in 1 .. FreeSlots(p) : p.free[n] = s
                   \/ \E id \in SeqIds : \E i \in 1 .. SeqLen(p, id) : p.slots[id][i] = s
StackOnce(p) == \A m, n \in 1 .. FreeSlots(p) : p.free[m] = p.free[n] => m = n
RowsOnce(p) ==
  \A a, b \in SeqIds : \A i \in 1 .. SeqLen(p, a), j \in 1 .. SeqLen(p, b) :
    p.slots[a][i] = p.slots[b][j] => a = b /\ i = j
RowsOrStack(p) ==
  \A a \in SeqIds : \A i \in 1 .. SeqLen(p, a), n \in 1 .. FreeSlots(p) : p.slots[a][i] # p.free[n]
OnePlace(p) == EveryPlace(p) /\ StackOnce(p) /\ RowsOnce(p) /\ RowsOrStack(p)
WholePool(p) ==
  /\ p \in Pools
  /\ \A id \in SeqIds : p.borrowed[id] = 0
  /\ \A id \in SeqIds \ p.live : SeqLen(p, id) = 0
  /\ OnePlace(p)

(* The end of a row goes to the stack, or comes from it, the last slot of    *)
(* the row first: p is the pool in which the row is the longer.              *)
Moved(p, q, id) ==
  /\ \A other \in SeqIds \ {id} : q.slots[other] = p.slots[other]
  /\ SeqLen(q, id) <= SeqLen(p, id)
  /\ FreeSlots(q) + SeqLen(q, id) = FreeSlots(p) + SeqLen(p, id)
  /\ \A i \in 1 .. SeqLen(q, id) : q.slots[id][i] = p.slots[id][i]
  /\ \A n \in 1 .. FreeSlots(p) : q.free[n] = p.free[n]
  /\ \A i \in SeqLen(q, id) + 1 .. SeqLen(p, id) :
       q.free[FreeSlots(p) + SeqLen(p, id) - i + 1] = p.slots[id][i]

(* Where a slot of one of the two is in the other. *)
LEMMA MovedPlaces ==
  ASSUME NEW p \in Pools, NEW q \in Pools, NEW id \in SeqIds, Moved(p, q, id)
  PROVE  /\ \A i \in 1 .. SeqLen(p, id) :
              \/ i \in 1 .. SeqLen(q, id) /\ p.slots[id][i] = q.slots[id][i]
              \/ /\ FreeSlots(p) + SeqLen(p, id) - i + 1 \in FreeSlots(p) + 1 .. FreeSlots(q)
                 /\ p.slots[id][i] = q.free[FreeSlots(p) + SeqLen(p, id) - i + 1]
         /\ \A n \in 1 .. FreeSlots(q) :
              \/ n \in 1 .. FreeSlots(p) /\ q.free[n] = p.free[n]
              \/ /\ FreeSlots(p) + SeqLen(p, id) - n + 1 \in SeqLen(q, id) + 1 .. SeqLen(p, id)
                 /\ q.free[n] = p.slots[id][FreeSlots(p) + SeqLen(p, id) - n + 1]
         /\ \A i \in 1 .. SeqLen(q, id) : i \in 1 .. SeqLen(p, id)
         /\ \A n \in 1 .. FreeSlots(p) : n \in 1 .. FreeSlots(q)
<1> DEFINE fp == FreeSlots(p)
           fq == FreeSlots(q)
           lp == SeqLen(p, id)
           lq == SeqLen(q, id)
<1>1. fp \in Nat /\ fq \in Nat /\ lp \in Nat /\ lq \in Nat
  BY PoolFields
<1>2. /\ lq <= lp /\ fq + lq = fp + lp
      /\ \A i \in 1 .. lq : q.slots[id][i] = p.slots[id][i]
      /\ \A n \in 1 .. fp : q.free[n] = p.free[n]
      /\ \A i \in lq + 1 .. lp : q.free[fp + lp - i + 1] = p.slots[id][i]
  BY DEF Moved
<1> HIDE DEF fp, fq, lp, lq
<1>3. ASSUME NEW i \in 1 .. lp
      PROVE  \/ i \in 1 .. lq /\ p.slots[id][i] = q.slots[id][i]
             \/ fp + lp - i + 1 \in fp + 1 .. fq /\ p.slots[id][i] = q.free[fp + lp - i + 1]
  <2>1. CASE i <= lq
    BY <1>1, <1>2, <2>1
  <2>2. CASE ~(i <= lq)
    <3>1. i \in lq + 1 .. lp /\ fp + lp - i + 1 \in fp + 1 .. fq
      BY <1>1, <1>2, <2>2
    <3> QED
      BY <1>2, <3>1
  <2> QED
    BY <2>1, <2>2
<1>4. ASSUME NEW n \in 1 .. fq
      PROVE  \/ n \in 1 .. fp /\ q.free[n] = p.free[n]
             \/ fp + lp - n + 1 \in lq + 1 .. lp /\ q.free[n] = p.slots[id][fp + lp - n + 1]
  <2>1. CASE n <= fp
    BY <1>1, <1>2, <2>1
  <2>2. CASE ~(n <= fp)
    <3> DEFINE i == fp + lp - n + 1
    <3>1. i \in lq + 1 .. lp /\ fp + lp - i + 1 = n
      BY <1>1, <1>2, <2>2
    <3> HIDE DEF i
    <3>2. q.free[n] = p.slots[id][i]
      BY <1>2, <3>1
    <3> QED
      BY <3>1, <3>2 DEF i
  <2> QED
    BY <2>1, <2>2
<1>5. \A i \in 1 .. lq : i \in 1 .. lp
  BY <1>1, <1>2
<1>6. \A n \in 1 .. fp : n \in 1 .. fq
  BY <1>1, <1>2
<1> QED
  BY <1>3, <1>4, <1>5, <1>6 DEF fp, fq, lp, lq

(* Every slot has one place after the end of a row went to the stack... *)
LEMMA GivenBack ==
  ASSUME NEW p \in Pools, NEW q \in Pools, NEW id \in SeqIds, Moved(p, q, id), OnePlace(p)
  PROVE  OnePlace(q)
<1> DEFINE c(x) == FreeSlots(p) + SeqLen(p, id) - x + 1
<1>1. /\ \A i \in 1 .. SeqLen(p, id) :
           \/ i \in 1 .. SeqLen(q, id) /\ p.slots[id][i] = q.slots[id][i]
           \/ c(i) \in FreeSlots(p) + 1 .. FreeSlots(q) /\ p.slots[id][i] = q.free[c(i)]
      /\ \A n \in 1 .. FreeSlots(q) :
           \/ n \in 1 .. FreeSlots(p) /\ q.free[n] = p.free[n]
           \/ c(n) \in SeqLen(q, id) + 1 .. SeqLen(p, id) /\ q.free[n] = p.slots[id][c(n)]
      /\ \A i \in 1 .. SeqLen(q, id) : i \in 1 .. SeqLen(p, id)
      /\ \A n \in 1 .. FreeSlots(p) : n \in 1 .. FreeSlots(q)
  BY MovedPlaces
<1>2. /\ FreeSlots(p) \in Nat /\ FreeSlots(q) \in Nat
      /\ SeqLen(p, id) \in Nat /\ SeqLen(q, id) \in Nat
  BY PoolFields
<1>3. \A m \in 1 .. FreeSlots(q), n \in 1 .. FreeSlots(q) : c(m) = c(n) => m = n
  BY <1>2
<1>4. /\ \A i \in SeqLen(q, id) + 1 .. SeqLen(p, id) : i \in 1 .. SeqLen(p, id)
      /\ \A i \in 1 .. SeqLen(q, id) : i \notin SeqLen(q, id) + 1 .. SeqLen(p, id)
      /\ \A n \in FreeSlots(p) + 1 .. FreeSlots(q) : n \in 1 .. FreeSlots(q)
  BY <1>2
<1>5. /\ \A other \in SeqIds \ {id} :
           q.slots[other] = p.slots[other] /\ SeqLen(q, other) = SeqLen(p, other)
      /\ \A i \in 1 .. SeqLen(q, id) : q.slots[id][i] = p.slots[id][i]
      /\ \A n \in 1 .. FreeSlots(p) : q.free[n] = p.free[n]
  BY DEF Moved, SeqLen
<1>6. EveryPlace(p) /\ StackOnce(p) /\ RowsOnce(p) /\ RowsOrStack(p)
  BY DEF OnePlace
<1> HIDE DEF c
<1>7. \A a \in SeqIds : \A i \in 1 .. SeqLen(q, a) :
        i \in 1 .. SeqLen(p, a) /\ q.slots[a][i] = p.slots[a][i]
  <2> SUFFICES ASSUME NEW a \in SeqIds, NEW i \in 1 .. SeqLen(q, a)
               PROVE  i \in 1 .. SeqLen(p, a) /\ q.slots[a][i] = p.slots[a][i]
    OBVIOUS
  <2>1. CASE a = id
    BY <1>1, <1>5, <2>1
  <2>2. CASE a # id
    BY <1>5, <2>2
  <2> QED
    BY <2>1, <2>2
<1>8. EveryPlace(q)
  <2> SUFFICES ASSUME NEW s \in Slots
               PROVE  \/ \E n \in 1 .. FreeSlots(q) : q.free[n] = s
                      \/ \E a \in SeqIds : \E i \in 1 .. SeqLen(q, a) : q.slots[a][i] = s
    BY DEF EveryPlace
  <2>1. CASE \E n \in 1 .. FreeSlots(p) : p.free[n] = s
    BY <1>1, <1>5, <2>1
  <2>2. CASE \E a \in SeqIds : \E i \in 1 .. SeqLen(p, a) : p.slots[a][i] = s
    <3>1. PICK a \in SeqIds : \E i \in 1 .. SeqLen(p, a) : p.slots[a][i] = s
      BY <2>2
    <3>2. PICK i \in 1 .. SeqLen(p, a) : p.slots[a][i] = s
      BY <3>1
    <3>3. CASE a = id
      <4>1. CASE i \in 1 .. SeqLen(q, id) /\ p.slots[id][i] = q.slots[id][i]
        BY <3>2, <3>3, <4>1
      <4>2. CASE c(i) \in FreeSlots(p) + 1 .. FreeSlots(q) /\ p.slots[id][i] = q.free[c(i)]
        <5>1. c(i) \in 1 .. FreeSlots(q) /\ q.free[c(i)] = s
          BY <1>4, <3>2, <3>3, <4>2
        <5> QED
          BY <5>1
      <4> QED
        BY <1>1, <3>2, <3>3, <4>1, <4>2
    <3>4. CASE a # id
      BY <1>5, <3>2, <3>4
    <3> QED
      BY <3>3, <3>4
  <2> QED
    BY <1>6, <2>1, <2>2 DEF EveryPlace
<1>9. StackOnce(q)
  <2> SUFFICES ASSUME NEW m \in 1 .. FreeSlots(q), NEW n \in 1 .. FreeSlots(q),
                      q.free[m] = q.free[n]
               PROVE  m = n
    BY DEF StackOnce
  <2>1. CASE m \in 1 .. FreeSlots(p) /\ n \in 1 .. FreeSlots(p)
    BY <1>5, <1>6, <2>1 DEF StackOnce
  <2>2. CASE /\ c(m) \in 1 .. SeqLen(p, id) /\ q.free[m] = p.slots[id][c(m)]
             /\ c(n) \in 1 .. SeqLen(p, id) /\ q.free[n] = p.slots[id][c(n)]
    <3>1. \A i, j \in 1 .. SeqLen(p, id) : p.slots[id][i] = p.slots[id][j] => i = j
      BY <1>6 DEF RowsOnce
    <3>2. c(m) = c(n)
      BY <2>2, <3>1
    <3> QED
      BY <1>3, <3>2
  <2>3. CASE \/ /\ m \in 1 .. FreeSlots(p) /\ q.free[m] = p.free[m]
                /\ c(n) \in 1 .. SeqLen(p, id) /\ q.free[n] = p.slots[id][c(n)]
             \/ /\ n \in 1 .. FreeSlots(p) /\ q.free[n] = p.free[n]
                /\ c(m) \in 1 .. SeqLen(p, id) /\ q.free[m] = p.slots[id][c(m)]
    BY <1>6, <2>3 DEF RowsOrStack
  <2>4. \A x \in {m, n} :
          \/ x \in 1 .. FreeSlots(p) /\ q.free[x] = p.free[x]
          \/ c(x) \in 1 .. SeqLen(p, id) /\ q.free[x] = p.slots[id][c(x)]
    BY <1>1, <1>4
  <2> QED
    BY <2>1, <2>2, <2>3, <2>4
<1>10. RowsOnce(q)
  BY <1>6, <1>7 DEF RowsOnce
<1>11. RowsOrStack(q)
  <2> SUFFICES ASSUME NEW a \in SeqIds, NEW i \in 1 .. SeqLen(q, a), NEW n \in 1 .. FreeSlots(q),
                      q.slots[a][i] = q.free[n]
               PROVE  FALSE
    BY DEF RowsOrStack
  <2>1. i \in 1 .. SeqLen(p, a) /\ q.slots[a][i] = p.slots[a][i]
    BY <1>7
  <2>2. CASE n \in 1 .. FreeSlots(p) /\ q.free[n] = p.free[n]
    BY <1>6, <2>1, <2>2 DEF RowsOrStack
  <2>3. CASE c(n) \in SeqLen(q, id) + 1 .. SeqLen(p, id) /\ q.free[n] = p.slots[id][c(n)]
    <3>1. c(n) \in 1 .. SeqLen(p, id) /\ p.slots[a][i] = p.slots[id][c(n)]
      BY <1>4, <2>1, <2>3
    <3>2. \A j \in 1 .. SeqLen(p, id) : p.slots[a][i] = p.slots[id][j] => a = id /\ i = j
      BY <1>6, <2>1 DEF RowsOnce
    <3>3. a = id /\ i = c(n)
      BY <3>1, <3>2
    <3> QED
      BY <1>4, <2>3, <3>3
  <2> QED
    BY <1>1, <2>2, <2>3
<1> QED
  BY <1>8, <1>9, <1>10, <1>11 DEF OnePlace

(* ... and after it came from there. *)
LEMMA TakenOff ==
  ASSUME NEW p \in Pools, NEW q \in Pools, NEW id \in SeqIds, Moved(p, q, id), OnePlace(q)
  PROVE  OnePlace(p)
<1> DEFINE c(x) == FreeSlots(p) + SeqLen(p, id) - x + 1
<1>1. /\ \A i \in 1 .. SeqLen(p, id) :
           \/ i \in 1 .. SeqLen(q, id) /\ p.slots[id][i] = q.slots[id][i]
           \/ c(i) \in FreeSlots(p) + 1 .. FreeSlots(q) /\ p.slots[id][i] = q.free[c(i)]
      /\ \A n \in 1 .. FreeSlots(q) :
           \/ n \in 1 .. FreeSlots(p) /\ q.free[n] = p.free[n]
           \/ c(n) \in SeqLen(q, id) + 1 .. SeqLen(p, id) /\ q.free[n] = p.slots[id][c(n)]
      /\ \A i \in 1 .. SeqLen(q, id) : i \in 1 .. SeqLen(p, id)
      /\ \A n \in 1 .. FreeSlots(p) : n \in 1 .. FreeSlots(q)
  BY MovedPlaces
<1>2. /\ FreeSlots(p) \in Nat /\ FreeSlots(q) \in Nat
      /\ SeqLen(p, id) \in Nat /\ SeqLen(q, id) \in Nat
  BY PoolFields
<1>3. \A m \in 1 .. SeqLen(p, id), n \in 1 .. SeqLen(p, id) : c(m) = c(n) => m = n
  BY <1>2
<1>4. /\ \A i \in SeqLen(q, id) + 1 .. SeqLen(p, id) : i \in 1 .. SeqLen(p, id)
      /\ \A n \in 1 .. FreeSlots(p) : n \notin FreeSlots(p) + 1 .. FreeSlots(q)
      /\ \A n \in FreeSlots(p) + 1 .. FreeSlots(q) : n \in 1 .. FreeSlots(q)
  BY <1>2
<1>5. /\ \A other \in SeqIds \ {id} :
           q.slots[other] = p.slots[other] /\ SeqLen(q, other) = SeqLen(p, other)
      /\ \A i \in 1 .. SeqLen(q, id) : q.slots[id][i] = p.slots[id][i]
      /\ \A n \in 1 .. FreeSlots(p) : q.free[n] = p.free[n]
  BY DEF Moved, SeqLen
<1>6. EveryPlace(q) /\ StackOnce(q) /\ RowsOnce(q) /\ RowsOrStack(q)
  BY DEF OnePlace
<1> HIDE DEF c
(* Where a place of a row was before. *)
<1>7. \A a \in SeqIds : \A i \in 1 .. SeqLen(p, a) :
        \/ i \in 1 .. SeqLen(q, a) /\ p.slots[a][i] = q.slots[a][i]
        \/ /\ a = id /\ c(i) \in 1 .. FreeSlots(q) /\ c(i) \notin 1 .. FreeSlots(p)
           /\ p.slots[a][i] = q.free[c(i)]
  <2> SUFFICES ASSUME NEW a \in SeqIds, NEW i \in 1 .. SeqLen(p, a)
               PROVE  \/ i \in 1 .. SeqLen(q, a) /\ p.slots[a][i] = q.slots[a][i]
                      \/ /\ a = id /\ c(i) \in 1 .. FreeSlots(q) /\ c(i) \notin 1 .. FreeSlots(p)
                         /\ p.slots[a][i] = q.free[c(i)]
    OBVIOUS
  <2>1. CASE a = id
    BY <1>1, <1>4, <2>1
  <2>2. CASE a # id
    BY <1>5, <2>2
  <2> QED
    BY <2>1, <2>2
<1>8. EveryPlace(p)
  <2> SUFFICES ASSUME NEW s \in Slots
               PROVE  \/ \E n \in 1 .. FreeSlots(p) : p.free[n] = s
                      \/ \E a \in SeqIds : \E i \in 1 .. SeqLen(p, a) : p.slots[a][i] = s
    BY DEF EveryPlace
  <2>1. CASE \E n \in 1 .. FreeSlots(q) : q.free[n] = s
    <3>1. PICK n \in 1 .. FreeSlots(q) : q.free[n] = s
      BY <2>1
    <3>2. CASE n \in 1 .. FreeSlots(p) /\ q.free[n] = p.free[n]
      BY <3>1, <3>2
    <3>3. CASE c(n) \in SeqLen(q, id) + 1 .. SeqLen(p, id) /\ q.free[n] = p.slots[id][c(n)]
      <4>1. c(n) \in 1 .. SeqLen(p, id) /\ p.slots[id][c(n)] = s
        BY <1>4, <3>1, <3>3
      <4> QED
        BY <4>1
    <3> QED
      BY <1>1, <3>2, <3>3
  <2>2. CASE \E a \in SeqIds : \E i \in 1 .. SeqLen(q, a) : q.slots[a][i] = s
    <3>1. PICK a \in SeqIds : \E i \in 1 .. SeqLen(q, a) : q.slots[a][i] = s
      BY <2>2
    <3>2. PICK i \in 1 .. SeqLen(q, a) : q.slots[a][i] = s
      BY <3>1
    <3>3. CASE a = id
      BY <1>1, <1>5, <3>2, <3>3
    <3>4. CASE a # id
      BY <1>5, <3>2, <3>4
    <3> QED
      BY <3>3, <3>4
  <2> QED
    BY <1>6, <2>1, <2>2 DEF EveryPlace
<1>9. StackOnce(p)
  BY <1>1, <1>5, <1>6 DEF StackOnce
<1>10. RowsOnce(p)
  <2> SUFFICES ASSUME NEW a \in SeqIds, NEW b \in SeqIds,
                      NEW i \in 1 .. SeqLen(p, a), NEW j \in 1 .. SeqLen(p, b),
                      p.slots[a][i] = p.slots[b][j]
               PROVE  a = b /\ i = j
    BY DEF RowsOnce
  <2>1. CASE /\ i \in 1 .. SeqLen(q, a) /\ p.slots[a][i] = q.slots[a][i]
             /\ j \in 1 .. SeqLen(q, b) /\ p.slots[b][j] = q.slots[b][j]
    <3>1. \A y \in 1 .. SeqLen(q, b) : q.slots[a][i] = q.slots[b][y] => a = b /\ i = y
      BY <1>6, <2>1 DEF RowsOnce
    <3> QED
      BY <2>1, <3>1
  <2>2. CASE /\ a = id /\ c(i) \in 1 .. FreeSlots(q) /\ p.slots[a][i] = q.free[c(i)]
             /\ b = id /\ c(j) \in 1 .. FreeSlots(q) /\ p.slots[b][j] = q.free[c(j)]
    <3>1. c(i) = c(j)
      BY <1>6, <2>2 DEF StackOnce
    <3> QED
      BY <1>3, <2>2, <3>1
  <2>3. CASE \/ /\ i \in 1 .. SeqLen(q, a) /\ p.slots[a][i] = q.slots[a][i]
                /\ c(j) \in 1 .. FreeSlots(q) /\ p.slots[b][j] = q.free[c(j)]
             \/ /\ j \in 1 .. SeqLen(q, b) /\ p.slots[b][j] = q.slots[b][j]
                /\ c(i) \in 1 .. FreeSlots(q) /\ p.slots[a][i] = q.free[c(i)]
    BY <1>6, <2>3 DEF RowsOrStack
  <2> QED
    BY <1>7, <2>1, <2>2, <2>3
<1>11. RowsOrStack(p)
  <2> SUFFICES ASSUME NEW a \in SeqIds, NEW i \in 1 .. SeqLen(p, a), NEW n \in 1 .. FreeSlots(p),
                      p.slots[a][i] = p.free[n]
               PROVE  FALSE
    BY DEF RowsOrStack
  <2>1. n \in 1 .. FreeSlots(q) /\ p.free[n] = q.free[n]
    BY <1>1, <1>5
  <2>2. CASE i \in 1 .. SeqLen(q, a) /\ p.slots[a][i] = q.slots[a][i]
    BY <1>6, <2>1, <2>2 DEF RowsOrStack
  <2>3. CASE /\ c(i) \in 1 .. FreeSlots(q) /\ c(i) \notin 1 .. FreeSlots(p)
             /\ p.slots[a][i] = q.free[c(i)]
    BY <1>6, <2>1, <2>3 DEF StackOnce
  <2> QED
    BY <1>7, <2>2, <2>3
<1> QED
  BY <1>8, <1>9, <1>10, <1>11 DEF OnePlace

(* truncate gives back the end of a row that owns all its slots. *)
LEMMA TruncateFacts ==
  ASSUME NEW p \in Pools, NEW id \in SeqIds, id \in p.live, p.borrowed[id] = 0,
         NEW len \in Nat, len <= SeqLen(p, id)
  PROVE  /\ Truncate(p, id, len) \in Pools
         /\ Truncate(p, id, len).live = p.live
         /\ Truncate(p, id, len).borrowed = p.borrowed
         /\ SeqLen(Truncate(p, id, len), id) = len
         /\ Moved(p, Truncate(p, id, len), id)
<1> DEFINE f == FreeSlots(p)
           l == SeqLen(p, id)
           q == Truncate(p, id, len)
           own == SubSeq(p.slots[id], len + 1, l)
           back == p.free \o Reverse(own)
           kept == SubSeq(p.slots[id], 1, len)
<1>1. f \in Nat /\ l \in Nat /\ len <= l
  BY PoolFields
<1>2. /\ p.free \in Seq(Slots) /\ f = Len(p.free)
      /\ p.slots[id] \in Seq(Slots) /\ l = Len(p.slots[id])
  BY PoolFields DEF SeqLen, FreeSlots
<1>3. CASE len = l
  <2>1. q = p
    BY <1>1, <1>3 DEF Truncate
  <2> HIDE DEF q
  <2>2. \A i \in l + 1 .. l : FALSE
    BY <1>1
  <2>3. Moved(p, p, id)
    BY <1>1, <2>2 DEF Moved
  <2>4. q \in Pools /\ q.live = p.live /\ q.borrowed = p.borrowed
        /\ SeqLen(q, id) = len /\ Moved(p, q, id)
    BY <1>3, <2>1, <2>3
  <2> QED
    BY <2>4 DEF q
<1>4. CASE len < l
  <2> DEFINE s == p.slots[id]
  <2>1. q = [ p EXCEPT !.free = back, !.slots[id] = kept ]
    <3>1. ~ (len < p.borrowed[id]) /\ id \in p.live /\ len < SeqLen(p, id)
      BY <1>1, <1>4
    <3> QED
      BY <3>1, Zenon DEF Truncate
  <2>2. /\ own \in Seq(Slots) /\ Len(own) = l - len
        /\ \A i \in 1 .. l - len : own[i] = s[len + i]
    <3>1. s \in Seq(Slots) /\ len + 1 \in 1 .. Len(s) + 1 /\ l \in 0 .. Len(s)
      BY <1>1, <1>2
    <3> DEFINE m == len + 1
    <3>2. own = SubSeq(s, m, l)
      OBVIOUS
    <3> HIDE DEF s, m, own
    <3>3. /\ own \in Seq(Slots)
          /\ Len(own) = IF m <= l THEN l - m + 1 ELSE 0
          /\ \A i \in 1 .. l - m + 1 : own[i] = s[m + i - 1]
      BY <3>1, <3>2, SliceFacts DEF m
    <3>4. m <= l /\ l - m + 1 = l - len
      BY <1>1, <1>4 DEF m
    <3>5. ASSUME NEW i \in 1 .. l - len PROVE own[i] = s[len + i]
      <4>1. m + i - 1 = len + i
        BY <1>1 DEF m
      <4> QED
        BY <3>3, <3>4, <4>1
    <3> QED
      BY <3>3, <3>4, <3>5
  <2>3. /\ kept \in Seq(Slots) /\ Len(kept) = len
        /\ \A i \in 1 .. len : kept[i] = s[i]
    <3>1. s \in Seq(Slots) /\ 1 \in 1 .. Len(s) + 1 /\ len \in 0 .. Len(s)
      BY <1>1, <1>2
    <3> HIDE DEF s
    <3>2. /\ SubSeq(s, 1, len) \in Seq(Slots)
          /\ Len(SubSeq(s, 1, len)) = IF 1 <= len THEN len - 1 + 1 ELSE 0
          /\ \A i \in 1 .. len - 1 + 1 : SubSeq(s, 1, len)[i] = s[1 + i - 1]
      BY <3>1, SliceFacts
    <3> QED
      BY <1>1, <3>2 DEF s
  <2> HIDE DEF own, kept, s
  <2>4. /\ back \in Seq(Slots)
        /\ Len(back) = f + (l - len)
        /\ \A i \in 1 .. f : back[i] = p.free[i]
        /\ \A i \in f + 1 .. f + (l - len) : back[i] = own[(l - len) - (i - f) + 1]
    <3>0. own \in Seq(Slots) /\ p.free \in Seq(Slots)
      BY <1>2, <2>2
    <3>1. own \in Seq(Slots) /\ p.free \in Seq(Slots) /\ Len(own) = l - len /\ f = Len(p.free)
      BY <1>2, <2>2
    <3>2. /\ back \in Seq(Slots)
          /\ Len(back) = Len(p.free) + Len(own)
          /\ \A i \in 1 .. Len(p.free) : back[i] = p.free[i]
          /\ \A i \in Len(p.free) + 1 .. Len(p.free) + Len(own) :
               back[i] = own[Len(own) - (i - Len(p.free)) + 1]
      BY ONLY <3>0, GiveBackFacts
    <3> HIDE DEF back
    <3>3. Len(back) = f + (l - len)
      BY ONLY <3>1, <3>2, Zenon
    <3>4. ASSUME NEW i \in f + 1 .. f + (l - len)
          PROVE  back[i] = own[(l - len) - (i - f) + 1]
      BY ONLY <3>1, <3>2, Zenon
    <3> QED
      BY <3>1, <3>2, <3>3, <3>4, Zenon
  <2> HIDE DEF back, q
  <2>5. /\ q \in Pools /\ q.live = p.live /\ q.borrowed = p.borrowed
        /\ q.free = back /\ q.slots = [p.slots EXCEPT ![id] = kept]
    BY <2>1, <2>3, <2>4 DEF Pools
  <2>6. /\ q.slots[id] = kept
        /\ \A other \in SeqIds \ {id} : q.slots[other] = p.slots[other]
    BY <2>5, PoolFields
  <2>7. SeqLen(q, id) = len /\ FreeSlots(q) = f + (l - len)
    BY <2>3, <2>4, <2>5, <2>6 DEF SeqLen, FreeSlots
  <2>8. ASSUME NEW i \in len + 1 .. l
        PROVE  back[f + l - i + 1] = s[i]
    <3> DEFINE j == f + l - i + 1
               k == (l - len) - (j - f) + 1
    <3>1. j \in f + 1 .. f + (l - len) /\ k \in 1 .. l - len /\ len + k = i
      BY <1>1
    <3> HIDE DEF j
    <3>2. back[j] = own[k]
      BY <2>4, <3>1
    <3> HIDE DEF k
    <3>3. own[k] = s[i]
      BY <2>2, <3>1
    <3> QED
      BY <3>2, <3>3 DEF j
  <2>9. Moved(p, q, id)
    <3>1. FreeSlots(q) + SeqLen(q, id) = f + l /\ SeqLen(q, id) <= l
      BY <1>1, <2>7
    <3>2. /\ \A i \in 1 .. SeqLen(q, id) : q.slots[id][i] = p.slots[id][i]
          /\ \A n \in 1 .. f : q.free[n] = p.free[n]
          /\ \A i \in SeqLen(q, id) + 1 .. l : q.free[f + l - i + 1] = p.slots[id][i]
      BY <2>3, <2>4, <2>5, <2>6, <2>7, <2>8 DEF s
    <3> QED
      BY <2>6, <3>1, <3>2 DEF Moved
  <2> QED
    BY <2>5, <2>7, <2>9 DEF q
<1> QED
  BY <1>1, <1>3, <1>4

-----------------------------------------------------------------------------
(* The pool starts whole. *)
LEMMA WholeNew ==
  ASSUME NEW order \in StackOrders
  PROVE  WholePool(NewPool(order)) /\ NewPool(order).live = {}
<1> DEFINE n == Cardinality(Slots)
           p == NewPool(order)
<1>1. IsFiniteSet(Slots) /\ n \in Nat
  BY PoolSizes, FS_CardinalityType
<1>2. order \in [1 .. n -> Slots] /\ IsInjective(order)
  BY DEF StackOrders
<1>3. order \in Injection(1 .. n, Slots)
  BY <1>2 DEF Injection
<1>4. Cardinality(1 .. n) = n
  BY <1>1, FS_Interval
<1>5. order \in Surjection(1 .. n, Slots)
  BY <1>1, <1>3, <1>4, FS_Injection
<1>6. order \in Seq(Slots) /\ Len(order) = n
  BY <1>1, <1>2, LenProperties, SeqDef
<1>7. /\ \A a, b \in 1 .. n : order[a] = order[b] => a = b
      /\ \A s \in Slots : \E i \in 1 .. n : order[i] = s
  BY <1>2, <1>5 DEF IsInjective, Surjection
<1>8. /\ p.free = order /\ p.live = {}
      /\ \A id \in SeqIds : p.slots[id] = << >> /\ p.borrowed[id] = 0
  BY DEF NewPool
<1>9. p \in Pools
  BY <1>6 DEF NewPool, Pools
<1>10. FreeSlots(p) = n /\ \A id \in SeqIds : SeqLen(p, id) = 0
  BY <1>6, <1>8 DEF FreeSlots, SeqLen
<1> HIDE DEF p, n
<1>11. \A id \in SeqIds : \A i \in 1 .. SeqLen(p, id) : FALSE
  BY <1>10
<1>12. OnePlace(p)
  BY <1>7, <1>8, <1>10, <1>11 DEF OnePlace, EveryPlace, StackOnce, RowsOnce, RowsOrStack
<1>13. WholePool(p)
  BY <1>8, <1>9, <1>10, <1>12 DEF WholePool
<1> QED
  BY <1>8, <1>13 DEF p

(* Each method that a pool without borrowers sees leaves it whole.           *)
LEMMA WholeAlloc ==
  ASSUME NEW p, WholePool(p), NEW id \in SeqIds
  PROVE  WholePool(Alloc(p, id))
<1> DEFINE q == Alloc(p, id)
<1>1. p \in Pools
  BY DEF WholePool
<1>2. /\ q \in Pools /\ q.live = p.live \cup {id}
      /\ q.free = p.free /\ q.slots = p.slots /\ q.borrowed = p.borrowed
  BY <1>1, AllocFacts
<1> HIDE DEF q
<1>3. OnePlace(q)
  BY <1>2 DEF WholePool, OnePlace, EveryPlace, StackOnce, RowsOnce, RowsOrStack, FreeSlots, SeqLen
<1>4. WholePool(q)
  BY <1>2, <1>3 DEF WholePool, SeqLen
<1> QED
  BY <1>4 DEF q

LEMMA WholeExtend ==
  ASSUME NEW p, WholePool(p), NEW id \in SeqIds, NEW n \in Nat, CanExtend(p, id, n)
  PROVE  WholePool(Extend(p, id, n))
<1> DEFINE q == Extend(p, id, n)
<1>1. p \in Pools
  BY DEF WholePool
<1>2. /\ q \in Pools /\ q.live = p.live /\ q.borrowed = p.borrowed
      /\ FreeSlots(q) = FreeSlots(p) - n
      /\ \A i \in 1 .. FreeSlots(p) - n : q.free[i] = p.free[i]
      /\ \A other \in SeqIds \ {id} : q.slots[other] = p.slots[other]
      /\ SeqLen(q, id) = SeqLen(p, id) + n
      /\ \A pos \in 1 .. SeqLen(p, id) : q.slots[id][pos] = p.slots[id][pos]
      /\ \A i \in 1 .. n : q.slots[id][SeqLen(p, id) + i] = p.free[FreeSlots(p) - i + 1]
  BY <1>1, ExtendFacts
<1>3. FreeSlots(p) \in Nat /\ SeqLen(p, id) \in Nat
  BY <1>1, PoolFields
<1> HIDE DEF q
<1>4. Moved(q, p, id)
  <2>1. /\ SeqLen(p, id) <= SeqLen(q, id)
        /\ FreeSlots(p) + SeqLen(p, id) = FreeSlots(q) + SeqLen(q, id)
    BY <1>2, <1>3
  <2>2. ASSUME NEW i \in SeqLen(p, id) + 1 .. SeqLen(q, id)
        PROVE  p.free[FreeSlots(q) + SeqLen(q, id) - i + 1] = q.slots[id][i]
    <3> DEFINE j == i - SeqLen(p, id)
    <3>1. /\ j \in 1 .. n /\ SeqLen(p, id) + j = i
          /\ FreeSlots(q) + SeqLen(q, id) - i + 1 = FreeSlots(p) - j + 1
      BY <1>2, <1>3
    <3> HIDE DEF j
    <3>2. q.slots[id][SeqLen(p, id) + j] = p.free[FreeSlots(p) - j + 1]
      BY <1>2, <3>1
    <3> QED
      BY <3>1, <3>2
  <2>3. \A i \in 1 .. FreeSlots(q) : p.free[i] = q.free[i]
    BY <1>2
  <2> QED
    BY <1>2, <2>1, <2>2, <2>3 DEF Moved
<1>5. OnePlace(q)
  BY <1>1, <1>2, <1>4, TakenOff DEF WholePool
<1>6. \A other \in SeqIds \ q.live : SeqLen(q, other) = 0
  BY <1>2 DEF WholePool, SeqLen, CanExtend
<1>7. WholePool(q)
  BY <1>2, <1>5, <1>6 DEF WholePool
<1> QED
  BY <1>7 DEF q

LEMMA WholeTruncate ==
  ASSUME NEW p, WholePool(p), NEW id \in SeqIds, id \in p.live,
         NEW len \in Nat, len <= SeqLen(p, id)
  PROVE  WholePool(Truncate(p, id, len))
<1> DEFINE q == Truncate(p, id, len)
<1>1. p \in Pools /\ p.borrowed[id] = 0
  BY DEF WholePool
<1>2. q \in Pools /\ q.live = p.live /\ q.borrowed = p.borrowed /\ Moved(p, q, id)
  BY <1>1, TruncateFacts
<1> HIDE DEF q
<1>3. OnePlace(q)
  BY <1>1, <1>2, GivenBack DEF WholePool
<1>4. \A other \in SeqIds \ q.live : SeqLen(q, other) = 0
  BY <1>2 DEF WholePool, Moved, SeqLen
<1>5. WholePool(q)
  BY <1>2, <1>3, <1>4 DEF WholePool
<1> QED
  BY <1>5 DEF q

LEMMA WholeFree ==
  ASSUME NEW p, WholePool(p), NEW id \in SeqIds, id \in p.live
  PROVE  /\ WholePool(Free(p, id))
         /\ Free(p, id).live = p.live \ {id}
         /\ FreeSlots(Free(p, id)) = FreeSlots(p) + SeqLen(p, id)
         /\ \A other \in SeqIds \ {id} : Free(p, id).slots[other] = p.slots[other]
<1> DEFINE q == Free(p, id)
<1>1. p \in Pools /\ p.borrowed[id] = 0
  BY DEF WholePool
<1>2. FreeSlots(p) \in Nat /\ SeqLen(p, id) \in Nat
  BY <1>1, PoolFields
<1>3. p.borrowed[id] <= SeqLen(p, id) /\ FreeSlots(p) + SeqLen(p, id) - 0 = FreeSlots(p) + SeqLen(p, id)
  BY <1>1, <1>2
<1>4. /\ q \in Pools /\ q.live = p.live \ {id}
      /\ q.slots[id] = << >> /\ q.borrowed[id] = 0
      /\ \A other \in SeqIds \ {id} :
           q.slots[other] = p.slots[other] /\ q.borrowed[other] = p.borrowed[other]
      /\ FreeSlots(q) = FreeSlots(p) + SeqLen(p, id)
      /\ \A i \in 1 .. FreeSlots(p) : q.free[i] = p.free[i]
      /\ \A i \in FreeSlots(p) + 1 .. FreeSlots(p) + SeqLen(p, id) :
           q.free[i] = p.slots[id][SeqLen(p, id) - (i - FreeSlots(p)) + 1]
  BY <1>1, <1>3, FreeFacts
<1> HIDE DEF q
<1>5. SeqLen(q, id) = 0
  BY <1>4 DEF SeqLen
<1>6. Moved(p, q, id)
  <2>1. /\ SeqLen(q, id) <= SeqLen(p, id)
        /\ FreeSlots(q) + SeqLen(q, id) = FreeSlots(p) + SeqLen(p, id)
        /\ \A i \in 1 .. SeqLen(q, id) : q.slots[id][i] = p.slots[id][i]
    BY <1>2, <1>4, <1>5
  <2>2. ASSUME NEW i \in SeqLen(q, id) + 1 .. SeqLen(p, id)
        PROVE  q.free[FreeSlots(p) + SeqLen(p, id) - i + 1] = p.slots[id][i]
    <3> DEFINE j == FreeSlots(p) + SeqLen(p, id) - i + 1
    <3>1. /\ j \in FreeSlots(p) + 1 .. FreeSlots(p) + SeqLen(p, id)
          /\ SeqLen(p, id) - (j - FreeSlots(p)) + 1 = i
      BY <1>2, <1>5
    <3> HIDE DEF j
    <3>2. q.free[j] = p.slots[id][SeqLen(p, id) - (j - FreeSlots(p)) + 1]
      BY <1>4, <3>1
    <3> QED
      BY <3>1, <3>2 DEF j
  <2> QED
    BY <1>4, <2>1, <2>2 DEF Moved
<1>7. OnePlace(q)
  BY <1>1, <1>4, <1>6, GivenBack DEF WholePool
<1>8. /\ \A other \in SeqIds \ q.live : SeqLen(q, other) = 0
      /\ \A other \in SeqIds : q.borrowed[other] = 0
  BY <1>4, <1>5 DEF WholePool, SeqLen
<1>9. WholePool(q)
  BY <1>4, <1>7, <1>8 DEF WholePool
<1> QED
  BY <1>4, <1>9 DEF q

=============================================================================

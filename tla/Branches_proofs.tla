--------------------------- MODULE Branches_proofs ---------------------------
(***************************************************************************)
(* The side jobs, for any job, any lengths of texts and any number of      *)
(* tokens of a pass. A pool of a side job starts whole and is taken from   *)
(* the top, so that who has which slot can be said outright: the state has *)
(* the first ones taken, and each item those behind the items before it    *)
(* (Stack, Fresh). From this follows what a pass leaves in memory and what *)
(* each of its tokens saw (PassFacts), item by item.                       *)
(***************************************************************************)
EXTENDS Branches, KvPool_proofs

(* A stack of the slots 1 .. n, and the next k slots off a stack of n. *)
Stack(n) == [ i \in 1 .. n |-> i ]
Fresh(n, k) == [ j \in 1 .. k |-> n - j + 1 ]

BranchItems ==
  { item \in [ids : Seq(TokenIds), picks : Seq(Nat)] :
      \A k \in DOMAIN item.picks : item.picks[k] \in 1 .. Len(item.ids) }
Tables == [ free : Seq(Nat), live : SUBSET SeqIds, slots : [SeqIds -> Seq(Nat)], borrowed : [SeqIds -> Nat] ]
Views == [ attended : Seq(TokenIds), carried : Seq(TokenIds) ]

-----------------------------------------------------------------------------
(* Sums of lengths. *)
LEMMA TokensToFacts ==
  ASSUME NEW texts, Len(texts) \in Nat, \A i \in 1 .. Len(texts) : Len(texts[i].ids) \in Nat
  PROVE  /\ TokensTo(texts, 0) = 0
         /\ \A k \in 1 .. Len(texts) : TokensTo(texts, k) = TokensTo(texts, k - 1) + Len(texts[k].ids)
         /\ \A k \in 0 .. Len(texts) : TokensTo(texts, k) \in Nat
<1> DEFINE n == Len(texts)
           turn == [ i \in 1 .. n |-> [ x \in Nat |-> x + Len(texts[i].ids) ] ]
<1>1. turn \in [1 .. n -> [Nat -> Nat]] /\ \A i \in 1 .. n, x \in Nat : turn[i][x] = x + Len(texts[i].ids)
  OBVIOUS
<1> HIDE DEF turn
<1>2. \E f \in [0 .. n -> Nat] : f[0] = 0 /\ \A i \in 1 .. n : f[i] = turn[i][f[i - 1]]
  <2> DEFINE T == Nat
             l == n
             init == 0
  <2>1. init \in T /\ l \in Nat /\ turn \in [1 .. l -> [T -> T]]
    BY <1>1
  <2> HIDE DEF T, l, init
  <2>2. \E f \in [0 .. l -> T] : f[0] = init /\ \A i \in 1 .. l : f[i] = turn[i][f[i - 1]]
    BY ONLY <2>1, LoopExists
  <2> QED
    BY <2>2 DEF T, l, init
<1>3. PICK f \in [0 .. n -> Nat] : f[0] = 0 /\ \A i \in 1 .. n : f[i] = turn[i][f[i - 1]]
  BY <1>2
<1>4. ASSUME NEW i \in 1 .. n PROVE f[i] = f[i - 1] + Len(texts[i].ids)
  <2>1. f[i] = turn[i][f[i - 1]] /\ f[i - 1] \in Nat
    BY <1>3
  <2> QED
    BY <1>1, <2>1
<1>5. f = [ i \in 0 .. n |-> IF i = 0 THEN 0 ELSE f[i - 1] + Len(texts[i].ids) ]
  BY <1>3, <1>4
<1> DEFINE g == CHOOSE h : h = [ i \in 0 .. n |-> IF i = 0 THEN 0 ELSE h[i - 1] + Len(texts[i].ids) ]
<1>9. g = [ i \in 0 .. n |-> IF i = 0 THEN 0 ELSE g[i - 1] + Len(texts[i].ids) ]
  BY <1>5
<1>8. \A k : TokensTo(texts, k) = g[k]
  BY DEF TokensTo
<1> HIDE DEF g
<1>6. g[0] = 0 /\ \A i \in 1 .. n : g[i] = g[i - 1] + Len(texts[i].ids)
  BY <1>9
<1>7. \A i \in 0 .. n : g[i] \in Nat
  <2> DEFINE I == { i \in 0 .. n : g[i] \in Nat }
  <2>1. 0 \in I
    BY <1>6
  <2>2. ASSUME NEW i \in 1 .. n, i - 1 \in I PROVE i \in I
    <3>1. g[i] = g[i - 1] + Len(texts[i].ids) /\ Len(texts[i].ids) \in Nat
      BY <1>6
    <3>2. g[i - 1] \in Nat
      BY <2>2
    <3>3. g[i] \in Nat
      BY ONLY <3>1, <3>2
    <3> QED
      BY <3>3
  <2> HIDE DEF I
  <2>3. \A i \in 0 .. n : i \in I
    BY <2>1, <2>2, LoopInduction
  <2> QED
    BY <2>3 DEF I
<1> QED
  BY <1>6, <1>7, <1>8

(* They grow. *)
LEMMA TokensGrow ==
  ASSUME NEW texts, Len(texts) \in Nat, \A i \in 1 .. Len(texts) : Len(texts[i].ids) \in Nat,
         NEW a \in 0 .. Len(texts), NEW b \in a .. Len(texts)
  PROVE  TokensTo(texts, a) <= TokensTo(texts, b)
<1> DEFINE n == Len(texts)
           I == { k \in 0 .. n : a <= k => TokensTo(texts, a) <= TokensTo(texts, k) }
<1>1. /\ TokensTo(texts, a) \in Nat
      /\ \A k \in 1 .. n : TokensTo(texts, k) = TokensTo(texts, k - 1) + Len(texts[k].ids)
      /\ \A k \in 0 .. n : TokensTo(texts, k) \in Nat
  BY TokensToFacts
<1>2. 0 \in I
  BY <1>1
<1>3. ASSUME NEW k \in 1 .. n, k - 1 \in I PROVE k \in I
  <2> SUFFICES ASSUME a <= k PROVE TokensTo(texts, a) <= TokensTo(texts, k)
    OBVIOUS
  <2>1. k \in 0 .. n /\ k - 1 \in 0 .. n
    OBVIOUS
  <2>2. /\ TokensTo(texts, k - 1) \in Nat /\ TokensTo(texts, k) \in Nat /\ Len(texts[k].ids) \in Nat
        /\ TokensTo(texts, k) = TokensTo(texts, k - 1) + Len(texts[k].ids)
    BY <1>1, <2>1
  <2>3. CASE a = k
    BY <2>2, <2>3
  <2>4. CASE a # k
    <3>1. TokensTo(texts, a) <= TokensTo(texts, k - 1)
      BY <1>3, <2>4
    <3> QED
      BY <1>1, <2>2, <3>1
  <2> QED
    BY <2>3, <2>4
<1> HIDE DEF I
<1>4. \A k \in 0 .. n : k \in I
  BY <1>2, <1>3, LoopInduction
<1>5. b \in I
  BY <1>4
<1> QED
  BY <1>5 DEF I

(* Those of a stretch of the texts. *)
LEMMA TokensShift ==
  ASSUME NEW texts, Len(texts) \in Nat, \A i \in 1 .. Len(texts) : Len(texts[i].ids) \in Nat,
         NEW some, Len(some) \in Nat, NEW d \in Nat, d + Len(some) <= Len(texts),
         \A g \in 1 .. Len(some) : some[g].ids = texts[d + g].ids
  PROVE  \A g \in 0 .. Len(some) : TokensTo(some, g) = TokensTo(texts, d + g) - TokensTo(texts, d)
<1> DEFINE n == Len(some)
           I == { g \in 0 .. n : TokensTo(some, g) = TokensTo(texts, d + g) - TokensTo(texts, d) }
<1>1. /\ \A k \in 1 .. Len(texts) : TokensTo(texts, k) = TokensTo(texts, k - 1) + Len(texts[k].ids)
      /\ \A k \in 0 .. Len(texts) : TokensTo(texts, k) \in Nat
  BY TokensToFacts
<1>2. \A g \in 1 .. n : Len(some[g].ids) \in Nat
  OBVIOUS
<1>3. /\ TokensTo(some, 0) = 0
      /\ \A k \in 1 .. n : TokensTo(some, k) = TokensTo(some, k - 1) + Len(some[k].ids)
  BY <1>2, TokensToFacts
<1>4. 0 \in I
  <2>1. d \in 0 .. Len(texts) /\ d + 0 = d /\ 0 \in 0 .. n
    OBVIOUS
  <2>2. TokensTo(texts, d) \in Nat
    BY <1>1, <2>1
  <2>3. TokensTo(some, 0) = TokensTo(texts, d + 0) - TokensTo(texts, d)
    BY <1>3, <2>1, <2>2
  <2> QED
    BY <2>1, <2>3
<1>5. ASSUME NEW g \in 1 .. n, g - 1 \in I PROVE g \in I
  <2>1. TokensTo(some, g) = TokensTo(some, g - 1) + Len(texts[d + g].ids)
    BY <1>3
  <2>2. d + g \in 1 .. Len(texts) /\ d + (g - 1) = (d + g) - 1 /\ d + (g - 1) \in 0 .. Len(texts) /\ d \in 0 .. Len(texts)
    OBVIOUS
  <2>3. TokensTo(texts, d + g) = TokensTo(texts, d + (g - 1)) + Len(texts[d + g].ids)
    BY <1>1, <2>2
  <2>4. TokensTo(some, g - 1) = TokensTo(texts, d + (g - 1)) - TokensTo(texts, d)
    BY <1>5
  <2>5. TokensTo(texts, d + (g - 1)) \in Nat /\ TokensTo(texts, d) \in Nat /\ Len(texts[d + g].ids) \in Nat
    BY <1>1, <2>2
  <2> QED
    BY <2>1, <2>3, <2>4, <2>5
<1> HIDE DEF I
<1>6. \A g \in 0 .. n : g \in I
  BY <1>4, <1>5, LoopInduction
<1> QED
  BY <1>6 DEF I

(* Every position is in one of the texts. *)
LEMMA TokensLocate ==
  ASSUME NEW texts, Len(texts) \in Nat, \A i \in 1 .. Len(texts) : Len(texts[i].ids) \in Nat,
         NEW k \in 0 .. Len(texts), NEW pos \in 1 .. TokensTo(texts, k)
  PROVE  \E g \in 1 .. k : \E j \in 1 .. Len(texts[g].ids) : pos = TokensTo(texts, g - 1) + j
<1> DEFINE n == Len(texts)
           I == { i \in 0 .. n : pos \in 1 .. TokensTo(texts, i) =>
                    \E g \in 1 .. i : \E j \in 1 .. Len(texts[g].ids) : pos = TokensTo(texts, g - 1) + j }
<1>1. /\ TokensTo(texts, 0) = 0
      /\ \A i \in 1 .. n : TokensTo(texts, i) = TokensTo(texts, i - 1) + Len(texts[i].ids)
      /\ \A i \in 0 .. n : TokensTo(texts, i) \in Nat
  BY TokensToFacts
<1>2. 0 \in I
  BY <1>1
<1>3. ASSUME NEW i \in 1 .. n, i - 1 \in I PROVE i \in I
  <2> SUFFICES ASSUME pos \in 1 .. TokensTo(texts, i)
               PROVE  \E g \in 1 .. i : \E j \in 1 .. Len(texts[g].ids) : pos = TokensTo(texts, g - 1) + j
    OBVIOUS
  <2>1. TokensTo(texts, i - 1) \in Nat /\ pos \in Nat /\ Len(texts[i].ids) \in Nat
    BY <1>1
  <2>2. CASE pos <= TokensTo(texts, i - 1)
    <3>1. pos \in 1 .. TokensTo(texts, i - 1)
      BY <2>1, <2>2
    <3>2. PICK g \in 1 .. i - 1 : \E j \in 1 .. Len(texts[g].ids) : pos = TokensTo(texts, g - 1) + j
      BY <1>3, <3>1
    <3>3. g \in 1 .. i
      OBVIOUS
    <3> QED
      BY <3>2, <3>3
  <2>3. CASE pos > TokensTo(texts, i - 1)
    <3>1. pos - TokensTo(texts, i - 1) \in 1 .. Len(texts[i].ids)
          /\ pos = TokensTo(texts, i - 1) + (pos - TokensTo(texts, i - 1))
      BY <1>1, <2>1, <2>3
    <3>2. i \in 1 .. i
      OBVIOUS
    <3> QED
      BY <3>1, <3>2
  <2> QED
    BY <2>1, <2>2, <2>3
<1> HIDE DEF I
<1>4. \A i \in 0 .. n : i \in I
  BY <1>2, <1>3, LoopInduction
<1>5. k \in I
  BY <1>4
<1> QED
  BY <1>5 DEF I

-----------------------------------------------------------------------------
(* Stacks and what comes off them. *)
LEMMA SeqOfTable ==
  ASSUME NEW n \in Nat, NEW S, NEW f \in [1 .. n -> S]
  PROVE  f \in Seq(S) /\ Len(f) = n
<1>1. f \in Seq(S)
  OBVIOUS
<1>2. Len(f) \in Nat /\ DOMAIN f = 1 .. Len(f)
  BY <1>1, LenProperties
<1>3. 1 .. Len(f) = 1 .. n
  BY <1>2
<1> QED
  BY <1>1, <1>2, <1>3

LEMMA ConcatAt ==
  ASSUME NEW S, NEW s \in Seq(S), NEW t \in Seq(S)
  PROVE  /\ s \o t \in Seq(S) /\ Len(s \o t) = Len(s) + Len(t) /\ Len(s) \in Nat /\ Len(t) \in Nat
         /\ \A i \in 1 .. Len(s) : (s \o t)[i] = s[i]
         /\ \A j \in 1 .. Len(t) : (s \o t)[Len(s) + j] = t[j]
<1>1. /\ s \o t \in Seq(S) /\ Len(s \o t) = Len(s) + Len(t) /\ Len(s) \in Nat /\ Len(t) \in Nat
      /\ \A i \in 1 .. Len(s) + Len(t) : (s \o t)[i] = IF i <= Len(s) THEN s[i] ELSE t[i - Len(s)]
  BY ConcatProperties, LenProperties
<1>2. ASSUME NEW i \in 1 .. Len(s) PROVE i \in 1 .. Len(s) + Len(t) /\ i <= Len(s)
  BY <1>1
<1>3. ASSUME NEW j \in 1 .. Len(t)
      PROVE  Len(s) + j \in 1 .. Len(s) + Len(t) /\ ~(Len(s) + j <= Len(s)) /\ Len(s) + j - Len(s) = j
  BY <1>1
<1> QED
  BY <1>1, <1>2, <1>3

LEMMA StackFacts ==
  ASSUME NEW n \in Nat
  PROVE  Stack(n) \in Seq(Nat) /\ Len(Stack(n)) = n /\ \A i \in 1 .. n : Stack(n)[i] = i
<1>1. Stack(n) \in [1 .. n -> Nat]
  BY DEF Stack
<1>2. Stack(n) \in Seq(Nat) /\ Len(Stack(n)) = n
  BY <1>1, SeqOfTable
<1> QED
  BY <1>2 DEF Stack

LEMMA FreshFacts ==
  ASSUME NEW n \in Nat, NEW k \in 0 .. n
  PROVE  /\ Fresh(n, k) \in Seq(Nat) /\ Len(Fresh(n, k)) = k
         /\ \A j \in 1 .. k : Fresh(n, k)[j] = n - j + 1
<1>1. Fresh(n, k) \in [1 .. k -> Nat]
  BY DEF Fresh
<1>2. Fresh(n, k) \in Seq(Nat) /\ Len(Fresh(n, k)) = k
  BY <1>1, SeqOfTable
<1> QED
  BY <1>2 DEF Fresh

LEMMA PopStack ==
  ASSUME NEW f \in Nat, NEW n \in 0 .. f
  PROVE  /\ SubSeq(Stack(f), 1, f - n) = Stack(f - n)
         /\ Reverse(SubSeq(Stack(f), f - n + 1, f)) = Fresh(f, n)
<1> DEFINE low == SubSeq(Stack(f), 1, f - n)
           high == SubSeq(Stack(f), f - n + 1, f)
<1>1. Stack(f) \in Seq(Nat) /\ Len(Stack(f)) = f /\ \A i \in 1 .. f : Stack(f)[i] = i
  BY StackFacts
<1>2. f - n \in 0 .. f /\ f - n \in Nat /\ f - n + 1 \in 1 .. f + 1
  OBVIOUS
<1>3. low \in Seq(Nat) /\ Len(low) = f - n /\ \A i \in 1 .. f - n : low[i] = i
  <2>1. /\ low \in Seq(Nat) /\ Len(low) = IF 1 <= f - n THEN (f - n) - 1 + 1 ELSE 0
        /\ \A i \in 1 .. (f - n) - 1 + 1 : low[i] = Stack(f)[1 + i - 1]
    BY <1>1, <1>2, SliceFacts
  <2>2. ASSUME NEW i \in 1 .. f - n PROVE low[i] = i
    <3>1. i \in 1 .. (f - n) - 1 + 1 /\ 1 + i - 1 = i /\ i \in 1 .. f
      BY <1>2
    <3> QED
      BY <1>1, <2>1, <3>1
  <2>3. Len(low) = f - n
    BY <1>2, <2>1
  <2> QED
    BY <2>1, <2>2, <2>3
<1>4. high \in Seq(Nat) /\ Len(high) = n /\ \A i \in 1 .. n : high[i] = f - n + i
  <2>1. /\ high \in Seq(Nat) /\ Len(high) = IF f - n + 1 <= f THEN f - (f - n + 1) + 1 ELSE 0
        /\ \A i \in 1 .. f - (f - n + 1) + 1 : high[i] = Stack(f)[(f - n + 1) + i - 1]
    BY <1>1, <1>2, SliceFacts
  <2>2. ASSUME NEW i \in 1 .. n PROVE high[i] = f - n + i
    <3>1. /\ i \in 1 .. f - (f - n + 1) + 1 /\ (f - n + 1) + i - 1 = f - n + i
          /\ f - n + i \in 1 .. f
      BY <1>2
    <3> QED
      BY <1>1, <2>1, <3>1
  <2>3. Len(high) = n
    BY <1>2, <2>1
  <2> QED
    BY <2>1, <2>2, <2>3
<1>5. /\ Stack(f - n) \in Seq(Nat) /\ Len(Stack(f - n)) = f - n
      /\ \A i \in 1 .. f - n : Stack(f - n)[i] = i
  BY <1>2, StackFacts
<1>6. /\ Fresh(f, n) \in Seq(Nat) /\ Len(Fresh(f, n)) = n
      /\ \A j \in 1 .. n : Fresh(f, n)[j] = f - j + 1
  BY FreshFacts
<1> HIDE DEF low, high
<1>7. low = Stack(f - n)
  BY <1>3, <1>5, SeqEqual
<1>8. Reverse(high) = Fresh(f, n)
  <2>1. /\ Reverse(high) \in Seq(Nat) /\ Len(Reverse(high)) = n
        /\ \A i \in 1 .. n : Reverse(high)[i] = high[n - i + 1]
    BY <1>4, ReverseFacts
  <2>2. \A i \in 1 .. n : Reverse(high)[i] = Fresh(f, n)[i]
    <3> TAKE i \in 1 .. n
    <3>1. n - i + 1 \in 1 .. n /\ f - n + (n - i + 1) = f - i + 1
      OBVIOUS
    <3>2. high[n - i + 1] = f - n + (n - i + 1)
      BY <1>4, <3>1
    <3> QED
      BY <1>6, <2>1, <3>1, <3>2
  <2> QED
    BY <1>6, <2>1, <2>2, SeqEqual
<1> QED
  BY <1>7, <1>8 DEF low, high

(* extend, on a pool whose free slots are a stack. *)
LEMMA ExtendStack ==
  ASSUME NEW p \in Tables, NEW f \in Nat, p.free = Stack(f), NEW id \in SeqIds, NEW n \in 0 .. f
  PROVE  Extend(p, id, n) = [ free |-> Stack(f - n), live |-> p.live,
                              slots |-> [p.slots EXCEPT ![id] = @ \o Fresh(f, n)], borrowed |-> p.borrowed ]
<1>1. FreeSlots(p) = f
  BY StackFacts DEF FreeSlots
<1>2. Popped(p, n) = Fresh(f, n)
  BY <1>1, PopStack DEF Popped
<1>3. SubSeq(p.free, 1, FreeSlots(p) - n) = Stack(f - n)
  BY <1>1, PopStack
<1>4. Extend(p, id, n) = [p EXCEPT !.free = Stack(f - n), !.slots[id] = @ \o Fresh(f, n)]
  BY <1>2, <1>3 DEF Extend
<1>5. p = [free |-> p.free, live |-> p.live, slots |-> p.slots, borrowed |-> p.borrowed]
  BY DEF Tables
<1> QED
  BY <1>4, <1>5 DEF Tables

(* What an item leaves in memory, on slots that are the next of a stack. *)
Wrote(D, mem, f, ids, new) ==
  /\ new \in [D \cup (f - Len(ids) + 1 .. f) -> TokenIds]
  /\ \A s \in D \ (f - Len(ids) + 1 .. f) : new[s] = mem[s]
  /\ \A k \in 1 .. Len(ids) : new[f - k + 1] = ids[k]

LEMMA WrittenFacts ==
  ASSUME NEW D, NEW mem \in [D -> TokenIds], NEW f \in Nat, NEW ids \in Seq(TokenIds), Len(ids) <= f,
         NEW slots, NEW n \in Nat, \A k \in 1 .. Len(ids) : slots[n + k] = f - k + 1
  PROVE  Wrote(D, mem, f, ids, Written(mem, slots, ids, n))
<1> DEFINE put(s) == { k \in DOMAIN ids : slots[n + k] = s }
           there == { slots[n + k] : k \in DOMAIN ids }
           W == [ s \in DOMAIN mem \cup there |-> IF put(s) = {} THEN mem[s] ELSE ids[CHOOSE k \in put(s) : TRUE] ]
<1>1. Written(mem, slots, ids, n) = W
  BY DEF Written
<1>2. Len(ids) \in Nat /\ DOMAIN ids = 1 .. Len(ids) /\ \A k \in 1 .. Len(ids) : ids[k] \in TokenIds
  BY LenProperties, ElementOfSeq
<1>3. there = f - Len(ids) + 1 .. f
  <2>1. ASSUME NEW s \in f - Len(ids) + 1 .. f PROVE s \in there
    <3>1. f - s + 1 \in 1 .. Len(ids) /\ f - (f - s + 1) + 1 = s
      BY <1>2
    <3>2. slots[n + (f - s + 1)] = f - (f - s + 1) + 1
      BY <3>1
    <3> QED
      BY <1>2, <3>1, <3>2
  <2>2. ASSUME NEW k \in DOMAIN ids PROVE slots[n + k] \in f - Len(ids) + 1 .. f
    BY <1>2
  <2> QED
    BY <2>1, <2>2
<1>4. ASSUME NEW k \in 1 .. Len(ids) PROVE put(f - k + 1) = {k}
  <2>1. ASSUME NEW j \in 1 .. Len(ids), slots[n + j] = f - k + 1 PROVE j = k
    <3>1. slots[n + j] = f - j + 1
      OBVIOUS
    <3> QED
      BY <1>2, <2>1, <3>1
  <2> QED
    BY <1>2, <2>1
<1>5. ASSUME NEW s \in D \cup there PROVE put(s) = {} \/ \E k \in 1 .. Len(ids) : s = f - k + 1 /\ put(s) = {k}
  <2> SUFFICES ASSUME put(s) # {} PROVE \E k \in 1 .. Len(ids) : s = f - k + 1 /\ put(s) = {k}
    OBVIOUS
  <2>1. PICK k \in 1 .. Len(ids) : slots[n + k] = s
    BY <1>2
  <2> QED
    BY <1>4, <2>1
<1>6. ASSUME NEW s \in D, s \notin f - Len(ids) + 1 .. f PROVE put(s) = {}
  BY <1>3, <1>6
<1>7. DOMAIN mem = D
  OBVIOUS
<1> HIDE DEF put, there
<1>8. ASSUME NEW k \in 1 .. Len(ids) PROVE f - k + 1 \in there /\ W[f - k + 1] = ids[k]
  <2>1. f - k + 1 \in there
    BY <1>2, <1>3
  <2>2. (CHOOSE j \in put(f - k + 1) : TRUE) = k /\ put(f - k + 1) # {}
    BY <1>4
  <2> QED
    BY <2>1, <2>2
<1>9. ASSUME NEW s \in D, s \notin f - Len(ids) + 1 .. f PROVE W[s] = mem[s]
  BY <1>6, <1>7, <1>9
<1>10. ASSUME NEW s \in D \cup there PROVE W[s] \in TokenIds
  <2>1. CASE put(s) = {}
    <3>1. s \in D
      <4>1. CASE s \in there
        <5>1. f - s + 1 \in 1 .. Len(ids) /\ f - (f - s + 1) + 1 = s
          BY <1>2, <1>3, <4>1
        <5>2. put(s) = {f - s + 1}
          BY <1>4, <5>1
        <5> QED
          BY <2>1, <5>2
      <4> QED
        BY <4>1
    <3> QED
      BY <1>7, <2>1, <3>1
  <2>2. CASE put(s) # {}
    <3>1. PICK k \in 1 .. Len(ids) : s = f - k + 1 /\ put(s) = {k}
      BY <1>5, <2>2
    <3> QED
      BY <1>2, <1>8, <3>1
  <2> QED
    BY <2>1, <2>2
<1>11. W \in [D \cup there -> TokenIds]
  BY <1>7, <1>10
<1> HIDE DEF W
<1> QED
  BY <1>1, <1>3, <1>8, <1>9, <1>11 DEF Wrote

(* And what its tokens see. *)
Sees(told, before, ids, j) == [attended |-> told \o SubSeq(ids, 1, j), carried |-> before \o SubSeq(ids, 1, j)]

Saw(told, before, ids, rows) ==
  /\ rows \in Seq(Views) /\ Len(rows) = Len(ids)
  /\ \A k \in 1 .. Len(ids) : rows[k] = Sees(told, before, ids, k)

LEMMA SeenFacts ==
  ASSUME NEW mem, NEW slots, NEW before \in Seq(TokenIds), NEW ids \in Seq(TokenIds),
         NEW told \in Seq(TokenIds), NEW n \in Nat, Len(told) = n,
         \A i \in 1 .. n : mem[slots[i]] = told[i], \A k \in 1 .. Len(ids) : mem[slots[n + k]] = ids[k]
  PROVE  Saw(told, before, ids, Seen(mem, slots, before, ids, n))
<1> DEFINE read(k) == [ i \in 1 .. n + k |-> mem[slots[i]] ]
           view(k) == [attended |-> read(k), carried |-> before \o SubSeq(ids, 1, k)]
           W == [ k \in 1 .. Len(ids) |-> view(k) ]
<1>1. Len(ids) \in Nat /\ Seen(mem, slots, before, ids, n) = W
  BY LenProperties DEF Seen
<1>2. ASSUME NEW k \in 1 .. Len(ids)
      PROVE  /\ read(k) = told \o SubSeq(ids, 1, k) /\ read(k) \in Seq(TokenIds)
             /\ before \o SubSeq(ids, 1, k) \in Seq(TokenIds)
  <2> DEFINE cut == SubSeq(ids, 1, k)
  <2>1. k \in Nat /\ 1 \in 1 .. Len(ids) + 1 /\ k \in 0 .. Len(ids) /\ k - 1 + 1 = k
    BY <1>1
  <2>2. cut \in Seq(TokenIds) /\ Len(cut) = k /\ \A i \in 1 .. k : cut[i] = ids[i]
    <3>1. /\ cut \in Seq(TokenIds) /\ Len(cut) = IF 1 <= k THEN k - 1 + 1 ELSE 0
          /\ \A i \in 1 .. k - 1 + 1 : cut[i] = ids[1 + i - 1]
      BY <2>1, SliceFacts
    <3>2. \A i \in 1 .. k : 1 + i - 1 = i
      OBVIOUS
    <3> QED
      BY <2>1, <3>1, <3>2
  <2> HIDE DEF cut
  <2>3. /\ told \o cut \in Seq(TokenIds) /\ Len(told \o cut) = n + k
        /\ \A i \in 1 .. n + k : (told \o cut)[i] = IF i <= n THEN told[i] ELSE cut[i - n]
    <3>1. told \in Seq(TokenIds) /\ cut \in Seq(TokenIds) /\ Len(told) = n /\ Len(cut) = k
      BY <2>2
    <3>2. /\ told \o cut \in Seq(TokenIds) /\ Len(told \o cut) = Len(told) + Len(cut)
          /\ \A i \in 1 .. Len(told) + Len(cut) : (told \o cut)[i] = IF i <= Len(told) THEN told[i] ELSE cut[i - Len(told)]
      BY ONLY <3>1, ConcatProperties
    <3> QED
      BY <3>1, <3>2
  <2>4. ASSUME NEW i \in 1 .. n + k PROVE mem[slots[i]] = (told \o cut)[i]
    <3>1. CASE i <= n
      BY <2>3, <3>1
    <3>2. CASE i > n
      <4>1. i - n \in 1 .. k /\ i - n \in 1 .. Len(ids) /\ n + (i - n) = i /\ ~(i <= n)
        BY <1>1, <3>2
      <4>2. mem[slots[n + (i - n)]] = ids[i - n]
        BY <4>1
      <4> QED
        BY <2>2, <2>3, <4>1, <4>2
    <3>3. i <= n \/ i > n
      BY <2>1
    <3> QED
      BY ONLY <3>1, <3>2, <3>3
  <2>5. read(k) \in [1 .. n + k -> TokenIds]
    <3>1. \A i \in 1 .. n + k : (told \o cut)[i] \in TokenIds
      BY <2>3, ElementOfSeq
    <3> QED
      BY <2>4, <3>1
  <2>6. read(k) \in Seq(TokenIds) /\ Len(read(k)) = n + k
    BY <2>1, <2>5, SeqOfTable
  <2>7. \A i \in 1 .. n + k : read(k)[i] = (told \o cut)[i]
    BY <2>4
  <2> HIDE DEF read
  <2>8. read(k) = told \o cut
    BY <2>3, <2>6, <2>7, SeqEqual
  <2>9. before \o cut \in Seq(TokenIds)
    BY <2>2, ConcatProperties
  <2> QED
    BY <2>6, <2>8, <2>9 DEF cut
<1> HIDE DEF read
<1>3. W \in [1 .. Len(ids) -> Views]
  <2>1. \A k \in 1 .. Len(ids) : view(k) \in Views
    BY <1>2 DEF Views
  <2> HIDE DEF Views, view
  <2> QED
    BY ONLY <2>1
<1>4. \A k \in 1 .. Len(ids) : W[k] = view(k)
  OBVIOUS
<1>5. \A k \in 1 .. Len(ids) : view(k) = Sees(told, before, ids, k)
  BY <1>2 DEF Sees
<1> HIDE DEF W, view
<1>6. W \in Seq(Views) /\ Len(W) = Len(ids)
  BY <1>1, <1>3, SeqOfTable
<1> QED
  BY <1>1, <1>4, <1>5, <1>6 DEF Saw

-----------------------------------------------------------------------------
(* A pass goes through its items one after the other. *)
StartOf(p) == [ok |-> TRUE, pool |-> p, kv |-> kv, carried |-> carried, rows |-> << >>]
HasVerdict(q) == "ok" \in DOMAIN q

LEMMA RunLoop ==
  ASSUME NEW p, NEW batch, Len(batch) \in Nat
  PROVE  \E r : /\ Run(p, batch) = r[Len(batch)]
                /\ r[0] = StartOf(p)
                /\ \A k \in 1 .. Len(batch) : r[k] = RunItem(r[k - 1], batch[k])
<1> DEFINE n == Len(batch)
           S == { m \in Nat : \E h : h = [ k \in 0 .. m |-> IF k = 0 THEN StartOf(p) ELSE RunItem(h[k - 1], batch[k]) ] }
<1>1. 0 \in S
  <2> DEFINE h == [ k \in 0 .. 0 |-> StartOf(p) ]
  <2>1. h = [ k \in 0 .. 0 |-> IF k = 0 THEN StartOf(p) ELSE RunItem(h[k - 1], batch[k]) ]
    OBVIOUS
  <2> QED
    BY <2>1
<1>2. ASSUME NEW m \in Nat, m \in S PROVE m + 1 \in S
  <2>1. PICK h : h = [ k \in 0 .. m |-> IF k = 0 THEN StartOf(p) ELSE RunItem(h[k - 1], batch[k]) ]
    BY <1>2
  <2> DEFINE last == RunItem(h[m], batch[m + 1])
             g == [ k \in 0 .. m + 1 |-> IF k = m + 1 THEN last ELSE h[k] ]
  <2>2. h[0] = StartOf(p) /\ \A k \in 1 .. m : h[k] = RunItem(h[k - 1], batch[k])
    BY <2>1
  <2>3. ASSUME NEW k \in 0 .. m + 1 PROVE g[k] = IF k = 0 THEN StartOf(p) ELSE RunItem(g[k - 1], batch[k])
    <3>1. CASE k = 0
      BY <2>2, <3>1
    <3>2. CASE k = m + 1
      <4>1. g[k - 1] = h[m] /\ g[k] = last
        BY <3>2
      <4> QED
        BY <3>2, <4>1
    <3>3. CASE k \in 1 .. m
      <4>1. g[k] = h[k] /\ g[k - 1] = h[k - 1]
        BY <3>3
      <4> QED
        BY <2>2, <3>3, <4>1
    <3> QED
      BY <3>1, <3>2, <3>3
  <2>4. g = [ k \in 0 .. m + 1 |-> IF k = 0 THEN StartOf(p) ELSE RunItem(g[k - 1], batch[k]) ]
    <3> HIDE DEF last
    <3> QED
      BY <2>3
  <2> HIDE DEF g
  <2> QED
    BY <2>4
<1> HIDE DEF S
<1>3. n \in S
  BY <1>1, <1>2, SetInduction
<1> USE DEF S
<1>4. \E h : h = [ k \in 0 .. n |-> IF k = 0 THEN StartOf(p) ELSE RunItem(h[k - 1], batch[k]) ]
  BY <1>3
<1> DEFINE r == CHOOSE h : h = [ k \in 0 .. n |-> IF k = 0 THEN StartOf(p) ELSE RunItem(h[k - 1], batch[k]) ]
<1>5. r = [ k \in 0 .. n |-> IF k = 0 THEN StartOf(p) ELSE RunItem(r[k - 1], batch[k]) ]
  BY <1>4
<1>6. Run(p, batch) = r[n]
  BY DEF Run, StartOf
<1> HIDE DEF r
<1>7. r[0] = StartOf(p) /\ \A k \in 1 .. n : r[k] = RunItem(r[k - 1], batch[k])
  BY <1>5
<1> QED
  BY <1>6, <1>7

(* What a pass is given: a stack of free slots, rows that are each named     *)
(* once, and whatever those rows hold already, which is not free.           *)
PassReady(p, batch, f) ==
  /\ p \in Tables /\ f \in Nat /\ p.free = Stack(f)
  /\ DOMAIN kv \subseteq Nat /\ kv \in [DOMAIN kv -> TokenIds]
  /\ carried \in [SeqIds -> Seq(TokenIds)]
  /\ Len(batch) \in Nat
  /\ \A g \in 1 .. Len(batch) : batch[g].seq \in p.live /\ batch[g].ids \in Seq(TokenIds)
  /\ \A g, h \in 1 .. Len(batch) : batch[g].seq = batch[h].seq => g = h
  /\ \A g \in 1 .. Len(batch) : \A i \in 1 .. SeqLen(p, batch[g].seq) :
       p.slots[batch[g].seq][i] \in DOMAIN kv /\ p.slots[batch[g].seq][i] > f

Told(p, id) == [ i \in 1 .. SeqLen(p, id) |-> kv[p.slots[id][i]] ]
Heard(p, id) == IF SeqLen(p, id) = 0 THEN << >> ELSE carried[id]
Sight(p, item, j) == Sees(Told(p, item.seq), Heard(p, item.seq), item.ids, j)

(* The rows of the first k items; and what is in q when these are through. *)
RowsTo(batch, k) == { batch[g].seq : g \in 1 .. k }
PoolAfter(p, batch, f, k, q) ==
  /\ q \in Tables /\ q.free = Stack(f - TokensTo(batch, k)) /\ q.live = p.live /\ q.borrowed = p.borrowed
  /\ \A id \in SeqIds \ RowsTo(batch, k) : q.slots[id] = p.slots[id]
  /\ \A g \in 1 .. k : q.slots[batch[g].seq]
       = p.slots[batch[g].seq] \o Fresh(f - TokensTo(batch, g - 1), Len(batch[g].ids))
CarriedAfter(p, batch, k, c) ==
  /\ c \in [SeqIds -> Seq(TokenIds)]
  /\ \A id \in SeqIds \ RowsTo(batch, k) : c[id] = carried[id]
  /\ \A g \in 1 .. k : c[batch[g].seq] = Heard(p, batch[g].seq) \o batch[g].ids
KvAfter(batch, f, k, mem) ==
  /\ mem \in [DOMAIN kv \cup (f - TokensTo(batch, k) + 1 .. f) -> TokenIds]
  /\ \A s \in DOMAIN kv : s > f => mem[s] = kv[s]
  /\ \A g \in 1 .. k : \A j \in 1 .. Len(batch[g].ids) : mem[f - TokensTo(batch, g - 1) - j + 1] = batch[g].ids[j]
RowsAfter(p, batch, k, rows) ==
  /\ rows \in Seq(Views) /\ Len(rows) = TokensTo(batch, k)
  /\ \A g \in 1 .. k : \A j \in 1 .. Len(batch[g].ids) : rows[TokensTo(batch, g - 1) + j] = Sight(p, batch[g], j)
PassTo(p, batch, f, k, q) ==
  /\ TokensTo(batch, k) <= f
  /\ PoolAfter(p, batch, f, k, q.pool) /\ CarriedAfter(p, batch, k, q.carried)
  /\ KvAfter(batch, f, k, q.kv) /\ RowsAfter(p, batch, k, q.rows)

LEMMA PassTokens ==
  ASSUME NEW p, NEW batch, NEW f, PassReady(p, batch, f)
  PROVE  /\ Len(batch) \in Nat /\ \A g \in 1 .. Len(batch) : Len(batch[g].ids) \in Nat
         /\ TokensTo(batch, 0) = 0
         /\ \A k \in 1 .. Len(batch) : TokensTo(batch, k) = TokensTo(batch, k - 1) + Len(batch[k].ids)
         /\ \A k \in 0 .. Len(batch) : TokensTo(batch, k) \in Nat
         /\ \A k \in 1 .. Len(batch) : batch[k].seq \in SeqIds /\ batch[k].seq \in p.live /\ batch[k].ids \in Seq(TokenIds)
<1>1. Len(batch) \in Nat /\ \A k \in 1 .. Len(batch) : batch[k].seq \in p.live /\ batch[k].ids \in Seq(TokenIds)
  BY DEF PassReady
<1>2. \A g \in 1 .. Len(batch) : Len(batch[g].ids) \in Nat
  BY <1>1, LenProperties
<1>3. p.live \subseteq SeqIds
  BY DEF PassReady, Tables
<1> QED
  BY <1>1, <1>2, <1>3, TokensToFacts

(* The row of the next item is as the pass found it. *)
LEMMA NextRowRests ==
  ASSUME NEW p, NEW batch, NEW f, PassReady(p, batch, f), NEW k \in 1 .. Len(batch), NEW q,
         PassTo(p, batch, f, k - 1, q)
  PROVE  /\ batch[k].seq \in SeqIds \ RowsTo(batch, k - 1)
         /\ q.pool.slots[batch[k].seq] = p.slots[batch[k].seq]
         /\ SeqLen(q.pool, batch[k].seq) = SeqLen(p, batch[k].seq)
         /\ SeqLen(p, batch[k].seq) \in Nat /\ p.slots[batch[k].seq] \in Seq(Nat)
         /\ q.carried[batch[k].seq] = carried[batch[k].seq]
<1>1. batch[k].seq \in SeqIds
  BY PassTokens
<1>2. batch[k].seq \notin RowsTo(batch, k - 1)
  <2> SUFFICES ASSUME NEW g \in 1 .. k - 1, batch[g].seq = batch[k].seq PROVE FALSE
    BY DEF RowsTo
  <2>1. g \in 1 .. Len(batch) /\ g # k
    BY PassTokens
  <2> QED
    BY <2>1 DEF PassReady
<1>3. q.pool.slots[batch[k].seq] = p.slots[batch[k].seq]
  BY <1>1, <1>2 DEF PassTo, PoolAfter
<1>4. q.carried[batch[k].seq] = carried[batch[k].seq]
  BY <1>1, <1>2 DEF PassTo, CarriedAfter
<1>5. p.slots[batch[k].seq] \in Seq(Nat)
  BY <1>1 DEF PassReady, Tables
<1>6. Len(p.slots[batch[k].seq]) \in Nat
  BY <1>5, LenProperties
<1> QED
  BY <1>1, <1>2, <1>3, <1>4, <1>5, <1>6 DEF SeqLen

(* Whether the next item finds room, and its slots. *)
Took(p, batch, f, k, q, after) ==
  /\ after \in Tables /\ after.free = Stack(f - TokensTo(batch, k))
  /\ after.live = p.live /\ after.borrowed = p.borrowed
  /\ \A id \in SeqIds \ {batch[k].seq} : after.slots[id] = q.pool.slots[id]
  /\ after.slots[batch[k].seq] = p.slots[batch[k].seq] \o Fresh(f - TokensTo(batch, k - 1), Len(batch[k].ids))

LEMMA ItemSlots ==
  ASSUME NEW p, NEW batch, NEW f, PassReady(p, batch, f), NEW k \in 1 .. Len(batch), NEW q,
         PassTo(p, batch, f, k - 1, q)
  PROVE  /\ CanExtend(q.pool, batch[k].seq, Len(batch[k].ids))
              <=> SeqLen(p, batch[k].seq) + Len(batch[k].ids) <= MaxSeq /\ TokensTo(batch, k) <= f
         /\ TokensTo(batch, k) <= f =>
              Took(p, batch, f, k, q, Extend(q.pool, batch[k].seq, Len(batch[k].ids)))
<1> DEFINE seq == batch[k].seq
           ids == batch[k].ids
           left == f - TokensTo(batch, k - 1)
<1>1. /\ k - 1 \in 0 .. Len(batch) /\ k \in 0 .. Len(batch) /\ TokensTo(batch, k - 1) \in Nat
      /\ TokensTo(batch, k) = TokensTo(batch, k - 1) + Len(ids) /\ Len(ids) \in Nat /\ f \in Nat
  <2>1. f \in Nat
    BY DEF PassReady
  <2>2. /\ Len(batch) \in Nat /\ Len(batch[k].ids) \in Nat /\ \A h \in 0 .. Len(batch) : TokensTo(batch, h) \in Nat
        /\ TokensTo(batch, k) = TokensTo(batch, k - 1) + Len(batch[k].ids)
    BY PassTokens
  <2>3. k - 1 \in 0 .. Len(batch) /\ k \in 0 .. Len(batch)
    BY <2>2
  <2> QED
    BY <2>1, <2>2, <2>3
<1>2. /\ q.pool \in Tables /\ q.pool.free = Stack(left) /\ q.pool.live = p.live /\ q.pool.borrowed = p.borrowed
      /\ TokensTo(batch, k - 1) <= f
  BY DEF PassTo, PoolAfter
<1>3. left \in Nat
  BY <1>1, <1>2
<1>4. seq \in SeqIds /\ seq \in p.live
  BY PassTokens
<1>5. FreeSlots(q.pool) = left
  BY <1>2, <1>3, StackFacts DEF FreeSlots
<1>6. SeqLen(q.pool, seq) = SeqLen(p, seq) /\ q.pool.slots[seq] = p.slots[seq]
  BY NextRowRests
<1>7. CanExtend(q.pool, seq, Len(ids)) <=> SeqLen(p, seq) + Len(ids) <= MaxSeq /\ TokensTo(batch, k) <= f
  <2>1. Len(ids) <= left <=> TokensTo(batch, k) <= f
    BY <1>1
  <2> QED
    BY <1>2, <1>4, <1>5, <1>6, <2>1 DEF CanExtend
<1> DEFINE after == Extend(q.pool, seq, Len(ids))
<1>8. ASSUME TokensTo(batch, k) <= f
      PROVE  /\ after \in Tables /\ after.free = Stack(f - TokensTo(batch, k))
             /\ after.live = p.live /\ after.borrowed = p.borrowed
             /\ \A id \in SeqIds \ {seq} : after.slots[id] = q.pool.slots[id]
             /\ after.slots[seq] = p.slots[seq] \o Fresh(left, Len(ids))
  <2>1. Len(ids) \in 0 .. left /\ left - Len(ids) = f - TokensTo(batch, k)
    BY <1>1, <1>3, <1>8
  <2>2. after = [ free |-> Stack(left - Len(ids)), live |-> q.pool.live,
                  slots |-> [q.pool.slots EXCEPT ![seq] = @ \o Fresh(left, Len(ids))], borrowed |-> q.pool.borrowed ]
    BY <1>2, <1>3, <1>4, <2>1, ExtendStack
  <2>3. q.pool.slots \in [SeqIds -> Seq(Nat)] /\ q.pool.live \in SUBSET SeqIds /\ q.pool.borrowed \in [SeqIds -> Nat]
    BY <1>2 DEF Tables
  <2>4. Fresh(left, Len(ids)) \in Seq(Nat) /\ Stack(left - Len(ids)) \in Seq(Nat)
    <3>1. Fresh(left, Len(ids)) \in Seq(Nat)
      BY <1>3, <2>1, FreshFacts
    <3>2. left - Len(ids) \in Nat
      BY <1>3, <2>1
    <3> QED
      BY <3>1, <3>2, StackFacts
  <2> DEFINE mine == q.pool.slots[seq] \o Fresh(left, Len(ids))
  <2>5. mine \in Seq(Nat)
    BY <1>4, <2>3, <2>4, ConcatProperties
  <2> HIDE DEF left, after, ids
  <2>6. after.slots = [q.pool.slots EXCEPT ![seq] = mine]
    BY <2>2
  <2> HIDE DEF mine
  <2>7. after.free = Stack(left - Len(ids)) /\ after.live = q.pool.live /\ after.borrowed = q.pool.borrowed
        /\ after = [free |-> after.free, live |-> after.live, slots |-> after.slots, borrowed |-> after.borrowed]
    BY <2>2
  <2>8. /\ after.slots[seq] = mine /\ \A id \in SeqIds \ {seq} : after.slots[id] = q.pool.slots[id]
        /\ after.slots \in [SeqIds -> Seq(Nat)]
    BY <1>4, <2>3, <2>5, <2>6
  <2>9. after \in Tables
    BY <2>3, <2>4, <2>7, <2>8 DEF Tables
  <2> QED
    BY <1>2, <1>6, <2>1, <2>7, <2>8, <2>9 DEF mine
<1> QED
  BY <1>7, <1>8 DEF Took

(* One item further. *)
LEMMA ItemStep ==
  ASSUME NEW p, NEW batch, NEW f, PassReady(p, batch, f), NEW k \in 1 .. Len(batch), NEW q, HasVerdict(q), q.ok,
         PassTo(p, batch, f, k - 1, q)
  PROVE  /\ HasVerdict(RunItem(q, batch[k]))
         /\ RunItem(q, batch[k]).ok \in BOOLEAN
         /\ RunItem(q, batch[k]).ok
              <=> SeqLen(p, batch[k].seq) + Len(batch[k].ids) <= MaxSeq /\ TokensTo(batch, k) <= f
         /\ RunItem(q, batch[k]).ok => PassTo(p, batch, f, k, RunItem(q, batch[k]))
<1> DEFINE seq == batch[k].seq
           ids == batch[k].ids
           l == Len(ids)
           n == SeqLen(p, seq)
           top == f - TokensTo(batch, k - 1)
           slots == p.slots[seq] \o Fresh(top, l)
           after == Extend(q.pool, seq, l)
           before == Heard(p, seq)
           mem == Written(q.kv, slots, ids, n)
           next == [ ok |-> TRUE, pool |-> after, kv |-> mem, carried |-> [q.carried EXCEPT ![seq] = before \o ids],
                     rows |-> q.rows \o Seen(mem, slots, before, ids, n) ]
<1>1. /\ k - 1 \in 0 .. Len(batch) /\ k \in 0 .. Len(batch) /\ Len(batch) \in Nat
      /\ TokensTo(batch, k - 1) \in Nat /\ TokensTo(batch, k) \in Nat
      /\ TokensTo(batch, k) = TokensTo(batch, k - 1) + l /\ l \in Nat
      /\ seq \in SeqIds /\ seq \in p.live /\ ids \in Seq(TokenIds)
  <2>1. /\ Len(batch) \in Nat /\ Len(batch[k].ids) \in Nat /\ \A h \in 0 .. Len(batch) : TokensTo(batch, h) \in Nat
        /\ TokensTo(batch, k) = TokensTo(batch, k - 1) + Len(batch[k].ids)
        /\ batch[k].seq \in SeqIds /\ batch[k].seq \in p.live /\ batch[k].ids \in Seq(TokenIds)
    BY PassTokens
  <2>2. k - 1 \in 0 .. Len(batch) /\ k \in 0 .. Len(batch)
    BY <2>1
  <2> QED
    BY <2>1, <2>2
<1>2. f \in Nat /\ TokensTo(batch, k - 1) <= f /\ top \in Nat
  BY <1>1 DEF PassReady, PassTo
<1>3. /\ seq \notin RowsTo(batch, k - 1)
      /\ SeqLen(q.pool, seq) = n /\ n \in Nat /\ p.slots[seq] \in Seq(Nat)
      /\ q.carried[seq] = carried[seq]
  BY NextRowRests
<1>4. /\ CanExtend(q.pool, seq, l) <=> n + l <= MaxSeq /\ TokensTo(batch, k) <= f
      /\ TokensTo(batch, k) <= f => Took(p, batch, f, k, q, after)
  BY ItemSlots
<1>5. CASE ~CanExtend(q.pool, seq, l)
  <2>1. RunItem(q, batch[k]) = [q EXCEPT !.ok = FALSE]
    BY <1>5 DEF RunItem
  <2>2. HasVerdict([q EXCEPT !.ok = FALSE]) /\ [q EXCEPT !.ok = FALSE].ok = FALSE
    BY DEF HasVerdict
  <2> QED
    BY <1>4, <1>5, <2>1, <2>2
<1>6. CASE CanExtend(q.pool, seq, l)
  <2>1. TokensTo(batch, k) <= f /\ n + l <= MaxSeq /\ l <= top /\ l \in 0 .. top /\ top - l = f - TokensTo(batch, k)
    <3>1. TokensTo(batch, k) <= f /\ n + l <= MaxSeq
      BY <1>4, <1>6
    <3> QED
      BY <1>1, <1>2, <3>1
  <2>2. RunItem(q, batch[k]) = next
    <3>1. (IF n = 0 THEN << >> ELSE q.carried[seq]) = before
      BY <1>3 DEF Heard
    <3>2. RunItem(q, batch[k]) = Placed(q, seq, ids, n, after.slots[seq], before)
      BY <1>3, <1>6, <3>1 DEF RunItem
    <3>3. after.slots[seq] = slots
      BY <1>4, <2>1 DEF Took
    <3> QED
      BY <3>2, <3>3 DEF Placed
  <2>3. /\ Fresh(top, l) \in Seq(Nat) /\ Len(Fresh(top, l)) = l
        /\ \A j \in 1 .. l : Fresh(top, l)[j] = top - j + 1
    BY <1>2, <2>1, FreshFacts
  <2>4. /\ slots \in Seq(Nat) /\ Len(slots) = n + l
        /\ \A i \in 1 .. n : slots[i] = p.slots[seq][i]
        /\ \A j \in 1 .. l : slots[n + j] = top - j + 1
    <3> DEFINE fresh == Fresh(top, l)
               mine == p.slots[seq]
    <3>1. Len(mine) = n /\ mine \in Seq(Nat)
      BY <1>3 DEF SeqLen
    <3>2. fresh \in Seq(Nat) /\ Len(fresh) = l /\ \A j \in 1 .. l : fresh[j] = top - j + 1
      BY <2>3
    <3> HIDE DEF fresh, mine
    <3>6. mine \in Seq(Nat) /\ fresh \in Seq(Nat) /\ Len(mine) = n /\ Len(fresh) = l
      BY <3>1, <3>2
    <3> HIDE DEF n, l
    <3>3. mine \o fresh \in Seq(Nat) /\ Len(mine \o fresh) = n + l
      <4>1. mine \o fresh \in Seq(Nat) /\ Len(mine \o fresh) = Len(mine) + Len(fresh)
        BY ONLY <3>6, ConcatProperties
      <4> QED
        BY ONLY <3>6, <4>1
    <3>4. \A i \in 1 .. n : (mine \o fresh)[i] = mine[i]
      <4>1. \A i \in 1 .. Len(mine) : (mine \o fresh)[i] = mine[i]
        BY ONLY <3>6, ConcatAt
      <4> QED
        BY ONLY <3>6, <4>1
    <3>5. \A j \in 1 .. l : (mine \o fresh)[n + j] = fresh[j]
      <4>1. \A j \in 1 .. Len(fresh) : (mine \o fresh)[Len(mine) + j] = fresh[j]
        BY ONLY <3>6, ConcatAt
      <4> QED
        BY ONLY <3>6, <4>1
    <3> QED
      BY <3>2, <3>3, <3>4, <3>5 DEF fresh, mine
  <2>5. before \in Seq(TokenIds)
    <3>1. carried[seq] \in Seq(TokenIds) /\ << >> \in Seq(TokenIds)
      BY <1>1 DEF PassReady
    <3> QED
      BY <3>1 DEF Heard
  <2> HIDE DEF slots, after, before
  <2>6. PoolAfter(p, batch, f, k, after)
    <3>1. /\ after \in Tables /\ after.free = Stack(f - TokensTo(batch, k))
          /\ after.live = p.live /\ after.borrowed = p.borrowed
          /\ \A id \in SeqIds \ {seq} : after.slots[id] = q.pool.slots[id]
          /\ after.slots[seq] = slots
      BY <1>4, <2>1 DEF Took, slots
    <3>2. /\ \A id \in SeqIds \ RowsTo(batch, k - 1) : q.pool.slots[id] = p.slots[id]
          /\ \A g \in 1 .. k - 1 : q.pool.slots[batch[g].seq]
               = p.slots[batch[g].seq] \o Fresh(f - TokensTo(batch, g - 1), Len(batch[g].ids))
      BY DEF PassTo, PoolAfter
    <3>8. RowsTo(batch, k) = RowsTo(batch, k - 1) \cup {seq}
      <4>1. 1 .. k = (1 .. k - 1) \cup {k}
        BY <1>1
      <4> QED
        BY <4>1 DEF RowsTo
    <3>9. ASSUME NEW g \in 1 .. k
          PROVE  after.slots[batch[g].seq] = p.slots[batch[g].seq] \o Fresh(f - TokensTo(batch, g - 1), Len(batch[g].ids))
      <4>1. CASE g = k
        BY <3>1, <4>1 DEF slots
      <4>2. CASE g # k
        <5>1. g \in 1 .. k - 1 /\ g \in 1 .. Len(batch)
          BY <1>1, <4>2
        <5>2. batch[g].seq \in RowsTo(batch, k - 1)
          BY <5>1 DEF RowsTo
        <5>3. batch[g].seq \in SeqIds \ {seq}
          BY <1>3, <5>1, <5>2, PassTokens
        <5>4. after.slots[batch[g].seq] = q.pool.slots[batch[g].seq]
          BY <3>1, <5>3
        <5>5. q.pool.slots[batch[g].seq] = p.slots[batch[g].seq] \o Fresh(f - TokensTo(batch, g - 1), Len(batch[g].ids))
          BY <3>2, <5>1
        <5> QED
          BY ONLY <5>4, <5>5
      <4> QED
        BY <4>1, <4>2
    <3>10. ASSUME NEW id \in SeqIds \ RowsTo(batch, k) PROVE after.slots[id] = p.slots[id]
      <4>1. id \in SeqIds \ {seq} /\ id \in SeqIds \ RowsTo(batch, k - 1)
        BY <3>8
      <4> QED
        BY <3>1, <3>2, <4>1
    <3> QED
      BY <3>1, <3>9, <3>10 DEF PoolAfter
  <2>7. CarriedAfter(p, batch, k, [q.carried EXCEPT ![seq] = before \o ids])
    <3> DEFINE c == [q.carried EXCEPT ![seq] = before \o ids]
    <3>1. /\ q.carried \in [SeqIds -> Seq(TokenIds)]
          /\ \A id \in SeqIds \ RowsTo(batch, k - 1) : q.carried[id] = carried[id]
          /\ \A g \in 1 .. k - 1 : q.carried[batch[g].seq] = Heard(p, batch[g].seq) \o batch[g].ids
      BY DEF PassTo, CarriedAfter
    <3>2. before \o ids \in Seq(TokenIds)
      BY <1>1, <2>5, ConcatProperties
    <3>3. c \in [SeqIds -> Seq(TokenIds)] /\ c[seq] = before \o ids /\ \A id \in SeqIds \ {seq} : c[id] = q.carried[id]
      BY <1>1, <3>1, <3>2
    <3>4. RowsTo(batch, k) = RowsTo(batch, k - 1) \cup {seq}
      <4>1. 1 .. k = (1 .. k - 1) \cup {k}
        BY <1>1
      <4> QED
        BY <4>1 DEF RowsTo
    <3> HIDE DEF c
    <3>5. ASSUME NEW g \in 1 .. k PROVE c[batch[g].seq] = Heard(p, batch[g].seq) \o batch[g].ids
      <4>1. CASE g = k
        BY <3>3, <4>1 DEF before
      <4>2. CASE g # k
        <5>1. g \in 1 .. k - 1 /\ g \in 1 .. Len(batch)
          BY <1>1, <4>2
        <5>2. batch[g].seq \in RowsTo(batch, k - 1)
          BY <5>1 DEF RowsTo
        <5>3. batch[g].seq \in SeqIds \ {seq}
          BY <1>3, <5>1, <5>2, PassTokens
        <5> QED
          BY <3>1, <3>3, <5>1, <5>3
      <4> QED
        BY <4>1, <4>2
    <3> QED
      BY <3>1, <3>3, <3>4, <3>5 DEF CarriedAfter, c
  <2>8. /\ mem \in [DOMAIN kv \cup (f - TokensTo(batch, k) + 1 .. f) -> TokenIds]
        /\ \A s \in DOMAIN kv : s > f => mem[s] = kv[s]
        /\ \A j \in 1 .. l : mem[top - j + 1] = ids[j]
        /\ \A g \in 1 .. k : \A j \in 1 .. Len(batch[g].ids) :
             mem[f - TokensTo(batch, g - 1) - j + 1] = batch[g].ids[j]
    <3> DEFINE D == DOMAIN kv \cup (f - TokensTo(batch, k - 1) + 1 .. f)
    <3>1. q.kv \in [D -> TokenIds] /\ \A s \in DOMAIN kv : s > f => q.kv[s] = kv[s]
      BY DEF PassTo, KvAfter
    <3>2. /\ mem \in [D \cup (top - l + 1 .. top) -> TokenIds]
          /\ \A s \in D \ (top - l + 1 .. top) : mem[s] = q.kv[s]
          /\ \A j \in 1 .. l : mem[top - j + 1] = ids[j]
      <4>1. \A j \in 1 .. Len(ids) : slots[n + j] = top - j + 1
        BY <2>4
      <4>2. ids \in Seq(TokenIds) /\ Len(ids) <= top /\ top \in Nat /\ n \in Nat
        BY <1>1, <1>2, <1>3, <2>1
      <4>3. q.kv \in [D -> TokenIds]
        BY <3>1
      <4> HIDE DEF D, ids, n, top
      <4>4. Wrote(D, q.kv, top, ids, mem)
        BY ONLY <4>1, <4>2, <4>3, WrittenFacts
      <4> QED
        BY <4>4 DEF Wrote
    <3>3. D \cup (top - l + 1 .. top) = DOMAIN kv \cup (f - TokensTo(batch, k) + 1 .. f)
      <4>1. (f - TokensTo(batch, k - 1) + 1 .. f) \cup (top - l + 1 .. top) = f - TokensTo(batch, k) + 1 .. f
        <5> DEFINE e == TokensTo(batch, k - 1)
        <5>1. e \in Nat /\ l \in Nat /\ f \in Nat /\ e + l <= f /\ TokensTo(batch, k) = e + l
          BY <1>1, <1>2, <2>1
        <5> HIDE DEF e, l
        <5>2. (f - e + 1 .. f) \cup (f - e - l + 1 .. f - e) = f - (e + l) + 1 .. f
          BY ONLY <5>1
        <5> QED
          BY <5>1, <5>2 DEF e
      <4> QED
        BY <4>1
    <3>4. ASSUME NEW s \in DOMAIN kv, s > f PROVE mem[s] = kv[s]
      <4>1. s \in Nat
        BY DEF PassReady
      <4>2. s \in D \ (top - l + 1 .. top)
        BY <1>1, <1>2, <3>4, <4>1
      <4> QED
        BY <3>1, <3>2, <3>4, <4>2
    <3>5. ASSUME NEW g \in 1 .. k, NEW j \in 1 .. Len(batch[g].ids)
          PROVE  mem[f - TokensTo(batch, g - 1) - j + 1] = batch[g].ids[j]
      <4> DEFINE s == f - TokensTo(batch, g - 1) - j + 1
      <4>1. CASE g = k
        <5>1. j \in 1 .. l /\ s = top - j + 1
          BY <4>1
        <5> QED
          BY <3>2, <4>1, <5>1
      <4>2. CASE g # k
        <5>1. g \in 1 .. k - 1 /\ g \in 1 .. Len(batch) /\ g \in 0 .. Len(batch) /\ g - 1 \in 0 .. Len(batch)
              /\ k - 1 \in g .. Len(batch)
          BY <1>1, <4>2
        <5>2. /\ TokensTo(batch, g) = TokensTo(batch, g - 1) + Len(batch[g].ids)
              /\ TokensTo(batch, g) \in Nat /\ TokensTo(batch, g - 1) \in Nat /\ Len(batch[g].ids) \in Nat
              /\ \A h \in 1 .. Len(batch) : Len(batch[h].ids) \in Nat
          BY <5>1, PassTokens
        <5>3. TokensTo(batch, g) <= TokensTo(batch, k - 1)
          BY <1>1, <5>1, <5>2, TokensGrow
        <5>4. s \in f - TokensTo(batch, k - 1) + 1 .. f /\ s \notin top - l + 1 .. top
          <6> DEFINE e == TokensTo(batch, k - 1)
                     a == TokensTo(batch, g - 1)
          <6>1. /\ e \in Nat /\ a \in Nat /\ f \in Nat /\ l \in Nat /\ top = f - e /\ e <= f
                /\ a + j <= e /\ j \in Nat /\ j >= 1 /\ s = f - a - j + 1
            <7>1. e \in Nat /\ a \in Nat /\ f \in Nat /\ l \in Nat /\ top = f - e /\ e <= f
              BY <1>1, <1>2, <5>2
            <7>2. a + Len(batch[g].ids) <= e /\ Len(batch[g].ids) \in Nat /\ j \in 1 .. Len(batch[g].ids)
              BY <5>2, <5>3
            <7>3. s = f - a - j + 1
              OBVIOUS
            <7> HIDE DEF e, a, top, l, s
            <7> QED
              BY <7>1, <7>2, <7>3
          <6> HIDE DEF e, a, top, l, s
          <6>2. s \in f - e + 1 .. f /\ s \notin top - l + 1 .. top
            BY ONLY <6>1
          <6> QED
            BY <6>2 DEF e
        <5>5. q.kv[s] = batch[g].ids[j]
          BY <5>1 DEF PassTo, KvAfter
        <5>6. s \in D \ (top - l + 1 .. top)
          BY <5>4
        <5> HIDE DEF s, D, mem
        <5>7. mem[s] = q.kv[s]
          BY <3>2, <5>6
        <5> QED
          BY <5>5, <5>7 DEF s
      <4> QED
        BY <4>1, <4>2
    <3> QED
      BY <3>2, <3>3, <3>4, <3>5
  <2>9. /\ Seen(mem, slots, before, ids, n) \in Seq(Views) /\ Len(Seen(mem, slots, before, ids, n)) = l
        /\ \A j \in 1 .. l : Seen(mem, slots, before, ids, n)[j] = Sight(p, batch[k], j)
    <3> DEFINE told == Told(p, seq)
    <3>1. ASSUME NEW i \in 1 .. n PROVE p.slots[seq][i] \in DOMAIN kv /\ p.slots[seq][i] > f
      BY DEF PassReady
    <3>2. told \in [1 .. n -> TokenIds]
      <4>1. kv \in [DOMAIN kv -> TokenIds]
        BY DEF PassReady
      <4>2. \A i \in 1 .. n : kv[p.slots[seq][i]] \in TokenIds
        BY <3>1, <4>1
      <4> QED
        BY <4>2 DEF Told
    <3>3. told \in Seq(TokenIds) /\ Len(told) = n
      BY <1>3, <3>2, SeqOfTable
    <3>4. ASSUME NEW i \in 1 .. n PROVE mem[slots[i]] = told[i]
      <4>1. slots[i] = p.slots[seq][i]
        BY <2>4
      <4>2. mem[p.slots[seq][i]] = kv[p.slots[seq][i]]
        BY <2>8, <3>1
      <4> QED
        BY <4>1, <4>2 DEF Told
    <3>5. \A j \in 1 .. Len(ids) : mem[slots[n + j]] = ids[j]
      BY <2>4, <2>8
    <3>6. ids \in Seq(TokenIds) /\ n \in Nat
      BY <1>1, <1>3
    <3> HIDE DEF told, mem, ids, n
    <3>7. Saw(told, before, ids, Seen(mem, slots, before, ids, n))
      BY ONLY <2>5, <3>3, <3>4, <3>5, <3>6, SeenFacts
    <3>9. \A j \in 1 .. Len(ids) : Sight(p, batch[k], j) = Sees(told, before, ids, j)
      BY DEF Sight, told, before, ids
    <3> QED
      BY <3>7, <3>9 DEF Saw
  <2>10. RowsAfter(p, batch, k, q.rows \o Seen(mem, slots, before, ids, n))
    <3> DEFINE seen == Seen(mem, slots, before, ids, n)
    <3>1. /\ q.rows \in Seq(Views) /\ Len(q.rows) = TokensTo(batch, k - 1)
          /\ \A g \in 1 .. k - 1 : \A j \in 1 .. Len(batch[g].ids) :
               q.rows[TokensTo(batch, g - 1) + j] = Sight(p, batch[g], j)
      BY DEF PassTo, RowsAfter
    <3> HIDE DEF seen
    <3>2. seen \in Seq(Views) /\ Len(seen) = l /\ \A j \in 1 .. l : seen[j] = Sight(p, batch[k], j)
      BY <2>9 DEF seen
    <3>3. /\ q.rows \o seen \in Seq(Views) /\ Len(q.rows \o seen) = TokensTo(batch, k - 1) + l
          /\ \A i \in 1 .. TokensTo(batch, k - 1) : (q.rows \o seen)[i] = q.rows[i]
          /\ \A j \in 1 .. l : (q.rows \o seen)[TokensTo(batch, k - 1) + j] = seen[j]
      <4> DEFINE old == q.rows
                 start == TokensTo(batch, k - 1)
                 long == l
      <4>1. old \in Seq(Views) /\ seen \in Seq(Views) /\ Len(old) = start /\ Len(seen) = long
        BY <3>1, <3>2
      <4> HIDE DEF old, start, long
      <4>2. old \o seen \in Seq(Views) /\ Len(old \o seen) = start + long
        <5>1. old \o seen \in Seq(Views) /\ Len(old \o seen) = Len(old) + Len(seen)
          BY ONLY <4>1, ConcatProperties
        <5> QED
          BY ONLY <4>1, <5>1
      <4>3. \A i \in 1 .. start : (old \o seen)[i] = old[i]
        <5>1. \A i \in 1 .. Len(old) : (old \o seen)[i] = old[i]
          BY ONLY <4>1, ConcatAt
        <5> QED
          BY ONLY <4>1, <5>1
      <4>4. \A j \in 1 .. long : (old \o seen)[start + j] = seen[j]
        <5>1. \A j \in 1 .. Len(seen) : (old \o seen)[Len(old) + j] = seen[j]
          BY ONLY <4>1, ConcatAt
        <5> QED
          BY ONLY <4>1, <5>1
      <4> QED
        BY <4>2, <4>3, <4>4 DEF old, start, long
    <3>4. ASSUME NEW g \in 1 .. k, NEW j \in 1 .. Len(batch[g].ids)
          PROVE  (q.rows \o seen)[TokensTo(batch, g - 1) + j] = Sight(p, batch[g], j)
      <4>1. CASE g = k
        <5>1. j \in 1 .. l
          BY <4>1
        <5>2. (q.rows \o seen)[TokensTo(batch, k - 1) + j] = Sight(p, batch[k], j)
          BY <3>2, <3>3, <5>1
        <5> QED
          BY <4>1, <5>2
      <4>2. CASE g # k
        <5>1. g \in 1 .. k - 1 /\ g \in 1 .. Len(batch) /\ g \in 0 .. Len(batch) /\ g - 1 \in 0 .. Len(batch)
              /\ k - 1 \in g .. Len(batch)
          BY <1>1, <4>2
        <5>2. /\ TokensTo(batch, g) = TokensTo(batch, g - 1) + Len(batch[g].ids)
              /\ TokensTo(batch, g) \in Nat /\ TokensTo(batch, g - 1) \in Nat /\ Len(batch[g].ids) \in Nat
              /\ \A h \in 1 .. Len(batch) : Len(batch[h].ids) \in Nat
          BY <5>1, PassTokens
        <5>3. TokensTo(batch, g) <= TokensTo(batch, k - 1)
          BY <1>1, <5>1, <5>2, TokensGrow
        <5>4. TokensTo(batch, g - 1) + j \in 1 .. TokensTo(batch, k - 1)
          <6> DEFINE e == TokensTo(batch, k - 1)
                     a == TokensTo(batch, g - 1)
                     w == Len(batch[g].ids)
          <6>1. e \in Nat /\ a \in Nat /\ w \in Nat /\ a + w <= e /\ j \in 1 .. w
            BY <1>1, <5>2, <5>3
          <6> HIDE DEF e, a, w
          <6>2. a + j \in 1 .. e
            BY ONLY <6>1
          <6> QED
            BY <6>2 DEF e, a
        <5> QED
          BY <3>1, <3>3, <5>1, <5>4
      <4> QED
        BY <4>1, <4>2
    <3>5. Len(q.rows \o seen) = TokensTo(batch, k)
      BY <1>1, <3>3
    <3> QED
      BY <3>3, <3>4, <3>5 DEF RowsAfter, seen
  <2> HIDE DEF mem
  <2>11. PassTo(p, batch, f, k, next)
    <3>1. /\ next.pool = after /\ next.kv = mem /\ next.carried = [q.carried EXCEPT ![seq] = before \o ids]
          /\ next.rows = q.rows \o Seen(mem, slots, before, ids, n)
      OBVIOUS
    <3>2. PoolAfter(p, batch, f, k, next.pool) /\ CarriedAfter(p, batch, k, next.carried)
      BY <2>6, <2>7, <3>1
    <3>3. KvAfter(batch, f, k, mem)
      BY <2>8 DEF KvAfter
    <3>4. KvAfter(batch, f, k, next.kv) /\ RowsAfter(p, batch, k, next.rows)
      BY <2>10, <3>1, <3>3
    <3> HIDE DEF next
    <3> QED
      BY <2>1, <3>2, <3>4 DEF PassTo
  <2>12. HasVerdict(next) /\ next.ok = TRUE
    BY DEF HasVerdict
  <2> HIDE DEF next
  <2>13. HasVerdict(RunItem(q, batch[k])) /\ RunItem(q, batch[k]).ok = TRUE /\ PassTo(p, batch, f, k, RunItem(q, batch[k]))
    BY <2>2, <2>11, <2>12
  <2>14. n + l <= MaxSeq /\ TokensTo(batch, k) <= f
    BY <2>1
  <2> QED
    BY <2>13, <2>14
<1> QED
  BY <1>5, <1>6

LEMMA PassStarts ==
  ASSUME NEW p, NEW batch, NEW f, PassReady(p, batch, f)
  PROVE  HasVerdict(StartOf(p)) /\ StartOf(p).ok = TRUE /\ PassTo(p, batch, f, 0, StartOf(p))
<1> DEFINE q == StartOf(p)
<1>1. /\ HasVerdict(q) /\ q.ok = TRUE /\ q.pool = p /\ q.kv = kv /\ q.carried = carried /\ q.rows = << >>
  BY DEF StartOf, HasVerdict
<1>2. TokensTo(batch, 0) = 0
  BY PassTokens
<1>3. /\ p \in Tables /\ f \in Nat /\ p.free = Stack(f) /\ DOMAIN kv \subseteq Nat /\ kv \in [DOMAIN kv -> TokenIds]
      /\ carried \in [SeqIds -> Seq(TokenIds)]
  BY DEF PassReady
<1> HIDE DEF q
<1>4. f - TokensTo(batch, 0) = f /\ TokensTo(batch, 0) <= f /\ 1 .. 0 = {}
  BY <1>2, <1>3
<1>5. PoolAfter(p, batch, f, 0, q.pool)
  BY <1>1, <1>3, <1>4 DEF PoolAfter
<1>6. CarriedAfter(p, batch, 0, q.carried)
  BY <1>1, <1>3, <1>4 DEF CarriedAfter
<1>7. KvAfter(batch, f, 0, q.kv)
  <2>1. f - TokensTo(batch, 0) + 1 .. f = {}
    BY <1>2, <1>3
  <2>2. DOMAIN kv \cup (f - TokensTo(batch, 0) + 1 .. f) = DOMAIN kv
    BY <2>1
  <2> QED
    BY <1>1, <1>3, <2>2 DEF KvAfter
<1>8. RowsAfter(p, batch, 0, q.rows)
  <2>1. << >> \in Seq(Views) /\ Len(<< >>) = 0
    BY EmptySeq
  <2> QED
    BY <1>1, <1>2, <1>4, <2>1 DEF RowsAfter
<1> QED
  BY <1>1, <1>4, <1>5, <1>6, <1>7, <1>8 DEF PassTo, q

(* A pass that goes through leaves what was said, and it goes through when   *)
(* there is room for it.                                                    *)
LEMMA PassFacts ==
  ASSUME NEW p, NEW batch, NEW f, PassReady(p, batch, f)
  PROVE  /\ Run(p, batch).ok => PassTo(p, batch, f, Len(batch), Run(p, batch))
         /\ /\ \A g \in 1 .. Len(batch) : SeqLen(p, batch[g].seq) + Len(batch[g].ids) <= MaxSeq
            /\ TokensTo(batch, Len(batch)) <= f
            => Run(p, batch).ok
<1> DEFINE n == Len(batch)
           room(k) == (\A g \in 1 .. k : SeqLen(p, batch[g].seq) + Len(batch[g].ids) <= MaxSeq) /\ TokensTo(batch, k) <= f
<1>1. n \in Nat
  BY PassTokens
<1>2. PICK r : /\ Run(p, batch) = r[n] /\ r[0] = StartOf(p)
               /\ \A k \in 1 .. n : r[k] = RunItem(r[k - 1], batch[k])
  BY <1>1, RunLoop
<1> DEFINE I == { k \in 0 .. n : /\ HasVerdict(r[k]) /\ r[k].ok \in BOOLEAN
                                 /\ r[k].ok => PassTo(p, batch, f, k, r[k])
                                 /\ room(k) => r[k].ok }
<1>3. 0 \in I
  <2>1. HasVerdict(r[0]) /\ r[0].ok = TRUE /\ PassTo(p, batch, f, 0, r[0])
    BY <1>2, PassStarts
  <2>2. 0 \in 0 .. n
    BY <1>1
  <2> QED
    BY <2>1, <2>2
<1>4. ASSUME NEW k \in 1 .. n, k - 1 \in I PROVE k \in I
  <2>1. r[k] = RunItem(r[k - 1], batch[k])
    BY <1>2
  <2>2. /\ HasVerdict(r[k - 1]) /\ r[k - 1].ok \in BOOLEAN
        /\ r[k - 1].ok => PassTo(p, batch, f, k - 1, r[k - 1])
        /\ room(k - 1) => r[k - 1].ok
    BY <1>4
  <2>3. room(k) => room(k - 1) /\ SeqLen(p, batch[k].seq) + Len(batch[k].ids) <= MaxSeq /\ TokensTo(batch, k) <= f
    <3> SUFFICES ASSUME room(k) PROVE room(k - 1) /\ SeqLen(p, batch[k].seq) + Len(batch[k].ids) <= MaxSeq /\ TokensTo(batch, k) <= f
      OBVIOUS
    <3>1. k \in 1 .. k /\ \A g \in 1 .. k - 1 : g \in 1 .. k
      BY <1>1
    <3>2. /\ TokensTo(batch, k) = TokensTo(batch, k - 1) + Len(batch[k].ids)
          /\ Len(batch[k].ids) \in Nat /\ \A h \in 0 .. n : TokensTo(batch, h) \in Nat
      BY PassTokens
    <3>3. k - 1 \in 0 .. n /\ k \in 0 .. n /\ f \in Nat
      BY <1>1 DEF PassReady
    <3>4. TokensTo(batch, k - 1) <= f
      BY <3>2, <3>3
    <3> QED
      BY <3>1, <3>4
  <2>4. k \in 0 .. n
    BY <1>1
  <2> HIDE DEF room
  <2>5. CASE r[k - 1].ok
    <3>1. PassTo(p, batch, f, k - 1, r[k - 1])
      BY <2>2, <2>5
    <3>2. /\ HasVerdict(r[k]) /\ r[k].ok \in BOOLEAN
          /\ r[k].ok <=> SeqLen(p, batch[k].seq) + Len(batch[k].ids) <= MaxSeq /\ TokensTo(batch, k) <= f
          /\ r[k].ok => PassTo(p, batch, f, k, r[k])
      BY <2>1, <2>2, <2>5, <3>1, ItemStep
    <3> QED
      BY <2>3, <2>4, <3>2
  <2>6. CASE ~ r[k - 1].ok
    <3>1. r[k] = [r[k - 1] EXCEPT !.ok = FALSE]
      BY <2>1, <2>6 DEF RunItem
    <3>2. HasVerdict(r[k]) /\ r[k].ok = FALSE
      BY <2>2, <3>1 DEF HasVerdict
    <3> QED
      BY <2>2, <2>3, <2>4, <2>6, <3>2
  <2> QED
    BY <2>5, <2>6
<1> HIDE DEF I
<1>5. \A k \in 0 .. n : k \in I
  BY <1>1, <1>3, <1>4, LoopInduction
<1>6. n \in I
  BY <1>1, <1>5
<1> QED
  BY <1>2, <1>6 DEF I

-----------------------------------------------------------------------------
(* What is asked, taken apart: tokens of the vocabulary, and picks that are  *)
(* positions in them.                                                       *)
LEMMA MarkTokens ==
  /\ << "<state>" >> \in Seq(TokenIds) /\ << "<q>" >> \in Seq(TokenIds) /\ << "<decide>" >> \in Seq(TokenIds)
  /\ << "<opt>" >> \in Seq(TokenIds) /\ << "</opt>" >> \in Seq(TokenIds)
  /\ Len(<< "<state>" >>) = 1 /\ Len(<< "<q>" >>) = 1 /\ Len(<< "<decide>" >>) = 1
<1>1. "<state>" \in TokenIds /\ "<q>" \in TokenIds /\ "<opt>" \in TokenIds /\ "</opt>" \in TokenIds /\ "<decide>" \in TokenIds
  BY BranchSizes
<1>2. \A x \in TokenIds : << x >> \in Seq(TokenIds) /\ Len(<< x >>) = 1
  OBVIOUS
<1> QED
  BY <1>1, <1>2

LEMMA OptionsFacts ==
  ASSUME NEW q, q.options \in Seq(Seq(TokenIds))
  PROVE  /\ OptionsTo(q, 0) = << >>
         /\ \A k \in 1 .. Len(q.options) :
              OptionsTo(q, k) = OptionsTo(q, k - 1) \o OptionText(q.options[k])
         /\ \A k \in 1 .. Len(q.options) : OptionText(q.options[k]) \in Seq(TokenIds)
         /\ \A k \in 0 .. Len(q.options) : OptionsTo(q, k) \in Seq(TokenIds)
<1> DEFINE n == Len(q.options)
           S == Seq(TokenIds)
           turn == [ i \in 1 .. n |-> [ x \in S |-> x \o OptionText(q.options[i]) ] ]
<1>1. n \in Nat
  BY LenProperties
<1>2. ASSUME NEW i \in 1 .. n PROVE OptionText(q.options[i]) \in S
  <2>1. q.options[i] \in Seq(TokenIds)
    BY ElementOfSeq
  <2>2. << "<opt>" >> \o q.options[i] \in Seq(TokenIds)
    BY <2>1, MarkTokens, ConcatProperties
  <2> QED
    BY <2>2, MarkTokens, ConcatProperties DEF OptionText
<1>3. ASSUME NEW x \in S, NEW i \in 1 .. n PROVE x \o OptionText(q.options[i]) \in S
  BY <1>2, ConcatProperties
<1>4. << >> \in S
  OBVIOUS
<1> HIDE DEF S
<1>5. turn \in [1 .. n -> [S -> S]] /\ \A i \in 1 .. n, x \in S : turn[i][x] = x \o OptionText(q.options[i])
  BY <1>3
<1> HIDE DEF turn
<1>6. \E f \in [0 .. n -> S] : f[0] = << >> /\ \A i \in 1 .. n : f[i] = turn[i][f[i - 1]]
  <2> DEFINE l == n
             init == << >>
  <2>1. init \in S /\ l \in Nat /\ turn \in [1 .. l -> [S -> S]]
    BY <1>1, <1>4, <1>5
  <2> HIDE DEF l, init
  <2>2. \E f \in [0 .. l -> S] : f[0] = init /\ \A i \in 1 .. l : f[i] = turn[i][f[i - 1]]
    BY ONLY <2>1, LoopExists
  <2> QED
    BY <2>2 DEF l, init
<1>7. PICK f \in [0 .. n -> S] : f[0] = << >> /\ \A i \in 1 .. n : f[i] = turn[i][f[i - 1]]
  BY <1>6
<1>8. ASSUME NEW i \in 1 .. n PROVE f[i] = f[i - 1] \o OptionText(q.options[i])
  <2>1. f[i] = turn[i][f[i - 1]] /\ f[i - 1] \in S
    BY <1>1, <1>7
  <2> QED
    BY <1>5, <2>1
<1>9. f = [ i \in 0 .. n |-> IF i = 0 THEN << >> ELSE f[i - 1] \o OptionText(q.options[i]) ]
  <2>1. \A i \in 0 .. n : f[i] = IF i = 0 THEN << >> ELSE f[i - 1] \o OptionText(q.options[i])
    <3> TAKE i \in 0 .. n
    <3>1. i = 0 \/ i \in 1 .. n
      BY <1>1
    <3> QED
      BY <1>7, <1>8, <3>1
  <2> HIDE DEF n
  <2> QED
    BY <1>7, <2>1
<1> DEFINE g == CHOOSE h : h = [ i \in 0 .. n |-> IF i = 0 THEN << >> ELSE h[i - 1] \o OptionText(q.options[i]) ]
<1>10. g = [ i \in 0 .. n |-> IF i = 0 THEN << >> ELSE g[i - 1] \o OptionText(q.options[i]) ]
  BY <1>9
<1>11. \A k : OptionsTo(q, k) = g[k]
  BY DEF OptionsTo
<1> HIDE DEF g
<1>12. g[0] = << >> /\ \A i \in 1 .. n : g[i] = g[i - 1] \o OptionText(q.options[i])
  <2> DEFINE text(i) == OptionText(q.options[i])
  <2>1. n \in Nat /\ g = [ i \in 0 .. n |-> IF i = 0 THEN << >> ELSE g[i - 1] \o text(i) ]
    BY <1>1, <1>10
  <2> DEFINE more(x, i) == x \o text(i)
  <2>4. n \in Nat /\ g = [ i \in 0 .. n |-> IF i = 0 THEN << >> ELSE more(g[i - 1], i) ]
    BY <2>1
  <2> HIDE DEF n, text, more
  <2>2. g[0] = << >>
    BY ONLY <2>4
  <2>3. \A i \in 1 .. n : g[i] = more(g[i - 1], i)
    BY ONLY <2>4
  <2> QED
    BY <2>2, <2>3 DEF text, more
<1>13. \A i \in 0 .. n : g[i] \in S
  <2> DEFINE I == { i \in 0 .. n : g[i] \in S }
  <2>1. 0 \in I
    BY <1>1, <1>4, <1>12
  <2>2. ASSUME NEW i \in 1 .. n, i - 1 \in I PROVE i \in I
    <3>1. g[i] = g[i - 1] \o OptionText(q.options[i])
      BY <1>12
    <3>2. g[i] \in S
      BY <1>3, <2>2, <3>1
    <3> QED
      BY <1>1, <3>2
  <2> HIDE DEF I
  <2>3. \A i \in 0 .. n : i \in I
    BY <1>1, <2>1, <2>2, LoopInduction
  <2> QED
    BY <2>3 DEF I
<1> QED
  BY <1>2, <1>11, <1>12, <1>13 DEF S

LEMMA OptionsGrow ==
  ASSUME NEW q, q.options \in Seq(Seq(TokenIds)), NEW a \in 0 .. Len(q.options)
  PROVE  Len(OptionsTo(q, a)) <= Len(OptionsTo(q, Len(q.options)))
<1> DEFINE n == Len(q.options)
           I == { k \in 0 .. n : a <= k => Len(OptionsTo(q, a)) <= Len(OptionsTo(q, k)) }
<1>1. n \in Nat
  BY LenProperties
<1>2. \A k \in 0 .. n : OptionsTo(q, k) \in Seq(TokenIds) /\ Len(OptionsTo(q, k)) \in Nat
  BY OptionsFacts, LenProperties
<1>3. 0 \in I
  BY <1>1, <1>2
<1>4. ASSUME NEW k \in 1 .. n, k - 1 \in I PROVE k \in I
  <2>1. k - 1 \in 0 .. n /\ k \in 0 .. n /\ (a <= k => a <= k - 1 \/ a = k)
    BY <1>1
  <2>2. OptionsTo(q, k) = OptionsTo(q, k - 1) \o OptionText(q.options[k]) /\ OptionText(q.options[k]) \in Seq(TokenIds)
    BY OptionsFacts
  <2>3. Len(OptionsTo(q, k)) = Len(OptionsTo(q, k - 1)) + Len(OptionText(q.options[k])) /\ Len(OptionText(q.options[k])) \in Nat
    BY <1>2, <2>1, <2>2, ConcatProperties, LenProperties
  <2>4. Len(OptionsTo(q, k - 1)) <= Len(OptionsTo(q, k))
    BY <1>2, <2>1, <2>3
  <2>5. ASSUME a <= k - 1 PROVE Len(OptionsTo(q, a)) <= Len(OptionsTo(q, k))
    <3>1. Len(OptionsTo(q, a)) <= Len(OptionsTo(q, k - 1))
      BY <1>4, <2>5
    <3> QED
      BY <1>2, <2>1, <2>4, <3>1
  <2>6. ASSUME a = k PROVE Len(OptionsTo(q, a)) <= Len(OptionsTo(q, k))
    BY <1>2, <2>6
  <2> QED
    BY <2>1, <2>5, <2>6
<1> HIDE DEF I
<1>5. \A k \in 0 .. n : k \in I
  BY <1>1, <1>3, <1>4, LoopInduction
<1>6. n \in I /\ a <= n
  BY <1>1, <1>5
<1> QED
  BY <1>6 DEF I

LEMMA QuestionFacts ==
  ASSUME NEW q \in [instr : Seq(TokenIds), options : Seq(Seq(TokenIds))]
  PROVE  Question(q) \in BranchItems /\ Len(Question(q).ids) \in Nat \ {0}
<1> DEFINE n == Len(q.options)
           all == OptionsTo(q, n)
           ids == BranchIds(q)
           ends == [ i \in DOMAIN q.options |-> OptEnd(q, i) ]
<1>1. q.instr \in Seq(TokenIds) /\ q.options \in Seq(Seq(TokenIds))
  OBVIOUS
<1>2. n \in Nat /\ Len(q.instr) \in Nat /\ DOMAIN q.options = 1 .. n
  BY <1>1, LenProperties
<1>3. all \in Seq(TokenIds) /\ Len(all) \in Nat
  BY <1>1, <1>2, OptionsFacts, LenProperties
<1> HIDE DEF all
<1>4. ids \in Seq(TokenIds) /\ Len(ids) = 1 + Len(q.instr) + Len(all) + 1
  <2>1. << "<q>" >> \o q.instr \in Seq(TokenIds) /\ Len(<< "<q>" >> \o q.instr) = 1 + Len(q.instr)
    BY <1>1, MarkTokens, ConcatProperties
  <2>2. /\ << "<q>" >> \o q.instr \o all \in Seq(TokenIds)
        /\ Len(<< "<q>" >> \o q.instr \o all) = 1 + Len(q.instr) + Len(all)
    BY <1>3, <2>1, ConcatProperties
  <2>3. /\ << "<q>" >> \o q.instr \o all \o << "<decide>" >> \in Seq(TokenIds)
        /\ Len(<< "<q>" >> \o q.instr \o all \o << "<decide>" >>) = 1 + Len(q.instr) + Len(all) + 1
    BY <2>2, MarkTokens, ConcatProperties
  <2> QED
    BY <2>3 DEF BranchIds, all
<1>5. ASSUME NEW i \in 1 .. n PROVE OptEnd(q, i) \in 1 .. Len(ids)
  <2>1. i \in 0 .. n
    BY <1>2
  <2>2. OptionsTo(q, i) \in Seq(TokenIds)
    BY <1>1, <2>1, OptionsFacts
  <2>3. Len(OptionsTo(q, i)) \in Nat /\ Len(OptionsTo(q, i)) <= Len(all)
    BY <1>1, <2>1, <2>2, OptionsGrow, LenProperties DEF all
  <2> QED
    BY <1>2, <1>3, <1>4, <2>3 DEF OptEnd
<1> HIDE DEF ids
<1> DEFINE P == 1 .. Len(ids)
<1>6. Len(ids) \in Nat \ {0} /\ Len(ids) \in P
  BY <1>2, <1>3, <1>4
<1>7. ends \in Seq(P)
  <2>1. ends \in [1 .. n -> P]
    BY <1>2, <1>5
  <2> HIDE DEF ends, P
  <2> QED
    BY <1>2, <2>1, SeqOfTable
<1>8. << Len(ids) >> \in Seq(P)
  BY <1>6
<1> HIDE DEF ends, P
<1>9. << Len(ids) >> \o ends \in Seq(P)
  BY <1>7, <1>8, ConcatProperties
<1>10. Question(q) = [ids |-> ids, picks |-> << Len(ids) >> \o ends]
  BY DEF Question, ids, ends
<1> DEFINE picks == << Len(ids) >> \o ends
<1> HIDE DEF picks
<1>11. picks \in Seq(P)
  BY <1>9 DEF picks
<1>12. \A k \in DOMAIN picks : picks[k] \in P
  BY <1>11
<1>13. picks \in Seq(Nat)
  BY <1>11 DEF P
<1>14. [ids |-> ids, picks |-> picks] \in BranchItems
  BY <1>4, <1>12, <1>13 DEF BranchItems, P
<1> QED
  BY <1>6, <1>10, <1>14 DEF picks

LEMMA TextFacts ==
  ASSUME NEW ids \in Seq(TokenIds), ids # << >>
  PROVE  Text(ids) \in BranchItems /\ Len(Text(ids).ids) \in Nat \ {0}
<1>1. Len(ids) \in Nat \ {0}
  BY EmptySeq
<1>2. << Len(ids) >> \in Seq(Nat) /\ \A k \in DOMAIN << Len(ids) >> : << Len(ids) >>[k] \in 1 .. Len(ids)
  BY <1>1
<1> QED
  BY <1>1, <1>2 DEF Text, BranchItems

LEMMA ItemsFacts ==
  ASSUME NEW r \in BranchJobs, Legal(r)
  PROVE  /\ StateOf(r) \in Seq(TokenIds)
         /\ ItemsOf(r) \in Seq(BranchItems) /\ Len(ItemsOf(r)) = Len(r.texts)
         /\ Len(r.texts) \in Nat \ {0} /\ Len(r.texts) < MaxSeqs
         /\ \A i \in 1 .. Len(r.texts) : Len(ItemsOf(r)[i].ids) \in Nat \ {0}
         /\ r.kind = "decide" =>
              /\ Len(StateOf(r)) \in Nat \ {0}
              /\ \A i \in 1 .. Len(r.texts) : Len(StateOf(r)) + Len(ItemsOf(r)[i].ids) <= MaxSeq
         /\ r.kind # "decide" => StateOf(r) = << >>
<1> DEFINE T == IF r.kind = "decide" THEN [instr : Seq(TokenIds), options : Seq(Seq(TokenIds))] ELSE Seq(TokenIds)
           n == Len(r.texts)
<1>1. r.prefix \in Seq(TokenIds) /\ r.suffix \in Seq(TokenIds) /\ r.texts \in Seq(T) /\ n < MaxSeqs
  BY BranchSizes
<1>2. r.texts # << >>
  BY DEF Legal
<1>3. n \in Nat \ {0} /\ DOMAIN r.texts = 1 .. n /\ \A i \in 1 .. n : r.texts[i] \in T
  <2> HIDE DEF T
  <2>1. n \in Nat /\ DOMAIN r.texts = 1 .. n
    BY <1>1, LenProperties
  <2>2. n # 0
    BY <1>1, <1>2, EmptySeq
  <2>3. \A i \in 1 .. n : r.texts[i] \in T
    BY <1>1, ElementOfSeq
  <2> QED
    BY <2>1, <2>2, <2>3
<1>4. ASSUME NEW i \in 1 .. n PROVE ItemOf(r, r.texts[i]) \in BranchItems /\ Len(ItemOf(r, r.texts[i]).ids) \in Nat \ {0}
  <2>1. CASE r.kind = "decide"
    <3>1. r.texts[i] \in [instr : Seq(TokenIds), options : Seq(Seq(TokenIds))]
      BY <1>3, <2>1
    <3> QED
      BY <2>1, <3>1, QuestionFacts DEF ItemOf
  <2>2. CASE r.kind # "decide"
    <3>1. r.texts[i] \in Seq(TokenIds) /\ r.texts[i] # << >>
      BY <1>3, <2>2 DEF Legal
    <3> DEFINE t == r.texts[i]
               ids == r.prefix \o t \o r.suffix
    <3> HIDE DEF t
    <3>2. t \in Seq(TokenIds) /\ Len(t) \in Nat \ {0}
      BY <3>1, EmptySeq DEF t
    <3>3. r.prefix \o t \in Seq(TokenIds) /\ Len(r.prefix \o t) = Len(r.prefix) + Len(t)
      BY <1>1, <3>2, ConcatProperties
    <3>4. ids \in Seq(TokenIds) /\ Len(ids) = Len(r.prefix) + Len(t) + Len(r.suffix)
      <4> DEFINE head == r.prefix \o t
                 tail == r.suffix
      <4>1. head \in Seq(TokenIds) /\ tail \in Seq(TokenIds) /\ Len(head) = Len(r.prefix) + Len(t)
        BY <1>1, <3>3
      <4> HIDE DEF head, tail
      <4>2. head \o tail \in Seq(TokenIds) /\ Len(head \o tail) = Len(head) + Len(tail)
        BY ONLY <4>1, ConcatProperties
      <4>3. ids = head \o tail /\ Len(tail) = Len(r.suffix)
        BY DEF head, tail
      <4> HIDE DEF ids
      <4> QED
        BY ONLY <4>1, <4>2, <4>3
    <3>5. Len(r.prefix) \in Nat /\ Len(r.suffix) \in Nat
      BY <1>1, LenProperties
    <3> HIDE DEF ids
    <3>6. Len(ids) \in Nat \ {0}
      <4> DEFINE a == Len(r.prefix)
                 b == Len(t)
                 c == Len(r.suffix)
      <4>1. a \in Nat /\ b \in Nat /\ b # 0 /\ c \in Nat /\ Len(ids) = a + b + c
        BY <3>2, <3>4, <3>5
      <4> HIDE DEF a, b, c
      <4>2. a + b + c \in Nat /\ a + b + c # 0
        BY ONLY <4>1
      <4> QED
        BY <4>1, <4>2
    <3>7. ids # << >>
      BY <3>6, EmptySeq
    <3>8. Text(ids) \in BranchItems /\ Len(Text(ids).ids) \in Nat \ {0}
      BY <3>4, <3>7, TextFacts
    <3> QED
      BY <2>2, <3>8 DEF ItemOf, ids, t
  <2> QED
    BY <2>1, <2>2
<1>5. ItemsOf(r) = [ i \in 1 .. n |-> ItemOf(r, r.texts[i]) ]
  BY <1>3 DEF ItemsOf
<1>6. ItemsOf(r) \in [1 .. n -> BranchItems] /\ \A i \in 1 .. n : Len(ItemsOf(r)[i].ids) \in Nat \ {0}
  <2> HIDE DEF n
  <2> QED
    BY <1>4, <1>5
<1>7. ItemsOf(r) \in Seq(BranchItems) /\ Len(ItemsOf(r)) = n
  BY <1>3, <1>6, SeqOfTable
<1>8. StateOf(r) \in Seq(TokenIds) /\ (r.kind = "decide" => Len(StateOf(r)) \in Nat \ {0})
  <2>1. << "<state>" >> \o r.prefix \in Seq(TokenIds) /\ Len(<< "<state>" >> \o r.prefix) = 1 + Len(r.prefix)
    BY <1>1, MarkTokens, ConcatProperties
  <2>2. Len(r.prefix) \in Nat
    BY <1>1, LenProperties
  <2>3. << >> \in Seq(TokenIds)
    BY EmptySeq
  <2> QED
    BY <2>1, <2>2, <2>3 DEF StateOf
<1>9. r.kind = "decide" => \A i \in 1 .. n : Len(StateOf(r)) + Len(ItemsOf(r)[i].ids) <= MaxSeq
  BY <1>3 DEF Legal
<1>10. r.kind # "decide" => StateOf(r) = << >>
  BY DEF StateOf
<1> QED
  BY <1>1, <1>3, <1>6, <1>7, <1>8, <1>9, <1>10

-----------------------------------------------------------------------------
(* The invariant. A record's pool, with a slot for every token of state sh   *)
(* and items its: b branches are forked, and the first d of them have run.  *)
PlanOf(r, sh, its) == r \in BranchJobs /\ Legal(r) /\ sh = StateOf(r) /\ its = ItemsOf(r)
Room(sh, its) == Len(sh) + TokensTo(its, Len(its))
StateSlots(sh, its) == Fresh(Room(sh, its), Len(sh))
ItemSlotsOf(its, i) == Fresh(TokensTo(its, Len(its)) - TokensTo(its, i - 1), Len(its[i].ids))
RowAt(sh, its, b, d, id) ==
  IF id = 0 THEN StateSlots(sh, its)
  ELSE IF id \in 1 .. d THEN StateSlots(sh, its) \o ItemSlotsOf(its, id)
  ELSE IF id \in 1 .. b THEN StateSlots(sh, its) ELSE << >>
PoolIs(sh, its, p, b, d) ==
  /\ p \in Tables /\ p.free = Stack(TokensTo(its, Len(its)) - TokensTo(its, d)) /\ p.live = 0 .. b
  /\ \A id \in SeqIds : p.slots[id] = RowAt(sh, its, b, d, id)
  /\ \A id \in SeqIds : p.borrowed[id] = IF id \in 1 .. b THEN Len(sh) ELSE 0

(* The state is in memory, and every branch that has yet to run starts there.*)
Remembers(sh, its, mem, c, b, d) ==
  /\ \A j \in 1 .. Len(sh) : Room(sh, its) - j + 1 \in DOMAIN mem /\ mem[Room(sh, its) - j + 1] = sh[j]
  /\ c[0] = sh /\ \A i \in d + 1 .. b : c[i] = sh

(* Where each slot is on the stack of a record's pool that is done with.     *)
GivenUp(sh, its, p) ==
  /\ p \in Tables /\ p.live = {}
  /\ \A id \in SeqIds : p.slots[id] = << >> /\ p.borrowed[id] = 0
  /\ Len(p.free) = Room(sh, its)
  /\ \A g \in 1 .. Len(its) : \A j \in 1 .. Len(its[g].ids) :
       p.free[TokensTo(its, g - 1) + j] = TokensTo(its, Len(its)) - TokensTo(its, g) + j
  /\ \A j \in 1 .. Len(sh) : p.free[TokensTo(its, Len(its)) + j] = TokensTo(its, Len(its)) + j

OutIs(sh, its, o) ==
  /\ o \in Seq(Seq(Views))
  /\ \A i \in 1 .. Len(o) : \A k \in 1 .. Len(its[i].picks) :
       o[i][k] = Sees(sh, sh, its[i].ids, its[i].picks[k])

MemoryTypes(mem, c) == DOMAIN mem \subseteq Nat /\ mem \in [DOMAIN mem -> TokenIds] /\ c \in [SeqIds -> Seq(TokenIds)]
InvPlan ==
  /\ stage \in {"idle", "state", "fork", "score", "answered", "failed"}
  /\ stage \in {"state", "fork", "score", "answered"} \/ out # << >> => PlanOf(request, shared, items)
  /\ stage \in {"state", "fork"} => Decides
InvOut ==
  /\ OutIs(shared, items, out)
  /\ stage \in {"idle", "state", "fork"} => out = << >>
  /\ stage = "score" \/ out # << >> => Len(out) <= Len(items)
  /\ stage = "answered" => Len(out) = Len(items)
InvNone ==
  /\ stage \in {"idle", "state", "failed"} \/ ~Decides => pool = NoPool /\ size = Sized(0, 0)
  /\ stage \in {"idle", "state"} \/ (stage # "failed" /\ ~Decides) => branches = << >>
InvRecord ==
  stage \in {"fork", "score"} /\ Decides =>
    /\ size = Sized(Room(shared, items), 1 + Len(items))
    /\ branches \in Seq(Nat) /\ Len(branches) <= Len(items) /\ \A i \in 1 .. Len(branches) : branches[i] = i
    /\ stage = "score" => Len(branches) = Len(items)
    /\ stage = "fork" => Len(branches) < Len(items)
    /\ PoolIs(shared, items, pool, Len(branches), Len(out))
    /\ Remembers(shared, items, kv, carried, Len(branches), Len(out))
InvAnswered ==
  stage = "answered" /\ Decides =>
    size = Sized(Room(shared, items), 1 + Len(items)) /\ GivenUp(shared, items, pool)
InvWhy == RoomEnough /\ (stage # "failed" => why = "none")
BranchInv ==
  MemoryTypes(kv, carried) /\ InvPlan /\ InvOut /\ InvNone /\ InvRecord /\ InvAnswered /\ InvWhy

LEMMA PlanFacts ==
  ASSUME NEW r, NEW sh, NEW its, PlanOf(r, sh, its)
  PROVE  /\ sh \in Seq(TokenIds) /\ Len(sh) \in Nat
         /\ its \in Seq(BranchItems) /\ Len(its) \in Nat \ {0} /\ Len(its) = Len(r.texts) /\ Len(its) < MaxSeqs
         /\ \A i \in 1 .. Len(its) : /\ its[i].ids \in Seq(TokenIds) /\ Len(its[i].ids) \in Nat \ {0}
                                     /\ its[i].picks \in Seq(Nat)
                                     /\ \A k \in 1 .. Len(its[i].picks) : its[i].picks[k] \in 1 .. Len(its[i].ids)
         /\ r.kind = "decide" =>
              /\ Len(sh) # 0 /\ \A i \in 1 .. Len(its) : Len(sh) + Len(its[i].ids) <= MaxSeq
         /\ r.kind # "decide" => sh = << >>
<1>1. /\ sh \in Seq(TokenIds) /\ its \in Seq(BranchItems) /\ Len(its) = Len(r.texts)
      /\ Len(its) \in Nat \ {0} /\ Len(its) < MaxSeqs
      /\ \A i \in 1 .. Len(its) : Len(its[i].ids) \in Nat \ {0}
      /\ r.kind = "decide" =>
           /\ Len(sh) \in Nat \ {0} /\ \A i \in 1 .. Len(its) : Len(sh) + Len(its[i].ids) <= MaxSeq
      /\ r.kind # "decide" => sh = << >>
  <2>1. r \in BranchJobs /\ Legal(r) /\ sh = StateOf(r) /\ its = ItemsOf(r)
    BY DEF PlanOf
  <2> QED
    BY <2>1, ItemsFacts
<1>2. ASSUME NEW i \in 1 .. Len(its)
      PROVE  /\ its[i].ids \in Seq(TokenIds) /\ its[i].picks \in Seq(Nat)
             /\ \A k \in 1 .. Len(its[i].picks) : its[i].picks[k] \in 1 .. Len(its[i].ids)
  <2>1. its[i] \in BranchItems
    BY <1>1, ElementOfSeq
  <2>2. /\ its[i].ids \in Seq(TokenIds) /\ its[i].picks \in Seq(Nat)
        /\ \A k \in DOMAIN its[i].picks : its[i].picks[k] \in 1 .. Len(its[i].ids)
    BY <2>1 DEF BranchItems
  <2>3. DOMAIN its[i].picks = 1 .. Len(its[i].picks)
    BY <2>2, LenProperties
  <2> QED
    BY <2>2, <2>3
<1>3. Len(sh) \in Nat
  BY <1>1, LenProperties
<1> QED
  BY <1>1, <1>2, <1>3

LEMMA PlanTokens ==
  ASSUME NEW r, NEW sh, NEW its, PlanOf(r, sh, its)
  PROVE  /\ TokensTo(its, 0) = 0
         /\ \A k \in 1 .. Len(its) : TokensTo(its, k) = TokensTo(its, k - 1) + Len(its[k].ids)
         /\ \A k \in 0 .. Len(its) : TokensTo(its, k) \in Nat
         /\ TokensTo(its, Len(its)) \in Nat /\ Room(sh, its) \in Nat /\ Room(sh, its) = Len(sh) + TokensTo(its, Len(its))
         /\ \A a \in 0 .. Len(its) : \A b \in a .. Len(its) : TokensTo(its, a) <= TokensTo(its, b)
<1>1. Len(its) \in Nat /\ \A i \in 1 .. Len(its) : Len(its[i].ids) \in Nat
  BY PlanFacts
<1>2. /\ TokensTo(its, 0) = 0
      /\ \A k \in 1 .. Len(its) : TokensTo(its, k) = TokensTo(its, k - 1) + Len(its[k].ids)
      /\ \A k \in 0 .. Len(its) : TokensTo(its, k) \in Nat
  BY <1>1, TokensToFacts
<1>3. TokensTo(its, Len(its)) \in Nat /\ Len(sh) \in Nat
  BY <1>1, <1>2, PlanFacts
<1>4. \A a \in 0 .. Len(its) : \A b \in a .. Len(its) : TokensTo(its, a) <= TokensTo(its, b)
  BY <1>1, TokensGrow
<1> QED
  BY <1>2, <1>3, <1>4 DEF Room

-----------------------------------------------------------------------------
LEMMA BranchInvInit == BranchInit => BranchInv
<1> SUFFICES ASSUME BranchInit PROVE BranchInv
  OBVIOUS
<1> USE DEF BranchInit
<1>1. MemoryTypes(kv, carried)
  <2>1. << >> \in Seq(TokenIds) /\ DOMAIN << >> = {} /\ << >> \in [{} -> TokenIds]
    OBVIOUS
  <2>2. carried \in [SeqIds -> Seq(TokenIds)]
    BY <2>1
  <2> QED
    BY <2>1, <2>2 DEF MemoryTypes
<1>2. InvPlan
  BY DEF InvPlan
<1>3. InvOut
  <2>1. << >> \in Seq(Seq(Views)) /\ Len(<< >>) = 0 /\ 1 .. 0 = {}
    BY EmptySeq
  <2> QED
    BY <2>1 DEF InvOut, OutIs
<1>4. InvNone /\ InvRecord /\ InvAnswered /\ InvWhy
  BY DEF InvNone, InvRecord, InvAnswered, InvWhy, RoomEnough
<1> QED
  BY <1>1, <1>2, <1>3, <1>4 DEF BranchInv

LEMMA RejectKeeps ==
  ASSUME BranchInv, NEW r \in BranchJobs, Reject(r)
  PROVE  BranchInv'
<1> USE DEF Reject
<1>1. MemoryTypes(kv, carried)'
  BY DEF BranchInv, MemoryTypes, device
<1>2. InvPlan'
  BY DEF BranchInv, InvPlan, InvOut
<1>3. InvOut'
  BY DEF BranchInv, InvOut
<1>4. InvNone'
  BY DEF BranchInv, InvNone
<1>5. InvRecord' /\ InvAnswered' /\ InvWhy'
  BY DEF InvRecord, InvAnswered, InvWhy, RoomEnough
<1> QED
  BY <1>1, <1>2, <1>3, <1>4, <1>5 DEF BranchInv

LEMMA AcceptKeeps ==
  ASSUME BranchInv, NEW r \in BranchJobs, Accept(r)
  PROVE  BranchInv'
<1> USE DEF Accept
<1>1. MemoryTypes(kv, carried)'
  BY DEF BranchInv, MemoryTypes, device
<1>2. stage = "idle" /\ stage' \in {"state", "score"} /\ (stage' = "state" <=> r.kind = "decide") /\ request' = r
  OBVIOUS
<1>3. PlanOf(r, shared', items')
  BY DEF PlanOf
<1>4. InvPlan'
  BY <1>2, <1>3 DEF InvPlan, Decides
<1>5. out' = << >> /\ out \in Seq(Seq(Views))
  BY DEF BranchInv, InvOut, OutIs
<1>6. InvOut'
  <2>1. << >> \in Seq(Seq(Views)) /\ Len(<< >>) = 0 /\ 1 .. 0 = {}
    BY EmptySeq
  <2>2. Len(items') \in Nat \ {0}
    BY <1>3, PlanFacts
  <2>3. OutIs(shared', items', out')
    BY <1>5, <2>1 DEF OutIs
  <2> QED
    BY <1>2, <1>5, <2>1, <2>2, <2>3 DEF InvOut
<1>7. InvNone'
  BY <1>2 DEF BranchInv, InvNone
<1>8. InvRecord' /\ InvAnswered'
  BY <1>2 DEF InvRecord, InvAnswered, Decides
<1>9. InvWhy'
  BY <1>2 DEF BranchInv, InvWhy, RoomEnough
<1> QED
  BY <1>1, <1>4, <1>6, <1>7, <1>8, <1>9 DEF BranchInv

LEMMA FailsKeeps ==
  ASSUME BranchInv, NEW reason, Fails(reason), stage \in {"state", "fork", "score"},
         Fitting => reason # "pool" /\ (reason = "pass" => ~Decides /\ Len(items) > MaxLogitRows)
  PROVE  BranchInv'
<1>1. /\ stage' = "failed" /\ why' = reason /\ pool' = NoPool /\ size' = Sized(0, 0)
      /\ request' = request /\ shared' = shared /\ items' = items /\ kv' = kv /\ carried' = carried
      /\ branches' = branches /\ out' = out
  BY DEF Fails, plan, device
<1>2. MemoryTypes(kv, carried)'
  BY <1>1 DEF BranchInv, MemoryTypes
<1>3. InvPlan' /\ InvNone' /\ InvRecord' /\ InvAnswered'
  <2>1. NoPool' = NoPool /\ Sized(0, 0)' = Sized(0, 0)
    BY DEF NoPool, NewPool, Sized
  <2>2. InvPlan'
    <3>1. PlanOf(request, shared, items)
      BY DEF BranchInv, InvPlan
    <3> QED
      BY <1>1, <3>1 DEF InvPlan
  <2> QED
    BY <1>1, <2>1, <2>2 DEF InvNone, InvRecord, InvAnswered
<1>4. InvOut'
  BY <1>1 DEF BranchInv, InvOut
<1>5. InvWhy'
  <2>1. Fitting' = Fitting /\ Decides' = Decides
    BY <1>1 DEF Fitting, Decides
  <2> QED
    BY <1>1, <2>1 DEF InvWhy, RoomEnough
<1> QED
  BY <1>2, <1>3, <1>4, <1>5 DEF BranchInv

LEMMA DeviceFailsKeeps == BranchInv /\ DeviceFails => BranchInv'
  BY FailsKeeps DEF DeviceFails

(* A new pool, some of its rows in use. *)
WithRows(p, live) == [p EXCEPT !.live = live]
IsFresh(p, n, live) ==
  /\ p \in Tables /\ p.free = Stack(n) /\ p.live = live
  /\ \A id \in SeqIds : p.slots[id] = << >> /\ SeqLen(p, id) = 0 /\ p.borrowed[id] = 0

LEMMA FreshPool ==
  ASSUME NEW n \in Nat, NEW rows, NEW live \in SUBSET SeqIds
  PROVE  IsFresh(WithRows(PoolOf(Sized(n, rows)), live), n, live)
<1> DEFINE slots == [id \in SeqIds |-> << >>]
           borrowed == [id \in SeqIds |-> 0]
           p == WithRows(PoolOf(Sized(n, rows)), live)
<1>1. PoolOf(Sized(n, rows)) = [free |-> Stack(n), live |-> {}, slots |-> slots, borrowed |-> borrowed]
  BY DEF PoolOf, Sized, NewPool, Stack
<1>2. slots \in [SeqIds -> Seq(Nat)] /\ borrowed \in [SeqIds -> Nat] /\ \A id \in SeqIds : slots[id] = << >> /\ borrowed[id] = 0
  OBVIOUS
<1>3. Stack(n) \in Seq(Nat)
  BY StackFacts
<1> HIDE DEF slots, borrowed
<1>4. p = [free |-> Stack(n), live |-> live, slots |-> slots, borrowed |-> borrowed]
  BY <1>1 DEF WithRows
<1> HIDE DEF p
<1>5. p.free = Stack(n) /\ p.live = live /\ p.slots = slots /\ p.borrowed = borrowed
  BY <1>4
<1>6. p \in Tables
  BY <1>2, <1>3, <1>4 DEF Tables
<1>7. \A id \in SeqIds : p.slots[id] = << >> /\ SeqLen(p, id) = 0 /\ p.borrowed[id] = 0
  BY <1>2, <1>5, EmptySeq DEF SeqLen
<1> QED
  BY <1>5, <1>6, <1>7 DEF IsFresh, p

LEMMA RunStateKeeps ==
  ASSUME BranchInv, RunState
  PROVE  BranchInv'
<1> DEFINE n == Room(shared, items)
           p == Alloc(PoolOf(RecordSize), 0)
           batch == << [seq |-> 0, ids |-> shared] >>
           R == Run(p, batch)
           fits == PassFits(Len(shared), 0)
<1>1. stage = "state" /\ PlanOf(request, shared, items) /\ Decides /\ out = << >> /\ branches = << >>
      /\ MemoryTypes(kv, carried) /\ pool = NoPool /\ why = "none" /\ OutIs(shared, items, out)
  BY DEF RunState, BranchInv, InvPlan, InvOut, InvNone, InvWhy
<1>2. /\ shared \in Seq(TokenIds) /\ Len(shared) \in Nat \ {0} /\ Len(items) \in Nat \ {0} /\ Len(items) < MaxSeqs
      /\ Len(shared) <= MaxSeq /\ n \in Nat /\ n = Len(shared) + TokensTo(items, Len(items))
      /\ TokensTo(items, Len(items)) \in Nat /\ TokensTo(items, 0) = 0
  <2>1. /\ shared \in Seq(TokenIds) /\ Len(shared) \in Nat \ {0} /\ Len(items) \in Nat \ {0} /\ Len(items) < MaxSeqs
        /\ \A i \in 1 .. Len(items) : Len(shared) + Len(items[i].ids) <= MaxSeq /\ Len(items[i].ids) \in Nat
    BY <1>1, PlanFacts DEF Decides
  <2>2. 1 \in 1 .. Len(items)
    BY <2>1
  <2>3. Len(shared) <= MaxSeq
    BY <2>1, <2>2, PoolSizes
  <2> QED
    BY <1>1, <2>1, <2>3, PlanTokens
<1>3. RecordSize = Sized(n, 1 + Len(items))
  BY <1>2 DEF RecordSize, Lengths
<1>4. 0 \in SeqIds /\ {0} \in SUBSET SeqIds
  BY PoolSizes DEF SeqIds
<1>5. p = WithRows(PoolOf(Sized(n, 1 + Len(items))), {0})
  <2>1. PoolOf(Sized(n, 1 + Len(items))).live = {}
    BY DEF PoolOf, NewPool
  <2> QED
    BY <1>3, <2>1 DEF Alloc, WithRows
<1> HIDE DEF p, R, batch
<1>6. /\ p \in Tables /\ p.free = Stack(n) /\ p.live = {0}
      /\ \A id \in SeqIds : p.slots[id] = << >> /\ SeqLen(p, id) = 0 /\ p.borrowed[id] = 0
  <2>1. IsFresh(p, n, {0})
    BY <1>2, <1>4, <1>5, FreshPool
  <2> QED
    BY <2>1 DEF IsFresh
<1>7. Len(batch) = 1 /\ batch[1].seq = 0 /\ batch[1].ids = shared
  BY DEF batch
<1>8. 1 .. Len(batch) = {1}
  BY <1>7
<1>9. PassReady(p, batch, n)
  <2>1. \A g \in 1 .. Len(batch) : g = 1
    BY <1>8
  <2>2. \A g \in 1 .. Len(batch) : 1 .. SeqLen(p, batch[g].seq) = {}
    BY <1>4, <1>6, <1>7, <2>1
  <2> QED
    BY <1>1, <1>2, <1>6, <1>7, <2>1, <2>2 DEF PassReady, MemoryTypes
<1>10. TokensTo(batch, 0) = 0 /\ TokensTo(batch, 1) = Len(shared)
  <2>1. /\ TokensTo(batch, 0) = 0
        /\ \A k \in 1 .. Len(batch) : TokensTo(batch, k) = TokensTo(batch, k - 1) + Len(batch[k].ids)
    BY <1>9, PassTokens
  <2>2. TokensTo(batch, 1) = TokensTo(batch, 1 - 1) + Len(shared)
    BY <1>7, <1>8, <2>1
  <2> QED
    BY <1>2, <2>1, <2>2
<1>11. R.ok => PassTo(p, batch, n, 1, R)
  BY <1>7, <1>9, PassFacts DEF R
<1>12. R.ok
  <2>1. TokensTo(batch, Len(batch)) <= n
    BY <1>2, <1>7, <1>10
  <2>2. \A g \in 1 .. Len(batch) : SeqLen(p, batch[g].seq) + Len(batch[g].ids) <= MaxSeq
    BY <1>2, <1>4, <1>6, <1>7, <1>8
  <2> QED
    BY <1>9, <2>1, <2>2, PassFacts DEF R
<1>13. \/ /\ fits /\ R.ok
          /\ pool' = R.pool /\ kv' = R.kv /\ carried' = R.carried
          /\ size' = RecordSize /\ stage' = "fork"
          /\ UNCHANGED << plan, branches, out, why >>
       \/ ~(fits /\ R.ok) /\ Fails(IF fits THEN "pool" ELSE "pass")
  BY DEF RunState, StatePass, R, p, batch
<1>14. CASE ~(fits /\ R.ok) /\ Fails(IF fits THEN "pool" ELSE "pass")
  <2>1. ~fits /\ Fails("pass")
    BY <1>12, <1>14
  <2>2. ~Fitting
    <3>1. Fitting => Len(shared) <= BatchTokens
      BY <1>2, BranchSizes DEF Fitting, Wide
    <3>2. Len(shared) <= BatchTokens => fits
      BY <1>2, BranchSizes DEF PassFits
    <3> QED
      BY <2>1, <3>1, <3>2
  <2> QED
    BY <1>1, <2>1, <2>2, FailsKeeps
<1>15. CASE /\ fits /\ R.ok
            /\ pool' = R.pool /\ kv' = R.kv /\ carried' = R.carried
            /\ size' = RecordSize /\ stage' = "fork"
            /\ UNCHANGED << plan, branches, out, why >>
  <2>1. /\ pool' = R.pool /\ kv' = R.kv /\ carried' = R.carried /\ size' = RecordSize /\ stage' = "fork"
        /\ request' = request /\ shared' = shared /\ items' = items /\ branches' = branches /\ out' = out /\ why' = why
    BY <1>15 DEF plan
  <2>2. /\ PoolAfter(p, batch, n, 1, R.pool) /\ CarriedAfter(p, batch, 1, R.carried) /\ KvAfter(batch, n, 1, R.kv)
    BY <1>11, <1>12 DEF PassTo
  <2>3. RowsTo(batch, 1) = {0}
    BY <1>7, <1>8 DEF RowsTo
  <2>4. /\ R.pool \in Tables /\ R.pool.free = Stack(n - Len(shared)) /\ R.pool.live = {0} /\ R.pool.borrowed = p.borrowed
        /\ \A id \in SeqIds \ {0} : R.pool.slots[id] = << >>
        /\ R.pool.slots[0] = << >> \o Fresh(n - 0, Len(shared))
    <3>1. 1 \in 1 .. 1 /\ 1 - 1 = 0
      OBVIOUS
    <3>2. R.pool.slots[batch[1].seq] = p.slots[batch[1].seq] \o Fresh(n - TokensTo(batch, 1 - 1), Len(batch[1].ids))
      BY <2>2, <3>1 DEF PoolAfter
    <3>3. R.pool.slots[0] = << >> \o Fresh(n - 0, Len(shared))
      BY <1>4, <1>6, <1>7, <1>10, <3>1, <3>2
    <3> QED
      BY <1>6, <1>10, <2>2, <2>3, <3>3 DEF PoolAfter
  <2>5. R.pool.slots[0] = StateSlots(shared, items)
    <3>1. Len(shared) \in 0 .. n /\ n - 0 = n
      BY <1>2
    <3>2. Fresh(n, Len(shared)) \in Seq(Nat)
      BY <1>2, <3>1, FreshFacts
    <3>3. << >> \o Fresh(n, Len(shared)) = Fresh(n, Len(shared))
      BY <3>2, ConcatEmptySeq
    <3> QED
      BY <2>4, <3>1, <3>3 DEF StateSlots
  <2>6. PoolIs(shared, items, R.pool, 0, 0)
    <3>1. n - Len(shared) = TokensTo(items, Len(items)) - TokensTo(items, 0) /\ 0 .. 0 = {0} /\ 1 .. 0 = {}
      BY <1>2
    <3>2. \A id \in SeqIds : R.pool.slots[id] = RowAt(shared, items, 0, 0, id)
      BY <2>4, <2>5, <3>1 DEF RowAt
    <3> QED
      BY <1>6, <2>4, <3>1, <3>2 DEF PoolIs
  <2>7. Remembers(shared, items, R.kv, R.carried, 0, 0)
    <3>1. ASSUME NEW j \in 1 .. Len(shared) PROVE n - j + 1 \in DOMAIN R.kv /\ R.kv[n - j + 1] = shared[j]
      <4>1. 1 \in 1 .. 1 /\ 1 - 1 = 0 /\ n - 0 - j + 1 = n - j + 1 /\ n - j + 1 \in n - Len(shared) + 1 .. n
        BY <1>2
      <4>2. R.kv[n - TokensTo(batch, 1 - 1) - j + 1] = batch[1].ids[j]
        BY <1>7, <2>2, <4>1 DEF KvAfter
      <4>3. DOMAIN R.kv = DOMAIN kv \cup (n - Len(shared) + 1 .. n)
        BY <1>10, <2>2 DEF KvAfter
      <4> QED
        BY <1>7, <1>10, <4>1, <4>2, <4>3
    <3>2. R.carried[0] = shared
      <4>1. R.carried[batch[1].seq] = Heard(p, batch[1].seq) \o batch[1].ids
        <5>1. 1 \in 1 .. 1
          OBVIOUS
        <5> QED
          BY <2>2, <5>1 DEF CarriedAfter
      <4>2. Heard(p, 0) = << >>
        BY <1>4, <1>6 DEF Heard
      <4>3. << >> \o shared = shared
        BY <1>2, ConcatEmptySeq
      <4> QED
        BY <1>7, <4>1, <4>2, <4>3
    <3> QED
      BY <3>1, <3>2 DEF Remembers
  <2>8. MemoryTypes(R.kv, R.carried)
    <3>1. R.carried \in [SeqIds -> Seq(TokenIds)]
      BY <2>2 DEF CarriedAfter
    <3>2. R.kv \in [DOMAIN kv \cup (n - Len(shared) + 1 .. n) -> TokenIds]
      BY <1>10, <2>2 DEF KvAfter
    <3>3. n - Len(shared) + 1 .. n \subseteq Nat /\ DOMAIN kv \subseteq Nat
      BY <1>1, <1>2 DEF MemoryTypes
    <3> QED
      BY <3>1, <3>2, <3>3 DEF MemoryTypes
  <2>9. Decides' = Decides
    BY <2>1 DEF Decides
  <2>10. InvPlan'
    BY <1>1, <2>1, <2>9 DEF InvPlan
  <2>11. InvOut'
    BY <1>1, <2>1 DEF InvOut
  <2>12. InvNone' /\ InvAnswered'
    BY <1>1, <2>1, <2>9 DEF InvNone, InvAnswered
  <2>13. InvRecord'
    <3>1. << >> \in Seq(Nat) /\ Len(<< >>) = 0 /\ 1 .. 0 = {} /\ 0 <= Len(items) /\ 0 < Len(items)
      BY <1>2, EmptySeq
    <3>2. branches' = << >> /\ out' = << >> /\ stage' = "fork"
      BY <1>1, <2>1
    <3>3. size' = Sized(Room(shared', items'), 1 + Len(items'))
      BY <1>3, <2>1
    <3> QED
      BY <2>1, <2>6, <2>7, <3>1, <3>2, <3>3 DEF InvRecord
  <2>14. InvWhy'
    BY <1>1, <2>1 DEF InvWhy, RoomEnough
  <2> QED
    BY <2>1, <2>8, <2>10, <2>11, <2>12, <2>13, <2>14 DEF BranchInv
<1> QED
  BY <1>13, <1>14, <1>15

(* fork: the next row borrows what the state has, and nothing moves. *)
LEMMA ForkPool ==
  ASSUME NEW sh, NEW its, NEW p, NEW b \in Nat, PoolIs(sh, its, p, b, 0), b + 1 \in SeqIds, 0 \in SeqIds,
         Len(StateSlots(sh, its)) = Len(sh), Len(sh) \in Nat
  PROVE  PoolIs(sh, its, Fork(Alloc(p, b + 1), 0, b + 1), b + 1, 0)
<1> DEFINE id == b + 1
           slots == [p.slots EXCEPT ![id] = p.slots[0]]
           borrowed == [p.borrowed EXCEPT ![id] = Len(p.slots[0])]
           q == Fork(Alloc(p, id), 0, id)
<1>1. p \in Tables /\ p.live = 0 .. b
  BY DEF PoolIs
<1>2. /\ p.free = Stack(TokensTo(its, Len(its)) - TokensTo(its, 0))
      /\ \A x \in SeqIds : p.slots[x] = RowAt(sh, its, b, 0, x)
      /\ \A x \in SeqIds : p.borrowed[x] = IF x \in 1 .. b THEN Len(sh) ELSE 0
  BY DEF PoolIs
<1>3. p = [free |-> p.free, live |-> p.live, slots |-> p.slots, borrowed |-> p.borrowed]
      /\ p.free \in Seq(Nat) /\ p.live \in SUBSET SeqIds /\ p.slots \in [SeqIds -> Seq(Nat)] /\ p.borrowed \in [SeqIds -> Nat]
  BY <1>1 DEF Tables
<1>4. q = [free |-> p.free, live |-> p.live \cup {id}, slots |-> slots, borrowed |-> borrowed]
  <2> DEFINE a == Alloc(p, id)
             more == p.live \cup {id}
  <2>1. a = [p EXCEPT !.live = more]
    BY DEF Alloc
  <2> HIDE DEF id, more, a
  <2>2. p = [free |-> p.free, live |-> p.live, slots |-> p.slots, borrowed |-> p.borrowed]
    BY <1>3
  <2>3. a = [free |-> p.free, live |-> more, slots |-> p.slots, borrowed |-> p.borrowed]
    BY ONLY <2>1, <2>2
  <2>4. q = [a EXCEPT !.slots[id] = a.slots[0], !.borrowed[id] = Len(a.slots[0])]
    BY DEF Fork, SeqLen, a
  <2>5. q = [free |-> a.free, live |-> a.live, slots |-> [a.slots EXCEPT ![id] = a.slots[0]],
             borrowed |-> [a.borrowed EXCEPT ![id] = Len(a.slots[0])]]
    BY ONLY <2>3, <2>4
  <2>6. a.free = p.free /\ a.live = more /\ a.slots = p.slots /\ a.borrowed = p.borrowed
    BY ONLY <2>3
  <2> QED
    BY <2>5, <2>6 DEF more
<1>5. p.slots[0] = StateSlots(sh, its) /\ Len(p.slots[0]) = Len(sh)
  BY <1>2 DEF RowAt
<1>6. /\ slots \in [SeqIds -> Seq(Nat)] /\ slots[id] = StateSlots(sh, its)
      /\ \A x \in SeqIds \ {id} : slots[x] = p.slots[x]
  BY <1>3, <1>5
<1>7. /\ borrowed \in [SeqIds -> Nat] /\ borrowed[id] = Len(sh)
      /\ \A x \in SeqIds \ {id} : borrowed[x] = p.borrowed[x]
  BY <1>3, <1>5
<1> HIDE DEF slots, borrowed, q
<1>8. q.free = p.free /\ q.live = p.live \cup {id} /\ q.slots = slots /\ q.borrowed = borrowed
  BY <1>4
<1>9. p.live \cup {id} = 0 .. id /\ 0 .. id \subseteq SeqIds
  <2>1. MaxSeqs \in Nat /\ id <= MaxSeqs - 1 /\ id = b + 1
    BY PoolSizes DEF SeqIds
  <2>2. 0 .. id \subseteq SeqIds
    BY <2>1 DEF SeqIds
  <2>3. (0 .. b) \cup {id} = 0 .. id
    BY <2>1
  <2> QED
    BY <1>1, <2>2, <2>3
<1>10. q \in Tables
  BY <1>3, <1>4, <1>6, <1>7, <1>9 DEF Tables
<1>11. ASSUME NEW x \in SeqIds PROVE q.slots[x] = RowAt(sh, its, id, 0, x) /\ q.borrowed[x] = IF x \in 1 .. id THEN Len(sh) ELSE 0
  <2>1. 1 .. 0 = {} /\ id # 0 /\ id \in 1 .. id /\ 1 .. id = (1 .. b) \cup {id}
    OBVIOUS
  <2>2. CASE x = id
    BY <1>6, <1>7, <1>8, <2>1, <2>2 DEF RowAt
  <2>3. CASE x # id
    <3>1. x \in 1 .. id <=> x \in 1 .. b
      BY <2>1, <2>3
    <3>2. q.slots[x] = p.slots[x] /\ q.borrowed[x] = p.borrowed[x]
      BY <1>6, <1>7, <1>8, <2>3
    <3>3. RowAt(sh, its, id, 0, x) = RowAt(sh, its, b, 0, x)
      BY <3>1, <2>1 DEF RowAt
    <3> QED
      BY <1>2, <3>1, <3>2, <3>3
  <2> QED
    BY <2>2, <2>3
<1> QED
  BY <1>2, <1>8, <1>9, <1>10, <1>11 DEF PoolIs, q

LEMMA ForkBranchKeeps ==
  ASSUME BranchInv, ForkBranch
  PROVE  BranchInv'
<1> DEFINE b == Len(branches)
           m == Len(items)
<1>1. stage = "fork" /\ PlanOf(request, shared, items) /\ Decides /\ out = << >>
      /\ MemoryTypes(kv, carried) /\ why = "none" /\ OutIs(shared, items, out)
  BY DEF ForkBranch, BranchInv, InvPlan, InvOut, InvWhy
<1>2. /\ size = Sized(Room(shared, items), 1 + m)
      /\ branches \in Seq(Nat) /\ b < m /\ \A i \in 1 .. b : branches[i] = i
      /\ PoolIs(shared, items, pool, b, Len(out))
      /\ Remembers(shared, items, kv, carried, b, Len(out))
  BY <1>1 DEF BranchInv, InvRecord
<1>3. Len(out) = 0
  BY <1>1, EmptySeq
<1>4. b \in Nat /\ m \in Nat \ {0} /\ m < MaxSeqs /\ shared \in Seq(TokenIds) /\ Len(shared) \in Nat
  BY <1>1, <1>2, PlanFacts, LenProperties
<1>5. b + 1 \in SeqIds /\ 0 \in SeqIds /\ b + 1 \in 0 .. size.rows - 1
  BY <1>2, <1>4, PoolSizes DEF SeqIds, Sized
<1>6. NextRow(pool, size) = {b + 1}
  <2>1. pool.live = 0 .. b
    BY <1>2 DEF PoolIs
  <2>2. CanAlloc(pool, b + 1)
    BY <1>4, <1>5, <2>1 DEF CanAlloc, SeqIds
  <2>3. ASSUME NEW id, CanAlloc(pool, id) PROVE id = b + 1
    <3>1. id \in SeqIds /\ id \notin 0 .. b /\ \A other \in SeqIds \ (0 .. b) : id <= other
      BY <2>1, <2>3 DEF CanAlloc
    <3>2. b + 1 \in SeqIds \ (0 .. b)
      BY <1>4, <1>5
    <3>3. id <= b + 1
      BY <3>1, <3>2
    <3> QED
      BY <1>4, <3>1, <3>3 DEF SeqIds
  <2> QED
    BY <1>5, <2>2, <2>3 DEF NextRow
<1>7. /\ pool' = Fork(Alloc(pool, b + 1), 0, b + 1)
      /\ carried' = Forked(b + 1)
      /\ branches' = Append(branches, b + 1)
      /\ stage' = IF Len(branches') = m THEN "score" ELSE "fork"
      /\ request' = request /\ shared' = shared /\ items' = items
      /\ size' = size /\ kv' = kv /\ out' = out /\ why' = why
  BY <1>6 DEF ForkBranch, plan
<1>8. branches' \in Seq(Nat) /\ Len(branches') = b + 1 /\ \A i \in 1 .. b + 1 : branches'[i] = i
  <2>1. b + 1 \in Nat
    BY <1>4
  <2>2. /\ branches' \in Seq(Nat) /\ Len(branches') = b + 1
        /\ \A i \in 1 .. b : branches'[i] = branches[i] /\ branches'[b + 1] = b + 1
    BY <1>2, <1>7, <2>1, AppendProperties
  <2>3. \A i \in 1 .. b + 1 : i \in 1 .. b \/ i = b + 1
    BY <1>4
  <2>4. branches'[b + 1] = b + 1
    BY <1>2, <1>7, <2>1, AppendProperties
  <2> QED
    BY <1>2, <2>2, <2>3, <2>4
<1> DEFINE c == Forked(b + 1)
<1>9. /\ c \in [SeqIds -> Seq(TokenIds)] /\ c[b + 1] = carried[0]
      /\ \A x \in SeqIds \ {b + 1} : c[x] = carried[x]
  BY <1>1, <1>5 DEF MemoryTypes, Forked
<1> HIDE DEF c
<1>10. PoolIs(shared, items, pool', b + 1, 0)
  <2>1. Len(shared) \in 0 .. Room(shared, items) /\ Room(shared, items) \in Nat
    BY <1>1, <1>4, PlanTokens
  <2>2. Len(StateSlots(shared, items)) = Len(shared)
    BY <2>1, FreshFacts DEF StateSlots
  <2> QED
    BY <1>2, <1>3, <1>4, <1>5, <1>7, <2>2, ForkPool
<1>11. Remembers(shared, items, kv, c, b + 1, 0)
  <2>1. /\ \A j \in 1 .. Len(shared) : Room(shared, items) - j + 1 \in DOMAIN kv /\ kv[Room(shared, items) - j + 1] = shared[j]
        /\ carried[0] = shared /\ \A i \in 0 + 1 .. b : carried[i] = shared
    BY <1>2, <1>3 DEF Remembers
  <2>2. c[0] = shared
    BY <1>4, <1>5, <1>9, <2>1
  <2>3. ASSUME NEW i \in 0 + 1 .. b + 1 PROVE c[i] = shared
    <3>1. CASE i = b + 1
      BY <1>9, <2>1, <3>1
    <3>2. CASE i # b + 1
      <4>1. i \in 0 + 1 .. b
        BY <1>4, <3>2
      <4>2. i \in SeqIds \ {b + 1}
        <5>1. b \in Nat /\ b + 1 <= MaxSeqs - 1 /\ MaxSeqs \in Nat
          BY <1>4, <1>5, PoolSizes DEF SeqIds
        <5> QED
          BY <3>2, <5>1 DEF SeqIds
      <4> QED
        BY <1>9, <2>1, <4>1, <4>2
    <3> QED
      BY <3>1, <3>2
  <2> QED
    BY <2>1, <2>2, <2>3 DEF Remembers
<1>12. Decides' = Decides /\ stage' \in {"fork", "score"} /\ carried' = c
  BY <1>7 DEF Decides, c
<1>13. MemoryTypes(kv, carried)'
  BY <1>1, <1>7, <1>9, <1>12 DEF MemoryTypes
<1>14. InvPlan'
  BY <1>1, <1>7, <1>12 DEF InvPlan
<1>15. InvOut'
  <2>1. Len(out') = 0 /\ Len(out') <= Len(items')
    BY <1>3, <1>4, <1>7
  <2> QED
    BY <1>1, <1>7, <1>12, <2>1 DEF InvOut
<1>16. InvNone' /\ InvAnswered'
  BY <1>1, <1>12 DEF InvNone, InvAnswered
<1>17. InvRecord'
  <2>1. /\ stage' = "score" => Len(branches') = Len(items')
        /\ stage' = "fork" => Len(branches') < Len(items')
        /\ Len(branches') <= Len(items')
    <3>1. b \in Nat /\ m \in Nat /\ b < m /\ Len(branches') = b + 1 /\ Len(items') = m
          /\ stage' = IF Len(branches') = m THEN "score" ELSE "fork"
      BY <1>2, <1>4, <1>7, <1>8
    <3> HIDE DEF b, m
    <3> QED
      BY ONLY <3>1
  <2>2. size' = Sized(Room(shared', items'), 1 + Len(items'))
    BY <1>2, <1>7
  <2>3. PoolIs(shared', items', pool', Len(branches'), Len(out'))
    BY <1>3, <1>7, <1>8, <1>10
  <2>4. Remembers(shared', items', kv', carried', Len(branches'), Len(out'))
    BY <1>3, <1>7, <1>8, <1>11, <1>12
  <2>5. \A i \in 1 .. Len(branches') : branches'[i] = i
    BY <1>8
  <2> QED
    BY <1>8, <2>1, <2>2, <2>3, <2>4, <2>5 DEF InvRecord
<1>18. InvWhy'
  BY <1>1, <1>7 DEF InvWhy, RoomEnough
<1> QED
  BY <1>13, <1>14, <1>15, <1>16, <1>17, <1>18 DEF BranchInv

-----------------------------------------------------------------------------
(* The items of a pass: at least one, and no more than are left. *)
GroupIs(e) ==
  /\ e = GroupEnd /\ e \in Len(out) + 1 .. Len(items)
  /\ e = Len(out) + 1 \/ Lengths(Len(out) + 1, e) <= BatchTokens
  /\ Group = Len(out) + 1 .. e /\ Cardinality(Group) = e - Len(out)

LEMMA GroupFacts ==
  ASSUME Len(out) \in Nat, Len(items) \in Nat, Len(out) < Len(items)
  PROVE  GroupIs(GroupEnd)
<1> DEFINE d == Len(out)
           m == Len(items)
           fit(e) == Lengths(d + 1, e) <= BatchTokens
           X == {d + 1} \cup { e \in d + 1 .. m : fit(e) }
           n == m - d - 1
           I == { k \in 0 .. n : \E x \in X : x <= d + 1 + k /\ \A y \in X : y <= d + 1 + k => y <= x }
<1>1. d \in Nat /\ m \in Nat /\ d < m /\ n \in Nat
  OBVIOUS
<1> HIDE DEF d, m, fit
<1>2. X \subseteq d + 1 .. m /\ d + 1 \in X /\ \A x \in X : x = d + 1 \/ fit(x)
  BY <1>1
<1> HIDE DEF X
<1>3. 0 \in I
  BY <1>1, <1>2
<1>4. ASSUME NEW k \in 1 .. n, k - 1 \in I PROVE k \in I
  <2>1. PICK x \in X : x <= d + 1 + (k - 1) /\ \A y \in X : y <= d + 1 + (k - 1) => y <= x
    BY <1>4
  <2>2. CASE d + 1 + k \in X
    <3>1. d + 1 + k <= d + 1 + k /\ \A y \in X : y <= d + 1 + k => y <= d + 1 + k
      BY <1>1
    <3> QED
      BY <1>1, <2>2, <3>1
  <2>3. CASE d + 1 + k \notin X
    <3>1. x <= d + 1 + k
      BY <1>1, <1>2, <2>1
    <3>2. ASSUME NEW y \in X, y <= d + 1 + k PROVE y <= x
      <4>1. y <= d + 1 + (k - 1)
        BY <1>1, <1>2, <2>3, <3>2
      <4> QED
        BY <2>1, <4>1
    <3> QED
      BY <1>1, <3>1, <3>2
  <2> QED
    BY <2>2, <2>3
<1> HIDE DEF I
<1>5. \A k \in 0 .. n : k \in I
  BY <1>1, <1>3, <1>4, LoopInduction
<1>6. \E x \in X : \A y \in X : x >= y
  <2>1. n \in I
    BY <1>1, <1>5
  <2>2. PICK x \in X : x <= d + 1 + n /\ \A y \in X : y <= d + 1 + n => y <= x
    BY <2>1 DEF I
  <2>3. \A y \in X : y <= d + 1 + n /\ y \in Nat /\ x \in Nat
    BY <1>1, <1>2
  <2> QED
    BY <2>2, <2>3
<1>7. Max(X) \in X
  BY <1>6 DEF Max
<1>8. GroupEnd = Max(X)
  BY DEF GroupEnd, X, fit, d, m
<1> DEFINE e == GroupEnd
<1>9. e \in d + 1 .. m /\ (e = d + 1 \/ fit(e))
  BY <1>2, <1>7, <1>8
<1> HIDE DEF e
<1>10. Group = d + 1 .. e
  BY DEF Group, d, e
<1>11. Cardinality(d + 1 .. e) = e - d
  <2>1. d + 1 \in Int /\ e \in Int /\ d + 1 <= e
    BY <1>1, <1>9
  <2>2. Cardinality(d + 1 .. e) = IF d + 1 > e THEN 0 ELSE e - (d + 1) + 1
    BY <2>1, FS_Interval
  <2> QED
    BY <1>1, <2>1, <2>2
<1> QED
  BY <1>9, <1>10, <1>11 DEF GroupIs, d, m, e, fit

(* What is put in a pass, counted as among all the items. *)
BatchIs(c) ==
  /\ c \in 1 .. Len(items) - Len(out) /\ c = Cardinality(Group) /\ GroupEnd = Len(out) + c
  /\ Len(Batch) = c /\ Len(Batch) \in Nat
  /\ \A g \in 1 .. c : Batch[g].seq = RowOfItem(Len(out) + g) /\ Batch[g].ids = items[Len(out) + g].ids
  /\ \A g \in 0 .. c : TokensTo(Batch, g) = TokensTo(items, Len(out) + g) - TokensTo(items, Len(out))

LEMMA BatchFacts ==
  ASSUME PlanOf(request, shared, items), Len(out) \in Nat, Len(out) < Len(items)
  PROVE  BatchIs(GroupEnd - Len(out))
<1> DEFINE d == Len(out)
           m == Len(items)
           e == GroupEnd
           c == e - d
           item(g) == [seq |-> RowOfItem(d + g), ids |-> items[d + g].ids]
<1>1. m \in Nat /\ \A i \in 1 .. m : Len(items[i].ids) \in Nat
  BY PlanFacts
<1>2. e \in d + 1 .. m /\ Cardinality(Group) = c
  BY <1>1, GroupFacts DEF GroupIs
<1>3. c \in 1 .. m - d /\ e = d + c /\ d \in Nat
  BY <1>1, <1>2
<1>4. Batch = [g \in 1 .. c |-> item(g)]
  BY <1>2 DEF Batch
<1> HIDE DEF c, item, d, m, e
<1>5. Batch \in [1 .. c -> { item(g) : g \in 1 .. c }] /\ \A g \in 1 .. c : Batch[g] = item(g)
  BY <1>4
<1>6. Len(Batch) = c
  BY <1>3, <1>5, SeqOfTable
<1>7. \A g \in 1 .. c : Batch[g].seq = RowOfItem(d + g) /\ Batch[g].ids = items[d + g].ids
  BY <1>5 DEF item
<1>8. \A g \in 0 .. c : TokensTo(Batch, g) = TokensTo(items, d + g) - TokensTo(items, d)
  <2>1. d + c <= m /\ c \in Nat
    BY <1>1, <1>3
  <2> DEFINE some == Batch
             texts == items
  <2>3. /\ Len(texts) \in Nat /\ \A i \in 1 .. Len(texts) : Len(texts[i].ids) \in Nat
        /\ Len(some) \in Nat /\ d \in Nat /\ d + Len(some) <= Len(texts)
    BY <1>1, <1>3, <1>6, <2>1 DEF m
  <2>4. \A g \in 1 .. Len(some) : some[g].ids = texts[d + g].ids
    BY <1>6, <1>7
  <2> HIDE DEF some, texts
  <2>5. \A g \in 0 .. Len(some) : TokensTo(some, g) = TokensTo(texts, d + g) - TokensTo(texts, d)
    BY ONLY <2>3, <2>4, TokensShift
  <2>2. \A g \in 0 .. Len(Batch) : TokensTo(Batch, g) = TokensTo(items, d + g) - TokensTo(items, d)
    BY <2>5 DEF some, texts
  <2> QED
    BY <1>6, <2>2
<1>9. c \in Nat
  BY <1>1, <1>3
<1>10. BatchIs(c)
  BY <1>2, <1>3, <1>6, <1>7, <1>8, <1>9 DEF BatchIs, d, m, e
<1> QED
  BY <1>10 DEF c, d, e

(* A pass over a group can be run, and every item of it starts with what     *)
(* the state says and nothing else.                                         *)
GroupReady(p, f, c) ==
  /\ PassReady(p, Batch, f) /\ TokensTo(Batch, c) <= f
  /\ \A g \in 1 .. c : /\ SeqLen(p, Batch[g].seq) = Len(shared)
                       /\ Told(p, Batch[g].seq) = shared /\ Heard(p, Batch[g].seq) = shared

LEMMA RecordReady ==
  ASSUME PlanOf(request, shared, items), Decides, MemoryTypes(kv, carried), Len(out) \in Nat, NEW c, BatchIs(c),
         PoolIs(shared, items, pool, Len(items), Len(out)),
         Remembers(shared, items, kv, carried, Len(items), Len(out)),
         \A i \in 1 .. Len(items) : branches[i] = i
  PROVE  GroupReady(pool, TokensTo(items, Len(items)) - TokensTo(items, Len(out)), c)
<1> DEFINE d == Len(out)
           m == Len(items)
           f == TokensTo(items, m) - TokensTo(items, d)
           s == Len(shared)
           R == Room(shared, items)
<1>1. /\ m \in Nat \ {0} /\ m < MaxSeqs /\ shared \in Seq(TokenIds) /\ s \in Nat \ {0}
      /\ \A i \in 1 .. m : items[i].ids \in Seq(TokenIds)
  BY PlanFacts DEF Decides
<1>2. /\ \A k \in 0 .. m : TokensTo(items, k) \in Nat
      /\ R \in Nat /\ R = s + TokensTo(items, m)
      /\ \A a \in 0 .. m : \A b \in a .. m : TokensTo(items, a) <= TokensTo(items, b)
  BY PlanTokens
<1>3. /\ c \in 1 .. m - d /\ Len(Batch) = c /\ c \in Nat
      /\ \A g \in 1 .. c : Batch[g].seq = RowOfItem(d + g) /\ Batch[g].ids = items[d + g].ids
      /\ \A g \in 0 .. c : TokensTo(Batch, g) = TokensTo(items, d + g) - TokensTo(items, d)
  BY DEF BatchIs
<1>4. d \in Nat /\ d + c \in 0 .. m /\ d \in 0 .. m /\ c \in 0 .. c /\ m \in d + c .. m /\ m \in d .. m
  BY <1>1, <1>3
<1>5. f \in Nat /\ TokensTo(Batch, c) <= f
  <2>1. TokensTo(items, d) \in Nat /\ TokensTo(items, d + c) \in Nat /\ TokensTo(items, m) \in Nat
        /\ TokensTo(items, d) <= TokensTo(items, m) /\ TokensTo(items, d + c) <= TokensTo(items, m)
    BY <1>2, <1>4
  <2>2. TokensTo(Batch, c) = TokensTo(items, d + c) - TokensTo(items, d)
    BY <1>3, <1>4
  <2> QED
    BY <2>1, <2>2
<1>6. ASSUME NEW g \in 1 .. c
      PROVE  /\ Batch[g].seq = d + g /\ d + g \in d + 1 .. m /\ d + g \in SeqIds /\ d + g # 0
             /\ Batch[g].ids \in Seq(TokenIds)
  <2>1. d + g \in 1 .. m /\ d + g \in d + 1 .. m
    BY <1>3, <1>4
  <2>2. d + g \in SeqIds
    BY <1>1, <2>1, PoolSizes DEF SeqIds
  <2>3. RowOfItem(d + g) = d + g
    BY <2>1 DEF RowOfItem
  <2>4. items[d + g].ids \in Seq(TokenIds)
    BY <1>1, <2>1
  <2>5. Batch[g].seq = d + g /\ Batch[g].ids = items[d + g].ids
    BY <1>3, <2>3
  <2>6. d + g # 0
    BY <1>1, <2>1
  <2> QED
    BY <2>1, <2>2, <2>4, <2>5, <2>6
<1>7. /\ pool \in Tables /\ pool.free = Stack(f) /\ pool.live = 0 .. m
      /\ \A id \in SeqIds : pool.slots[id] = RowAt(shared, items, m, d, id)
  BY DEF PoolIs
<1>8. /\ StateSlots(shared, items) \in Seq(Nat) /\ Len(StateSlots(shared, items)) = s
      /\ \A i \in 1 .. s : StateSlots(shared, items)[i] = R - i + 1
  <2>1. s \in 0 .. R
    BY <1>1, <1>2, <1>4
  <2> QED
    BY <1>2, <2>1, FreshFacts DEF StateSlots
<1>9. ASSUME NEW id \in d + 1 .. m, id \in SeqIds PROVE pool.slots[id] = StateSlots(shared, items) /\ SeqLen(pool, id) = s
  <2>1. id # 0 /\ id \notin 1 .. d /\ id \in 1 .. m
    BY <1>4
  <2>2. pool.slots[id] = StateSlots(shared, items)
    BY <1>7, <1>9, <2>1 DEF RowAt
  <2> QED
    BY <1>8, <2>2 DEF SeqLen
<1>10. /\ \A j \in 1 .. s : R - j + 1 \in DOMAIN kv /\ kv[R - j + 1] = shared[j]
       /\ \A i \in d + 1 .. m : carried[i] = shared
  BY DEF Remembers
<1>11. ASSUME NEW i \in 1 .. s PROVE R - i + 1 > f
  <2>1. R - i + 1 > TokensTo(items, m)
    BY <1>1, <1>2, <1>4
  <2>2. TokensTo(items, m) >= f /\ TokensTo(items, m) \in Nat
    BY <1>2, <1>4
  <2> QED
    BY <1>2, <1>5, <2>1, <2>2
<1>12. ASSUME NEW g \in 1 .. c
       PROVE  SeqLen(pool, Batch[g].seq) = s /\ Told(pool, Batch[g].seq) = shared /\ Heard(pool, Batch[g].seq) = shared
  <2> DEFINE id == Batch[g].seq
  <2>1. id = d + g /\ id \in d + 1 .. m /\ id \in SeqIds
    BY <1>6
  <2> HIDE DEF id
  <2>2. pool.slots[id] = StateSlots(shared, items) /\ SeqLen(pool, id) = s
    BY <1>9, <2>1
  <2>3. Told(pool, id) = [i \in 1 .. s |-> kv[StateSlots(shared, items)[i]]]
    BY <2>2 DEF Told
  <2>4. \A i \in 1 .. s : kv[StateSlots(shared, items)[i]] = shared[i]
    BY <1>8, <1>10
  <2>5. shared = [i \in 1 .. s |-> shared[i]]
    BY <1>1
  <2> HIDE DEF s
  <2>6. Told(pool, id) = shared
    BY <2>3, <2>4, <2>5
  <2>7. Heard(pool, id) = shared
    BY <1>1, <1>10, <2>1, <2>2 DEF Heard
  <2> QED
    BY <2>2, <2>6, <2>7 DEF id
<1>13. PassReady(pool, Batch, f)
  <2>1. ASSUME NEW g \in 1 .. Len(Batch) PROVE Batch[g].seq \in pool.live /\ Batch[g].ids \in Seq(TokenIds)
    <3>1. g \in 1 .. c
      BY <1>3
    <3>2. d + g \in 0 .. m
      BY <1>4, <1>6, <3>1
    <3> QED
      BY <1>6, <1>7, <3>1, <3>2
  <2>2. ASSUME NEW g \in 1 .. Len(Batch), NEW h \in 1 .. Len(Batch), Batch[g].seq = Batch[h].seq PROVE g = h
    <3>1. g \in 1 .. c /\ h \in 1 .. c
      BY <1>3
    <3>2. d + g = d + h
      BY <1>6, <2>2, <3>1
    <3> QED
      BY <1>4, <3>1, <3>2
  <2>3. ASSUME NEW g \in 1 .. Len(Batch), NEW i \in 1 .. SeqLen(pool, Batch[g].seq)
        PROVE  pool.slots[Batch[g].seq][i] \in DOMAIN kv /\ pool.slots[Batch[g].seq][i] > f
    <3>1. g \in 1 .. c
      BY <1>3
    <3>2. i \in 1 .. s
      BY <1>12, <3>1
    <3>3. Batch[g].seq \in d + 1 .. m /\ Batch[g].seq \in SeqIds
      BY <1>6, <3>1
    <3>4. pool.slots[Batch[g].seq][i] = R - i + 1
      BY <1>8, <1>9, <3>2, <3>3
    <3> QED
      BY <1>10, <1>11, <3>2, <3>4
  <2>4. Len(Batch) \in Nat
    BY <1>3
  <2> QED
    BY <1>5, <1>7, <2>1, <2>2, <2>3, <2>4 DEF PassReady, MemoryTypes
<1> QED
  BY <1>5, <1>12, <1>13 DEF GroupReady

LEMMA FreshReady ==
  ASSUME PlanOf(request, shared, items), ~Decides, MemoryTypes(kv, carried), Len(out) \in Nat, NEW c, BatchIs(c)
  PROVE  GroupReady(GroupPool, TokensTo(items, Len(out) + c) - TokensTo(items, Len(out)), c)
<1> DEFINE d == Len(out)
           m == Len(items)
           f == TokensTo(items, d + c) - TokensTo(items, d)
<1>1. /\ m \in Nat /\ m < MaxSeqs /\ shared = << >>
      /\ \A i \in 1 .. m : items[i].ids \in Seq(TokenIds)
  BY PlanFacts DEF Decides
<1>2. /\ \A k \in 0 .. m : TokensTo(items, k) \in Nat
      /\ \A a \in 0 .. m : \A b \in a .. m : TokensTo(items, a) <= TokensTo(items, b)
  BY PlanTokens
<1>3. /\ c \in 1 .. m - d /\ Len(Batch) = c /\ c \in Nat /\ c = Cardinality(Group) /\ GroupEnd = d + c
      /\ \A g \in 1 .. c : Batch[g].seq = RowOfItem(d + g) /\ Batch[g].ids = items[d + g].ids
      /\ \A g \in 0 .. c : TokensTo(Batch, g) = TokensTo(items, d + g) - TokensTo(items, d)
  BY DEF BatchIs
<1>4. d \in Nat /\ d + c \in 0 .. m /\ d \in 0 .. m /\ c \in 0 .. c /\ d + c \in d .. m /\ d + 1 - 1 = d
  BY <1>1, <1>3
<1>5. f \in Nat /\ TokensTo(Batch, c) = f
  <2>1. TokensTo(items, d) \in Nat /\ TokensTo(items, d + c) \in Nat /\ TokensTo(items, d) <= TokensTo(items, d + c)
    BY <1>2, <1>4
  <2> QED
    BY <1>3, <1>4, <2>1
<1> DEFINE live == 0 .. c - 1
<1>6. live \in SUBSET SeqIds
  BY <1>1, <1>3, <1>4, PoolSizes DEF SeqIds
<1>7. IsFresh(GroupPool, f, live)
  <2>1. GroupSize = Sized(f, c)
    BY <1>3, <1>4 DEF GroupSize, Lengths
  <2>2. GroupSize.rows = c
    BY <2>1 DEF Sized
  <2>3. GroupPool = WithRows(PoolOf(Sized(f, c)), live)
    BY <2>1, <2>2 DEF GroupPool, WithRows
  <2> HIDE DEF live, f
  <2>4. IsFresh(WithRows(PoolOf(Sized(f, c)), live), f, live)
    BY ONLY <1>5, <1>6, FreshPool
  <2> QED
    BY <2>3, <2>4
<1>8. ASSUME NEW g \in 1 .. c PROVE Batch[g].seq = g - 1 /\ g - 1 \in live /\ g - 1 \in SeqIds /\ Batch[g].ids \in Seq(TokenIds)
  <2>1. d + g \in 1 .. m /\ d + g - d - 1 = g - 1 /\ g - 1 \in live
    BY <1>3, <1>4
  <2>2. RowOfItem(d + g) = g - 1
    BY <2>1 DEF RowOfItem
  <2> QED
    BY <1>1, <1>3, <1>6, <2>1, <2>2
<1>9. /\ GroupPool \in Tables /\ GroupPool.free = Stack(f) /\ GroupPool.live = live
      /\ \A id \in SeqIds : SeqLen(GroupPool, id) = 0
  BY <1>7 DEF IsFresh
<1> HIDE DEF live
<1>10. Len(shared) = 0 /\ 1 .. 0 = {}
  BY <1>1, EmptySeq
<1>11. ASSUME NEW g \in 1 .. c
       PROVE  /\ SeqLen(GroupPool, Batch[g].seq) = 0
              /\ Told(GroupPool, Batch[g].seq) = shared /\ Heard(GroupPool, Batch[g].seq) = shared
  <2>1. SeqLen(GroupPool, Batch[g].seq) = 0
    BY <1>8, <1>9
  <2>2. Told(GroupPool, Batch[g].seq) = << >>
    BY <1>10, <2>1 DEF Told
  <2> QED
    BY <1>1, <2>1, <2>2 DEF Heard
<1>12. PassReady(GroupPool, Batch, f)
  <2>1. ASSUME NEW g \in 1 .. Len(Batch)
        PROVE  Batch[g].seq \in GroupPool.live /\ Batch[g].ids \in Seq(TokenIds) /\ 1 .. SeqLen(GroupPool, Batch[g].seq) = {}
    BY <1>3, <1>8, <1>9, <1>10, <1>11
  <2>2. ASSUME NEW g \in 1 .. Len(Batch), NEW h \in 1 .. Len(Batch), Batch[g].seq = Batch[h].seq PROVE g = h
    <3>1. g \in 1 .. c /\ h \in 1 .. c
      BY <1>3
    <3>2. g - 1 = h - 1
      BY <1>8, <2>2, <3>1
    <3> QED
      BY <1>3, <3>1, <3>2
  <2>3. Len(Batch) \in Nat
    BY <1>3
  <2> QED
    BY <1>5, <1>9, <2>1, <2>2, <2>3 DEF PassReady, MemoryTypes
<1>13. TokensTo(Batch, c) <= f
  BY <1>5
<1> QED
  BY <1>10, <1>11, <1>12, <1>13 DEF GroupReady

(* Every answer of a pass is read at its own item's question. *)
LEMMA AnswersFacts ==
  ASSUME PlanOf(request, shared, items), Len(out) \in Nat, NEW c, BatchIs(c), OutIs(shared, items, out),
         NEW p, NEW f, GroupReady(p, f, c), NEW rows, RowsAfter(p, Batch, c, rows)
  PROVE  OutIs(shared, items, out \o Answers(rows)) /\ Len(out \o Answers(rows)) = Len(out) + c
<1> DEFINE d == Len(out)
           m == Len(items)
           answer(g) == [k \in DOMAIN items[d + g].picks |-> rows[Pick(d + g, k)]]
           A == Answers(rows)
<1>1. /\ m \in Nat /\ shared \in Seq(TokenIds)
      /\ \A i \in 1 .. m : /\ items[i].ids \in Seq(TokenIds) /\ Len(items[i].ids) \in Nat
                           /\ items[i].picks \in Seq(Nat)
                           /\ \A k \in 1 .. Len(items[i].picks) : items[i].picks[k] \in 1 .. Len(items[i].ids)
  BY PlanFacts
<1>2. /\ c \in 1 .. m - d /\ c \in Nat /\ c = Cardinality(Group)
      /\ \A g \in 1 .. c : Batch[g].ids = items[d + g].ids
      /\ \A g \in 0 .. c : TokensTo(Batch, g) = TokensTo(items, d + g) - TokensTo(items, d)
  BY DEF BatchIs
<1>3. A = [g \in 1 .. c |-> answer(g)]
  BY <1>2 DEF Answers
<1>4. ASSUME NEW g \in 1 .. c, NEW k \in 1 .. Len(items[d + g].picks)
      PROVE  /\ answer(g)[k] = Sees(shared, shared, items[d + g].ids, items[d + g].picks[k])
             /\ answer(g)[k] \in Views
  <2> DEFINE i == d + g
             pick == items[i].picks[k]
             ids == items[i].ids
  <2>1. i \in 1 .. m /\ i - 1 = d + (g - 1) /\ g - 1 \in 0 .. c /\ d + 1 - 1 = d
    BY <1>1, <1>2
  <2>2. /\ pick \in 1 .. Len(ids) /\ ids \in Seq(TokenIds) /\ Len(ids) \in Nat /\ items[i].picks \in Seq(Nat)
    BY <1>1, <2>1
  <2>3. DOMAIN items[i].picks = 1 .. Len(items[i].picks)
    BY <2>2, LenProperties
  <2>4. answer(g)[k] = rows[Pick(i, k)]
    BY <2>3
  <2>5. Pick(i, k) = TokensTo(Batch, g - 1) + pick
    <3>1. Pick(i, k) = TokensTo(items, i - 1) - TokensTo(items, d) + pick
      BY <2>1 DEF Pick, Lengths
    <3>2. TokensTo(Batch, g - 1) = TokensTo(items, i - 1) - TokensTo(items, d)
      BY <1>2, <2>1
    <3> QED
      BY <3>1, <3>2
  <2>6. rows[TokensTo(Batch, g - 1) + pick] = Sight(p, Batch[g], pick)
    <3>1. Batch[g].ids = ids
      BY <1>2
    <3> QED
      BY <2>2, <3>1 DEF RowsAfter
  <2>7. Sight(p, Batch[g], pick) = Sees(shared, shared, ids, pick)
    BY <1>2 DEF Sight, GroupReady
  <2>8. Sees(shared, shared, ids, pick) \in Views
    <3> DEFINE cut == SubSeq(ids, 1, pick)
               all == shared \o cut
    <3>1. cut \in Seq(TokenIds)
      <4> HIDE DEF ids, pick
      <4>1. ids \in Seq(TokenIds) /\ 1 \in 1 .. Len(ids) + 1 /\ pick \in 0 .. Len(ids)
        BY <2>2
      <4> QED
        BY ONLY <4>1, SliceFacts
    <3> HIDE DEF cut
    <3>2. all \in Seq(TokenIds)
      BY <1>1, <3>1, ConcatProperties
    <3> HIDE DEF all
    <3>3. [attended |-> all, carried |-> all] \in Views
      BY <3>2 DEF Views
    <3> QED
      BY <3>3 DEF Sees, all, cut
  <2> HIDE DEF answer, i, pick, ids
  <2>9. answer(g)[k] = Sees(shared, shared, ids, pick)
    BY <2>4, <2>5, <2>6, <2>7
  <2> QED
    BY <2>8, <2>9 DEF ids, pick, i
<1>5. ASSUME NEW g \in 1 .. c PROVE answer(g) \in Seq(Views)
  <2> DEFINE n == Len(items[d + g].picks)
  <2>1. d + g \in 1 .. m
    BY <1>1, <1>2
  <2>2. items[d + g].picks \in Seq(Nat)
    BY <1>1, <2>1
  <2>3. n \in Nat /\ DOMAIN items[d + g].picks = 1 .. n
    BY <2>2, LenProperties
  <2>4. answer(g) = [k \in 1 .. n |-> rows[Pick(d + g, k)]]
    BY <2>3
  <2>5. \A k \in 1 .. n : answer(g)[k] \in Views
    BY <1>4
  <2>6. answer(g) \in [1 .. n -> Views]
    <3> DEFINE at(k) == rows[Pick(d + g, k)]
               a == answer(g)
    <3>1. a = [k \in 1 .. n |-> at(k)] /\ \A k \in 1 .. n : a[k] \in Views
      BY <2>4, <2>5
    <3> HIDE DEF a, at, n
    <3>2. a \in [1 .. n -> Views]
      BY ONLY <3>1
    <3> QED
      BY <3>2 DEF a
  <2> HIDE DEF n, answer
  <2> QED
    BY <2>3, <2>6, SeqOfTable
<1> HIDE DEF answer, A
<1>6. A \in Seq(Seq(Views)) /\ Len(A) = c /\ \A g \in 1 .. c : A[g] = answer(g)
  <2>1. A \in [1 .. c -> Seq(Views)] /\ \A g \in 1 .. c : A[g] = answer(g)
    BY <1>3, <1>5
  <2> QED
    BY <1>2, <2>1, SeqOfTable
<1>7. out \in Seq(Seq(Views))
  BY DEF OutIs
<1>8. out \o A \in Seq(Seq(Views)) /\ Len(out \o A) = d + c
  BY <1>6, <1>7, ConcatProperties
<1>9. \A i \in 1 .. d : (out \o A)[i] = out[i]
  BY <1>6, <1>7, ConcatAt
<1>10. \A g \in 1 .. c : (out \o A)[d + g] = A[g]
  <2>1. \A g \in 1 .. Len(A) : (out \o A)[Len(out) + g] = A[g]
    BY <1>6, <1>7, ConcatAt
  <2> QED
    BY <1>6, <2>1
<1>11. ASSUME NEW i \in 1 .. d + c, NEW k \in 1 .. Len(items[i].picks)
       PROVE  (out \o A)[i][k] = Sees(shared, shared, items[i].ids, items[i].picks[k])
  <2>1. CASE i \in 1 .. d
    BY <1>9, <2>1 DEF OutIs
  <2>2. CASE i \notin 1 .. d
    <3>1. i - d \in 1 .. c /\ d + (i - d) = i
      BY <1>2, <2>2
    <3>2. (out \o A)[i] = answer(i - d)
      BY <1>6, <1>10, <3>1
    <3>3. k \in 1 .. Len(items[d + (i - d)].picks)
      BY <3>1
    <3>4. answer(i - d)[k] = Sees(shared, shared, items[d + (i - d)].ids, items[d + (i - d)].picks[k])
      BY <1>4, <3>1, <3>3
    <3> QED
      BY <3>1, <3>2, <3>4
  <2> QED
    BY <2>1, <2>2
<1>12. OutIs(shared, items, out \o A)
  BY <1>8, <1>11 DEF OutIs
<1> QED
  BY <1>8, <1>12 DEF A

(* A record's pool when a pass is through: its items have their slots. *)
LEMMA RecordAfter ==
  ASSUME PlanOf(request, shared, items), Decides, MemoryTypes(kv, carried), Len(out) \in Nat, NEW c, BatchIs(c),
         PoolIs(shared, items, pool, Len(items), Len(out)),
         Remembers(shared, items, kv, carried, Len(items), Len(out)),
         \A i \in 1 .. Len(items) : branches[i] = i,
         NEW q, PassTo(pool, Batch, TokensTo(items, Len(items)) - TokensTo(items, Len(out)), c, q)
  PROVE  /\ PoolIs(shared, items, q.pool, Len(items), Len(out) + c)
         /\ Remembers(shared, items, q.kv, q.carried, Len(items), Len(out) + c)
<1> DEFINE d == Len(out)
           m == Len(items)
           f == TokensTo(items, m) - TokensTo(items, d)
           s == Len(shared)
           R == Room(shared, items)
<1>1. /\ m \in Nat \ {0} /\ m < MaxSeqs /\ s \in Nat
  BY PlanFacts
<1>2. /\ \A k \in 0 .. m : TokensTo(items, k) \in Nat
      /\ R \in Nat /\ R = s + TokensTo(items, m)
      /\ \A a \in 0 .. m : \A b \in a .. m : TokensTo(items, a) <= TokensTo(items, b)
  BY PlanTokens
<1>3. /\ c \in 1 .. m - d /\ c \in Nat
      /\ \A g \in 1 .. c : Batch[g].seq = RowOfItem(d + g) /\ Batch[g].ids = items[d + g].ids
      /\ \A g \in 0 .. c : TokensTo(Batch, g) = TokensTo(items, d + g) - TokensTo(items, d)
  BY DEF BatchIs
<1>4. d \in Nat /\ d + c \in 0 .. m /\ d \in 0 .. m /\ c \in 0 .. c
  BY <1>1, <1>3
<1>5. /\ TokensTo(items, d) \in Nat /\ TokensTo(items, d + c) \in Nat /\ TokensTo(items, m) \in Nat
  BY <1>1, <1>2, <1>4
<1>6. f - TokensTo(Batch, c) = TokensTo(items, m) - TokensTo(items, d + c)
  <2>1. TokensTo(Batch, c) = TokensTo(items, d + c) - TokensTo(items, d)
    BY <1>3, <1>4
  <2> QED
    BY <1>5, <2>1
<1>7. ASSUME NEW g \in 1 .. c PROVE Batch[g].seq = d + g /\ d + g \in d + 1 .. d + c /\ d + g \in 1 .. m
  <2>1. d + g \in 1 .. m /\ d + g \in d + 1 .. d + c
    BY <1>1, <1>3, <1>4
  <2>2. RowOfItem(d + g) = d + g
    BY <2>1 DEF RowOfItem
  <2> QED
    BY <1>3, <2>1, <2>2
<1>8. RowsTo(Batch, c) = d + 1 .. d + c
  <2>1. ASSUME NEW id \in d + 1 .. d + c PROVE id \in RowsTo(Batch, c)
    <3>1. id - d \in 1 .. c /\ d + (id - d) = id
      BY <1>3, <1>4
    <3>2. Batch[id - d].seq = id
      BY <1>7, <3>1
    <3> QED
      BY <3>1, <3>2 DEF RowsTo
  <2>2. ASSUME NEW id \in RowsTo(Batch, c) PROVE id \in d + 1 .. d + c
    <3>1. PICK g \in 1 .. c : id = Batch[g].seq
      BY DEF RowsTo
    <3> QED
      BY <1>7, <3>1
  <2> QED
    BY <2>1, <2>2
<1>9. /\ q.pool \in Tables /\ q.pool.free = Stack(f - TokensTo(Batch, c)) /\ q.pool.live = pool.live
      /\ q.pool.borrowed = pool.borrowed
      /\ \A id \in SeqIds \ RowsTo(Batch, c) : q.pool.slots[id] = pool.slots[id]
      /\ \A g \in 1 .. c : q.pool.slots[Batch[g].seq]
           = pool.slots[Batch[g].seq] \o Fresh(f - TokensTo(Batch, g - 1), Len(Batch[g].ids))
  BY DEF PassTo, PoolAfter
<1>10. /\ pool.live = 0 .. m /\ \A id \in SeqIds : pool.slots[id] = RowAt(shared, items, m, d, id)
       /\ \A id \in SeqIds : pool.borrowed[id] = IF id \in 1 .. m THEN s ELSE 0
  BY DEF PoolIs
<1>11. ASSUME NEW id \in SeqIds PROVE q.pool.slots[id] = RowAt(shared, items, m, d + c, id)
  <2>1. CASE id \in d + 1 .. d + c
    <3> DEFINE g == id - d
    <3>1. g \in 1 .. c /\ d + g = id /\ g - 1 \in 0 .. c /\ d + (g - 1) = id - 1 /\ id - 1 \in 0 .. m
          /\ id # 0 /\ id \in 1 .. d + c /\ id \notin 1 .. d /\ id \in 1 .. m
      BY <1>3, <1>4, <2>1
    <3>2. Batch[g].seq = id /\ Batch[g].ids = items[id].ids
      BY <1>3, <1>7, <3>1
    <3>3. f - TokensTo(Batch, g - 1) = TokensTo(items, m) - TokensTo(items, id - 1)
      <4>1. TokensTo(Batch, g - 1) = TokensTo(items, id - 1) - TokensTo(items, d)
        BY <1>3, <3>1
      <4>2. TokensTo(items, id - 1) \in Nat
        BY <1>2, <3>1
      <4> QED
        BY <1>5, <4>1, <4>2
    <3>4. pool.slots[id] = StateSlots(shared, items)
      BY <1>10, <3>1 DEF RowAt
    <3>5. q.pool.slots[id] = pool.slots[id] \o Fresh(f - TokensTo(Batch, g - 1), Len(items[id].ids))
      <4>1. q.pool.slots[Batch[g].seq] = pool.slots[Batch[g].seq] \o Fresh(f - TokensTo(Batch, g - 1), Len(Batch[g].ids))
        BY <1>9, <3>1
      <4> HIDE DEF g
      <4> QED
        BY <3>2, <4>1
    <3>6. q.pool.slots[id] = StateSlots(shared, items) \o ItemSlotsOf(items, id)
      BY <3>3, <3>4, <3>5 DEF ItemSlotsOf
    <3> QED
      BY <3>1, <3>6 DEF RowAt
  <2>2. CASE id \notin d + 1 .. d + c
    <3>1. q.pool.slots[id] = RowAt(shared, items, m, d, id)
      BY <1>8, <1>9, <1>10, <2>2
    <3>2. id \in 1 .. d <=> id \in 1 .. d + c
      BY <1>3, <1>4, <2>2
    <3> QED
      BY <3>1, <3>2 DEF RowAt
  <2> QED
    BY <2>1, <2>2
<1>12. PoolIs(shared, items, q.pool, m, d + c)
  BY <1>6, <1>9, <1>10, <1>11 DEF PoolIs
<1>13. /\ \A j \in 1 .. s : R - j + 1 \in DOMAIN kv /\ kv[R - j + 1] = shared[j]
       /\ carried[0] = shared /\ \A i \in d + 1 .. m : carried[i] = shared
  BY DEF Remembers
<1>14. ASSUME NEW j \in 1 .. s PROVE R - j + 1 \in DOMAIN q.kv /\ q.kv[R - j + 1] = shared[j]
  <2>1. /\ DOMAIN q.kv = DOMAIN kv \cup (f - TokensTo(Batch, c) + 1 .. f)
        /\ \A x \in DOMAIN kv : x > f => q.kv[x] = kv[x]
    BY DEF PassTo, KvAfter
  <2>2. R - j + 1 > f
    <3> DEFINE t == TokensTo(items, m)
               u == TokensTo(items, d)
    <3>1. t \in Nat /\ u \in Nat /\ R = s + t /\ f = t - u /\ s \in Nat
      BY <1>1, <1>2, <1>5
    <3> HIDE DEF t, u, f, R, s
    <3> QED
      BY <3>1
  <2> QED
    BY <1>13, <2>1, <2>2
<1>15. /\ \A id \in SeqIds \ RowsTo(Batch, c) : q.carried[id] = carried[id]
  BY DEF PassTo, CarriedAfter
<1>16. q.carried[0] = shared
  <2>1. 0 \in SeqIds \ RowsTo(Batch, c)
    BY <1>1, <1>4, <1>8, PoolSizes DEF SeqIds
  <2> QED
    BY <1>13, <1>15, <2>1
<1>17. ASSUME NEW i \in d + c + 1 .. m PROVE q.carried[i] = shared
  <2>1. i \in d + 1 .. m /\ i \notin d + 1 .. d + c
    BY <1>3, <1>4
  <2>2. i \in SeqIds
    BY <1>1, <1>4, PoolSizes DEF SeqIds
  <2> QED
    BY <1>8, <1>13, <1>15, <2>1, <2>2
<1>18. Remembers(shared, items, q.kv, q.carried, m, d + c)
  BY <1>14, <1>16, <1>17 DEF Remembers
<1> QED
  BY <1>12, <1>18

(* What a pass leaves in memory is tokens and texts still. *)
LEMMA MemoryAfter ==
  ASSUME NEW p, NEW batch, NEW f \in Nat, NEW k, TokensTo(batch, k) \in Nat, NEW q, PassTo(p, batch, f, k, q),
         MemoryTypes(kv, carried)
  PROVE  MemoryTypes(q.kv, q.carried)
<1>1. q.carried \in [SeqIds -> Seq(TokenIds)]
  BY DEF PassTo, CarriedAfter
<1>2. q.kv \in [DOMAIN kv \cup (f - TokensTo(batch, k) + 1 .. f) -> TokenIds]
  BY DEF PassTo, KvAfter
<1>3. f - TokensTo(batch, k) + 1 .. f \subseteq Nat
  <2>1. TokensTo(batch, k) <= f
    BY DEF PassTo
  <2> QED
    BY <2>1
<1>4. DOMAIN kv \subseteq Nat
  BY DEF MemoryTypes
<1> QED
  BY <1>1, <1>2, <1>3, <1>4 DEF MemoryTypes

(* Items that each fit a pass and a sequence never want for room. *)
LEMMA GroupFits ==
  ASSUME PlanOf(request, shared, items), Len(out) \in Nat, Len(out) < Len(items), Fitting,
         NEW c, BatchIs(c), NEW p, NEW f, GroupReady(p, f, c)
  PROVE  /\ Run(p, Batch).ok
         /\ ~PassFits(Lengths(Len(out) + 1, GroupEnd), Logits) => ~Decides /\ Len(items) > MaxLogitRows
<1> DEFINE d == Len(out)
           m == Len(items)
           e == GroupEnd
           n == Lengths(d + 1, e)
<1>1. /\ m \in Nat /\ \A i \in 1 .. m : Len(items[i].ids) \in Nat \ {0}
      /\ Decides => \A i \in 1 .. m : Len(shared) + Len(items[i].ids) <= MaxSeq
      /\ ~Decides => shared = << >>
  BY PlanFacts DEF Decides
<1>2. /\ \A k \in 0 .. m : TokensTo(items, k) \in Nat
      /\ \A k \in 1 .. m : TokensTo(items, k) = TokensTo(items, k - 1) + Len(items[k].ids)
      /\ \A a \in 0 .. m : \A b \in a .. m : TokensTo(items, a) <= TokensTo(items, b)
  BY PlanTokens
<1>3. /\ c \in 1 .. m - d /\ Len(Batch) = c /\ c = Cardinality(Group) /\ e = d + c
      /\ \A g \in 1 .. c : Batch[g].ids = items[d + g].ids
  BY DEF BatchIs
<1>4. e \in d + 1 .. m /\ (e = d + 1 \/ n <= BatchTokens)
  BY <1>1, GroupFacts DEF GroupIs
<1>5. \A i \in 1 .. m : Len(items[i].ids) <= BatchTokens /\ Len(items[i].ids) <= MaxSeq
  <2>1. DOMAIN items = 1 .. m
    <3>1. items \in Seq(BranchItems)
      BY PlanFacts
    <3> QED
      BY <3>1, LenProperties
  <2>2. BatchTokens \in Nat
    BY BranchSizes
  <2>3. \A i \in 1 .. m : ~(Len(items[i].ids) > BatchTokens) /\ Len(items[i].ids) <= MaxSeq
    BY <2>1 DEF Fitting, Wide
  <2> QED
    BY <1>1, <2>2, <2>3
<1>6. Run(p, Batch).ok
  <2>1. ASSUME NEW g \in 1 .. Len(Batch) PROVE SeqLen(p, Batch[g].seq) + Len(Batch[g].ids) <= MaxSeq
    <3>1. g \in 1 .. c /\ d + g \in 1 .. m
      BY <1>1, <1>3
    <3>2. SeqLen(p, Batch[g].seq) = Len(shared) /\ Len(Batch[g].ids) = Len(items[d + g].ids)
      BY <1>3, <3>1 DEF GroupReady
    <3>3. CASE Decides
      BY <1>1, <3>1, <3>2, <3>3
    <3>4. CASE ~Decides
      <4>1. Len(shared) = 0
        BY <1>1, <3>4, EmptySeq
      <4>2. Len(items[d + g].ids) \in Nat /\ Len(items[d + g].ids) <= MaxSeq
        BY <1>1, <1>5, <3>1
      <4>3. 0 + Len(items[d + g].ids) <= MaxSeq
        BY <4>2
      <4> QED
        BY <3>2, <4>1, <4>3
    <3> QED
      BY <3>3, <3>4
  <2>2. PassReady(p, Batch, f) /\ TokensTo(Batch, Len(Batch)) <= f
    BY <1>3 DEF GroupReady
  <2> QED
    BY <2>1, <2>2, PassFacts
<1>7. n \in 1 .. BatchTokens
  <2> DEFINE u == TokensTo(items, d)
             v == TokensTo(items, e)
             w == TokensTo(items, d + 1)
             l == Len(items[d + 1].ids)
  <2>1. d + 1 \in 1 .. m /\ d + 1 - 1 = d /\ d \in 0 .. m /\ e \in 0 .. m /\ e \in d + 1 .. m /\ d + 1 \in 0 .. m
    BY <1>1, <1>4
  <2>2. u \in Nat /\ v \in Nat /\ w \in Nat /\ w = u + l /\ w <= v /\ l \in Nat \ {0} /\ l <= BatchTokens /\ n = v - u
    BY <1>1, <1>2, <1>5, <2>1 DEF Lengths
  <2>3. e = d + 1 => v = w
    OBVIOUS
  <2>4. BatchTokens \in Nat
    BY BranchSizes
  <2> HIDE DEF u, v, w, l, n
  <2>5. n <= BatchTokens
    <3>1. CASE e = d + 1
      BY <2>2, <2>3, <2>4, <3>1
    <3>2. CASE e # d + 1
      BY <1>4, <3>2
    <3> QED
      BY <3>1, <3>2
  <2> QED
    BY <2>2, <2>4, <2>5
<1>8. ~PassFits(n, Logits) => ~Decides /\ m > MaxLogitRows
  <2>1. MaxLogitRows \in Nat /\ c <= m /\ c \in Nat
    BY <1>1, <1>3, BranchSizes
  <2>2. ~PassFits(n, Logits) => ~(Logits <= MaxLogitRows)
    BY <1>7 DEF PassFits
  <2>3. Logits = IF Decides THEN 0 ELSE c
    BY <1>3 DEF Logits
  <2> HIDE DEF n, m
  <2> QED
    BY <1>1, <2>1, <2>2, <2>3
<1> QED
  BY <1>6, <1>8

LEMMA ScoreGroupKeeps ==
  ASSUME BranchInv, ScoreGroup
  PROVE  BranchInv'
<1> DEFINE d == Len(out)
           m == Len(items)
           c == GroupEnd - d
           p == IF Decides THEN pool ELSE GroupPool
           f == IF Decides THEN TokensTo(items, m) - TokensTo(items, d) ELSE TokensTo(items, d + c) - TokensTo(items, d)
           R == Run(p, Batch)
           fits == PassFits(Lengths(d + 1, GroupEnd), Logits)
<1>1. /\ stage = "score" /\ d < m /\ PlanOf(request, shared, items)
      /\ MemoryTypes(kv, carried) /\ why = "none" /\ OutIs(shared, items, out)
      /\ ~Decides => pool = NoPool /\ size = Sized(0, 0) /\ branches = << >>
  BY DEF ScoreGroup, BranchInv, InvPlan, InvOut, InvNone, InvWhy
<1>2. ASSUME Decides
      PROVE  /\ size = Sized(Room(shared, items), 1 + m)
             /\ branches \in Seq(Nat) /\ Len(branches) = m /\ \A i \in 1 .. m : branches[i] = i
             /\ PoolIs(shared, items, pool, m, d) /\ Remembers(shared, items, kv, carried, m, d)
  BY <1>1, <1>2 DEF BranchInv, InvRecord
<1>3. d \in Nat /\ m \in Nat
  BY <1>1, PlanFacts, LenProperties DEF OutIs
<1>4. BatchIs(c)
  BY <1>1, <1>3, BatchFacts
<1>5. c \in 1 .. m - d /\ Len(Batch) = c /\ c \in Nat
  BY <1>4 DEF BatchIs
<1> HIDE DEF c
<1>6. GroupReady(p, f, c)
  <2>1. CASE Decides
    BY <1>1, <1>2, <1>3, <1>4, <2>1, RecordReady
  <2>2. CASE ~Decides
    BY <1>1, <1>3, <1>4, <2>2, FreshReady
  <2> QED
    BY <2>1, <2>2
<1>7. Run(p, Batch).ok => PassTo(p, Batch, f, c, Run(p, Batch))
  BY <1>5, <1>6, PassFacts DEF GroupReady
<1>8. \/ /\ fits /\ R.ok
         /\ out' = out \o Answers(R.rows)
         /\ pool' = IF Decides THEN R.pool ELSE NoPool
         /\ kv' = R.kv /\ carried' = R.carried
         /\ UNCHANGED << plan, size, branches, stage, why >>
      \/ ~(fits /\ R.ok) /\ Fails(IF fits THEN "pool" ELSE "pass")
  BY DEF ScoreGroup, GroupPass
<1> HIDE DEF R, fits
<1>9. CASE ~(fits /\ R.ok) /\ Fails(IF fits THEN "pool" ELSE "pass")
  <2>1. Fitting => R.ok /\ (~fits => ~Decides /\ m > MaxLogitRows)
    BY <1>1, <1>3, <1>4, <1>6, GroupFits DEF R, fits
  <2>2. CASE fits
    <3>1. Fails("pool") /\ ~Fitting
      BY <1>9, <2>1, <2>2
    <3> QED
      BY <1>1, <3>1, FailsKeeps
  <2>3. CASE ~fits
    <3>1. Fails("pass") /\ (Fitting => ~Decides /\ Len(items) > MaxLogitRows)
      BY <1>9, <2>1, <2>3
    <3> QED
      BY <1>1, <3>1, FailsKeeps
  <2> QED
    BY <2>2, <2>3
<1>10. CASE /\ fits /\ R.ok
            /\ out' = out \o Answers(R.rows)
            /\ pool' = IF Decides THEN R.pool ELSE NoPool
            /\ kv' = R.kv /\ carried' = R.carried
            /\ UNCHANGED << plan, size, branches, stage, why >>
  <2>1. /\ out' = out \o Answers(R.rows) /\ pool' = IF Decides THEN R.pool ELSE NoPool
        /\ kv' = R.kv /\ carried' = R.carried /\ size' = size /\ branches' = branches /\ stage' = stage /\ why' = why
        /\ request' = request /\ shared' = shared /\ items' = items
    BY <1>10 DEF plan
  <2>2. PassTo(p, Batch, f, c, R)
    BY <1>7, <1>10 DEF R
  <2>3. RowsAfter(p, Batch, c, R.rows)
    BY <2>2 DEF PassTo
  <2> HIDE DEF p, f
  <2>4. OutIs(shared, items, out') /\ Len(out') = d + c
    BY <1>1, <1>3, <1>4, <1>6, <2>1, <2>3, AnswersFacts
  <2>5. MemoryTypes(R.kv, R.carried)
    <3>1. f \in Nat
      BY <1>6 DEF GroupReady, PassReady
    <3>2. TokensTo(Batch, c) \in Nat
      <4>1. PassReady(p, Batch, f)
        BY <1>6 DEF GroupReady
      <4>2. \A k \in 0 .. Len(Batch) : TokensTo(Batch, k) \in Nat
        BY <4>1, PassTokens
      <4>3. c \in 0 .. Len(Batch)
        BY <1>5
      <4> QED
        BY <4>2, <4>3
    <3> QED
      BY <1>1, <2>2, <3>1, <3>2, MemoryAfter
  <2>6. Decides' = Decides
    BY <2>1 DEF Decides
  <2>7. MemoryTypes(kv, carried)'
    BY <2>1, <2>5 DEF MemoryTypes
  <2>8. InvPlan'
    BY <1>1, <2>1, <2>6 DEF InvPlan
  <2>9. InvOut'
    <3>1. Len(out') <= Len(items')
      BY <1>3, <1>5, <2>1, <2>4
    <3> QED
      BY <1>1, <2>1, <2>4, <3>1 DEF InvOut
  <2>10. InvNone'
    <3>1. NoPool' = NoPool /\ Sized(0, 0)' = Sized(0, 0)
      BY DEF NoPool, NewPool, Sized
    <3>2. ~Decides => pool' = NoPool /\ size' = Sized(0, 0) /\ branches' = << >>
      BY <1>1, <2>1
    <3> QED
      BY <1>1, <2>1, <2>6, <3>1, <3>2 DEF InvNone
  <2>11. InvAnswered'
    BY <1>1, <2>1 DEF InvAnswered
  <2>12. InvRecord'
    <3> SUFFICES ASSUME Decides
                 PROVE  /\ size' = Sized(Room(shared', items'), 1 + Len(items'))
                        /\ branches' \in Seq(Nat) /\ Len(branches') <= Len(items')
                        /\ \A i \in 1 .. Len(branches') : branches'[i] = i
                        /\ stage' = "score" => Len(branches') = Len(items')
                        /\ stage' = "fork" => Len(branches') < Len(items')
                        /\ PoolIs(shared', items', pool', Len(branches'), Len(out'))
                        /\ Remembers(shared', items', kv', carried', Len(branches'), Len(out'))
      BY <2>6 DEF InvRecord
    <3>1. /\ size = Sized(Room(shared, items), 1 + m)
          /\ branches \in Seq(Nat) /\ Len(branches) = m /\ \A i \in 1 .. m : branches[i] = i
          /\ PoolIs(shared, items, pool, m, d) /\ Remembers(shared, items, kv, carried, m, d)
      BY <1>2
    <3>2. PassTo(pool, Batch, TokensTo(items, m) - TokensTo(items, d), c, R)
      BY <2>2 DEF p, f
    <3>3. PoolIs(shared, items, R.pool, m, d + c) /\ Remembers(shared, items, R.kv, R.carried, m, d + c)
      BY <1>1, <1>3, <1>4, <3>1, <3>2, RecordAfter
    <3>4. PoolIs(shared', items', pool', Len(branches'), Len(out'))
      BY <2>1, <2>4, <3>1, <3>3
    <3>5. Remembers(shared', items', kv', carried', Len(branches'), Len(out'))
      BY <2>1, <2>4, <3>1, <3>3
    <3>6. size' = Sized(Room(shared', items'), 1 + Len(items'))
      BY <2>1, <3>1
    <3> QED
      BY <1>1, <1>3, <2>1, <3>1, <3>4, <3>5, <3>6
  <2>13. InvWhy'
    BY <1>1, <2>1 DEF InvWhy, RoomEnough
  <2> QED
    BY <2>7, <2>8, <2>9, <2>10, <2>11, <2>12, <2>13 DEF BranchInv
<1> QED
  BY <1>8, <1>9, <1>10

-----------------------------------------------------------------------------
(* free: what a row owns goes on the stack, last slot lowest. *)
Gave(p, id, own, q) ==
  /\ q \in Tables /\ q.live = p.live \ {id} /\ q.free = p.free \o Reverse(own)
  /\ q.slots[id] = << >> /\ q.borrowed[id] = 0
  /\ \A x \in SeqIds \ {id} : q.slots[x] = p.slots[x] /\ q.borrowed[x] = p.borrowed[x]

LEMMA FreeRow ==
  ASSUME NEW p \in Tables, NEW id \in SeqIds, id \in p.live, NEW own \in Seq(Nat), Owned(p, id) = own
  PROVE  Gave(p, id, own, Free(p, id))
<1> DEFINE free == p.free \o Reverse(own)
           live == p.live \ {id}
           slots == [p.slots EXCEPT ![id] = << >>]
           borrowed == [p.borrowed EXCEPT ![id] = 0]
           q == Free(p, id)
<1>1. /\ p = [free |-> p.free, live |-> p.live, slots |-> p.slots, borrowed |-> p.borrowed]
      /\ p.free \in Seq(Nat) /\ p.live \in SUBSET SeqIds /\ p.slots \in [SeqIds -> Seq(Nat)] /\ p.borrowed \in [SeqIds -> Nat]
  BY DEF Tables
<1>2. Reverse(own) \in Seq(Nat)
  BY ReverseFacts
<1>3. free \in Seq(Nat)
  BY <1>1, <1>2, ConcatProperties
<1>4. q = [free |-> free, live |-> live, slots |-> slots, borrowed |-> borrowed]
  <2> DEFINE a == Cleared(p, id)
  <2>1. a = [p EXCEPT !.slots = slots, !.borrowed = borrowed]
    BY DEF Cleared
  <2>2. q = [a EXCEPT !.free = @ \o Reverse(own), !.live = @ \ {id}]
    BY DEF Free
  <2> HIDE DEF slots, borrowed, a
  <2>3. p = [free |-> p.free, live |-> p.live, slots |-> p.slots, borrowed |-> p.borrowed]
    BY <1>1
  <2>4. a = [free |-> p.free, live |-> p.live, slots |-> slots, borrowed |-> borrowed]
    BY ONLY <2>1, <2>3
  <2>5. a.free = p.free /\ a.live = p.live
    BY ONLY <2>4
  <2>6. q = [a EXCEPT !.free = free, !.live = live]
    BY ONLY <2>2, <2>5
  <2> HIDE DEF free, live, q
  <2> QED
    BY ONLY <2>4, <2>6
<1>5. /\ slots \in [SeqIds -> Seq(Nat)] /\ slots[id] = << >> /\ \A x \in SeqIds \ {id} : slots[x] = p.slots[x]
  BY <1>1
<1>6. /\ borrowed \in [SeqIds -> Nat] /\ borrowed[id] = 0 /\ \A x \in SeqIds \ {id} : borrowed[x] = p.borrowed[x]
  BY <1>1
<1>7. live \in SUBSET SeqIds
  BY <1>1
<1> HIDE DEF free, slots, borrowed, live, q
<1>8. q.free = free /\ q.live = live /\ q.slots = slots /\ q.borrowed = borrowed
  BY <1>4
<1>9. q \in Tables
  BY <1>3, <1>4, <1>5, <1>6, <1>7 DEF Tables
<1> QED
  BY <1>5, <1>6, <1>8, <1>9 DEF Gave, free, live, q

LEMMA FreedLoop ==
  ASSUME Len(branches) \in Nat
  PROVE  \E r : /\ BranchesFreed = r[Len(branches)]
                /\ r[0] = pool
                /\ \A k \in 1 .. Len(branches) : r[k] = Free(r[k - 1], branches[k])
<1> DEFINE n == Len(branches)
           S == { m \in Nat : \E h : h = [ k \in 0 .. m |-> IF k = 0 THEN pool ELSE Free(h[k - 1], branches[k]) ] }
<1>1. 0 \in S
  <2> DEFINE h == [ k \in 0 .. 0 |-> pool ]
  <2>1. h = [ k \in 0 .. 0 |-> IF k = 0 THEN pool ELSE Free(h[k - 1], branches[k]) ]
    OBVIOUS
  <2> QED
    BY <2>1
<1>2. ASSUME NEW m \in Nat, m \in S PROVE m + 1 \in S
  <2>1. PICK h : h = [ k \in 0 .. m |-> IF k = 0 THEN pool ELSE Free(h[k - 1], branches[k]) ]
    BY <1>2
  <2> DEFINE last == Free(h[m], branches[m + 1])
             g == [ k \in 0 .. m + 1 |-> IF k = m + 1 THEN last ELSE h[k] ]
  <2>2. h[0] = pool /\ \A k \in 1 .. m : h[k] = Free(h[k - 1], branches[k])
    BY <2>1
  <2>3. ASSUME NEW k \in 0 .. m + 1 PROVE g[k] = IF k = 0 THEN pool ELSE Free(g[k - 1], branches[k])
    <3>1. CASE k = 0
      BY <2>2, <3>1
    <3>2. CASE k = m + 1
      <4>1. g[k - 1] = h[m] /\ g[k] = last
        BY <3>2
      <4> QED
        BY <3>2, <4>1
    <3>3. CASE k \in 1 .. m
      <4>1. g[k] = h[k] /\ g[k - 1] = h[k - 1]
        BY <3>3
      <4> QED
        BY <2>2, <3>3, <4>1
    <3> QED
      BY <3>1, <3>2, <3>3
  <2>4. g = [ k \in 0 .. m + 1 |-> IF k = 0 THEN pool ELSE Free(g[k - 1], branches[k]) ]
    <3> HIDE DEF last
    <3> QED
      BY <2>3
  <2> HIDE DEF g
  <2> QED
    BY <2>4
<1> HIDE DEF S
<1>3. n \in S
  BY <1>1, <1>2, SetInduction
<1> USE DEF S
<1>4. \E h : h = [ k \in 0 .. n |-> IF k = 0 THEN pool ELSE Free(h[k - 1], branches[k]) ]
  BY <1>3
<1> DEFINE r == CHOOSE h : h = [ k \in 0 .. n |-> IF k = 0 THEN pool ELSE Free(h[k - 1], branches[k]) ]
<1>5. r = [ k \in 0 .. n |-> IF k = 0 THEN pool ELSE Free(r[k - 1], branches[k]) ]
  BY <1>4
<1>6. BranchesFreed = r[n]
  BY DEF BranchesFreed
<1> HIDE DEF r
<1>7. r[0] = pool /\ \A k \in 1 .. n : r[k] = Free(r[k - 1], branches[k])
  BY <1>5
<1> QED
  BY <1>6, <1>7

(* A record's pool when all its items have run and the first k are freed. *)
FreedTo(sh, its, k, q) ==
  /\ q \in Tables /\ q.live = {0} \cup (k + 1 .. Len(its))
  /\ \A id \in SeqIds : q.slots[id] = IF id \in 1 .. k THEN << >> ELSE RowAt(sh, its, Len(its), Len(its), id)
  /\ \A id \in SeqIds : q.borrowed[id] = IF id \in k + 1 .. Len(its) THEN Len(sh) ELSE 0
  /\ Len(q.free) = TokensTo(its, k)
  /\ \A g \in 1 .. k : \A j \in 1 .. Len(its[g].ids) :
       q.free[TokensTo(its, g - 1) + j] = TokensTo(its, Len(its)) - TokensTo(its, g) + j

(* What an item owns is its own tokens' slots; freed, the stack has them from below. *)
LEMMA ItemOwns ==
  ASSUME NEW r, NEW sh, NEW its, PlanOf(r, sh, its), NEW i \in 1 .. Len(its)
  PROVE  /\ StateSlots(sh, its) \in Seq(Nat) /\ Len(StateSlots(sh, its)) = Len(sh)
         /\ ItemSlotsOf(its, i) \in Seq(Nat) /\ Len(ItemSlotsOf(its, i)) = Len(its[i].ids)
         /\ \A j \in 1 .. Len(its[i].ids) :
              Reverse(ItemSlotsOf(its, i))[j] = TokensTo(its, Len(its)) - TokensTo(its, i) + j
         /\ Reverse(ItemSlotsOf(its, i)) \in Seq(Nat) /\ Len(Reverse(ItemSlotsOf(its, i))) = Len(its[i].ids)
         /\ SubSeq(StateSlots(sh, its) \o ItemSlotsOf(its, i), Len(sh) + 1, Len(sh) + Len(its[i].ids)) = ItemSlotsOf(its, i)
         /\ Len(StateSlots(sh, its) \o ItemSlotsOf(its, i)) = Len(sh) + Len(its[i].ids)
<1> DEFINE t == TokensTo(its, Len(its))
           a == TokensTo(its, i - 1)
           b == TokensTo(its, i)
           l == Len(its[i].ids)
           s == Len(sh)
           mine == ItemSlotsOf(its, i)
           state == StateSlots(sh, its)
           cut == SubSeq(state \o mine, s + 1, s + l)
<1>1. t \in Nat /\ a \in Nat /\ b \in Nat /\ l \in Nat /\ s \in Nat /\ b = a + l /\ b <= t /\ Room(sh, its) = s + t
  <2>1. Len(its) \in Nat /\ Len(its[i].ids) \in Nat /\ Len(sh) \in Nat
    BY PlanFacts
  <2>2. i - 1 \in 0 .. Len(its) /\ i \in 0 .. Len(its) /\ Len(its) \in i .. Len(its) /\ Len(its) \in 0 .. Len(its)
    BY <2>1
  <2>3. /\ \A k \in 0 .. Len(its) : TokensTo(its, k) \in Nat
        /\ \A k \in 1 .. Len(its) : TokensTo(its, k) = TokensTo(its, k - 1) + Len(its[k].ids)
        /\ \A x \in 0 .. Len(its) : \A y \in x .. Len(its) : TokensTo(its, x) <= TokensTo(its, y)
        /\ Room(sh, its) = Len(sh) + TokensTo(its, Len(its))
    BY PlanTokens
  <2>4. TokensTo(its, i) <= TokensTo(its, Len(its))
    BY <2>2, <2>3
  <2>5. TokensTo(its, i) = TokensTo(its, i - 1) + Len(its[i].ids)
    BY <2>3
  <2> QED
    BY <2>1, <2>2, <2>3, <2>4, <2>5
<1>2. mine = Fresh(t - a, l) /\ state = Fresh(s + t, s)
  BY <1>1 DEF ItemSlotsOf, StateSlots
<1> HIDE DEF t, a, b, l, s, mine, state
<1>3. t - a \in Nat /\ l \in 0 .. t - a /\ s + t \in Nat /\ s \in 0 .. s + t
  BY <1>1
<1>4. mine \in Seq(Nat) /\ Len(mine) = l /\ \A j \in 1 .. l : mine[j] = t - a - j + 1
  BY <1>2, <1>3, FreshFacts
<1>5. state \in Seq(Nat) /\ Len(state) = s
  BY <1>2, <1>3, FreshFacts
<1>6. Reverse(mine) \in Seq(Nat) /\ Len(Reverse(mine)) = l /\ \A j \in 1 .. l : Reverse(mine)[j] = mine[l - j + 1]
  BY <1>4, ReverseFacts
<1>7. ASSUME NEW j \in 1 .. l PROVE Reverse(mine)[j] = t - b + j
  <2>1. l - j + 1 \in 1 .. l
    BY <1>1
  <2>2. Reverse(mine)[j] = t - a - (l - j + 1) + 1
    BY <1>4, <1>6, <2>1
  <2> QED
    BY <1>1, <2>2
<1>8. /\ state \o mine \in Seq(Nat) /\ Len(state \o mine) = s + l
      /\ \A j \in 1 .. l : (state \o mine)[s + j] = mine[j]
  <2>1. state \o mine \in Seq(Nat) /\ Len(state \o mine) = Len(state) + Len(mine)
    BY <1>4, <1>5, ConcatProperties
  <2>2. \A j \in 1 .. Len(mine) : (state \o mine)[Len(state) + j] = mine[j]
    BY <1>4, <1>5, ConcatAt
  <2> QED
    BY <1>4, <1>5, <2>1, <2>2
<1>9. cut = mine
  <2> DEFINE all == state \o mine
             from == s + 1
             to == s + l
  <2>1. all \in Seq(Nat) /\ from \in 1 .. Len(all) + 1 /\ to \in 0 .. Len(all)
    BY <1>1, <1>8
  <2> HIDE DEF all
  <2>2. /\ SubSeq(all, from, to) \in Seq(Nat)
        /\ Len(SubSeq(all, from, to)) = IF from <= to THEN to - from + 1 ELSE 0
        /\ \A j \in 1 .. to - from + 1 : SubSeq(all, from, to)[j] = all[from + j - 1]
    <3> HIDE DEF from, to
    <3> QED
      BY ONLY <2>1, SliceFacts
  <2>3. to - from + 1 = l /\ (IF from <= to THEN to - from + 1 ELSE 0) = l
    BY <1>1
  <2>4. ASSUME NEW j \in 1 .. l PROVE SubSeq(all, from, to)[j] = mine[j]
    <3>1. from + j - 1 = s + j
      BY <1>1
    <3>2. all[s + j] = mine[j]
      BY <1>8 DEF all
    <3> QED
      BY <2>2, <2>3, <3>1, <3>2
  <2>5. cut = SubSeq(all, from, to)
    BY DEF all
  <2> HIDE DEF from, to, cut
  <2>6. cut \in Seq(Nat) /\ Len(cut) = l /\ \A j \in 1 .. l : cut[j] = mine[j]
    BY <2>2, <2>3, <2>4, <2>5
  <2> QED
    BY <1>4, <2>6, SeqEqual
<1> QED
  BY <1>4, <1>5, <1>6, <1>7, <1>8, <1>9 DEF mine, state, t, b, l, s

LEMMA BranchFreed ==
  ASSUME NEW r, NEW sh, NEW its, PlanOf(r, sh, its), NEW k \in 1 .. Len(its), NEW q, FreedTo(sh, its, k - 1, q)
  PROVE  FreedTo(sh, its, k, Free(q, k))
<1> DEFINE m == Len(its)
           own == ItemSlotsOf(its, k)
           l == Len(its[k].ids)
           s == Len(sh)
           z == Free(q, k)
<1>1. m \in Nat \ {0} /\ m < MaxSeqs /\ k \in Nat /\ s \in Nat /\ l \in Nat
  BY PlanFacts
<1>2. /\ \A i \in 0 .. m : TokensTo(its, i) \in Nat
      /\ \A i \in 1 .. m : TokensTo(its, i) = TokensTo(its, i - 1) + Len(its[i].ids)
      /\ \A a \in 0 .. m : \A b \in a .. m : TokensTo(its, a) <= TokensTo(its, b)
  BY PlanTokens
<1>3. /\ own \in Seq(Nat) /\ Len(own) = l
      /\ \A j \in 1 .. l : Reverse(own)[j] = TokensTo(its, m) - TokensTo(its, k) + j
      /\ Reverse(own) \in Seq(Nat) /\ Len(Reverse(own)) = l
      /\ SubSeq(StateSlots(sh, its) \o own, s + 1, s + l) = own
      /\ Len(StateSlots(sh, its) \o own) = s + l
  BY ItemOwns
<1>4. k \in SeqIds /\ 0 \in SeqIds /\ k # 0 /\ k \in k .. m /\ k \notin 1 .. k - 1 /\ (k - 1) + 1 = k
  BY <1>1, PoolSizes DEF SeqIds
<1>5. /\ q \in Tables /\ q.live = {0} \cup (k .. m)
      /\ \A id \in SeqIds : q.slots[id] = IF id \in 1 .. k - 1 THEN << >> ELSE RowAt(sh, its, m, m, id)
      /\ \A id \in SeqIds : q.borrowed[id] = IF id \in k .. m THEN s ELSE 0
      /\ Len(q.free) = TokensTo(its, k - 1)
      /\ \A g \in 1 .. k - 1 : \A j \in 1 .. Len(its[g].ids) :
           q.free[TokensTo(its, g - 1) + j] = TokensTo(its, m) - TokensTo(its, g) + j
  BY <1>4 DEF FreedTo
<1>6. Owned(q, k) = own
  <2>1. q.slots[k] = StateSlots(sh, its) \o own
    BY <1>4, <1>5 DEF RowAt
  <2>2. q.borrowed[k] = s
    BY <1>4, <1>5
  <2> HIDE DEF own, s, l
  <2> QED
    BY <1>3, <2>1, <2>2 DEF Owned
<1> HIDE DEF own, z
<1>7. /\ z \in Tables /\ z.live = q.live \ {k} /\ z.free = q.free \o Reverse(own)
      /\ z.slots[k] = << >> /\ z.borrowed[k] = 0
      /\ \A x \in SeqIds \ {k} : z.slots[x] = q.slots[x] /\ z.borrowed[x] = q.borrowed[x]
  <2>1. k \in q.live
    BY <1>4, <1>5
  <2>2. Gave(q, k, own, z)
    BY <1>3, <1>4, <1>5, <1>6, <2>1, FreeRow DEF z
  <2> QED
    BY <2>2 DEF Gave
<1>8. z.live = {0} \cup (k + 1 .. m)
  BY <1>1, <1>4, <1>5, <1>7
<1>9. ASSUME NEW id \in SeqIds
      PROVE  /\ z.slots[id] = IF id \in 1 .. k THEN << >> ELSE RowAt(sh, its, m, m, id)
             /\ z.borrowed[id] = IF id \in k + 1 .. m THEN s ELSE 0
  <2>1. CASE id = k
    <3>1. k \in 1 .. k /\ k \notin k + 1 .. m
      BY <1>1
    <3> QED
      BY <1>7, <2>1, <3>1
  <2>2. CASE id # k
    <3>1. (id \in 1 .. k <=> id \in 1 .. k - 1) /\ (id \in k + 1 .. m <=> id \in k .. m)
      BY <1>1, <2>2
    <3>2. z.slots[id] = q.slots[id] /\ z.borrowed[id] = q.borrowed[id]
      BY <1>7, <2>2
    <3> QED
      BY <1>5, <3>1, <3>2
  <2> QED
    BY <2>1, <2>2
<1>10. k - 1 \in 0 .. m /\ k \in 0 .. m /\ TokensTo(its, k - 1) \in Nat /\ TokensTo(its, k) = TokensTo(its, k - 1) + l
  <2>1. k - 1 \in 0 .. m /\ k \in 0 .. m
    BY <1>1
  <2> QED
    BY <1>2, <2>1
<1>11. /\ Len(z.free) = TokensTo(its, k)
       /\ \A i \in 1 .. TokensTo(its, k - 1) : z.free[i] = q.free[i]
       /\ \A j \in 1 .. l : z.free[TokensTo(its, k - 1) + j] = Reverse(own)[j]
  <2> DEFINE low == q.free
             high == Reverse(own)
             n == TokensTo(its, k - 1)
  <2>1. low \in Seq(Nat) /\ high \in Seq(Nat) /\ Len(low) = n /\ Len(high) = l
    BY <1>3, <1>5 DEF Tables
  <2> HIDE DEF low, high, n, l
  <2>2. Len(low \o high) = Len(low) + Len(high)
    BY ONLY <2>1, ConcatProperties
  <2>3. \A i \in 1 .. Len(low) : (low \o high)[i] = low[i]
    BY ONLY <2>1, ConcatAt
  <2>4. \A j \in 1 .. Len(high) : (low \o high)[Len(low) + j] = high[j]
    BY ONLY <2>1, ConcatAt
  <2>5. z.free = low \o high
    BY <1>7 DEF low, high
  <2>6. Len(z.free) = n + l
    BY <2>1, <2>2, <2>5
  <2>7. \A i \in 1 .. n : z.free[i] = low[i]
    BY <2>1, <2>3, <2>5
  <2>8. \A j \in 1 .. l : z.free[n + j] = high[j]
    BY <2>1, <2>4, <2>5
  <2> QED
    BY <1>10, <2>6, <2>7, <2>8 DEF low, high, n
<1>12. ASSUME NEW g \in 1 .. k, NEW j \in 1 .. Len(its[g].ids)
       PROVE  z.free[TokensTo(its, g - 1) + j] = TokensTo(its, m) - TokensTo(its, g) + j
  <2>1. CASE g = k
    <3>1. j \in 1 .. l
      BY <2>1
    <3>2. z.free[TokensTo(its, k - 1) + j] = TokensTo(its, m) - TokensTo(its, k) + j
      BY <1>3, <1>11, <3>1
    <3> QED
      BY <2>1, <3>2
  <2>2. CASE g # k
    <3>1. g \in 1 .. k - 1 /\ g \in 1 .. m /\ g \in 0 .. m /\ g - 1 \in 0 .. m /\ k - 1 \in g .. m
      BY <1>1, <2>2
    <3>2. TokensTo(its, g - 1) + j \in 1 .. TokensTo(its, k - 1)
      <4> DEFINE u == TokensTo(its, g - 1)
                 v == TokensTo(its, g)
                 w == TokensTo(its, k - 1)
                 y == Len(its[g].ids)
      <4>1. u \in Nat /\ v \in Nat /\ w \in Nat /\ v <= w /\ v = u + y /\ j \in 1 .. y
        BY <1>2, <1>10, <3>1
      <4>2. y \in Nat
        BY <3>1, PlanFacts
      <4> HIDE DEF u, v, w, y
      <4>3. u + j \in 1 .. w
        BY ONLY <4>1, <4>2
      <4> QED
        BY <4>3 DEF u, w
    <3>3. z.free[TokensTo(its, g - 1) + j] = q.free[TokensTo(its, g - 1) + j]
      BY <1>11, <3>2
    <3>4. q.free[TokensTo(its, g - 1) + j] = TokensTo(its, m) - TokensTo(its, g) + j
      BY <1>5, <3>1
    <3> QED
      BY <3>3, <3>4
  <2> QED
    BY <2>1, <2>2
<1>13. FreedTo(sh, its, k, z)
  BY <1>7, <1>8, <1>9, <1>11, <1>12 DEF FreedTo
<1> QED
  BY <1>13 DEF z

(* The state is freed last. *)
LEMMA StateFreed ==
  ASSUME NEW r, NEW sh, NEW its, PlanOf(r, sh, its), NEW q, FreedTo(sh, its, Len(its), q)
  PROVE  GivenUp(sh, its, Free(q, 0))
<1> DEFINE m == Len(its)
           own == StateSlots(sh, its)
           s == Len(sh)
           t == TokensTo(its, m)
           z == Free(q, 0)
<1>1. m \in Nat \ {0} /\ m < MaxSeqs /\ s \in Nat
  BY PlanFacts
<1>2. /\ \A i \in 0 .. m : TokensTo(its, i) \in Nat
      /\ \A i \in 1 .. m : TokensTo(its, i) = TokensTo(its, i - 1) + Len(its[i].ids)
      /\ \A a \in 0 .. m : \A b \in a .. m : TokensTo(its, a) <= TokensTo(its, b)
      /\ t \in Nat /\ Room(sh, its) = s + t
  BY PlanTokens
<1>3. own \in Seq(Nat) /\ Len(own) = s /\ \A i \in 1 .. s : own[i] = s + t - i + 1
  <2>1. s \in 0 .. s + t /\ s + t \in Nat
    BY <1>1, <1>2
  <2>2. own = Fresh(s + t, s)
    BY <1>2 DEF StateSlots
  <2> DEFINE n == s + t
             fresh == Fresh(n, s)
  <2> HIDE DEF own, s, t, n
  <2>3. n \in Nat /\ s \in 0 .. n
    BY <2>1 DEF n
  <2>4. fresh \in Seq(Nat) /\ Len(fresh) = s /\ \A i \in 1 .. s : fresh[i] = n - i + 1
    BY ONLY <2>3, FreshFacts
  <2>5. own = fresh
    BY <2>2 DEF n
  <2> HIDE DEF fresh
  <2>6. own \in Seq(Nat) /\ Len(own) = s /\ \A i \in 1 .. s : own[i] = n - i + 1
    BY ONLY <2>4, <2>5
  <2>7. s \in Nat /\ t \in Nat
    BY <1>1, <1>2
  <2> QED
    BY <2>6, <2>7 DEF n
<1>4. Reverse(own) \in Seq(Nat) /\ Len(Reverse(own)) = s /\ \A j \in 1 .. s : Reverse(own)[j] = t + j
  <2>1. Reverse(own) \in Seq(Nat) /\ Len(Reverse(own)) = s /\ \A j \in 1 .. s : Reverse(own)[j] = own[s - j + 1]
    BY <1>3, ReverseFacts
  <2>2. ASSUME NEW j \in 1 .. s PROVE own[s - j + 1] = t + j
    <3>1. s - j + 1 \in 1 .. s
      BY <1>1
    <3>2. own[s - j + 1] = s + t - (s - j + 1) + 1
      BY <1>3, <3>1
    <3> HIDE DEF own, s, t
    <3> QED
      BY <1>1, <1>2, <3>2
  <2> QED
    BY <2>1, <2>2
<1>5. 0 \in SeqIds
  BY PoolSizes DEF SeqIds
<1>6. /\ q \in Tables /\ q.live = {0}
      /\ \A id \in SeqIds : q.slots[id] = IF id \in 1 .. m THEN << >> ELSE RowAt(sh, its, m, m, id)
      /\ \A id \in SeqIds : q.borrowed[id] = 0
      /\ Len(q.free) = t
      /\ \A g \in 1 .. m : \A j \in 1 .. Len(its[g].ids) :
           q.free[TokensTo(its, g - 1) + j] = t - TokensTo(its, g) + j
  <2>1. m + 1 .. m = {}
    BY <1>1
  <2> QED
    BY <2>1 DEF FreedTo
<1>7. q.slots[0] = own
  BY <1>5, <1>6 DEF RowAt
<1>8. Owned(q, 0) = own
  <2>1. Owned(q, 0) = SubSeq(own, 1, s)
    BY <1>3, <1>5, <1>6, <1>7 DEF Owned
  <2>2. 1 \in 1 .. Len(own) + 1 /\ s \in 0 .. Len(own) /\ s - 1 + 1 = s /\ (IF 1 <= s THEN s - 1 + 1 ELSE 0) = s
    BY <1>1, <1>3
  <2>3. /\ SubSeq(own, 1, s) \in Seq(Nat) /\ Len(SubSeq(own, 1, s)) = IF 1 <= s THEN s - 1 + 1 ELSE 0
        /\ \A i \in 1 .. s - 1 + 1 : SubSeq(own, 1, s)[i] = own[1 + i - 1]
    BY <1>3, <2>2, SliceFacts
  <2>4. \A i \in 1 .. s : SubSeq(own, 1, s)[i] = own[i]
    <3>1. \A i \in 1 .. s : 1 + i - 1 = i
      BY <1>1
    <3> QED
      BY <2>2, <2>3, <3>1
  <2> DEFINE cut == SubSeq(own, 1, s)
  <2> HIDE DEF cut, own, s
  <2>5. cut \in Seq(Nat) /\ Len(cut) = s /\ \A i \in 1 .. s : cut[i] = own[i]
    BY <2>2, <2>3, <2>4 DEF cut
  <2>6. cut = own
    BY <1>3, <2>5, SeqEqual
  <2> QED
    BY <2>1, <2>6 DEF cut
<1> HIDE DEF own, z
<1>9. /\ z \in Tables /\ z.live = {} /\ z.free = q.free \o Reverse(own)
      /\ z.slots[0] = << >> /\ z.borrowed[0] = 0
      /\ \A x \in SeqIds \ {0} : z.slots[x] = q.slots[x] /\ z.borrowed[x] = q.borrowed[x]
  <2>1. 0 \in q.live
    BY <1>6
  <2>2. Gave(q, 0, own, z)
    BY <1>3, <1>5, <1>6, <1>8, <2>1, FreeRow DEF z
  <2> QED
    BY <1>6, <2>2 DEF Gave
<1>10. ASSUME NEW id \in SeqIds PROVE z.slots[id] = << >> /\ z.borrowed[id] = 0
  <2>1. CASE id = 0
    BY <1>9, <2>1
  <2>2. CASE id # 0
    <3>1. q.slots[id] = << >>
      BY <1>6, <2>2 DEF RowAt
    <3> QED
      BY <1>6, <1>9, <2>2, <3>1
  <2> QED
    BY <2>1, <2>2
<1>11. /\ Len(z.free) = s + t
       /\ \A i \in 1 .. t : z.free[i] = q.free[i]
       /\ \A j \in 1 .. s : z.free[t + j] = t + j
  <2> DEFINE low == q.free
             high == Reverse(own)
  <2>1. low \in Seq(Nat) /\ high \in Seq(Nat) /\ Len(low) = t /\ Len(high) = s
    BY <1>4, <1>6 DEF Tables
  <2> HIDE DEF low, high, t, s
  <2>2. Len(low \o high) = Len(low) + Len(high)
    BY ONLY <2>1, ConcatProperties
  <2>3. \A i \in 1 .. Len(low) : (low \o high)[i] = low[i]
    BY ONLY <2>1, ConcatAt
  <2>4. \A j \in 1 .. Len(high) : (low \o high)[Len(low) + j] = high[j]
    BY ONLY <2>1, ConcatAt
  <2>5. z.free = low \o high
    BY <1>9 DEF low, high
  <2>6. Len(z.free) = s + t
    BY <1>1, <1>2, <2>1, <2>2, <2>5
  <2>7. \A i \in 1 .. t : z.free[i] = low[i]
    BY <2>1, <2>3, <2>5
  <2>8. \A j \in 1 .. s : z.free[t + j] = high[j]
    BY <2>1, <2>4, <2>5
  <2>9. \A j \in 1 .. s : high[j] = t + j
    BY <1>4 DEF high
  <2> QED
    BY <2>6, <2>7, <2>8, <2>9 DEF low
<1>12. ASSUME NEW g \in 1 .. m, NEW j \in 1 .. Len(its[g].ids)
       PROVE  z.free[TokensTo(its, g - 1) + j] = t - TokensTo(its, g) + j
  <2>1. g \in 0 .. m /\ g - 1 \in 0 .. m /\ m \in g .. m
    BY <1>1
  <2>2. TokensTo(its, g - 1) + j \in 1 .. t
    <3> DEFINE u == TokensTo(its, g - 1)
               v == TokensTo(its, g)
               y == Len(its[g].ids)
    <3>1. u \in Nat /\ v \in Nat /\ t \in Nat /\ v <= t /\ v = u + y /\ j \in 1 .. y
      BY <1>2, <2>1
    <3>2. y \in Nat
      BY PlanFacts
    <3> HIDE DEF u, v, t, y
    <3>3. u + j \in 1 .. t
      BY ONLY <3>1, <3>2
    <3> QED
      BY <3>3 DEF u
  <2> QED
    BY <1>6, <1>11, <2>2
<1>13. Len(z.free) = Room(sh, its)
  BY <1>2, <1>11
<1>14. GivenUp(sh, its, z)
  BY <1>9, <1>10, <1>11, <1>12, <1>13 DEF GivenUp
<1> QED
  BY <1>14 DEF z

LEMMA AnswerKeeps ==
  ASSUME BranchInv, Answer
  PROVE  BranchInv'
<1> DEFINE m == Len(items)
<1>1. /\ stage = "score" /\ Len(out) = m /\ PlanOf(request, shared, items)
      /\ MemoryTypes(kv, carried) /\ why = "none" /\ OutIs(shared, items, out)
      /\ ~Decides => pool = NoPool /\ size = Sized(0, 0) /\ branches = << >>
  BY DEF Answer, BranchInv, InvPlan, InvOut, InvNone, InvWhy
<1>2. /\ pool' = Free(BranchesFreed, 0) /\ stage' = "answered"
      /\ request' = request /\ shared' = shared /\ items' = items /\ size' = size /\ kv' = kv /\ carried' = carried
      /\ branches' = branches /\ out' = out /\ why' = why
  BY DEF Answer, plan, device
<1>3. Decides' = Decides
  BY <1>2 DEF Decides
<1>4. MemoryTypes(kv, carried)'
  BY <1>1, <1>2 DEF MemoryTypes
<1>5. InvPlan' /\ InvOut' /\ InvRecord' /\ InvWhy'
  <2>1. InvPlan'
    BY <1>1, <1>2, <1>3 DEF InvPlan
  <2>2. InvOut'
    BY <1>1, <1>2 DEF InvOut
  <2>3. InvRecord'
    BY <1>2 DEF InvRecord
  <2>4. InvWhy'
    BY <1>1, <1>2 DEF InvWhy, RoomEnough
  <2> QED
    BY <2>1, <2>2, <2>3, <2>4
<1>6. ASSUME ~Decides PROVE pool' = NoPool /\ size' = Sized(0, 0) /\ branches' = << >>
  <2>1. branches = << >> /\ Len(branches) = 0 /\ Len(branches) \in Nat
    BY <1>1, <1>6, EmptySeq
  <2>2. PICK r : BranchesFreed = r[Len(branches)] /\ r[0] = pool
    BY <2>1, FreedLoop
  <2>3. BranchesFreed = NoPool
    BY <1>1, <1>6, <2>1, <2>2
  <2>4. Free(NoPool, 0) = NoPool
    <3>1. NoPool.live = {}
      BY DEF NoPool, NewPool
    <3> QED
      BY <3>1 DEF Free
  <2> QED
    BY <1>1, <1>2, <1>6, <2>3, <2>4
<1>7. InvNone'
  <2>1. NoPool' = NoPool /\ Sized(0, 0)' = Sized(0, 0)
    BY DEF NoPool, NewPool, Sized
  <2> QED
    BY <1>2, <1>3, <1>6, <2>1 DEF InvNone
<1>8. ASSUME Decides PROVE size' = Sized(Room(shared, items), 1 + m) /\ GivenUp(shared, items, pool')
  <2>1. /\ size = Sized(Room(shared, items), 1 + m)
        /\ branches \in Seq(Nat) /\ Len(branches) = m /\ \A i \in 1 .. m : branches[i] = i
        /\ PoolIs(shared, items, pool, m, m)
    BY <1>1, <1>8 DEF BranchInv, InvRecord
  <2>2. m \in Nat
    BY <1>1, PlanFacts
  <2>3. PICK r : /\ BranchesFreed = r[Len(branches)] /\ r[0] = pool
                 /\ \A k \in 1 .. Len(branches) : r[k] = Free(r[k - 1], branches[k])
    BY <2>1, <2>2, FreedLoop
  <2>4. BranchesFreed = r[m] /\ \A k \in 1 .. m : r[k] = Free(r[k - 1], k)
    BY <2>1, <2>3
  <2> DEFINE I == { k \in 0 .. m : FreedTo(shared, items, k, r[k]) }
  <2>5. 0 \in I
    <3>1. 0 \in 0 .. m /\ 1 .. 0 = {} /\ 0 .. m = {0} \cup (0 + 1 .. m) /\ 0 + 1 .. m = 1 .. m
      BY <2>2
    <3>2. /\ pool \in Tables /\ pool.free = Stack(TokensTo(items, m) - TokensTo(items, m)) /\ pool.live = 0 .. m
          /\ \A id \in SeqIds : pool.slots[id] = RowAt(shared, items, m, m, id)
          /\ \A id \in SeqIds : pool.borrowed[id] = IF id \in 1 .. m THEN Len(shared) ELSE 0
      BY <2>1 DEF PoolIs
    <3>3. TokensTo(items, m) \in Nat /\ TokensTo(items, 0) = 0
      BY <1>1, PlanTokens
    <3>4. Len(pool.free) = 0
      <4>1. TokensTo(items, m) - TokensTo(items, m) = 0 /\ 0 \in Nat
        BY <3>3
      <4> QED
        BY <3>2, <4>1, StackFacts
    <3>5. FreedTo(shared, items, 0, pool)
      BY <3>1, <3>2, <3>3, <3>4 DEF FreedTo
    <3> QED
      BY <2>3, <3>1, <3>5
  <2>6. ASSUME NEW k \in 1 .. m, k - 1 \in I PROVE k \in I
    <3>1. FreedTo(shared, items, k - 1, r[k - 1])
      BY <2>6
    <3>2. FreedTo(shared, items, k, Free(r[k - 1], k))
      BY <1>1, <3>1, BranchFreed
    <3>3. k \in 0 .. m
      BY <2>2
    <3> QED
      BY <2>4, <3>2, <3>3
  <2> HIDE DEF I
  <2>7. \A k \in 0 .. m : k \in I
    BY <2>2, <2>5, <2>6, LoopInduction
  <2>8. m \in I
    BY <2>2, <2>7
  <2>9. FreedTo(shared, items, m, BranchesFreed)
    BY <2>4, <2>8 DEF I
  <2>10. GivenUp(shared, items, Free(BranchesFreed, 0))
    BY <1>1, <2>9, StateFreed
  <2> QED
    BY <1>2, <2>1, <2>10
<1>9. InvAnswered'
  BY <1>2, <1>3, <1>8 DEF InvAnswered
<1> QED
  BY <1>4, <1>5, <1>7, <1>9 DEF BranchInv

LEMMA BranchInvStep == BranchInv /\ [BranchNext]_branchvars => BranchInv'
<1> SUFFICES ASSUME BranchInv, [BranchNext]_branchvars PROVE BranchInv'
  OBVIOUS
<1>1. ASSUME NEW r \in BranchJobs, Reject(r) PROVE BranchInv'
  BY <1>1, RejectKeeps
<1>2. ASSUME NEW r \in BranchJobs, Accept(r) PROVE BranchInv'
  BY <1>2, AcceptKeeps
<1>3. CASE RunState
  BY <1>3, RunStateKeeps
<1>4. CASE ForkBranch
  BY <1>4, ForkBranchKeeps
<1>5. CASE ScoreGroup
  BY <1>5, ScoreGroupKeeps
<1>6. CASE Answer
  BY <1>6, AnswerKeeps
<1>7. CASE DeviceFails
  BY <1>7, DeviceFailsKeeps
<1>8. CASE UNCHANGED branchvars
  <2>1. /\ request' = request /\ shared' = shared /\ items' = items /\ size' = size /\ pool' = pool
        /\ kv' = kv /\ carried' = carried /\ branches' = branches /\ out' = out /\ stage' = stage /\ why' = why
    BY <1>8 DEF branchvars, plan, device
  <2>2. Decides' = Decides /\ Fitting' = Fitting /\ NoPool' = NoPool
    BY <2>1 DEF Decides, Fitting, NoPool, NewPool
  <2>3. MemoryTypes(kv, carried)'
    BY <2>1 DEF BranchInv, MemoryTypes
  <2>4. InvPlan'
    BY <2>1, <2>2 DEF BranchInv, InvPlan
  <2>5. InvOut'
    BY <2>1 DEF BranchInv, InvOut
  <2>6. InvNone'
    BY <2>1, <2>2 DEF BranchInv, InvNone, Sized
  <2>7. InvRecord'
    BY <2>1, <2>2 DEF BranchInv, InvRecord
  <2>8. InvAnswered'
    BY <2>1, <2>2 DEF BranchInv, InvAnswered
  <2>9. InvWhy'
    BY <2>1, <2>2 DEF BranchInv, InvWhy, RoomEnough
  <2> QED
    BY <2>3, <2>4, <2>5, <2>6, <2>7, <2>8, <2>9 DEF BranchInv
<1> QED
  BY <1>1, <1>2, <1>3, <1>4, <1>5, <1>6, <1>7, <1>8 DEF BranchNext

-----------------------------------------------------------------------------
(* Who has a slot: item g has those of its span, counted from above. *)
SpanOf(its, g) == TokensTo(its, Len(its)) - TokensTo(its, g) + 1 .. TokensTo(its, Len(its)) - TokensTo(its, g - 1)

LEMMA SpanFacts ==
  ASSUME NEW r, NEW sh, NEW its, PlanOf(r, sh, its), NEW g \in 1 .. Len(its)
  PROVE  /\ \A x : x \in SpanOf(its, g) =>
              /\ x \in 1 .. TokensTo(its, Len(its))
              /\ \A d \in 0 .. Len(its) : g <= d <=> x > TokensTo(its, Len(its)) - TokensTo(its, d)
         /\ \A j \in 1 .. Len(its[g].ids) :
              /\ TokensTo(its, Len(its)) - TokensTo(its, g) + j \in SpanOf(its, g)
              /\ TokensTo(its, Len(its)) - TokensTo(its, g - 1) - j + 1 \in SpanOf(its, g)
         /\ \A x \in SpanOf(its, g) :
              /\ TokensTo(its, Len(its)) - TokensTo(its, g - 1) - x + 1 \in 1 .. Len(its[g].ids)
              /\ x - (TokensTo(its, Len(its)) - TokensTo(its, g)) \in 1 .. Len(its[g].ids)
<1> DEFINE m == Len(its)
           t == TokensTo(its, m)
           a == TokensTo(its, g - 1)
           b == TokensTo(its, g)
           l == Len(its[g].ids)
<1>1. m \in Nat /\ g \in Nat /\ l \in Nat
  BY PlanFacts
<1>2. /\ \A k \in 0 .. m : TokensTo(its, k) \in Nat
      /\ \A k \in 1 .. m : TokensTo(its, k) = TokensTo(its, k - 1) + Len(its[k].ids)
      /\ \A x \in 0 .. m : \A y \in x .. m : TokensTo(its, x) <= TokensTo(its, y)
  BY PlanTokens
<1>3. g - 1 \in 0 .. m /\ g \in 0 .. m /\ m \in g .. m /\ m \in 0 .. m
  BY <1>1
<1>4. t \in Nat /\ a \in Nat /\ b \in Nat /\ b = a + l /\ b <= t
  <2>1. b <= t
    BY <1>2, <1>3
  <2> QED
    BY <1>2, <1>3, <2>1
<1>5. SpanOf(its, g) = t - b + 1 .. t - a
  BY DEF SpanOf
<1>6. ASSUME NEW x, x \in SpanOf(its, g) PROVE x \in 1 .. t
  <2> HIDE DEF t, a, b
  <2>1. x \in t - b + 1 .. t - a
    BY <1>5, <1>6
  <2> QED
    BY ONLY <1>4, <2>1
<1>7. ASSUME NEW x, x \in SpanOf(its, g), NEW d \in 0 .. m PROVE g <= d <=> x > t - TokensTo(its, d)
  <2> DEFINE e == TokensTo(its, d)
  <2>1. e \in Nat /\ d \in Nat
    BY <1>1, <1>2
  <2>2. g <= d => b <= e
    <3> SUFFICES ASSUME g <= d PROVE b <= e
      OBVIOUS
    <3>1. d \in g .. m
      BY <1>1, <2>1
    <3> QED
      BY <1>2, <1>3, <3>1
  <2>3. ~(g <= d) => e <= a
    <3> SUFFICES ASSUME ~(g <= d) PROVE e <= a
      OBVIOUS
    <3>1. g - 1 \in d .. m
      BY <1>1, <2>1
    <3> QED
      BY <1>2, <3>1
  <2> HIDE DEF e, t, a, b
  <2>4. x \in t - b + 1 .. t - a
    BY <1>5, <1>7
  <2>5. g <= d => x > t - e
    BY <1>4, <2>1, <2>2, <2>4
  <2>6. ~(g <= d) => ~(x > t - e)
    BY <1>4, <2>1, <2>3, <2>4
  <2> QED
    BY <2>5, <2>6 DEF e
<1>8. ASSUME NEW j \in 1 .. l PROVE t - b + j \in SpanOf(its, g) /\ t - a - j + 1 \in SpanOf(its, g)
  <2> HIDE DEF t, a, b, l
  <2>1. t - b + j \in t - b + 1 .. t - a /\ t - a - j + 1 \in t - b + 1 .. t - a
    BY <1>1, <1>4
  <2> QED
    BY <1>5, <2>1
<1>9. ASSUME NEW x \in SpanOf(its, g) PROVE t - a - x + 1 \in 1 .. l /\ x - (t - b) \in 1 .. l
  <2> HIDE DEF t, a, b, l
  <2>1. x \in t - b + 1 .. t - a
    BY <1>5
  <2> QED
    BY <1>1, <1>4, <2>1
<1> QED
  BY <1>6, <1>7, <1>8, <1>9

LEMMA SpansApart ==
  ASSUME NEW r, NEW sh, NEW its, PlanOf(r, sh, its), NEW g \in 1 .. Len(its), NEW h \in 1 .. Len(its),
         NEW x \in SpanOf(its, g), x \in SpanOf(its, h)
  PROVE  g = h
<1>1. Len(its) \in Nat /\ g \in 0 .. Len(its) /\ h \in 0 .. Len(its)
  BY PlanFacts
<1>2. g <= h <=> x > TokensTo(its, Len(its)) - TokensTo(its, h)
  BY <1>1, SpanFacts
<1>3. h <= g <=> x > TokensTo(its, Len(its)) - TokensTo(its, g)
  BY <1>1, SpanFacts
<1>4. (g <= g <=> x > TokensTo(its, Len(its)) - TokensTo(its, g)) /\ (h <= h <=> x > TokensTo(its, Len(its)) - TokensTo(its, h))
  BY <1>1, SpanFacts
<1>5. g <= g /\ h <= h
  BY <1>1
<1>6. g <= h /\ h <= g
  BY <1>2, <1>3, <1>4, <1>5
<1> QED
  BY <1>1, <1>6

LEMMA SpanFound ==
  ASSUME NEW r, NEW sh, NEW its, PlanOf(r, sh, its), NEW x \in 1 .. TokensTo(its, Len(its))
  PROVE  \E g \in 1 .. Len(its) : x \in SpanOf(its, g)
<1> DEFINE m == Len(its)
           t == TokensTo(its, m)
           pos == t - x + 1
<1>1. m \in Nat /\ t \in Nat /\ (\A i \in 1 .. m : Len(its[i].ids) \in Nat) /\ m \in 0 .. m
  BY PlanFacts, PlanTokens
<1>2. pos \in 1 .. t
  BY <1>1
<1> HIDE DEF pos
<1>3. PICK g \in 1 .. m : \E j \in 1 .. Len(its[g].ids) : pos = TokensTo(its, g - 1) + j
  <2> HIDE DEF m, t
  <2>1. pos \in 1 .. TokensTo(its, m) /\ Len(its) \in Nat /\ m \in 0 .. Len(its) /\ \A i \in 1 .. Len(its) : Len(its[i].ids) \in Nat
    BY <1>1, <1>2 DEF m, t
  <2> QED
    BY <2>1, TokensLocate
<1>4. PICK j \in 1 .. Len(its[g].ids) : pos = TokensTo(its, g - 1) + j
  BY <1>3
<1>5. t - TokensTo(its, g - 1) - j + 1 \in SpanOf(its, g)
  BY SpanFacts
<1>6. TokensTo(its, g - 1) \in Nat
  <2>1. g - 1 \in 0 .. m
    BY <1>1
  <2> QED
    BY <2>1, PlanTokens
<1>7. t - TokensTo(its, g - 1) - j + 1 = x
  <2> DEFINE a == TokensTo(its, g - 1)
  <2>1. a \in Nat /\ t \in Nat /\ x \in Nat /\ j \in Nat /\ t - x + 1 = a + j
    BY <1>1, <1>4, <1>6, PlanFacts DEF pos
  <2> HIDE DEF a, t
  <2>2. t - a - j + 1 = x
    BY ONLY <2>1
  <2> QED
    BY <2>2 DEF a
<1> QED
  BY <1>5, <1>7

(* A row's own slots: the state has those above the items, an item that has  *)
(* run those of its span, and no other row any.                             *)
OwnIs(sh, its, p, d, id, x) ==
  Contains(Owned(p, id), x) <=>
    \/ id = 0 /\ x \in TokensTo(its, Len(its)) + 1 .. Room(sh, its)
    \/ id \in 1 .. d /\ x \in SpanOf(its, id)

LEMMA CutNone ==
  ASSUME NEW own \in Seq(Nat), NEW n, n = Len(own)
  PROVE  Len(SubSeq(own, n + 1, n)) = 0
<1>1. n \in Nat
  BY LenProperties
<1>2. n + 1 \in 1 .. Len(own) + 1 /\ n \in 0 .. Len(own) /\ ~(n + 1 <= n)
  BY <1>1
<1>3. Len(SubSeq(own, n + 1, n)) = IF n + 1 <= n THEN n - (n + 1) + 1 ELSE 0
  BY <1>2, SliceFacts
<1> QED
  BY <1>2, <1>3

LEMMA CutWhole ==
  ASSUME NEW S, NEW own \in Seq(S)
  PROVE  SubSeq(own, 1, Len(own)) = own
<1> DEFINE n == Len(own)
           cut == SubSeq(own, 1, n)
<1>1. n \in Nat
  BY LenProperties
<1>2. 1 \in 1 .. n + 1 /\ n \in 0 .. n
  BY <1>1
<1>3. /\ cut \in Seq(S) /\ Len(cut) = IF 1 <= n THEN n - 1 + 1 ELSE 0
      /\ \A i \in 1 .. n - 1 + 1 : cut[i] = own[1 + i - 1]
  BY <1>2, SliceFacts
<1> HIDE DEF cut, n
<1>4. Len(cut) = n /\ \A i \in 1 .. n : cut[i] = own[i]
  <2>1. n - 1 + 1 = n /\ (IF 1 <= n THEN n - 1 + 1 ELSE 0) = n /\ \A i \in 1 .. n : 1 + i - 1 = i
    BY <1>1
  <2> QED
    BY <1>3, <2>1
<1>5. Len(own) = n
  BY DEF n
<1>6. cut = own
  BY <1>3, <1>4, <1>5, SeqEqual
<1> QED
  BY <1>6 DEF cut, n

LEMMA OwnedSlots ==
  ASSUME NEW r, NEW sh, NEW its, PlanOf(r, sh, its), r.kind = "decide", NEW b \in 0 .. Len(its), NEW d \in 0 .. b,
         NEW p, PoolIs(sh, its, p, b, d), NEW id \in SeqIds, NEW x
  PROVE  OwnIs(sh, its, p, d, id, x)
<1> DEFINE m == Len(its)
           t == TokensTo(its, m)
           s == Len(sh)
           own == Owned(p, id)
           state == StateSlots(sh, its)
<1>1. /\ p \in Tables /\ p.slots[id] = RowAt(sh, its, b, d, id)
      /\ p.borrowed[id] = IF id \in 1 .. b THEN s ELSE 0
  BY DEF PoolIs
<1>2. m \in Nat \ {0} /\ s \in Nat /\ t \in Nat /\ Room(sh, its) = s + t /\ d \in Nat /\ b \in Nat /\ d <= b /\ b <= m
  BY PlanFacts, PlanTokens
<1>3. own = SubSeq(p.slots[id], p.borrowed[id] + 1, Len(p.slots[id]))
  BY DEF Owned
<1>4. state \in Seq(Nat) /\ Len(state) = s /\ \A j \in 1 .. s : state[j] = s + t - j + 1
  <2> DEFINE n == s + t
  <2>1. n \in Nat /\ s \in 0 .. n /\ state = Fresh(n, s)
    BY <1>2 DEF StateSlots
  <2> HIDE DEF s, n, state
  <2>2. Fresh(n, s) \in Seq(Nat) /\ Len(Fresh(n, s)) = s /\ \A j \in 1 .. s : Fresh(n, s)[j] = n - j + 1
    BY ONLY <2>1, FreshFacts
  <2>3. \A j \in 1 .. s : n - j + 1 = s + t - j + 1
    <3> HIDE DEF t
    <3> QED
      BY <1>2 DEF n
  <2> QED
    BY <2>1, <2>2, <2>3
<1> HIDE DEF own, state
<1>5. CASE id = 0
  <2>1. ~(id \in 1 .. b) /\ ~(id \in 1 .. d)
    BY <1>2, <1>5
  <2>2. p.slots[id] = state /\ p.borrowed[id] = 0
    BY <1>1, <1>5, <2>1 DEF RowAt, state
  <2>3. own = SubSeq(state, 1, Len(state))
    BY <1>3, <2>2
  <2>4. own = state
    BY <1>4, <2>3, CutWhole
  <2>5. Contains(own, x) <=> \E j \in 1 .. s : s + t - j + 1 = x
    BY <1>4, <2>4 DEF Contains
  <2>6. (\E j \in 1 .. s : s + t - j + 1 = x) <=> x \in t + 1 .. s + t
    <3> HIDE DEF s, t
    <3>1. ASSUME x \in t + 1 .. s + t PROVE \E j \in 1 .. s : s + t - j + 1 = x
      <4> DEFINE j == s + t - x + 1
      <4>1. j \in 1 .. s /\ s + t - j + 1 = x
        BY <1>2, <3>1
      <4> QED
        BY <4>1
    <3>2. ASSUME NEW j \in 1 .. s, s + t - j + 1 = x PROVE x \in t + 1 .. s + t
      BY <1>2, <3>2
    <3> QED
      BY <3>1, <3>2
  <2> QED
    BY <1>2, <1>5, <2>1, <2>5, <2>6 DEF OwnIs, own
<1>6. CASE id \in 1 .. d
  <2>1. id \in 1 .. b /\ id # 0 /\ id \in 1 .. m
    BY <1>2, <1>6
  <2> DEFINE mine == ItemSlotsOf(its, id)
             l == Len(its[id].ids)
             a == TokensTo(its, id - 1)
  <2>2. p.slots[id] = state \o mine /\ p.borrowed[id] = s
    BY <1>1, <1>6, <2>1 DEF RowAt, state
  <2>3. /\ SubSeq(state \o mine, s + 1, s + l) = mine /\ Len(state \o mine) = s + l
        /\ mine \in Seq(Nat) /\ Len(mine) = l
    BY <2>1, ItemOwns DEF state
  <2>4. own = mine
    BY <1>3, <2>2, <2>3
  <2>5. l \in Nat /\ a \in Nat /\ t - a \in Nat /\ l \in 0 .. t - a
    <3>1. l \in Nat /\ id - 1 \in 0 .. m /\ id \in 0 .. m /\ m \in id .. m
      BY <1>2, <2>1, PlanFacts
    <3>2. /\ \A k \in 0 .. m : TokensTo(its, k) \in Nat
          /\ \A k \in 1 .. m : TokensTo(its, k) = TokensTo(its, k - 1) + Len(its[k].ids)
          /\ \A x1 \in 0 .. m : \A y \in x1 .. m : TokensTo(its, x1) <= TokensTo(its, y)
      BY PlanTokens
    <3>3. TokensTo(its, id) <= t /\ TokensTo(its, id) = a + l /\ TokensTo(its, id) \in Nat /\ a \in Nat
      BY <2>1, <3>1, <3>2
    <3> HIDE DEF l, a, t
    <3> QED
      BY <1>2, <3>1, <3>3
  <2>6. \A j \in 1 .. l : mine[j] = t - a - j + 1
    <3>1. mine = Fresh(t - a, l)
      BY DEF ItemSlotsOf
    <3> HIDE DEF mine, t, a, l
    <3> QED
      BY <2>5, <3>1, FreshFacts
  <2>7. ASSUME Contains(own, x) PROVE x \in SpanOf(its, id)
    <3>1. PICK j \in 1 .. l : mine[j] = x
      BY <2>3, <2>4, <2>7 DEF Contains
    <3>2. t - a - j + 1 \in SpanOf(its, id)
      BY <2>1, SpanFacts
    <3> QED
      BY <2>6, <3>1, <3>2
  <2>8. ASSUME x \in SpanOf(its, id) PROVE Contains(own, x)
    <3> DEFINE j == t - a - x + 1
    <3>1. j \in 1 .. l /\ x \in 1 .. t
      BY <2>1, <2>8, SpanFacts
    <3>2. t - a - j + 1 = x
      <4> HIDE DEF t, a, l
      <4>1. x \in Nat
        BY <1>2, <3>1
      <4> QED
        BY <1>2, <2>5, <4>1
    <3>3. mine[j] = x
      BY <2>6, <3>1, <3>2
    <3> QED
      BY <2>3, <2>4, <3>1, <3>3 DEF Contains
  <2> QED
    BY <1>6, <2>1, <2>7, <2>8 DEF OwnIs, own
<1>7. CASE id # 0 /\ ~(id \in 1 .. d)
  <2>1. Len(own) = 0
    <3>1. CASE id \in 1 .. b
      <4>1. p.slots[id] = state /\ p.borrowed[id] = s
        BY <1>1, <1>7, <3>1 DEF RowAt, state
      <4>2. own = SubSeq(state, s + 1, s)
        BY <1>3, <1>4, <4>1
      <4> QED
        BY <1>4, <4>2, CutNone
    <3>2. CASE ~(id \in 1 .. b)
      <4>1. p.slots[id] = << >> /\ p.borrowed[id] = 0
        BY <1>1, <1>7, <3>2 DEF RowAt
      <4>2. own = SubSeq(<< >>, 0 + 1, 0) /\ << >> \in Seq(Nat) /\ Len(<< >>) = 0
        BY <1>3, <4>1, EmptySeq
      <4> QED
        BY <4>2, CutNone
    <3> QED
      BY <3>1, <3>2
  <2>2. ~Contains(own, x)
    BY <2>1 DEF Contains
  <2> QED
    BY <1>7, <2>2 DEF OwnIs, own
<1> QED
  BY <1>5, <1>6, <1>7

(* A pool whose slots 1 .. n are each free once or some one row's own. *)
RowsWith(p, x) == { id \in SeqIds : Contains(Owned(p, id), x) }
WholeTo(p, n) ==
  /\ \A x \in 1 .. n : (IF Contains(p.free, x) THEN 1 ELSE 0) + Cardinality(RowsWith(p, x)) = 1
  /\ IsInjective(p.free)

LEMMA RecordWhole ==
  ASSUME NEW r, NEW sh, NEW its, PlanOf(r, sh, its), r.kind = "decide", NEW b \in 0 .. Len(its), NEW d \in 0 .. b,
         NEW p, PoolIs(sh, its, p, b, d)
  PROVE  WholeTo(p, Room(sh, its))
<1> DEFINE m == Len(its)
           t == TokensTo(its, m)
           s == Len(sh)
           f == t - TokensTo(its, d)
<1>1. /\ m \in Nat \ {0} /\ m < MaxSeqs /\ s \in Nat /\ t \in Nat /\ Room(sh, its) = s + t
      /\ d \in Nat /\ b \in Nat /\ d <= b /\ b <= m /\ d \in 0 .. m
  BY PlanFacts, PlanTokens
<1>2. f \in Nat /\ f <= t
  <2>1. m \in d .. m
    BY <1>1
  <2>2. TokensTo(its, d) <= t /\ TokensTo(its, d) \in Nat
    BY <1>1, <2>1, PlanTokens
  <2> HIDE DEF t
  <2> QED
    BY <1>1, <2>2
<1>3. p.free = Stack(f)
  BY DEF PoolIs
<1> HIDE DEF f
<1>4. Len(p.free) = f /\ DOMAIN p.free = 1 .. f /\ \A i \in 1 .. f : p.free[i] = i
  <2>1. Stack(f) \in Seq(Nat) /\ Len(Stack(f)) = f /\ \A i \in 1 .. f : Stack(f)[i] = i
    BY <1>2, StackFacts
  <2>2. DOMAIN Stack(f) = 1 .. Len(Stack(f))
    BY <2>1, LenProperties
  <2> QED
    BY <1>3, <2>1, <2>2
<1>5. IsInjective(p.free)
  BY <1>4 DEF IsInjective
<1>6. \A x : Contains(p.free, x) <=> x \in 1 .. f
  BY <1>4 DEF Contains
<1>7. \A x : \A id \in SeqIds : OwnIs(sh, its, p, d, id, x)
  BY OwnedSlots
<1>8. 0 \in SeqIds /\ \A g \in 1 .. d : g \in SeqIds
  BY <1>1, PoolSizes DEF SeqIds
<1>9. \A g \in 1 .. d : g \in 1 .. m /\ g # 0 /\ g <= d
  BY <1>1
<1>10. ASSUME NEW x \in 1 .. Room(sh, its)
       PROVE  (IF Contains(p.free, x) THEN 1 ELSE 0) + Cardinality(RowsWith(p, x)) = 1
  <2>1. CASE x \in 1 .. f
    <3>1. ~(x \in t + 1 .. Room(sh, its))
      <4> HIDE DEF t
      <4> QED
        BY <1>1, <1>2, <2>1
    <3>2. \A g \in 1 .. d : ~(x \in SpanOf(its, g))
      <4> SUFFICES ASSUME NEW g \in 1 .. d, x \in SpanOf(its, g) PROVE FALSE
        OBVIOUS
      <4>1. g \in 1 .. m /\ g <= d
        BY <1>9
      <4>2. x > f
        BY <1>1, <4>1, SpanFacts DEF f
      <4> QED
        BY <1>2, <2>1, <4>2
    <3>3. RowsWith(p, x) = {}
      BY <1>7, <3>1, <3>2 DEF RowsWith, OwnIs
    <3>4. Cardinality(RowsWith(p, x)) = 0
      BY <3>3, FS_EmptySet
    <3> QED
      BY <1>6, <2>1, <3>4
  <2>2. CASE x \in t + 1 .. Room(sh, its)
    <3>1. ~(x \in 1 .. f) /\ ~(x \in 1 .. t)
      <4> HIDE DEF t
      <4> QED
        BY <1>1, <1>2, <2>2
    <3>2. \A g \in 1 .. d : ~(x \in SpanOf(its, g))
      <4> SUFFICES ASSUME NEW g \in 1 .. d, x \in SpanOf(its, g) PROVE FALSE
        OBVIOUS
      <4>1. x \in 1 .. t
        BY <1>9, SpanFacts
      <4> QED
        BY <3>1, <4>1
    <3>3. RowsWith(p, x) = {0}
      BY <1>7, <1>8, <2>2, <3>2 DEF RowsWith, OwnIs
    <3>4. Cardinality(RowsWith(p, x)) = 1
      BY <3>3, FS_Singleton
    <3> QED
      BY <1>6, <3>1, <3>4
  <2>3. CASE x \in f + 1 .. t
    <3>1. ~(x \in 1 .. f) /\ ~(x \in t + 1 .. Room(sh, its)) /\ x \in 1 .. t /\ x > f
      <4> HIDE DEF t
      <4> QED
        BY <1>1, <1>2, <2>3
    <3>2. PICK g \in 1 .. m : x \in SpanOf(its, g)
      BY <3>1, SpanFound
    <3>3. g <= d
      BY <1>1, <3>1, <3>2, SpanFacts DEF f
    <3>4. g \in 1 .. d
      BY <1>1, <3>3
    <3>5. \A h \in 1 .. d : x \in SpanOf(its, h) => h = g
      BY <1>9, <3>2, SpansApart
    <3>6. RowsWith(p, x) = {g}
      BY <1>7, <1>8, <3>1, <3>2, <3>4, <3>5 DEF RowsWith, OwnIs
    <3>7. Cardinality(RowsWith(p, x)) = 1
      BY <3>6, FS_Singleton
    <3> QED
      BY <1>6, <3>1, <3>7
  <2>4. x \in 1 .. f \/ x \in t + 1 .. Room(sh, its) \/ x \in f + 1 .. t
    <3> HIDE DEF t
    <3> QED
      BY <1>1, <1>2
  <2> QED
    BY <2>1, <2>2, <2>3, <2>4
<1> QED
  BY <1>5, <1>10 DEF WholeTo

LEMMA GivenUpWhole ==
  ASSUME NEW r, NEW sh, NEW its, PlanOf(r, sh, its), NEW p, GivenUp(sh, its, p)
  PROVE  WholeTo(p, Room(sh, its))
<1> DEFINE m == Len(its)
           t == TokensTo(its, m)
           s == Len(sh)
<1>1. m \in Nat \ {0} /\ s \in Nat /\ t \in Nat /\ Room(sh, its) = s + t
  BY PlanFacts, PlanTokens
<1>2. /\ p \in Tables /\ Len(p.free) = Room(sh, its) /\ \A id \in SeqIds : p.slots[id] = << >> /\ p.borrowed[id] = 0
      /\ \A g \in 1 .. m : \A j \in 1 .. Len(its[g].ids) :
           p.free[TokensTo(its, g - 1) + j] = t - TokensTo(its, g) + j
      /\ \A j \in 1 .. s : p.free[t + j] = t + j
  BY DEF GivenUp
<1>3. DOMAIN p.free = 1 .. s + t
  <2>1. p.free \in Seq(Nat)
    BY <1>2 DEF Tables
  <2> QED
    BY <1>1, <1>2, <2>1, LenProperties
<1>4. \A g \in 1 .. m : /\ Len(its[g].ids) \in Nat /\ TokensTo(its, g - 1) \in Nat /\ TokensTo(its, g) \in Nat
                        /\ TokensTo(its, g) = TokensTo(its, g - 1) + Len(its[g].ids) /\ TokensTo(its, g) <= t
  <2> SUFFICES ASSUME NEW g \in 1 .. m
               PROVE  /\ Len(its[g].ids) \in Nat /\ TokensTo(its, g - 1) \in Nat /\ TokensTo(its, g) \in Nat
                      /\ TokensTo(its, g) = TokensTo(its, g - 1) + Len(its[g].ids) /\ TokensTo(its, g) <= t
    OBVIOUS
  <2>1. g - 1 \in 0 .. m /\ g \in 0 .. m /\ m \in g .. m
    BY <1>1
  <2> QED
    BY <2>1, PlanFacts, PlanTokens
<1>5. \A x \in SeqIds : Len(Owned(p, x)) = 0
  <2> SUFFICES ASSUME NEW id \in SeqIds PROVE Len(Owned(p, id)) = 0
    OBVIOUS
  <2>1. Owned(p, id) = SubSeq(<< >>, 0 + 1, 0) /\ << >> \in Seq(Nat) /\ Len(<< >>) = 0
    BY <1>2, EmptySeq DEF Owned
  <2> QED
    BY <2>1, CutNone
<1>6. \A x : RowsWith(p, x) = {}
  BY <1>5 DEF RowsWith, Contains
<1>7. ASSUME NEW x \in 1 .. Room(sh, its) PROVE Contains(p.free, x)
  <2>1. CASE x \in 1 .. t
    <3>1. PICK g \in 1 .. m : x \in SpanOf(its, g)
      BY <2>1, SpanFound
    <3> DEFINE j == x - (t - TokensTo(its, g))
               i == TokensTo(its, g - 1) + j
    <3>2. j \in 1 .. Len(its[g].ids)
      BY <3>1, SpanFacts
    <3>3. p.free[i] = t - TokensTo(its, g) + j
      BY <1>2, <3>2
    <3>4. t - TokensTo(its, g) + j = x /\ i \in 1 .. s + t
      <4> DEFINE a == TokensTo(its, g - 1)
                 c == TokensTo(its, g)
                 l == Len(its[g].ids)
      <4>1. a \in Nat /\ c \in Nat /\ l \in Nat /\ c = a + l /\ c <= t
        BY <1>4
      <4>2. x \in Nat /\ j \in 1 .. l
        BY <1>1, <2>1, <3>2
      <4>3. j = x - (t - c) /\ i = a + j
        OBVIOUS
      <4> HIDE DEF a, c, l, t, i, j
      <4>4. t - c + j = x /\ i \in 1 .. s + t
        BY <1>1, <4>1, <4>2, <4>3
      <4> QED
        BY <4>4 DEF c
    <3>5. p.free[i] = x /\ i \in 1 .. Len(p.free)
      BY <1>1, <1>2, <3>3, <3>4
    <3> HIDE DEF i
    <3> QED
      BY <3>5 DEF Contains
  <2>2. CASE ~(x \in 1 .. t)
    <3> DEFINE j == x - t
    <3>1. j \in 1 .. s /\ t + j = x /\ t + j \in 1 .. s + t
      <4> HIDE DEF t
      <4> QED
        BY <1>1, <2>2
    <3>2. p.free[t + j] = t + j
      BY <1>2, <3>1
    <3>3. p.free[x] = x /\ x \in 1 .. Len(p.free)
      BY <1>1, <1>2, <3>1, <3>2
    <3> QED
      BY <3>3 DEF Contains
  <2> QED
    BY <2>1, <2>2
<1>8. ASSUME NEW i \in 1 .. s + t
      PROVE  \/ /\ i \in t + 1 .. s + t /\ p.free[i] = i
             \/ \E g \in 1 .. m : \E j \in 1 .. Len(its[g].ids) :
                  /\ i = TokensTo(its, g - 1) + j /\ p.free[i] = t - TokensTo(its, g) + j
                  /\ p.free[i] \in SpanOf(its, g)
  <2>1. CASE i \in 1 .. t
    <3>1. Len(its) \in Nat /\ m \in 0 .. Len(its) /\ (\A k \in 1 .. Len(its) : Len(its[k].ids) \in Nat) /\ i \in 1 .. TokensTo(its, m)
      BY <1>1, <1>4, <2>1
    <3>2. PICK g \in 1 .. m : \E j \in 1 .. Len(its[g].ids) : i = TokensTo(its, g - 1) + j
      BY <3>1, TokensLocate
    <3>3. PICK j \in 1 .. Len(its[g].ids) : i = TokensTo(its, g - 1) + j
      BY <3>2
    <3>4. p.free[i] = t - TokensTo(its, g) + j
      BY <1>2, <3>3
    <3>5. t - TokensTo(its, g) + j \in SpanOf(its, g)
      BY SpanFacts
    <3> QED
      BY <3>3, <3>4, <3>5
  <2>2. CASE ~(i \in 1 .. t)
    <3> DEFINE j == i - t
    <3>1. j \in 1 .. s /\ t + j = i /\ i \in t + 1 .. s + t
      <4> HIDE DEF t
      <4> QED
        BY <1>1, <2>2
    <3>2. p.free[t + j] = t + j
      BY <1>2, <3>1
    <3> QED
      BY <3>1, <3>2
  <2> QED
    BY <2>1, <2>2
<1>9. ASSUME NEW i \in 1 .. s + t, NEW k \in 1 .. s + t, p.free[i] = p.free[k] PROVE i = k
  <2>1. \A g \in 1 .. m : \A x \in SpanOf(its, g) : x \in 1 .. t
    BY SpanFacts
  <2>2. \A x \in 1 .. t : ~(x \in t + 1 .. s + t)
    <3> HIDE DEF t
    <3> QED
      BY <1>1
  <2>3. CASE i \in t + 1 .. s + t /\ p.free[i] = i
    <3>1. p.free[k] = k
      BY <1>8, <1>9, <2>1, <2>2, <2>3
    <3> QED
      BY <1>9, <2>3, <3>1
  <2>4. CASE k \in t + 1 .. s + t /\ p.free[k] = k
    <3>1. p.free[i] = i
      BY <1>8, <1>9, <2>1, <2>2, <2>4
    <3> QED
      BY <1>9, <2>4, <3>1
  <2>5. CASE ~(i \in t + 1 .. s + t /\ p.free[i] = i) /\ ~(k \in t + 1 .. s + t /\ p.free[k] = k)
    <3>1. PICK g \in 1 .. m : \E j \in 1 .. Len(its[g].ids) :
            i = TokensTo(its, g - 1) + j /\ p.free[i] = t - TokensTo(its, g) + j /\ p.free[i] \in SpanOf(its, g)
      BY <1>8, <2>5
    <3>2. PICK h \in 1 .. m : \E q \in 1 .. Len(its[h].ids) :
            k = TokensTo(its, h - 1) + q /\ p.free[k] = t - TokensTo(its, h) + q /\ p.free[k] \in SpanOf(its, h)
      BY <1>8, <2>5
    <3>3. g = h
      BY <1>9, <3>1, <3>2, SpansApart
    <3>4. PICK j \in 1 .. Len(its[g].ids) : i = TokensTo(its, g - 1) + j /\ p.free[i] = t - TokensTo(its, g) + j
      BY <3>1
    <3>5. PICK q \in 1 .. Len(its[g].ids) : k = TokensTo(its, g - 1) + q /\ p.free[k] = t - TokensTo(its, g) + q
      BY <3>2, <3>3
    <3>6. t - TokensTo(its, g) + j = t - TokensTo(its, g) + q
      BY <1>9, <3>4, <3>5
    <3>7. j = q
      <4> DEFINE c == TokensTo(its, g)
      <4>1. c \in Nat /\ j \in Nat /\ q \in Nat
        BY <1>4
      <4>2. t - c + j = t - c + q
        BY <3>6
      <4> HIDE DEF c, t
      <4> QED
        BY <1>1, <4>1, <4>2
    <3> QED
      BY <3>4, <3>5, <3>7
  <2> QED
    BY <2>3, <2>4, <2>5
<1>10. IsInjective(p.free)
  BY <1>3, <1>9 DEF IsInjective
<1>11. ASSUME NEW x \in 1 .. Room(sh, its)
       PROVE  (IF Contains(p.free, x) THEN 1 ELSE 0) + Cardinality(RowsWith(p, x)) = 1
  <2>1. Cardinality(RowsWith(p, x)) = 0
    BY <1>6, FS_EmptySet
  <2> QED
    BY <1>7, <2>1
<1> QED
  BY <1>10, <1>11 DEF WholeTo

LEMMA PoolWholeHolds == BranchInv => PoolWhole
<1> SUFFICES ASSUME BranchInv PROVE PoolWhole
  OBVIOUS
<1>1. \A x : OwnersOf(x) = RowsWith(pool, x)
  BY DEF OwnersOf, RowsWith
<1>2. CASE stage \in {"idle", "state", "failed"} \/ ~Decides
  <2>1. pool = NoPool /\ size = Sized(0, 0)
    BY <1>2 DEF BranchInv, InvNone
  <2>2. pool.free = << >> /\ pool.live = {} /\ size.slots = 0 /\ Len(pool.free) = 0 /\ DOMAIN pool.free = {}
    BY <2>1, EmptySeq DEF NoPool, NewPool, Sized
  <2>3. stage \in {"fork", "score"} => \A i \in DOMAIN branches :
          SubSeq(pool.slots[branches[i]], 1, pool.borrowed[branches[i]]) = pool.slots[0]
    <3>1. stage \in {"fork", "score"} => DOMAIN branches = {}
      BY <1>2 DEF BranchInv, InvNone
    <3> QED
      BY <3>1
  <2>4. 1 .. size.slots = {}
    BY <2>2
  <2> QED
    BY <2>2, <2>3, <2>4 DEF PoolWhole, IsInjective
<1>3. CASE stage \in {"fork", "score"} /\ Decides
  <2>1. /\ size = Sized(Room(shared, items), 1 + Len(items)) /\ PlanOf(request, shared, items)
        /\ branches \in Seq(Nat) /\ Len(branches) <= Len(items) /\ \A i \in 1 .. Len(branches) : branches[i] = i
        /\ PoolIs(shared, items, pool, Len(branches), Len(out))
    BY <1>3 DEF BranchInv, InvRecord, InvPlan
  <2>2. request.kind = "decide"
    BY <1>3 DEF Decides
  <2>3. Len(items) \in Nat /\ Len(items) < MaxSeqs /\ Len(branches) \in Nat /\ Len(out) \in Nat /\ shared \in Seq(TokenIds)
    <3>1. out \in Seq(Seq(Views))
      BY DEF BranchInv, InvOut, OutIs
    <3> QED
      BY <2>1, <3>1, PlanFacts, LenProperties
  <2>4. Len(out) <= Len(branches)
    <3>1. CASE stage = "fork"
      <4>1. Len(out) = 0
        BY <3>1 DEF BranchInv, InvOut
      <4> QED
        BY <2>3, <4>1
    <3>2. CASE stage = "score"
      BY <1>3, <3>2 DEF BranchInv, InvOut, InvRecord
    <3> QED
      BY <1>3, <3>1, <3>2
  <2>5. Len(branches) \in 0 .. Len(items) /\ Len(out) \in 0 .. Len(branches)
    BY <2>1, <2>3, <2>4
  <2>6. WholeTo(pool, Room(shared, items))
    BY <2>1, <2>2, <2>5, RecordWhole
  <2>7. ASSUME NEW i \in DOMAIN branches
        PROVE  SubSeq(pool.slots[branches[i]], 1, pool.borrowed[branches[i]]) = pool.slots[0]
    <3> DEFINE b == Len(branches)
               d == Len(out)
               state == StateSlots(shared, items)
    <3>1. i \in 1 .. b /\ branches[i] = i
      BY <2>1, LenProperties
    <3>2. i \in SeqIds /\ 0 \in SeqIds /\ ~(0 \in 1 .. d) /\ ~(0 \in 1 .. b) /\ i # 0 /\ i \in 1 .. Len(items)
      BY <2>1, <2>3, <3>1, PoolSizes DEF SeqIds
    <3>3. /\ pool.slots[0] = RowAt(shared, items, b, d, 0) /\ pool.slots[i] = RowAt(shared, items, b, d, i)
          /\ pool.borrowed[i] = Len(shared)
      BY <2>1, <3>1, <3>2 DEF PoolIs
    <3>4. /\ state \in Seq(Nat) /\ Len(state) = Len(shared)
          /\ ItemSlotsOf(items, i) \in Seq(Nat)
      BY <2>1, <3>2, ItemOwns
    <3>5. pool.slots[0] = state
      BY <3>3 DEF RowAt
    <3> HIDE DEF state
    <3>6. CASE i \in 1 .. d
      <4> DEFINE mine == ItemSlotsOf(items, i)
                 all == state \o mine
                 s == Len(shared)
                 cut == SubSeq(all, 1, s)
      <4>1. pool.slots[i] = all
        BY <3>2, <3>3, <3>6 DEF RowAt, state
      <4>2. s \in Nat
        BY <2>3, LenProperties
      <4>3. mine \in Seq(Nat) /\ state \in Seq(Nat) /\ Len(state) = s
        BY <3>4
      <4> HIDE DEF mine, s
      <4>4. /\ all \in Seq(Nat) /\ Len(all) = s + Len(mine) /\ Len(mine) \in Nat
            /\ \A j \in 1 .. s : all[j] = state[j]
        <5>1. /\ state \o mine \in Seq(Nat) /\ Len(state \o mine) = Len(state) + Len(mine) /\ Len(mine) \in Nat
              /\ \A j \in 1 .. Len(state) : (state \o mine)[j] = state[j]
          BY ONLY <4>3, ConcatAt
        <5> QED
          BY <4>3, <5>1
      <4> HIDE DEF all
      <4>5. 1 \in 1 .. Len(all) + 1 /\ s \in 0 .. Len(all)
        BY <4>2, <4>4
      <4>6. /\ cut \in Seq(Nat) /\ Len(cut) = IF 1 <= s THEN s - 1 + 1 ELSE 0
            /\ \A j \in 1 .. s - 1 + 1 : cut[j] = all[1 + j - 1]
        BY <4>4, <4>5, SliceFacts
      <4> HIDE DEF cut
      <4>7. s - 1 + 1 = s /\ (IF 1 <= s THEN s - 1 + 1 ELSE 0) = s /\ \A j \in 1 .. s : 1 + j - 1 = j
        BY <4>2
      <4>8. Len(cut) = s /\ Len(state) = s /\ \A j \in 1 .. s : cut[j] = state[j]
        BY <3>4, <4>4, <4>6, <4>7 DEF s
      <4>9. cut = state
        BY <3>4, <4>6, <4>8, SeqEqual
      <4> QED
        BY <3>1, <3>3, <3>5, <4>1, <4>9 DEF cut, s
    <3>7. CASE ~(i \in 1 .. d)
      <4>1. pool.slots[i] = state
        BY <3>1, <3>2, <3>3, <3>7 DEF RowAt, state
      <4>2. SubSeq(state, 1, Len(state)) = state
        BY <3>4, CutWhole
      <4> QED
        BY <3>1, <3>3, <3>4, <3>5, <4>1, <4>2
    <3> QED
      BY <3>6, <3>7
  <2>8. size.slots = Room(shared, items)
    BY <2>1 DEF Sized
  <2> QED
    BY <1>1, <1>3, <2>6, <2>7, <2>8 DEF PoolWhole, WholeTo
<1>4. CASE stage = "answered" /\ Decides
  <2>1. /\ size = Sized(Room(shared, items), 1 + Len(items)) /\ PlanOf(request, shared, items)
        /\ GivenUp(shared, items, pool)
    BY <1>4 DEF BranchInv, InvAnswered, InvPlan
  <2>2. WholeTo(pool, Room(shared, items))
    BY <2>1, GivenUpWhole
  <2>3. size.slots = Room(shared, items) /\ Len(pool.free) = Room(shared, items) /\ pool.live = {}
    BY <2>1 DEF Sized, GivenUp
  <2> QED
    BY <1>1, <1>4, <2>2, <2>3 DEF PoolWhole, WholeTo
<1> QED
  BY <1>2, <1>3, <1>4 DEF BranchInv, InvPlan

LEMMA AnswersOwnTextHolds == BranchInv => AnswersOwnText
<1> SUFFICES ASSUME BranchInv PROVE AnswersOwnText
  OBVIOUS
<1>1. OutIs(shared, items, out)
  BY DEF BranchInv, InvOut
<1>2. DOMAIN out = 1 .. Len(out) /\ Len(out) \in Nat
  BY <1>1, LenProperties DEF OutIs
<1>3. stage = "answered" => Len(out) = Len(request.texts)
  <2>1. stage = "answered" => PlanOf(request, shared, items) /\ Len(out) = Len(items)
    BY DEF BranchInv, InvPlan, InvOut
  <2> QED
    BY <2>1, PlanFacts
<1>4. ASSUME NEW i \in DOMAIN out, NEW k \in DOMAIN items[i].picks
      PROVE  out[i][k] = [attended |-> Expected(i, k), carried |-> Expected(i, k)]
  <2>1. PlanOf(request, shared, items) /\ Len(out) <= Len(items)
    <3>1. out # << >>
      BY <1>4
    <3>2. PlanOf(request, shared, items)
      BY <3>1 DEF BranchInv, InvPlan
    <3> QED
      BY <3>1, <3>2 DEF BranchInv, InvOut
  <2>2. i \in 1 .. Len(items)
    BY <1>2, <1>4, <2>1, PlanFacts
  <2>3. items[i].picks \in Seq(Nat)
    BY <2>1, <2>2, PlanFacts
  <2>4. k \in 1 .. Len(items[i].picks)
    BY <1>4, <2>3, LenProperties
  <2>5. out[i][k] = Sees(shared, shared, items[i].ids, items[i].picks[k])
    BY <1>1, <1>2, <1>4, <2>4 DEF OutIs
  <2> QED
    BY <2>5 DEF Sees, Expected
<1> QED
  BY <1>3, <1>4 DEF AnswersOwnText

-----------------------------------------------------------------------------
(* Where each pick is answered the model had seen the state and the item up  *)
(* to the pick, whatever shares the pass, and the device as its rows.       *)
THEOREM AnswersAreOwn == BranchSpec => []AnswersOwnText
<1>1. BranchInit => BranchInv
  BY BranchInvInit
<1>2. BranchInv /\ [BranchNext]_branchvars => BranchInv'
  BY BranchInvStep
<1>3. BranchInv => AnswersOwnText
  BY AnswersOwnTextHolds
<1> QED
  BY <1>1, <1>2, <1>3, PTL DEF BranchSpec

(* No slot of a record's pool is lost or has two owners while its branches   *)
(* fork, run and are freed in front of the state they borrow from.          *)
THEOREM BranchPoolsWhole == BranchSpec => []PoolWhole
<1>1. BranchInit => BranchInv
  BY BranchInvInit
<1>2. BranchInv /\ [BranchNext]_branchvars => BranchInv'
  BY BranchInvStep
<1>3. BranchInv => PoolWhole
  BY PoolWholeHolds
<1> QED
  BY <1>1, <1>2, <1>3, PTL DEF BranchSpec

(* Slots and rows counted before a job runs are enough for all it runs: what *)
(* fits a pass and a sequence never fails for room in the pool.             *)
THEOREM BranchPoolsLargeEnough == BranchSpec => []RoomEnough
<1>1. BranchInit => BranchInv
  BY BranchInvInit
<1>2. BranchInv /\ [BranchNext]_branchvars => BranchInv'
  BY BranchInvStep
<1>3. BranchInv => RoomEnough
  BY DEF BranchInv, InvWhy
<1> QED
  BY <1>1, <1>2, <1>3, PTL DEF BranchSpec

=============================================================================

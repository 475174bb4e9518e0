---------------------------- MODULE Stream_proofs ----------------------------
(***************************************************************************)
(* Reply: StreamAgrees for any bytes, stop strings, tokens and tools. What *)
(* a chat handler streams event by event is compared with one scan of the  *)
(* whole text, in three parts.                                             *)
(*                                                                         *)
(* The scan of a text that has its first marker behind its first k          *)
(* characters is the scan of what is behind them (ScanBehind), and without  *)
(* a marker it finds no calls (ScanNone).                                  *)
(*                                                                         *)
(* The channel carries the text between what the handler has and what was  *)
(* sent, and the event of its end last of all (Delivers).                   *)
(*                                                                         *)
(* What chat_stream has let out never holds the beginning of a marker      *)
(* (HoldsBack), so that what it scans at the end begins at the first one.   *)
(***************************************************************************)
EXTENDS Requests_proofs

-----------------------------------------------------------------------------
(* Tool calls. What `scan` reads of a text from a place on does not depend   *)
(* on what is before that place: everything moves with it.                  *)
LEMMA MarkerText == Marker \in Text /\ Len(Marker) = 2 /\ Marker # << >> /\ {Marker} \in SUBSET Text
<1>1. "<tool" \in Char /\ "_call>" \in Char
  BY DEF Char
<1> HIDE DEF Char
<1>2. << "<tool", "_call>" >> \in Seq(Char) /\ Len(<< "<tool", "_call>" >>) = 2
  BY <1>1
<1>3. Marker \in Text /\ Len(Marker) = 2
  BY <1>2 DEF Marker, Text
<1>4. Marker # << >>
  BY DEF Marker
<1> QED
  BY <1>3, <1>4

IsPlace(text, start, tag, r) ==
  /\ r \in 1 .. Len(text) + 1
  /\ r <= Len(text) => start <= r /\ text[r] = tag
  /\ \A i \in start .. Len(text) : text[i] = tag => r <= i

LEMMA FindFacts ==
  ASSUME NEW text \in Text, NEW start \in Nat \ {0}, NEW tag
  PROVE  IsPlace(text, start, tag, Find(text, start, tag))
<1> DEFINE n == Len(text)
           places == { i \in start .. n : text[i] = tag }
<1>1. n \in Nat
  BY TextFacts
<1>2. Find(text, start, tag) = IF places = {} THEN n + 1 ELSE Min(places)
  BY DEF Find
<1>3. places \subseteq 0 .. n /\ \A i : i \in places <=> i \in start .. n /\ text[i] = tag
  BY <1>1
<1> HIDE DEF n, places
<1>4. CASE places = {}
  <2>1. Find(text, start, tag) = n + 1
    BY <1>2, <1>4
  <2>2. n + 1 \in 1 .. n + 1 /\ ~(n + 1 <= n)
    BY <1>1
  <2> QED
    BY <1>3, <1>4, <2>1, <2>2 DEF IsPlace, n
<1>5. CASE places # {}
  <2>1. Find(text, start, tag) = Min(places)
    BY <1>2, <1>5
  <2>2. Min(places) \in places /\ \A y \in places : Min(places) <= y
    BY <1>1, <1>3, <1>5, MinFacts
  <2>3. \A r \in start .. n : r \in 1 .. n + 1 /\ start <= r
    BY <1>1
  <2> QED
    BY <1>3, <2>1, <2>2, <2>3 DEF IsPlace, n
<1> QED
  BY <1>4, <1>5

(* There is one such place. *)
LEMMA PlaceUnique ==
  ASSUME NEW text \in Text, NEW start \in Nat \ {0}, NEW tag, NEW r, NEW s,
         IsPlace(text, start, tag, r), IsPlace(text, start, tag, s)
  PROVE  r = s
<1> DEFINE n == Len(text)
<1>1. n \in Nat
  BY TextFacts
<1>2. /\ r \in 1 .. n + 1 /\ s \in 1 .. n + 1
      /\ r <= n => start <= r /\ text[r] = tag
      /\ s <= n => start <= s /\ text[s] = tag
      /\ \A i \in start .. n : text[i] = tag => r <= i
      /\ \A i \in start .. n : text[i] = tag => s <= i
  BY DEF IsPlace
<1> HIDE DEF n
<1>3. r <= n => s <= r
  BY <1>1, <1>2
<1>4. s <= n => r <= s
  BY <1>1, <1>2
<1> QED
  BY <1>1, <1>2, <1>3, <1>4

(* A text `t` that is `y` behind k other characters. *)
Behind(t, y, k) ==
  /\ k \in Nat /\ t \in Text /\ y \in Text
  /\ Len(t) = k + Len(y)
  /\ \A i \in 1 .. Len(y) : t[k + i] = y[i]

LEMMA CatBehind ==
  ASSUME NEW x \in Text, NEW y \in Text
  PROVE  Behind(Cat(x, y), y, Len(x))
BY CatPlaces, TextFacts DEF Behind

LEMMA FindBehind ==
  ASSUME NEW t, NEW y, NEW k, Behind(t, y, k), NEW p \in Nat \ {0}, NEW tag
  PROVE  /\ Find(t, k + p, tag) = k + Find(y, p, tag)
         /\ IsPlace(y, p, tag, Find(y, p, tag))
<1> DEFINE r == Find(y, p, tag)
           n == Len(y)
<1>1. k \in Nat /\ t \in Text /\ y \in Text /\ n \in Nat /\ Len(t) = k + n /\ \A i \in 1 .. n : t[k + i] = y[i]
  BY TextFacts DEF Behind
<1>2. IsPlace(y, p, tag, r)
  BY <1>1, FindFacts
<1>3. /\ r \in 1 .. n + 1 /\ (r <= n => p <= r /\ y[r] = tag)
      /\ \A i \in p .. n : y[i] = tag => r <= i
  BY <1>2 DEF IsPlace
<1> HIDE DEF r, n
<1>4. IsPlace(t, k + p, tag, k + r)
  <2> DEFINE m == Len(t)
  <2>1. m = k + n
    BY <1>1
  <2> HIDE DEF m
  <2>2. k + r \in 1 .. m + 1
    BY <1>1, <1>3, <2>1
  <2>3. ASSUME k + r <= m PROVE k + p <= k + r /\ t[k + r] = tag
    <3>1. r <= n /\ r \in 1 .. n
      BY <1>1, <1>3, <2>1, <2>3
    <3> QED
      BY <1>1, <1>3, <3>1
  <2>4. ASSUME NEW i \in k + p .. m, t[i] = tag PROVE k + r <= i
    <3>1. i - k \in p .. n /\ i - k \in 1 .. n /\ k + (i - k) = i
      BY <1>1, <2>1
    <3>2. y[i - k] = tag
      BY <1>1, <2>4, <3>1
    <3>3. r <= i - k
      BY <1>3, <3>1, <3>2
    <3> QED
      BY <1>1, <1>3, <3>1, <3>3
  <2> QED
    BY <2>2, <2>3, <2>4 DEF IsPlace, m
<1>5. k + p \in Nat \ {0}
  BY <1>1
<1>6. IsPlace(t, k + p, tag, Find(t, k + p, tag))
  BY <1>1, <1>5, FindFacts
<1>7. Find(t, k + p, tag) = k + r
  BY <1>1, <1>4, <1>5, <1>6, PlaceUnique
<1> QED
  BY <1>2, <1>7 DEF r

LEMMA BetweenBehind ==
  ASSUME NEW t, NEW y, NEW k, Behind(t, y, k), NEW i \in 1 .. Len(y) + 1, NEW j \in 1 .. Len(y) + 1
  PROVE  Between(t, k + i, k + j) = Between(y, i, j)
<1> DEFINE n == Len(y)
           m == Len(t)
<1>1. k \in Nat /\ t \in Seq(Char) /\ y \in Seq(Char) /\ n \in Nat /\ m = k + n /\ \A l \in 1 .. n : t[k + l] = y[l]
  BY TextFacts DEF Behind, Text
<1> DEFINE a == Between(t, k + i, k + j)
           b == Between(y, i, j)
           u == k + i
           v == (k + j) - 1
           w == j - 1
<1>2. a = SubSeq(t, u, v) /\ b = SubSeq(y, i, w)
  BY DEF Between
<1>3. /\ u \in 1 .. m + 1 /\ v \in 0 .. m /\ i \in 1 .. n + 1 /\ w \in 0 .. n
      /\ (u <= v <=> i <= w) /\ v - u + 1 = w - i + 1 /\ \A l : l \in 1 .. w - i + 1 => i + l - 1 \in 1 .. n
      /\ \A l \in Nat : u + l - 1 = k + (i + l - 1)
  <2>1. i \in 1 .. n + 1 /\ j \in 1 .. n + 1
    OBVIOUS
  <2> HIDE DEF n, m
  <2> QED
    BY <1>1, <2>1
<1> HIDE DEF n, m, u, v, w, a, b
<1>4. /\ a \in Seq(Char) /\ Len(a) = IF u <= v THEN v - u + 1 ELSE 0
      /\ \A l \in 1 .. v - u + 1 : a[l] = t[u + l - 1]
  BY <1>1, <1>2, <1>3, SliceFacts DEF m
<1>5. /\ b \in Seq(Char) /\ Len(b) = IF i <= w THEN w - i + 1 ELSE 0
      /\ \A l \in 1 .. w - i + 1 : b[l] = y[i + l - 1]
  BY <1>1, <1>2, <1>3, SliceFacts DEF n
<1>6. Len(a) = Len(b) /\ \A l \in 1 .. w - i + 1 : a[l] = b[l]
  <2> SUFFICES ASSUME NEW l \in 1 .. w - i + 1 PROVE a[l] = b[l]
    BY <1>3, <1>4, <1>5
  <2>0. v - u + 1 = w - i + 1
    BY <1>3
  <2>1. l \in Nat /\ l \in 1 .. v - u + 1 /\ i + l - 1 \in 1 .. n
    BY <1>1, <1>3, <2>0
  <2>2. b[l] = y[i + l - 1]
    BY <1>5
  <2>3. a[l] = t[u + l - 1]
    BY <1>4, <2>1
  <2>4. u + l - 1 = k + (i + l - 1)
    BY <1>3, <2>1
  <2> QED
    BY <1>1, <2>1, <2>2, <2>3, <2>4
<1>7. a = b
  <2>1. Len(b) \in Nat /\ \A l \in 1 .. Len(b) : l \in 1 .. w - i + 1
    <3>1. CASE i <= w
      BY <1>1, <1>3, <1>5, <3>1
    <3>2. CASE ~(i <= w)
      BY <1>1, <1>3, <1>5, <3>2
    <3> QED
      BY <3>1, <3>2
  <2>2. \A l \in 1 .. Len(b) : a[l] = b[l]
    BY <1>6, <2>1
  <2> QED
    BY <1>4, <1>5, <1>6, <2>2, SeqEqual
<1> QED
  BY <1>7 DEF a, b

(* The places of a block's tags. *)
LEMMA TagsBehind ==
  ASSUME NEW t, NEW y, NEW k, Behind(t, y, k), NEW o \in 1 .. Len(y) + 1
  PROVE  /\ Named(t, k + o) = k + Named(y, o) /\ Named(y, o) \in 1 .. Len(y) + 1
         /\ Ended(t, k + o) = k + Ended(y, o) /\ Ended(y, o) \in 1 .. Len(y) + 1
         /\ Named(y, o) <= Len(y) => o < Named(y, o)
         /\ Ended(y, o) <= Len(y) => Named(y, o) < Ended(y, o)
<1> DEFINE n == Len(y)
           c == Named(y, o)
           e == Ended(y, o)
<1>1. k \in Nat /\ n \in Nat /\ o \in 1 .. n + 1 /\ o + 1 \in Nat \ {0} /\ (k + o) + 1 = k + (o + 1)
  BY TextFacts DEF Behind
<1>2. Find(t, k + (o + 1), ">") = k + c /\ IsPlace(y, o + 1, ">", c)
  BY <1>1, FindBehind DEF Named
<1>3. Named(t, k + o) = k + c
  BY <1>1, <1>2 DEF Named
<1> HIDE DEF c, n
<1>4. c \in 1 .. n + 1 /\ (c <= n => o + 1 <= c)
  BY <1>2 DEF IsPlace, n
<1>5. c + 1 \in Nat \ {0} /\ (k + c) + 1 = k + (c + 1)
  BY <1>1, <1>4
<1>6. e = Find(y, c + 1, "</parameter>") /\ Ended(t, k + o) = Find(t, k + (c + 1), "</parameter>")
  BY <1>3, <1>5 DEF Ended, c
<1> HIDE DEF e
<1>7. Find(t, k + (c + 1), "</parameter>") = k + e /\ IsPlace(y, c + 1, "</parameter>", e)
  BY <1>5, <1>6, FindBehind
<1>8. e \in 1 .. n + 1 /\ (e <= n => c + 1 <= e)
  BY <1>7 DEF IsPlace, n
<1>9. (c <= n => o < c) /\ (e <= n => c < e)
  BY <1>1, <1>4, <1>8
<1> QED
  BY <1>3, <1>4, <1>6, <1>7, <1>8, <1>9 DEF c, e, n

(* The same block, k places further on; it ends behind p. *)
FurtherOn(a, b, k, p, n) ==
  /\ a.ok = b.ok /\ a.params = b.params
  /\ b.ok => b.next \in p + 1 .. n + 1 /\ a.next = k + b.next

LEMMA ParamsAtBehind ==
  ASSUME NEW t, NEW y, NEW k, Behind(t, y, k), NEW p \in 1 .. Len(y) + 1, NEW f, NEW g,
         \A q \in p + 1 .. Len(y) + 1 : FurtherOn(f[k + q], g[q], k, q, Len(y))
  PROVE  FurtherOn(ParamsAt(t, k + p, Find(t, k + p, "</function>"), Find(t, k + p, "<parameter="), f),
               ParamsAt(y, p, Find(y, p, "</function>"), Find(y, p, "<parameter="), g), k, p, Len(y))
<1> DEFINE n == Len(y)
           close == Find(y, p, "</function>")
           open == Find(y, p, "<parameter=")
<1>1. k \in Nat /\ n \in Nat /\ p \in 1 .. n + 1 /\ p \in Nat \ {0} /\ Len(t) = k + n
  BY TextFacts DEF Behind
<1>2. /\ Find(t, k + p, "</function>") = k + close /\ IsPlace(y, p, "</function>", close)
      /\ Find(t, k + p, "<parameter=") = k + open /\ IsPlace(y, p, "<parameter=", open)
  BY <1>1, FindBehind
<1> HIDE DEF close, open
<1>3. close \in 1 .. n + 1 /\ open \in 1 .. n + 1 /\ (open <= n => p <= open) /\ (close <= n => p <= close)
  BY <1>2 DEF IsPlace
<1> DEFINE c == Named(y, open)
           e == Ended(y, open)
<1>4. /\ Named(t, k + open) = k + c /\ c \in 1 .. n + 1 /\ Ended(t, k + open) = k + e /\ e \in 1 .. n + 1
      /\ c <= n => open < c
      /\ e <= n => c < e
  BY <1>3, TagsBehind
<1> HIDE DEF c, e
<1>5. Closed(t, k + p, k + close) <=> Closed(y, p, close)
  <2>1. Between(t, k + p, k + close) = Between(y, p, close)
    BY <1>3, BetweenBehind
  <2>2. Missing(t, k + close) <=> Missing(y, close)
    BY <1>1, <1>3 DEF Missing
  <2> QED
    BY <2>1, <2>2 DEF Closed
<1>6. Opened(t, k + p, k + open) <=> Opened(y, p, open)
  <2>1. Between(t, k + p, k + open) = Between(y, p, open)
    BY <1>3, BetweenBehind
  <2>2. Missing(t, Ended(t, k + open)) <=> Missing(y, Ended(y, open))
    BY <1>1, <1>4 DEF Missing, e
  <2> QED
    BY <2>1, <2>2 DEF Opened
<1>7. CASE Closed(y, p, close)
  <2> DEFINE a == ParamsAt(t, k + p, k + close, k + open, f)
             b == ParamsAt(y, p, close, open, g)
  <2>1. /\ a = [ok |-> TRUE, params |-> << >>, next |-> (k + close) + 1]
        /\ b = [ok |-> TRUE, params |-> << >>, next |-> close + 1]
    BY <1>5, <1>7 DEF ParamsAt
  <2>2. close <= n
    BY <1>1, <1>3, <1>7 DEF Closed, Missing
  <2> HIDE DEF a, b
  <2>3. a.ok = b.ok /\ a.params = b.params /\ a.next = (k + close) + 1 /\ b.next = close + 1
    BY <2>1
  <2>4. close + 1 \in p + 1 .. n + 1 /\ (k + close) + 1 = k + (close + 1)
    BY <1>1, <1>3, <2>2
  <2> QED
    BY <1>2, <2>3, <2>4 DEF FurtherOn, a, b, close, open
<1>8. CASE ~Closed(y, p, close) /\ ~Opened(y, p, open)
  <2>1. /\ ParamsAt(t, k + p, k + close, k + open, f) = Unparsed
        /\ ParamsAt(y, p, close, open, g) = Unparsed
    BY <1>5, <1>6, <1>8 DEF ParamsAt
  <2>2. FurtherOn(Unparsed, Unparsed, k, p, n)
    BY DEF FurtherOn, Unparsed
  <2> QED
    BY <1>2, <2>1, <2>2 DEF close, open
<1>9. CASE ~Closed(y, p, close) /\ Opened(y, p, open)
  <2> DEFINE a == f[k + (e + 1)]
             b == g[e + 1]
  <2>1. e <= n
    BY <1>1, <1>4, <1>9 DEF Opened, Missing, e
  <2>2. open <= n /\ p <= open /\ open < c /\ c < e
    BY <1>1, <1>3, <1>4, <2>1
  <2>3. FurtherOn(a, b, k, p, n)
    <3>1. e + 1 \in p + 1 .. n + 1 /\ \A i \in (e + 1) + 1 .. n + 1 : i \in p + 1 .. n + 1
      BY <1>1, <1>3, <1>4, <2>1, <2>2
    <3> HIDE DEF n
    <3>2. FurtherOn(a, b, k, e + 1, n)
      BY <3>1 DEF n
    <3> HIDE DEF a, b
    <3> QED
      BY <3>1, <3>2 DEF FurtherOn
  <2>4. (k + e) + 1 = k + (e + 1) /\ (k + open) + 1 = k + (open + 1) /\ (k + c) + 1 = k + (c + 1)
    BY <1>1, <1>3, <1>4
  <2>5. /\ ParamsAt(t, k + p, k + close, k + open, f) = WithParam(t, k + open, k + c, k + e, a)
        /\ ParamsAt(y, p, close, open, g) = WithParam(y, open, c, e, b)
    BY <1>4, <1>5, <1>6, <1>9, <2>4 DEF ParamsAt, c, e
  <2>6. /\ Between(t, (k + open) + 1, k + c) = Between(y, open + 1, c)
        /\ Between(t, (k + c) + 1, k + e) = Between(y, c + 1, e)
    <3>1. open + 1 \in 1 .. n + 1 /\ c + 1 \in 1 .. n + 1
      BY <1>1, <1>3, <1>4, <2>1, <2>2
    <3> QED
      BY <1>4, <2>4, <3>1, BetweenBehind
  <2> HIDE DEF a, b
  <2> DEFINE first == << << Between(y, open + 1, c), Trim(Between(y, c + 1, e)) >> >>
             at1 == WithParam(t, k + open, k + c, k + e, a)
             at2 == WithParam(y, open, c, e, b)
  <2>7. /\ at1 = [ok |-> a.ok, next |-> a.next, params |-> first \o a.params]
        /\ at2 = [ok |-> b.ok, next |-> b.next, params |-> first \o b.params]
    BY <2>6 DEF WithParam
  <2> HIDE DEF first, at1, at2
  <2>8. at1.ok = a.ok /\ at1.next = a.next /\ at2.ok = b.ok /\ at2.next = b.next /\ at1.params = at2.params
    <3>1. a.params = b.params
      BY <2>3 DEF FurtherOn
    <3> QED
      BY <2>7, <3>1
  <2>9. FurtherOn(at1, at2, k, p, n)
    BY <2>3, <2>8 DEF FurtherOn
  <2> QED
    BY <1>2, <2>5, <2>9 DEF at1, at2, close, open
<1> QED
  BY <1>7, <1>8, <1>9

(* Both walks over a text go forward: what they find at a place depends on   *)
(* what they find behind it, so there is one function that says it for all.  *)
LEMMA FromTheEnd ==
  ASSUME NEW n \in Nat, NEW I, \A p \in 1 .. n + 1 : (\A q \in p + 1 .. n + 1 : q \in I) => p \in I
  PROVE  \A p \in 1 .. n + 1 : p \in I
<1> DEFINE J == { i \in 0 .. n : \A q \in (n + 1) - i .. n + 1 : q \in I }
<1>1. 0 \in J
  <2>1. n + 1 \in I
    OBVIOUS
  <2> QED
    BY <2>1
<1>2. ASSUME NEW i \in 1 .. n, i - 1 \in J PROVE i \in J
  <2> DEFINE p == (n + 1) - i
  <2>1. p \in 1 .. n + 1 /\ (n + 1) - (i - 1) = p + 1 /\ i \in 0 .. n
    OBVIOUS
  <2>2. \A q \in p + 1 .. n + 1 : q \in I
    BY <1>2, <2>1
  <2>3. p \in I
    BY <2>1, <2>2
  <2>4. \A q \in p .. n + 1 : q = p \/ q \in p + 1 .. n + 1
    BY <2>1
  <2> QED
    BY <2>1, <2>2, <2>3, <2>4
<1> HIDE DEF J
<1>3. \A i \in 0 .. n : i \in J
  BY <1>1, <1>2, LoopInduction
<1>4. n \in J
  BY <1>3
<1> QED
  BY <1>4 DEF J

AtPlace(text, p, f) == ParamsAt(text, p, Find(text, p, "</function>"), Find(text, p, "<parameter="), f)
Walk(text, p, f) == f = [ q \in p .. Len(text) + 1 |-> AtPlace(text, q, f) ]

LEMMA AtPlaceAgree ==
  ASSUME NEW y \in Text, NEW p \in 1 .. Len(y) + 1, NEW f, NEW g, \A q \in p + 1 .. Len(y) + 1 : f[q] = g[q]
  PROVE  AtPlace(y, p, f) = AtPlace(y, p, g)
<1> DEFINE n == Len(y)
           close == Find(y, p, "</function>")
           open == Find(y, p, "<parameter=")
           e == Ended(y, open)
<1>1. n \in Nat /\ p \in 1 .. n + 1 /\ p \in Nat \ {0}
  BY TextFacts
<1>2. Behind(y, y, 0)
  BY TextFacts DEF Behind
<1>3. IsPlace(y, p, "<parameter=", open)
  BY <1>1, FindFacts
<1> HIDE DEF close, open
<1>4. open \in 1 .. n + 1 /\ (open <= n => p <= open)
  BY <1>3 DEF IsPlace
<1>5. /\ Named(y, open) \in 1 .. n + 1 /\ e \in 1 .. n + 1
      /\ Named(y, open) <= n => open < Named(y, open)
      /\ e <= n => Named(y, open) < e
  BY <1>2, <1>4, TagsBehind
<1> HIDE DEF e
<1>6. Opened(y, p, open) => f[e + 1] = g[e + 1]
  <2> SUFFICES ASSUME Opened(y, p, open) PROVE e + 1 \in p + 1 .. n + 1
    OBVIOUS
  <2>1. e <= n
    BY <1>1, <1>5 DEF Opened, Missing, e
  <2> DEFINE c == Named(y, open)
  <2>2. c \in 1 .. n + 1 /\ (c <= n => open < c) /\ c < e
    BY <1>5, <2>1
  <2> HIDE DEF c, n
  <2> QED
    BY <1>1, <1>4, <1>5, <2>1, <2>2
<1> QED
  BY <1>6 DEF AtPlace, ParamsAt, close, open, e

LEMMA WalkExists ==
  ASSUME NEW y \in Text
  PROVE  \A p \in 1 .. Len(y) + 1 : \E f : Walk(y, p, f)
<1> DEFINE n == Len(y)
           I == { p \in 1 .. n + 1 : \E f : Walk(y, p, f) }
<1>1. n \in Nat
  BY TextFacts
<1>2. ASSUME NEW p \in 1 .. n + 1, \A q \in p + 1 .. n + 1 : q \in I PROVE p \in I
  <2>1. PICK f : \A q \in p + 1 .. n + 1 : f[q] = AtPlace(y, q, f)
    <3>1. CASE p = n + 1
      BY <1>1, <3>1
    <3>2. CASE p # n + 1
      <4>1. p + 1 \in 1 .. n + 1 /\ p + 1 \in p + 1 .. n + 1
        BY <1>1, <3>2
      <4>2. PICK f : Walk(y, p + 1, f)
        BY <1>2, <4>1
      <4>3. \A q \in p + 1 .. n + 1 : f[q] = AtPlace(y, q, f)
        BY <4>2 DEF Walk
      <4> QED
        BY <4>3
    <3> QED
      BY <3>1, <3>2
  <2> DEFINE g == [ q \in p .. n + 1 |-> IF q = p THEN AtPlace(y, p, f) ELSE f[q] ]
  <2>2. \A q \in p + 1 .. n + 1 : g[q] = f[q]
    BY <1>1
  <2>3. \A q \in p .. n + 1 : q \in 1 .. n + 1 /\ \A r \in q + 1 .. n + 1 : r \in p + 1 .. n + 1
    BY <1>1
  <2>4. \A q \in p .. n + 1 : AtPlace(y, q, g) = AtPlace(y, q, f)
    <3> TAKE q \in p .. n + 1
    <3>1. q \in 1 .. Len(y) + 1 /\ \A r \in q + 1 .. Len(y) + 1 : g[r] = f[r]
      BY <2>2, <2>3
    <3> HIDE DEF g, n
    <3> QED
      BY <3>1, AtPlaceAgree
  <2>5. \A q \in p .. n + 1 : g[q] = AtPlace(y, q, f)
    BY <1>1, <2>1
  <2>6. g = [ q \in p .. n + 1 |-> g[q] ]
    OBVIOUS
  <2> HIDE DEF g
  <2>7. Walk(y, p, g)
    BY <2>4, <2>5, <2>6 DEF Walk
  <2> QED
    BY <2>7
<1> HIDE DEF I, n
<1>3. \A p \in 1 .. n + 1 : p \in I
  BY <1>1, <1>2, FromTheEnd
<1> QED
  BY <1>3 DEF I, n

LEMMA ParamsWalk ==
  ASSUME NEW y \in Text, NEW p \in 1 .. Len(y) + 1
  PROVE  \E f : Params(y, p) = f[p] /\ \A q \in p .. Len(y) + 1 : f[q] = AtPlace(y, q, f)
<1> DEFINE f == CHOOSE f : Walk(y, p, f)
<1>1. Walk(y, p, f)
  BY WalkExists
<1>2. Params(y, p) = f[p]
  BY DEF Params, Walk, AtPlace
<1> HIDE DEF f
<1>3. \A q \in p .. Len(y) + 1 : f[q] = AtPlace(y, q, f)
  BY <1>1 DEF Walk
<1> QED
  BY <1>2, <1>3

LEMMA ParamsBehind ==
  ASSUME NEW t, NEW y, NEW k, Behind(t, y, k), NEW p \in 1 .. Len(y) + 1
  PROVE  FurtherOn(Params(t, k + p), Params(y, p), k, p, Len(y))
<1> DEFINE n == Len(y)
           m == Len(t)
<1>1. k \in Nat /\ n \in Nat /\ t \in Text /\ y \in Text /\ m = k + n
  BY TextFacts DEF Behind
<1>2. PICK g : Params(y, p) = g[p] /\ \A q \in p .. n + 1 : g[q] = AtPlace(y, q, g)
  BY <1>1, ParamsWalk
<1>3. PICK f : Params(t, k + p) = f[k + p] /\ \A q \in k + p .. m + 1 : f[q] = AtPlace(t, q, f)
  <2> HIDE DEF n
  <2>1. k + p \in 1 .. m + 1
    BY <1>1 DEF n
  <2> QED
    BY <1>1, <2>1, ParamsWalk
<1> DEFINE I == { q \in 1 .. n + 1 : q >= p => FurtherOn(f[k + q], g[q], k, q, n) }
<1>4. ASSUME NEW q \in 1 .. n + 1, \A r \in q + 1 .. n + 1 : r \in I PROVE q \in I
  <2> SUFFICES ASSUME q >= p PROVE FurtherOn(f[k + q], g[q], k, q, n)
    OBVIOUS
  <2>1. \A r \in q + 1 .. n + 1 : r >= p
    BY <1>1
  <2>2. \A r \in q + 1 .. n + 1 : FurtherOn(f[k + r], g[r], k, r, n)
    BY <1>4, <2>1
  <2>3. q \in p .. n + 1 /\ k + q \in k + p .. m + 1
    BY <1>1
  <2>4. f[k + q] = AtPlace(t, k + q, f) /\ g[q] = AtPlace(y, q, g)
    BY <1>2, <1>3, <2>3
  <2> HIDE DEF I
  <2>5. FurtherOn(AtPlace(t, k + q, f), AtPlace(y, q, g), k, q, n)
    BY <2>2, ParamsAtBehind DEF AtPlace
  <2> QED
    BY <2>4, <2>5
<1> HIDE DEF I, n
<1>5. \A q \in 1 .. n + 1 : q \in I
  BY <1>1, <1>4, FromTheEnd
<1>6. p \in 1 .. n + 1 /\ p >= p
  BY <1>1 DEF n
<1>7. FurtherOn(f[k + p], g[p], k, p, n)
  BY <1>5, <1>6 DEF I
<1> QED
  BY <1>2, <1>3, <1>7 DEF n

LEMMA BlockBehind ==
  ASSUME NEW t, NEW y, NEW k, Behind(t, y, k), NEW o \in 1 .. Len(y) + 1
  PROVE  FurtherOn(ParseFunction(t, k + o), ParseFunction(y, o), k, o, Len(y))
<1> DEFINE n == Len(y)
           c == Named(y, o)
           a == ParseFunction(t, k + o)
           b == ParseFunction(y, o)
<1>1. k \in Nat /\ n \in Nat /\ Len(t) = k + n
  BY TextFacts DEF Behind
<1>2. Named(t, k + o) = k + c /\ c \in 1 .. n + 1 /\ (c <= n => o < c)
  BY TagsBehind
<1>3. Missing(t, k + c) <=> Missing(y, c)
  BY <1>1, <1>2 DEF Missing
<1>4. CASE Missing(y, c)
  <2>1. a = Unparsed /\ b = Unparsed
    BY <1>2, <1>3, <1>4 DEF ParseFunction
  <2> HIDE DEF a, b, n
  <2>2. FurtherOn(a, b, k, o, n)
    BY <2>1 DEF FurtherOn, Unparsed
  <2> QED
    BY <2>2 DEF a, b, n
<1>5. CASE ~Missing(y, c)
  <2>1. a = Params(t, (k + c) + 1) /\ b = Params(y, c + 1)
    BY <1>2, <1>3, <1>5 DEF ParseFunction
  <2> HIDE DEF a, b, c, n
  <2>2. c + 1 \in 1 .. n + 1 /\ (k + c) + 1 = k + (c + 1) /\ o < c
    BY <1>1, <1>2, <1>5 DEF Missing, n
  <2>3. FurtherOn(Params(t, k + (c + 1)), Params(y, c + 1), k, c + 1, n)
    BY <2>2, ParamsBehind DEF n
  <2>4. \A i \in (c + 1) + 1 .. n + 1 : i \in o + 1 .. n + 1
    BY <1>1, <1>2, <2>2
  <2>5. FurtherOn(a, b, k, c + 1, n)
    BY <2>1, <2>2, <2>3
  <2>6. FurtherOn(a, b, k, o, n)
    BY <2>4, <2>5 DEF FurtherOn
  <2> QED
    BY <2>6 DEF a, b, n
<1> QED
  BY <1>4, <1>5

(* Where the marker is. *)
LEMMA OccursBehind ==
  ASSUME NEW t, NEW y, NEW k, Behind(t, y, k), NEW s \in Text, NEW i \in Nat \ {0}
  PROVE  Occurs(t, k + i, s) <=> Occurs(y, i, s)
<1> DEFINE n == Len(y)
           l == Len(s)
<1>1. k \in Nat /\ n \in Nat /\ l \in Nat /\ Len(t) = k + n /\ \A j \in 1 .. n : t[k + j] = y[j]
  BY TextFacts DEF Behind
<1> HIDE DEF n, l
<1>2. k + i \in 1 .. k + n /\ (k + i) + l - 1 <= k + n <=> i \in 1 .. n /\ i + l - 1 <= n
  BY <1>1
<1>3. ASSUME i \in 1 .. n, i + l - 1 <= n, NEW j \in 1 .. l PROVE t[(k + i) + j - 1] = y[i + j - 1]
  <2>1. i + j - 1 \in 1 .. n /\ (k + i) + j - 1 = k + (i + j - 1)
    BY <1>1, <1>3
  <2> QED
    BY <1>1, <2>1
<1> QED
  BY <1>1, <1>2, <1>3 DEF Occurs, n, l

MarkersFrom(text, c) == { i \in Occurrences(text, Marker) : i >= c }
ScanAt(text, types, c, f) == CallsFrom(text, types, MarkersFrom(text, c), f)

LEMMA MarkersFacts ==
  ASSUME NEW y \in Text, NEW c \in Nat \ {0}
  PROVE  /\ \A i : i \in MarkersFrom(y, c) <=> Occurs(y, i, Marker) /\ i >= c
         /\ MarkersFrom(y, c) \subseteq 1 .. Len(y)
         /\ MarkersFrom(y, c) # {} =>
              /\ Occurs(y, Min(MarkersFrom(y, c)), Marker) /\ Min(MarkersFrom(y, c)) \in c .. Len(y)
              /\ Min(MarkersFrom(y, c)) + 2 \in 1 .. Len(y) + 1
              /\ \A i \in MarkersFrom(y, c) : Min(MarkersFrom(y, c)) <= i
<1> DEFINE M == MarkersFrom(y, c)
           n == Len(y)
<1>1. n \in Nat /\ Marker \in Text /\ Len(Marker) = 2
  BY TextFacts, MarkerText
<1>2. \A i : i \in M <=> Occurs(y, i, Marker) /\ i >= c
  BY <1>1, OccurrenceFacts DEF MarkersFrom, Text
<1>3. M \subseteq 1 .. n /\ M \subseteq 0 .. n
  BY <1>1, <1>2 DEF Occurs
<1> HIDE DEF M, n
<1>4. ASSUME M # {}
      PROVE  /\ Occurs(y, Min(M), Marker) /\ Min(M) \in c .. n /\ Min(M) + 2 \in 1 .. n + 1
             /\ \A i \in M : Min(M) <= i
  <2>1. Min(M) \in M /\ \A i \in M : Min(M) <= i
    BY <1>1, <1>3, <1>4, MinFacts
  <2>2. Occurs(y, Min(M), Marker) /\ Min(M) >= c /\ Min(M) \in 1 .. n
    BY <1>2, <1>3, <2>1
  <2>3. Min(M) + 2 - 1 <= n
    BY <1>1, <2>2 DEF Occurs, n
  <2> QED
    BY <1>1, <2>1, <2>2, <2>3
<1> QED
  BY <1>2, <1>3, <1>4 DEF M, n

LEMMA MarkersBehind ==
  ASSUME NEW t, NEW y, NEW k, Behind(t, y, k), NEW c \in Nat \ {0}
  PROVE  /\ MarkersFrom(t, k + c) = {} <=> MarkersFrom(y, c) = {}
         /\ MarkersFrom(y, c) # {} => Min(MarkersFrom(t, k + c)) = k + Min(MarkersFrom(y, c))
<1> DEFINE T == MarkersFrom(t, k + c)
           Y == MarkersFrom(y, c)
<1>1. k \in Nat /\ t \in Text /\ y \in Text /\ k + c \in Nat \ {0} /\ Len(t) \in Nat /\ Len(y) \in Nat /\ Marker \in Text
  BY TextFacts, MarkerText DEF Behind
<1>2. /\ \A i : i \in T <=> Occurs(t, i, Marker) /\ i >= k + c
      /\ T \subseteq 1 .. Len(t)
      /\ T # {} => Min(T) \in T /\ \A i \in T : Min(T) <= i
  <2>1. /\ \A i : i \in T <=> Occurs(t, i, Marker) /\ i >= k + c
        /\ T \subseteq 1 .. Len(t)
        /\ T # {} => Occurs(t, Min(T), Marker) /\ Min(T) \in k + c .. Len(t) /\ \A i \in T : Min(T) <= i
    BY <1>1, MarkersFacts
  <2> HIDE DEF T
  <2> QED
    BY <1>1, <2>1
<1>3. /\ \A i : i \in Y <=> Occurs(y, i, Marker) /\ i >= c
      /\ Y \subseteq 1 .. Len(y)
      /\ Y # {} => Min(Y) \in Y /\ \A i \in Y : Min(Y) <= i
  <2>1. /\ \A i : i \in Y <=> Occurs(y, i, Marker) /\ i >= c
        /\ Y \subseteq 1 .. Len(y)
        /\ Y # {} => Occurs(y, Min(Y), Marker) /\ Min(Y) \in c .. Len(y) /\ \A i \in Y : Min(Y) <= i
    BY <1>1, MarkersFacts
  <2> HIDE DEF Y
  <2> QED
    BY <1>1, <2>1
<1> HIDE DEF T, Y
<1>4. ASSUME NEW i \in Y PROVE k + i \in T /\ i \in Nat
  BY <1>1, <1>2, <1>3, OccursBehind
<1>5. ASSUME NEW i \in T PROVE i - k \in Y /\ i \in Nat
  <2>1. i \in Nat /\ i - k \in Nat \ {0} /\ k + (i - k) = i /\ i - k >= c
    BY <1>1, <1>2
  <2>2. Occurs(y, i - k, Marker)
    BY <1>1, <1>2, <2>1, OccursBehind
  <2> QED
    BY <1>3, <2>1, <2>2
<1>6. T = {} <=> Y = {}
  BY <1>4, <1>5
<1>7. ASSUME Y # {} PROVE Min(T) = k + Min(Y)
  <2>1. Min(T) \in T /\ Min(Y) \in Y
    BY <1>2, <1>3, <1>6, <1>7
  <2>2. k + Min(Y) \in T /\ Min(T) - k \in Y /\ Min(T) \in Nat /\ Min(Y) \in Nat
    BY <1>4, <1>5, <2>1
  <2>3. Min(T) <= k + Min(Y) /\ Min(Y) <= Min(T) - k
    BY <1>2, <1>3, <1>6, <1>7, <2>2
  <2> QED
    BY <1>1, <2>2, <2>3
<1> QED
  BY <1>6, <1>7 DEF T, Y

(* A call, k places further on. *)
LEMMA CallAtBehind ==
  ASSUME NEW t, NEW y, NEW k, Behind(t, y, k), NEW types, NEW body \in 1 .. Len(y) + 1, NEW f, NEW g,
         \A q \in body .. Len(y) + 1 : f[k + q].calls = g[q].calls /\ f[k + q].truncated = g[q].truncated
  PROVE  BodyAt(t, types, k + body, Find(t, k + body, "<function="), f)
           = BodyAt(y, types, body, Find(y, body, "<function="), g)
<1> DEFINE n == Len(y)
           func == Find(y, body, "<function=")
           a == ParseFunction(t, k + func)
           b == ParseFunction(y, func)
           shut == Find(t, a.next, "</tool_call>")
           close == Find(y, b.next, "</tool_call>")
           l == CallAt(t, types, k + body, k + func, a, shut, f)
           r == CallAt(y, types, body, func, b, close, g)
<1>1. k \in Nat /\ n \in Nat /\ Len(t) = k + n /\ body \in 1 .. n + 1 /\ body \in Nat \ {0}
  BY TextFacts DEF Behind
<1>2. Find(t, k + body, "<function=") = k + func /\ IsPlace(y, body, "<function=", func)
  BY <1>1, FindBehind
<1>3. /\ BodyAt(t, types, k + body, Find(t, k + body, "<function="), f) = l
      /\ BodyAt(y, types, body, Find(y, body, "<function="), g) = r
  BY <1>2 DEF BodyAt, BlockAt
<1> HIDE DEF func
<1>4. func \in 1 .. n + 1 /\ (func <= n => body <= func)
  BY <1>2 DEF IsPlace
<1>5. FurtherOn(a, b, k, func, n)
  BY <1>4, BlockBehind
<1> HIDE DEF a, b, shut, close, n
<1>6. Missing(t, k + func) <=> Missing(y, func)
  BY <1>1, <1>4 DEF Missing, n
<1>7. CASE Missing(y, func) \/ ~b.ok
  <2>1. ~Complete(t, k + body, k + func, a, shut) /\ ~Complete(y, body, func, b, close)
    BY <1>5, <1>6, <1>7 DEF Complete, FurtherOn
  <2>2. l = r
    BY <2>1 DEF CallAt
  <2> HIDE DEF l, r
  <2> QED
    BY <1>3, <2>2
<1>8. CASE ~Missing(y, func) /\ b.ok
  <2>1. func <= n /\ body <= func
    BY <1>1, <1>4, <1>8 DEF Missing, n
  <2>2. a.ok /\ a.params = b.params /\ b.next \in func + 1 .. n + 1 /\ a.next = k + b.next
    BY <1>5, <1>8 DEF FurtherOn
  <2> DEFINE next == b.next
  <2>3. next \in 1 .. n + 1 /\ next \in Nat \ {0} /\ func < next /\ a.next = k + next
    <3> HIDE DEF next
    <3>1. next \in func + 1 .. n + 1 /\ a.next = k + next
      BY <2>2 DEF next
    <3> QED
      BY <1>1, <1>4, <3>1
  <2>4. shut = Find(t, k + next, "</tool_call>") /\ close = Find(y, next, "</tool_call>")
    BY <2>3 DEF shut, close
  <2> HIDE DEF next
  <2>5. shut = k + close /\ IsPlace(y, next, "</tool_call>", close)
    BY <2>3, <2>4, FindBehind
  <2>6. close \in 1 .. n + 1 /\ (close <= n => next <= close)
    BY <2>5 DEF IsPlace, n
  <2>7. Between(t, k + body, k + func) = Between(y, body, func)
    BY <1>1, <1>4, BetweenBehind DEF n
  <2>8. Between(t, a.next, shut) = Between(y, b.next, close)
    <3>1. Between(t, k + next, k + close) = Between(y, next, close)
      BY <2>3, <2>6, BetweenBehind DEF n
    <3> QED
      BY <2>3, <2>5, <3>1 DEF next
  <2>9. Missing(t, shut) <=> Missing(y, close)
    BY <1>1, <2>5, <2>6 DEF Missing, n
  <2>10. Complete(t, k + body, k + func, a, shut) <=> Complete(y, body, func, b, close)
    BY <1>6, <1>8, <2>2, <2>7, <2>8, <2>9 DEF Complete
  <2>11. CASE ~Complete(y, body, func, b, close)
    <3>1. l = r
      BY <2>10, <2>11 DEF CallAt
    <3> HIDE DEF l, r
    <3> QED
      BY <1>3, <3>1
  <2>12. CASE Complete(y, body, func, b, close)
    <3>1. close <= n
      BY <1>1, <2>6, <2>12 DEF Complete, Missing, n
    <3>2. close + 1 \in body .. n + 1 /\ shut + 1 = k + (close + 1)
      BY <1>1, <1>4, <2>1, <2>3, <2>5, <2>6, <3>1
    <3>3. f[shut + 1].calls = g[close + 1].calls /\ f[shut + 1].truncated = g[close + 1].truncated
      BY <3>2 DEF n
    <3>4. FunctionName(t, k + func) = FunctionName(y, func)
      <4> DEFINE c == Named(y, func)
      <4>1. Named(t, k + func) = k + c /\ c \in 1 .. n + 1
        BY <1>4, TagsBehind DEF n
      <4>2. func + 1 \in 1 .. n + 1 /\ (k + func) + 1 = k + (func + 1)
        BY <1>1, <1>4, <2>1
      <4> HIDE DEF c
      <4>3. Between(t, k + (func + 1), k + c) = Between(y, func + 1, c)
        BY <4>1, <4>2, BetweenBehind DEF n
      <4> QED
        BY <4>1, <4>2, <4>3 DEF FunctionName, c
    <3>5. Call(FunctionName(t, k + func), a, types) = Call(FunctionName(y, func), b, types)
      BY <2>2, <3>4 DEF Call, Value
    <3>6. l = r
      BY <2>10, <2>12, <3>3, <3>5 DEF CallAt
    <3> HIDE DEF l, r
    <3> QED
      BY <1>3, <3>6
  <2> QED
    BY <2>11, <2>12
<1> QED
  BY <1>7, <1>8

SameCalls(f, g, k, p, n) ==
  \A q \in p + 1 .. n + 1 : f[k + q].calls = g[q].calls /\ f[k + q].truncated = g[q].truncated

LEMMA ScanAtBehind ==
  ASSUME NEW t, NEW y, NEW k, Behind(t, y, k), NEW types, NEW c \in 1 .. Len(y) + 1, NEW f, NEW g,
         SameCalls(f, g, k, c, Len(y)), NEW d, d = k + c
  PROVE  ScanAt(t, types, d, f) = ScanAt(y, types, c, g)
<1> DEFINE n == Len(y)
           T == MarkersFrom(t, d)
           Y == MarkersFrom(y, c)
           body == Min(Y) + 2
<1>1. k \in Nat /\ n \in Nat /\ y \in Text /\ c \in Nat \ {0} /\ Len(Marker) = 2
  BY TextFacts, MarkerText DEF Behind
<1>2. (T = {} <=> Y = {}) /\ (Y # {} => Min(T) = k + Min(Y))
  BY <1>1, MarkersBehind
<1>3. Y # {} => Min(Y) \in c .. n /\ body \in 1 .. n + 1
  BY <1>1, MarkersFacts
<1> HIDE DEF T, Y
<1>4. CASE Y = {}
  <2>1. CallsFrom(t, types, T, f) = CallsFrom(y, types, Y, g)
    BY <1>2, <1>4 DEF CallsFrom
  <2> QED
    BY <2>1 DEF ScanAt, T, Y
<1>5. CASE Y # {}
  <2>1. Min(Y) \in Nat /\ c <= Min(Y)
    BY <1>1, <1>3, <1>5
  <2>2. Min(T) + 2 = k + body
    BY <1>1, <1>2, <1>5, <2>1
  <2>3. \A q \in body .. n + 1 : q \in c + 1 .. n + 1
    BY <1>1, <2>1
  <2> HIDE DEF body
  <2>4. BodyAt(t, types, k + body, Find(t, k + body, "<function="), f) = BodyAt(y, types, body, Find(y, body, "<function="), g)
    <3>1. \A q \in body .. Len(y) + 1 : f[k + q].calls = g[q].calls /\ f[k + q].truncated = g[q].truncated
      BY <2>3 DEF SameCalls
    <3> QED
      BY <1>3, <1>5, <3>1, CallAtBehind
  <2>5. /\ CallsFrom(t, types, T, f) = BodyAt(t, types, k + body, Find(t, k + body, "<function="), f)
        /\ CallsFrom(y, types, Y, g) = BodyAt(y, types, body, Find(y, body, "<function="), g)
    BY <1>1, <1>2, <1>5, <2>2 DEF CallsFrom, body
  <2> QED
    BY <2>4, <2>5 DEF ScanAt, T, Y
<1> QED
  BY <1>4, <1>5

LEMMA ScanAtAgree ==
  ASSUME NEW y \in Text, NEW types, NEW c \in 1 .. Len(y) + 1, NEW f, NEW g,
         \A q \in c + 1 .. Len(y) + 1 : f[q] = g[q]
  PROVE  ScanAt(y, types, c, f) = ScanAt(y, types, c, g)
<1>1. PICK z, t : z = 0 /\ t = y
  OBVIOUS
<1> DEFINE n == Len(y)
<1>2. Behind(t, y, z) /\ n \in Nat
  BY <1>1, TextFacts DEF Behind
<1> HIDE DEF n
<1>3. c = z + c /\ \A q \in c + 1 .. n + 1 : z + q = q
  BY <1>1, <1>2 DEF n
<1>4. SameCalls(f, g, z, c, Len(y))
  BY <1>3 DEF SameCalls, n
<1>5. ScanAt(t, types, c, f) = ScanAt(y, types, c, g)
  BY ONLY <1>2, <1>3, <1>4, c \in 1 .. Len(y) + 1, ScanAtBehind
<1> QED
  BY <1>1, <1>5

ScanWalk(text, types, f) == f = [ c \in 1 .. Len(text) + 1 |-> ScanAt(text, types, c, f) ]

LEMMA ScanExists ==
  ASSUME NEW y \in Text, NEW types
  PROVE  \E f : ScanWalk(y, types, f)
<1> DEFINE n == Len(y)
           Steps(p, f) == \A q \in p .. n + 1 : f[q] = ScanAt(y, types, q, f)
           I == { p \in 1 .. n + 1 : \E f : Steps(p, f) }
<1>1. n \in Nat
  BY TextFacts
<1>2. ASSUME NEW p \in 1 .. n + 1, \A q \in p + 1 .. n + 1 : q \in I PROVE p \in I
  <2>1. PICK f : Steps(p + 1, f)
    <3>1. CASE p = n + 1
      BY <1>1, <3>1
    <3>2. CASE p # n + 1
      <4>1. p + 1 \in p + 1 .. n + 1
        BY <1>1, <3>2
      <4> QED
        BY <1>2, <4>1
    <3> QED
      BY <3>1, <3>2
  <2> DEFINE g == [ q \in p .. n + 1 |-> IF q = p THEN ScanAt(y, types, p, f) ELSE f[q] ]
  <2>2. \A q \in p + 1 .. n + 1 : g[q] = f[q]
    BY <1>1
  <2>3. \A q \in p .. n + 1 : q \in 1 .. n + 1 /\ \A r \in q + 1 .. n + 1 : r \in p + 1 .. n + 1
    BY <1>1
  <2>4. \A q \in p .. n + 1 : ScanAt(y, types, q, g) = ScanAt(y, types, q, f)
    <3> TAKE q \in p .. n + 1
    <3>1. q \in 1 .. n + 1 /\ \A r \in q + 1 .. n + 1 : g[r] = f[r]
      BY <2>2, <2>3
    <3> HIDE DEF g
    <3> QED
      BY <3>1, ScanAtAgree
  <2>5. \A q \in p .. n + 1 : g[q] = ScanAt(y, types, q, f)
    BY <1>1, <2>1
  <2> HIDE DEF g
  <2>6. Steps(p, g)
    BY <2>4, <2>5
  <2> QED
    BY <2>6
<1> HIDE DEF I
<1>3. \A p \in 1 .. n + 1 : p \in I
  <2> HIDE DEF n
  <2> QED
    BY <1>1, <1>2, FromTheEnd
<1>4. PICK f : Steps(1, f)
  <2>1. 1 \in I
    BY <1>1, <1>3
  <2> QED
    BY <2>1 DEF I
<1> DEFINE h == [ q \in 1 .. n + 1 |-> f[q] ]
<1>5. \A q \in 1 .. n + 1 : h[q] = f[q] /\ \A r \in q + 1 .. n + 1 : r \in 1 .. n + 1
  BY <1>1
<1>6. \A q \in 1 .. n + 1 : ScanAt(y, types, q, h) = ScanAt(y, types, q, f)
  <2> TAKE q \in 1 .. n + 1
  <2>1. \A r \in q + 1 .. n + 1 : h[r] = f[r]
    BY <1>5
  <2> HIDE DEF h
  <2> QED
    BY <2>1, ScanAtAgree
<1>7. h = [ q \in 1 .. n + 1 |-> h[q] ]
  OBVIOUS
<1> HIDE DEF h
<1>8. \A q \in 1 .. n + 1 : h[q] = ScanAt(y, types, q, h)
  BY <1>4, <1>5, <1>6
<1> QED
  BY <1>7, <1>8 DEF ScanWalk

ScanReads(text, types, first, f) ==
  /\ \A q \in 1 .. Len(text) + 1 : f[q] = ScanAt(text, types, q, f)
  /\ Scan(text, types).leading = Trim(SubSeq(text, 1, first - 1))
  /\ Scan(text, types).calls = f[first].calls /\ Scan(text, types).truncated = f[first].truncated

LEMMA ScanFacts ==
  ASSUME NEW y \in Text, NEW types, NEW first, first = First(y, Occurrences(y, Marker))
  PROVE  \E f : ScanReads(y, types, first, f)
<1> DEFINE f == CHOOSE f : ScanWalk(y, types, f)
           scan == Scan(y, types)
<1>1. ScanWalk(y, types, f)
  BY ScanExists
<1>2. scan = [ leading |-> Trim(SubSeq(y, 1, first - 1)), calls |-> f[first].calls, truncated |-> f[first].truncated ]
  BY DEF Scan, ScanWalk, ScanAt, MarkersFrom
<1> HIDE DEF f, scan
<1>3. /\ scan.leading = Trim(SubSeq(y, 1, first - 1))
      /\ scan.calls = f[first].calls /\ scan.truncated = f[first].truncated
  BY <1>2
<1>4. \A q \in 1 .. Len(y) + 1 : f[q] = ScanAt(y, types, q, f)
  BY <1>1 DEF ScanWalk
<1> QED
  BY <1>3, <1>4 DEF scan, ScanReads

LEMMA FirstFacts ==
  ASSUME NEW y \in Text
  PROVE  /\ Clear(y, {Marker}) => First(y, Occurrences(y, Marker)) = Len(y) + 1
         /\ \A p \in 1 .. Len(y) : Occurs(y, p, Marker) /\ (\A i \in 1 .. p - 1 : ~Occurs(y, i, Marker))
                                     => First(y, Occurrences(y, Marker)) = p
<1> DEFINE M == Occurrences(y, Marker)
           n == Len(y)
<1>1. n \in Nat /\ \A i : i \in M <=> Occurs(y, i, Marker)
  BY TextFacts, MarkerText, OccurrenceFacts DEF Text
<1>2. M \subseteq 1 .. n /\ M \subseteq 0 .. n
  BY <1>1 DEF Occurs
<1> HIDE DEF M
<1>3. Clear(y, {Marker}) => First(y, M) = n + 1
  BY <1>1, <1>2 DEF Clear, First
<1>4. ASSUME NEW p \in 1 .. n, Occurs(y, p, Marker), \A i \in 1 .. p - 1 : ~Occurs(y, i, Marker)
      PROVE  First(y, M) = p
  <2>1. M # {} /\ p \in M
    BY <1>1, <1>4
  <2> HIDE DEF n
  <2>2. Min(M) \in M /\ Min(M) <= p
    BY <1>1, <1>2, <2>1, MinFacts
  <2>3. Min(M) \in 1 .. n /\ Min(M) \notin 1 .. p - 1
    BY <1>1, <1>2, <1>4, <2>2
  <2>4. Min(M) = p
    BY <1>1, <2>2, <2>3
  <2> QED
    BY <2>1, <2>4 DEF First
<1> QED
  BY <1>3, <1>4 DEF M, n

LEMMA TrimFacts ==
  /\ Trim(<< >>) = << >>
  /\ \A x \in Text : Trim(x) \in Text /\ Trim(Trim(x)) = Trim(x)
<1> DEFINE kept(x) == { i \in DOMAIN x : x[i] # " " }
           lo(x) == Min(kept(x))
           hi(x) == Max(kept(x))
<1>1. \A x : Trim(x) = IF kept(x) = {} THEN << >> ELSE SubSeq(x, lo(x), hi(x))
  BY DEF Trim
<1>2. kept(<< >>) = {}
  BY EmptySeq
<1>3. Trim(<< >>) = << >>
  BY <1>1, <1>2
<1>4. ASSUME NEW x \in Text, kept(x) # {}
      PROVE  /\ lo(x) \in kept(x) /\ hi(x) \in kept(x) /\ lo(x) \in 1 .. hi(x) /\ hi(x) \in 1 .. Len(x)
             /\ \A i \in kept(x) : lo(x) <= i /\ i <= hi(x)
  <2> DEFINE X == kept(x)
             n == Len(x)
             a == Min(X)
             b == Max(X)
  <2>1. DOMAIN x = 1 .. n /\ n \in Nat
    BY LenProperties DEF Text
  <2> HIDE DEF n
  <2>2. X # {} /\ X \subseteq 0 .. n /\ X \subseteq 1 .. n
    <3>1. X # {}
      BY <1>4
    <3>2. \A i \in DOMAIN x : i \in 0 .. n /\ i \in 1 .. n
      BY <2>1
    <3> QED
      BY <3>1, <3>2
  <2> HIDE DEF X
  <2>3. a \in X /\ b \in X /\ \A i \in X : a <= i /\ i <= b
    BY <2>1, <2>2, MinFacts, MaxFacts
  <2> HIDE DEF a, b
  <2>4. a \in 1 .. b /\ b \in 1 .. n
    BY <2>1, <2>2, <2>3
  <2> QED
    BY <2>3, <2>4 DEF X, n, a, b
<1>5. ASSUME NEW x \in Text PROVE Trim(x) \in Text /\ Trim(Trim(x)) = Trim(x)
  <2>1. CASE kept(x) = {}
    BY <1>1, <1>3, <2>1, TextFacts
  <2>2. CASE kept(x) # {}
    <3> DEFINE a == lo(x)
               b == hi(x)
               y == SubSeq(x, a, b)
               m == b - a + 1
    <3>1. a \in kept(x) /\ b \in kept(x) /\ a \in 1 .. b /\ b \in 1 .. Len(x)
      BY <1>4, <2>2
    <3>2. x \in Seq(Char) /\ Len(x) \in Nat
      BY TextFacts DEF Text
    <3>3. Trim(x) = y
      BY <1>1, <2>2
    <3>4. x[a] # " " /\ x[b] # " "
      BY <3>1
    <3> HIDE DEF a, b, y, kept
    <3>5. a \in 1 .. Len(x) + 1 /\ b \in 0 .. Len(x) /\ a <= b /\ m \in Nat \ {0}
      BY <3>1, <3>2
    <3>6. y \in Seq(Char) /\ Len(y) = m /\ \A i \in 1 .. m : y[i] = x[a + i - 1]
      <4>1. /\ y \in Seq(Char) /\ Len(y) = IF a <= b THEN b - a + 1 ELSE 0
            /\ \A i \in 1 .. b - a + 1 : y[i] = x[a + i - 1]
        BY <3>2, <3>5, SliceFacts DEF y
      <4> QED
        BY <3>5, <4>1
    <3>7. 1 \in 1 .. m /\ m \in 1 .. m /\ a + 1 - 1 = a /\ a + m - 1 = b
      BY <3>1, <3>2, <3>5
    <3>8. y[1] # " " /\ y[m] # " "
      BY <3>4, <3>6, <3>7
    <3> HIDE DEF m
    <3>9. y \in Text /\ DOMAIN y = 1 .. m
      BY <3>6, LenProperties DEF Text
    <3>10. 1 \in kept(y) /\ m \in kept(y)
      BY <3>7, <3>8, <3>9 DEF kept
    <3> HIDE DEF lo, hi
    <3>11. lo(y) \in 1 .. hi(y) /\ hi(y) \in 1 .. m /\ lo(y) <= 1 /\ m <= hi(y)
      BY <1>4, <3>6, <3>9, <3>10
    <3>12. lo(y) = 1 /\ hi(y) = m
      BY <3>5, <3>11
    <3>13. Trim(y) = SubSeq(y, 1, m)
      BY <1>1, <3>10, <3>12
    <3>14. SubSeq(y, 1, m) = y
      BY <3>6, SubSeqFull
    <3> QED
      BY <3>3, <3>9, <3>13, <3>14
  <2> QED
    BY <2>1, <2>2
<1> QED
  BY <1>3, <1>5

LEMMA ScanBehind ==
  ASSUME NEW x \in Text, NEW y \in Text, NEW types, Occurs(y, 1, Marker),
         \A i \in 1 .. Len(x) : ~Occurs(Cat(x, y), i, Marker)
  PROVE  /\ Scan(Cat(x, y), types).calls = Scan(y, types).calls
         /\ Scan(Cat(x, y), types).truncated = Scan(y, types).truncated
         /\ Scan(Cat(x, y), types).leading = Trim(x) /\ Scan(y, types).leading = << >>
<1> DEFINE t == Cat(x, y)
           k == Len(x)
           n == Len(y)
<1>1. /\ t \in Text /\ Behind(t, y, k) /\ k \in Nat /\ n \in Nat /\ Len(t) = k + n
      /\ \A i \in 1 .. k : t[i] = x[i]
  BY TextFacts, CatBehind, CatPlaces
<1>2. SubSeq(t, 1, k) = x
  <2>1. t \in Seq(Char) /\ x \in Seq(Char) /\ k \in 0 .. Len(t)
    BY <1>1 DEF Text
  <2> HIDE DEF t
  <2>2. SubSeq(t, 1, k) \in Seq(Char) /\ Len(SubSeq(t, 1, k)) = k /\ \A j \in 1 .. k : SubSeq(t, 1, k)[j] = t[j]
    BY <2>1, CutInTwo
  <2> QED
    BY <1>1, <2>1, <2>2, SeqEqual
<1>3. SubSeq(y, 1, 0) = << >>
  BY SubSeqEmpty DEF Text
<1> HIDE DEF t
<1>4. 1 \in 1 .. n
  BY DEF Occurs
<1>5. First(y, Occurrences(y, Marker)) = 1
  BY <1>4, FirstFacts
<1>6. First(t, Occurrences(t, Marker)) = k + 1
  <2> HIDE DEF k, n
  <2>1. Marker \in Text /\ 1 \in Nat \ {0}
    BY MarkerText
  <2>2. Occurs(t, k + 1, Marker)
    BY <1>1, <2>1, OccursBehind
  <2>3. k + 1 \in 1 .. Len(t) /\ (k + 1) - 1 = k
    BY <1>1, <1>4
  <2>4. \A i \in 1 .. (k + 1) - 1 : ~Occurs(t, i, Marker)
    BY <2>3 DEF t, k
  <2> QED
    BY <1>1, <2>2, <2>3, <2>4, FirstFacts
<1> DEFINE a == First(y, Occurrences(y, Marker))
           b == First(t, Occurrences(t, Marker))
<1>0. a = First(y, Occurrences(y, Marker)) /\ b = First(t, Occurrences(t, Marker))
  OBVIOUS
<1> HIDE DEF a, b, k
<1>7. PICK g : ScanReads(y, types, a, g)
  BY <1>0, ScanFacts
<1>8. PICK f : ScanReads(t, types, b, f)
  BY <1>0, <1>1, ScanFacts
<1> DEFINE I == { q \in 1 .. n + 1 : f[k + q] = g[q] }
<1>9. ASSUME NEW q \in 1 .. n + 1, \A r \in q + 1 .. n + 1 : r \in I PROVE q \in I
  <2>1. \A r \in q + 1 .. n + 1 : f[k + r] = g[r]
    BY <1>9
  <2>2. ScanAt(t, types, k + q, f) = ScanAt(y, types, q, g)
    <3>1. SameCalls(f, g, k, q, Len(y))
      BY <2>1 DEF SameCalls
    <3>2. q \in 1 .. Len(y) + 1
      OBVIOUS
    <3> HIDE DEF I, k, n
    <3> QED
      BY ONLY <1>1, <3>1, <3>2, ScanAtBehind
  <2>3. k + q \in 1 .. Len(t) + 1
    <3> HIDE DEF k, n
    <3> QED
      BY <1>1
  <2> QED
    BY <1>7, <1>8, <2>2, <2>3 DEF ScanReads
<1>10. 1 \in I
  <2> HIDE DEF I, n
  <2>1. \A q \in 1 .. n + 1 : q \in I
    BY <1>1, <1>9, FromTheEnd
  <2> QED
    BY <1>1, <1>4, <2>1
<1>11. f[k + 1] = g[1]
  BY <1>10
<1>12. b - 1 = k /\ a - 1 = 0 /\ b = k + 1 /\ a = 1
  BY <1>0, <1>1, <1>5, <1>6
<1>13. /\ Scan(t, types).leading = Trim(SubSeq(t, 1, k)) /\ Scan(y, types).leading = Trim(SubSeq(y, 1, 0))
       /\ Scan(t, types).calls = f[b].calls /\ Scan(t, types).truncated = f[b].truncated
       /\ Scan(y, types).calls = g[a].calls /\ Scan(y, types).truncated = g[a].truncated
  BY <1>7, <1>8, <1>12 DEF ScanReads
<1>14. f[b] = g[a]
  BY <1>11, <1>12
<1> QED
  BY <1>2, <1>3, <1>13, <1>14, TrimFacts DEF t

LEMMA ScanNone ==
  ASSUME NEW y \in Text, NEW types, Clear(y, {Marker})
  PROVE  Scan(y, types).calls = << >>
<1> DEFINE n == Len(y)
<1>0. n \in Nat
  BY TextFacts
<1>1. n \in Nat /\ n + 1 \in 1 .. n + 1 /\ n + 1 \in Nat \ {0}
  <2> HIDE DEF n
  <2> QED
    BY <1>0
<1>2. First(y, Occurrences(y, Marker)) = n + 1
  BY FirstFacts
<1>3. PICK f : f[n + 1] = ScanAt(y, types, n + 1, f) /\ Scan(y, types).calls = f[n + 1].calls
  BY <1>1, <1>2, ScanFacts DEF ScanReads
<1>4. MarkersFrom(y, n + 1) = {}
  <2> DEFINE M == MarkersFrom(y, n + 1)
  <2>1. M \subseteq 1 .. n /\ \A i : i \in M => i >= n + 1
    BY <1>1, MarkersFacts
  <2> HIDE DEF M, n
  <2>2. M = {}
    BY <1>1, <2>1
  <2> QED
    BY <2>2 DEF M, n
<1>5. f[n + 1] = [calls |-> << >>, truncated |-> FALSE]
  BY <1>3, <1>4 DEF ScanAt, CallsFrom
<1> QED
  BY <1>3, <1>5

-----------------------------------------------------------------------------
(* The channel. Its first n events carry the text that is between what the   *)
(* handler has and what was sent.                                            *)
Event == [event : {"text"}, text : Text] \cup [event : {"done"}, reason : {"stop", "length"}] \cup [event : {"failed"}]

Along(chan, n, from, to, pre) ==
  /\ pre \in [1 .. n + 1 -> Text] /\ pre[1] = from /\ pre[n + 1] = to
  /\ \A i \in 1 .. n : chan[i].event = "text" /\ chan[i].text \in Text /\ pre[i + 1] = Cat(pre[i], chan[i].text)
Carries(chan, n, from, to) == \E pre : Along(chan, n, from, to, pre)

End(how) ==
  IF how = "failed" THEN [event |-> "failed"]
  ELSE [event |-> "done", reason |-> IF how = "length" THEN "length" ELSE "stop"]
Sending(chan, heard, out) == chan \in Seq(Event) /\ Carries(chan, Len(chan), heard, out)
Closing(chan, heard, out, how, n) ==
  n \in Nat /\ Len(chan) = n + 1 /\ chan[n + 1] = End(how) /\ Carries(chan, n, heard, out)
Endless == {"running", "dead"}
Delivers(chan, heard, out, how) ==
  IF how \in Endless THEN Sending(chan, heard, out)
  ELSE chan \in Seq(Event) /\ \E n : Closing(chan, heard, out, how, n)

LEMMA EndEvent ==
  ASSUME NEW how
  PROVE  End(how) \in Event /\ End(how).event # "text" /\ (End(how).event = "failed" <=> how = "failed")
<1>1. CASE how = "failed"
  <2>1. End(how) = [event |-> "failed"]
    BY <1>1 DEF End
  <2>2. [event |-> "failed"] \in [event : {"failed"}]
    OBVIOUS
  <2> QED
    BY <1>1, <2>1, <2>2 DEF Event
<1>2. CASE how # "failed"
  <2> DEFINE reason == IF how = "length" THEN "length" ELSE "stop"
  <2>1. End(how) = [event |-> "done", reason |-> reason] /\ reason \in {"stop", "length"}
    BY <1>2 DEF End
  <2> HIDE DEF reason
  <2>2. [event |-> "done", reason |-> reason] \in [event : {"done"}, reason : {"stop", "length"}]
    BY <2>1
  <2> QED
    BY <1>2, <2>1, <2>2 DEF Event
<1> QED
  BY <1>1, <1>2

(* The places of a channel before and behind what is put into it. *)
LEMMA PutFacts ==
  ASSUME NEW c \in Seq(Event), NEW x \in Event
  PROVE  /\ c \o << x >> \in Seq(Event) /\ Len(c \o << x >>) = Len(c) + 1 /\ Len(c) \in Nat
         /\ (c \o << x >>)[Len(c) + 1] = x /\ \A i \in 1 .. Len(c) : (c \o << x >>)[i] = c[i]
<1>1. c \o << x >> = Append(c, x)
  BY AppendIsConcat
<1>2. /\ Append(c, x) \in Seq(Event) /\ Len(Append(c, x)) = Len(c) + 1
      /\ Append(c, x)[Len(c) + 1] = x /\ \A i \in 1 .. Len(c) : Append(c, x)[i] = c[i]
  BY AppendProperties
<1> QED
  BY <1>1, <1>2, LenProperties

LEMMA SameCarries ==
  ASSUME NEW c, NEW d, NEW n, NEW from, NEW to, Carries(c, n, from, to), \A i \in 1 .. n : d[i] = c[i]
  PROVE  Carries(d, n, from, to)
BY DEF Carries, Along

LEMMA SendText ==
  ASSUME NEW c, NEW heard, NEW out, Sending(c, heard, out), NEW e \in Text
  PROVE  Sending(c \o TextEvent(e), heard, Cat(out, e))
<1> DEFINE n == Len(c)
           x == [event |-> "text", text |-> e]
           d == c \o << x >>
<1>1. c \in Seq(Event) /\ n \in Nat
  BY LenProperties DEF Sending
<1>2. PICK pre : Along(c, n, heard, out, pre)
  BY DEF Sending, Carries
<1>3. pre \in [1 .. n + 1 -> Text] /\ pre[1] = heard /\ pre[n + 1] = out
  BY <1>2 DEF Along
<1> HIDE DEF n
<1>4. out \in Text
  BY <1>1, <1>3
<1>5. CASE e = << >>
  <2>1. c \o TextEvent(e) = c /\ Cat(out, e) = out
    BY <1>1, <1>4, <1>5, TextFacts, ConcatEmptySeq DEF TextEvent
  <2> QED
    BY <2>1
<1>6. CASE e # << >>
  <2>1. c \o TextEvent(e) = d
    BY <1>6 DEF TextEvent
  <2>2. x \in Event /\ x.event = "text" /\ x.text = e
    <3>1. x \in [event : {"text"}, text : Text]
      OBVIOUS
    <3> QED
      BY <3>1 DEF Event
  <2> HIDE DEF x
  <2>3. d \in Seq(Event) /\ Len(d) = n + 1 /\ d[n + 1] = x /\ \A i \in 1 .. n : d[i] = c[i]
    BY <1>1, <2>2, PutFacts DEF n
  <2> HIDE DEF d
  <2> DEFINE to == Cat(out, e)
             post == [ i \in 1 .. (n + 1) + 1 |-> IF i <= n + 1 THEN pre[i] ELSE to ]
  <2>4. to \in Text
    BY <1>4, TextFacts
  <2> HIDE DEF to
  <2>5. post \in [1 .. (n + 1) + 1 -> Text] /\ post[(n + 1) + 1] = to /\ \A i \in 1 .. n + 1 : post[i] = pre[i]
    BY <1>1, <1>3, <2>4
  <2> HIDE DEF post
  <2>6. 1 \in 1 .. n + 1 /\ n + 1 \in 1 .. n + 1
    BY <1>1
  <2>7. post[1] = heard /\ post[n + 1] = out
    BY <1>3, <2>5, <2>6
  <2>8. ASSUME NEW i \in 1 .. n + 1
        PROVE  d[i].event = "text" /\ d[i].text \in Text /\ post[i + 1] = Cat(post[i], d[i].text)
    <3>1. CASE i = n + 1
      BY <2>2, <2>3, <2>5, <2>7, <3>1 DEF to
    <3>2. CASE i # n + 1
      <4>1. i \in 1 .. n /\ i \in 1 .. n + 1 /\ i + 1 \in 1 .. n + 1
        BY <1>1, <3>2
      <4>2. post[i] = pre[i] /\ post[i + 1] = pre[i + 1] /\ d[i] = c[i]
        BY <2>3, <2>5, <4>1
      <4>3. c[i].event = "text" /\ c[i].text \in Text /\ pre[i + 1] = Cat(pre[i], c[i].text)
        BY <1>2, <4>1 DEF Along
      <4> QED
        BY <4>2, <4>3
    <3> QED
      BY <3>1, <3>2
  <2>9. Along(d, n + 1, heard, to, post)
    BY <2>5, <2>7, <2>8 DEF Along
  <2> QED
    BY <2>1, <2>3, <2>9 DEF Sending, Carries, to
<1> QED
  BY <1>5, <1>6

LEMMA SendEnd ==
  ASSUME NEW c, NEW heard, NEW out, Sending(c, heard, out), NEW how, how \notin Endless
  PROVE  Delivers(c \o << End(how) >>, heard, out, how)
<1> DEFINE n == Len(c)
           x == End(how)
           d == c \o << x >>
<1>1. c \in Seq(Event) /\ n \in Nat /\ x \in Event
  BY LenProperties, EndEvent DEF Sending
<1>2. Carries(c, n, heard, out)
  BY DEF Sending
<1> HIDE DEF x
<1>3. d \in Seq(Event) /\ Len(d) = n + 1 /\ d[n + 1] = x /\ \A i \in 1 .. n : d[i] = c[i]
  BY <1>1, PutFacts
<1> HIDE DEF d, n
<1>4. Carries(d, n, heard, out)
  BY <1>2, <1>3, SameCarries
<1>5. Closing(d, heard, out, how, n)
  BY <1>1, <1>3, <1>4 DEF Closing, x
<1> QED
  BY <1>3, <1>5 DEF Delivers, d, x

LEMMA TakeOne ==
  ASSUME NEW c \in Seq(Event), NEW n \in Nat, n \in 1 .. Len(c), NEW heard, NEW out, Carries(c, n, heard, out)
  PROVE  /\ Head(c).event = "text" /\ Head(c).text \in Text
         /\ Carries(Tail(c), n - 1, Cat(heard, Head(c).text), out)
<1> DEFINE d == Tail(c)
           m == n - 1
           h == Head(c)
<1>1. PICK pre : Along(c, n, heard, out, pre)
  BY DEF Carries
<1>2. /\ pre \in [1 .. n + 1 -> Text] /\ pre[1] = heard /\ pre[n + 1] = out
      /\ \A i \in 1 .. n : c[i].event = "text" /\ c[i].text \in Text /\ pre[i + 1] = Cat(pre[i], c[i].text)
  BY <1>1 DEF Along
<1>3. Len(c) \in Nat /\ c # << >>
  BY LenProperties, EmptySeq
<1>4. h = c[1] /\ \A i \in 1 .. Len(c) - 1 : d[i] = c[i + 1]
  BY <1>3, HeadTailProperties
<1> HIDE DEF d, h
<1>5. m \in Nat /\ m + 1 = n /\ 1 \in 1 .. n /\ \A i \in 1 .. m : i + 1 \in 1 .. n /\ i \in 1 .. Len(c) - 1
  BY <1>3
<1> HIDE DEF m
<1> DEFINE post == [ i \in 1 .. m + 1 |-> pre[i + 1] ]
<1>6. h.event = "text" /\ h.text \in Text /\ pre[1 + 1] = Cat(heard, h.text)
  BY <1>2, <1>4, <1>5
<1>7. post \in [1 .. m + 1 -> Text] /\ post[1] = pre[1 + 1] /\ post[m + 1] = out
  <2>1. \A i \in 1 .. m + 1 : i + 1 \in 1 .. n + 1
    BY <1>5
  <2>2. 1 \in 1 .. m + 1 /\ m + 1 \in 1 .. m + 1 /\ (m + 1) + 1 = n + 1
    BY <1>5
  <2> QED
    BY <1>2, <2>1, <2>2
<1>8. ASSUME NEW i \in 1 .. m
      PROVE  d[i].event = "text" /\ d[i].text \in Text /\ post[i + 1] = Cat(post[i], d[i].text)
  <2>1. i \in 1 .. m + 1 /\ i + 1 \in 1 .. m + 1
    BY <1>5
  <2>2. post[i] = pre[i + 1] /\ post[i + 1] = pre[(i + 1) + 1]
    BY <2>1
  <2> HIDE DEF post
  <2>3. d[i] = c[i + 1] /\ i + 1 \in 1 .. n
    BY <1>4, <1>5
  <2> QED
    BY <1>2, <2>2, <2>3
<1> HIDE DEF post
<1>9. Along(d, m, Cat(heard, h.text), out, post)
  BY <1>6, <1>7, <1>8 DEF Along
<1> QED
  BY <1>6, <1>9 DEF Carries, d, h, m

(* What a handler takes out of the channel. *)
LEMMA Receipt ==
  ASSUME NEW c, NEW heard, NEW out, NEW how, Delivers(c, heard, out, how), c # << >>
  PROVE  \/ Head(c).event = "text" /\ Head(c).text \in Text /\ Delivers(Tail(c), Cat(heard, Head(c).text), out, how)
         \/ how \notin Endless /\ Head(c) = End(how) /\ heard = out
<1> DEFINE d == Tail(c)
           h == Head(c)
           more == Cat(heard, h.text)
<1>1. c \in Seq(Event)
  BY DEF Delivers, Sending
<1>2. /\ Len(c) \in Nat \ {0} /\ d \in Seq(Event) /\ Len(d) = Len(c) - 1
      /\ h = c[1] /\ \A i \in 1 .. Len(c) - 1 : d[i] = c[i + 1]
  BY <1>1, LenProperties, EmptySeq, HeadTailProperties
<1>3. CASE how \in Endless
  <2>1. Carries(c, Len(c), heard, out)
    BY <1>3 DEF Delivers, Sending
  <2>2. Len(c) \in Nat /\ Len(c) \in 1 .. Len(c)
    BY <1>2
  <2>3. h.event = "text" /\ h.text \in Text /\ Carries(d, Len(c) - 1, more, out)
    BY <1>1, <2>1, <2>2, TakeOne
  <2> HIDE DEF d, h, more
  <2> QED
    BY <1>2, <1>3, <2>3 DEF Delivers, Sending, d, h, more
<1>4. CASE how \notin Endless
  <2>1. PICK n : Closing(c, heard, out, how, n)
    BY <1>4 DEF Delivers
  <2>2. n \in Nat /\ Len(c) = n + 1 /\ c[n + 1] = End(how) /\ Carries(c, n, heard, out)
    BY <2>1 DEF Closing
  <2>3. CASE n = 0
    <3>1. PICK pre : pre[1] = heard /\ pre[n + 1] = out
      BY <2>2 DEF Carries, Along
    <3>2. heard = out
      BY <2>3, <3>1
    <3>3. h = End(how)
      BY <1>2, <2>2, <2>3
    <3> QED
      BY <1>4, <3>2, <3>3
  <2>4. CASE n # 0
    <3> DEFINE m == n - 1
    <3>1. n \in 1 .. Len(c) /\ m \in Nat /\ Len(d) = m + 1 /\ m + 1 \in 1 .. Len(c) - 1 /\ (m + 1) + 1 = n + 1
      <4> HIDE DEF d, h
      <4> QED
        BY <1>2, <2>2, <2>4
    <3>2. h.event = "text" /\ h.text \in Text /\ Carries(d, m, more, out)
      BY <1>1, <2>2, <3>1, TakeOne
    <3> HIDE DEF d, h, more, m
    <3>3. d[m + 1] = End(how)
      BY <1>2, <2>2, <3>1
    <3>4. Closing(d, more, out, how, m)
      BY <3>1, <3>2, <3>3 DEF Closing
    <3>5. Delivers(d, more, out, how)
      BY <1>2, <1>4, <3>4 DEF Delivers
    <3> QED
      BY <3>2, <3>5 DEF d, h, more
  <2> QED
    BY <2>3, <2>4
<1> QED
  BY <1>3, <1>4

-----------------------------------------------------------------------------
(* What chat_stream holds back: before the marker, what may begin it; from   *)
(* the marker on, all of it.                                                *)
Marked(content, kept) ==
  Occurs(kept, 1, Marker) /\ \A i \in 1 .. Len(content) : ~Occurs(Cat(content, kept), i, Marker)
HoldsBack(content, kept, called) ==
  /\ called => Marked(content, kept)
  /\ ~called => /\ NoStop(Cat(content, kept), Len(kept), {Marker})
                /\ kept # << >> => IsStrictPrefix(kept, Marker)

LEMMA MarkedOn ==
  ASSUME NEW x \in Text, NEW y \in Text, NEW c \in Text, Marked(x, y)
  PROVE  Marked(x, Cat(y, c))
<1> DEFINE buffer == Cat(y, c)
           said == Cat(x, y)
           whole == Cat(said, c)
<1>1. /\ buffer \in Text /\ said \in Text /\ whole \in Text /\ whole = Cat(x, buffer)
      /\ Len(x) \in Nat /\ Len(y) \in Nat /\ Len(c) \in Nat
  BY TextFacts
<1>2. Len(buffer) = Len(y) + Len(c) /\ \A i \in 1 .. Len(y) : buffer[i] = y[i]
  BY CatPlaces
<1>3. Len(said) = Len(x) + Len(y)
  BY CatPlaces
<1> HIDE DEF buffer, said
<1>4. Len(whole) = Len(said) + Len(c) /\ \A i \in 1 .. Len(said) : whole[i] = said[i]
  BY <1>1, CatPlaces
<1> HIDE DEF whole
<1>5. Occurs(y, 1, Marker) /\ \A i \in 1 .. Len(x) : ~Occurs(said, i, Marker)
  BY DEF Marked, said
<1>6. Occurs(buffer, 1, Marker)
  <2>1. buffer \in Seq(Char) /\ y \in Seq(Char) /\ Marker \in Seq(Char) /\ Len(y) <= Len(buffer)
    BY <1>1, <1>2, MarkerText DEF Text
  <2> QED
    BY <1>2, <1>5, <2>1, ClearStart
<1>7. ASSUME NEW i \in 1 .. Len(x), Occurs(whole, i, Marker) PROVE FALSE
  <2>1. Len(Marker) = 2 /\ Marker # << >> /\ 1 + 2 - 1 <= Len(y)
    BY <1>5, MarkerText DEF Occurs
  <2>2. i \in 1 .. Len(said) /\ i + 2 - 1 <= Len(said)
    BY <1>1, <1>3, <2>1
  <2>3. \A j \in 1 .. 2 : i + j - 1 \in 1 .. Len(said)
    BY <1>1, <1>3, <2>2
  <2>4. \A j \in 1 .. 2 : whole[i + j - 1] = Marker[j]
    BY <1>7, <2>1 DEF Occurs
  <2>5. \A j \in 1 .. 2 : said[i + j - 1] = Marker[j]
    BY <1>4, <2>3, <2>4
  <2>6. Occurs(said, i, Marker)
    BY <2>1, <2>2, <2>5 DEF Occurs
  <2> QED
    BY <1>5, <2>6
<1>8. \A i \in 1 .. Len(x) : ~Occurs(Cat(x, buffer), i, Marker)
  BY <1>1, <1>7
<1> QED
  BY <1>6, <1>8 DEF Marked, buffer

(* The step of HoldText, on texts: of `buffer` goes `e` out, and `q` stays.   *)
HoldsOn(buffer, scan, called, e, q) ==
  LET n == IF called THEN 0 ELSE scan.len
  IN  scan = SplitAtStop(buffer, {Marker}) /\ e = SubSeq(buffer, 1, n) /\ q = SubSeq(buffer, n + 1, Len(buffer))

LEMMA HoldMore ==
  ASSUME NEW x \in Text, NEW y \in Text, NEW c \in Text, NEW called \in BOOLEAN, HoldsBack(x, y, called),
         NEW scan, NEW e, NEW q, HoldsOn(Cat(y, c), scan, called, e, q)
  PROVE  /\ Cat(x, e) \in Text /\ q \in Text /\ (called \/ scan.hit) \in BOOLEAN
         /\ Cat(Cat(x, e), q) = Cat(Cat(x, y), c)
         /\ HoldsBack(Cat(x, e), q, called \/ scan.hit)
<1>4. PICK buffer, n : /\ buffer = Cat(y, c) /\ scan = SplitAtStop(buffer, {Marker})
                       /\ n = (IF called THEN 0 ELSE scan.len)
                       /\ e = SubSeq(buffer, 1, n) /\ q = SubSeq(buffer, n + 1, Len(buffer))
  BY DEF HoldsOn
<1>1. buffer \in Text /\ << >> \in Text /\ Cat(Cat(x, y), c) = Cat(x, buffer) /\ Cat(x, << >>) = x
  BY <1>4, TextFacts
<1>2. CASE called
  <2>1. n = 0 /\ e = << >>
    BY <1>1, <1>2, <1>4, SubSeqEmpty
  <2>2. q = buffer
    <3>1. n + 1 = 1 /\ buffer \in Seq(Char)
      BY <1>1, <2>1 DEF Text
    <3> QED
      BY <1>4, <3>1, SubSeqFull
  <2>3. Marked(x, buffer)
    BY <1>2, <1>4, MarkedOn DEF HoldsBack
  <2> QED
    BY <1>1, <1>2, <2>1, <2>2, <2>3 DEF HoldsBack
<1>3. CASE ~called
  <2> DEFINE p == Split(buffer, scan, buffer)
             stops == {Marker}
  <2>1. p.hit = scan.hit /\ p.emit = SubSeq(buffer, 1, scan.len) /\ p.pending = SubSeq(buffer, scan.len + 1, Len(buffer))
    BY DEF Split
  <2>2. n = scan.len
    BY <1>3, <1>4
  <2>3. p.hit = scan.hit /\ p.emit = e /\ p.pending = q
    BY <1>4, <2>1, <2>2
  <2>4. stops \in SUBSET Text
    BY MarkerText
  <2>5. SplitAtStop(buffer, stops) = scan
    BY <1>4
  <2>14. Split(buffer, scan, buffer) = p
    BY Zenon
  <2> HIDE DEF p, stops
  <2>15. p = Split(buffer, SplitAtStop(buffer, stops), buffer)
    BY ONLY <2>5, <2>14
  <2>17. p.hit \in BOOLEAN /\ SplitAs(p, buffer, stops)
    BY ONLY <1>1, <2>4, <2>15, SplitText
  <2>20. PICK e1, q1 \in Text :
           /\ p.emit = e1 /\ p.pending = q1 /\ buffer = Cat(e1, q1)
           /\ p.hit => /\ \E s \in stops : Occurs(buffer, Len(e1) + 1, s)
                       /\ \A s \in stops : \A i \in 1 .. Len(e1) : ~Occurs(buffer, i, s)
           /\ ~p.hit => /\ Clear(buffer, stops) /\ NoneEarlier(buffer, Len(q1), stops)
                        /\ q1 # << >> => \E s \in stops : IsStrictPrefix(q1, s)
    BY ONLY <2>17 DEF SplitAs
  <2>18. e1 = e /\ q1 = q
    BY <2>3, <2>20
  <2>6. /\ scan.hit \in BOOLEAN /\ e \in Text /\ q \in Text /\ buffer = Cat(e, q)
        /\ scan.hit => /\ \E s \in stops : Occurs(buffer, Len(e) + 1, s)
                       /\ \A s \in stops : \A i \in 1 .. Len(e) : ~Occurs(buffer, i, s)
        /\ ~scan.hit => /\ Clear(buffer, stops) /\ NoneEarlier(buffer, Len(q), stops)
                        /\ q # << >> => \E s \in stops : IsStrictPrefix(q, s)
    BY ONLY <2>3, <2>17, <2>18, <2>20
  <2>19. x \in Text /\ y \in Text /\ c \in Text
    OBVIOUS
  <2>7. Cat(x, e) \in Text /\ Cat(Cat(x, e), q) = Cat(Cat(x, y), c) /\ Len(x) \in Nat /\ Len(y) \in Nat /\ Len(e) \in Nat /\ Len(q) \in Nat
    BY ONLY <1>1, <2>6, <2>19, TextFacts
  <2> DEFINE said == Cat(x, y)
             whole == Cat(x, buffer)
  <2>8. said \in Text /\ whole \in Text /\ Grows(said, whole, buffer, Len(x), Len(y))
    BY <1>1, <1>4, CatGrows, TextFacts
  <2>9. NoStop(said, Len(y), stops)
    BY <1>3 DEF HoldsBack, stops
  <2>10. whole = Cat(Cat(x, e), q)
    BY <1>1, <2>7
  <2> HIDE DEF said, whole
  <2>11. /\ \A s \in stops : \A i : Occurs(whole, i, s) => i > Len(x) /\ Occurs(buffer, i - Len(x), s)
         /\ \A h \in Nat : Clear(buffer, stops) /\ NoneEarlier(buffer, h, stops) => NoStop(whole, h, stops)
    BY <1>1, <2>4, <2>8, <2>9, OccursText
  <2>12. CASE scan.hit
    <3>1. /\ Occurs(buffer, Len(e) + 1, Marker) /\ \A i \in 1 .. Len(e) : ~Occurs(buffer, i, Marker)
          /\ \A i : Occurs(whole, i, Marker) => i > Len(x) /\ Occurs(buffer, i - Len(x), Marker)
      BY <2>6, <2>11, <2>12 DEF stops
    <3>2. Occurs(q, 1, Marker)
      <4>1. Behind(buffer, q, Len(e)) /\ 1 \in Nat \ {0} /\ Marker \in Text
        BY ONLY <2>6, CatBehind, MarkerText
      <4>2. PICK one : one = 1
        OBVIOUS
      <4>3. Occurs(buffer, Len(e) + one, Marker) <=> Occurs(q, one, Marker)
        BY <4>1, <4>2, OccursBehind
      <4> QED
        BY <3>1, <4>2, <4>3
    <3>3. Len(Cat(x, e)) = Len(x) + Len(e)
      BY <2>6, CatPlaces
    <3>4. ASSUME NEW i \in 1 .. Len(Cat(x, e)), Occurs(whole, i, Marker) PROVE FALSE
      <4>1. i > Len(x) /\ Occurs(buffer, i - Len(x), Marker)
        BY <3>1, <3>4
      <4> DEFINE a == Len(x)
                 b == Len(e)
      <4>2. i - a \in 1 .. b
        <5>1. a \in Nat /\ b \in Nat /\ i \in 1 .. a + b /\ i > a
          BY <2>7, <3>3, <4>1
        <5> HIDE DEF a, b
        <5> QED
          BY ONLY <5>1
      <4> QED
        BY <3>1, <4>1, <4>2
    <3>5. Marked(Cat(x, e), q)
      BY <2>10, <3>2, <3>4 DEF Marked
    <3> QED
      BY <2>6, <2>7, <2>12, <3>5 DEF HoldsBack
  <2>13. CASE ~scan.hit
    <3>1. NoStop(Cat(Cat(x, e), q), Len(q), {Marker})
      BY <2>6, <2>7, <2>10, <2>11, <2>13 DEF stops
    <3>2. q # << >> => IsStrictPrefix(q, Marker)
      BY <2>6, <2>13 DEF stops
    <3> QED
      BY <1>3, <2>6, <2>7, <2>13, <3>1, <3>2 DEF HoldsBack
  <2> QED
    BY <2>6, <2>12, <2>13
<1> QED
  BY <1>2, <1>3

-----------------------------------------------------------------------------
(* The invariant of the handler: what it has, what it holds back and what is *)
(* in the channel are together what was sent.                               *)
Heard == Cat(answer.content, held)
Listening ==
  /\ answer = [content |-> answer.content, calls |-> << >>, finish |-> "none", counted |-> "none"]
  /\ answer.content \in Text /\ held \in Text /\ in_call \in BOOLEAN
  /\ Delivers(channel, Heard, sent, row)
  /\ Plain => held = << >> /\ ~in_call
  /\ Holding => HoldsBack(answer.content, held, in_call)
StreamInv ==
  /\ row = "idle" => channel = << >> /\ held = << >> /\ in_call = FALSE /\ answer = NoAnswer
  /\ row # "idle" => sent \in Text
  /\ row # "idle" /\ answer.finish = "none" => Listening
  /\ answer.finish # "none" => row # "running" /\ StreamAgrees

(* The answer to a text that is known as a whole. *)
LEMMA WholeFacts ==
  ASSUME NEW text, NEW reason, NEW w, w = Whole(text, reason), NEW scan, scan = Scan(text, reply.types)
  PROVE  /\ reply.tools /\ ~scan.truncated /\ scan.calls # << >> =>
              w.content = scan.leading /\ w.calls = scan.calls /\ w.finish = "tool_calls"
         /\ ~(reply.tools /\ ~scan.truncated /\ scan.calls # << >>) =>
              w.content = text /\ w.calls = << >> /\ w.finish = reason
<1>1. w = Parsed(text, reason, scan)
  BY DEF Whole
<1>2. CASE reply.tools /\ ~scan.truncated /\ scan.calls # << >>
  <2>1. w = [content |-> scan.leading, calls |-> scan.calls, finish |-> "tool_calls"]
    BY <1>1, <1>2 DEF Parsed
  <2> QED
    BY ONLY <1>2, <2>1
<1>3. CASE ~(reply.tools /\ ~scan.truncated /\ scan.calls # << >>)
  <2>1. w = [Without(reason) EXCEPT !.content = text]
    BY <1>1, <1>3 DEF Parsed
  <2>2. Without(reason) = [content |-> << >>, calls |-> << >>, finish |-> reason]
    BY DEF Without
  <2>3. w = [content |-> text, calls |-> << >>, finish |-> reason]
    BY ONLY <2>1, <2>2
  <2> QED
    BY ONLY <1>3, <2>3
<1> QED
  BY ONLY <1>2, <1>3

(* What a stream ends with, on texts: content `x`, held back `y`. *)
LEMMA EndsAlike ==
  ASSUME NEW x \in Text, NEW y \in Text, reply.tools \in BOOLEAN, NEW called \in BOOLEAN,
         ~reply.tools => y = << >> /\ ~called, reply.tools => HoldsBack(x, y, called),
         NEW reason, NEW last, last = IF called THEN Whole(y, reason) ELSE Without(reason),
         NEW whole, whole = Whole(Cat(x, y), reason)
  PROVE  /\ Trim(Cat(Cat(x, last.content), IF reply.tools /\ ~called THEN y ELSE << >>)) = Trim(whole.content)
         /\ last.calls = whole.calls /\ last.finish = whole.finish /\ last.finish \in {"tool_calls", reason}
         /\ (IF reply.tools /\ ~called THEN y ELSE << >>) # << >> =>
              IsStrictPrefix(IF reply.tools /\ ~called THEN y ELSE << >>, Marker)
<1> DEFINE t == Cat(x, y)
           scan == Scan(t, reply.types)
           part == Scan(y, reply.types)
           more == IF reply.tools /\ ~called THEN y ELSE << >>
<1>1. t \in Text /\ Cat(x, << >>) = x /\ Cat(t, << >>) = t
  BY TextFacts
<1>2. whole = Whole(t, reason) /\ scan = Scan(t, reply.types) /\ part = Scan(y, reply.types)
  OBVIOUS
<1> HIDE DEF t, scan, part
<1>3. /\ reply.tools /\ ~scan.truncated /\ scan.calls # << >> =>
           whole.content = scan.leading /\ whole.calls = scan.calls /\ whole.finish = "tool_calls"
      /\ ~(reply.tools /\ ~scan.truncated /\ scan.calls # << >>) =>
           whole.content = t /\ whole.calls = << >> /\ whole.finish = reason
  BY ONLY <1>2, WholeFacts
<1>4. CASE ~called
  <2>1. last = Without(reason)
    BY ONLY <1>4, last = IF called THEN Whole(y, reason) ELSE Without(reason)
  <2>2. last.content = << >> /\ last.calls = << >> /\ last.finish = reason
    BY ONLY <2>1 DEF Without
  <2>3. Cat(x, more) = t
    BY <1>1, <1>4 DEF t
  <2>4. reply.tools => scan.calls = << >>
    <3> SUFFICES ASSUME reply.tools PROVE scan.calls = << >>
      OBVIOUS
    <3>1. Clear(t, {Marker})
      BY <1>4 DEF HoldsBack, NoStop, t
    <3> QED
      BY ONLY <1>1, <1>2, <3>1, ScanNone
  <2>5. whole.content = t /\ whole.calls = << >> /\ whole.finish = reason
    BY ONLY <1>3, <2>4
  <2>7. more # << >> => IsStrictPrefix(more, Marker)
    BY <1>4 DEF HoldsBack
  <2> HIDE DEF more
  <2>6. Trim(Cat(Cat(x, last.content), more)) = Trim(whole.content)
    BY ONLY <1>1, <2>2, <2>3, <2>5
  <2> QED
    BY ONLY <2>2, <2>5, <2>6, <2>7 DEF more
<1>5. CASE called
  <2>1. reply.tools /\ last = Whole(y, reason) /\ Marked(x, y)
    BY <1>5 DEF HoldsBack
  <2>2. more = << >>
    BY <1>5
  <2>3. /\ scan.calls = part.calls /\ scan.truncated = part.truncated
        /\ scan.leading = Trim(x) /\ part.leading = << >>
    <3>1. Occurs(y, 1, Marker) /\ \A i \in 1 .. Len(x) : ~Occurs(Cat(x, y), i, Marker)
      BY ONLY <2>1 DEF Marked
    <3>2. x \in Text /\ y \in Text
      OBVIOUS
    <3> QED
      BY ONLY <1>2, <3>1, <3>2, ScanBehind DEF t
  <2>4. /\ reply.tools /\ ~part.truncated /\ part.calls # << >> =>
             last.content = part.leading /\ last.calls = part.calls /\ last.finish = "tool_calls"
        /\ ~(reply.tools /\ ~part.truncated /\ part.calls # << >>) =>
             last.content = y /\ last.calls = << >> /\ last.finish = reason
    BY ONLY <1>2, <2>1, WholeFacts
  <2> HIDE DEF more
  <2>5. CASE ~part.truncated /\ part.calls # << >>
    <3>1. last.content = << >> /\ last.calls = part.calls /\ last.finish = "tool_calls"
      BY ONLY <2>1, <2>3, <2>4, <2>5
    <3>2. whole.content = Trim(x) /\ whole.calls = part.calls /\ whole.finish = "tool_calls"
      BY ONLY <1>3, <2>1, <2>3, <2>5
    <3>3. x \in Text
      OBVIOUS
    <3>4. Trim(Cat(Cat(x, last.content), more)) = Trim(whole.content)
      BY ONLY <1>1, <2>2, <3>1, <3>2, <3>3, TrimFacts
    <3> QED
      BY ONLY <2>2, <3>1, <3>2, <3>4 DEF more
  <2>6. CASE ~(~part.truncated /\ part.calls # << >>)
    <3>1. last.content = y /\ last.calls = << >> /\ last.finish = reason
      BY ONLY <2>1, <2>4, <2>6
    <3>2. whole.content = t /\ whole.calls = << >> /\ whole.finish = reason
      BY ONLY <1>3, <2>1, <2>3, <2>6
    <3>3. Cat(x, last.content) = t
      BY ONLY <3>1 DEF t
    <3>4. Trim(Cat(Cat(x, last.content), more)) = Trim(whole.content)
      BY ONLY <1>1, <2>2, <3>2, <3>3
    <3> QED
      BY ONLY <2>2, <3>1, <3>2, <3>4 DEF more
  <2> QED
    BY ONLY <2>5, <2>6
<1> QED
  BY ONLY <1>4, <1>5, called \in BOOLEAN

-----------------------------------------------------------------------------
(* The steps of the worker. *)
LEMMA Sends ==
  ASSUME StreamInv, row = "running", UNCHANGED handler, reply' = reply, sent' \in Text, row' # "idle",
         Delivers(channel', Heard, sent', row')
  PROVE  StreamInv'
<1>1. Listening /\ answer' = answer /\ held' = held /\ in_call' = in_call
  BY DEF StreamInv, handler
<1>2. Heard' = Heard /\ Plain' = Plain /\ Holding' = Holding
  BY <1>1 DEF Heard, Plain, Holding
<1>3. Listening'
  BY <1>1, <1>2 DEF Listening
<1>4. answer'.finish = "none"
  BY <1>1 DEF StreamInv
<1> QED
  BY <1>3, <1>4 DEF StreamInv

LEMMA RunningSends ==
  ASSUME ReplyInv, StreamInv, row = "running"
  PROVE  /\ Sending(channel, Heard, sent) /\ sent \in Text /\ Generating /\ reply \in Replies
         /\ MaxToken \in Nat
<1>1. Listening
  BY DEF StreamInv
<1>2. Sending(channel, Heard, sent)
  BY <1>1 DEF Listening, Delivers, Endless
<1> QED
  BY <1>2, ReplyTexts DEF ReplyInv, StreamInv

LEMMA FinishSends ==
  ASSUME Sending(channel, Heard, sent), sent \in Text, NEW e \in Text, NEW q \in Text, NEW part \in Text,
         NEW reason, NEW how, how \notin Endless, DoneEvent(reason) = << End(how) >>, Finish(e, q, part, reason, how)
  PROVE  sent' \in Text /\ Delivers(channel', Heard, sent', how)
<1> DEFINE last == Lossy(part)
           more == Cat(q, last)
           first == channel \o TextEvent(e)
           both == first \o TextEvent(more)
<1>1. last \in Text /\ more \in Text /\ Cat(sent, e) \in Text
  BY TextFacts
<1>2. channel' = both \o << End(how) >> /\ sent' = sent \o e \o q \o last
  BY DEF Finish, Cat
<1>3. sent' = Cat(Cat(sent, e), more) /\ sent' \in Text
  <2>1. sent' = Cat(Cat(Cat(sent, e), q), last)
    BY <1>2 DEF Cat
  <2> HIDE DEF last
  <2> QED
    BY <1>1, <2>1, TextFacts
<1> HIDE DEF last, more, first, both
<1>4. Sending(first, Heard, Cat(sent, e))
  BY SendText DEF first
<1>5. Sending(both, Heard, Cat(Cat(sent, e), more))
  BY <1>1, <1>4, SendText DEF both
<1> QED
  BY <1>2, <1>3, <1>5, SendEnd

LEMMA StopsSends ==
  ASSUME ReplyInv, StreamInv, NEW n \in 1 .. MaxToken, TokenStops(n)
  PROVE  StreamInv'
<1>1. /\ row = "running" /\ at + n <= Len(reply.bytes) /\ reply' = reply /\ row' = "stopped" /\ UNCHANGED handler
      /\ Finish(Pushed(n).emit, << >>, Pushed(n).partial, "stop", "stopped")
  BY DEF TokenStops, Generates, StopsWith, Finish
<1>2. /\ Sending(channel, Heard, sent) /\ sent \in Text /\ Generating /\ reply \in Replies /\ n \in Nat \ {0}
  BY <1>1, RunningSends
<1>3. PICK e, q, rest \in Text : Pushed(n).emit = e /\ Pushed(n).pending = q /\ Pushed(n).partial = rest
  BY <1>1, <1>2, TokenStep DEF Tells
<1>4. Finish(e, << >>, rest, "stop", "stopped")
  BY <1>1, <1>3
<1>5. DoneEvent("stop") = << End("stopped") >> /\ << >> \in Text /\ "stopped" \notin Endless
  BY TextFacts DEF DoneEvent, End, Endless
<1>6. sent' \in Text /\ Delivers(channel', Heard, sent', "stopped")
  BY <1>2, <1>4, <1>5, FinishSends
<1> QED
  BY <1>1, <1>6, Sends

LEMMA LastSends ==
  ASSUME ReplyInv, StreamInv, NEW n \in 1 .. MaxToken, TokenIsLast(n)
  PROVE  StreamInv'
<1>1. /\ row = "running" /\ at + n <= Len(reply.bytes) /\ reply' = reply /\ row' = "length" /\ UNCHANGED handler
      /\ Finish(Pushed(n).emit, Pushed(n).pending, Pushed(n).partial, "length", "length")
  BY DEF TokenIsLast, Generates, LastWith, Finish
<1>2. /\ Sending(channel, Heard, sent) /\ sent \in Text /\ Generating /\ reply \in Replies /\ n \in Nat \ {0}
  BY <1>1, RunningSends
<1>3. PICK e, q, rest \in Text : Pushed(n).emit = e /\ Pushed(n).pending = q /\ Pushed(n).partial = rest
  BY <1>1, <1>2, TokenStep DEF Tells
<1>4. Finish(e, q, rest, "length", "length")
  BY <1>1, <1>3
<1>5. DoneEvent("length") = << End("length") >> /\ "length" \notin Endless
  BY DEF DoneEvent, End, Endless
<1>6. sent' \in Text /\ Delivers(channel', Heard, sent', "length")
  BY <1>2, <1>4, <1>5, FinishSends
<1> QED
  BY <1>1, <1>6, Sends

LEMMA GoesOnSends ==
  ASSUME ReplyInv, StreamInv, NEW n \in 1 .. MaxToken, TokenGoesOn(n)
  PROVE  StreamInv'
<1>1. /\ row = "running" /\ at + n <= Len(reply.bytes) /\ reply' = reply /\ row' = row /\ UNCHANGED handler
      /\ channel' = channel \o TextEvent(Pushed(n).emit) /\ sent' = Cat(sent, Pushed(n).emit)
  BY DEF TokenGoesOn, Generates, GoesOnWith, Cat
<1>2. /\ Sending(channel, Heard, sent) /\ sent \in Text /\ Generating /\ reply \in Replies /\ n \in Nat \ {0}
  BY <1>1, RunningSends
<1>3. PICK e, q, rest \in Text : Pushed(n).emit = e /\ Pushed(n).pending = q /\ Pushed(n).partial = rest
  BY <1>1, <1>2, TokenStep DEF Tells
<1>4. channel' = channel \o TextEvent(e) /\ sent' = Cat(sent, e) /\ sent' \in Text
  BY <1>1, <1>2, <1>3, TextFacts
<1>5. Sending(channel \o TextEvent(e), Heard, Cat(sent, e))
  BY <1>2, SendText
<1>6. Delivers(channel', Heard, sent', row')
  BY <1>1, <1>4, <1>5 DEF Delivers, Endless
<1> QED
  BY <1>1, <1>4, <1>6, Sends

LEMMA EndsSends ==
  ASSUME ReplyInv, StreamInv, EndsByItself
  PROVE  StreamInv'
<1>1. /\ row = "running" /\ reply' = reply /\ row' = "ended" /\ UNCHANGED handler
      /\ Finish(<< >>, pending, partial, "stop", "ended")
  BY DEF EndsByItself, Finish
<1>2. Sending(channel, Heard, sent) /\ sent \in Text /\ pending \in Text /\ partial \in Text
  BY <1>1, RunningSends DEF Generating
<1>3. DoneEvent("stop") = << End("ended") >> /\ << >> \in Text /\ "ended" \notin Endless
  BY TextFacts DEF DoneEvent, End, Endless
<1>4. sent' \in Text /\ Delivers(channel', Heard, sent', "ended")
  BY <1>1, <1>2, <1>3, FinishSends
<1> QED
  BY <1>1, <1>4, Sends

LEMMA FailsSends ==
  ASSUME ReplyInv, StreamInv, RowFails
  PROVE  StreamInv'
<1>1. /\ row = "running" /\ reply' = reply /\ row' = "failed" /\ UNCHANGED handler /\ sent' = sent
      /\ channel' = Append(channel, End("failed"))
  BY DEF RowFails, End
<1>2. Sending(channel, Heard, sent) /\ sent \in Text /\ "failed" \notin Endless
  BY <1>1, RunningSends DEF Endless
<1>3. channel' = channel \o << End("failed") >>
  <2>1. channel \in Seq(Event) /\ End("failed") \in Event
    BY <1>2, EndEvent DEF Sending
  <2> QED
    BY <1>1, <2>1, AppendIsConcat
<1>4. Delivers(channel', Heard, sent', "failed")
  BY <1>1, <1>2, <1>3, SendEnd
<1> QED
  BY <1>1, <1>2, <1>4, Sends

LEMMA DiesSends ==
  ASSUME ReplyInv, StreamInv, WorkerDies
  PROVE  StreamInv'
<1>1. /\ row = "running" /\ reply' = reply /\ row' = "dead" /\ UNCHANGED handler /\ sent' = sent
      /\ channel' = channel
  BY DEF WorkerDies
<1>2. Sending(channel, Heard, sent) /\ sent \in Text
  BY <1>1, RunningSends
<1>3. Delivers(channel', Heard, sent', row')
  BY <1>1, <1>2 DEF Delivers, Endless
<1> QED
  BY <1>1, <1>2, <1>3, Sends

LEMMA AskSends ==
  ASSUME ReplyInv, StreamInv, NEW r \in Replies, Ask(r)
  PROVE  StreamInv'
<1>1. /\ row = "idle" /\ row' = "running" /\ sent' = sent /\ channel' = channel
      /\ answer' = answer /\ held' = held /\ in_call' = in_call
  BY DEF Ask, handler
<1>2. sent = << >> /\ channel = << >> /\ held = << >> /\ in_call = FALSE /\ answer = NoAnswer
  BY <1>1 DEF ReplyInv, StreamInv
<1>3. /\ answer = [content |-> answer.content, calls |-> << >>, finish |-> "none", counted |-> "none"]
      /\ answer.content = << >>
  BY <1>2 DEF NoAnswer
<1>4. << >> \in Text /\ Cat(<< >>, << >>) = << >> /\ Len(<< >>) = 0
  BY TextFacts, EmptySeq
<1>5. NoStop(<< >>, 0, {Marker})
  <2>1. \A i : ~(i \in 1 .. Len(<< >>))
    BY <1>4
  <2> QED
    BY <2>1 DEF NoStop, Clear, NoneEarlier
<1>6. HoldsBack(<< >>, << >>, FALSE)
  BY <1>4, <1>5 DEF HoldsBack
<1>7. Sending(<< >>, << >>, << >>)
  <2> DEFINE pre == [ i \in 1 .. 0 + 1 |-> << >> ]
  <2>1. pre \in [1 .. 0 + 1 -> Text] /\ pre[1] = << >> /\ pre[0 + 1] = << >>
    BY <1>4
  <2> HIDE DEF pre
  <2>2. \A i : ~(i \in 1 .. 0)
    OBVIOUS
  <2>3. Along(<< >>, 0, << >>, << >>, pre)
    BY <2>1, <2>2 DEF Along
  <2>4. << >> \in Seq(Event) /\ Len(<< >>) = 0
    BY EmptySeq
  <2> QED
    BY <2>3, <2>4 DEF Sending, Carries
<1>8. Heard' = << >>
  BY <1>1, <1>2, <1>3, <1>4 DEF Heard
<1>9. Listening'
  BY <1>1, <1>2, <1>3, <1>4, <1>6, <1>7, <1>8 DEF Listening, Delivers, Endless
<1>10. answer'.finish = "none"
  BY <1>1, <1>3
<1> QED
  BY <1>1, <1>2, <1>4, <1>9, <1>10 DEF StreamInv

-----------------------------------------------------------------------------
(* The steps of the handlers. *)
LEMMA Hears ==
  ASSUME StreamInv, NEW event, Receives(event)
  PROVE  /\ row # "idle" /\ Listening /\ sent \in Text /\ Head(channel).event = event
         /\ UNCHANGED worker /\ channel' = Tail(channel)
         /\ event = "text" => /\ Head(channel).text \in Text
                              /\ Delivers(channel', Cat(Heard, Head(channel).text), sent, row)
         /\ event # "text" => row \notin Endless /\ Head(channel) = End(row) /\ Heard = sent
<1>1. channel # << >> /\ Head(channel).event = event /\ answer.finish = "none" /\ channel' = Tail(channel) /\ UNCHANGED worker
  BY DEF Receives
<1>2. row # "idle" /\ Listening /\ sent \in Text
  BY <1>1 DEF StreamInv
<1>3. Delivers(channel, Heard, sent, row)
  BY <1>2 DEF Listening
<1>4. \/ Head(channel).event = "text" /\ Head(channel).text \in Text /\ Delivers(Tail(channel), Cat(Heard, Head(channel).text), sent, row)
      \/ row \notin Endless /\ Head(channel) = End(row) /\ Heard = sent
  BY <1>1, <1>3, Receipt
<1>5. End(row).event # "text"
  BY EndEvent
<1> QED
  BY <1>1, <1>2, <1>4, <1>5

LEMMA StillListens ==
  ASSUME StreamInv, row # "idle", UNCHANGED worker, Listening'
  PROVE  StreamInv'
<1>1. row' = row /\ sent' = sent /\ sent \in Text
  BY DEF worker, StreamInv
<1>2. answer'.finish = "none"
  BY DEF Listening
<1> QED
  BY <1>1, <1>2 DEF StreamInv

LEMMA HasAnswered ==
  ASSUME StreamInv, row # "idle", row # "running", UNCHANGED worker, answer'.finish # "none", StreamAgrees'
  PROVE  StreamInv'
<1>1. row' = row /\ sent' = sent /\ sent \in Text
  BY DEF worker, StreamInv
<1> QED
  BY <1>1 DEF StreamInv

LEMMA TextIsStreamed ==
  ASSUME StreamInv, StreamText
  PROVE  StreamInv'
<1> DEFINE text == Head(channel).text
<1>1. /\ row # "idle" /\ Listening /\ UNCHANGED worker /\ text \in Text
      /\ Delivers(channel', Cat(Heard, text), sent, row)
  BY Hears DEF StreamText
<1>2. Plain /\ answer' = [answer EXCEPT !.content = Cat(@, text)] /\ held' = held /\ in_call' = in_call
  BY DEF StreamText, Cat
<1>3. row' = row /\ sent' = sent /\ reply' = reply
  BY <1>1 DEF worker
<1>4. /\ answer = [content |-> answer.content, calls |-> << >>, finish |-> "none", counted |-> "none"]
      /\ answer.content \in Text /\ held = << >> /\ ~in_call /\ held \in Text /\ in_call \in BOOLEAN
  BY <1>1, <1>2 DEF Listening
<1> HIDE DEF text
<1>5. /\ answer' = [content |-> Cat(answer.content, text), calls |-> << >>, finish |-> "none", counted |-> "none"]
      /\ answer'.content = Cat(answer.content, text)
  BY <1>2, <1>4
<1>6. Cat(answer.content, text) \in Text /\ Heard' = Cat(Heard, text)
  BY <1>1, <1>2, <1>4, <1>5, TextFacts DEF Heard
<1>7. ~Holding'
  BY <1>2, <1>3 DEF Plain, Holding
<1>8. Listening'
  BY <1>1, <1>2, <1>3, <1>4, <1>5, <1>6, <1>7 DEF Listening
<1> QED
  BY <1>1, <1>8, StillListens

LEMMA TextIsCollected ==
  ASSUME StreamInv, CollectText
  PROVE  StreamInv'
<1> DEFINE text == Head(channel).text
<1>1. /\ row # "idle" /\ Listening /\ UNCHANGED worker /\ text \in Text
      /\ Delivers(channel', Cat(Heard, text), sent, row)
  BY Hears DEF CollectText
<1>2. ~reply.stream /\ answer' = answer /\ held' = Cat(held, text) /\ in_call' = in_call
  BY DEF CollectText, Cat
<1>3. row' = row /\ sent' = sent /\ reply' = reply
  BY <1>1 DEF worker
<1>4. answer.content \in Text /\ held \in Text
  BY <1>1 DEF Listening
<1> HIDE DEF text
<1>5. held' \in Text /\ Heard' = Cat(Heard, text)
  <2> DEFINE x == answer.content
             y == Cat(held, text)
  <2>1. x \in Text /\ held \in Text /\ text \in Text
    BY <1>1, <1>4
  <2>2. answer'.content = x /\ held' = y
    BY <1>2
  <2> HIDE DEF x
  <2>3. y \in Text /\ Cat(x, y) = Cat(Cat(x, held), text)
    BY <2>1, TextFacts
  <2> HIDE DEF y
  <2>4. Heard' = Cat(x, y) /\ Heard = Cat(x, held)
    BY <2>2 DEF Heard, x
  <2> QED
    BY <2>2, <2>3, <2>4
<1>6. ~Holding' /\ ~Plain'
  BY <1>2, <1>3 DEF Plain, Holding
<1>7. Listening'
  BY <1>1, <1>2, <1>3, <1>5, <1>6 DEF Listening
<1> QED
  BY <1>1, <1>7, StillListens

LEMMA TextIsHeld ==
  ASSUME StreamInv, HoldText
  PROVE  StreamInv'
<1> DEFINE text   == Head(channel).text
           buffer == Cat(held, text)
           scan   == SplitAtStop(buffer, {Marker})
           n      == IF in_call THEN 0 ELSE scan.len
           e      == SubSeq(buffer, 1, n)
           q      == SubSeq(buffer, n + 1, Len(buffer))
<1>1. /\ row # "idle" /\ Listening /\ UNCHANGED worker /\ text \in Text
      /\ Delivers(channel', Cat(Heard, text), sent, row)
  BY Hears DEF HoldText
<1>2. /\ Holding /\ in_call' = (in_call \/ scan.hit) /\ held' = q
      /\ answer' = [answer EXCEPT !.content = Cat(@, e)]
  BY DEF HoldText, ScansHeld, Cat
<1>3. row' = row /\ sent' = sent /\ reply' = reply
  BY <1>1 DEF worker
<1>4. /\ answer = [content |-> answer.content, calls |-> << >>, finish |-> "none", counted |-> "none"]
      /\ answer.content \in Text /\ held \in Text /\ in_call \in BOOLEAN /\ HoldsBack(answer.content, held, in_call)
  BY <1>1, <1>2 DEF Listening
<1>5. /\ Cat(answer.content, e) \in Text /\ q \in Text /\ (in_call \/ scan.hit) \in BOOLEAN
      /\ Cat(Cat(answer.content, e), q) = Cat(Cat(answer.content, held), text)
      /\ HoldsBack(Cat(answer.content, e), q, in_call \/ scan.hit)
  <2> DEFINE x == answer.content
  <2>1. x \in Text /\ HoldsBack(x, held, in_call)
    BY <1>4
  <2>2. HoldsOn(Cat(held, text), scan, in_call, e, q)
    BY DEF HoldsOn
  <2> HIDE DEF x, text, buffer, scan, n, e, q
  <2>3. /\ Cat(x, e) \in Text /\ q \in Text /\ (in_call \/ scan.hit) \in BOOLEAN
        /\ Cat(Cat(x, e), q) = Cat(Cat(x, held), text)
        /\ HoldsBack(Cat(x, e), q, in_call \/ scan.hit)
    BY ONLY <1>1, <1>4, <2>1, <2>2, HoldMore
  <2> QED
    BY <2>3 DEF x
<1> HIDE DEF text, buffer, scan, n, e, q
<1>6. /\ answer' = [content |-> Cat(answer.content, e), calls |-> << >>, finish |-> "none", counted |-> "none"]
      /\ answer'.content = Cat(answer.content, e)
  BY <1>2, <1>4
<1>7. Heard' = Cat(Heard, text)
  BY <1>2, <1>5, <1>6 DEF Heard
<1>8. ~Plain'
  BY <1>2, <1>3 DEF Plain, Holding
<1>9. HoldsBack(answer.content, held, in_call)'
  BY <1>2, <1>5, <1>6
<1>10. Listening'
  BY <1>1, <1>2, <1>3, <1>5, <1>6, <1>7, <1>8, <1>9 DEF Listening
<1> QED
  BY <1>1, <1>10, StillListens

(* How the row ended is what Done says. *)
LEMMA HearsDone ==
  ASSUME StreamInv, Receives("done")
  PROVE  /\ row # "idle" /\ row \notin Endless /\ Listening /\ sent \in Text /\ UNCHANGED worker /\ Heard = sent
         /\ Head(channel).reason = IF row = "length" THEN "length" ELSE "stop"
<1>1. /\ row # "idle" /\ Listening /\ sent \in Text /\ Head(channel).event = "done" /\ UNCHANGED worker
      /\ row \notin Endless /\ Head(channel) = End(row) /\ Heard = sent
  BY Hears
<1>2. row # "failed"
  BY <1>1, EndEvent
<1>3. Head(channel).reason = IF row = "length" THEN "length" ELSE "stop"
  <2> DEFINE reason == IF row = "length" THEN "length" ELSE "stop"
  <2>1. Head(channel) = [event |-> "done", reason |-> reason]
    BY <1>1, <1>2 DEF End
  <2> HIDE DEF reason
  <2>2. Head(channel).reason = reason
    BY <2>1
  <2> QED
    BY <2>2 DEF reason
<1> QED
  BY <1>1, <1>3

(* What is left when everything has been read and nobody sends any more. *)
LEMMA HearsNobody ==
  ASSUME StreamInv, Deserted
  PROVE  row = "dead" /\ Listening /\ sent \in Text /\ UNCHANGED worker /\ Heard = sent
<1>1. row = "dead" /\ channel = << >> /\ answer.finish = "none" /\ UNCHANGED worker
  BY DEF Deserted
<1>2. Listening /\ sent \in Text
  BY <1>1 DEF StreamInv
<1>3. Carries(<< >>, 0, Heard, sent)
  <2>1. Carries(channel, Len(channel), Heard, sent)
    BY <1>1, <1>2 DEF Listening, Delivers, Endless, Sending
  <2> QED
    BY <1>1, <2>1, EmptySeq
<1>4. PICK pre : pre[1] = Heard /\ pre[0 + 1] = sent
  BY <1>3 DEF Carries, Along
<1>5. Heard = sent
  BY <1>4
<1> QED
  BY <1>1, <1>2, <1>5

LEMMA StreamEnded ==
  ASSUME ReplyInv, StreamInv, row # "idle", row # "running", Listening, Heard = sent, UNCHANGED worker,
         StreamEnds(EndReason, IF row = "dead" THEN "none" ELSE "ok")
  PROVE  StreamInv'
<1> DEFINE reason  == EndReason
           counted == IF row = "dead" THEN "none" ELSE "ok"
           x       == answer.content
           last    == IF in_call THEN Whole(held, reason) ELSE Without(reason)
           whole   == Whole(Cat(x, held), reason)
           missing == IF reply.tools /\ ~in_call THEN held ELSE << >>
<1>1. Cat(x, held) = sent
  BY DEF Heard
<1>2. reply.stream /\ held' = held /\ in_call' = in_call
  BY DEF StreamEnds
<1>3. /\ x \in Text /\ held \in Text /\ in_call \in BOOLEAN
      /\ Plain => held = << >> /\ ~in_call
      /\ Holding => HoldsBack(x, held, in_call)
  BY DEF Listening
<1>4. answer' = [content |-> Cat(x, last.content), calls |-> last.calls, finish |-> last.finish, counted |-> counted]
  BY <1>3 DEF StreamEnds, Report, Cat
<1>5. reply.tools \in BOOLEAN
  BY ReplyTexts DEF ReplyInv
<1>6. /\ ~reply.tools => held = << >> /\ ~in_call
      /\ reply.tools => HoldsBack(x, held, in_call)
  BY <1>2, <1>3 DEF Plain, Holding
<1>7. reply' = reply /\ row' = row /\ sent' = sent
  BY DEF worker
<1>8. reason' = reason /\ whole = Whole(sent, reason) /\ counted' = counted /\ missing' = missing
  BY <1>1, <1>2, <1>7 DEF EndReason
<1>9. Whole(sent, reason)' = Whole(sent, reason)
  BY <1>7, <1>8 DEF Whole, Parsed, Without
<1>10. last = (IF in_call THEN Whole(held, reason) ELSE Without(reason)) /\ whole = Whole(Cat(x, held), reason)
       /\ missing = IF reply.tools /\ ~in_call THEN held ELSE << >>
  OBVIOUS
<1>11. reason \in {"length", "stop"} /\ Unsent' = missing'
  BY DEF EndReason, Unsent
<1>12. StreamAgrees' = (reply' # NoReply /\ reply'.stream /\ answer'.finish \notin {"none", "error"} =>
                          /\ SaysBut(Unsent, Whole(sent, reason))'
                          /\ Unsent' # << >> => IsStrictPrefix(Unsent', Marker)
                          /\ answer'.counted = counted')
  BY DEF StreamAgrees
<1>13. answer'.counted = counted'
  BY <1>4, <1>8
<1> HIDE DEF last, whole, reason, counted, missing, x
<1>14. /\ Trim(Cat(Cat(x, last.content), missing)) = Trim(whole.content)
       /\ last.calls = whole.calls /\ last.finish = whole.finish /\ last.finish \in {"tool_calls", reason}
       /\ missing # << >> => IsStrictPrefix(missing, Marker)
  BY ONLY <1>3, <1>5, <1>6, <1>10, EndsAlike
<1>15. /\ answer'.content = Cat(x, last.content) /\ answer'.calls = last.calls
       /\ answer'.finish = last.finish /\ answer'.finish # "none"
  BY <1>4, <1>11, <1>14
<1>16. Unsent' = missing
  BY <1>8, <1>11
<1>17. SaysBut(Unsent, Whole(sent, reason))'
  BY <1>8, <1>9, <1>14, <1>15, <1>16 DEF SaysBut, Cat
<1>18. StreamAgrees'
  BY <1>12, <1>13, <1>14, <1>16, <1>17
<1> QED
  BY <1>15, <1>18, HasAnswered

LEMMA StreamIsDone ==
  ASSUME ReplyInv, StreamInv, StreamDone
  PROVE  StreamInv'
<1>1. /\ row # "idle" /\ row \notin Endless /\ Listening /\ UNCHANGED worker /\ Heard = sent
      /\ Head(channel).reason = EndReason
  BY HearsDone DEF StreamDone, EndReason
<1>2. row # "running" /\ row # "dead"
  BY <1>1 DEF Endless
<1>3. StreamEnds(EndReason, "ok")
  BY <1>1 DEF StreamDone
<1>4. "ok" = IF row = "dead" THEN "none" ELSE "ok"
  BY <1>2
<1> QED
  BY <1>1, <1>2, <1>3, <1>4, StreamEnded

LEMMA StreamIsClosed ==
  ASSUME ReplyInv, StreamInv, StreamClosed
  PROVE  StreamInv'
<1>1. row = "dead" /\ Listening /\ UNCHANGED worker /\ Heard = sent
  BY HearsNobody DEF StreamClosed
<1>2. EndReason = "stop" /\ "none" = IF row = "dead" THEN "none" ELSE "ok"
  BY <1>1 DEF EndReason
<1>3. StreamEnds(EndReason, IF row = "dead" THEN "none" ELSE "ok")
  BY <1>2 DEF StreamClosed
<1>4. row # "idle" /\ row # "running"
  BY <1>1
<1> QED
  BY <1>1, <1>3, <1>4, StreamEnded

LEMMA CollectIsDone ==
  ASSUME StreamInv, CollectDone
  PROVE  StreamInv'
<1> DEFINE reason == IF row = "length" THEN "length" ELSE "stop"
           last   == Whole(held, reason)
<1>1. row # "idle" /\ row # "running" /\ UNCHANGED worker /\ Head(channel).reason = reason
  BY HearsDone DEF CollectDone, Endless
<1>2. ~reply.stream /\ answer'.finish = last.finish
  BY <1>1 DEF CollectDone, Report
<1>3. last = Whole(held, reason) /\ reason \in {"length", "stop"}
  OBVIOUS
<1> HIDE DEF last, reason
<1>4. last.finish \in {"tool_calls", reason}
  BY ONLY <1>3, WholeFacts
<1>5. answer'.finish # "none"
  BY <1>2, <1>3, <1>4
<1>6. StreamAgrees'
  BY <1>1, <1>2 DEF StreamAgrees, worker
<1> QED
  BY <1>1, <1>5, <1>6, HasAnswered

LEMMA ErrorIsAnswered ==
  ASSUME StreamInv, row # "idle", row # "running", Listening, UNCHANGED worker,
         answer' = [answer EXCEPT !.finish = "error", !.counted = "error"]
  PROVE  StreamInv'
<1>1. answer = [content |-> answer.content, calls |-> << >>, finish |-> "none", counted |-> "none"]
  BY DEF Listening
<1>2. answer'.finish = "error"
  BY <1>1
<1>3. StreamAgrees'
  BY <1>2 DEF StreamAgrees
<1> QED
  BY <1>2, <1>3, HasAnswered

LEMMA CollectIsClosed ==
  ASSUME StreamInv, CollectClosed
  PROVE  StreamInv'
<1>1. row = "dead" /\ Listening /\ UNCHANGED worker
  BY HearsNobody DEF CollectClosed
<1>2. row # "idle" /\ row # "running"
  BY <1>1
<1> QED
  BY <1>1, <1>2, ErrorIsAnswered DEF CollectClosed

LEMMA FailureIsHeard ==
  ASSUME StreamInv, HandlerFailed
  PROVE  StreamInv'
<1>1. row # "idle" /\ row # "running" /\ UNCHANGED worker /\ Listening
  BY Hears DEF HandlerFailed, Endless
<1> QED
  BY <1>1, ErrorIsAnswered DEF HandlerFailed

LEMMA NothingHappens ==
  ASSUME StreamInv, UNCHANGED replyvars
  PROVE  StreamInv'
<1>1. /\ reply' = reply /\ row' = row /\ sent' = sent /\ channel' = channel
      /\ held' = held /\ in_call' = in_call /\ answer' = answer
  BY DEF replyvars, worker, handler
<1>2. Listening' = Listening
  BY <1>1 DEF Listening, Heard, Plain, Holding
<1>3. StreamAgrees' = StreamAgrees
  BY <1>1 DEF StreamAgrees, SaysBut, Unsent, EndReason, Whole, Parsed, Without
<1> QED
  BY <1>1, <1>2, <1>3 DEF StreamInv

LEMMA StreamStep == ReplyInv /\ StreamInv /\ [ReplyNext]_replyvars => StreamInv'
<1> SUFFICES ASSUME ReplyInv, StreamInv, [ReplyNext]_replyvars PROVE StreamInv'
  OBVIOUS
<1>1. ASSUME NEW r \in Replies, Ask(r) PROVE StreamInv'
  BY <1>1, AskSends
<1>2. ASSUME NEW n \in 1 .. MaxToken, TokenStops(n) PROVE StreamInv'
  BY <1>2, StopsSends
<1>3. ASSUME NEW n \in 1 .. MaxToken, TokenIsLast(n) PROVE StreamInv'
  BY <1>3, LastSends
<1>4. ASSUME NEW n \in 1 .. MaxToken, TokenGoesOn(n) PROVE StreamInv'
  BY <1>4, GoesOnSends
<1>5. CASE EndsByItself
  BY <1>5, EndsSends
<1>6. CASE RowFails
  BY <1>6, FailsSends
<1>7. CASE StreamText
  BY <1>7, TextIsStreamed
<1>8. CASE HoldText
  BY <1>8, TextIsHeld
<1>9. CASE StreamDone
  BY <1>9, StreamIsDone
<1>10. CASE CollectText
  BY <1>10, TextIsCollected
<1>11. CASE CollectDone
  BY <1>11, CollectIsDone
<1>12. CASE HandlerFailed
  BY <1>12, FailureIsHeard
<1>13. CASE WorkerDies
  BY <1>13, DiesSends
<1>14. CASE StreamClosed
  BY <1>14, StreamIsClosed
<1>15. CASE CollectClosed
  BY <1>15, CollectIsClosed
<1>16. CASE UNCHANGED replyvars
  BY <1>16, NothingHappens
<1> QED
  BY <1>1, <1>2, <1>3, <1>4, <1>5, <1>6, <1>7, <1>8, <1>9, <1>10, <1>11, <1>12, <1>13, <1>14, <1>15, <1>16 DEF ReplyNext

LEMMA StreamStart == ReplyInit => StreamInv
BY DEF ReplyInit, StreamInv, NoAnswer

LEMMA StreamInvariant == ReplySpec => []StreamInv
BY ReplyInvariant, StreamStart, StreamStep, PTL DEF ReplySpec

(* However the text is cut into events, and whatever calls are in it: what a *)
(* stream has shown at its end, the text that it never sends and the calls it *)
(* reports are what the answer to the whole text would have been (chat_stream *)
(* against parse and collect); the text it never sends is the beginning of a  *)
(* marker, no more; and a stream whose worker died is never counted.         *)
THEOREM StreamAsWhole == ReplySpec => []StreamAgrees
<1>1. StreamInv => StreamAgrees
  <2> SUFFICES ASSUME StreamInv PROVE StreamAgrees
    OBVIOUS
  <2>1. CASE answer.finish # "none"
    BY <2>1 DEF StreamInv
  <2>2. CASE answer.finish = "none"
    BY <2>2 DEF StreamAgrees
  <2> QED
    BY <2>1, <2>2
<1> QED
  BY <1>1, StreamInvariant, PTL

=============================================================================

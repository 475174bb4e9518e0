------------------------- MODULE Speculation_proofs -------------------------
(***************************************************************************)
(* Speculative decoding, for any number of rows, slots and requests, any   *)
(* depth of a draft and any model. The rows of a step go through it one    *)
(* after another: Resting says what is true of a row no step has in hand,  *)
(* Going what is true of one that the step's plan has an item of, at each  *)
(* of the places the step can be.                                          *)
(***************************************************************************)
EXTENDS Speculation, KvPool_proofs, FiniteSetTheorems

PlanItems == [ id : SeqIds, kind : {"verify", "decode", "prefill"}, from : Nat,
               toks : Seq(Tokens), last : BOOLEAN ]
RowStates == [ req : 0 .. NumRequests, prefilled : Nat, feed : [first : Nat, len : Nat],
               desynced : BOOLEAN ]
Journals == [ armed : SUBSET SeqIds, start : [SeqIds -> Nat], rows : [SeqIds -> Nat],
              taped : [SeqIds -> Seq(Tokens)], conv_pre : [SeqIds -> Seq(Tokens)] ]
Phases == {"admit", "draft", "forward", "sample", "settle", "advance", "retire", "fail"}

(* The values of each variable. *)
TextTypes ==
  /\ ask \in [Requests -> Asks] /\ said \in [Requests -> Seq(Tokens)]
  /\ status \in [Requests -> {"waiting", "running", "stop", "length", "failed"}]
DeviceTypes ==
  /\ kv \in [Slots -> Seq(Tokens)]
  /\ state \in [SeqIds -> Seq(Tokens)] /\ conv \in [SeqIds -> Seq(Tokens)]
  /\ journal \in Journals
RowTypes ==
  /\ running \in Seq(SeqIds) /\ row \in [SeqIds -> RowStates]
  /\ lens \in [SeqIds -> 0 .. MaxSeq]
  /\ done \subseteq SeqIds /\ mixed \subseteq Requests
  /\ faults \in Seq({"forward", "settle"})
StepTypes ==
  /\ phase \in Phases
  /\ depth \in 0 .. K /\ left \in Nat /\ committed \in Nat
  /\ drafts \in [SeqIds -> Seq(Tokens)]
  /\ plan \in Seq(PlanItems) /\ at \in Nat \ {0} /\ tok \in Nat \ {0}
  /\ sampled \in [SeqIds -> Tokens] /\ outcome \in [SeqIds -> Seq(Tokens)]
Types == TextTypes /\ DeviceTypes /\ RowTypes /\ StepTypes

(* What a request has been given begins with what it asked. *)
TextsBegin ==
  \A r \in Requests :
    /\ Len(said[r]) >= Len(ask[r].prompt)
    /\ SubSeq(said[r], 1, Len(ask[r].prompt)) = ask[r].prompt
    /\ status[r] = "waiting" => said[r] = ask[r].prompt

(* The pool's rows are those that run, each of another request. *)
PoolOk == WholePool(pool) /\ \A id \in SeqIds : SeqLen(pool, id) <= MaxSeq
RunningOk ==
  /\ \A i, j \in 1 .. Len(running) : running[i] = running[j] => i = j
  /\ \A id \in SeqIds : id \in pool.live <=> \E i \in 1 .. Len(running) : running[i] = id
ServesOne ==
  /\ \A id \in pool.live :
       /\ row[id].req \in Requests
       /\ status[row[id].req] \in IF id \in done THEN {"stop", "length"} ELSE {"running"}
  /\ \A a, b \in pool.live : row[a].req = row[b].req => a = b

(* What the variables of the step hold where it does not use them. *)
Scratch ==
  /\ phase \notin {"advance", "retire"} => done = {}
  /\ done \subseteq pool.live
  /\ phase # "advance" => tok = 1
  /\ phase # "draft" => drafts = NoDrafts

(* A row between two steps: its keys end where what it was fed ends, one     *)
(* short of its text once its prompt is in, with room for one token more.    *)
Resting(id) ==
  /\ SeqLen(pool, id) = Fed(id) /\ Fed(id) < MaxSeq
  /\ row[id].prefilled <= Len(Prompt(id))
  /\ IF PromptComplete(id) THEN Generated(id) >= 1 ELSE Generated(id) = 0
  /\ row[id].feed # NoFeed =>
       PromptComplete(id) /\ row[id].feed.first + row[id].feed.len = SeqLen(pool, id)

(* A draft is of a row that can be drafted, and its candidates fit the row. *)
Drafted1(id) ==
  /\ id \in pool.live /\ PromptComplete(id)
  /\ SeqLen(pool, id) + Len(drafts[id]) + 1 <= MaxSeq

InHand == phase \in {"forward", "sample", "settle", "advance"}
(* The item's outcome is known; the item's tokens have been seen to. *)
IsSettled(i) ==
  /\ plan[i].kind = "verify"
  /\ phase = "advance" \/ (phase = "settle" /\ i < at)
IsOver(i) == phase = "advance" /\ i < at
(* How many of the item's tokens have keys, how many it has added to the text. *)
Ran(i) ==
  IF phase = "forward" THEN 0
  ELSE IF IsSettled(i) THEN Len(outcome[plan[i].id]) ELSE Len(plan[i].toks)
Added(i) == IF phase = "advance" /\ i = at THEN tok - 1 ELSE 0

(* An item is for its row as it is. *)
FitsPrefill(item) ==
  /\ item.kind = "prefill"
  /\ ~PromptComplete(item.id) /\ Generated(item.id) = 0
  /\ item.from = row[item.id].prefilled
  /\ item.from + Len(item.toks) <= Len(Prompt(item.id))
  /\ item.toks = SubSeq(Prompt(item.id), item.from + 1, item.from + Len(item.toks))
  /\ item.last <=> item.from + Len(item.toks) = Len(Prompt(item.id))
FitsDecoding(item, added) ==
  /\ item.kind \in {"decode", "verify"} /\ item.last
  /\ row[item.id].prefilled = Len(Prompt(item.id)) /\ Generated(item.id) >= 1 + added
  /\ item.from + 1 + added = Len(Text(item.id))
  /\ item.toks[1] = Text(item.id)[item.from + 1]
  /\ item.kind = "decode" => Len(item.toks) = 1 /\ added = 0
Going(i) ==
  LET item == plan[i]
  IN  /\ item.id \in pool.live /\ item.id \notin done
      /\ Len(item.toks) >= 1 /\ item.from + Len(item.toks) <= MaxSeq
      /\ FitsPrefill(item) \/ FitsDecoding(item, Added(i))
      /\ item.kind = "prefill" => Added(i) = 0
      /\ SeqLen(pool, item.id) = item.from + Ran(i)
      /\ row[item.id].feed # NoFeed => PromptComplete(item.id)
      /\ IsSettled(i) => /\ Len(outcome[item.id]) \in Added(i) + 1 .. Len(item.toks)
                         /\ \A j \in 1 .. Len(outcome[item.id]) - 1 :
                              outcome[item.id][j] = item.toks[j + 1]
                         /\ \A j \in 1 .. Added(i) :
                              Text(item.id)[item.from + 1 + j] = outcome[item.id][j]

PlanOk ==
  InHand =>
    /\ \A i, j \in Items(plan) : plan[i].id = plan[j].id => i = j
    /\ \A i \in Items(plan) : ~IsOver(i) => Going(i)
    /\ phase \in {"settle", "advance"} => at <= Len(plan) + 1
    /\ phase = "advance" /\ at > Len(plan) => tok = 1
RestOk ==
  phase # "fail" => \A id \in pool.live :
    \/ id \in done
    \/ InHand /\ \E i \in Items(plan) : plan[i].id = id /\ ~IsOver(i)
    \/ Resting(id)
DraftsOk == phase = "draft" => \A id \in SeqIds : drafts[id] # << >> => Drafted1(id)
FitsPool == phase = "forward" => Len(Flat) <= FreeSlots(pool) /\ Len(Flat) <= BatchTokens

(* The journal names the rows whose candidates the step has not settled. *)
ToSettle(i) ==
  /\ InHand /\ i \in Verifies(plan) /\ ~IsSettled(i)
JournalOk ==
  /\ "settle" \notin Range(faults) =>
       journal.armed = IF InHand THEN { plan[i].id : i \in { n \in Items(plan) : ToSettle(n) } } ELSE {}
  /\ \A i \in Items(plan) : ToSettle(i) =>
       /\ plan[i].id \in journal.armed
       /\ phase = "forward" =>
            /\ journal.rows[plan[i].id] = Len(plan[i].toks)
            /\ journal.start[plan[i].id] = RowStart(plan, i)
       /\ phase # "forward" => Len(journal.taped[plan[i].id]) = Len(plan[i].toks)

SpecInv ==
  /\ Types /\ TextsBegin /\ PoolOk /\ RunningOk /\ ServesOne /\ Scratch
  /\ PlanOk /\ RestOk /\ DraftsOk /\ FitsPool /\ JournalOk

(* What memory has for a row: the keys of every place, the recurrent state   *)
(* and the convolution window are those of a text.                           *)
Holds(mem, id, t) == Len(t) > 0 => mem[id] = t
HasKv(id, t) == \A pos \in 1 .. Len(t) : kv[pool.slots[id][pos]] = SubSeq(t, 1, pos)
Remembers(id, t) == HasKv(id, t) /\ Holds(state, id, t) /\ Holds(conv, id, t)

(* What an item's row has before it, and once all of its tokens have run. *)
Before(i) == SubSeq(Text(plan[i].id), 1, plan[i].from)
Goal(i) == SubSeq(Text(plan[i].id), 1, plan[i].from) \o plan[i].toks
(* The candidates have run and none is taken or refused yet: the state is as *)
(* it was, and the journal has what it takes to go on from there.            *)
Pending(i) == ToSettle(i) /\ phase # "forward"
GoingMemory(i) ==
  LET id == plan[i].id
  IN  /\ IF Pending(i)
         THEN /\ HasKv(id, Goal(i)) /\ Holds(state, id, Before(i))
              /\ journal.conv_pre[id] = Before(i) /\ journal.taped[id] = plan[i].toks
         ELSE Remembers(id, SubSeq(Goal(i), 1, plan[i].from + Ran(i)))
      /\ phase = "sample" /\ plan[i].kind # "verify" => ~Armed
Idle(id) == InHand => \A i \in Items(plan) : plan[i].id = id => IsOver(i)
RestMemory(id) == Remembers(id, SubSeq(Text(id), 1, Fed(id)))
MemoryOk ==
  phase # "fail" =>
    /\ \A id \in pool.live \ done : Idle(id) /\ row[id].req \notin mixed => RestMemory(id)
    /\ InHand => \A i \in Items(plan) :
         ~IsOver(i) /\ row[plan[i].id].req \notin mixed => GoingMemory(i)

(* What was drawn for a row could have been chosen after its text. *)
GoingAnswers(i) ==
  LET id == plan[i].id
      before == SubSeq(Text(id), 1, plan[i].from + 1)
  IN  /\ Wants(plan[i]) /\ phase \in {"settle", "advance"} => sampled[id] \in Support(Text(id))
      /\ IsSettled(i) => \A j \in 1 .. Len(outcome[id]) :
           outcome[id][j] \in Support(before \o SubSeq(outcome[id], 1, j - 1))
AnswersOk ==
  InHand => \A i \in Items(plan) :
    ~IsOver(i) /\ row[plan[i].id].req \notin mixed => GoingAnswers(i)

-----------------------------------------------------------------------------
(* There is an order for the stack to start in. *)
LEMMA OrdersExist == StackOrders # {}
<1>1. ExistsBijection(1 .. Cardinality(Slots), Slots)
  BY PoolSizes, FS_CardinalityType
<1>2. PICK f : f \in Bijection(1 .. Cardinality(Slots), Slots)
  BY <1>1 DEF ExistsBijection
<1> QED
  BY <1>2 DEF Bijection, Injection, StackOrders

-----------------------------------------------------------------------------
(* An item of a plan. *)
LEMMA PlanItem ==
  ASSUME NEW p \in Seq(PlanItems), NEW i \in 1 .. Len(p)
  PROVE  /\ p[i] \in PlanItems
         /\ p[i].id \in SeqIds /\ p[i].kind \in {"verify", "decode", "prefill"}
         /\ p[i].from \in Nat /\ p[i].toks \in Seq(Tokens) /\ Len(p[i].toks) \in Nat
         /\ p[i].last \in BOOLEAN
<1>1. p[i] \in PlanItems
  BY ElementOfSeq
<1>2. p[i].toks \in Seq(Tokens)
  BY <1>1 DEF PlanItems
<1> QED
  BY <1>1, <1>2, LenProperties DEF PlanItems

(* The tokens of the first items of a plan. *)
LEMMA FlatFacts ==
  ASSUME NEW p \in Seq(PlanItems)
  PROVE  /\ Flattened(p, 0) = << >>
         /\ \A k \in 1 .. Len(p) : Flattened(p, k) = Flattened(p, k - 1) \o p[k].toks
         /\ \A k \in 0 .. Len(p) : Flattened(p, k) \in Seq(Tokens)
<1> DEFINE T == Seq(Tokens)
           n == Len(p)
           init == << >>
           turn == [ i \in 1 .. n |-> [ x \in T |-> x \o p[i].toks ] ]
<1>1. n \in Nat /\ init \in T
  BY LenProperties
<1>2. \A i \in 1 .. n : p[i].toks \in Seq(Tokens)
  BY PlanItem
<1>3. ASSUME NEW i \in 1 .. n, NEW x \in T PROVE x \o p[i].toks \in T
  BY <1>2, ConcatProperties
<1>4. /\ turn \in [1 .. n -> [T -> T]]
      /\ \A i \in 1 .. n, x \in T : turn[i][x] = x \o p[i].toks
  BY <1>3
<1> HIDE DEF turn, init, n, T
<1>5. PICK f \in [0 .. n -> T] : f[0] = init /\ \A i \in 1 .. n : f[i] = turn[i][f[i - 1]]
  <2>1. turn \in [1 .. n -> [T -> T]]
    BY <1>4
  <2> QED
    BY ONLY <1>1, <2>1, LoopExists
<1>6. ASSUME NEW i \in 1 .. n PROVE f[i] = f[i - 1] \o p[i].toks
  <2>1. i - 1 \in 0 .. n
    BY <1>1
  <2>2. f[i - 1] \in T
    BY <1>5, <2>1
  <2>3. turn[i][f[i - 1]] = f[i - 1] \o p[i].toks
    BY <1>4, <2>2, Zenon
  <2> QED
    BY <1>5, <2>3, Zenon
<1>7. f = [ i \in 0 .. n |-> IF i = 0 THEN init ELSE f[i - 1] \o p[i].toks ]
  <2>1. \A i \in 0 .. n : i # 0 => i \in 1 .. n
    BY <1>1
  <2>2. \A i \in 0 .. n : f[i] = IF i = 0 THEN init ELSE f[i - 1] \o p[i].toks
    BY <1>5, <1>6, <2>1, Zenon
  <2> QED
    BY <1>5, <2>2, Zenon
<1> DEFINE g == CHOOSE h : h = [ i \in 0 .. n |-> IF i = 0 THEN init ELSE h[i - 1] \o p[i].toks ]
<1>8. g = [ i \in 0 .. n |-> IF i = 0 THEN init ELSE g[i - 1] \o p[i].toks ]
  BY <1>7, Zenon
<1>9. \A k : Flattened(p, k) = g[k]
  BY DEF Flattened, n, init
<1> HIDE DEF g
<1>10. g[0] = init /\ \A i \in 1 .. n : g[i] = g[i - 1] \o p[i].toks
  <2>1. 0 \in 0 .. n /\ \A i \in 1 .. n : i \in 0 .. n /\ i # 0
    BY <1>1
  <2>2. \A i \in 0 .. n : g[i] = IF i = 0 THEN init ELSE g[i - 1] \o p[i].toks
    BY <1>8, Zenon
  <2> QED
    BY <2>1, <2>2, Zenon
<1>11. \A i \in 0 .. n : g[i] \in T
  <2> DEFINE I == { i \in 0 .. n : g[i] \in T }
  <2>1. 0 \in I
    BY <1>1, <1>10
  <2>2. ASSUME NEW i \in 1 .. n, i - 1 \in I PROVE i \in I
    <3>1. g[i] = g[i - 1] \o p[i].toks /\ g[i - 1] \in T
      BY <1>10, <2>2
    <3>2. g[i] \in T /\ i \in 0 .. n
      BY <1>1, <1>3, <3>1
    <3> QED
      BY <3>2
  <2> HIDE DEF I
  <2>3. \A i \in 0 .. n : i \in I
    BY <1>1, <2>1, <2>2, LoopInduction
  <2> QED
    BY <2>3 DEF I
<1> QED
  BY <1>9, <1>10, <1>11 DEF n, init, T

Size(p, k) == Len(Flattened(p, k))
Total(p) == Size(p, Len(p))

LEMMA SizeFacts ==
  ASSUME NEW p \in Seq(PlanItems)
  PROVE  /\ Size(p, 0) = 0
         /\ \A k \in 1 .. Len(p) : /\ Size(p, k) = Size(p, k - 1) + Len(p[k].toks)
                                   /\ Len(p[k].toks) \in Nat
         /\ \A k \in 0 .. Len(p) : Size(p, k) \in Nat
<1>1. Len(p) \in Nat
  BY LenProperties
<1>2. /\ Flattened(p, 0) = << >>
      /\ \A k \in 1 .. Len(p) : Flattened(p, k) = Flattened(p, k - 1) \o p[k].toks
      /\ \A k \in 0 .. Len(p) : Flattened(p, k) \in Seq(Tokens)
  BY FlatFacts
<1>3. \A k \in 0 .. Len(p) : Size(p, k) \in Nat
  BY <1>2, LenProperties DEF Size
<1>4. ASSUME NEW k \in 1 .. Len(p)
      PROVE  Size(p, k) = Size(p, k - 1) + Len(p[k].toks) /\ Len(p[k].toks) \in Nat
  <2>1. p[k].toks \in Seq(Tokens)
    BY PlanItem
  <2>2. k - 1 \in 0 .. Len(p)
    BY <1>1
  <2>3. Flattened(p, k - 1) \in Seq(Tokens)
    BY <1>2, <2>2
  <2>4. Len(Flattened(p, k - 1) \o p[k].toks) = Len(Flattened(p, k - 1)) + Len(p[k].toks)
    BY <2>1, <2>3, ConcatProperties
  <2> QED
    BY <1>2, <2>1, <2>4, LenProperties DEF Size
<1> QED
  BY <1>2, <1>3, <1>4 DEF Size

LEMMA SizeConcat ==
  ASSUME NEW p \in Seq(PlanItems), NEW q \in Seq(PlanItems)
  PROVE  Total(p \o q) = Total(p) + Total(q)
<1> DEFINE m == Len(p)
           n == Len(q)
           r == p \o q
<1>1. m \in Nat /\ n \in Nat
  BY LenProperties
<1>2. /\ r \in Seq(PlanItems) /\ Len(r) = m + n
      /\ \A i \in 1 .. m + n : r[i] = IF i <= m THEN p[i] ELSE q[i - m]
  BY ConcatProperties
<1>3. /\ Size(p, 0) = 0
      /\ \A k \in 1 .. m : Size(p, k) = Size(p, k - 1) + Len(p[k].toks)
  BY SizeFacts
<1>4. /\ Size(q, 0) = 0
      /\ \A k \in 1 .. n : Size(q, k) = Size(q, k - 1) + Len(q[k].toks) /\ Len(q[k].toks) \in Nat
      /\ \A k \in 0 .. n : Size(q, k) \in Nat
  BY SizeFacts
<1>5. /\ Size(r, 0) = 0
      /\ \A k \in 1 .. m + n : Size(r, k) = Size(r, k - 1) + Len(r[k].toks)
  BY <1>2, SizeFacts
<1>6. Size(p, m) \in Nat
  <2>1. m \in 0 .. m
    BY <1>1
  <2> QED
    BY <2>1, SizeFacts
<1> HIDE DEF m, n, r
<1>7. Size(r, m) = Size(p, m)
  <2> DEFINE I == { k \in 0 .. m : Size(r, k) = Size(p, k) }
  <2>1. 0 \in I
    BY <1>1, <1>3, <1>5
  <2>2. ASSUME NEW k \in 1 .. m, k - 1 \in I PROVE k \in I
    <3>1. k \in 1 .. m + n /\ k \in 0 .. m /\ k <= m
      BY <1>1
    <3>2. Size(r, k) = Size(r, k - 1) + Len(p[k].toks)
      BY <1>2, <1>5, <3>1
    <3>3. Size(r, k - 1) = Size(p, k - 1) /\ Size(p, k) = Size(p, k - 1) + Len(p[k].toks)
      BY <1>3, <2>2
    <3>4. Size(r, k) = Size(p, k)
      BY ONLY <3>2, <3>3
    <3> QED
      BY <3>1, <3>4
  <2> HIDE DEF I
  <2>3. \A k \in 0 .. m : k \in I
    BY ONLY <1>1, <2>1, <2>2, LoopInduction
  <2>4. m \in I
    BY <1>1, <2>3
  <2> QED
    BY <2>4 DEF I
<1>8. Size(r, m + n) = Size(p, m) + Size(q, n)
  <2> DEFINE I == { k \in 0 .. n : Size(r, m + k) = Size(p, m) + Size(q, k) }
  <2>1. 0 \in I
    BY <1>1, <1>4, <1>6, <1>7
  <2>2. ASSUME NEW k \in 1 .. n, k - 1 \in I PROVE k \in I
    <3>1. /\ m + k \in 1 .. m + n /\ k \in 0 .. n /\ ~(m + k <= m) /\ (m + k) - m = k
          /\ (m + k) - 1 = m + (k - 1) /\ k - 1 \in 0 .. n
      BY <1>1
    <3>2. Size(r, m + k) = Size(r, m + (k - 1)) + Len(q[k].toks)
      BY <1>2, <1>5, <3>1
    <3>3. /\ Size(r, m + (k - 1)) = Size(p, m) + Size(q, k - 1)
          /\ Size(q, k) = Size(q, k - 1) + Len(q[k].toks) /\ Len(q[k].toks) \in Nat
      BY <1>4, <2>2
    <3>4. Size(q, k - 1) \in Nat
      BY <1>4, <3>1
    <3>5. Size(r, m + k) = Size(p, m) + Size(q, k)
      BY ONLY <1>6, <3>2, <3>3, <3>4
    <3> QED
      BY <3>1, <3>5
  <2> HIDE DEF I
  <2>3. \A k \in 0 .. n : k \in I
    BY ONLY <1>1, <2>1, <2>2, LoopInduction
  <2>4. n \in I
    BY <1>1, <2>3
  <2> QED
    BY <2>4 DEF I
<1> QED
  BY <1>2, <1>8 DEF Total, m, n, r

LEMMA SizeAppend ==
  ASSUME NEW p \in Seq(PlanItems), NEW item \in PlanItems
  PROVE  Total(Append(p, item)) = Total(p) + Len(item.toks)
<1> DEFINE q == << item >>
<1>1. q \in Seq(PlanItems) /\ Len(q) = 1 /\ q[1] = item
  OBVIOUS
<1>2. Append(p, item) = p \o q
  BY AppendIsConcat
<1> HIDE DEF q
<1>3. Size(q, 0) = 0 /\ Size(q, 1) = Size(q, 0) + Len(item.toks) /\ Len(item.toks) \in Nat
  <2>1. 1 \in 1 .. Len(q) /\ 1 - 1 = 0
    BY <1>1
  <2>2. Size(q, 0) = 0 /\ \A k \in 1 .. Len(q) : /\ Size(q, k) = Size(q, k - 1) + Len(q[k].toks)
                                                /\ Len(q[k].toks) \in Nat
    BY <1>1, SizeFacts
  <2> QED
    BY <1>1, <2>1, <2>2, Zenon
<1>4. Size(q, 1) = Len(item.toks)
  <2> DEFINE n == Len(item.toks)
             t == Size(q, 1)
  <2>1. t = 0 + n /\ n \in Nat
    BY <1>3
  <2> HIDE DEF n, t
  <2>2. t = n
    BY ONLY <2>1
  <2> QED
    BY <2>2 DEF n, t
<1> QED
  BY <1>1, <1>2, <1>4, SizeConcat DEF Total

(* Each item's tokens are in the pass where its own begin. *)
LEMMA FlatWindow ==
  ASSUME NEW p \in Seq(PlanItems), NEW k \in 1 .. Len(p)
  PROVE  /\ Size(p, k) <= Total(p)
         /\ SubSeq(Flattened(p, Len(p)), Size(p, k - 1) + 1, Size(p, k - 1) + Len(p[k].toks))
              = p[k].toks
<1> DEFINE n == Len(p)
           F(m) == Flattened(p, m)
           toks == p[k].toks
           I == { m \in 0 .. n : k <= m => /\ Size(p, k) <= Size(p, m)
                                           /\ \A j \in 1 .. Size(p, k) : F(m)[j] = F(k)[j] }
<1>1. n \in Nat
  BY LenProperties
<1>2. /\ \A m \in 1 .. n : F(m) = F(m - 1) \o p[m].toks
      /\ \A m \in 0 .. n : F(m) \in Seq(Tokens)
  BY FlatFacts
<1>3. /\ \A m \in 1 .. n : /\ Size(p, m) = Size(p, m - 1) + Len(p[m].toks)
                           /\ Len(p[m].toks) \in Nat
      /\ \A m \in 0 .. n : Size(p, m) \in Nat
  BY SizeFacts
<1>4. \A m \in 0 .. n : Size(p, m) = Len(F(m))
  BY DEF Size
<1>5. \A m \in 1 .. n : p[m].toks \in Seq(Tokens)
  BY PlanItem
<1>6. k \in 1 .. n /\ k - 1 \in 0 .. n
  BY <1>1
<1> HIDE DEF n, F
<1>7. \A m \in 1 .. n : \A j \in 1 .. Size(p, m) :
        F(m)[j] = IF j <= Size(p, m - 1) THEN F(m - 1)[j] ELSE p[m].toks[j - Size(p, m - 1)]
  <2> SUFFICES ASSUME NEW m \in 1 .. n, NEW j \in 1 .. Size(p, m)
               PROVE  F(m)[j] = IF j <= Size(p, m - 1) THEN F(m - 1)[j]
                                ELSE p[m].toks[j - Size(p, m - 1)]
    OBVIOUS
  <2> DEFINE a == F(m - 1)
             b == p[m].toks
  <2>1. m - 1 \in 0 .. n /\ m \in 0 .. n
    BY <1>1
  <2>2. a \in Seq(Tokens) /\ b \in Seq(Tokens) /\ F(m) = a \o b
    BY <1>2, <1>5, <2>1
  <2>3. Len(a) = Size(p, m - 1) /\ Size(p, m) = Len(a) + Len(b)
    BY <1>3, <1>4, <2>1
  <2> HIDE DEF a, b
  <2>4. \A i \in 1 .. Len(a) + Len(b) : (a \o b)[i] = IF i <= Len(a) THEN a[i] ELSE b[i - Len(a)]
    BY <2>2, ConcatProperties
  <2> QED
    BY <2>2, <2>3, <2>4 DEF a, b
<1>8. 0 \in I
  BY <1>1, <1>6
<1>9. ASSUME NEW m \in 1 .. n, m - 1 \in I PROVE m \in I
  <2> SUFFICES ASSUME k <= m
               PROVE  /\ Size(p, k) <= Size(p, m)
                      /\ \A j \in 1 .. Size(p, k) : F(m)[j] = F(k)[j]
    BY <1>1
  <2>0. Size(p, k) \in Nat /\ Size(p, m) \in Nat /\ Size(p, m - 1) \in Nat
    BY <1>1, <1>3, <1>6
  <2>1. CASE m = k
    BY <2>0, <2>1
  <2>2. CASE m # k
    <3>1. k <= m - 1
      BY <1>6, <2>2
    <3>2. /\ Size(p, k) <= Size(p, m - 1)
          /\ \A j \in 1 .. Size(p, k) : F(m - 1)[j] = F(k)[j]
      BY <1>9, <3>1
    <3>3. Size(p, m) = Size(p, m - 1) + Len(p[m].toks) /\ Len(p[m].toks) \in Nat
      BY <1>3
    <3>4. Size(p, k) <= Size(p, m)
      BY ONLY <2>0, <3>2, <3>3
    <3>5. ASSUME NEW j \in 1 .. Size(p, k) PROVE F(m)[j] = F(k)[j]
      <4>1. j \in 1 .. Size(p, m) /\ j <= Size(p, m - 1)
        BY <2>0, <3>2, <3>4
      <4> QED
        BY <1>7, <3>2, <4>1
    <3> QED
      BY <3>4, <3>5
  <2> QED
    BY <2>1, <2>2
<1> HIDE DEF I
<1>10. n \in I
  <2>1. \A m \in 0 .. n : m \in I
    BY ONLY <1>1, <1>8, <1>9, LoopInduction
  <2> QED
    BY <1>1, <2>1
<1>11. /\ Size(p, k) <= Size(p, n)
       /\ \A j \in 1 .. Size(p, k) : F(n)[j] = F(k)[j]
  BY <1>6, <1>10 DEF I
<1>12. SubSeq(F(n), Size(p, k - 1) + 1, Size(p, k - 1) + Len(toks)) = toks
  <2> DEFINE a == Size(p, k - 1)
             b == Len(toks)
             s == F(n)
  <2>1. a \in Nat /\ b \in Nat /\ Size(p, k) = a + b
    BY <1>3, <1>6
  <2>2. s \in Seq(Tokens) /\ Len(s) = Size(p, n) /\ Size(p, n) \in Nat
    BY <1>1, <1>2, <1>3, <1>4
  <2>3. toks \in Seq(Tokens) /\ b = Len(toks)
    BY <1>5, <1>6
  <2> HIDE DEF a, b, s
  <2>4. a + 1 \in 1 .. Len(s) + 1 /\ a + b \in 0 .. Len(s)
    BY <1>11, <2>1, <2>2
  <2> DEFINE w == SubSeq(s, a + 1, a + b)
  <2>5. /\ w \in Seq(Tokens)
        /\ Len(w) = IF a + 1 <= a + b THEN (a + b) - (a + 1) + 1 ELSE 0
        /\ \A i \in 1 .. (a + b) - (a + 1) + 1 : w[i] = s[(a + 1) + i - 1]
    BY <2>2, <2>4, SliceFacts
  <2> HIDE DEF w
  <2>6. Len(w) = b
    BY <2>1, <2>5
  <2>7. ASSUME NEW i \in 1 .. b PROVE w[i] = toks[i]
    <3>1. /\ i \in 1 .. (a + b) - (a + 1) + 1 /\ (a + 1) + i - 1 = a + i
          /\ a + i \in 1 .. Size(p, k) /\ ~(a + i <= a) /\ (a + i) - a = i
      BY <2>1
    <3>2. w[i] = s[a + i]
      BY <2>5, <3>1
    <3>3. s[a + i] = F(k)[a + i]
      BY <1>11, <3>1 DEF s
    <3>4. F(k)[a + i] = toks[i]
      BY <1>6, <1>7, <3>1 DEF a
    <3> QED
      BY <3>2, <3>3, <3>4
  <2>8. w = toks
    <3>1. DOMAIN w = 1 .. b /\ DOMAIN toks = 1 .. b
      BY <2>3, <2>5, <2>6, LenProperties
    <3> QED
      BY <2>3, <2>5, <2>6, <2>7, SeqEqual
  <2> QED
    BY <2>8 DEF w, a, b, s
<1> QED
  BY <1>11, <1>12 DEF Total, n, F

-----------------------------------------------------------------------------
(* Where an item's rows of logits begin. *)
LEMMA RowStartFacts ==
  ASSUME NEW p \in Seq(PlanItems)
  PROVE  \A k \in 1 .. Len(p) : RowStart(p, k) \in Nat
<1> DEFINE T == Nat
           n == Len(p)
           init == 0
           turn == [ i \in 1 .. n |-> [ x \in T |-> x + LogitRows(p[i]) ] ]
<1>1. n \in Nat /\ init \in T
  BY LenProperties
<1>2. ASSUME NEW i \in 1 .. n PROVE LogitRows(p[i]) \in Nat
  <2>1. Len(p[i].toks) \in Nat
    BY PlanItem
  <2> QED
    BY <2>1 DEF LogitRows
<1>3. /\ turn \in [1 .. n -> [T -> T]]
      /\ \A i \in 1 .. n, x \in T : turn[i][x] = x + LogitRows(p[i])
  <2>1. \A i \in 1 .. n, x \in T : x + LogitRows(p[i]) \in T
    BY <1>2
  <2> HIDE DEF n, T
  <2> QED
    BY <2>1, Zenon
<1>4. \A k \in 1 .. n : k - 1 \in 0 .. n
  BY <1>1
<1> HIDE DEF turn, init, n, T
<1>5. PICK f \in [0 .. n -> T] : f[0] = init /\ \A i \in 1 .. n : f[i] = turn[i][f[i - 1]]
  <2>1. turn \in [1 .. n -> [T -> T]]
    BY <1>3
  <2> QED
    BY ONLY <1>1, <2>1, LoopExists
<1>6. ASSUME NEW i \in 1 .. n PROVE f[i] = f[i - 1] + LogitRows(p[i])
  <2>1. i - 1 \in 0 .. n
    BY <1>1
  <2>2. f[i - 1] \in T
    BY <1>5, <2>1
  <2>3. turn[i][f[i - 1]] = f[i - 1] + LogitRows(p[i])
    BY <1>3, <2>2, Zenon
  <2> QED
    BY <1>5, <2>3, Zenon
<1>7. f = [ i \in 0 .. n |-> IF i = 0 THEN init ELSE f[i - 1] + LogitRows(p[i]) ]
  <2>1. \A i \in 0 .. n : i # 0 => i \in 1 .. n
    BY <1>1
  <2>2. \A i \in 0 .. n : f[i] = IF i = 0 THEN init ELSE f[i - 1] + LogitRows(p[i])
    BY <1>5, <1>6, <2>1, Zenon
  <2> QED
    BY <1>5, <2>2, Zenon
<1> DEFINE g == CHOOSE h : h = [ i \in 0 .. n |-> IF i = 0 THEN init ELSE h[i - 1] + LogitRows(p[i]) ]
<1>8. g = [ i \in 0 .. n |-> IF i = 0 THEN init ELSE g[i - 1] + LogitRows(p[i]) ]
  BY <1>7, Zenon
<1>9. \A k \in 1 .. n : RowStart(p, k) = g[k - 1]
  BY DEF RowStart, n, init
<1> HIDE DEF g
<1>10. \A i \in 0 .. n : g[i] \in T
  <2> DEFINE I == { i \in 0 .. n : g[i] \in T }
  <2>1. \A i \in 0 .. n : g[i] = IF i = 0 THEN init ELSE g[i - 1] + LogitRows(p[i])
    BY <1>8, Zenon
  <2>2. 0 \in I
    <3>1. 0 \in 0 .. n
      BY <1>1
    <3>2. g[0] = init
      BY <2>1, <3>1, Zenon
    <3> QED
      BY <1>1, <3>1, <3>2
  <2>3. ASSUME NEW i \in 1 .. n, i - 1 \in I PROVE i \in I
    <3>1. i \in 0 .. n /\ i # 0
      BY <1>1
    <3>2. g[i] = g[i - 1] + LogitRows(p[i])
      BY <2>1, <3>1, Zenon
    <3>3. g[i] \in T
      BY <1>2, <2>3, <3>2 DEF T
    <3> QED
      BY <3>1, <3>3
  <2> HIDE DEF I
  <2>4. \A i \in 0 .. n : i \in I
    BY ONLY <1>1, <2>2, <2>3, LoopInduction
  <2> QED
    BY <2>4 DEF I
<1> QED
  BY <1>4, <1>9, <1>10 DEF T, n

-----------------------------------------------------------------------------
(* What a row's variables hold. *)
Serves(id) == row[id].req \in Requests
LEMMA RowFacts ==
  ASSUME Types, TextsBegin, NEW id \in SeqIds, Serves(id)
  PROVE  /\ Text(id) \in Seq(Tokens) /\ Len(Text(id)) \in Nat
         /\ Prompt(id) \in Seq(Tokens) /\ Len(Prompt(id)) \in Nat
         /\ Len(Prompt(id)) >= 1 /\ Len(Prompt(id)) < MaxSeq
         /\ Len(Prompt(id)) <= Len(Text(id))
         /\ SubSeq(Text(id), 1, Len(Prompt(id))) = Prompt(id)
         /\ Generated(id) = Len(Text(id)) - Len(Prompt(id)) /\ Generated(id) \in Nat
         /\ row[id].prefilled \in Nat /\ PromptComplete(id) \in BOOLEAN
<1>1. row[id].req \in Requests /\ row[id] \in RowStates
  BY DEF Types, RowTypes, Serves
<1>2. said[row[id].req] \in Seq(Tokens) /\ ask[row[id].req] \in Asks
  BY <1>1 DEF Types, TextTypes
<1>3. Text(id) \in Seq(Tokens) /\ Len(Text(id)) \in Nat
  BY <1>2, LenProperties DEF Text
<1>4. /\ Prompt(id) \in Seq(Tokens) /\ Len(Prompt(id)) \in Nat
      /\ Len(Prompt(id)) >= 1 /\ Len(Prompt(id)) < MaxSeq
  <2> DEFINE p == ask[row[id].req].prompt
             m == Len(p)
  <2>1. p \in Seq(Tokens) /\ m \in 1 .. MaxSeq - 1
    BY <1>2, SpeculationSizes
  <2>2. Prompt(id) = p
    BY DEF Prompt
  <2> HIDE DEF m, p
  <2>3. m \in Nat /\ m >= 1 /\ m < MaxSeq
    BY <2>1, PoolSizes
  <2> QED
    BY <2>1, <2>2, <2>3 DEF m
<1>5. Len(Prompt(id)) <= Len(Text(id)) /\ SubSeq(Text(id), 1, Len(Prompt(id))) = Prompt(id)
  BY <1>1 DEF TextsBegin, Text, Prompt
<1>6. row[id].prefilled \in Nat
  BY <1>1 DEF RowStates
<1> QED
  BY <1>3, <1>4, <1>5, <1>6 DEF Generated, PromptComplete

(* An item for its row as it is before a step. *)
Planned(item) ==
  /\ item.id \in pool.live
  /\ Len(item.toks) >= 1 /\ item.from + Len(item.toks) <= MaxSeq
  /\ SeqLen(pool, item.id) = item.from
  /\ FitsPrefill(item) \/ FitsDecoding(item, 0)
Ready ==
  /\ Types /\ TextsBegin /\ PoolOk /\ RunningOk
  /\ \A id \in pool.live : Serves(id) /\ Resting(id)
  /\ \A id \in SeqIds : drafts[id] # << >> => Drafted1(id)

LEMMA PoolLens ==
  ASSUME PoolOk
  PROVE  /\ pool \in Pools /\ pool.live \subseteq SeqIds /\ FreeSlots(pool) \in Nat
         /\ \A id \in SeqIds : SeqLen(pool, id) \in Nat /\ SeqLen(pool, id) <= MaxSeq
<1>1. pool \in Pools
  BY DEF PoolOk, WholePool
<1> QED
  BY <1>1, PoolFields, PoolSizes DEF PoolOk

LEMMA VerifyItemFacts ==
  ASSUME Ready, NEW id \in SeqIds, drafts[id] # << >>
  PROVE  /\ VerifyItem(id) \in PlanItems /\ Planned(VerifyItem(id)) /\ VerifyItem(id).id = id
         /\ PromptComplete(id) /\ Len(VerifyItem(id).toks) = Len(drafts[id]) + 1
<1> DEFINE d == drafts[id]
           n == Len(Text(id))
           toks == Next1(id) \o d
<1>1. /\ id \in pool.live /\ Serves(id) /\ Resting(id) /\ PromptComplete(id)
      /\ SeqLen(pool, id) + Len(d) + 1 <= MaxSeq
  BY DEF Ready, Drafted1
<1>2. d \in Seq(Tokens) /\ Len(d) \in Nat
  BY LenProperties DEF Ready, Types, StepTypes
<1>3. /\ Text(id) \in Seq(Tokens) /\ n \in Nat /\ n >= 1 /\ Len(Prompt(id)) \in Nat
      /\ Len(Prompt(id)) <= n /\ row[id].prefilled \in Nat /\ Generated(id) = n - Len(Prompt(id))
  BY <1>1, RowFacts DEF Ready
<1>4. /\ row[id].prefilled = Len(Prompt(id)) /\ Generated(id) >= 1
      /\ SeqLen(pool, id) = n - 1 /\ SeqLen(pool, id) \in Nat
  <2>1. /\ SeqLen(pool, id) = n - 1 /\ row[id].prefilled <= Len(Prompt(id)) /\ Generated(id) >= 1
    BY <1>1 DEF Resting, Fed
  <2>2. row[id].prefilled >= Len(Prompt(id))
    BY <1>1 DEF PromptComplete
  <2>3. SeqLen(pool, id) \in Nat
    BY PoolLens DEF Ready
  <2> QED
    <3> DEFINE f == row[id].prefilled
               m == Len(Prompt(id))
    <3>1. f \in Nat /\ m \in Nat /\ f <= m /\ f >= m
      BY <1>3, <2>1, <2>2
    <3> HIDE DEF f, m
    <3>2. f = m
      BY ONLY <3>1
    <3> QED
      BY <2>1, <2>3, <3>2 DEF f, m
<1>5. Next1(id) = << Text(id)[n] >> /\ Text(id)[n] \in Tokens
  <2>1. n \in 1 .. n
    <3> HIDE DEF n
    <3> QED
      BY <1>3
  <2> QED
    BY <1>3, <2>1, ElementOfSeq DEF Next1, Last
<1>6. Next1(id) \in Seq(Tokens) /\ Len(Next1(id)) = 1 /\ Next1(id)[1] = Text(id)[n]
  <2> HIDE DEF n
  <2> QED
    BY <1>5
<1>7. toks \in Seq(Tokens) /\ Len(toks) = Len(d) + 1 /\ toks[1] = Text(id)[n]
  <2>1. /\ toks \in Seq(Tokens) /\ Len(toks) = Len(Next1(id)) + Len(d)
        /\ \A i \in 1 .. Len(Next1(id)) + Len(d) :
             toks[i] = IF i <= Len(Next1(id)) THEN Next1(id)[i] ELSE d[i - Len(Next1(id))]
    BY <1>2, <1>6, ConcatProperties
  <2>2. 1 \in 1 .. Len(Next1(id)) + Len(d) /\ 1 <= Len(Next1(id))
    BY <1>2, <1>6
  <2> HIDE DEF toks, d
  <2> QED
    BY <1>2, <1>6, <2>1, <2>2
<1> DEFINE item == VerifyItem(id)
<1> HIDE DEF d, n, toks
<1>8. /\ item.id = id /\ item.kind = "verify" /\ item.from = SeqLen(pool, id)
      /\ item.toks = toks /\ item.last = TRUE /\ item \in PlanItems
  BY <1>4, <1>7 DEF VerifyItem, PlanItems, toks, d
<1> HIDE DEF item
<1>9. FitsDecoding(item, 0)
  <2>1. (item.from + 1) + 0 = n /\ item.from + 1 = n
    <3>1. item.from = n - 1 /\ n \in Nat
      BY <1>3, <1>4, <1>8
    <3> QED
      BY ONLY <3>1
  <2>2. item.toks[1] = Text(item.id)[item.from + 1]
    BY <1>7, <1>8, <2>1
  <2>3. Generated(item.id) >= 1 + 0
    BY <1>4, <1>8
  <2> QED
    BY <1>4, <1>8, <2>1, <2>2, <2>3 DEF FitsDecoding, n
<1>10. Len(item.toks) >= 1 /\ item.from + Len(item.toks) <= MaxSeq
  BY <1>1, <1>2, <1>4, <1>7, <1>8, PoolSizes DEF d
<1> QED
  BY <1>1, <1>7, <1>8, <1>9, <1>10 DEF Planned, item, d

LEMMA DecodeItemFacts ==
  ASSUME Ready, NEW id \in pool.live, PromptComplete(id)
  PROVE  /\ DecodeItem(id) \in PlanItems /\ Planned(DecodeItem(id)) /\ DecodeItem(id).id = id
         /\ Len(DecodeItem(id).toks) = 1
<1> DEFINE n == Len(Text(id))
           toks == Next1(id)
<1>1. id \in SeqIds /\ Serves(id) /\ Resting(id)
  BY PoolLens DEF Ready
<1>2. /\ Text(id) \in Seq(Tokens) /\ n \in Nat /\ n >= 1 /\ Len(Prompt(id)) \in Nat
      /\ row[id].prefilled \in Nat
  BY <1>1, RowFacts DEF Ready
<1>3. row[id].prefilled = Len(Prompt(id)) /\ Generated(id) >= 1 /\ SeqLen(pool, id) = n - 1
  <2> DEFINE f == row[id].prefilled
             m == Len(Prompt(id))
  <2>1. SeqLen(pool, id) = n - 1 /\ Generated(id) >= 1
    BY <1>1 DEF Resting, Fed
  <2>2. f \in Nat /\ m \in Nat /\ f <= m /\ f >= m
    BY <1>1, <1>2 DEF Resting, PromptComplete
  <2> HIDE DEF f, m
  <2>3. f = m
    BY ONLY <2>2
  <2> QED
    BY <2>1, <2>3 DEF f, m
<1>4. SeqLen(pool, id) \in Nat /\ SeqLen(pool, id) < MaxSeq
  BY <1>1, PoolLens DEF Ready, Resting
<1>5. toks = << Text(id)[n] >> /\ Text(id)[n] \in Tokens
  <2>1. n \in 1 .. n
    <3> HIDE DEF n
    <3> QED
      BY <1>2
  <2> QED
    BY <1>2, <2>1, ElementOfSeq DEF Next1, Last
<1>6. toks \in Seq(Tokens) /\ Len(toks) = 1 /\ toks[1] = Text(id)[n]
  <2> HIDE DEF n, toks
  <2> QED
    BY <1>5
<1> DEFINE item == DecodeItem(id)
<1> HIDE DEF n, toks
<1>7. /\ item.id = id /\ item.kind = "decode" /\ item.from = SeqLen(pool, id)
      /\ item.toks = toks /\ item.last = TRUE /\ item \in PlanItems
  BY <1>1, <1>4, <1>6 DEF DecodeItem, PlanItems, toks
<1> HIDE DEF item
<1>8. FitsDecoding(item, 0)
  <2>1. (item.from + 1) + 0 = n /\ item.from + 1 = n
    <3>1. item.from = n - 1 /\ n \in Nat
      BY <1>2, <1>3, <1>7
    <3> QED
      BY ONLY <3>1
  <2>2. item.toks[1] = Text(item.id)[item.from + 1]
    BY <1>6, <1>7, <2>1
  <2>3. Generated(item.id) >= 1 + 0
    BY <1>3, <1>7
  <2> QED
    BY <1>3, <1>6, <1>7, <2>1, <2>2, <2>3 DEF FitsDecoding, n
<1>9. Len(item.toks) >= 1 /\ item.from + Len(item.toks) <= MaxSeq
  <2> DEFINE s == SeqLen(pool, id)
  <2>1. s \in Nat /\ s < MaxSeq
    BY <1>4
  <2>2. item.from = s /\ Len(item.toks) = 1
    BY <1>6, <1>7
  <2> HIDE DEF s
  <2>3. s + 1 <= MaxSeq /\ 1 >= 1
    BY <2>1, PoolSizes
  <2> QED
    BY <2>2, <2>3, Zenon
<1>10. Planned(item) /\ Len(item.toks) = 1
  BY <1>6, <1>7, <1>8, <1>9 DEF Planned
<1> QED
  BY <1>7, <1>10 DEF item

LEMMA PrefillItemFacts ==
  ASSUME Ready, NEW id \in pool.live, ~PromptComplete(id),
         NEW len \in Nat, len >= 1, len <= Len(Prompt(id)) - row[id].prefilled
  PROVE  /\ PrefillItem(id, len) \in PlanItems /\ Planned(PrefillItem(id, len))
         /\ PrefillItem(id, len).id = id /\ Len(PrefillItem(id, len).toks) = len
<1> DEFINE m == Len(Prompt(id))
           f == row[id].prefilled
           toks == SubSeq(Prompt(id), f + 1, f + len)
           item == PrefillItem(id, len)
<1>1. id \in SeqIds /\ Serves(id) /\ Resting(id)
  BY PoolLens DEF Ready
<1>2. Prompt(id) \in Seq(Tokens) /\ m \in Nat /\ m < MaxSeq /\ f \in Nat
  BY <1>1, RowFacts DEF Ready
<1>3. SeqLen(pool, id) = f /\ Generated(id) = 0
  BY <1>1 DEF Resting, Fed
<1>4. f + len <= m
  <2>1. len <= m - f
    BY Zenon
  <2> HIDE DEF m, f
  <2> QED
    BY <1>2, <2>1
<1>5. toks \in Seq(Tokens) /\ Len(toks) = len
  <2>1. /\ SubSeq(Prompt(id), f + 1, f + len) \in Seq(Tokens)
        /\ Len(SubSeq(Prompt(id), f + 1, f + len)) =
             IF f + 1 <= f + len THEN (f + len) - (f + 1) + 1 ELSE 0
    <3>1. f + 1 \in 1 .. m + 1 /\ f + len \in 0 .. m
      <4> HIDE DEF m, f
      <4> QED
        BY <1>2, <1>4
    <3> HIDE DEF f
    <3> QED
      BY <1>2, <3>1, SliceFacts
  <2> HIDE DEF f
  <2>2. (f + len) - (f + 1) + 1 = len /\ f + 1 <= f + len
    BY <1>2
  <2> QED
    BY <2>1, <2>2
<1>6. /\ item.id = id /\ item.kind = "prefill" /\ item.from = f
      /\ item.toks = toks /\ item.last = (len = m - f)
  BY DEF PrefillItem
<1> HIDE DEF toks
<1>7. item \in PlanItems
  BY <1>1, <1>2, <1>5 DEF PrefillItem, PlanItems, toks
<1> HIDE DEF item
<1>8. FitsPrefill(item)
  <2>1. /\ item.kind = "prefill" /\ ~PromptComplete(item.id) /\ Generated(item.id) = 0
        /\ item.from = row[item.id].prefilled
    BY <1>3, <1>6
  <2>2. Len(item.toks) = len /\ item.from + Len(item.toks) = f + len /\ item.from + 1 = f + 1
    BY <1>5, <1>6
  <2>3. item.from + Len(item.toks) <= Len(Prompt(item.id))
    BY <1>4, <1>6, <2>2
  <2>4. item.toks = SubSeq(Prompt(item.id), item.from + 1, item.from + Len(item.toks))
    BY <1>6, <2>2 DEF toks
  <2>5. item.last <=> item.from + Len(item.toks) = Len(Prompt(item.id))
    <3>1. (len = m - f) <=> (f + len = m)
      <4> HIDE DEF m, f
      <4> QED
        BY <1>2
    <3> QED
      BY <1>6, <2>2, <3>1
  <2> QED
    BY <2>1, <2>3, <2>4, <2>5 DEF FitsPrefill
<1>9. Len(item.toks) >= 1 /\ item.from + Len(item.toks) <= MaxSeq
  <2>1. f + len <= MaxSeq
    <3> HIDE DEF m, f
    <3> QED
      BY <1>2, <1>4, PoolSizes
  <2> QED
    BY <1>5, <1>6, <2>1
<1> QED
  BY <1>3, <1>5, <1>6, <1>7, <1>8, <1>9 DEF Planned, item

-----------------------------------------------------------------------------
(* Lists of items, each of another row. *)
Names(p) == { p[i].id : i \in 1 .. Len(p) }
Apart(p) == \A i, j \in 1 .. Len(p) : p[i].id = p[j].id => i = j
PlanList(p) == /\ p \in Seq(PlanItems) /\ Apart(p)
               /\ \A i \in 1 .. Len(p) : Planned(p[i])

LEMMA AppendItem ==
  ASSUME NEW p, PlanList(p), NEW item \in PlanItems, Planned(item), item.id \notin Names(p)
  PROVE  /\ PlanList(Append(p, item))
         /\ Names(Append(p, item)) = Names(p) \cup {item.id}
         /\ Total(Append(p, item)) = Total(p) + Len(item.toks)
<1> DEFINE n == Len(p)
           q == Append(p, item)
<1>1. p \in Seq(PlanItems) /\ Apart(p) /\ \A i \in 1 .. n : Planned(p[i])
  BY DEF PlanList
<1>2. /\ q \in Seq(PlanItems) /\ Len(q) = n + 1 /\ q[n + 1] = item /\ n \in Nat
      /\ \A j \in 1 .. n : q[j] = p[j]
  BY <1>1, AppendProperties, LenProperties
<1>3. \A j \in 1 .. n : p[j].id # item.id
  BY DEF Names
<1>4. \A i, j \in 1 .. n : p[i].id = p[j].id => i = j
  BY <1>1 DEF Apart
<1>5. Names(p) = { p[i].id : i \in 1 .. n }
  BY DEF Names
<1>6. Total(q) = Total(p) + Len(item.toks)
  BY <1>1, SizeAppend
<1> HIDE DEF n, q
<1>7. \A j \in 1 .. n + 1 : j \in 1 .. n \/ j = n + 1
  BY <1>2
<1>8. Apart(q)
  <2>1. \A i, j \in 1 .. n + 1 : q[i].id = q[j].id => i = j
    BY <1>2, <1>3, <1>4, <1>7
  <2> QED
    BY <1>2, <2>1 DEF Apart
<1>9. \A i \in 1 .. Len(q) : Planned(q[i])
  BY <1>1, <1>2, <1>7
<1>10. Names(q) = Names(p) \cup {item.id}
  <2>1. \A x : (\E i \in 1 .. n + 1 : q[i].id = x) <=> (\E i \in 1 .. n : p[i].id = x) \/ x = item.id
    <3>1. \A i \in 1 .. n : i \in 1 .. n + 1
      BY <1>2
    <3>2. n + 1 \in 1 .. n + 1
      BY <1>2
    <3> QED
      BY <1>2, <1>7, <3>1, <3>2
  <2>2. Names(q) = { q[i].id : i \in 1 .. n + 1 }
    BY <1>2 DEF Names
  <2> QED
    BY <1>5, <2>1, <2>2
<1> QED
  BY <1>2, <1>6, <1>8, <1>9, <1>10 DEF PlanList, q

LEMMA ConcatItems ==
  ASSUME NEW p, PlanList(p), NEW q, PlanList(q), Names(p) \cap Names(q) = {}
  PROVE  /\ PlanList(p \o q)
         /\ Names(p \o q) = Names(p) \cup Names(q)
         /\ Total(p \o q) = Total(p) + Total(q)
<1> DEFINE m == Len(p)
           n == Len(q)
           r == p \o q
<1>1. /\ p \in Seq(PlanItems) /\ \A i \in 1 .. m : Planned(p[i])
      /\ q \in Seq(PlanItems) /\ \A i \in 1 .. n : Planned(q[i])
  BY DEF PlanList
<1>2. m \in Nat /\ n \in Nat
  BY <1>1, LenProperties
<1>3. /\ r \in Seq(PlanItems) /\ Len(r) = m + n
      /\ \A i \in 1 .. m + n : r[i] = IF i <= m THEN p[i] ELSE q[i - m]
  BY <1>1, ConcatProperties
<1>4. /\ \A i, j \in 1 .. m : p[i].id = p[j].id => i = j
      /\ \A i, j \in 1 .. n : q[i].id = q[j].id => i = j
  BY DEF PlanList, Apart
<1>5. \A i \in 1 .. m, j \in 1 .. n : p[i].id # q[j].id
  BY DEF Names
<1>6. /\ Names(p) = { p[i].id : i \in 1 .. m } /\ Names(q) = { q[i].id : i \in 1 .. n }
      /\ Names(r) = { r[i].id : i \in 1 .. Len(r) }
  BY DEF Names
<1>7. Total(r) = Total(p) + Total(q)
  BY <1>1, SizeConcat
<1> HIDE DEF m, n, r
<1>8. \A i \in 1 .. m + n : \/ i \in 1 .. m /\ r[i] = p[i]
                            \/ i > m /\ i - m \in 1 .. n /\ r[i] = q[i - m]
  BY <1>2, <1>3
<1>9. Apart(r)
  <2> SUFFICES ASSUME NEW i \in 1 .. m + n, NEW j \in 1 .. m + n, r[i].id = r[j].id PROVE i = j
    BY <1>3 DEF Apart
  <2>1. CASE i \in 1 .. m /\ r[i] = p[i] /\ j \in 1 .. m /\ r[j] = p[j]
    BY <1>4, <2>1
  <2>2. CASE /\ i > m /\ i - m \in 1 .. n /\ r[i] = q[i - m]
             /\ j > m /\ j - m \in 1 .. n /\ r[j] = q[j - m]
    <3>1. i - m = j - m
      BY <1>4, <2>2
    <3> QED
      BY <1>2, <3>1
  <2> QED
    BY <1>5, <1>8, <2>1, <2>2
<1>10. \A i \in 1 .. Len(r) : Planned(r[i])
  BY <1>1, <1>3, <1>8
<1>11. Names(r) = Names(p) \cup Names(q)
  <2>1. ASSUME NEW x \in Names(r) PROVE x \in Names(p) \cup Names(q)
    BY <1>3, <1>6, <1>8, <2>1
  <2>2. ASSUME NEW x \in Names(p) PROVE x \in Names(r)
    <3>1. PICK i \in 1 .. m : x = p[i].id
      BY <1>6, <2>2
    <3>2. i \in 1 .. m + n /\ r[i] = p[i]
      BY <1>2, <1>3, <3>1
    <3> QED
      BY <1>3, <1>6, <3>1, <3>2
  <2>3. ASSUME NEW x \in Names(q) PROVE x \in Names(r)
    <3>1. PICK i \in 1 .. n : x = q[i].id
      BY <1>6, <2>3
    <3>2. m + i \in 1 .. m + n /\ ~(m + i <= m) /\ (m + i) - m = i
      BY <1>2, <3>1
    <3>3. r[m + i] = q[i]
      BY <1>3, <3>2
    <3> QED
      BY <1>3, <1>6, <3>1, <3>2, <3>3
  <2> QED
    BY <2>1, <2>2, <2>3
<1> QED
  BY <1>3, <1>7, <1>9, <1>10, <1>11 DEF PlanList, r

-----------------------------------------------------------------------------
(* What the loops have given so far. *)
Gots == [ left : Nat, items : [0 .. 2 -> Seq(PlanItems)] ]
Named(got, id) == \E rank \in 0 .. 2 : id \in Names(got.items[rank])
GotOk(got) ==
  /\ got \in Gots
  /\ Total(got.items[0]) + Total(got.items[1]) + Total(got.items[2]) + got.left = Nothing.left
  /\ \A rank \in 0 .. 2 : PlanList(got.items[rank])
  /\ \A a, b \in 0 .. 2 : a # b => Names(got.items[a]) \cap Names(got.items[b]) = {}

LEMMA GivenGot ==
  ASSUME NEW got \in Gots, NEW item \in PlanItems, Len(item.toks) <= got.left
  PROVE  /\ Given(got, item) \in Gots /\ Rank(item) \in 0 .. 2
         /\ Given(got, item).left = got.left - Len(item.toks)
         /\ Given(got, item).items[Rank(item)] = Append(got.items[Rank(item)], item)
         /\ \A rank \in 0 .. 2 : rank # Rank(item) => Given(got, item).items[rank] = got.items[rank]
<1>1. Rank(item) \in 0 .. 2
  BY DEF Rank
<1>2. /\ got.left \in Nat /\ got.items \in [0 .. 2 -> Seq(PlanItems)]
  BY DEF Gots
<1>3. Append(got.items[Rank(item)], item) \in Seq(PlanItems)
  BY <1>1, <1>2, AppendProperties
<1>4. got.left - Len(item.toks) \in Nat
  <2>1. item.toks \in Seq(Tokens)
    BY DEF PlanItems
  <2>2. Len(item.toks) \in Nat
    BY <2>1, LenProperties
  <2> QED
    BY <1>2, <2>2
<1> DEFINE items == [got.items EXCEPT ![Rank(item)] = Append(@, item)]
           g == Given(got, item)
<1>5. items = [got.items EXCEPT ![Rank(item)] = Append(got.items[Rank(item)], item)]
  OBVIOUS
<1>6. items \in [0 .. 2 -> Seq(PlanItems)]
  BY <1>1, <1>2, <1>3, <1>5
<1>7. /\ items[Rank(item)] = Append(got.items[Rank(item)], item)
      /\ \A rank \in 0 .. 2 : rank # Rank(item) => items[rank] = got.items[rank]
  BY <1>1, <1>2, <1>5
<1>8. g = [ left |-> got.left - Len(item.toks), items |-> items ]
  BY DEF Given
<1> HIDE DEF items, g
<1>9. g \in Gots /\ g.left = got.left - Len(item.toks) /\ g.items = items
  BY <1>4, <1>6, <1>8 DEF Gots
<1> QED
  BY <1>1, <1>7, <1>9 DEF g

LEMMA GivenOk ==
  ASSUME NEW got, GotOk(got), NEW item \in PlanItems, Planned(item),
         Len(item.toks) <= got.left, ~Named(got, item.id)
  PROVE  /\ GotOk(Given(got, item))
         /\ \A id : Named(Given(got, item), id) => Named(got, id) \/ id = item.id
<1> DEFINE g == Given(got, item)
           k == Rank(item)
<1>1. got \in Gots
  BY DEF GotOk
<1>2. /\ g \in Gots /\ k \in 0 .. 2 /\ g.left = got.left - Len(item.toks)
      /\ g.items[k] = Append(got.items[k], item)
      /\ \A rank \in 0 .. 2 : rank # k => g.items[rank] = got.items[rank]
  BY <1>1, GivenGot
<1>3. item.id \notin Names(got.items[k]) /\ PlanList(got.items[k])
  BY <1>2 DEF GotOk, Named
<1>4. /\ PlanList(g.items[k])
      /\ Names(g.items[k]) = Names(got.items[k]) \cup {item.id}
      /\ Total(g.items[k]) = Total(got.items[k]) + Len(item.toks)
  BY <1>2, <1>3, AppendItem
<1> HIDE DEF g, k
<1>5. \A rank \in 0 .. 2 : PlanList(g.items[rank])
  BY <1>2, <1>4 DEF GotOk
<1>6. \A rank \in 0 .. 2 : rank # k => Names(g.items[rank]) = Names(got.items[rank])
  BY <1>2
<1>7. \A rank \in 0 .. 2 : item.id \notin Names(got.items[rank])
  BY DEF Named
<1>8. \A a, b \in 0 .. 2 : a # b => Names(got.items[a]) \cap Names(got.items[b]) = {}
  BY DEF GotOk
<1>9. \A a, b \in 0 .. 2 : a # b => Names(g.items[a]) \cap Names(g.items[b]) = {}
  BY <1>4, <1>6, <1>7, <1>8
<1>10. Total(g.items[0]) + Total(g.items[1]) + Total(g.items[2]) + g.left = Nothing.left
  <2> DEFINE T(rank) == Total(got.items[rank])
             U(rank) == Total(g.items[rank])
             l == Len(item.toks)
             budget == Nothing.left
  <2>1. \A rank \in 0 .. 2 : T(rank) \in Nat
    <3> SUFFICES ASSUME NEW rank \in 0 .. 2 PROVE T(rank) \in Nat
      OBVIOUS
    <3> DEFINE p == got.items[rank]
    <3>1. p \in Seq(PlanItems)
      BY DEF GotOk, PlanList
    <3> HIDE DEF p
    <3>2. Len(p) \in 0 .. Len(p)
      BY <3>1, LenProperties
    <3>3. Total(p) \in Nat
      BY <3>1, <3>2, SizeFacts DEF Total
    <3> QED
      BY <3>3 DEF p
  <2>2. l \in Nat
    <3>1. item.toks \in Seq(Tokens)
      BY DEF PlanItems
    <3> QED
      BY <3>1, LenProperties
  <2>3. U(k) = T(k) + l /\ \A rank \in 0 .. 2 : rank # k => U(rank) = T(rank)
    BY <1>2, <1>4
  <2>4. T(0) + T(1) + T(2) + got.left = budget /\ got.left \in Nat /\ g.left = got.left - l
    BY <1>1, <1>2 DEF GotOk, Gots
  <2> HIDE DEF T, U, l, budget
  <2>5. k = 0 \/ k = 1 \/ k = 2
    BY <1>2
  <2>6. U(0) + U(1) + U(2) + g.left = budget
    <3>1. PICK t0, t1, t2 \in Nat : t0 = T(0) /\ t1 = T(1) /\ t2 = T(2)
      BY <2>1
    <3>2. t0 + t1 + t2 + got.left = budget
      BY <2>4, <3>1
    <3>3. CASE k = 0
      <4>1. U(0) = t0 + l /\ U(1) = t1 /\ U(2) = t2
        BY <2>3, <3>1, <3>3
      <4> QED
        BY <2>2, <2>4, <3>2, <4>1
    <3>4. CASE k = 1
      <4>1. U(0) = t0 /\ U(1) = t1 + l /\ U(2) = t2
        BY <2>3, <3>1, <3>4
      <4> QED
        BY <2>2, <2>4, <3>2, <4>1
    <3>5. CASE k = 2
      <4>1. U(0) = t0 /\ U(1) = t1 /\ U(2) = t2 + l
        BY <2>3, <3>1, <3>5
      <4> QED
        BY <2>2, <2>4, <3>2, <4>1
    <3> QED
      BY <2>5, <3>3, <3>4, <3>5
  <2> QED
    BY <2>6 DEF U, budget
<1>11. \A id : Named(g, id) => Named(got, id) \/ id = item.id
  BY <1>2, <1>4, <1>6 DEF Named
<1> QED
  BY <1>2, <1>5, <1>9, <1>10, <1>11 DEF GotOk, g

(* One turn of the loops: at most one item more, of the row the turn is for. *)
LEMMA DecodedTurn ==
  ASSUME Ready, NEW got \in Gots, NEW id \in pool.live
  PROVE  \/ Decoded(got, id) = got
         \/ \E item \in PlanItems :
              /\ Decoded(got, id) = Given(got, item) /\ Len(item.toks) <= got.left
              /\ Planned(item) /\ item.id = id /\ PromptComplete(id)
<1>1. id \in SeqIds /\ got.left \in Nat
  BY PoolLens DEF Ready, Gots
<1>2. CASE got.left # 0 /\ drafts[id] # << >> /\ Len(drafts[id]) + 1 <= got.left
  <2>1. Decoded(got, id) = Given(got, VerifyItem(id))
    BY <1>2 DEF Decoded
  <2>2. /\ VerifyItem(id) \in PlanItems /\ Planned(VerifyItem(id)) /\ VerifyItem(id).id = id
        /\ PromptComplete(id) /\ Len(VerifyItem(id).toks) = Len(drafts[id]) + 1
    BY <1>1, <1>2, VerifyItemFacts
  <2> QED
    BY <1>2, <2>1, <2>2
<1>3. CASE /\ got.left # 0 /\ ~(drafts[id] # << >> /\ Len(drafts[id]) + 1 <= got.left)
           /\ PromptComplete(id) /\ Generated(id) > 0
  <2>1. Decoded(got, id) = Given(got, DecodeItem(id))
    BY <1>3 DEF Decoded
  <2>2. /\ DecodeItem(id) \in PlanItems /\ Planned(DecodeItem(id)) /\ DecodeItem(id).id = id
        /\ Len(DecodeItem(id).toks) = 1
    BY <1>3, DecodeItemFacts
  <2>3. 1 <= got.left
    BY <1>1, <1>3
  <2> QED
    BY <1>3, <2>1, <2>2, <2>3
<1>4. CASE \/ got.left = 0
           \/ /\ ~(drafts[id] # << >> /\ Len(drafts[id]) + 1 <= got.left)
              /\ ~(PromptComplete(id) /\ Generated(id) > 0)
  BY <1>4 DEF Decoded
<1> QED
  BY <1>2, <1>3, <1>4

LEMMA PrefilledTurn ==
  ASSUME Ready, NEW got \in Gots, NEW id \in pool.live
  PROVE  \/ Prefilled(got, id) = got
         \/ \E item \in PlanItems :
              /\ Prefilled(got, id) = Given(got, item) /\ Len(item.toks) <= got.left
              /\ Planned(item) /\ item.id = id /\ ~PromptComplete(id)
<1>1. id \in SeqIds /\ got.left \in Nat
  BY PoolLens DEF Ready, Gots
<1>2. CASE got.left = 0 \/ PromptComplete(id)
  BY <1>2 DEF Prefilled
<1>3. CASE got.left # 0 /\ ~PromptComplete(id)
  <2> DEFINE m == Len(Prompt(id))
             f == row[id].prefilled
             len == Lesser(m - f, got.left)
  <2>1. m \in Nat /\ f \in Nat /\ ~(f >= m)
    <3>1. Serves(id)
      BY DEF Ready
    <3> QED
      BY <1>1, <1>3, <3>1, RowFacts DEF Ready, PromptComplete
  <2>2. Prefilled(got, id) = Given(got, PrefillItem(id, len))
    BY <1>3 DEF Prefilled
  <2> HIDE DEF m, f
  <2>3. len \in Nat /\ len >= 1 /\ len <= m - f /\ len <= got.left
    BY <1>1, <1>3, <2>1 DEF Lesser
  <2> HIDE DEF len
  <2>4. /\ PrefillItem(id, len) \in PlanItems /\ Planned(PrefillItem(id, len))
        /\ PrefillItem(id, len).id = id /\ Len(PrefillItem(id, len).toks) = len
    BY <1>3, <2>3, PrefillItemFacts DEF m, f
  <2> QED
    BY <1>3, <2>2, <2>3, <2>4
<1> QED
  BY <1>2, <1>3

LEMMA NothingGot ==
  ASSUME Ready
  PROVE  /\ Nothing \in Gots /\ GotOk(Nothing) /\ \A id : ~Named(Nothing, id)
         /\ Nothing.left <= BatchTokens /\ Nothing.left <= FreeSlots(pool)
<1> DEFINE b == Lesser(BatchTokens, FreeSlots(pool))
<1>1. b \in Nat /\ b <= BatchTokens /\ b <= FreeSlots(pool)
  BY PoolLens, SpeculationSizes DEF Ready, Lesser
<1> HIDE DEF b
<1>2. Nothing = [ left |-> b, items |-> [rank \in 0 .. 2 |-> << >>] ]
  BY DEF Nothing, b
<1>3. << >> \in Seq(PlanItems) /\ Len(<< >>) = 0
  OBVIOUS
<1>4. Nothing \in Gots /\ Nothing.left = b /\ \A rank \in 0 .. 2 : Nothing.items[rank] = << >>
  BY <1>1, <1>2, <1>3 DEF Gots
<1>5. PlanList(<< >>) /\ Names(<< >>) = {}
  BY <1>3 DEF PlanList, Apart, Names
<1>6. Total(<< >>) = 0
  BY <1>3, SizeFacts DEF Total
<1>7. /\ \A rank \in 0 .. 2 : /\ PlanList(Nothing.items[rank]) /\ Names(Nothing.items[rank]) = {}
                              /\ Total(Nothing.items[rank]) = 0
  BY <1>4, <1>5, <1>6
<1>8. 0 \in 0 .. 2 /\ 1 \in 0 .. 2 /\ 2 \in 0 .. 2
  OBVIOUS
<1>9. Total(Nothing.items[0]) = 0 /\ Total(Nothing.items[1]) = 0 /\ Total(Nothing.items[2]) = 0
  BY <1>7, <1>8
<1>10. Total(Nothing.items[0]) + Total(Nothing.items[1]) + Total(Nothing.items[2]) + Nothing.left
         = Nothing.left
  <2>1. 0 + 0 + 0 + b = b
    BY <1>1
  <2> QED
    BY <1>4, <1>9, <2>1
<1> QED
  BY <1>1, <1>4, <1>7, <1>10 DEF GotOk, Named

(* The rows that run, by their place. *)
LEMMA RunningRow ==
  ASSUME Types, RunningOk, NEW i \in 1 .. Len(running)
  PROVE  running[i] \in SeqIds /\ running[i] \in pool.live
<1>1. running[i] \in SeqIds
  BY ElementOfSeq DEF Types, RowTypes
<1> QED
  BY <1>1 DEF RunningOk

(* The loop over the rows that decode is the loop it says it is. *)
LEMMA DecodesLoop ==
  ASSUME Ready
  PROVE  /\ Decodes[0] = Nothing
         /\ \A i \in 1 .. Len(running) : Decodes[i] = Decoded(Decodes[i - 1], running[i])
<1> DEFINE n == Len(running)
           init == Nothing
           turn == [ i \in 1 .. n |-> [ got \in Gots |-> Decoded(got, running[i]) ] ]
<1>1. n \in Nat /\ init \in Gots
  BY LenProperties, NothingGot DEF Ready, Types, RowTypes
<1>2. ASSUME NEW i \in 1 .. n, NEW got \in Gots PROVE Decoded(got, running[i]) \in Gots
  <2>1. running[i] \in pool.live
    BY RunningRow DEF Ready
  <2>2. \/ Decoded(got, running[i]) = got
        \/ \E item \in PlanItems : /\ Decoded(got, running[i]) = Given(got, item)
                                   /\ Len(item.toks) <= got.left
    BY <2>1, DecodedTurn
  <2> QED
    BY <2>2, GivenGot
<1>3. /\ turn \in [1 .. n -> [Gots -> Gots]]
      /\ \A i \in 1 .. n, got \in Gots : turn[i][got] = Decoded(got, running[i])
  BY <1>2
<1> HIDE DEF turn, init, n
<1>4. PICK f \in [0 .. n -> Gots] : f[0] = init /\ \A i \in 1 .. n : f[i] = turn[i][f[i - 1]]
  <2>1. turn \in [1 .. n -> [Gots -> Gots]]
    BY <1>3
  <2> QED
    BY ONLY <1>1, <2>1, LoopExists
<1>5. ASSUME NEW i \in 1 .. n PROVE f[i] = Decoded(f[i - 1], running[i])
  <2>1. i - 1 \in 0 .. n
    BY <1>1
  <2>2. f[i - 1] \in Gots
    BY <1>4, <2>1
  <2>3. turn[i][f[i - 1]] = Decoded(f[i - 1], running[i])
    BY <1>3, <2>2, Zenon
  <2> QED
    BY <1>4, <2>3, Zenon
<1>6. f = [ i \in 0 .. n |-> IF i = 0 THEN init ELSE Decoded(f[i - 1], running[i]) ]
  <2>1. \A i \in 0 .. n : i # 0 => i \in 1 .. n
    BY <1>1
  <2>2. \A i \in 0 .. n : f[i] = IF i = 0 THEN init ELSE Decoded(f[i - 1], running[i])
    BY <1>4, <1>5, <2>1, Zenon
  <2> QED
    BY <1>4, <2>2, Zenon
<1> DEFINE g == CHOOSE h : h = [ i \in 0 .. n |-> IF i = 0 THEN init ELSE Decoded(h[i - 1], running[i]) ]
<1>7. g = [ i \in 0 .. n |-> IF i = 0 THEN init ELSE Decoded(g[i - 1], running[i]) ]
  BY <1>6, Zenon
<1>8. Decodes = g
  BY DEF Decodes, n, init
<1> HIDE DEF g
<1>9. \A i \in 0 .. n : g[i] = IF i = 0 THEN init ELSE Decoded(g[i - 1], running[i])
  BY <1>7, Zenon
<1>10. g[0] = init /\ \A i \in 1 .. n : g[i] = Decoded(g[i - 1], running[i])
  <2>1. 0 \in 0 .. n /\ \A i \in 1 .. n : i \in 0 .. n /\ i # 0
    BY <1>1
  <2> QED
    BY <1>9, <2>1, Zenon
<1> QED
  BY <1>8, <1>10 DEF n, init

LEMMA DecodesFacts ==
  ASSUME Ready
  PROVE  \A i \in 0 .. Len(running) :
           /\ GotOk(Decodes[i])
           /\ \A id : Named(Decodes[i], id) =>
                PromptComplete(id) /\ \E j \in 1 .. i : id = running[j]
<1> DEFINE n == Len(running)
           R(i, id) == PromptComplete(id) /\ \E j \in 1 .. i : id = running[j]
           I == { i \in 0 .. n : GotOk(Decodes[i]) /\ \A id : Named(Decodes[i], id) => R(i, id) }
<1>1. n \in Nat
  BY LenProperties DEF Ready, Types, RowTypes
<1>2. /\ Decodes[0] = Nothing
      /\ \A i \in 1 .. n : Decodes[i] = Decoded(Decodes[i - 1], running[i])
  BY DecodesLoop
<1>3. \A i \in 1 .. n : running[i] \in pool.live
  BY RunningRow DEF Ready
<1>4. \A i, j \in 1 .. n : running[i] = running[j] => i = j
  BY DEF Ready, RunningOk
<1> HIDE DEF n
<1>5. 0 \in I
  BY <1>1, <1>2, NothingGot
<1>6. ASSUME NEW i \in 1 .. n, i - 1 \in I PROVE i \in I
  <2> DEFINE got == Decodes[i - 1]
             id == running[i]
  <2>1. /\ GotOk(got) /\ got \in Gots /\ id \in pool.live /\ i \in 0 .. n
        /\ Decodes[i] = Decoded(got, id)
    BY <1>1, <1>2, <1>3, <1>6 DEF GotOk
  <2>2. \A x : Named(got, x) => R(i - 1, x)
    BY <1>6
  <2> HIDE DEF got, I
  <2>3. \A x : R(i - 1, x) => R(i, x)
    <3>1. \A j \in 1 .. i - 1 : j \in 1 .. i
      BY <1>1
    <3> QED
      BY <3>1
  <2>4. ~R(i - 1, id)
    <3>1. \A j \in 1 .. i - 1 : j \in 1 .. n /\ j # i
      BY <1>1
    <3> QED
      BY <1>4, <3>1
  <2>5. i \in 1 .. i
    BY <1>1
  <2> HIDE DEF id
  <2>6. GotOk(Decodes[i]) /\ \A x : Named(Decodes[i], x) => R(i, x)
    <3>1. CASE Decoded(got, id) = got
      BY <2>1, <2>2, <2>3, <3>1
    <3>2. ASSUME NEW item \in PlanItems, Decoded(got, id) = Given(got, item),
                 Len(item.toks) <= got.left, Planned(item), item.id = id, PromptComplete(id)
          PROVE  GotOk(Decodes[i]) /\ \A x : Named(Decodes[i], x) => R(i, x)
      <4>1. ~Named(got, item.id)
        BY <2>2, <2>4, <3>2
      <4>2. /\ GotOk(Given(got, item))
            /\ \A x : Named(Given(got, item), x) => Named(got, x) \/ x = item.id
        BY <2>1, <3>2, <4>1, GivenOk
      <4>3. R(i, id)
        BY <2>5, <3>2 DEF id
      <4> QED
        BY <2>1, <2>2, <2>3, <3>2, <4>2, <4>3
    <3> QED
      BY <2>1, <3>1, <3>2, DecodedTurn
  <2> QED
    BY <2>1, <2>6 DEF I
<1> HIDE DEF I
<1>7. \A i \in 0 .. n : i \in I
  BY ONLY <1>1, <1>5, <1>6, LoopInduction
<1> QED
  BY <1>7 DEF I, n

(* The loop over the rows whose prompt is not in yet goes on from there. *)
LEMMA PrefillsLoop ==
  ASSUME Ready
  PROVE  /\ Prefills[0] = Decodes[Len(running)]
         /\ \A i \in 1 .. Len(running) : Prefills[i] = Prefilled(Prefills[i - 1], running[i])
<1> DEFINE n == Len(running)
           init == Decodes[n]
           turn == [ i \in 1 .. n |-> [ got \in Gots |-> Prefilled(got, running[i]) ] ]
<1>1. n \in Nat /\ init \in Gots
  <2>1. n \in Nat
    BY LenProperties DEF Ready, Types, RowTypes
  <2> HIDE DEF n
  <2>2. n \in 0 .. n
    BY <2>1
  <2>3. GotOk(Decodes[n])
    BY <2>2, DecodesFacts DEF n
  <2> QED
    BY <2>1, <2>3 DEF GotOk
<1>2. ASSUME NEW i \in 1 .. n, NEW got \in Gots PROVE Prefilled(got, running[i]) \in Gots
  <2>1. running[i] \in pool.live
    BY RunningRow DEF Ready
  <2>2. \/ Prefilled(got, running[i]) = got
        \/ \E item \in PlanItems : /\ Prefilled(got, running[i]) = Given(got, item)
                                   /\ Len(item.toks) <= got.left
    BY <2>1, PrefilledTurn
  <2> QED
    BY <2>2, GivenGot
<1>3. /\ turn \in [1 .. n -> [Gots -> Gots]]
      /\ \A i \in 1 .. n, got \in Gots : turn[i][got] = Prefilled(got, running[i])
  BY <1>2
<1> HIDE DEF turn, init, n
<1>4. PICK f \in [0 .. n -> Gots] : f[0] = init /\ \A i \in 1 .. n : f[i] = turn[i][f[i - 1]]
  <2>1. turn \in [1 .. n -> [Gots -> Gots]]
    BY <1>3
  <2> QED
    BY ONLY <1>1, <2>1, LoopExists
<1>5. ASSUME NEW i \in 1 .. n PROVE f[i] = Prefilled(f[i - 1], running[i])
  <2>1. i - 1 \in 0 .. n
    BY <1>1
  <2>2. f[i - 1] \in Gots
    BY <1>4, <2>1
  <2>3. turn[i][f[i - 1]] = Prefilled(f[i - 1], running[i])
    BY <1>3, <2>2, Zenon
  <2> QED
    BY <1>4, <2>3, Zenon
<1>6. f = [ i \in 0 .. n |-> IF i = 0 THEN init ELSE Prefilled(f[i - 1], running[i]) ]
  <2>1. \A i \in 0 .. n : i # 0 => i \in 1 .. n
    BY <1>1
  <2>2. \A i \in 0 .. n : f[i] = IF i = 0 THEN init ELSE Prefilled(f[i - 1], running[i])
    BY <1>4, <1>5, <2>1, Zenon
  <2> QED
    BY <1>4, <2>2, Zenon
<1> DEFINE g == CHOOSE h : h = [ i \in 0 .. n |-> IF i = 0 THEN init ELSE Prefilled(h[i - 1], running[i]) ]
<1>7. g = [ i \in 0 .. n |-> IF i = 0 THEN init ELSE Prefilled(g[i - 1], running[i]) ]
  BY <1>6, Zenon
<1>8. Prefills = g
  BY DEF Prefills, n, init
<1> HIDE DEF g
<1>9. \A i \in 0 .. n : g[i] = IF i = 0 THEN init ELSE Prefilled(g[i - 1], running[i])
  BY <1>7, Zenon
<1>10. g[0] = init /\ \A i \in 1 .. n : g[i] = Prefilled(g[i - 1], running[i])
  <2>1. 0 \in 0 .. n /\ \A i \in 1 .. n : i \in 0 .. n /\ i # 0
    BY <1>1
  <2> QED
    BY <1>9, <2>1, Zenon
<1> QED
  BY <1>8, <1>10 DEF n, init

LEMMA PrefillsFacts ==
  ASSUME Ready
  PROVE  GotOk(Prefills[Len(running)])
<1> DEFINE n == Len(running)
           R(i, id) == PromptComplete(id) \/ \E j \in 1 .. i : id = running[j]
           I == { i \in 0 .. n : GotOk(Prefills[i]) /\ \A id : Named(Prefills[i], id) => R(i, id) }
<1>1. n \in Nat
  BY LenProperties DEF Ready, Types, RowTypes
<1>2. /\ Prefills[0] = Decodes[n]
      /\ \A i \in 1 .. n : Prefills[i] = Prefilled(Prefills[i - 1], running[i])
  BY PrefillsLoop
<1>3. \A i \in 1 .. n : running[i] \in pool.live
  BY RunningRow DEF Ready
<1>4. \A i, j \in 1 .. n : running[i] = running[j] => i = j
  BY DEF Ready, RunningOk
<1>5. \A i \in 0 .. n : GotOk(Decodes[i]) /\ \A id : Named(Decodes[i], id) => PromptComplete(id)
  BY DecodesFacts
<1> HIDE DEF n
<1>6. 0 \in I
  <2>1. n \in 0 .. n /\ 0 \in 0 .. n
    BY <1>1
  <2>2. GotOk(Decodes[n]) /\ \A id : Named(Decodes[n], id) => PromptComplete(id)
    BY <1>5, <2>1
  <2> QED
    BY <1>2, <2>1, <2>2
<1>7. ASSUME NEW i \in 1 .. n, i - 1 \in I PROVE i \in I
  <2> DEFINE got == Prefills[i - 1]
             id == running[i]
  <2>1. /\ GotOk(got) /\ got \in Gots /\ id \in pool.live /\ i \in 0 .. n
        /\ Prefills[i] = Prefilled(got, id)
    BY <1>1, <1>2, <1>3, <1>7 DEF GotOk
  <2>2. \A x : Named(got, x) => R(i - 1, x)
    BY <1>7
  <2> HIDE DEF got, I
  <2>3. \A x : R(i - 1, x) => R(i, x)
    <3>1. \A j \in 1 .. i - 1 : j \in 1 .. i
      BY <1>1
    <3> QED
      BY <3>1
  <2>4. R(i - 1, id) => PromptComplete(id)
    <3>1. \A j \in 1 .. i - 1 : j \in 1 .. n /\ j # i
      BY <1>1
    <3> QED
      BY <1>4, <3>1
  <2>5. i \in 1 .. i
    BY <1>1
  <2> HIDE DEF id
  <2>6. GotOk(Prefills[i]) /\ \A x : Named(Prefills[i], x) => R(i, x)
    <3>1. CASE Prefilled(got, id) = got
      BY <2>1, <2>2, <2>3, <3>1
    <3>2. ASSUME NEW item \in PlanItems, Prefilled(got, id) = Given(got, item),
                 Len(item.toks) <= got.left, Planned(item), item.id = id, ~PromptComplete(id)
          PROVE  GotOk(Prefills[i]) /\ \A x : Named(Prefills[i], x) => R(i, x)
      <4>1. ~Named(got, item.id)
        BY <2>2, <2>4, <3>2
      <4>2. /\ GotOk(Given(got, item))
            /\ \A x : Named(Given(got, item), x) => Named(got, x) \/ x = item.id
        BY <2>1, <3>2, <4>1, GivenOk
      <4>3. R(i, id)
        BY <2>5 DEF id
      <4> QED
        BY <2>1, <2>2, <2>3, <3>2, <4>2, <4>3
    <3> QED
      BY <2>1, <3>1, <3>2, PrefilledTurn
  <2> QED
    BY <2>1, <2>6 DEF I
<1> HIDE DEF I
<1>8. \A i \in 0 .. n : i \in I
  BY ONLY <1>1, <1>6, <1>7, LoopInduction
<1>9. n \in I
  BY <1>1, <1>8
<1> QED
  BY <1>9 DEF I, n

(* The plan: every row at most once, each item for its row, within the room. *)
LEMMA PlanOfFacts ==
  ASSUME Ready
  PROVE  /\ PlanList(PlanOf)
         /\ Total(PlanOf) <= FreeSlots(pool) /\ Total(PlanOf) <= BatchTokens
<1> DEFINE got == Prefills[Len(running)]
           p == got.items[0]
           q == got.items[1]
           r == got.items[2]
<1>1. GotOk(got)
  BY PrefillsFacts
<1>2. PlanOf = (p \o q) \o r
  BY DEF PlanOf
<1> HIDE DEF got
<1>3. 0 \in 0 .. 2 /\ 1 \in 0 .. 2 /\ 2 \in 0 .. 2 /\ 0 # 1 /\ 0 # 2 /\ 1 # 2
  OBVIOUS
<1>4. /\ PlanList(p) /\ PlanList(q) /\ PlanList(r)
      /\ Names(p) \cap Names(q) = {} /\ Names(p) \cap Names(r) = {} /\ Names(q) \cap Names(r) = {}
  BY <1>1, <1>3 DEF GotOk
<1>5. Total(p) + Total(q) + Total(r) + got.left = Nothing.left /\ got.left \in Nat
  BY <1>1 DEF GotOk, Gots
<1> HIDE DEF p, q, r
<1>6. PlanList(p \o q) /\ Names(p \o q) = Names(p) \cup Names(q) /\ Total(p \o q) = Total(p) + Total(q)
  BY <1>4, ConcatItems
<1>7. Names(p \o q) \cap Names(r) = {}
  BY <1>4, <1>6
<1>8. PlanList((p \o q) \o r) /\ Total((p \o q) \o r) = Total(p \o q) + Total(r)
  BY <1>4, <1>6, <1>7, ConcatItems
<1>9. \A s : PlanList(s) => Total(s) \in Nat
  <2> SUFFICES ASSUME NEW s, PlanList(s) PROVE Total(s) \in Nat
    OBVIOUS
  <2>1. s \in Seq(PlanItems)
    BY DEF PlanList
  <2>2. Len(s) \in 0 .. Len(s)
    BY <2>1, LenProperties
  <2> QED
    BY <2>1, <2>2, SizeFacts DEF Total
<1>10. PICK a, b, c \in Nat : a = Total(p) /\ b = Total(q) /\ c = Total(r)
  BY <1>4, <1>9
<1>11. a + b + c + got.left = Nothing.left
  BY <1>5, <1>10
<1>12. Total(PlanOf) = a + b + c
  BY <1>2, <1>6, <1>8, <1>10
<1>13. Nothing.left <= BatchTokens /\ Nothing.left <= FreeSlots(pool) /\ Nothing.left \in Nat
  BY NothingGot DEF Gots
<1>14. FreeSlots(pool) \in Nat /\ BatchTokens \in Nat
  BY PoolLens, SpeculationSizes DEF Ready
<1>15. a + b + c <= Nothing.left
  BY <1>5, <1>11, <1>13
<1> QED
  BY <1>2, <1>8, <1>12, <1>13, <1>14, <1>15

-----------------------------------------------------------------------------
(* The pool while the items of a plan get their slots. *)
Room ==
  /\ WholePool(pool) /\ plan \in Seq(PlanItems) /\ Apart(plan)
  /\ Total(plan) <= FreeSlots(pool)
  /\ \A i \in Items(plan) : /\ plan[i].id \in pool.live
                            /\ SeqLen(pool, plan[i].id) + Len(plan[i].toks) <= MaxSeq
Reached(k, p) ==
  /\ WholePool(p) /\ p.live = pool.live
  /\ FreeSlots(p) = FreeSlots(pool) - Size(plan, k)
  /\ \A i \in Items(plan) :
       SeqLen(p, plan[i].id) = SeqLen(pool, plan[i].id) + (IF i <= k THEN Len(plan[i].toks) ELSE 0)
  /\ \A id \in SeqIds : (\A i \in Items(plan) : plan[i].id # id) => p.slots[id] = pool.slots[id]
  /\ \A id \in SeqIds : \A pos \in 1 .. SeqLen(pool, id) : p.slots[id][pos] = pool.slots[id][pos]

LEMMA ReachesOn ==
  ASSUME Room, NEW k \in 1 .. Len(plan), NEW p, Reached(k - 1, p)
  PROVE  /\ CanExtend(p, plan[k].id, Len(plan[k].toks))
         /\ Reached(k, Extend(p, plan[k].id, Len(plan[k].toks)))
<1> DEFINE id == plan[k].id
           n == Len(plan[k].toks)
           q == Extend(p, id, n)
           L == Len(plan)
<1>1. /\ plan \in Seq(PlanItems) /\ L \in Nat /\ k \in 1 .. L
      /\ \A i \in 1 .. L : plan[i].id \in SeqIds /\ Len(plan[i].toks) \in Nat
  BY PlanItem, LenProperties DEF Room
<1>2. id \in pool.live /\ id \in SeqIds /\ n \in Nat
  BY <1>1 DEF Room, Items
<1>3. \A i \in 1 .. L : plan[i].id = id => i = k
  BY <1>1 DEF Room, Apart
<1>4. p \in Pools /\ pool \in Pools
  BY DEF Room, Reached, WholePool
<1>5. /\ FreeSlots(p) \in Nat /\ FreeSlots(pool) \in Nat
      /\ \A x \in SeqIds : SeqLen(p, x) \in Nat /\ SeqLen(pool, x) \in Nat
  BY <1>4, PoolFields
<1>6. SeqLen(p, id) = SeqLen(pool, id)
  <2>1. ~(k <= k - 1)
    BY <1>1
  <2>2. SeqLen(p, id) = SeqLen(pool, id) + 0
    BY <1>1, <2>1 DEF Reached, Items
  <2> QED
    BY <1>2, <1>5, <2>2
<1>7. /\ Size(plan, k) = Size(plan, k - 1) + n /\ Size(plan, k) <= Total(plan)
      /\ Size(plan, k) \in Nat /\ Size(plan, k - 1) \in Nat /\ Total(plan) \in Nat
  <2>1. k \in 0 .. L /\ k - 1 \in 0 .. L /\ L \in 0 .. L
    BY <1>1
  <2>2. \A i \in 0 .. L : Size(plan, i) \in Nat
    BY <1>1, SizeFacts
  <2>3. Size(plan, k) = Size(plan, k - 1) + n
    BY <1>1, SizeFacts
  <2>4. Size(plan, k) <= Total(plan)
    BY <1>1, FlatWindow
  <2> QED
    BY <2>1, <2>2, <2>3, <2>4 DEF Total
<1>8. FreeSlots(p) = FreeSlots(pool) - Size(plan, k - 1) /\ Total(plan) <= FreeSlots(pool)
  BY DEF Reached, Room
<1>9. SeqLen(pool, id) + n <= MaxSeq
  BY <1>1 DEF Room, Items
<1> HIDE DEF id, n, q, L
<1>10. n <= FreeSlots(p)
  <2> DEFINE a == FreeSlots(pool)
             b == FreeSlots(p)
             c == Size(plan, k - 1)
             d == Size(plan, k)
             e == Total(plan)
  <2>1. d = c + n /\ d <= e /\ b = a - c /\ e <= a /\ a \in Nat /\ c \in Nat /\ d \in Nat /\ e \in Nat
    BY <1>5, <1>7, <1>8
  <2> HIDE DEF a, b, c, d, e
  <2>2. n <= b
    BY <1>2, <2>1
  <2> QED
    BY <2>2 DEF b
<1>11. CanExtend(p, id, n)
  BY <1>2, <1>6, <1>9, <1>10 DEF CanExtend, Reached
<1>12. WholePool(q)
  BY <1>2, <1>11, WholeExtend DEF q, Reached
<1>13. /\ q.live = p.live /\ FreeSlots(q) = FreeSlots(p) - n
       /\ \A other \in SeqIds \ {id} : q.slots[other] = p.slots[other]
       /\ SeqLen(q, id) = SeqLen(p, id) + n
       /\ \A pos \in 1 .. SeqLen(p, id) : q.slots[id][pos] = p.slots[id][pos]
  BY <1>2, <1>4, <1>11, ExtendFacts DEF q
<1>14. FreeSlots(q) = FreeSlots(pool) - Size(plan, k)
  <2> DEFINE a == FreeSlots(pool)
             b == FreeSlots(p)
             c == Size(plan, k - 1)
             d == Size(plan, k)
             e == FreeSlots(q)
  <2>1. d = c + n /\ b = a - c /\ e = b - n /\ a \in Nat /\ c \in Nat /\ d \in Nat
    BY <1>5, <1>7, <1>8, <1>13
  <2> HIDE DEF a, b, c, d, e
  <2>2. e = a - d
    BY <1>2, <2>1
  <2> QED
    BY <2>2 DEF a, d, e
<1>15. ASSUME NEW i \in 1 .. L
       PROVE  SeqLen(q, plan[i].id) =
                SeqLen(pool, plan[i].id) + (IF i <= k THEN Len(plan[i].toks) ELSE 0)
  <2>1. CASE i = k
    <3>1. k <= k
      BY <1>1
    <3>2. SeqLen(q, id) = SeqLen(pool, id) + n
      BY <1>6, <1>13
    <3> QED
      BY <2>1, <3>1, <3>2 DEF id, n
  <2>2. CASE i # k
    <3>1. (i <= k - 1) <=> (i <= k)
      BY <1>1, <2>2
    <3>2. plan[i].id # id /\ plan[i].id \in SeqIds
      BY <1>1, <1>3, <2>2
    <3>3. SeqLen(q, plan[i].id) = SeqLen(p, plan[i].id)
      BY <1>13, <3>2 DEF SeqLen
    <3>4. SeqLen(p, plan[i].id) =
            SeqLen(pool, plan[i].id) + (IF i <= k - 1 THEN Len(plan[i].toks) ELSE 0)
      BY DEF Reached, Items, L
    <3> QED
      BY <3>1, <3>3, <3>4
  <2> QED
    BY <2>1, <2>2
<1>16. ASSUME NEW x \in SeqIds, \A i \in Items(plan) : plan[i].id # x
       PROVE  q.slots[x] = pool.slots[x]
  <2>1. x # id
    BY <1>1, <1>16 DEF Items, L, id
  <2>2. p.slots[x] = pool.slots[x]
    BY <1>16 DEF Reached
  <2> QED
    BY <1>13, <2>1, <2>2
<1>17. ASSUME NEW x \in SeqIds, NEW pos \in 1 .. SeqLen(pool, x)
       PROVE  q.slots[x][pos] = pool.slots[x][pos]
  <2>1. p.slots[x][pos] = pool.slots[x][pos]
    BY DEF Reached
  <2>2. q.slots[x][pos] = p.slots[x][pos]
    BY <1>6, <1>13
  <2> QED
    BY <2>1, <2>2
<1>18. Reached(k, q)
  BY <1>12, <1>13, <1>14, <1>15, <1>16, <1>17 DEF Reached, Items, L
<1> QED
  BY <1>11, <1>18 DEF id, n, q

LEMMA ExtendedFacts ==
  ASSUME Room
  PROVE  Reached(Len(plan), Extended[Len(plan)])
<1> DEFINE n == Len(plan)
           More(p, i) == Extend(p, plan[i].id, Len(plan[i].toks))
           Can(p, i) == CanExtend(p, plan[i].id, Len(plan[i].toks))
           T == Pools
           init == pool
           turn == [ i \in 1 .. n |-> [ p \in T |-> IF Can(p, i) THEN More(p, i) ELSE p ] ]
<1>1. n \in Nat /\ init \in T
  BY LenProperties DEF Room, WholePool
<1>2. ASSUME NEW i \in 1 .. n PROVE plan[i].id \in SeqIds /\ Len(plan[i].toks) \in Nat
  BY PlanItem DEF Room
<1>3. \A i \in 1 .. n, p \in T : (IF Can(p, i) THEN More(p, i) ELSE p) \in T
  BY <1>2, ExtendFacts
<1>4. Reached(0, init)
  <2>1. Size(plan, 0) = 0
    BY SizeFacts DEF Room
  <2>2. FreeSlots(pool) = FreeSlots(pool) - 0
    BY <1>1, PoolFields
  <2>3. \A i \in 1 .. n : ~(i <= 0) /\ SeqLen(pool, plan[i].id) \in Nat
    BY <1>1, <1>2, PoolFields
  <2>4. \A i \in 1 .. n : SeqLen(pool, plan[i].id) =
          SeqLen(pool, plan[i].id) + (IF i <= 0 THEN Len(plan[i].toks) ELSE 0)
    BY <2>3
  <2> QED
    BY <2>1, <2>2, <2>4 DEF Reached, Room, Items
<1>5. \A i \in 1 .. n, p \in T : Reached(i - 1, p) => Can(p, i) /\ Reached(i, More(p, i))
  BY ReachesOn
<1>6. /\ turn \in [1 .. n -> [T -> T]]
      /\ \A i \in 1 .. n, p \in T : turn[i][p] = IF Can(p, i) THEN More(p, i) ELSE p
  BY <1>3, Zenon
<1>7. \A i, p : Reached(i, p) => p \in T
  BY DEF Reached, WholePool
<1>8. Extended = CHOOSE h : h = [ i \in 0 .. n |-> IF i = 0 THEN init ELSE More(h[i - 1], i) ]
  BY DEF Extended
<1> HIDE DEF turn, init, n, T, More, Can
<1>9. PICK f \in [0 .. n -> T] : f[0] = init /\ \A i \in 1 .. n : f[i] = turn[i][f[i - 1]]
  <2>1. turn \in [1 .. n -> [T -> T]]
    BY <1>6
  <2> QED
    BY ONLY <1>1, <2>1, LoopExists
<1>10. \A i \in 0 .. n : Reached(i, f[i])
  <2> DEFINE I == { i \in 0 .. n : Reached(i, f[i]) }
  <2>1. 0 \in I
    BY <1>1, <1>4, <1>9
  <2>2. ASSUME NEW i \in 1 .. n, i - 1 \in I PROVE i \in I
    <3>1. i \in 0 .. n /\ Reached(i - 1, f[i - 1])
      BY <1>1, <2>2
    <3>2. f[i - 1] \in T
      BY <1>7, <3>1
    <3>3. f[i] = More(f[i - 1], i) /\ Reached(i, More(f[i - 1], i))
      BY <1>5, <1>6, <1>9, <3>1, <3>2, Zenon
    <3> QED
      BY <3>1, <3>3
  <2> HIDE DEF I
  <2>3. \A i \in 0 .. n : i \in I
    BY ONLY <1>1, <2>1, <2>2, LoopInduction
  <2> QED
    BY <2>3 DEF I
<1>11. ASSUME NEW i \in 1 .. n PROVE f[i] = More(f[i - 1], i)
  <2>1. i - 1 \in 0 .. n
    BY <1>1
  <2>2. Reached(i - 1, f[i - 1]) /\ f[i - 1] \in T
    BY <1>7, <1>10, <2>1
  <2> QED
    BY <1>5, <1>6, <1>9, <2>2, Zenon
<1>12. f = [ i \in 0 .. n |-> IF i = 0 THEN init ELSE More(f[i - 1], i) ]
  <2>1. \A i \in 0 .. n : i # 0 => i \in 1 .. n
    BY <1>1
  <2>2. \A i \in 0 .. n : f[i] = IF i = 0 THEN init ELSE More(f[i - 1], i)
    BY <1>9, <1>11, <2>1, Zenon
  <2> QED
    BY <1>9, <2>2, Zenon
<1>13. Extended = [ i \in 0 .. n |-> IF i = 0 THEN init ELSE More(Extended[i - 1], i) ]
  <2> DEFINE g == CHOOSE h : h = [ i \in 0 .. n |-> IF i = 0 THEN init ELSE More(h[i - 1], i) ]
  <2>1. g = [ i \in 0 .. n |-> IF i = 0 THEN init ELSE More(g[i - 1], i) ]
    BY <1>12, Zenon
  <2>2. Extended = g
    BY <1>8
  <2> HIDE DEF g
  <2> QED
    BY <2>1, <2>2, Zenon
<1> DEFINE e == Extended
<1>14. e = [ i \in 0 .. n |-> IF i = 0 THEN init ELSE More(e[i - 1], i) ]
  BY <1>13
<1>15. e = Extended
  OBVIOUS
<1> HIDE DEF e
<1>16. \A i \in 0 .. n : e[i] = IF i = 0 THEN init ELSE More(e[i - 1], i)
  BY <1>14, Zenon
<1>17. \A i \in 0 .. n : Reached(i, e[i])
  <2> DEFINE I == { i \in 0 .. n : Reached(i, e[i]) }
  <2>1. 0 \in I
    <3>1. 0 \in 0 .. n
      BY <1>1
    <3>2. e[0] = init
      BY <1>16, <3>1, Zenon
    <3> QED
      BY <1>4, <3>1, <3>2
  <2>2. ASSUME NEW i \in 1 .. n, i - 1 \in I PROVE i \in I
    <3>1. i \in 0 .. n /\ i # 0 /\ Reached(i - 1, e[i - 1])
      BY <1>1, <2>2
    <3>2. e[i] = More(e[i - 1], i)
      BY <1>16, <3>1, Zenon
    <3>3. Reached(i, e[i])
      BY <1>5, <1>7, <3>1, <3>2
    <3> QED
      BY <3>1, <3>3
  <2> HIDE DEF I
  <2>3. \A i \in 0 .. n : i \in I
    BY ONLY <1>1, <2>1, <2>2, LoopInduction
  <2> QED
    BY <2>3 DEF I
<1>18. n \in 0 .. n
  BY <1>1
<1> QED
  BY <1>15, <1>17, <1>18 DEF n

-----------------------------------------------------------------------------
(* What a step leaves of a row. *)
SameRow(id) ==
  /\ row'[id].req = row[id].req /\ row'[id].prefilled = row[id].prefilled
  /\ row'[id].feed \in {row[id].feed, NoFeed}
  /\ ask' = ask /\ said'[row[id].req] = said[row[id].req]
Untouched(id) == SameRow(id) /\ SeqLen(pool', id) = SeqLen(pool, id)

LEMMA UntouchedText ==
  ASSUME NEW id, SameRow(id)
  PROVE  /\ Text(id)' = Text(id) /\ Prompt(id)' = Prompt(id) /\ Generated(id)' = Generated(id)
         /\ PromptComplete(id)' = PromptComplete(id) /\ Fed(id)' = Fed(id)
<1>1. Text(id)' = Text(id) /\ Prompt(id)' = Prompt(id)
  BY DEF Untouched, SameRow, Text, Prompt
<1>2. Generated(id)' = Generated(id) /\ PromptComplete(id)' = PromptComplete(id)
  BY <1>1 DEF Untouched, SameRow, Generated, PromptComplete
<1> QED
  BY <1>1, <1>2 DEF Untouched, SameRow, Fed

LEMMA RestingKept ==
  ASSUME NEW id, Untouched(id), Resting(id)
  PROVE  Resting(id)'
BY UntouchedText DEF Untouched, SameRow, Resting

LEMMA QuietKeeps ==
  ASSUME SpecInv, UNCHANGED << texts, pool, running, row, done >>
  PROVE  /\ TextTypes' /\ TextsBegin' /\ PoolOk' /\ RunningOk' /\ ServesOne'
         /\ \A id : Untouched(id)
         /\ \A id : Resting(id) => Resting(id)'
<1>1. TextTypes' /\ TextsBegin'
  BY DEF SpecInv, Types, TextTypes, TextsBegin, texts
<1>2. PoolOk' /\ RunningOk'
  BY DEF SpecInv, PoolOk, RunningOk
<1>3. ServesOne'
  BY DEF SpecInv, ServesOne, texts
<1>4. \A id : Untouched(id)
  BY DEF Untouched, SameRow, texts
<1> QED
  BY <1>1, <1>2, <1>3, <1>4, RestingKept

(* Where no plan is in hand, every row rests or is finished. *)
LEMMA RestingAll ==
  ASSUME SpecInv, phase # "fail", ~InHand, done = {}
  PROVE  \A id \in pool.live : Serves(id) /\ Resting(id)
BY DEF SpecInv, RestOk, ServesOne, Serves

LEMMA BeginDraftingStep ==
  ASSUME SpecInv, BeginDrafting
  PROVE  SpecInv'
<1>0. /\ phase = "admit" /\ phase' = "draft" /\ at' = 1 /\ left' = FreeSlots(pool) /\ committed' = 0
      /\ UNCHANGED << texts, pool, running, row, done >>
      /\ UNCHANGED << device, journal, lens, mixed, faults, drafts, plan, tok, sampled, outcome >>
  BY DEF BeginDrafting
<1>1. /\ TextTypes' /\ TextsBegin' /\ PoolOk' /\ RunningOk' /\ ServesOne'
      /\ \A id : Resting(id) => Resting(id)'
  BY <1>0, QuietKeeps
<1>2. depth' \in 0 .. K
  <2>1. PICK k \in 1 .. K : depth' = EffectiveK(k)
    BY DEF BeginDrafting
  <2> QED
    BY <2>1, SpeculationSizes DEF EffectiveK
<1>3. left' \in Nat
  BY <1>0, PoolLens DEF SpecInv
<1>4. Types'
  BY <1>0, <1>1, <1>2, <1>3
     DEF SpecInv, Types, DeviceTypes, RowTypes, StepTypes, Phases, device
<1>5. Scratch'
  BY <1>0 DEF SpecInv, Scratch
<1>6. ~InHand /\ ~InHand'
  BY <1>0 DEF InHand
<1>7. PlanOk' /\ FitsPool'
  BY <1>0, <1>6 DEF PlanOk, FitsPool
<1>8. RestOk'
  BY <1>0, <1>1, <1>6 DEF SpecInv, RestOk
<1>9. DraftsOk'
  <2>1. drafts = NoDrafts
    BY <1>0 DEF SpecInv, Scratch
  <2>2. \A id \in SeqIds : drafts'[id] = << >>
    BY <1>0, <2>1 DEF NoDrafts
  <2> QED
    BY <2>2 DEF DraftsOk
<1>10. JournalOk'
  BY <1>0, <1>6 DEF SpecInv, JournalOk, ToSettle
<1> QED
  BY <1>1, <1>4, <1>5, <1>7, <1>8, <1>9, <1>10 DEF SpecInv

(* A row's fields, one of them changed. *)
LEMMA RowChange ==
  ASSUME row \in [SeqIds -> RowStates], NEW id \in SeqIds,
         NEW new \in RowStates, row' = [row EXCEPT ![id] = new]
  PROVE  /\ row' \in [SeqIds -> RowStates] /\ row'[id] = new
         /\ \A other \in SeqIds : other # id => row'[other] = row[other]
OBVIOUS

LEMMA DraftingSteps ==
  ASSUME SpecInv, NEW id \in SeqIds, DraftSkip(id) \/ DraftNoSlots(id)
  PROVE  SpecInv'
<1>0. /\ phase = "draft" /\ phase' = "draft" /\ at' \in {at + 1, Len(running) + 1}
      /\ UNCHANGED << texts, pool, running, row, done >>
      /\ UNCHANGED << device, journal, lens, mixed, faults, drafts, plan, tok, sampled, outcome >>
      /\ UNCHANGED << committed, depth, left >>
  BY DEF DraftSkip, DraftNoSlots, Drafting
<1>1. /\ TextTypes' /\ TextsBegin' /\ PoolOk' /\ RunningOk' /\ ServesOne'
      /\ \A x : Resting(x) => Resting(x)'
      /\ \A x : Untouched(x)
  BY <1>0, QuietKeeps
<1>2. at' \in Nat \ {0}
  BY <1>0, LenProperties DEF SpecInv, Types, RowTypes, StepTypes
<1>3. Types'
  BY <1>0, <1>1, <1>2 DEF SpecInv, Types, DeviceTypes, RowTypes, StepTypes, device
<1>4. Scratch'
  BY <1>0 DEF SpecInv, Scratch
<1>5. ~InHand /\ ~InHand'
  BY <1>0 DEF InHand
<1>6. PlanOk' /\ FitsPool'
  BY <1>0, <1>5 DEF PlanOk, FitsPool
<1>7. RestOk'
  BY <1>0, <1>1, <1>5 DEF SpecInv, RestOk
<1>8. DraftsOk'
  BY <1>0, <1>1, UntouchedText DEF Untouched, SameRow, SpecInv, DraftsOk, Drafted1
<1>9. JournalOk'
  BY <1>0, <1>5 DEF SpecInv, JournalOk, ToSettle
<1> QED
  BY <1>1, <1>3, <1>4, <1>6, <1>7, <1>8, <1>9 DEF SpecInv

LEMMA DraftDesyncedStep ==
  ASSUME SpecInv, NEW id \in SeqIds, DraftDesynced(id)
  PROVE  SpecInv'
<1> DEFINE new == [row[id] EXCEPT !.feed = NoFeed, !.desynced = TRUE]
<1>0. /\ phase = "draft" /\ phase' = "draft" /\ at' = at + 1
      /\ row' = [row EXCEPT ![id] = new]
      /\ UNCHANGED << texts, pool, running, done >>
      /\ UNCHANGED << device, journal, lens, mixed, faults, drafts, plan, tok, sampled, outcome >>
      /\ UNCHANGED << committed, depth, left >>
  BY DEF DraftDesynced, Drafting
<1>1. row \in [SeqIds -> RowStates] /\ row[id] \in RowStates
  BY DEF SpecInv, Types, RowTypes
<1>2. /\ new \in RowStates /\ new.req = row[id].req /\ new.prefilled = row[id].prefilled
      /\ new.feed = NoFeed
  BY <1>1 DEF RowStates, NoFeed
<1> HIDE DEF new
<1>3. /\ row' \in [SeqIds -> RowStates] /\ row'[id] = new
      /\ \A x \in SeqIds : x # id => row'[x] = row[x]
  BY <1>0, <1>1, <1>2, RowChange
<1>4. \A x \in SeqIds : Untouched(x)
  BY <1>0, <1>2, <1>3 DEF Untouched, SameRow, texts
<1>5. \A x \in SeqIds : Resting(x) => Resting(x)'
  BY <1>4, RestingKept
<1>6. \A x \in pool.live : x \in SeqIds /\ row'[x].req = row[x].req
  BY <1>4, PoolLens DEF SpecInv, Untouched, SameRow
<1>7. TextsBegin' /\ PoolOk' /\ RunningOk'
  BY <1>0 DEF SpecInv, TextsBegin, PoolOk, RunningOk, texts
<1>8. ServesOne'
  BY <1>0, <1>6 DEF SpecInv, ServesOne, texts
<1>9. Types'
  BY <1>0, <1>3 DEF SpecInv, Types, TextTypes, DeviceTypes, RowTypes, StepTypes, texts, device
<1>10. Scratch'
  BY <1>0 DEF SpecInv, Scratch
<1>11. ~InHand /\ ~InHand'
  BY <1>0 DEF InHand
<1>12. PlanOk' /\ FitsPool'
  BY <1>0, <1>11 DEF PlanOk, FitsPool
<1>13. RestOk'
  BY <1>0, <1>5, <1>6, <1>11 DEF SpecInv, RestOk
<1>14. DraftsOk'
  <2>1. \A x \in SeqIds : Drafted1(x) => Drafted1(x)'
    BY <1>0, <1>4, UntouchedText DEF Untouched, SameRow, Drafted1
  <2> QED
    BY <1>0, <2>1 DEF SpecInv, DraftsOk
<1>15. JournalOk'
  BY <1>0, <1>11 DEF SpecInv, JournalOk, ToSettle
<1> QED
  BY <1>7, <1>8, <1>9, <1>10, <1>12, <1>13, <1>14, <1>15 DEF SpecInv

LEMMA DraftStep ==
  ASSUME SpecInv, NEW id \in SeqIds, NEW draft \in [1 .. depth -> Tokens], Draft(id, draft)
  PROVE  SpecInv'
<1> DEFINE new == [row[id] EXCEPT !.feed = NoFeed]
           f == row[id].feed
           to == f.first + f.len + depth - 1
<1>0. /\ phase = "draft" /\ phase' = "draft" /\ at' = at + 1 /\ Eligible(id)
      /\ row' = [row EXCEPT ![id] = new] /\ left >= depth + 1 /\ left' = left - (depth + 1)
      /\ Len(draft) = depth /\ drafts' = [drafts EXCEPT ![id] = draft]
      /\ lens' = [lens EXCEPT ![id] = to]
      /\ at <= Len(running) /\ id = running[at]
      /\ UNCHANGED << texts, pool, running, done >>
      /\ UNCHANGED << device, journal, mixed, faults, plan, tok, sampled, outcome >>
      /\ UNCHANGED << committed, depth >>
  BY DEF Draft, Drafting
<1>1. /\ row \in [SeqIds -> RowStates] /\ row[id] \in RowStates
      /\ depth \in Nat /\ left \in Nat /\ at \in Nat \ {0}
  BY SpeculationSizes DEF SpecInv, Types, RowTypes, StepTypes
<1>2. /\ new \in RowStates /\ new.req = row[id].req /\ new.prefilled = row[id].prefilled
      /\ new.feed = NoFeed /\ f \in [first : Nat, len : Nat]
  BY <1>1 DEF RowStates, NoFeed
<1> HIDE DEF new
<1>3. /\ row' \in [SeqIds -> RowStates] /\ row'[id] = new
      /\ \A x \in SeqIds : x # id => row'[x] = row[x]
  BY <1>0, <1>1, <1>2, RowChange
<1>4. \A x \in SeqIds : Untouched(x)
  BY <1>0, <1>2, <1>3 DEF Untouched, SameRow, texts
<1>5. \A x \in SeqIds : Resting(x) => Resting(x)'
  BY <1>4, RestingKept
<1>6. \A x \in pool.live : x \in SeqIds /\ row'[x].req = row[x].req
  BY <1>4, PoolLens DEF SpecInv, Untouched, SameRow
<1>7. TextsBegin' /\ PoolOk' /\ RunningOk'
  BY <1>0 DEF SpecInv, TextsBegin, PoolOk, RunningOk, texts
<1>8. ServesOne'
  BY <1>0, <1>6 DEF SpecInv, ServesOne, texts
<1>11. ~InHand /\ ~InHand'
  BY <1>0 DEF InHand
<1>16. id \in pool.live /\ Serves(id) /\ Resting(id)
  <2>1. at \in 1 .. Len(running)
    BY <1>0, <1>1, LenProperties DEF SpecInv, Types, RowTypes
  <2>2. id \in pool.live
    BY <1>0, <2>1, RunningRow DEF SpecInv
  <2>3. done = {}
    BY <1>0 DEF SpecInv, Scratch
  <2> QED
    BY <1>0, <1>11, <2>2, <2>3, RestingAll
<1>17. depth > 0 /\ PromptComplete(id) /\ f # NoFeed /\ Headroom(pool, id) >= depth + 1
  BY <1>0 DEF Eligible
<1>18. f.first + f.len = SeqLen(pool, id)
  BY <1>16, <1>17 DEF Resting
<1>19. SeqLen(pool, id) \in Nat /\ SeqLen(pool, id) + depth + 1 <= MaxSeq
  <2>1. SeqLen(pool, id) \in Nat
    BY PoolLens DEF SpecInv
  <2> QED
    BY <1>1, <1>17, <2>1, PoolSizes DEF Headroom
<1>20. to \in 0 .. MaxSeq
  <2>1. f.first \in Nat /\ f.len \in Nat
    BY <1>2
  <2> HIDE DEF f
  <2> QED
    BY <1>1, <1>17, <1>18, <1>19, <2>1, PoolSizes
<1> HIDE DEF f, to
<1>21. lens' \in [SeqIds -> 0 .. MaxSeq]
  BY <1>0, <1>20 DEF SpecInv, Types, RowTypes
<1>22. left' \in Nat
  BY <1>0, <1>1
<1>23. draft \in Seq(Tokens) /\ Len(draft) = depth
  BY <1>0, <1>1, IsASeq
<1>24. /\ drafts' \in [SeqIds -> Seq(Tokens)] /\ drafts'[id] = draft
       /\ \A x \in SeqIds : x # id => drafts'[x] = drafts[x]
  BY <1>0, <1>23 DEF SpecInv, Types, StepTypes
<1>9. Types'
  <2>1. TextTypes' /\ DeviceTypes'
    BY <1>0 DEF SpecInv, Types, TextTypes, DeviceTypes, texts, device
  <2>2. RowTypes'
    BY <1>0, <1>3, <1>21 DEF SpecInv, Types, RowTypes
  <2>3. StepTypes'
    BY <1>0, <1>1, <1>22, <1>24 DEF SpecInv, Types, StepTypes
  <2> QED
    BY <2>1, <2>2, <2>3 DEF Types
<1>10. Scratch'
  BY <1>0 DEF SpecInv, Scratch
<1>12. PlanOk' /\ FitsPool'
  BY <1>0, <1>11 DEF PlanOk, FitsPool
<1>13. RestOk'
  BY <1>0, <1>5, <1>6, <1>11 DEF SpecInv, RestOk
<1>14. DraftsOk'
  <2>1. Drafted1(id)'
    <3>1. Len(drafts'[id]) = depth
      BY <1>23, <1>24
    <3>2. SeqLen(pool', id) = SeqLen(pool, id) /\ pool' = pool
      BY <1>0
    <3>3. PromptComplete(id)'
      BY <1>4, <1>17, UntouchedText DEF Untouched, SameRow
    <3> QED
      BY <1>16, <1>19, <3>1, <3>2, <3>3 DEF Drafted1
  <2>2. ASSUME NEW x \in SeqIds, x # id, drafts'[x] # << >> PROVE Drafted1(x)'
    <3>1. Drafted1(x) /\ drafts'[x] = drafts[x]
      BY <1>0, <1>24, <2>2 DEF SpecInv, DraftsOk
    <3> QED
      BY <1>0, <1>4, <3>1, UntouchedText DEF Untouched, SameRow, Drafted1
  <2> QED
    BY <2>1, <2>2 DEF DraftsOk
<1>15. JournalOk'
  BY <1>0, <1>11 DEF SpecInv, JournalOk, ToSettle
<1> QED
  BY <1>7, <1>8, <1>9, <1>10, <1>12, <1>13, <1>14, <1>15 DEF SpecInv

LEMMA AdmitStep ==
  ASSUME SpecInv, NEW id \in SeqIds, Admit(id)
  PROVE  SpecInv'
<1>0. /\ phase = "admit" /\ phase' = "admit" /\ CanAlloc(pool, id)
      /\ pool' = Alloc(pool, id) /\ running' = Append(running, id)
      /\ UNCHANGED << ask, said, device, journal, lens, mixed, faults >>
      /\ UNCHANGED << depth, left, drafts, plan, at, tok, sampled, outcome, done >>
  BY DEF Admit
<1>1. PICK r \in Requests :
        /\ status[r] = "waiting"
        /\ committed' = committed + (Len(ask[r].prompt) + 1)
        /\ row' = [row EXCEPT ![id] = [ NoRow EXCEPT !.req = r ]]
        /\ status' = [status EXCEPT ![r] = "running"]
  BY DEF Admit
<1> DEFINE new == [ NoRow EXCEPT !.req = r ]
<1>2. /\ new \in RowStates /\ new.req = r /\ new.prefilled = 0 /\ new.feed = NoFeed
  <2>1. NoFeed \in [first : Nat, len : Nat]
    BY DEF NoFeed
  <2>2. r \in 0 .. NumRequests
    BY SpeculationSizes DEF Requests
  <2>3. NoRow \in RowStates /\ NoRow.prefilled = 0 /\ NoRow.feed = NoFeed
    BY <2>1, SpeculationSizes DEF NoRow, RowStates
  <2> QED
    BY <2>2, <2>3 DEF RowStates
<1> HIDE DEF new
<1>3. /\ row' \in [SeqIds -> RowStates] /\ row'[id] = new
      /\ \A x \in SeqIds : x # id => row'[x] = row[x]
  BY <1>1, <1>2, RowChange DEF new, SpecInv, Types, RowTypes
<1>4. /\ id \notin pool.live /\ pool \in Pools
      /\ pool'.live = pool.live \cup {id} /\ pool'.slots = pool.slots
      /\ SeqLen(pool, id) = 0 /\ WholePool(pool')
  <2>1. WholePool(pool)
    BY DEF SpecInv, PoolOk
  <2>2. id \notin pool.live /\ pool \in Pools /\ SeqLen(pool, id) = 0
    BY <1>0, <2>1 DEF WholePool, CanAlloc
  <2>3. pool'.live = pool.live \cup {id} /\ pool'.slots = pool.slots
    BY <1>0, <2>2, AllocFacts
  <2>4. WholePool(pool')
    BY <1>0, <2>1, WholeAlloc
  <2> QED
    BY <2>2, <2>3, <2>4
<1>5. PoolOk'
  BY <1>4 DEF SpecInv, PoolOk, SeqLen
<1>6. running \in Seq(SeqIds) /\ Len(running) \in Nat
  BY LenProperties DEF SpecInv, Types, RowTypes
<1>7. /\ running' \in Seq(SeqIds) /\ Len(running') = Len(running) + 1
      /\ running'[Len(running) + 1] = id
      /\ \A i \in 1 .. Len(running) : running'[i] = running[i]
  BY <1>0, <1>6, AppendProperties
<1> DEFINE n == Len(running)
<1>8. /\ \A i, j \in 1 .. n : running[i] = running[j] => i = j
      /\ \A x \in SeqIds : x \in pool.live <=> \E i \in 1 .. n : running[i] = x
  BY DEF SpecInv, RunningOk
<1> HIDE DEF n
<1>9. RunningOk'
  <2>1. \A i \in 1 .. n : running[i] # id
    BY <1>4, <1>8
  <2>2. \A i \in 1 .. n + 1 : i \in 1 .. n \/ i = n + 1
    BY <1>6 DEF n
  <2>3. \A i \in 1 .. n : i \in 1 .. n + 1
    BY <1>6 DEF n
  <2>4. n + 1 \in 1 .. n + 1
    BY <1>6 DEF n
  <2>5. /\ Len(running') = n + 1 /\ running'[n + 1] = id
        /\ \A i \in 1 .. n : running'[i] = running[i]
    BY <1>7 DEF n
  <2>6. \A i, j \in 1 .. n + 1 : running'[i] = running'[j] => i = j
    BY <1>8, <2>1, <2>2, <2>5
  <2>7. \A x \in SeqIds : x \in pool'.live <=> \E i \in 1 .. n + 1 : running'[i] = x
    BY <1>4, <1>8, <2>2, <2>3, <2>4, <2>5
  <2> QED
    BY <2>5, <2>6, <2>7 DEF RunningOk
<1>10. \A x \in pool.live : x \in SeqIds /\ x # id /\ row'[x] = row[x] /\ row[x].req # r
  <2>1. done = {} /\ pool.live \subseteq SeqIds
    BY <1>0, PoolLens DEF SpecInv, Scratch
  <2>2. \A x \in pool.live : status[row[x].req] = "running"
    BY <2>1 DEF SpecInv, ServesOne
  <2> QED
    BY <1>1, <1>3, <1>4, <2>1, <2>2
<1>11. /\ status' \in [Requests -> {"waiting", "running", "stop", "length", "failed"}]
       /\ status'[r] = "running" /\ \A q \in Requests : q # r => status'[q] = status[q]
  BY <1>1 DEF SpecInv, Types, TextTypes
<1>12. ServesOne'
  <2>1. done' = {} /\ done = {}
    BY <1>0 DEF SpecInv, Scratch
  <2>2. \A x \in pool'.live : x = id \/ x \in pool.live
    BY <1>4
  <2>3. \A x \in pool.live : row[x].req \in Requests /\ status[row[x].req] = "running"
    BY <2>1 DEF SpecInv, ServesOne
  <2>4. \A a, b \in pool.live : row[a].req = row[b].req => a = b
    BY DEF SpecInv, ServesOne
  <2>5. \A x \in pool'.live : row'[x].req \in Requests /\ status'[row'[x].req] = "running"
    BY <1>2, <1>3, <1>10, <1>11, <2>2, <2>3
  <2>6. \A a, b \in pool'.live : row'[a].req = row'[b].req => a = b
    BY <1>2, <1>3, <1>10, <2>2, <2>4
  <2> QED
    BY <2>1, <2>5, <2>6 DEF ServesOne
<1>13. TextsBegin'
  BY <1>0, <1>1, <1>11 DEF SpecInv, TextsBegin
<1>14. Types'
  <2>1. Len(ask[r].prompt) \in Nat
    <3>1. ask[r] \in Asks
      BY DEF SpecInv, Types, TextTypes
    <3>2. ask[r].prompt \in Seq(Tokens)
      BY <3>1, SpeculationSizes
    <3> QED
      BY <3>2, LenProperties
  <2>2. committed' \in Nat
    <3> DEFINE m == Len(ask[r].prompt)
    <3>1. committed' = committed + (m + 1) /\ m \in Nat /\ committed \in Nat
      BY <1>1, <2>1 DEF SpecInv, Types, StepTypes
    <3> HIDE DEF m
    <3> QED
      BY ONLY <3>1
  <2> QED
    BY <1>0, <1>3, <1>7, <1>11, <2>2
       DEF SpecInv, Types, TextTypes, DeviceTypes, RowTypes, StepTypes, device
<1>15. Scratch'
  BY <1>0, <1>4 DEF SpecInv, Scratch
<1>16. ~InHand /\ ~InHand'
  BY <1>0 DEF InHand
<1>17. PlanOk' /\ FitsPool' /\ DraftsOk'
  BY <1>0, <1>16 DEF PlanOk, FitsPool, DraftsOk
<1>18. Resting(id)'
  <2>1. /\ Text(id)' = said[r] /\ Prompt(id)' = ask[r].prompt /\ said[r] = ask[r].prompt
    BY <1>0, <1>1, <1>2, <1>3 DEF SpecInv, TextsBegin, Text, Prompt
  <2>2. row'[id].prefilled = 0 /\ row'[id].feed = NoFeed
    BY <1>2, <1>3
  <2> DEFINE m == Len(ask[r].prompt)
  <2>3. m \in Nat /\ m >= 1
    <3>1. ask[r] \in Asks
      BY DEF SpecInv, Types, TextTypes
    <3>2. m \in 1 .. MaxSeq - 1
      BY <3>1, SpeculationSizes
    <3> HIDE DEF m
    <3> QED
      BY <3>2, PoolSizes
  <2>4. SeqLen(pool', id) = 0
    BY <1>4 DEF SeqLen
  <2>5. Len(Prompt(id)') = m /\ Len(Text(id)') = m
    BY <2>1
  <2> HIDE DEF m
  <2>6. ~PromptComplete(id)'
    BY <2>2, <2>3, <2>5 DEF PromptComplete
  <2>7. Generated(id)' = 0
    BY <2>3, <2>5 DEF Generated
  <2>8. Fed(id)' = 0
    BY <2>2, <2>6 DEF Fed
  <2> QED
    BY <2>2, <2>3, <2>4, <2>5, <2>6, <2>7, <2>8, PoolSizes DEF Resting
<1>19. RestOk'
  <2>1. ASSUME NEW x \in pool.live PROVE Resting(x)'
    <3>1. Resting(x)
      BY <1>0, <1>16, RestingAll DEF SpecInv, Scratch
    <3>2. Untouched(x)
      BY <1>0, <1>4, <1>10 DEF Untouched, SameRow, SeqLen
    <3> QED
      BY <3>1, <3>2, RestingKept
  <2> QED
    BY <1>4, <1>18, <2>1 DEF RestOk
<1>20. JournalOk'
  BY <1>0, <1>16 DEF SpecInv, JournalOk, ToSettle
<1> QED
  BY <1>5, <1>9, <1>12, <1>13, <1>14, <1>15, <1>17, <1>19, <1>20 DEF SpecInv

(* The rows a journal is armed for, and with what. *)
LEMMA ArmFacts ==
  ASSUME NEW p \in Seq(PlanItems), Apart(p), NEW j \in Journals
  PROVE  /\ Arm(j, p) \in Journals
         /\ Arm(j, p).armed = j.armed \cup { p[i].id : i \in Verifies(p) }
         /\ \A i \in Verifies(p) : /\ Arm(j, p).rows[p[i].id] = Len(p[i].toks)
                                   /\ Arm(j, p).start[p[i].id] = RowStart(p, i)
<1> DEFINE of(id) == CHOOSE i \in Verifies(p) : p[i].id = id
           ids == { p[i].id : i \in Verifies(p) }
           rows == [ id \in SeqIds |-> IF id \in ids THEN Len(p[of(id)].toks) ELSE j.rows[id] ]
           start == [ id \in SeqIds |-> IF id \in ids THEN RowStart(p, of(id)) ELSE j.start[id] ]
           armed == j.armed \cup ids
<1>1. \A i \in Verifies(p) : i \in 1 .. Len(p)
  BY DEF Verifies
<1>2. \A i \in 1 .. Len(p) : p[i].id \in SeqIds /\ Len(p[i].toks) \in Nat /\ RowStart(p, i) \in Nat
  BY PlanItem, RowStartFacts
<1>3. \A i \in Verifies(p) : of(p[i].id) = i
  <2> SUFFICES ASSUME NEW i \in Verifies(p) PROVE of(p[i].id) = i
    OBVIOUS
  <2>1. of(p[i].id) \in Verifies(p) /\ p[of(p[i].id)].id = p[i].id
    <3> DEFINE x == p[i].id
    <3>1. \E k \in Verifies(p) : p[k].id = x
      OBVIOUS
    <3> HIDE DEF x
    <3>2. of(x) \in Verifies(p) /\ p[of(x)].id = x
      BY <3>1
    <3> QED
      BY <3>2 DEF x
  <2> HIDE DEF of
  <2> QED
    BY <1>1, <2>1 DEF Apart
<1>4. \A id \in ids : \E i \in Verifies(p) : id = p[i].id /\ of(id) = i
  BY <1>3, Zenon
<1>5. ids \subseteq SeqIds
  BY <1>1, <1>2
<1>6. /\ Arm(j, p) = [ j EXCEPT !.armed = armed, !.rows = rows, !.start = start ]
  BY DEF Arm
<1> HIDE DEF of, ids
<1>7. rows \in [SeqIds -> Nat] /\ start \in [SeqIds -> Nat] /\ armed \in SUBSET SeqIds
  <2>1. \A id \in SeqIds : j.rows[id] \in Nat /\ j.start[id] \in Nat
    BY DEF Journals
  <2>2. \A id \in ids : Len(p[of(id)].toks) \in Nat /\ RowStart(p, of(id)) \in Nat
    BY <1>1, <1>2, <1>4
  <2>3. j.armed \subseteq SeqIds
    BY DEF Journals
  <2> QED
    BY <1>5, <2>1, <2>2, <2>3
<1>8. \A i \in Verifies(p) : rows[p[i].id] = Len(p[i].toks) /\ start[p[i].id] = RowStart(p, i)
  <2> SUFFICES ASSUME NEW i \in Verifies(p)
               PROVE  rows[p[i].id] = Len(p[i].toks) /\ start[p[i].id] = RowStart(p, i)
    OBVIOUS
  <2>1. p[i].id \in ids /\ p[i].id \in SeqIds /\ of(p[i].id) = i
    BY <1>1, <1>2, <1>3 DEF ids
  <2> QED
    BY <2>1
<1> HIDE DEF rows, start, armed
<1>9. /\ Arm(j, p) \in Journals /\ Arm(j, p).armed = armed
      /\ Arm(j, p).rows = rows /\ Arm(j, p).start = start
  BY <1>6, <1>7 DEF Journals
<1> QED
  BY <1>8, <1>9 DEF armed, ids

(* An item fits its row as long as the row is left alone. *)
LEMMA FitsKept ==
  ASSUME NEW item, NEW added, SameRow(item.id)
  PROVE  /\ FitsPrefill(item) => FitsPrefill(item)'
         /\ FitsDecoding(item, added) => FitsDecoding(item, added)'
<1>1. /\ Text(item.id)' = Text(item.id) /\ Prompt(item.id)' = Prompt(item.id)
      /\ Generated(item.id)' = Generated(item.id) /\ PromptComplete(item.id)' = PromptComplete(item.id)
      /\ row'[item.id].prefilled = row[item.id].prefilled
  BY UntouchedText DEF Untouched, SameRow
<1> QED
  BY <1>1 DEF FitsPrefill, FitsDecoding

LEMMA MakePlanStep ==
  ASSUME SpecInv, MakePlan
  PROVE  SpecInv'
<1> DEFINE p == PlanOf
<1>0. /\ phase = "draft" /\ plan' = p /\ journal' = Arm(journal, p)
      /\ phase' = IF p = << >> THEN "fail" ELSE "forward"
      /\ at' = 1 /\ drafts' = NoDrafts /\ depth' = 0 /\ left' = 0
      /\ UNCHANGED << texts, pool, running, row, done >>
      /\ UNCHANGED << device, lens, mixed, faults, committed, tok, sampled, outcome >>
  BY DEF MakePlan
<1>1. done = {} /\ tok = 1 /\ ~InHand
  BY <1>0 DEF SpecInv, Scratch, InHand
<1>2. \A id \in pool.live : Serves(id) /\ Resting(id)
  BY <1>0, <1>1, RestingAll
<1>3. Ready
  BY <1>0, <1>2 DEF Ready, SpecInv, DraftsOk
<1>4. PlanList(p) /\ Total(p) <= FreeSlots(pool) /\ Total(p) <= BatchTokens
  BY <1>3, PlanOfFacts
<1> HIDE DEF p
<1>5. p \in Seq(PlanItems) /\ Apart(p) /\ \A i \in Items(p) : Planned(p[i])
  BY <1>4 DEF PlanList, Items
<1>6. /\ TextTypes' /\ TextsBegin' /\ PoolOk' /\ RunningOk' /\ ServesOne'
      /\ \A x : Resting(x) => Resting(x)'
      /\ \A x : Untouched(x)
  BY <1>0, QuietKeeps
<1>7. /\ Arm(journal, p) \in Journals
      /\ Arm(journal, p).armed = journal.armed \cup { p[i].id : i \in Verifies(p) }
      /\ \A i \in Verifies(p) : /\ Arm(journal, p).rows[p[i].id] = Len(p[i].toks)
                                /\ Arm(journal, p).start[p[i].id] = RowStart(p, i)
  BY <1>5, ArmFacts DEF SpecInv, Types, DeviceTypes
<1>8. Types'
  <2>1. NoDrafts \in [SeqIds -> Seq(Tokens)]
    BY DEF NoDrafts
  <2>2. DeviceTypes' /\ RowTypes'
    BY <1>0, <1>7 DEF SpecInv, Types, DeviceTypes, RowTypes, device
  <2>3. StepTypes'
    BY <1>0, <1>5, <2>1, SpeculationSizes DEF SpecInv, Types, StepTypes, Phases
  <2> QED
    BY <1>6, <2>2, <2>3 DEF Types
<1>9. Scratch'
  BY <1>0, <1>1 DEF SpecInv, Scratch
<1>10. DraftsOk'
  BY <1>0 DEF DraftsOk
<1>11. FitsPool'
  <2>1. Len(Flat)' = Total(p)
    BY <1>0 DEF Flat, Total, Size
  <2> QED
    BY <1>0, <1>4, <2>1 DEF FitsPool
<1>12. RestOk'
  BY <1>0, <1>2, <1>6 DEF RestOk
<1>13. ASSUME phase' = "forward", NEW i \in Items(p) PROVE Going(i)'
  <2>1. PICK item : item = p[i]
    OBVIOUS
  <2>2. Planned(item) /\ plan'[i] = item
    BY <1>0, <1>5, <2>1
  <2>3. /\ Added(i)' = 0 /\ Ran(i)' = 0 /\ ~IsSettled(i)'
    BY <1>13 DEF Added, Ran, IsSettled
  <2>4. /\ (FitsPrefill(item) => FitsPrefill(item)')
        /\ (FitsDecoding(item, 0) => FitsDecoding(item, 0)')
    BY <1>6, FitsKept DEF Untouched
  <2>5. FitsPrefill(item)' \/ FitsDecoding(item, 0)'
    BY <2>2, <2>4 DEF Planned
  <2>6. row'[item.id].feed # NoFeed => PromptComplete(item.id)'
    BY <1>2, <1>6, <2>2 DEF Planned, Resting
  <2>7. SeqLen(pool', item.id) = item.from + 0
    <3>1. SeqLen(pool, item.id) = item.from
      BY <2>2 DEF Planned
    <3>2. SeqLen(pool, item.id) \in Nat
      BY <2>2, PoolLens DEF Planned, SpecInv
    <3> QED
      BY <1>0, <3>1, <3>2
  <2> QED
    BY <1>0, <1>1, <2>2, <2>3, <2>5, <2>6, <2>7 DEF Going, Planned
<1>14. PlanOk'
  <2>1. CASE phase' = "forward"
    <3>1. \A i, j \in Items(p) : p[i].id = p[j].id => i = j
      BY <1>5 DEF Apart, Items
    <3>2. plan' = p /\ phase' # "settle" /\ phase' # "advance"
      BY <1>0, <2>1
    <3> QED
      BY <1>13, <2>1, <3>1, <3>2 DEF PlanOk
  <2>2. CASE phase' = "fail"
    BY <2>2 DEF PlanOk, InHand
  <2> QED
    BY <1>0, <2>1, <2>2
<1>15. JournalOk'
  <2>1. "settle" \notin Range(faults) => journal.armed = {}
    BY <1>1 DEF SpecInv, JournalOk
  <2>2. CASE phase' = "forward"
    <3>1. InHand' /\ \A i : ToSettle(i)' <=> i \in Verifies(p)
      BY <1>0, <2>2 DEF InHand, ToSettle, IsSettled
    <3>2. { plan'[i].id : i \in { n \in Items(plan') : ToSettle(n)' } }
            = { p[i].id : i \in Verifies(p) }
      BY <1>0, <3>1 DEF Items, Verifies
    <3>3. \A i \in Verifies(p) : p[i].id \in journal'.armed
      BY <1>0, <1>7
    <3> QED
      BY <1>0, <1>7, <2>1, <2>2, <3>1, <3>2, <3>3 DEF JournalOk
  <2>3. CASE phase' = "fail"
    <3>1. p = << >> /\ ~InHand' /\ \A i : ~ToSettle(i)'
      BY <1>0, <2>3 DEF InHand, ToSettle
    <3>2. { p[i].id : i \in Verifies(p) } = {}
      BY <3>1 DEF Verifies
    <3> QED
      BY <1>0, <1>7, <2>1, <2>3, <3>1, <3>2 DEF JournalOk
  <2> QED
    BY <1>0, <2>2, <2>3
<1> QED
  BY <1>6, <1>8, <1>9, <1>10, <1>11, <1>12, <1>14, <1>15 DEF SpecInv

-----------------------------------------------------------------------------
(* What a step in hand leaves of an item. *)
LEMMA GoingKept ==
  ASSUME NEW i, Going(i), plan' = plan, SameRow(plan[i].id),
         Added(i)' = Added(i), IsSettled(i)' <=> IsSettled(i),
         outcome'[plan[i].id] = outcome[plan[i].id],
         SeqLen(pool', plan[i].id) = plan[i].from + Ran(i)',
         plan[i].id \in pool'.live, plan[i].id \notin done'
  PROVE  Going(i)'
<1> DEFINE item == plan[i]
<1>1. PICK x : x = item
  OBVIOUS
<1>2. plan'[i] = x /\ plan[i] = x
  BY <1>1
<1> HIDE DEF item
<1>3. /\ FitsPrefill(x) => FitsPrefill(x)'
      /\ FitsDecoding(x, Added(i)) => FitsDecoding(x, Added(i))'
  <2>1. PICK a : a = Added(i)
    OBVIOUS
  <2>2. FitsDecoding(x, a) => FitsDecoding(x, a)'
    BY <1>2, FitsKept
  <2>3. FitsPrefill(x) => FitsPrefill(x)'
    BY <1>2, FitsKept
  <2>4. FitsDecoding(x, a)' <=> FitsDecoding(x, Added(i))'
    BY <2>1 DEF FitsDecoding
  <2> QED
    BY <2>1, <2>2, <2>3, <2>4
<1>4. /\ Text(x.id)' = Text(x.id) /\ PromptComplete(x.id)' = PromptComplete(x.id)
      /\ row'[x.id].feed \in {row[x.id].feed, NoFeed}
  BY <1>2, UntouchedText DEF SameRow
<1>5. FitsPrefill(x)' \/ FitsDecoding(x, Added(i))'
  BY <1>2, <1>3 DEF Going
<1>6. /\ x.id \in pool'.live /\ x.id \notin done'
      /\ Len(x.toks) >= 1 /\ x.from + Len(x.toks) <= MaxSeq
      /\ x.kind = "prefill" => Added(i)' = 0
      /\ SeqLen(pool', x.id) = x.from + Ran(i)'
      /\ row'[x.id].feed # NoFeed => PromptComplete(x.id)'
  BY <1>2, <1>4 DEF Going
<1>7. IsSettled(i)' => /\ Len(outcome'[x.id]) \in Added(i)' + 1 .. Len(x.toks)
                       /\ \A j \in 1 .. Len(outcome'[x.id]) - 1 : outcome'[x.id][j] = x.toks[j + 1]
                       /\ \A j \in 1 .. Added(i)' : Text(x.id)'[x.from + 1 + j] = outcome'[x.id][j]
  BY <1>2, <1>4, Zenon DEF Going
<1> QED
  BY <1>2, <1>5, <1>6, <1>7, Zenon DEF Going

LEMMA InHandFacts ==
  ASSUME SpecInv, InHand
  PROVE  /\ plan \in Seq(PlanItems) /\ Apart(plan) /\ Len(plan) \in Nat
         /\ \A i \in Items(plan) :
              /\ plan[i] \in PlanItems
              /\ plan[i].id \in SeqIds /\ plan[i].kind \in {"verify", "decode", "prefill"}
              /\ plan[i].from \in Nat /\ plan[i].toks \in Seq(Tokens) /\ Len(plan[i].toks) \in Nat
              /\ ~IsOver(i) => Going(i)
         /\ phase \in {"settle", "advance"} => at <= Len(plan) + 1
<1>1. plan \in Seq(PlanItems)
  BY DEF SpecInv, Types, StepTypes
<1>2. \A i, j \in 1 .. Len(plan) : plan[i].id = plan[j].id => i = j
  BY DEF SpecInv, PlanOk, Items
<1> QED
  BY <1>1, <1>2, PlanItem, LenProperties DEF SpecInv, PlanOk, Items, Apart

(* The journal as long as no row is armed or settled. *)
LEMMA JournalKept ==
  ASSUME JournalOk, InHand, InHand', UNCHANGED << plan, journal, faults >>,
         phase # "forward", phase' # "forward",
         \A i \in Items(plan) : ToSettle(i)' <=> ToSettle(i)
  PROVE  JournalOk'
<1>1. { plan'[i].id : i \in { n \in Items(plan') : ToSettle(n)' } }
        = { plan[i].id : i \in { n \in Items(plan) : ToSettle(n) } }
  BY DEF Items
<1>2. \A i \in Items(plan') : ToSettle(i)' => i \in Items(plan) /\ ToSettle(i)
  BY DEF Items
<1> QED
  BY <1>1, <1>2 DEF JournalOk

LEMMA ForwardFailsStep ==
  ASSUME SpecInv, ForwardFails
  PROVE  SpecInv'
<1> DEFINE ids == { plan[i].id : i \in Verifies(plan) }
<1>0. /\ phase = "forward" /\ phase' = "fail"
      /\ faults' = faults \/ faults' = Append(faults, "forward")
      /\ journal' = [ journal EXCEPT !.armed = @ \ ids ]
      /\ UNCHANGED << texts, pool, running, row, done >>
      /\ UNCHANGED << device, lens, mixed, at, drafts, depth, left, plan, committed, tok, sampled, outcome >>
  BY DEF ForwardFails, Faulted, step
<1>1. /\ TextTypes' /\ TextsBegin' /\ PoolOk' /\ RunningOk' /\ ServesOne'
  BY <1>0, QuietKeeps
<1> HIDE DEF ids
<1>2. journal' \in Journals /\ journal'.armed = journal.armed \ ids
  BY <1>0 DEF SpecInv, Types, DeviceTypes, Journals
<1>3. faults' \in Seq({"forward", "settle"}) /\ (Range(faults) \subseteq Range(faults'))
  <2>1. faults \in Seq({"forward", "settle"}) /\ Len(faults) \in Nat
    BY LenProperties DEF SpecInv, Types, RowTypes
  <2>2. CASE faults' = Append(faults, "forward")
    <3>1. /\ faults' \in Seq({"forward", "settle"}) /\ Len(faults') = Len(faults) + 1
          /\ \A i \in 1 .. Len(faults) : faults'[i] = faults[i]
      BY <2>1, <2>2, AppendProperties
    <3>2. DOMAIN faults = 1 .. Len(faults) /\ DOMAIN faults' = 1 .. Len(faults')
      BY <2>1, <3>1, LenProperties
    <3>3. \A i \in 1 .. Len(faults) : i \in 1 .. Len(faults')
      BY <2>1, <3>1
    <3> QED
      BY <3>1, <3>2, <3>3 DEF Range
  <2>3. CASE faults' = faults
    BY <2>1, <2>3
  <2> QED
    BY <1>0, <2>2, <2>3
<1>4. Types'
  BY <1>0, <1>1, <1>2, <1>3 DEF SpecInv, Types, DeviceTypes, RowTypes, StepTypes, Phases, device
<1>5. Scratch'
  BY <1>0 DEF SpecInv, Scratch
<1>6. ~InHand' /\ \A i : ~ToSettle(i)'
  BY <1>0 DEF InHand, ToSettle
<1>7. PlanOk' /\ FitsPool' /\ DraftsOk' /\ RestOk'
  BY <1>0, <1>6 DEF PlanOk, FitsPool, DraftsOk, RestOk
<1>8. JournalOk'
  <2>1. ASSUME "settle" \notin Range(faults) PROVE journal.armed = ids
    <3>1. InHand /\ \A i : ToSettle(i) <=> i \in Verifies(plan)
      BY <1>0 DEF InHand, ToSettle, IsSettled
    <3>2. journal.armed = { plan[i].id : i \in { n \in Items(plan) : ToSettle(n) } }
      BY <2>1, <3>1 DEF SpecInv, JournalOk
    <3>3. { n \in Items(plan) : ToSettle(n) } = Verifies(plan)
      BY <3>1 DEF Items, Verifies
    <3> QED
      BY <3>2, <3>3 DEF ids
  <2>2. "settle" \notin Range(faults') => journal'.armed = {}
    BY <1>2, <1>3, <2>1
  <2> QED
    BY <1>6, <2>2 DEF JournalOk
<1> QED
  BY <1>1, <1>4, <1>5, <1>7, <1>8 DEF SpecInv

LEMMA SettleFailsStep ==
  ASSUME SpecInv, SettleFails
  PROVE  SpecInv'
<1>0. /\ phase \in {"sample", "settle"} /\ phase' = "fail"
      /\ faults' = Append(faults, "settle")
      /\ UNCHANGED << texts, pool, running, row, done >>
      /\ UNCHANGED << device, journal, lens, mixed, at, drafts, depth, left, plan, committed, tok, sampled, outcome >>
  BY DEF SettleFails, Faulted, step
<1>1. /\ TextTypes' /\ TextsBegin' /\ PoolOk' /\ RunningOk' /\ ServesOne'
  BY <1>0, QuietKeeps
<1>2. faults' \in Seq({"forward", "settle"}) /\ "settle" \in Range(faults')
  <2>1. faults \in Seq({"forward", "settle"}) /\ Len(faults) \in Nat
    BY LenProperties DEF SpecInv, Types, RowTypes
  <2>2. /\ faults' \in Seq({"forward", "settle"}) /\ Len(faults') = Len(faults) + 1
        /\ faults'[Len(faults) + 1] = "settle"
    BY <1>0, <2>1, AppendProperties
  <2>3. DOMAIN faults' = 1 .. Len(faults')
    BY <2>2, LenProperties
  <2>4. Len(faults) + 1 \in 1 .. Len(faults')
    BY <2>1, <2>2
  <2> QED
    BY <2>2, <2>3, <2>4 DEF Range
<1>4. Types'
  BY <1>0, <1>1, <1>2 DEF SpecInv, Types, DeviceTypes, RowTypes, StepTypes, Phases, device
<1>5. Scratch'
  BY <1>0 DEF SpecInv, Scratch
<1>6. ~InHand' /\ \A i : ~ToSettle(i)'
  BY <1>0 DEF InHand, ToSettle
<1>7. PlanOk' /\ FitsPool' /\ DraftsOk' /\ RestOk'
  BY <1>0, <1>6 DEF PlanOk, FitsPool, DraftsOk, RestOk
<1>8. JournalOk'
  BY <1>2, <1>6 DEF JournalOk
<1> QED
  BY <1>1, <1>4, <1>5, <1>7, <1>8 DEF SpecInv

LEMMA SampleStep ==
  ASSUME SpecInv, Sample
  PROVE  SpecInv'
<1>0. /\ phase = "sample" /\ phase' = "settle" /\ at' = 1 /\ sampled' \in [SeqIds -> Tokens]
      /\ UNCHANGED << texts, pool, running, row, done >>
      /\ UNCHANGED << device, journal, lens, mixed, faults, drafts, depth, left, plan, committed, tok, outcome >>
  BY DEF Sample
<1>1. /\ TextTypes' /\ TextsBegin' /\ PoolOk' /\ RunningOk' /\ ServesOne'
      /\ \A x : Untouched(x)
      /\ \A x : Resting(x) => Resting(x)'
  BY <1>0, QuietKeeps
<1>2. Types'
  BY <1>0, <1>1 DEF SpecInv, Types, DeviceTypes, RowTypes, StepTypes, Phases, device
<1>3. Scratch'
  BY <1>0 DEF SpecInv, Scratch
<1>4. InHand /\ InHand'
  BY <1>0 DEF InHand
<1>5. /\ \A i \in Items(plan) : Going(i) /\ ~IsOver(i) /\ plan[i].id \in SeqIds
      /\ Len(plan) \in Nat
  BY <1>0, <1>4, InHandFacts DEF IsOver
<1>6. \A i \in Items(plan) : /\ ~(i < at') /\ ~IsSettled(i) /\ ~IsSettled(i)' /\ ~IsOver(i)'
                             /\ Added(i) = 0 /\ Added(i)' = 0 /\ Ran(i)' = Ran(i)
  BY <1>0, <1>5 DEF IsSettled, IsOver, Added, Ran, Items
<1>7. \A i \in Items(plan) : Going(i)'
  BY <1>0, <1>1, <1>5, <1>6, GoingKept DEF Untouched, Going
<1>8. PlanOk'
  <2>1. \A i, j \in Items(plan) : plan[i].id = plan[j].id => i = j
    BY <1>4, InHandFacts DEF Apart, Items
  <2>2. at' <= Len(plan') + 1 /\ phase' # "advance"
    BY <1>0, <1>5
  <2> QED
    BY <1>0, <1>7, <2>1, <2>2 DEF PlanOk
<1>9. RestOk'
  BY <1>0, <1>1, <1>4, <1>6 DEF SpecInv, RestOk
<1>10. DraftsOk' /\ FitsPool'
  BY <1>0 DEF DraftsOk, FitsPool
<1>11. JournalOk'
  <2>1. \A i \in Items(plan) : ToSettle(i)' <=> ToSettle(i)
    BY <1>0, <1>4, <1>6 DEF ToSettle
  <2> QED
    BY <1>0, <1>4, <2>1, JournalKept DEF SpecInv
<1> QED
  BY <1>1, <1>2, <1>3, <1>8, <1>9, <1>10, <1>11 DEF SpecInv

LEMMA SettleNextStep ==
  ASSUME SpecInv, SettleNext
  PROVE  SpecInv'
<1>0. /\ phase = "settle"
      /\ \/ at > Len(plan) /\ phase' = "advance" /\ at' = 1
         \/ at <= Len(plan) /\ plan[at].kind # "verify" /\ at' = at + 1 /\ phase' = "settle"
      /\ UNCHANGED << texts, pool, running, row, done >>
      /\ UNCHANGED << device, journal, lens, mixed, faults, drafts, depth, left, plan, committed >>
      /\ UNCHANGED << tok, sampled, outcome >>
  <2>1. at \in Nat /\ Len(plan) \in Nat
    BY LenProperties DEF SpecInv, Types, StepTypes
  <2> QED
    BY <2>1 DEF SettleNext
<1>1. /\ TextTypes' /\ TextsBegin' /\ PoolOk' /\ RunningOk' /\ ServesOne'
      /\ \A x : Untouched(x)
      /\ \A x : Resting(x) => Resting(x)'
  BY <1>0, QuietKeeps
<1>2. at \in Nat \ {0} /\ tok = 1 /\ done = {} /\ drafts = NoDrafts
  BY <1>0 DEF SpecInv, Types, StepTypes, Scratch
<1>3. Types'
  BY <1>0, <1>1, <1>2 DEF SpecInv, Types, DeviceTypes, RowTypes, StepTypes, Phases, device
<1>4. Scratch'
  BY <1>0, <1>2 DEF SpecInv, Scratch
<1>5. InHand /\ InHand'
  BY <1>0 DEF InHand
<1>6. /\ \A i \in Items(plan) : Going(i) /\ ~IsOver(i) /\ plan[i].id \in SeqIds
      /\ Len(plan) \in Nat /\ at <= Len(plan) + 1
  BY <1>0, <1>5, InHandFacts DEF IsOver
<1>7. ASSUME NEW i \in Items(plan)
      PROVE  /\ IsSettled(i)' <=> IsSettled(i)
             /\ ~IsOver(i)' /\ Added(i) = 0 /\ Added(i)' = 0 /\ Ran(i)' = Ran(i)
  <2>1. i \in 1 .. Len(plan)
    BY DEF Items
  <2>2. CASE at > Len(plan) /\ phase' = "advance" /\ at' = 1
    <3>1. i < at /\ ~(i < at')
      BY <1>2, <1>6, <2>1, <2>2
    <3>2. IsSettled(i)' <=> IsSettled(i)
      BY <1>0, <2>2, <3>1 DEF IsSettled
    <3>3. Added(i)' = 0
      BY <1>2, <1>0, <2>2 DEF Added
    <3> QED
      BY <1>0, <2>2, <3>1, <3>2, <3>3 DEF IsOver, Added, Ran
  <2>3. CASE at <= Len(plan) /\ plan[at].kind # "verify" /\ at' = at + 1 /\ phase' = "settle"
    <3>1. i = at \/ (i < at <=> i < at')
      BY <1>2, <2>1, <2>3
    <3>2. IsSettled(i)' <=> IsSettled(i)
      BY <1>0, <2>3, <3>1 DEF IsSettled
    <3> QED
      BY <1>0, <2>3, <3>2 DEF IsOver, Added, Ran
  <2> QED
    BY <1>0, <2>2, <2>3
<1>8. \A i \in Items(plan) : Going(i)'
  BY <1>0, <1>1, <1>6, <1>7, GoingKept DEF Untouched, Going
<1>9. PlanOk'
  <2>1. \A i, j \in Items(plan) : plan[i].id = plan[j].id => i = j
    BY <1>5, InHandFacts DEF Apart, Items
  <2>2. at' <= Len(plan') + 1
    BY <1>0, <1>2, <1>6
  <2> QED
    BY <1>0, <1>2, <1>8, <2>1, <2>2 DEF PlanOk
<1>10. RestOk'
  BY <1>0, <1>1, <1>2, <1>5, <1>7 DEF SpecInv, RestOk
<1>11. DraftsOk' /\ FitsPool'
  BY <1>0 DEF DraftsOk, FitsPool
<1>12. JournalOk'
  <2>1. \A i \in Items(plan) : ToSettle(i)' <=> ToSettle(i)
    BY <1>0, <1>5, <1>7 DEF ToSettle
  <2> QED
    BY <1>0, <1>5, <2>1, JournalKept DEF SpecInv
<1> QED
  BY <1>1, <1>3, <1>4, <1>9, <1>10, <1>11, <1>12 DEF SpecInv

-----------------------------------------------------------------------------
(* An item is found by its row. *)
LEMMA MineFacts ==
  ASSUME Apart(plan), NEW i \in Items(plan)
  PROVE  InPass(plan[i].id) /\ Mine(plan[i].id) = i
<1> DEFINE x == plan[i].id
<1>1. \E k \in Items(plan) : plan[k].id = x
  OBVIOUS
<1> HIDE DEF x
<1>2. InPass(x) /\ Mine(x) \in Items(plan) /\ plan[Mine(x)].id = x
  BY <1>1 DEF InPass, Mine
<1>3. Mine(x) = i
  BY <1>2 DEF Apart, Items, x
<1> QED
  BY <1>2, <1>3 DEF x

(* What an item's row will hold: its text up to the item, and the item. *)
LEMMA GoalFacts ==
  ASSUME SpecInv, InHand, NEW i \in Items(plan), ~IsOver(i)
  PROVE  /\ plan[i].id \in SeqIds /\ plan[i].id \in pool.live /\ Serves(plan[i].id)
         /\ Text(plan[i].id) \in Seq(Tokens) /\ plan[i].toks \in Seq(Tokens)
         /\ plan[i].from \in 0 .. Len(Text(plan[i].id)) /\ plan[i].from \in Nat
         /\ Len(plan[i].toks) \in Nat /\ Len(plan[i].toks) >= 1
         /\ SubSeq(Text(plan[i].id), 1, plan[i].from) \in Seq(Tokens)
         /\ Len(SubSeq(Text(plan[i].id), 1, plan[i].from)) = plan[i].from
         /\ Goal(i) \in Seq(Tokens) /\ Len(Goal(i)) = plan[i].from + Len(plan[i].toks)
         /\ Written(plan[i].id) = Goal(i)
<1>1. /\ plan \in Seq(PlanItems) /\ Apart(plan)
      /\ plan[i].id \in SeqIds /\ plan[i].from \in Nat
      /\ plan[i].toks \in Seq(Tokens) /\ Len(plan[i].toks) \in Nat /\ Going(i)
  BY InHandFacts
<1>2. PICK item : item = plan[i]
  OBVIOUS
<1>3. /\ item.id \in pool.live /\ Len(item.toks) >= 1
      /\ FitsPrefill(item) \/ FitsDecoding(item, Added(i))
  BY <1>1, <1>2 DEF Going
<1>4. Serves(item.id)
  BY <1>3 DEF SpecInv, ServesOne, Serves
<1>5. /\ Text(item.id) \in Seq(Tokens) /\ Len(Text(item.id)) \in Nat
      /\ Len(Prompt(item.id)) \in Nat /\ Len(Prompt(item.id)) <= Len(Text(item.id))
  BY <1>1, <1>2, <1>4, RowFacts DEF SpecInv
<1>6. item.from <= Len(Text(item.id))
  <2> DEFINE m == Len(Text(item.id))
             n == Len(Prompt(item.id))
             l == Len(item.toks)
             a == Added(i)
  <2>1. m \in Nat /\ n \in Nat /\ n <= m /\ l \in Nat /\ item.from \in Nat
    BY <1>1, <1>2, <1>5
  <2>2. a \in Nat
    BY DEF Added, SpecInv, Types, StepTypes
  <2>3. item.from + l <= n \/ item.from + 1 + a = m
    BY <1>3 DEF FitsPrefill, FitsDecoding
  <2> HIDE DEF m, n, l, a
  <2>4. item.from <= m
    BY <2>1, <2>2, <2>3
  <2> QED
    BY <2>4 DEF m
<1> DEFINE s == SubSeq(Text(item.id), 1, item.from)
<1>7. item.from \in 0 .. Len(Text(item.id))
  BY <1>1, <1>2, <1>5, <1>6
<1>8. s \in Seq(Tokens) /\ Len(s) = item.from
  <2>1. 1 \in 1 .. Len(Text(item.id)) + 1
    BY <1>5
  <2>2. /\ s \in Seq(Tokens)
        /\ Len(s) = IF 1 <= item.from THEN item.from - 1 + 1 ELSE 0
    BY <1>5, <1>7, <2>1, SliceFacts
  <2> HIDE DEF s
  <2>3. item.from \in Nat
    BY <1>1, <1>2
  <2> QED
    BY <2>2, <2>3
<1>9. Goal(i) = s \o item.toks
  BY <1>2 DEF Goal
<1>10. Written(item.id) = s \o item.toks
  <2>1. Mine(item.id) = i
    BY <1>1, <1>2, MineFacts
  <2> QED
    BY <1>2, <2>1 DEF Written
<1> HIDE DEF s
<1>11. s \o item.toks \in Seq(Tokens) /\ Len(s \o item.toks) = item.from + Len(item.toks)
  <2>1. PICK t : t = item.toks
    OBVIOUS
  <2>2. t \in Seq(Tokens)
    BY <1>1, <1>2, <2>1
  <2>3. s \o t \in Seq(Tokens) /\ Len(s \o t) = Len(s) + Len(t)
    BY ONLY <1>8, <2>2, ConcatProperties
  <2> QED
    BY <1>8, <2>1, <2>3
<1> QED
  BY <1>1, <1>2, <1>3, <1>4, <1>5, <1>7, <1>8, <1>9, <1>10, <1>11 DEF s

(* The room a pass was planned for is there. *)
LEMMA RoomFacts ==
  ASSUME SpecInv, phase = "forward"
  PROVE  /\ Room /\ InHand
         /\ \A i \in Items(plan) : /\ ~IsOver(i) /\ ~IsSettled(i) /\ Going(i)
                                   /\ Added(i) = 0 /\ Ran(i) = 0
                                   /\ SeqLen(pool, plan[i].id) = plan[i].from
<1>1. InHand
  BY DEF InHand
<1>2. \A i \in Items(plan) : /\ ~IsOver(i) /\ ~IsSettled(i) /\ Added(i) = 0 /\ Ran(i) = 0
  BY DEF IsOver, IsSettled, Added, Ran
<1>3. /\ plan \in Seq(PlanItems) /\ Apart(plan)
      /\ \A i \in Items(plan) : Going(i) /\ plan[i].from \in Nat
  BY <1>1, <1>2, InHandFacts
<1>4. \A i \in Items(plan) : /\ SeqLen(pool, plan[i].id) = plan[i].from
                             /\ plan[i].id \in pool.live
                             /\ plan[i].from + Len(plan[i].toks) <= MaxSeq
  <2> SUFFICES ASSUME NEW i \in Items(plan)
               PROVE  /\ SeqLen(pool, plan[i].id) = plan[i].from
                      /\ plan[i].id \in pool.live
                      /\ plan[i].from + Len(plan[i].toks) <= MaxSeq
    OBVIOUS
  <2>1. PICK item : item = plan[i]
    OBVIOUS
  <2>2. Ran(i) = 0
    BY <1>2
  <2>3. /\ SeqLen(pool, item.id) = item.from + Ran(i)
        /\ item.id \in pool.live
        /\ item.from + Len(item.toks) <= MaxSeq
    BY <1>3, <2>1 DEF Going
  <2>4. item.from \in Nat
    BY <1>3, <2>1
  <2> QED
    BY <2>1, <2>2, <2>3, <2>4
<1>5. Total(plan) <= FreeSlots(pool)
  BY DEF SpecInv, FitsPool, Flat, Total, Size
<1>6. Room
  BY <1>3, <1>4, <1>5 DEF Room, SpecInv, PoolOk
<1> QED
  BY <1>1, <1>2, <1>3, <1>4, <1>6

(* A pass writes the keys of its items' tokens, and of no other place. *)
LEMMA KvAfterFacts ==
  ASSUME SpecInv, phase = "forward", NEW q, Reached(Len(plan), q)
  PROVE  /\ KvAfter(q) \in [Slots -> Seq(Tokens)]
         /\ \A i \in Items(plan) : \A pos \in 1 .. Len(plan[i].toks) :
              KvAfter(q)[q.slots[plan[i].id][plan[i].from + pos]]
                = SubSeq(Goal(i), 1, plan[i].from + pos)
         /\ \A id \in SeqIds : \A pos \in 1 .. SeqLen(pool, id) :
              KvAfter(q)[q.slots[id][pos]] = kv[q.slots[id][pos]]
<1> DEFINE L == Len(plan)
           At(s) == { i \in Items(plan) : \E pos \in 1 .. Len(plan[i].toks) :
                        q.slots[plan[i].id][plan[i].from + pos] = s }
           Of(s) == CHOOSE i \in At(s) : TRUE
           Pos(s) == CHOOSE j \in 1 .. Len(plan[Of(s)].toks) :
                       q.slots[plan[Of(s)].id][plan[Of(s)].from + j] = s
           New(s) == IF At(s) = {} THEN kv[s]
                     ELSE SubSeq(Written(plan[Of(s)].id), 1, plan[Of(s)].from + Pos(s))
<1>1. KvAfter(q) = [ s \in Slots |-> New(s) ]
  BY DEF KvAfter
<1> HIDE DEF At, Of, Pos
<1>9. \A s : At(s) = {} => New(s) = kv[s]
  OBVIOUS
<1>20. \A s : At(s) # {} =>
         New(s) = SubSeq(Written(plan[Of(s)].id), 1, plan[Of(s)].from + Pos(s))
  OBVIOUS
<1> HIDE DEF New
<1>2. /\ Room /\ InHand /\ L \in Nat
      /\ \A i \in Items(plan) : ~IsOver(i) /\ SeqLen(pool, plan[i].id) = plan[i].from
  BY RoomFacts, LenProperties DEF Room
<1>3. \A i \in Items(plan) :
        /\ plan[i].id \in SeqIds /\ plan[i].from \in Nat /\ Len(plan[i].toks) \in Nat
        /\ Goal(i) \in Seq(Tokens) /\ Len(Goal(i)) = plan[i].from + Len(plan[i].toks)
        /\ Written(plan[i].id) = Goal(i)
  BY <1>2, GoalFacts
<1>4. \A i \in Items(plan) : SeqLen(q, plan[i].id) = plan[i].from + Len(plan[i].toks)
  <2> SUFFICES ASSUME NEW i \in Items(plan)
               PROVE  SeqLen(q, plan[i].id) = plan[i].from + Len(plan[i].toks)
    OBVIOUS
  <2>1. i <= L
    BY <1>2 DEF Items
  <2>2. SeqLen(q, plan[i].id) =
          SeqLen(pool, plan[i].id) + (IF i <= L THEN Len(plan[i].toks) ELSE 0)
    BY DEF Reached
  <2> QED
    BY <1>2, <2>1, <2>2
<1>5. q \in Pools /\ RowsOnce(q)
  BY DEF Reached, WholePool, OnePlace
<1>6. \A i \in Items(plan) : \A pos \in 1 .. Len(plan[i].toks) :
        plan[i].from + pos \in 1 .. SeqLen(q, plan[i].id)
  <2> SUFFICES ASSUME NEW i \in Items(plan), NEW pos \in 1 .. Len(plan[i].toks)
               PROVE  plan[i].from + pos \in 1 .. SeqLen(q, plan[i].id)
    OBVIOUS
  <2> DEFINE f == plan[i].from
             n == Len(plan[i].toks)
             l == SeqLen(q, plan[i].id)
  <2>1. f \in Nat /\ n \in Nat /\ l = f + n /\ pos \in 1 .. n
    BY <1>3, <1>4
  <2> HIDE DEF f, n, l
  <2>2. f + pos \in 1 .. l
    BY <2>1
  <2> QED
    BY <2>2 DEF f, l
<1>7. \A i, k \in Items(plan) : \A a \in 1 .. Len(plan[i].toks), b \in 1 .. Len(plan[k].toks) :
        q.slots[plan[i].id][plan[i].from + a] = q.slots[plan[k].id][plan[k].from + b]
          => i = k /\ a = b
  <2> SUFFICES ASSUME NEW i \in Items(plan), NEW k \in Items(plan),
                      NEW a \in 1 .. Len(plan[i].toks), NEW b \in 1 .. Len(plan[k].toks),
                      q.slots[plan[i].id][plan[i].from + a] = q.slots[plan[k].id][plan[k].from + b]
               PROVE  i = k /\ a = b
    OBVIOUS
  <2>1. plan[i].id = plan[k].id /\ plan[i].from + a = plan[k].from + b
    <3>1. plan[i].id \in SeqIds /\ plan[k].id \in SeqIds
      BY <1>3
    <3>2. /\ plan[i].from + a \in 1 .. SeqLen(q, plan[i].id)
          /\ plan[k].from + b \in 1 .. SeqLen(q, plan[k].id)
      BY <1>6
    <3>3. PICK c, d, x, y : /\ c = plan[i].id /\ d = plan[k].id
                            /\ x = plan[i].from + a /\ y = plan[k].from + b
      OBVIOUS
    <3>4. /\ c \in SeqIds /\ d \in SeqIds /\ x \in 1 .. SeqLen(q, c) /\ y \in 1 .. SeqLen(q, d)
          /\ q.slots[c][x] = q.slots[d][y]
      BY <3>1, <3>2, <3>3
    <3>5. c = d /\ x = y
      BY ONLY <1>5, <3>4 DEF RowsOnce
    <3> QED
      BY <3>3, <3>5
  <2>2. i = k
    BY <1>2, <2>1 DEF Room, Apart, Items
  <2>3. a = b
    BY <1>3, <2>1, <2>2
  <2> QED
    BY <2>2, <2>3
<1>8. ASSUME NEW i \in Items(plan), NEW pos \in 1 .. Len(plan[i].toks)
      PROVE  /\ q.slots[plan[i].id][plan[i].from + pos] \in Slots
             /\ New(q.slots[plan[i].id][plan[i].from + pos])
                  = SubSeq(Goal(i), 1, plan[i].from + pos)
  <2> DEFINE s == q.slots[plan[i].id][plan[i].from + pos]
  <2>1. s \in Slots
    <3>1. q.slots[plan[i].id] \in Seq(Slots)
      BY <1>3, <1>5, PoolFields
    <3>2. plan[i].from + pos \in 1 .. Len(q.slots[plan[i].id])
      BY <1>6 DEF SeqLen
    <3> QED
      BY <3>1, <3>2, ElementOfSeq
  <2>2. i \in At(s)
    BY DEF At
  <2> HIDE DEF s
  <2>3. \A k \in At(s) : k = i
    BY <1>7 DEF s, At
  <2>4. Of(s) = i /\ At(s) # {}
    BY <2>2, <2>3 DEF Of
  <2>5. \E j \in 1 .. Len(plan[i].toks) : q.slots[plan[i].id][plan[i].from + j] = s
    BY DEF s
  <2>6. \A j \in 1 .. Len(plan[i].toks) : q.slots[plan[i].id][plan[i].from + j] = s => j = pos
    BY <1>7 DEF s
  <2> DEFINE o == Of(s)
             c == CHOOSE j \in 1 .. Len(plan[i].toks) : q.slots[plan[i].id][plan[i].from + j] = s
  <2>7. c = pos
    BY <2>5, <2>6
  <2>8. o = i /\ Pos(s) = CHOOSE j \in 1 .. Len(plan[o].toks) :
                             q.slots[plan[o].id][plan[o].from + j] = s
    BY <2>4 DEF Pos
  <2>10. New(s) = SubSeq(Written(plan[o].id), 1, plan[o].from + Pos(s))
    BY <1>20, <2>4
  <2> HIDE DEF o
  <2>9. Pos(s) = c
    BY <2>8
  <2> HIDE DEF c
  <2>11. New(s) = SubSeq(Goal(i), 1, plan[i].from + pos)
    BY <1>3, <2>7, <2>8, <2>9, <2>10
  <2> QED
    BY <2>1, <2>11 DEF s
<1>10. ASSUME NEW s \in Slots PROVE New(s) \in Seq(Tokens)
  <2>1. CASE At(s) = {}
    BY <1>9, <2>1 DEF SpecInv, Types, DeviceTypes
  <2>2. CASE At(s) # {}
    <3>1. PICK i \in Items(plan) : \E pos \in 1 .. Len(plan[i].toks) :
                        q.slots[plan[i].id][plan[i].from + pos] = s
      BY <2>2 DEF At
    <3>2. PICK pos \in 1 .. Len(plan[i].toks) : q.slots[plan[i].id][plan[i].from + pos] = s
      BY <3>1
    <3>3. New(s) = SubSeq(Goal(i), 1, plan[i].from + pos)
      BY <1>8, <3>2
    <3> DEFINE f == plan[i].from
               n == Len(plan[i].toks)
               g == Goal(i)
    <3>4. f \in Nat /\ n \in Nat /\ g \in Seq(Tokens) /\ Len(g) = f + n /\ pos \in 1 .. n
      BY <1>3
    <3> HIDE DEF f, n, g
    <3>5. f + pos \in 0 .. Len(g) /\ 1 \in 1 .. Len(g) + 1
      BY <3>4
    <3>6. SubSeq(g, 1, f + pos) \in Seq(Tokens)
      BY <3>4, <3>5, SliceFacts
    <3> QED
      BY <3>3, <3>6 DEF f, g
  <2> QED
    BY <2>1, <2>2
<1>11. ASSUME NEW id \in SeqIds, NEW pos \in 1 .. SeqLen(pool, id)
       PROVE  /\ q.slots[id][pos] \in Slots /\ At(q.slots[id][pos]) = {}
  <2>1. SeqLen(pool, id) <= SeqLen(q, id) /\ SeqLen(pool, id) \in Nat /\ SeqLen(q, id) \in Nat
    <3>0. SeqLen(pool, id) \in Nat /\ SeqLen(q, id) \in Nat
      BY <1>2, <1>5, PoolFields DEF Room, WholePool
    <3>1. CASE \A i \in Items(plan) : plan[i].id # id
      BY <3>0, <3>1 DEF Reached, SeqLen
    <3>2. CASE \E i \in Items(plan) : plan[i].id = id
      <4>1. PICK i \in Items(plan) : plan[i].id = id
        BY <3>2
      <4>2. SeqLen(pool, id) = plan[i].from /\ SeqLen(q, id) = plan[i].from + Len(plan[i].toks)
        BY <1>2, <1>4, <4>1
      <4>3. Len(plan[i].toks) \in Nat
        BY <1>3
      <4> QED
        BY <3>0, <4>2, <4>3
    <3> QED
      BY <3>1, <3>2
  <2>2. pos \in 1 .. SeqLen(q, id)
    BY <2>1
  <2>3. q.slots[id][pos] \in Slots
    <3>1. q.slots[id] \in Seq(Slots) /\ pos \in 1 .. Len(q.slots[id])
      BY <1>5, <2>2, PoolFields DEF SeqLen
    <3> QED
      BY <3>1, ElementOfSeq
  <2>4. ASSUME NEW i \in Items(plan), NEW k \in 1 .. Len(plan[i].toks),
               q.slots[plan[i].id][plan[i].from + k] = q.slots[id][pos]
        PROVE  FALSE
    <3>1. plan[i].id \in SeqIds /\ plan[i].from + k \in 1 .. SeqLen(q, plan[i].id)
      BY <1>3, <1>6
    <3>2. plan[i].id = id /\ plan[i].from + k = pos
      BY <1>5, <2>2, <2>4, <3>1 DEF RowsOnce
    <3>3. SeqLen(pool, id) = plan[i].from /\ plan[i].from \in Nat
      BY <1>2, <1>3, <3>2
    <3> QED
      BY <3>2, <3>3
  <2> QED
    BY <2>3, <2>4 DEF At
<1>12. KvAfter(q) \in [Slots -> Seq(Tokens)] /\ \A s \in Slots : KvAfter(q)[s] = New(s)
  BY <1>1, <1>10
<1>13. \A id \in SeqIds : \A pos \in 1 .. SeqLen(pool, id) :
         KvAfter(q)[q.slots[id][pos]] = kv[q.slots[id][pos]]
  <2> SUFFICES ASSUME NEW id \in SeqIds, NEW pos \in 1 .. SeqLen(pool, id)
               PROVE  KvAfter(q)[q.slots[id][pos]] = kv[q.slots[id][pos]]
    OBVIOUS
  <2>1. PICK s : s = q.slots[id][pos]
    OBVIOUS
  <2>2. s \in Slots /\ At(s) = {}
    BY <1>11, <2>1
  <2>3. KvAfter(q)[s] = kv[s]
    BY <1>9, <1>12, <2>2
  <2> QED
    BY <2>1, <2>3
<1>14. \A i \in Items(plan) : \A pos \in 1 .. Len(plan[i].toks) :
         KvAfter(q)[q.slots[plan[i].id][plan[i].from + pos]]
           = SubSeq(Goal(i), 1, plan[i].from + pos)
  BY <1>8, <1>12
<1> QED
  BY <1>12, <1>13, <1>14

(* What a pass leaves in the journal. *)
LEMMA TapeFacts ==
  ASSUME journal \in Journals, CanRecord, Flat \in Seq(Tokens), conv \in [SeqIds -> Seq(Tokens)],
         NEW j, j = Recorded(Staged(journal))
  PROVE  /\ j \in Journals /\ j.armed = journal.armed
         /\ j.start = journal.start /\ j.rows = journal.rows
         /\ \A id \in journal.armed :
              /\ j.conv_pre[id] = conv[id]
              /\ j.taped[id] = SubSeq(Flat, journal.start[id] + 1, journal.start[id] + journal.rows[id])
              /\ Len(j.taped[id]) = journal.rows[id]
<1> DEFINE pre == [ id \in SeqIds |-> IF id \in journal.armed THEN conv[id] ELSE journal.conv_pre[id] ]
           Cut(id) == SubSeq(Flat, journal.start[id] + 1, journal.start[id] + journal.rows[id])
           taped == [ id \in SeqIds |-> IF id \in journal.armed THEN Cut(id) ELSE journal.taped[id] ]
<1>1. /\ journal.armed \subseteq SeqIds
      /\ \A id \in SeqIds : /\ journal.start[id] \in Nat /\ journal.rows[id] \in Nat
                            /\ journal.taped[id] \in Seq(Tokens)
                            /\ journal.conv_pre[id] \in Seq(Tokens)
  BY DEF Journals
<1>2. \A id \in journal.armed : Cut(id) \in Seq(Tokens) /\ Len(Cut(id)) = journal.rows[id]
  <2> SUFFICES ASSUME NEW id \in journal.armed
               PROVE  Cut(id) \in Seq(Tokens) /\ Len(Cut(id)) = journal.rows[id]
    OBVIOUS
  <2> DEFINE a == journal.start[id]
             b == journal.rows[id]
             m == Len(Flat)
             c == SubSeq(Flat, a + 1, a + b)
  <2>1. a \in Nat /\ b \in Nat /\ m \in Nat /\ a + b <= m
    BY <1>1, LenProperties DEF CanRecord
  <2>2. Cut(id) = c
    OBVIOUS
  <2> HIDE DEF a, b, c, Cut
  <2>3. a + 1 \in 1 .. m + 1 /\ a + b \in 0 .. m
    BY ONLY <2>1
  <2>4. /\ c \in Seq(Tokens)
        /\ Len(c) = IF a + 1 <= a + b THEN a + b - (a + 1) + 1 ELSE 0
    <3>1. a + 1 \in 1 .. Len(Flat) + 1 /\ a + b \in 0 .. Len(Flat)
      BY <2>3 DEF m
    <3>2. PICK f, x, y : f = Flat /\ x = a + 1 /\ y = a + b
      OBVIOUS
    <3>3. f \in Seq(Tokens) /\ x \in 1 .. Len(f) + 1 /\ y \in 0 .. Len(f)
      BY <3>1, <3>2
    <3>4. /\ SubSeq(f, x, y) \in Seq(Tokens)
          /\ Len(SubSeq(f, x, y)) = IF x <= y THEN y - x + 1 ELSE 0
      BY ONLY <3>3, SliceFacts
    <3>5. c = SubSeq(f, x, y)
      BY <3>2 DEF c
    <3>6. x \in Nat /\ y \in Nat
      BY <2>1, <3>2
    <3> QED
      BY <2>1, <3>2, <3>4, <3>5, <3>6
  <2>5. Len(c) = b
    BY <2>1, <2>4
  <2> QED
    BY <2>2, <2>4, <2>5 DEF b
<1>3. pre \in [SeqIds -> Seq(Tokens)] /\ \A id \in journal.armed : pre[id] = conv[id]
  BY <1>1
<1> HIDE DEF Cut
<1>4. taped \in [SeqIds -> Seq(Tokens)] /\ \A id \in journal.armed : taped[id] = Cut(id)
  BY <1>1, <1>2
<1>5. Staged(journal) = [ journal EXCEPT !.conv_pre = pre ]
  BY DEF Staged
<1> HIDE DEF pre
<1>6. /\ Staged(journal) \in Journals /\ Staged(journal).conv_pre = pre
      /\ Staged(journal).armed = journal.armed /\ Staged(journal).taped = journal.taped
      /\ Staged(journal).start = journal.start /\ Staged(journal).rows = journal.rows
  BY <1>3, <1>5 DEF Journals
<1>7. Recorded(Staged(journal)) = [ Staged(journal) EXCEPT !.taped = taped ]
  BY <1>6 DEF Recorded, Cut
<1> HIDE DEF taped
<1> DEFINE k == Staged(journal)
<1>8. k \in Journals /\ j = [ k EXCEPT !.taped = taped ]
  BY <1>6, <1>7
<1> HIDE DEF k
<1>9. /\ j \in Journals /\ j.taped = taped /\ j.conv_pre = k.conv_pre
      /\ j.armed = k.armed /\ j.start = k.start /\ j.rows = k.rows
  BY <1>4, <1>8 DEF Journals
<1> QED
  BY <1>2, <1>3, <1>4, <1>6, <1>9 DEF Cut, k

LEMMA ForwardStep ==
  ASSUME SpecInv, Forward
  PROVE  SpecInv'
<1>0. /\ phase = "forward" /\ phase' = "sample" /\ CanRecord
      /\ pool' = Extended[Len(plan)] /\ kv' = KvAfter(pool')
      /\ conv' = [ id \in SeqIds |-> IF InPass(id) THEN Folded(conv, id) ELSE conv[id] ]
      /\ state' = [ id \in SeqIds |->
                      IF ~InPass(id) THEN state[id]
                      ELSE IF Armed THEN Was(state, id) ELSE Folded(state, id) ]
      /\ journal' = Recorded(Staged(journal)) /\ mixed' = mixed \cup Wronged
      /\ UNCHANGED << texts, lens, running, row, faults >>
      /\ UNCHANGED << committed, depth, left, drafts, plan, at, tok, sampled, outcome, done >>
  BY DEF Forward, step
<1>1. /\ Room /\ InHand /\ InHand' /\ done = {} /\ tok = 1
      /\ \A i \in Items(plan) : /\ ~IsOver(i) /\ ~IsSettled(i) /\ Going(i)
                                /\ Added(i) = 0 /\ SeqLen(pool, plan[i].id) = plan[i].from
  BY <1>0, RoomFacts DEF SpecInv, Scratch, InHand
<1>2. Reached(Len(plan), pool')
  BY <1>0, <1>1, ExtendedFacts
<1>3. /\ WholePool(pool') /\ pool'.live = pool.live /\ pool' \in Pools
      /\ plan \in Seq(PlanItems) /\ Apart(plan) /\ Len(plan) \in Nat
  BY <1>1, <1>2, LenProperties DEF Reached, Room, WholePool
<1>4. \A i \in Items(plan) :
        /\ plan[i].id \in SeqIds /\ plan[i].id \in pool.live /\ Serves(plan[i].id)
        /\ plan[i].toks \in Seq(Tokens) /\ Len(plan[i].toks) \in Nat
        /\ plan[i].from + Len(plan[i].toks) <= MaxSeq
  <2>1. \A i \in Items(plan) : plan[i].from + Len(plan[i].toks) <= MaxSeq
    BY <1>1 DEF Going
  <2> QED
    BY <1>1, <2>1, GoalFacts
<1>5. \A i \in Items(plan) : SeqLen(pool', plan[i].id) = plan[i].from + Len(plan[i].toks)
  <2> SUFFICES ASSUME NEW i \in Items(plan)
               PROVE  SeqLen(pool', plan[i].id) = plan[i].from + Len(plan[i].toks)
    OBVIOUS
  <2>1. i <= Len(plan)
    BY <1>3 DEF Items
  <2>2. SeqLen(pool', plan[i].id) =
          SeqLen(pool, plan[i].id) + (IF i <= Len(plan) THEN Len(plan[i].toks) ELSE 0)
    BY <1>2 DEF Reached
  <2> QED
    BY <1>1, <2>1, <2>2
<1>6. \A id \in SeqIds : (\A i \in Items(plan) : plan[i].id # id) =>
        SeqLen(pool', id) = SeqLen(pool, id)
  BY <1>2 DEF Reached, SeqLen
<1>7. PoolOk'
  <2>1. \A id \in SeqIds : SeqLen(pool', id) <= MaxSeq
    BY <1>4, <1>5, <1>6 DEF SpecInv, PoolOk
  <2> QED
    BY <1>3, <2>1 DEF PoolOk
<1>8. TextTypes' /\ TextsBegin' /\ RunningOk' /\ ServesOne'
  BY <1>0, <1>3 DEF SpecInv, Types, TextTypes, TextsBegin, RunningOk, ServesOne, texts
<1>9. /\ conv \in [SeqIds -> Seq(Tokens)] /\ state \in [SeqIds -> Seq(Tokens)]
      /\ journal \in Journals
  BY DEF SpecInv, Types, DeviceTypes
<1>10. \A id \in SeqIds : \A m \in [SeqIds -> Seq(Tokens)] :
         InPass(id) => Was(m, id) \in Seq(Tokens) /\ Folded(m, id) \in Seq(Tokens)
  <2> SUFFICES ASSUME NEW id \in SeqIds, NEW m \in [SeqIds -> Seq(Tokens)], InPass(id)
               PROVE  Was(m, id) \in Seq(Tokens) /\ Folded(m, id) \in Seq(Tokens)
    OBVIOUS
  <2>1. PICK i \in Items(plan) : plan[i].id = id
    BY DEF InPass
  <2>2. Mine(id) = i
    BY <1>3, <2>1, MineFacts
  <2>3. plan[Mine(id)].toks \in Seq(Tokens)
    BY <1>4, <2>2
  <2>4. Was(m, id) \in Seq(Tokens)
    <3>1. << >> \in Seq(Tokens) /\ m[id] \in Seq(Tokens)
      OBVIOUS
    <3> QED
      BY <3>1 DEF Was
  <2>5. PICK t : t = plan[Mine(id)].toks
    OBVIOUS
  <2>6. t \in Seq(Tokens) /\ Folded(m, id) = Was(m, id) \o t
    BY <2>3, <2>5 DEF Folded
  <2>7. Was(m, id) \o t \in Seq(Tokens)
    BY ONLY <2>4, <2>6, ConcatProperties
  <2> QED
    BY <2>4, <2>6, <2>7
<1>11. conv' \in [SeqIds -> Seq(Tokens)] /\ state' \in [SeqIds -> Seq(Tokens)]
  BY <1>0, <1>9, <1>10
<1>12. kv' \in [Slots -> Seq(Tokens)]
  BY <1>0, <1>2, KvAfterFacts
<1>13. /\ journal' \in Journals /\ journal'.armed = journal.armed
       /\ \A id \in journal.armed : Len(journal'.taped[id]) = journal.rows[id]
  <2>1. Flat \in Seq(Tokens)
    <3>1. Len(plan) \in 0 .. Len(plan)
      BY <1>3
    <3> QED
      BY <1>3, <3>1, FlatFacts DEF Flat
  <2> QED
    BY <1>0, <1>9, <2>1, TapeFacts
<1>14. mixed' \subseteq Requests
  <2>1. Wronged \subseteq Requests
    <3>1. \A i \in Items(plan) : row[plan[i].id].req \in Requests
      BY <1>4 DEF Serves
    <3> QED
      BY <3>1 DEF Wronged
  <2> QED
    BY <1>0, <2>1 DEF SpecInv, Types, RowTypes
<1>15. Types'
  BY <1>0, <1>8, <1>11, <1>12, <1>13, <1>14
     DEF SpecInv, Types, DeviceTypes, RowTypes, StepTypes, Phases
<1>16. Scratch'
  BY <1>0, <1>3 DEF SpecInv, Scratch
<1>17. \A i \in Items(plan) : /\ ~IsSettled(i)' /\ ~IsOver(i)' /\ Added(i)' = 0
                              /\ Ran(i)' = Len(plan[i].toks)
  BY <1>0 DEF IsSettled, IsOver, Added, Ran
<1>18. \A x : SameRow(x)
  BY <1>0 DEF SameRow, texts
<1>19. \A i \in Items(plan) : Going(i)'
  BY <1>0, <1>1, <1>3, <1>4, <1>5, <1>17, <1>18, GoingKept
<1>20. PlanOk'
  <2>1. \A i, j \in Items(plan) : plan[i].id = plan[j].id => i = j
    BY <1>3 DEF Apart, Items
  <2> QED
    BY <1>0, <1>19, <2>1 DEF PlanOk
<1>21. RestOk'
  <2> SUFFICES ASSUME NEW x \in pool.live
               PROVE  \/ InHand' /\ \E i \in Items(plan) : plan[i].id = x /\ ~IsOver(i)'
                      \/ Resting(x)'
    BY <1>0, <1>3 DEF RestOk, Items
  <2>1. CASE \E i \in Items(plan) : plan[i].id = x
    BY <1>1, <1>17, <2>1
  <2>2. CASE \A i \in Items(plan) : plan[i].id # x
    <3>1. x \in SeqIds
      BY PoolLens DEF SpecInv
    <3>2. Resting(x)
      BY <1>0, <1>1, <2>2 DEF SpecInv, RestOk
    <3>3. Untouched(x)
      BY <1>6, <1>18, <2>2, <3>1 DEF Untouched
    <3> QED
      BY <3>2, <3>3, RestingKept
  <2> QED
    BY <2>1, <2>2
<1>22. DraftsOk' /\ FitsPool'
  BY <1>0 DEF DraftsOk, FitsPool
<1>23. JournalOk'
  <2>1. \A i \in Items(plan) : ToSettle(i)' <=> ToSettle(i)
    BY <1>0, <1>1, <1>17 DEF ToSettle
  <2>2. { plan'[i].id : i \in { n \in Items(plan') : ToSettle(n)' } }
          = { plan[i].id : i \in { n \in Items(plan) : ToSettle(n) } }
    BY <1>0, <2>1 DEF Items
  <2>3. \A i \in Items(plan) : ToSettle(i) =>
          plan[i].id \in journal.armed /\ journal.rows[plan[i].id] = Len(plan[i].toks)
    BY <1>0 DEF SpecInv, JournalOk
  <2>4. \A i \in Items(plan) : ToSettle(i)' =>
          /\ plan[i].id \in journal'.armed /\ Len(journal'.taped[plan[i].id]) = Len(plan[i].toks)
    BY <1>13, <2>1, <2>3
  <2>5. "settle" \notin Range(faults) =>
          journal'.armed = { plan[i].id : i \in { n \in Items(plan) : ToSettle(n) } }
    BY <1>1, <1>13 DEF SpecInv, JournalOk
  <2>6. Items(plan') = Items(plan)
    BY <1>0
  <2> QED
    BY <1>0, <1>1, <2>2, <2>4, <2>5, <2>6 DEF JournalOk
<1> QED
  BY <1>7, <1>8, <1>15, <1>16, <1>20, <1>21, <1>22, <1>23 DEF SpecInv

-----------------------------------------------------------------------------
(* The drafts of an item that are taken, and the token behind them. *)
LEMMA TakenFacts ==
  ASSUME NEW s \in Seq(Tokens), s # << >>, NEW a \in Nat, a <= Len(Tail(s)), NEW t \in Tokens
  PROVE  /\ Len(s) \in Nat /\ a + 1 <= Len(s)
         /\ SubSeq(Tail(s), 1, a) \in Seq(Tokens) /\ Len(SubSeq(Tail(s), 1, a)) = a
         /\ \A j \in 1 .. a : SubSeq(Tail(s), 1, a)[j] = s[j + 1]
         /\ Append(SubSeq(Tail(s), 1, a), t) \in Seq(Tokens)
         /\ Len(Append(SubSeq(Tail(s), 1, a), t)) = a + 1
         /\ \A j \in 1 .. a : Append(SubSeq(Tail(s), 1, a), t)[j] = s[j + 1]
         /\ Append(SubSeq(Tail(s), 1, a), t)[a + 1] = t
<1>1. PICK r : r = Tail(s)
  OBVIOUS
<1>2. /\ r \in Seq(Tokens) /\ Len(r) = Len(s) - 1 /\ \A j \in 1 .. Len(r) : r[j] = s[j + 1]
  BY <1>1, HeadTailProperties
<1>3. Len(s) \in Nat /\ Len(r) \in Nat /\ a <= Len(r)
  BY <1>1, <1>2, LenProperties
<1>4. PICK c : c = SubSeq(r, 1, a)
  OBVIOUS
<1>5. /\ c \in Seq(Tokens) /\ Len(c) = IF 1 <= a THEN a - 1 + 1 ELSE 0
      /\ \A j \in 1 .. a - 1 + 1 : c[j] = r[1 + j - 1]
  <2>1. 1 \in 1 .. Len(r) + 1 /\ a \in 0 .. Len(r)
    BY <1>3
  <2> QED
    BY <1>2, <1>4, <2>1, SliceFacts
<1>6. Len(c) = a
  BY <1>5
<1>7. \A j \in 1 .. a : c[j] = s[j + 1]
  <2> SUFFICES ASSUME NEW j \in 1 .. a PROVE c[j] = s[j + 1]
    OBVIOUS
  <2>1. j \in 1 .. a - 1 + 1 /\ j \in 1 .. Len(r) /\ 1 + j - 1 = j
    BY <1>3
  <2> QED
    BY <1>2, <1>5, <2>1
<1>8. PICK d : d = Append(c, t)
  OBVIOUS
<1>9. /\ d \in Seq(Tokens) /\ Len(d) = a + 1 /\ d[a + 1] = t
      /\ \A j \in 1 .. a : d[j] = c[j]
  <2>1. c \in Seq(Tokens)
    BY <1>5
  <2>2. /\ d \in Seq(Tokens) /\ Len(d) = Len(c) + 1 /\ d[Len(c) + 1] = t
        /\ \A j \in 1 .. Len(c) : d[j] = c[j]
    BY <1>8, <2>1, AppendProperties
  <2> QED
    BY <1>6, <2>2
<1>10. a + 1 <= Len(s)
  BY <1>2, <1>3
<1> QED
  BY <1>1, <1>3, <1>4, <1>5, <1>6, <1>7, <1>8, <1>9, <1>10

LEMMA SettleStep ==
  ASSUME SpecInv, NEW accepted \in 0 .. K, NEW token \in Tokens, Settle(accepted, token)
  PROVE  SpecInv'
<1> DEFINE id == plan[at].id
           s == plan[at].toks
           from == plan[at].from
           taken == Append(SubSeq(Tail(s), 1, accepted), token)
           keep == accepted + 1
<1>0. /\ phase = "settle" /\ phase' = "settle" /\ at <= Len(plan) /\ at' = at + 1
      /\ plan[at].kind = "verify" /\ accepted <= Len(Tail(s))
      /\ pool' = Truncate(pool, id, from + keep)
      /\ conv' = [conv EXCEPT ![id] = Rewound(id, keep)]
      /\ state' = [state EXCEPT ![id] = state[id] \o SubSeq(journal.taped[id], 1, keep)]
      /\ journal' = [journal EXCEPT !.armed = journal.armed \ {id}]
      /\ outcome' = [outcome EXCEPT ![id] = taken]
      /\ UNCHANGED << texts, kv, lens, running, row, mixed, faults >>
      /\ UNCHANGED << committed, depth, left, drafts, plan, tok, sampled, done >>
  <2>1. state \in [SeqIds -> Seq(Tokens)] /\ journal \in Journals
    BY DEF SpecInv, Types, DeviceTypes
  <2> QED
    BY <2>1 DEF Settle, Kept, Drafted, Journals
<1>1. /\ InHand /\ InHand' /\ at \in Nat \ {0} /\ accepted \in Nat /\ done = {} /\ tok = 1
  BY <1>0, SpeculationSizes DEF InHand, SpecInv, Types, StepTypes, Scratch
<1>30. PICK here : here = at
  OBVIOUS
<1>2. /\ plan \in Seq(PlanItems) /\ Apart(plan) /\ Len(plan) \in Nat /\ at \in Items(plan)
      /\ \A i \in Items(plan) : ~IsOver(i)
  BY <1>0, <1>1, InHandFacts DEF Items, IsOver
<1>3. \A i \in Items(plan) : /\ Going(i) /\ plan[i].id \in SeqIds /\ plan[i].id \in pool.live
                             /\ plan[i].from \in Nat
                             /\ Added(i) = 0 /\ Added(i)' = 0 /\ ~IsOver(i)'
                             /\ (i # at => (IsSettled(i)' <=> IsSettled(i)))
                             /\ i \in Nat
  <2>1. \A i \in Items(plan) : i \in Nat /\ (i # at => (i < at + 1 <=> i < at))
    BY <1>1, <1>2 DEF Items
  <2>2. \A i \in Items(plan) : i # at => (IsSettled(i)' <=> IsSettled(i))
    BY <1>0, <2>1 DEF IsSettled
  <2> QED
    BY <1>0, <1>1, <1>2, <2>1, <2>2, InHandFacts, GoalFacts DEF Added, IsOver
<1>4. ~IsSettled(here) /\ IsSettled(here)' /\ ToSettle(here) /\ ~ToSettle(here)'
  <2>1. ~(here < at) /\ here < at' /\ here \in 1 .. Len(plan)
    BY <1>0, <1>1, <1>2, <1>30 DEF Items
  <2>2. plan[here].kind = "verify" /\ plan'[here].kind = "verify"
    BY <1>0, <1>30
  <2>3. ~IsSettled(here) /\ IsSettled(here)'
    BY <1>0, <2>1, <2>2 DEF IsSettled
  <2> QED
    BY <1>0, <1>1, <2>1, <2>2, <2>3 DEF ToSettle, Verifies
<1>5. /\ id \in SeqIds /\ id \in pool.live /\ from \in Nat /\ s \in Seq(Tokens) /\ s # << >>
      /\ Len(s) \in Nat
      /\ SeqLen(pool, id) = from + Len(s) /\ FitsDecoding(plan[at], 0)
      /\ from + Len(s) <= MaxSeq
  <2>1. PICK x : x = plan[at]
    OBVIOUS
  <2>2. /\ x.id \in SeqIds /\ x.id \in pool.live /\ x.from \in Nat /\ x.toks \in Seq(Tokens)
        /\ Len(x.toks) \in Nat /\ Len(x.toks) >= 1
    BY <1>1, <1>2, <2>1, GoalFacts
  <2>3. Ran(at) = Len(x.toks) /\ Added(at) = 0
    BY <1>0, <1>3, <1>2, <1>4, <1>30, <2>1 DEF Ran
  <2>4. /\ SeqLen(pool, x.id) = x.from + Len(x.toks) /\ x.from + Len(x.toks) <= MaxSeq
        /\ FitsPrefill(x) \/ FitsDecoding(x, 0)
    BY <1>2, <1>3, <2>1, <2>3 DEF Going
  <2>5. ~FitsPrefill(x)
    BY <1>0, <2>1 DEF FitsPrefill
  <2>6. x.toks # << >>
    <3>1. Len(<< >>) = 0
      BY EmptySeq
    <3> QED
      BY <2>2, <3>1
  <2> QED
    BY <2>1, <2>2, <2>4, <2>5, <2>6
<1>6. /\ accepted + 1 <= Len(s)
      /\ taken \in Seq(Tokens) /\ Len(taken) = keep
      /\ \A j \in 1 .. accepted : taken[j] = s[j + 1]
  <2>1. PICK t : t = s
    OBVIOUS
  <2>2. t \in Seq(Tokens) /\ t # << >> /\ accepted \in Nat /\ accepted <= Len(Tail(t))
    BY <1>0, <1>1, <1>5, <2>1
  <2>3. /\ accepted + 1 <= Len(t)
        /\ Append(SubSeq(Tail(t), 1, accepted), token) \in Seq(Tokens)
        /\ Len(Append(SubSeq(Tail(t), 1, accepted), token)) = accepted + 1
        /\ \A j \in 1 .. accepted : Append(SubSeq(Tail(t), 1, accepted), token)[j] = t[j + 1]
    BY ONLY <2>2, token \in Tokens, TakenFacts
  <2> QED
    BY <2>1, <2>3
<1> HIDE DEF id, s, from, taken, keep
<1>7. keep \in Nat /\ from + keep <= SeqLen(pool, id) /\ from + keep \in Nat /\ keep <= Len(s)
      /\ keep >= 1
  <2> DEFINE n == Len(s)
             l == SeqLen(pool, id)
  <2>1. n \in Nat /\ l = from + n /\ keep = accepted + 1 /\ accepted + 1 <= n /\ from \in Nat
    BY <1>5, <1>6 DEF keep
  <2> HIDE DEF n, l
  <2>2. keep \in Nat /\ from + keep <= l /\ from + keep \in Nat /\ keep <= n /\ keep >= 1
    BY <1>1, <2>1
  <2> QED
    BY <2>2 DEF n, l
<1>8. WholePool(pool) /\ pool \in Pools /\ pool.borrowed[id] = 0
  BY <1>5 DEF SpecInv, PoolOk, WholePool
<1>9. /\ WholePool(pool') /\ pool'.live = pool.live /\ SeqLen(pool', id) = from + keep
      /\ \A x \in SeqIds \ {id} : pool'.slots[x] = pool.slots[x]
  <2>1. WholePool(pool')
    BY <1>0, <1>5, <1>7, <1>8, WholeTruncate
  <2>2. /\ pool'.live = pool.live /\ SeqLen(pool', id) = from + keep /\ Moved(pool, pool', id)
    BY <1>0, <1>5, <1>7, <1>8, TruncateFacts
  <2> QED
    BY <2>1, <2>2 DEF Moved
<1>10. \A x \in SeqIds : x # id => SeqLen(pool', x) = SeqLen(pool, x)
  BY <1>9 DEF SeqLen
<1>11. PoolOk'
  <2>1. SeqLen(pool', id) <= MaxSeq
    <3> DEFINE l == SeqLen(pool, id)
               k == SeqLen(pool', id)
    <3>1. k = from + keep /\ from + keep <= l /\ l <= MaxSeq /\ l \in Nat
      BY <1>5, <1>7, <1>9, PoolLens DEF SpecInv
    <3> HIDE DEF l, k
    <3>2. k <= MaxSeq
      BY <1>7, <3>1, PoolSizes
    <3> QED
      BY <3>2 DEF k
  <2> QED
    BY <1>9, <1>10, <2>1 DEF SpecInv, PoolOk
<1>12. TextTypes' /\ TextsBegin' /\ RunningOk' /\ ServesOne'
  BY <1>0, <1>9 DEF SpecInv, Types, TextTypes, TextsBegin, RunningOk, ServesOne, texts
<1>13. /\ conv \in [SeqIds -> Seq(Tokens)] /\ state \in [SeqIds -> Seq(Tokens)]
       /\ journal \in Journals /\ journal.taped \in [SeqIds -> Seq(Tokens)]
       /\ journal.conv_pre \in [SeqIds -> Seq(Tokens)] /\ journal.armed \subseteq SeqIds
  BY DEF SpecInv, Types, DeviceTypes, Journals
<1>14. Len(journal.taped[id]) = Len(s)
  BY <1>0, <1>2, <1>4, <1>30 DEF SpecInv, JournalOk, id, s
<1>15. SubSeq(journal.taped[id], 1, keep) \in Seq(Tokens)
  <2>1. PICK t : t = journal.taped[id]
    OBVIOUS
  <2>2. t \in Seq(Tokens) /\ Len(t) = Len(s)
    BY <1>5, <1>13, <1>14, <2>1
  <2>3. keep \in 0 .. Len(t) /\ 1 \in 1 .. Len(t) + 1
    BY <1>5, <1>7, <2>2
  <2>4. SubSeq(t, 1, keep) \in Seq(Tokens)
    BY <2>2, <2>3, SliceFacts
  <2> QED
    BY <2>1, <2>4
<1>16. conv' \in [SeqIds -> Seq(Tokens)] /\ state' \in [SeqIds -> Seq(Tokens)]
  <2>1. journal.conv_pre[id] \in Seq(Tokens) /\ state[id] \in Seq(Tokens)
    BY <1>5, <1>13
  <2>2. /\ journal.conv_pre[id] \o SubSeq(journal.taped[id], 1, keep) \in Seq(Tokens)
        /\ state[id] \o SubSeq(journal.taped[id], 1, keep) \in Seq(Tokens)
    BY <1>15, <2>1, ConcatProperties
  <2> QED
    BY <1>0, <1>5, <1>13, <2>2 DEF Rewound
<1>17. journal' \in Journals /\ journal'.armed = journal.armed \ {id} /\ journal'.taped = journal.taped
  BY <1>0, <1>13 DEF Journals
<1>18. /\ outcome' \in [SeqIds -> Seq(Tokens)] /\ outcome'[id] = taken
       /\ \A x \in SeqIds : x # id => outcome'[x] = outcome[x]
  BY <1>0, <1>5, <1>6 DEF SpecInv, Types, StepTypes
<1>19. Types'
  <2>1. RowTypes' /\ DeviceTypes'
    BY <1>0, <1>16, <1>17 DEF SpecInv, Types, DeviceTypes, RowTypes
  <2>2. at' \in Nat \ {0}
    BY <1>0, <1>1
  <2>3. StepTypes'
    BY <1>0, <1>18, <2>2 DEF SpecInv, Types, StepTypes, Phases
  <2> QED
    BY <1>12, <2>1, <2>3 DEF Types
<1>20. Scratch'
  BY <1>0, <1>1, <1>9 DEF SpecInv, Scratch
<1>21. \A x : SameRow(x)
  BY <1>0 DEF SameRow, texts
<1>22. Going(here)'
  <2>1. PICK x : x = plan[here] /\ x = plan'[here] /\ x = plan[at]
    BY <1>0, <1>30
  <2>2. /\ x.id = id /\ x.toks = s /\ x.from = from
    BY <2>1 DEF id, s, from
  <2>3. Ran(here)' = keep /\ Added(here)' = 0 /\ IsSettled(here)'
    <3>1. phase' # "forward" /\ Len(outcome'[plan'[here].id]) = keep
      BY <1>0, <1>6, <1>18, <2>1, <2>2
    <3>2. IsSettled(here)'
      BY <1>4
    <3> QED
      BY <1>2, <1>3, <1>30, <3>1, <3>2 DEF Ran
  <2>4. FitsDecoding(x, 0)'
    <3>1. FitsDecoding(x, 0) => FitsDecoding(x, 0)'
      BY <1>21, FitsKept
    <3> QED
      BY <1>5, <2>1, <3>1
  <2>5. /\ x.id \in pool'.live /\ x.id \notin done'
        /\ Len(x.toks) >= 1 /\ x.from + Len(x.toks) <= MaxSeq
        /\ SeqLen(pool', x.id) = x.from + keep
    <3>1. Len(x.toks) >= 1 /\ x.from + Len(x.toks) <= MaxSeq
      BY <1>2, <1>3, <2>1 DEF Going
    <3> QED
      BY <1>0, <1>1, <1>5, <1>9, <2>2, <3>1
  <2>6. row'[x.id].feed # NoFeed => PromptComplete(x.id)'
    <3>1. row[x.id].feed # NoFeed => PromptComplete(x.id)
      BY <1>2, <1>3, <2>1 DEF Going
    <3>2. PromptComplete(x.id)' = PromptComplete(x.id)
      BY <1>21, UntouchedText
    <3> QED
      BY <1>0, <3>1, <3>2
  <2>7. /\ Len(outcome'[x.id]) \in 0 + 1 .. Len(x.toks)
        /\ \A j \in 1 .. Len(outcome'[x.id]) - 1 : outcome'[x.id][j] = x.toks[j + 1]
    <3>1. Len(taken) - 1 = accepted
      BY <1>1, <1>6 DEF keep
    <3>2. keep \in 0 + 1 .. Len(s)
      BY <1>5, <1>7
    <3> QED
      BY <1>6, <1>18, <2>2, <3>1, <3>2
  <2>8. x.kind # "prefill"
    BY <1>0, <2>1
  <2>9. PICK o : o = outcome'[x.id]
    OBVIOUS
  <2>10. \A j \in 1 .. 0 : Text(x.id)'[x.from + 1 + j] = o[j]
    OBVIOUS
  <2> QED
    BY <2>1, <2>3, <2>4, <2>5, <2>6, <2>7, <2>8, <2>9, <2>10 DEF Going
<1>23. ASSUME NEW i \in Items(plan), i # here PROVE Going(i)'
  <2>1. plan[i].id # id /\ plan[i].id \in SeqIds
    BY <1>2, <1>3, <1>23, <1>30 DEF Apart, Items, id
  <2>2. outcome'[plan[i].id] = outcome[plan[i].id]
    BY <1>18, <2>1
  <2>3. IsSettled(i)' <=> IsSettled(i)
    BY <1>3, <1>23, <1>30
  <2>4. Ran(i)' = Ran(i)
    BY <1>0, <2>2, <2>3 DEF Ran
  <2>5. SeqLen(pool', plan[i].id) = plan[i].from + Ran(i)
    BY <1>3, <1>10, <2>1 DEF Going
  <2>6. Added(i)' = Added(i)
    BY <1>3
  <2> QED
    BY <1>0, <1>1, <1>3, <1>9, <1>21, <2>2, <2>3, <2>4, <2>5, <2>6, GoingKept
<1>24. PlanOk'
  <2>1. \A i, j \in Items(plan) : plan[i].id = plan[j].id => i = j
    BY <1>2 DEF Apart, Items
  <2>2. at' <= Len(plan') + 1 /\ phase' # "advance"
    BY <1>0, <1>1, <1>2
  <2>3. \A i \in Items(plan) : Going(i)'
    BY <1>22, <1>23
  <2> QED
    BY <1>0, <2>1, <2>2, <2>3 DEF PlanOk
<1>25. RestOk'
  <2> SUFFICES ASSUME NEW x \in pool.live
               PROVE  \/ InHand' /\ \E i \in Items(plan) : plan[i].id = x /\ ~IsOver(i)'
                      \/ Resting(x)'
    BY <1>0, <1>9 DEF RestOk, Items
  <2>1. CASE \E i \in Items(plan) : plan[i].id = x
    BY <1>1, <1>3, <2>1
  <2>2. CASE \A i \in Items(plan) : plan[i].id # x
    <3>1. x \in SeqIds /\ x # id
      BY <1>2, <2>2, PoolLens DEF SpecInv, id
    <3>2. Resting(x)
      BY <1>0, <1>1, <2>2 DEF SpecInv, RestOk
    <3>3. Untouched(x)
      BY <1>10, <1>21, <3>1 DEF Untouched
    <3> QED
      BY <3>2, <3>3, RestingKept
  <2> QED
    BY <2>1, <2>2
<1>26. DraftsOk' /\ FitsPool'
  BY <1>0 DEF DraftsOk, FitsPool
<1>27. JournalOk'
  <2>1. \A i \in Items(plan) : ToSettle(i)' <=> ToSettle(i) /\ i # here
    BY <1>0, <1>1, <1>3, <1>4, <1>30 DEF ToSettle
  <2>2. \A i \in Items(plan) : i # here => plan[i].id # id
    BY <1>2, <1>30 DEF Apart, Items, id
  <2>3. { plan[i].id : i \in { k \in Items(plan) : ToSettle(k)' } }
          = { plan[i].id : i \in { k \in Items(plan) : ToSettle(k) } } \ {id}
    BY <1>2, <1>30, <2>1, <2>2 DEF id
  <2>4. "settle" \notin Range(faults) =>
          journal.armed = { plan[i].id : i \in { k \in Items(plan) : ToSettle(k) } }
    BY <1>1 DEF SpecInv, JournalOk
  <2>5. \A i \in Items(plan) : ToSettle(i) =>
          plan[i].id \in journal.armed /\ Len(journal.taped[plan[i].id]) = Len(plan[i].toks)
    BY <1>0 DEF SpecInv, JournalOk
  <2>6. \A i \in Items(plan) : ToSettle(i)' =>
          plan[i].id \in journal'.armed /\ Len(journal'.taped[plan[i].id]) = Len(plan[i].toks)
    BY <1>17, <2>1, <2>2, <2>5
  <2>7. plan' = plan /\ Items(plan') = Items(plan) /\ faults' = faults /\ phase' # "forward"
    BY <1>0
  <2>8. "settle" \notin Range(faults') =>
          journal'.armed = { plan[i].id : i \in { k \in Items(plan) : ToSettle(k)' } }
    BY <1>17, <2>3, <2>4, <2>7
  <2> QED
    BY <1>1, <2>6, <2>7, <2>8 DEF JournalOk
<1> QED
  BY <1>11, <1>12, <1>19, <1>20, <1>24, <1>25, <1>26, <1>27 DEF SpecInv

-----------------------------------------------------------------------------
(* A text with one token more. *)
LEMMA AppendedFacts ==
  ASSUME NEW s \in Seq(Tokens), NEW t \in Tokens
  PROVE  /\ Append(s, t) \in Seq(Tokens) /\ Len(s) \in Nat /\ Len(Append(s, t)) = Len(s) + 1
         /\ Append(s, t)[Len(s) + 1] = t
         /\ \A j \in 1 .. Len(s) : Append(s, t)[j] = s[j]
         /\ \A n \in 0 .. Len(s) : SubSeq(Append(s, t), 1, n) = SubSeq(s, 1, n)
<1>1. PICK u, m : u = Append(s, t) /\ m = Len(s)
  OBVIOUS
<1>2. /\ u \in Seq(Tokens) /\ Len(u) = m + 1 /\ u[m + 1] = t
      /\ \A j \in 1 .. m : u[j] = s[j]
  BY <1>1, AppendProperties
<1>3. m \in Nat
  BY <1>1, LenProperties
<1>4. ASSUME NEW n \in 0 .. m PROVE SubSeq(u, 1, n) = SubSeq(s, 1, n)
  <2>1. PICK a, b : a = SubSeq(u, 1, n) /\ b = SubSeq(s, 1, n)
    OBVIOUS
  <2>2. /\ 1 \in 1 .. Len(u) + 1 /\ n \in 0 .. Len(u)
        /\ 1 \in 1 .. Len(s) + 1 /\ n \in 0 .. Len(s)
    BY <1>1, <1>2, <1>3
  <2>3. /\ a \in Seq(Tokens) /\ Len(a) = IF 1 <= n THEN n - 1 + 1 ELSE 0
        /\ \A j \in 1 .. n - 1 + 1 : a[j] = u[1 + j - 1]
    BY <1>2, <2>1, <2>2, SliceFacts
  <2>4. /\ b \in Seq(Tokens) /\ Len(b) = IF 1 <= n THEN n - 1 + 1 ELSE 0
        /\ \A j \in 1 .. n - 1 + 1 : b[j] = s[1 + j - 1]
    BY <2>1, <2>2, SliceFacts
  <2>5. Len(a) = n /\ Len(b) = n
    BY <1>3, <2>3, <2>4
  <2>6. \A j \in 1 .. n : a[j] = b[j]
    <3> SUFFICES ASSUME NEW j \in 1 .. n PROVE a[j] = b[j]
      OBVIOUS
    <3>1. j \in 1 .. n - 1 + 1 /\ j \in 1 .. m /\ 1 + j - 1 = j
      BY <1>3
    <3> QED
      BY <1>2, <2>3, <2>4, <3>1
  <2>7. a = b
    BY <2>3, <2>4, <2>5, <2>6, SeqEqual
  <2> QED
    BY <2>1, <2>7
<1> QED
  BY <1>1, <1>2, <1>3, <1>4

(* The row of an item in hand, and the text it has so far. *)
LEMMA HereFacts ==
  ASSUME SpecInv, phase = "advance", NEW here \in Items(plan), here = at
  PROVE  /\ InHand /\ ~IsOver(here) /\ Going(here)
         /\ plan[here].id \in SeqIds /\ plan[here].id \in pool.live /\ plan[here].id \notin done
         /\ row[plan[here].id].req \in Requests
         /\ status[row[plan[here].id].req] = "running"
         /\ said[row[plan[here].id].req] \in Seq(Tokens)
         /\ Added(here) = tok - 1 /\ tok \in Nat \ {0} /\ at \in Nat \ {0}
<1>1. InHand
  BY DEF InHand
<1>2. at \in Nat \ {0} /\ tok \in Nat \ {0}
  BY DEF SpecInv, Types, StepTypes
<1>3. ~IsOver(here) /\ Added(here) = tok - 1
  BY <1>2 DEF IsOver, Added
<1>4. /\ Going(here) /\ plan[here].id \in SeqIds /\ plan[here].id \in pool.live
      /\ Serves(plan[here].id)
  BY <1>1, <1>3, InHandFacts, GoalFacts
<1>5. plan[here].id \notin done
  BY <1>4 DEF Going
<1>6. status[row[plan[here].id].req] = "running"
  BY <1>4, <1>5 DEF SpecInv, ServesOne
<1>7. said[row[plan[here].id].req] \in Seq(Tokens)
  BY <1>4 DEF Serves, SpecInv, Types, TextTypes
<1> QED
  BY <1>1, <1>2, <1>3, <1>4, <1>5, <1>6, <1>7 DEF Serves

(* One token more for the row in hand. *)
OneMore(id) ==
  \E t \in Tokens :
    said'[row[id].req] = said[row[id].req] \/ said'[row[id].req] = Append(said[row[id].req], t)
LEMMA TokenFacts ==
  ASSUME SpecInv, phase = "advance", NEW here \in Items(plan), here = at,
         NEW t \in Tokens, NEW id, id = plan[here].id, AdvanceToken(id, t),
         ask' = ask, pool' = pool
  PROVE  /\ TextTypes' /\ TextsBegin'
         /\ status'[row[id].req] \in {"running", "stop", "length"}
         /\ \A q \in Requests : q # row[id].req => said'[q] = said[q] /\ status'[q] = status[q]
         /\ OneMore(id)
         /\ done' = IF status'[row[id].req] = "running" THEN done ELSE done \cup {id}
         /\ status'[row[id].req] = "running" =>
              /\ said'[row[id].req] = Append(said[row[id].req], t)
              /\ Headroom(pool, id) # 0
<1> DEFINE r == row[id].req
           next == IF t = Eog \/ t \in Stops THEN "stop"
                   ELSE IF Generated(id) + 1 >= Lesser(ask[r].max_tokens, MaxSeq - Len(Prompt(id)))
                           \/ Headroom(pool, id) = 0 \/ FreeSlots(pool) = 0
                   THEN "length" ELSE "running"
<1>1. /\ said' = IF t = Eog THEN said ELSE [said EXCEPT ![r] = Append(said[r], t)]
      /\ status' = [status EXCEPT ![r] = next]
      /\ done' = IF next = "running" THEN done ELSE done \cup {id}
  BY DEF AdvanceToken
<1>2. /\ next \in {"running", "stop", "length"}
      /\ next = "running" => t # Eog /\ Headroom(pool, id) # 0
  OBVIOUS
<1>3. r \in Requests /\ said[r] \in Seq(Tokens) /\ status[r] = "running"
  BY HereFacts
<1> HIDE DEF r, next
<1>4. /\ said \in [Requests -> Seq(Tokens)]
      /\ status \in [Requests -> {"waiting", "running", "stop", "length", "failed"}]
      /\ ask \in [Requests -> Asks]
  BY DEF SpecInv, Types, TextTypes
<1>5. Append(said[r], t) \in Seq(Tokens)
  BY <1>3, AppendedFacts
<1>6. said' \in [Requests -> Seq(Tokens)] /\ \A q \in Requests : q # r => said'[q] = said[q]
  BY <1>1, <1>3, <1>4, <1>5
<1>7. /\ said'[r] = said[r] \/ said'[r] = Append(said[r], t)
      /\ t # Eog => said'[r] = Append(said[r], t)
  BY <1>1, <1>3, <1>4
<1>8. /\ status' \in [Requests -> {"waiting", "running", "stop", "length", "failed"}]
      /\ status'[r] = next /\ \A q \in Requests : q # r => status'[q] = status[q]
  BY <1>1, <1>2, <1>3, <1>4
<1>9. TextTypes'
  BY <1>4, <1>6, <1>8 DEF TextTypes
<1>10. TextsBegin'
  <2> SUFFICES ASSUME NEW q \in Requests
               PROVE  /\ Len(said'[q]) >= Len(ask[q].prompt)
                      /\ SubSeq(said'[q], 1, Len(ask[q].prompt)) = ask[q].prompt
                      /\ status'[q] = "waiting" => said'[q] = ask[q].prompt
    BY DEF TextsBegin
  <2>1. /\ Len(said[q]) >= Len(ask[q].prompt)
        /\ SubSeq(said[q], 1, Len(ask[q].prompt)) = ask[q].prompt
        /\ status[q] = "waiting" => said[q] = ask[q].prompt
    BY DEF SpecInv, TextsBegin
  <2>2. CASE said'[q] = said[q] /\ q # r
    BY <1>8, <2>1, <2>2
  <2>3. CASE said'[q] = said[q] /\ q = r
    BY <1>2, <1>8, <2>1, <2>3
  <2>4. CASE q = r /\ said'[r] = Append(said[r], t)
    <3>1. PICK s, p : s = said[r] /\ p = ask[r].prompt
      OBVIOUS
    <3>2. s \in Seq(Tokens) /\ Len(p) \in Nat /\ Len(s) \in Nat
      <4>1. p \in Seq(Tokens)
        BY <1>3, <1>4, <3>1, SpeculationSizes
      <4> QED
        BY <1>3, <3>1, <4>1, LenProperties
    <3>3. Len(p) \in 0 .. Len(s)
      BY <2>1, <2>4, <3>1, <3>2
    <3>4. /\ Len(Append(s, t)) = Len(s) + 1
          /\ SubSeq(Append(s, t), 1, Len(p)) = SubSeq(s, 1, Len(p))
      BY <3>2, <3>3, AppendedFacts
    <3>5. Len(Append(s, t)) >= Len(p) /\ SubSeq(Append(s, t), 1, Len(p)) = p
      BY <2>1, <2>4, <3>1, <3>2, <3>3, <3>4
    <3>6. status'[r] # "waiting"
      BY <1>2, <1>8
    <3> QED
      BY <2>4, <3>1, <3>5, <3>6
  <2> QED
    BY <1>6, <1>7, <2>2, <2>3, <2>4
<1>11. status'[r] = "running" => said'[r] = Append(said[r], t) /\ Headroom(pool, id) # 0
  BY <1>2, <1>7, <1>8
<1>12. done' = IF status'[r] = "running" THEN done ELSE done \cup {id}
  BY <1>1, <1>8
<1>13. OneMore(id)
  <2>1. \/ said'[row[id].req] = said[row[id].req]
        \/ said'[row[id].req] = Append(said[row[id].req], t)
    BY <1>7, Zenon DEF r
  <2> QED
    BY <2>1, Zenon DEF OneMore
<1> QED
  BY <1>2, <1>6, <1>8, <1>9, <1>10, <1>11, <1>12, <1>13 DEF r

(* A turn is for one row; the others are left alone. *)
TurnFor(here, id) ==
  /\ phase = "advance" /\ here \in Items(plan) /\ here = at /\ id = plan[here].id
  /\ UNCHANGED << ask, pool, device, journal, lens, running, phase, mixed, faults >>
  /\ UNCHANGED << committed, depth, left, drafts, plan, sampled, outcome >>
  /\ row' \in [SeqIds -> RowStates] /\ row'[id].req = row[id].req
  /\ \A x \in SeqIds : x # id => row'[x] = row[x]
  /\ TextTypes' /\ TextsBegin'
  /\ OneMore(id)
  /\ \A q \in Requests : q # row[id].req => said'[q] = said[q] /\ status'[q] = status[q]
  /\ status'[row[id].req] \in {"running", "stop", "length"}
  /\ done' = IF status'[row[id].req] = "running" THEN done ELSE done \cup {id}
  /\ \/ at' = at + 1 /\ tok' = 1 /\ (id \in done' \/ Resting(id)')
     \/ at' = at /\ tok' \in Nat \ {0} /\ Going(here)' /\ plan[here].kind = "verify"

LEMMA TurnKeeps ==
  ASSUME SpecInv, NEW here, NEW id, TurnFor(here, id)
  PROVE  SpecInv'
<1>0. /\ phase = "advance" /\ phase' = "advance" /\ here \in Items(plan) /\ here = at
      /\ id = plan[here].id
      /\ UNCHANGED << ask, pool, device, journal, lens, running, mixed, faults >>
      /\ UNCHANGED << committed, depth, left, drafts, plan, sampled, outcome >>
      /\ row' \in [SeqIds -> RowStates] /\ row'[id].req = row[id].req
      /\ \A x \in SeqIds : x # id => row'[x] = row[x]
      /\ TextTypes' /\ TextsBegin'
      /\ at' \in {at, at + 1}
  BY DEF TurnFor
<1>1. /\ InHand /\ InHand' /\ id \in SeqIds /\ id \in pool.live /\ id \notin done
      /\ row[id].req \in Requests /\ at \in Nat \ {0} /\ at <= Len(plan) /\ Len(plan) \in Nat
  <2>1. InHand /\ InHand'
    BY <1>0 DEF InHand
  <2>2. at \in Nat \ {0} /\ Len(plan) \in Nat
    BY <2>1, <1>0, InHandFacts, HereFacts
  <2> QED
    BY <1>0, <2>1, <2>2, HereFacts DEF Items
<1>2. /\ Apart(plan) /\ \A i \in Items(plan) : i \in Nat /\ plan[i].id \in SeqIds
  BY <1>1, InHandFacts DEF Items
<1>3. pool.live \subseteq SeqIds
  BY PoolLens DEF SpecInv
<1>4. \A x \in pool.live : /\ row'[x].req = row[x].req /\ row[x].req \in Requests
                           /\ (x # id => row[x].req # row[id].req)
  BY <1>0, <1>1, <1>3 DEF SpecInv, ServesOne
<1>5. \A x \in pool.live : x # id => SameRow(x) /\ Untouched(x)
  <2> SUFFICES ASSUME NEW x \in pool.live, x # id PROVE SameRow(x) /\ Untouched(x)
    OBVIOUS
  <2>1. row'[x] = row[x] /\ said'[row[x].req] = said[row[x].req]
    BY <1>0, <1>3, <1>4 DEF TurnFor
  <2> QED
    BY <1>0, <2>1 DEF SameRow, Untouched
<1>6. /\ status'[row[id].req] \in {"running", "stop", "length"}
      /\ done' = IF status'[row[id].req] = "running" THEN done ELSE done \cup {id}
  BY DEF TurnFor
<1>7. ServesOne'
  <2>1. \A x \in pool.live : status[row[x].req] \in IF x \in done THEN {"stop", "length"} ELSE {"running"}
    BY DEF SpecInv, ServesOne
  <2>2. \A x \in pool.live : x # id => (x \in done' <=> x \in done) /\ status'[row[x].req] = status[row[x].req]
    BY <1>4, <1>6 DEF TurnFor
  <2>3. id \in done' <=> status'[row[id].req] # "running"
    BY <1>1, <1>6
  <2>4. \A x \in pool.live : status'[row'[x].req] \in IF x \in done' THEN {"stop", "length"} ELSE {"running"}
    BY <1>4, <1>6, <2>1, <2>2, <2>3
  <2>5. \A a, b \in pool.live : row[a].req = row[b].req => a = b
    BY DEF SpecInv, ServesOne
  <2> QED
    BY <1>0, <1>4, <2>4, <2>5 DEF ServesOne
<1>8. PoolOk' /\ RunningOk'
  BY <1>0 DEF SpecInv, PoolOk, RunningOk
<1>9. done' \subseteq pool.live /\ done' \subseteq SeqIds
  BY <1>1, <1>3, <1>6 DEF SpecInv, Scratch
<1>10. at' \in Nat \ {0} /\ tok' \in Nat \ {0}
  BY <1>0, <1>1 DEF TurnFor
<1>11. Types'
  BY <1>0, <1>9, <1>10 DEF SpecInv, Types, DeviceTypes, RowTypes, StepTypes, Phases, device
<1>12. Scratch'
  BY <1>0, <1>9 DEF SpecInv, Scratch
<1>13. ASSUME NEW i \in Items(plan), i # here, ~IsOver(i)' PROVE Going(i)'
  <2>1. ~IsOver(i) /\ i # at
    <3>1. PICK a, b : a = at /\ b = at'
      OBVIOUS
    <3>2. ~(i < b) /\ b \in {a, a + 1} /\ i # a
      BY <1>0, <1>13, <3>1 DEF IsOver
    <3>3. i \in Nat /\ a \in Nat
      BY <1>1, <1>2, <3>1
    <3>4. ~(i < a)
      BY ONLY <3>2, <3>3
    <3> QED
      BY <3>1, <3>2, <3>4 DEF IsOver
  <2>2. Going(i)
    BY <1>1, <2>1, InHandFacts
  <2>3. plan[i].id # id /\ plan[i].id \in pool.live /\ plan[i].id \notin done
    <3>1. plan[i].id \in pool.live /\ plan[i].id \notin done
      BY <2>2 DEF Going
    <3> QED
      BY <1>0, <1>2, <1>13, <3>1 DEF Apart, Items
  <2>4. plan[i].id \notin done' /\ plan[i].id \in pool'.live
    BY <1>0, <1>6, <2>3
  <2>5. Added(i) = 0 /\ Added(i)' = 0
    <3>1. Added(i) = 0
      BY <2>1 DEF Added
    <3>2. CASE at' = at
      BY <2>1, <3>1, <3>2 DEF Added
    <3>3. CASE at' = at + 1
      <4>1. tok' = 1
        BY <1>1, <3>3 DEF TurnFor
      <4> QED
        BY <3>1, <4>1 DEF Added
    <3> QED
      BY <1>0, <3>1, <3>2, <3>3
  <2>6. (IsSettled(i)' <=> IsSettled(i)) /\ Ran(i)' = Ran(i)
    BY <1>0 DEF IsSettled, Ran
  <2>7. SeqLen(pool', plan[i].id) = plan[i].from + Ran(i)'
    BY <1>0, <2>2, <2>6 DEF Going
  <2> QED
    BY <1>0, <1>5, <2>2, <2>3, <2>4, <2>5, <2>6, <2>7, GoingKept
<1>14. ASSUME at' = at + 1, tok' = 1, id \in done' \/ Resting(id)'
       PROVE  PlanOk' /\ RestOk'
  <2>1. tok' = 1 /\ (id \in done' \/ Resting(id)')
    BY <1>14
  <2>2. IsOver(here)' /\ \A i \in Items(plan) : i # here => (IsOver(i)' <=> IsOver(i))
    <3>1. PICK a : a = at
      OBVIOUS
    <3>2. /\ a \in Nat /\ \A i \in Items(plan) : i \in Nat
          /\ here \in Items(plan) /\ here = a
      BY <1>0, <1>1, <1>2, <3>1
    <3>3. here < a + 1 /\ \A i \in Items(plan) : i # here => (i < a + 1 <=> i < a)
      BY ONLY <3>2
    <3>4. at' = a + 1 /\ at = a /\ phase = "advance" /\ phase' = "advance"
      BY <1>0, <1>14, <3>1
    <3> QED
      BY ONLY <3>3, <3>4 DEF IsOver
  <2>3. PlanOk'
    <3>1. \A i, j \in Items(plan) : plan[i].id = plan[j].id => i = j
      BY <1>2 DEF Apart, Items
    <3>2. at' <= Len(plan') + 1
      BY <1>0, <1>1, <1>14
    <3>3. \A i \in Items(plan) : ~IsOver(i)' => Going(i)'
      BY <1>13, <2>2
    <3> QED
      BY <1>0, <2>1, <3>1, <3>2, <3>3 DEF PlanOk
  <2>4. RestOk'
    <3> SUFFICES ASSUME NEW x \in pool.live, x # id
                 PROVE  \/ x \in done'
                        \/ \E i \in Items(plan) : plan[i].id = x /\ ~IsOver(i)'
                        \/ Resting(x)'
      BY <1>0, <1>1, <2>1 DEF RestOk, Items
    <3>1. \/ x \in done
          \/ \E i \in Items(plan) : plan[i].id = x /\ ~IsOver(i)
          \/ Resting(x)
      BY <1>0 DEF SpecInv, RestOk
    <3>2. \A i \in Items(plan) : plan[i].id = x => i # here
      BY <1>0
    <3>3. Resting(x) => Resting(x)'
      BY <1>5, RestingKept
    <3> QED
      BY <1>6, <2>2, <3>1, <3>2, <3>3
  <2> QED
    BY <2>3, <2>4
<1>15. ASSUME at' = at, Going(here)'
       PROVE  PlanOk' /\ RestOk'
  <2>1. \A i \in Items(plan) : IsOver(i)' <=> IsOver(i)
    BY <1>0, <1>15 DEF IsOver
  <2>2. ~IsOver(here)
    BY <1>0, <1>1 DEF IsOver
  <2>3. PlanOk'
    <3>1. \A i, j \in Items(plan) : plan[i].id = plan[j].id => i = j
      BY <1>2 DEF Apart, Items
    <3>2. at' <= Len(plan') + 1 /\ ~(at' > Len(plan'))
      BY <1>0, <1>1, <1>15
    <3>3. \A i \in Items(plan) : ~IsOver(i)' => Going(i)'
      BY <1>13, <1>15
    <3> QED
      BY <1>0, <3>1, <3>2, <3>3 DEF PlanOk
  <2>4. RestOk'
    <3> SUFFICES ASSUME NEW x \in pool.live
                 PROVE  \/ x \in done'
                        \/ \E i \in Items(plan) : plan[i].id = x /\ ~IsOver(i)'
                        \/ Resting(x)'
      BY <1>0, <1>1 DEF RestOk, Items
    <3>1. CASE x = id
      BY <1>0, <2>1, <2>2, <3>1
    <3>2. CASE x # id
      <4>1. \/ x \in done
            \/ \E i \in Items(plan) : plan[i].id = x /\ ~IsOver(i)
            \/ Resting(x)
        BY <1>0 DEF SpecInv, RestOk
      <4>2. Resting(x) => Resting(x)'
        BY <1>5, <3>2, RestingKept
      <4> QED
        BY <1>6, <2>1, <4>1, <4>2
    <3> QED
      BY <3>1, <3>2
  <2> QED
    BY <2>3, <2>4
<1>16. PlanOk' /\ RestOk'
  BY <1>14, <1>15 DEF TurnFor
<1>17. DraftsOk' /\ FitsPool'
  BY <1>0 DEF DraftsOk, FitsPool
<1>18. JournalOk'
  <2>1. \A i \in Items(plan) : ToSettle(i)' <=> ToSettle(i)
    BY <1>0, <1>1 DEF ToSettle, IsSettled, Verifies
  <2> QED
    BY <1>0, <1>1, <2>1, JournalKept DEF SpecInv
<1> QED
  BY <1>0, <1>7, <1>8, <1>11, <1>12, <1>16, <1>17, <1>18 DEF SpecInv

(* The item in hand, under a name of its own. *)
LEMMA ItemHere ==
  ASSUME SpecInv, phase = "advance", NEW here \in Items(plan), here = at, NEW x, x = plan[here]
  PROVE  /\ x.id \in SeqIds /\ x.id \in pool.live /\ x.from \in Nat
         /\ x.toks \in Seq(Tokens) /\ Len(x.toks) \in Nat
         /\ x.kind \in {"verify", "decode", "prefill"}
         /\ Len(x.toks) >= 1 /\ x.from + Len(x.toks) <= MaxSeq
         /\ FitsPrefill(x) \/ FitsDecoding(x, tok - 1)
         /\ x.kind = "prefill" => tok = 1
         /\ x.kind # "verify" => SeqLen(pool, x.id) = x.from + Len(x.toks)
         /\ x.kind = "verify" => SeqLen(pool, x.id) = x.from + Len(outcome[x.id])
         /\ row[x.id].feed # NoFeed => PromptComplete(x.id)
         /\ x.kind = "verify" =>
              /\ Len(outcome[x.id]) \in tok .. Len(x.toks)
              /\ \A j \in 1 .. Len(outcome[x.id]) - 1 : outcome[x.id][j] = x.toks[j + 1]
              /\ \A j \in 1 .. tok - 1 : Text(x.id)[x.from + 1 + j] = outcome[x.id][j]
         /\ Len(Text(x.id)) \in Nat /\ Text(x.id) \in Seq(Tokens)
         /\ Len(Prompt(x.id)) \in Nat /\ Len(Prompt(x.id)) <= Len(Text(x.id))
         /\ Len(Prompt(x.id)) >= 1 /\ Len(Prompt(x.id)) < MaxSeq
         /\ row[x.id] \in RowStates
<1>1. /\ InHand /\ ~IsOver(here) /\ Going(here) /\ plan[here] = x
      /\ Added(here) = tok - 1 /\ tok \in Nat \ {0}
  BY HereFacts
<1>2. /\ x.id \in SeqIds /\ x.from \in Nat /\ x.toks \in Seq(Tokens) /\ Len(x.toks) \in Nat
      /\ x.kind \in {"verify", "decode", "prefill"} /\ x.id \in pool.live /\ Serves(x.id)
  BY <1>1, InHandFacts, GoalFacts
<1>3. /\ Len(x.toks) >= 1 /\ x.from + Len(x.toks) <= MaxSeq
      /\ FitsPrefill(x) \/ FitsDecoding(x, Added(here))
      /\ x.kind = "prefill" => Added(here) = 0
      /\ SeqLen(pool, x.id) = x.from + Ran(here)
      /\ row[x.id].feed # NoFeed => PromptComplete(x.id)
      /\ IsSettled(here) => /\ Len(outcome[x.id]) \in Added(here) + 1 .. Len(x.toks)
                            /\ \A j \in 1 .. Len(outcome[x.id]) - 1 : outcome[x.id][j] = x.toks[j + 1]
                            /\ \A j \in 1 .. Added(here) : Text(x.id)[x.from + 1 + j] = outcome[x.id][j]
  BY <1>1 DEF Going
<1>4. /\ IsSettled(here) <=> x.kind = "verify"
      /\ Ran(here) = IF x.kind = "verify" THEN Len(outcome[x.id]) ELSE Len(x.toks)
  BY <1>1 DEF IsSettled, Ran
<1>5. x.kind = "prefill" => tok = 1
  BY <1>1, <1>3
<1>6. Added(here) + 1 = tok
  BY <1>1
<1>7. row[x.id] \in RowStates
  BY <1>2 DEF SpecInv, Types, RowTypes
<1>8. /\ Len(Text(x.id)) \in Nat /\ Text(x.id) \in Seq(Tokens)
      /\ Len(Prompt(x.id)) \in Nat /\ Len(Prompt(x.id)) <= Len(Text(x.id))
      /\ Len(Prompt(x.id)) >= 1 /\ Len(Prompt(x.id)) < MaxSeq
  BY <1>2, RowFacts DEF SpecInv
<1>9. /\ x.kind # "verify" => SeqLen(pool, x.id) = x.from + Len(x.toks)
      /\ x.kind = "verify" => SeqLen(pool, x.id) = x.from + Len(outcome[x.id])
  BY <1>3, <1>4
<1>10. FitsPrefill(x) \/ FitsDecoding(x, tok - 1)
  BY <1>1, <1>3
<1>11. x.kind = "verify" => /\ Len(outcome[x.id]) \in tok .. Len(x.toks)
                            /\ \A j \in 1 .. Len(outcome[x.id]) - 1 : outcome[x.id][j] = x.toks[j + 1]
                            /\ \A j \in 1 .. tok - 1 : Text(x.id)[x.from + 1 + j] = outcome[x.id][j]
  <2>1. PICK a : a = Added(here)
    OBVIOUS
  <2>2. a + 1 = tok /\ a = tok - 1
    BY <1>1, <1>6, <2>1
  <2>3. x.kind = "verify" => /\ Len(outcome[x.id]) \in a + 1 .. Len(x.toks)
                             /\ \A j \in 1 .. Len(outcome[x.id]) - 1 : outcome[x.id][j] = x.toks[j + 1]
                             /\ \A j \in 1 .. a : Text(x.id)[x.from + 1 + j] = outcome[x.id][j]
    BY <1>3, <1>4, <2>1
  <2> QED
    BY <2>2, <2>3, Zenon
<1> QED
  BY <1>2, <1>3, <1>5, <1>7, <1>8, <1>9, <1>10, <1>11

LEMMA AdvancePromptTurn ==
  ASSUME SpecInv, AdvancePrompt
  PROVE  \E here, id : TurnFor(here, id)
<1>1. PICK here : here = at
  OBVIOUS
<1>2. PICK x : x = plan[here]
  OBVIOUS
<1> DEFINE new == [row[x.id] EXCEPT !.prefilled = row[x.id].prefilled + Len(x.toks)]
<1>3. /\ phase = "advance" /\ here <= Len(plan) /\ x.kind = "prefill" /\ ~x.last
      /\ row' = [row EXCEPT ![x.id] = new]
      /\ at' = at + 1
      /\ UNCHANGED << ask, said, status, pool, device, journal, lens, running, phase, mixed, faults >>
      /\ UNCHANGED << committed, depth, left, drafts, plan, sampled, outcome, done, tok >>
  <2>1. row \in [SeqIds -> RowStates]
    BY DEF SpecInv, Types, RowTypes
  <2> QED
    BY <1>1, <1>2, <2>1 DEF AdvancePrompt, Turn, Item, RowStates
<1>4. here \in Items(plan) /\ here \in Nat
  <2>1. at \in Nat \ {0} /\ Len(plan) \in Nat
    BY LenProperties DEF SpecInv, Types, StepTypes
  <2> QED
    BY <1>1, <1>3, <2>1 DEF Items
<1> DEFINE id == x.id
           n == Len(x.toks)
           p == Len(Prompt(id))
           done0 == row[id].prefilled
<1>5. /\ id \in SeqIds /\ x.from \in Nat /\ n \in Nat /\ n >= 1 /\ p \in Nat /\ p < MaxSeq
      /\ FitsPrefill(x) \/ FitsDecoding(x, tok - 1)
      /\ tok = 1 /\ SeqLen(pool, id) = x.from + n
      /\ row[id].feed # NoFeed => PromptComplete(id)
      /\ row[id] \in RowStates
  BY <1>1, <1>2, <1>3, <1>4, ItemHere
<1>6. FitsPrefill(x)
  BY <1>3, <1>5 DEF FitsDecoding
<1>7. /\ ~PromptComplete(id) /\ Generated(id) = 0 /\ x.from = done0
      /\ x.from + n <= p /\ x.from + n # p
  BY <1>3, <1>6 DEF FitsPrefill
<1>8. done0 \in Nat
  BY <1>5 DEF RowStates
<1>9. /\ new \in RowStates /\ new.req = row[id].req /\ new.feed = row[id].feed
      /\ new.prefilled = done0 + n
  BY <1>5, <1>8 DEF RowStates
<1> HIDE DEF new
<1>10. /\ row' \in [SeqIds -> RowStates] /\ row'[id] = new
       /\ \A y \in SeqIds : y # id => row'[y] = row[y]
  BY <1>3, <1>5, <1>9, RowChange DEF SpecInv, Types, RowTypes
<1>11. Resting(id)'
  <2>1. Text(id)' = Text(id) /\ Prompt(id)' = Prompt(id)
    BY <1>3, <1>9, <1>10 DEF Text, Prompt
  <2>2. row'[id].prefilled = done0 + n /\ row'[id].feed = row[id].feed
    BY <1>9, <1>10
  <2>3. Len(Prompt(id))' = p /\ Generated(id)' = 0
    BY <1>7, <2>1 DEF Generated
  <2>4. row[id].feed = NoFeed
    BY <1>5, <1>7
  <2>5. SeqLen(pool', id) = x.from + n
    BY <1>3, <1>5
  <2>6. done0 + n < p /\ done0 + n < MaxSeq /\ done0 + n <= p /\ ~(done0 + n >= p)
    <3> HIDE DEF done0, n, p
    <3> QED
      BY <1>5, <1>7, <1>8, PoolSizes
  <2>7. ~PromptComplete(id)'
    BY <2>2, <2>3, <2>6 DEF PromptComplete
  <2>8. Fed(id)' = done0 + n
    BY <2>2, <2>7 DEF Fed
  <2> QED
    BY <1>7, <2>2, <2>3, <2>4, <2>5, <2>6, <2>7, <2>8 DEF Resting
<1>12. TurnFor(here, id)
  <2>1. /\ TextTypes' /\ TextsBegin'
    BY <1>3 DEF SpecInv, Types, TextTypes, TextsBegin
  <2>2. status[row[id].req] = "running"
    BY <1>1, <1>2, <1>3, <1>4, HereFacts
  <2>3. done' = IF status'[row[id].req] = "running" THEN done ELSE done \cup {id}
    BY <1>3, <2>2
  <2>4. OneMore(id)
    BY <1>3, SpeculationSizes DEF OneMore
  <2> QED
    BY <1>1, <1>2, <1>3, <1>4, <1>5, <1>9, <1>10, <1>11, <2>1, <2>2, <2>3, <2>4 DEF TurnFor
<1> QED
  BY <1>12

LEMMA AdvancePromptStep ==
  ASSUME SpecInv, AdvancePrompt
  PROVE  SpecInv'
BY AdvancePromptTurn, TurnKeeps

LEMMA AdvanceDoneStep ==
  ASSUME SpecInv, AdvanceDone
  PROVE  SpecInv'
<1>0. /\ phase = "advance" /\ at > Len(plan) /\ phase' = "retire" /\ at' = 1 /\ plan' = << >>
      /\ outcome' = NoDrafts /\ sampled' = [id \in SeqIds |-> Eog]
      /\ UNCHANGED << texts, pool, running, row, done >>
      /\ UNCHANGED << device, journal, lens, mixed, faults, committed, depth, left, drafts, tok >>
  BY DEF AdvanceDone
<1>1. /\ TextTypes' /\ TextsBegin' /\ PoolOk' /\ RunningOk' /\ ServesOne'
      /\ \A x : Resting(x) => Resting(x)'
  BY <1>0, QuietKeeps
<1>2. InHand /\ ~InHand' /\ tok = 1 /\ drafts = NoDrafts
  <2>1. InHand
    BY <1>0 DEF InHand
  <2> QED
    BY <1>0, <2>1 DEF InHand, SpecInv, PlanOk, Scratch
<1>3. \A i \in Items(plan) : IsOver(i)
  <2>1. at \in Nat /\ Len(plan) \in Nat
    BY LenProperties DEF SpecInv, Types, StepTypes
  <2> QED
    BY <1>0, <2>1 DEF IsOver, Items
<1>4. Types'
  <2>1. NoDrafts \in [SeqIds -> Seq(Tokens)] /\ << >> \in Seq(PlanItems)
    BY DEF NoDrafts
  <2>2. sampled' \in [SeqIds -> Tokens]
    BY <1>0, SpeculationSizes
  <2>3. DeviceTypes' /\ RowTypes'
    BY <1>0 DEF SpecInv, Types, DeviceTypes, RowTypes, device
  <2>4. StepTypes'
    BY <1>0, <2>1, <2>2 DEF SpecInv, Types, StepTypes, Phases
  <2> QED
    BY <1>1, <2>3, <2>4 DEF Types
<1>5. Scratch'
  BY <1>0, <1>2 DEF SpecInv, Scratch
<1>6. PlanOk' /\ DraftsOk' /\ FitsPool'
  BY <1>0, <1>2 DEF PlanOk, DraftsOk, FitsPool
<1>7. RestOk'
  BY <1>0, <1>1, <1>3 DEF SpecInv, RestOk
<1>8. JournalOk'
  <2>1. \A i \in Items(plan) : ~ToSettle(i)
    BY <1>0 DEF ToSettle, IsSettled, Verifies
  <2>2. "settle" \notin Range(faults) => journal.armed = {}
    BY <1>2, <2>1 DEF SpecInv, JournalOk
  <2>3. \A i : ~ToSettle(i)'
    BY <1>2 DEF ToSettle
  <2> QED
    BY <1>0, <1>2, <2>2, <2>3 DEF JournalOk
<1> QED
  BY <1>1, <1>4, <1>5, <1>6, <1>7, <1>8 DEF SpecInv

LEMMA AdvanceRowTurn ==
  ASSUME SpecInv, AdvanceRow
  PROVE  \E here, id : TurnFor(here, id)
<1>1. PICK here : here = at
  OBVIOUS
<1>2. PICK x : x = plan[here]
  OBVIOUS
<1>21. PICK t : t = sampled[x.id]
  OBVIOUS
<1> DEFINE id == x.id
           n == Len(x.toks)
           goes == status'[row[id].req] = "running"
           first == IF x.kind = "decode" THEN DecodedAt(id) ELSE x.from
           pre == IF x.kind = "prefill" THEN row[id].prefilled + n ELSE row[id].prefilled
           feed == IF ~goes THEN row[id].feed ELSE [ first |-> first, len |-> n ]
           new == [row[id] EXCEPT !.prefilled = pre, !.feed = feed]
<1>3. /\ phase = "advance" /\ here <= Len(plan) /\ x.kind # "verify" /\ x.last
      /\ AdvanceToken(id, t)
      /\ row' = [row EXCEPT ![id] = new]
      /\ at' = at + 1
      /\ UNCHANGED << ask, pool, device, journal, lens, running, phase, mixed, faults >>
      /\ UNCHANGED << committed, depth, left, drafts, plan, sampled, outcome, tok >>
  <2>1. row \in [SeqIds -> RowStates]
    BY DEF SpecInv, Types, RowTypes
  <2> QED
    BY <1>1, <1>2, <1>21, <2>1 DEF AdvanceRow, Turn, Item, RowStates, Wants, Continues
<1>4. here \in Items(plan) /\ here \in Nat
  <2>1. at \in Nat \ {0} /\ Len(plan) \in Nat
    BY LenProperties DEF SpecInv, Types, StepTypes
  <2> QED
    BY <1>1, <1>3, <2>1 DEF Items
<1> DEFINE p == Len(Prompt(id))
           m == Len(Text(id))
           l == SeqLen(pool, id)
           done0 == row[id].prefilled
<1>5. /\ id \in SeqIds /\ id \in pool.live /\ x.from \in Nat /\ n \in Nat /\ n >= 1
      /\ p \in Nat /\ p < MaxSeq /\ p >= 1 /\ m \in Nat /\ p <= m
      /\ FitsPrefill(x) \/ FitsDecoding(x, tok - 1)
      /\ x.kind = "prefill" => tok = 1
      /\ l = x.from + n /\ x.kind \in {"decode", "prefill"}
      /\ row[id].feed # NoFeed => PromptComplete(id)
      /\ row[id] \in RowStates /\ Text(id) \in Seq(Tokens)
  BY <1>1, <1>2, <1>3, <1>4, ItemHere
<1>6. /\ x.kind = "decode" => FitsDecoding(x, tok - 1)
      /\ x.kind = "prefill" => FitsPrefill(x)
  BY <1>5 DEF FitsPrefill, FitsDecoding
<1>7. tok = 1
  <2>1. tok \in Nat
    BY DEF SpecInv, Types, StepTypes
  <2>2. CASE x.kind = "decode"
    <3>1. tok - 1 = 0
      BY <1>6, <2>2 DEF FitsDecoding
    <3> QED
      BY <2>1, <3>1
  <2> QED
    BY <1>5, <2>2
<1>8. x.kind = "decode" =>
        done0 = p /\ m >= p + 1 /\ x.from + 1 = m /\ n = 1
  <2> SUFFICES ASSUME x.kind = "decode" PROVE done0 = p /\ m >= p + 1 /\ x.from + 1 = m /\ n = 1
    OBVIOUS
  <2>1. PICK a : a = tok - 1
    OBVIOUS
  <2>2. a = 0
    BY <1>7, <2>1
  <2>3. FitsDecoding(x, a)
    BY <1>6, <2>1
  <2>4. done0 = p /\ Generated(id) >= 1 + a /\ x.from + 1 + a = m /\ n = 1
    BY <2>3 DEF FitsDecoding
  <2>5. Generated(id) = m - p
    BY DEF Generated
  <2> HIDE DEF done0, p, m, n
  <2> QED
    BY <1>5, <2>2, <2>4, <2>5
<1>9. x.kind = "prefill" =>
        /\ done0 = x.from /\ x.from + n = p /\ m = p /\ row[id].feed = NoFeed
  <2> SUFFICES ASSUME x.kind = "prefill"
               PROVE  done0 = x.from /\ x.from + n = p /\ m = p /\ row[id].feed = NoFeed
    OBVIOUS
  <2>1. /\ ~PromptComplete(id) /\ Generated(id) = 0 /\ x.from = done0 /\ x.from + n = p
    BY <1>3, <1>6 DEF FitsPrefill
  <2>2. m - p = 0
    BY <2>1 DEF Generated
  <2>3. row[id].feed = NoFeed
    BY <1>5, <2>1
  <2> HIDE DEF done0, p, m, n
  <2> QED
    BY <1>5, <2>1, <2>2, <2>3
<1>10. done0 \in Nat /\ row[id].feed \in [first : Nat, len : Nat]
  BY <1>5 DEF RowStates
<1>11. DecodedAt(id) = m - 1
  <2>1. DecodedAt(id) = m + 1 - 2
    BY DEF DecodedAt
  <2> HIDE DEF m
  <2> QED
    BY <1>5, <2>1
<1>12. first \in Nat /\ pre \in Nat /\ pre = p
       /\ first + n = l /\ l + 1 = m + 1
  <2>1. CASE x.kind = "decode"
    <3>1. first = m - 1 /\ pre = done0
      BY <1>11, <2>1
    <3> HIDE DEF first, pre, m, p, n, l, done0
    <3> QED
      BY <1>5, <1>8, <1>10, <2>1, <3>1
  <2>2. CASE x.kind = "prefill"
    <3>1. first = x.from /\ pre = done0 + n
      BY <2>2
    <3> HIDE DEF first, pre, m, p, n, l, done0
    <3> QED
      BY <1>5, <1>9, <1>10, <2>2, <3>1
  <2> QED
    BY <1>5, <2>1, <2>2
<1> HIDE DEF first, pre
<1>13. feed \in [first : Nat, len : Nat]
  BY <1>5, <1>10, <1>12
<1> HIDE DEF feed
<1>14. /\ new \in RowStates /\ new.req = row[id].req /\ new.feed = feed /\ new.prefilled = pre
  BY <1>5, <1>12, <1>13 DEF RowStates
<1> HIDE DEF new
<1>15. /\ row' \in [SeqIds -> RowStates] /\ row'[id] = new
       /\ \A y \in SeqIds : y # id => row'[y] = row[y]
  BY <1>3, <1>5, <1>14, RowChange DEF SpecInv, Types, RowTypes
<1>16. t \in Tokens
  BY <1>5, <1>21 DEF SpecInv, Types, StepTypes
<1>17. /\ TextTypes' /\ TextsBegin'
       /\ status'[row[id].req] \in {"running", "stop", "length"}
       /\ OneMore(id)
       /\ \A q \in Requests : q # row[id].req => said'[q] = said[q] /\ status'[q] = status[q]
       /\ done' = IF status'[row[id].req] = "running" THEN done ELSE done \cup {id}
       /\ status'[row[id].req] = "running" =>
            /\ said'[row[id].req] = Append(said[row[id].req], t)
            /\ Headroom(pool, id) # 0
  <2>1. /\ phase = "advance" /\ here \in Items(plan) /\ here = at /\ t \in Tokens
        /\ x.id = plan[here].id /\ AdvanceToken(x.id, t) /\ ask' = ask /\ pool' = pool
    BY <1>1, <1>2, <1>3, <1>4, <1>16
  <2> QED
    BY ONLY SpecInv, <2>1, TokenFacts
<1>18. ASSUME goes PROVE Resting(id)'
  <2>1. PICK u : u = Append(Text(id), t)
    OBVIOUS
  <2>2. Text(id)' = u /\ Prompt(id)' = Prompt(id)
    BY <1>3, <1>14, <1>15, <1>17, <1>18, <2>1 DEF Text, Prompt
  <2>3. Len(u) = m + 1
    BY <1>5, <1>16, <2>1, AppendedFacts
  <2>4. row'[id].prefilled = p /\ row'[id].feed = [ first |-> first, len |-> n ]
    BY <1>12, <1>14, <1>15, <1>18 DEF feed
  <2>5. Len(Prompt(id))' = p /\ Len(Text(id))' = m + 1
    BY <2>2, <2>3
  <2>6. PromptComplete(id)'
    <3>1. PICK k : k = p
      OBVIOUS
    <3>2. row'[id].prefilled = k /\ k >= k
      BY <1>5, <2>4, <3>1
    <3>3. Len(ask'[row'[id].req].prompt) = k
      BY <2>5, <3>1 DEF Prompt
    <3> QED
      BY <3>2, <3>3, Zenon DEF PromptComplete, Prompt
  <2>7. Fed(id)' = m + 1 - 1
    <3>1. PICK k, y : k = m + 1 /\ y = id
      OBVIOUS
    <3>2. Len(Text(y))' = k /\ PromptComplete(y)'
      BY <2>5, <2>6, <3>1
    <3>3. Fed(y)' = k - 1
      BY ONLY <3>2 DEF Fed
    <3> QED
      BY ONLY <3>1, <3>3
  <2>8. Generated(id)' = m + 1 - p
    BY <2>5 DEF Generated
  <2>9. SeqLen(pool', id) = l /\ l <= MaxSeq /\ l # MaxSeq
    <3>1. l <= MaxSeq /\ l \in Nat
      BY <1>5, PoolLens DEF SpecInv
    <3>2. MaxSeq - l # 0
      BY <1>17, <1>18 DEF Headroom
    <3>3. SeqLen(pool', id) = l
      BY <1>3
    <3> HIDE DEF l
    <3> QED
      BY <3>1, <3>2, <3>3, PoolSizes
  <2>10. /\ l = m + 1 - 1 /\ m + 1 - 1 < MaxSeq /\ p <= p /\ m + 1 - p >= 1 /\ first + n = l
         /\ l \in Nat
    <3> HIDE DEF m, p, l, n
    <3> QED
      BY <1>5, <1>12, <2>9, PoolSizes
  <2>11. row'[id].feed.first + row'[id].feed.len = SeqLen(pool', id)
    BY <2>4, <2>9, <2>10
  <2> HIDE DEF m, p, l, n
  <2> QED
    BY <2>4, <2>5, <2>6, <2>7, <2>8, <2>9, <2>10, <2>11 DEF Resting
<1>19. id \in done' \/ Resting(id)'
  BY <1>17, <1>18
<1>20. TurnFor(here, id)
  BY <1>1, <1>2, <1>3, <1>4, <1>7, <1>14, <1>15, <1>17, <1>19 DEF TurnFor
<1> QED
  BY <1>20

LEMMA AdvanceRowStep ==
  ASSUME SpecInv, AdvanceRow
  PROVE  SpecInv'
BY AdvanceRowTurn, TurnKeeps

LEMMA AdvanceVerifiedTurn ==
  ASSUME SpecInv, AdvanceVerified
  PROVE  \E here, id : TurnFor(here, id)
<1>1. PICK here : here = at
  OBVIOUS
<1>2. PICK x : x = plan[here]
  OBVIOUS
<1>20. PICK now : now = tok
  OBVIOUS
<1>21. PICK t : t = outcome[x.id][tok]
  OBVIOUS
<1> DEFINE id == x.id
           tokens == outcome[id]
           goes == status'[row[id].req] = "running"
           feed == IF goes THEN [ first |-> x.from, len |-> Len(tokens) ] ELSE row[id].feed
           new == [row[id] EXCEPT !.feed = feed]
<1>3. /\ phase = "advance" /\ here <= Len(plan) /\ x.kind = "verify"
      /\ AdvanceToken(id, t)
      /\ \/ goes /\ now < Len(tokens) /\ tok' = now + 1 /\ at' = at /\ row' = row
         \/ /\ ~(goes /\ now < Len(tokens))
            /\ tok' = 1 /\ at' = at + 1 /\ row' = [row EXCEPT ![id] = new]
      /\ UNCHANGED << ask, pool, device, journal, lens, running, phase, mixed, faults >>
      /\ UNCHANGED << committed, depth, left, drafts, plan, sampled, outcome >>
  <2>1. row \in [SeqIds -> RowStates]
    BY DEF SpecInv, Types, RowTypes
  <2> QED
    BY <1>1, <1>2, <1>20, <1>21, <2>1 DEF AdvanceVerified, Turn, Item, RowStates, Continues
<1>4. here \in Items(plan) /\ here \in Nat
  <2>1. at \in Nat \ {0} /\ Len(plan) \in Nat
    BY LenProperties DEF SpecInv, Types, StepTypes
  <2> QED
    BY <1>1, <1>3, <2>1 DEF Items
<1> DEFINE p == Len(Prompt(id))
           m == Len(Text(id))
           l == SeqLen(pool, id)
           o == Len(tokens)
<1>5. /\ id \in SeqIds /\ id \in pool.live /\ x.from \in Nat /\ Len(x.toks) \in Nat
      /\ p \in Nat /\ p >= 1 /\ m \in Nat /\ p <= m
      /\ FitsPrefill(x) \/ FitsDecoding(x, now - 1)
      /\ l = x.from + o
      /\ row[id].feed # NoFeed => PromptComplete(id)
      /\ row[id] \in RowStates /\ Text(id) \in Seq(Tokens)
      /\ o \in now .. Len(x.toks)
      /\ \A j \in 1 .. o - 1 : tokens[j] = x.toks[j + 1]
      /\ \A j \in 1 .. now - 1 : Text(id)[x.from + 1 + j] = tokens[j]
      /\ Len(x.toks) >= 1 /\ x.from + Len(x.toks) <= MaxSeq
  BY <1>1, <1>2, <1>3, <1>4, <1>20, ItemHere
<1>6. /\ now \in Nat /\ now >= 1 /\ o \in Nat /\ now <= o
  <2>1. now \in Nat \ {0}
    BY <1>20 DEF SpecInv, Types, StepTypes
  <2>2. o \in Nat
    BY <1>5, LenProperties DEF SpecInv, Types, StepTypes
  <2> HIDE DEF o
  <2> QED
    BY <1>5, <2>1, <2>2
<1>7. tokens \in Seq(Tokens) /\ t \in Tokens
  <2>1. tokens \in Seq(Tokens)
    BY <1>5 DEF SpecInv, Types, StepTypes
  <2>2. now \in 1 .. Len(tokens)
    BY <1>6
  <2> QED
    BY <1>20, <1>21, <2>1, <2>2, ElementOfSeq
<1>8. FitsDecoding(x, now - 1)
  BY <1>3, <1>5 DEF FitsPrefill
<1>9. /\ row[id].prefilled = p /\ Generated(id) >= now /\ x.from + now = m /\ x.last
      /\ x.toks[1] = Text(id)[x.from + 1] /\ Generated(id) = m - p
  <2>1. PICK a : a = now - 1
    OBVIOUS
  <2>2. FitsDecoding(x, a)
    BY <1>8, <2>1
  <2>3. /\ row[id].prefilled = p /\ Generated(id) >= 1 + a /\ x.from + 1 + a = m /\ x.last
        /\ x.toks[1] = Text(id)[x.from + 1]
    BY <2>2 DEF FitsDecoding
  <2>4. 1 + a = now /\ x.from + 1 + a = x.from + now
    BY <1>5, <1>6, <2>1
  <2>5. Generated(id) = m - p
    BY DEF Generated
  <2> QED
    BY <2>3, <2>4, <2>5
<1>10. /\ TextTypes' /\ TextsBegin'
       /\ status'[row[id].req] \in {"running", "stop", "length"}
       /\ OneMore(id)
       /\ \A q \in Requests : q # row[id].req => said'[q] = said[q] /\ status'[q] = status[q]
       /\ done' = IF status'[row[id].req] = "running" THEN done ELSE done \cup {id}
       /\ status'[row[id].req] = "running" =>
            /\ said'[row[id].req] = Append(said[row[id].req], t)
            /\ Headroom(pool, id) # 0
  <2>1. /\ phase = "advance" /\ here \in Items(plan) /\ here = at /\ t \in Tokens
        /\ x.id = plan[here].id /\ AdvanceToken(x.id, t) /\ ask' = ask /\ pool' = pool
    BY <1>1, <1>2, <1>3, <1>4, <1>7
  <2> QED
    BY ONLY SpecInv, <2>1, TokenFacts
<1>11. PICK u : u = Append(Text(id), t)
  OBVIOUS
<1>12. Len(u) = m + 1 /\ u[m + 1] = t /\ \A j \in 1 .. m : u[j] = Text(id)[j]
  BY <1>5, <1>7, <1>11, AppendedFacts
<1>13. ASSUME goes, now < o, tok' = now + 1, at' = at, row' = row
       PROVE  Going(here)'
  <2>1. Text(id)' = u /\ Prompt(id)' = Prompt(id)
    BY <1>3, <1>10, <1>11, <1>13 DEF Text, Prompt
  <2>2. Len(Text(id))' = m + 1 /\ Len(Prompt(id))' = p
    BY <1>12, <2>1
  <2>3. Added(here)' = now
    <3>1. PICK k : k = tok'
      OBVIOUS
    <3>2. Added(here)' = k - 1
      BY <1>1, <1>3, <1>13, <3>1 DEF Added
    <3>3. k = now + 1
      BY <1>13, <3>1
    <3> QED
      BY <1>6, <3>2, <3>3
  <2>4. m + 1 - p >= 1 + now /\ x.from + 1 + now = m + 1 /\ x.from + 1 \in 1 .. m
    <3>1. m - p >= now /\ x.from + now = m
      BY <1>9
    <3> HIDE DEF m, p, o
    <3>2. x.from \in Nat /\ m \in Nat /\ p \in Nat /\ now \in Nat /\ now >= 1
      BY <1>5, <1>6
    <3> QED
      BY ONLY <3>1, <3>2
  <2>5. FitsDecoding(x, now)'
    <3>1. row'[id].prefilled = Len(Prompt(id))'
      BY <1>9, <1>13, <2>2
    <3>2. Generated(id)' = m + 1 - p
      BY <2>2 DEF Generated
    <3>3. x.toks[1] = Text(id)'[x.from + 1]
      BY <1>9, <1>12, <2>1, <2>4
    <3> QED
      BY <1>3, <1>9, <2>2, <2>4, <3>1, <3>2, <3>3 DEF FitsDecoding
  <2>6. PromptComplete(id)' = PromptComplete(id) /\ row'[id].feed = row[id].feed
    BY <1>13, <2>1 DEF PromptComplete
  <2>7. IsSettled(here)' /\ Ran(here)' = o
    <3>1. plan' = plan /\ phase' = "advance" /\ outcome' = outcome
      BY <1>3
    <3>2. IsSettled(here)'
      BY <1>2, <1>3, <3>1 DEF IsSettled
    <3> QED
      BY <1>2, <3>1, <3>2 DEF Ran
  <2>8. o \in now + 1 .. Len(x.toks)
    <3> HIDE DEF o
    <3> QED
      BY <1>5, <1>6, <1>13
  <2>9. \A j \in 1 .. now : Text(id)'[x.from + 1 + j] = tokens[j]
    <3> SUFFICES ASSUME NEW j \in 1 .. now PROVE u[x.from + 1 + j] = tokens[j]
      BY <2>1
    <3>1. CASE j = now
      <4>1. x.from + 1 + j = m + 1
        BY <2>4, <3>1
      <4> QED
        BY <1>12, <1>20, <1>21, <3>1, <4>1
    <3>2. CASE j # now
      <4>1. j \in 1 .. now - 1 /\ x.from + 1 + j \in 1 .. m
        <5>1. x.from + now = m
          BY <1>9
        <5> HIDE DEF m
        <5> QED
          BY <1>5, <1>6, <3>2, <5>1
      <4>2. Text(id)[x.from + 1 + j] = tokens[j]
        BY <1>5, <4>1
      <4> QED
        BY <1>12, <4>1, <4>2
    <3> QED
      BY <3>1, <3>2
  <2>10. id \in pool'.live /\ id \notin done' /\ SeqLen(pool', id) = x.from + o
    <3>1. id \notin done
      BY <1>1, <1>2, <1>3, <1>4, HereFacts
    <3> QED
      BY <1>3, <1>5, <1>10, <1>13, <3>1
  <2>11. plan'[here] = x /\ outcome' = outcome
    BY <1>2, <1>3
  <2> QED
    BY <1>3, <1>5, <2>3, <2>5, <2>6, <2>7, <2>8, <2>9, <2>10, <2>11 DEF Going
<1>14. /\ feed \in [first : Nat, len : Nat]
       /\ new \in RowStates /\ new.req = row[id].req /\ new.feed = feed
       /\ new.prefilled = row[id].prefilled
  <2>1. row[id].feed \in [first : Nat, len : Nat]
    BY <1>5 DEF RowStates
  <2>2. feed \in [first : Nat, len : Nat]
    BY <1>5, <1>6, <2>1
  <2> HIDE DEF feed
  <2> QED
    BY <1>5, <2>2 DEF RowStates
<1> HIDE DEF new
<1>15. ASSUME row' = [row EXCEPT ![id] = new]
       PROVE  /\ row' \in [SeqIds -> RowStates] /\ row'[id] = new
              /\ \A y \in SeqIds : y # id => row'[y] = row[y]
  BY <1>5, <1>14, <1>15, RowChange DEF SpecInv, Types, RowTypes
<1>16. ASSUME goes, ~(now < o), row' = [row EXCEPT ![id] = new]
       PROVE  Resting(id)'
  <2>0. row'[id] = new
    BY <1>15, <1>16
  <2>1. Text(id)' = u /\ Prompt(id)' = Prompt(id)
    BY <1>3, <1>10, <1>11, <1>14, <1>16, <2>0 DEF Text, Prompt
  <2>2. Len(Text(id))' = m + 1 /\ Len(Prompt(id))' = p
    BY <1>12, <2>1
  <2>3. row'[id].prefilled = p /\ row'[id].feed = [ first |-> x.from, len |-> o ]
    BY <1>9, <1>14, <1>16, <2>0
  <2>4. /\ SeqLen(pool', id) = l /\ l <= MaxSeq /\ l # MaxSeq /\ l \in Nat
    <3>1. l <= MaxSeq /\ l \in Nat
      BY <1>5, PoolLens DEF SpecInv
    <3>2. MaxSeq - l # 0
      BY <1>10, <1>16 DEF Headroom
    <3>3. SeqLen(pool', id) = l
      BY <1>3
    <3> HIDE DEF l
    <3> QED
      BY <3>1, <3>2, <3>3, PoolSizes
  <2>5. /\ l = m + 1 - 1 /\ m + 1 - 1 < MaxSeq /\ p <= p /\ m + 1 - p >= 1 /\ x.from + o = l
    <3>1. x.from + now = m /\ l = x.from + o /\ o <= now
      BY <1>5, <1>6, <1>9, <1>16
    <3> HIDE DEF m, p, l, o
    <3> QED
      BY <1>5, <1>6, <2>4, <3>1, PoolSizes
  <2>6. PromptComplete(id)'
    <3>1. PICK k : k = p
      OBVIOUS
    <3>2. row'[id].prefilled = k /\ k >= k
      BY <1>5, <2>3, <3>1
    <3>3. Len(ask'[row'[id].req].prompt) = k
      BY <2>2, <3>1 DEF Prompt
    <3> QED
      BY <3>2, <3>3, Zenon DEF PromptComplete, Prompt
  <2>7. Fed(id)' = m + 1 - 1
    <3>1. PICK k, y : k = m + 1 /\ y = id
      OBVIOUS
    <3>2. Len(Text(y))' = k /\ PromptComplete(y)'
      BY <2>2, <2>6, <3>1
    <3>3. Fed(y)' = k - 1
      BY ONLY <3>2 DEF Fed
    <3> QED
      BY ONLY <3>1, <3>3
  <2>8. Generated(id)' = m + 1 - p
    BY <2>2 DEF Generated
  <2>9. row'[id].feed.first + row'[id].feed.len = SeqLen(pool', id)
    BY <2>3, <2>4, <2>5
  <2> HIDE DEF m, p, l, o
  <2> QED
    BY <2>2, <2>3, <2>4, <2>5, <2>6, <2>7, <2>8, <2>9 DEF Resting
<1>17. TurnFor(here, id)
  <2>1. CASE goes /\ now < o /\ tok' = now + 1 /\ at' = at /\ row' = row
    <3>1. tok' \in Nat \ {0}
      BY <1>6, <2>1
    <3>2. row' \in [SeqIds -> RowStates]
      BY <2>1 DEF SpecInv, Types, RowTypes
    <3> QED
      BY <1>1, <1>2, <1>3, <1>4, <1>10, <1>13, <2>1, <3>1, <3>2 DEF TurnFor
  <2>2. CASE ~(goes /\ now < o) /\ tok' = 1 /\ at' = at + 1 /\ row' = [row EXCEPT ![id] = new]
    <3>1. id \in done' \/ Resting(id)'
      BY <1>10, <1>16, <2>2
    <3>2. /\ row' \in [SeqIds -> RowStates] /\ row'[id].req = row[id].req
          /\ \A y \in SeqIds : y # id => row'[y] = row[y]
      BY <1>14, <1>15, <2>2
    <3>3. at' = at + 1 /\ tok' = 1
      BY <2>2
    <3> HIDE DEF o, feed, tokens, goes
    <3> QED
      BY <1>1, <1>2, <1>3, <1>4, <1>10, <3>1, <3>2, <3>3 DEF TurnFor
  <2> QED
    BY <1>3, <2>1, <2>2 DEF new
<1> QED
  BY <1>17

LEMMA AdvanceVerifiedStep ==
  ASSUME SpecInv, AdvanceVerified
  PROVE  SpecInv'
BY AdvanceVerifiedTurn, TurnKeeps

-----------------------------------------------------------------------------
(* A row leaves: its slots go back, and the other rows stay as they are.    *)
GoneRow(id) ==
  /\ phase \in {"retire", "fail"} /\ phase' = phase /\ id \in pool.live
  /\ pool' = Free(pool, id) /\ row' = [row EXCEPT ![id] = NoRow]
  /\ UNCHANGED << ask, said, device, journal, lens, mixed, faults >>
  /\ UNCHANGED << committed, depth, left, drafts, plan, at, tok, sampled, outcome >>
  /\ running' \in Seq(SeqIds)
  /\ \A i, j \in 1 .. Len(running') : running'[i] = running'[j] => i = j
  /\ \A x \in SeqIds : (\E i \in 1 .. Len(running') : running'[i] = x) <=>
                         (x # id /\ \E i \in 1 .. Len(running) : running[i] = x)
  /\ done' = done \ {id}
  /\ status' \in [Requests -> {"waiting", "running", "stop", "length", "failed"}]
  /\ \A r \in Requests : r # row[id].req => status'[r] = status[r]
  /\ status'[row[id].req] # "waiting"

LEMMA GoneKeeps ==
  ASSUME SpecInv, NEW id, GoneRow(id)
  PROVE  SpecInv'
<1>0. /\ phase \in {"retire", "fail"} /\ phase' = phase /\ id \in pool.live
      /\ pool' = Free(pool, id) /\ row' = [row EXCEPT ![id] = NoRow]
      /\ UNCHANGED << ask, said, device, journal, lens, mixed, faults >>
      /\ UNCHANGED << committed, depth, left, drafts, plan, at, tok, sampled, outcome >>
      /\ running' \in Seq(SeqIds) /\ done' = done \ {id}
      /\ status' \in [Requests -> {"waiting", "running", "stop", "length", "failed"}]
  BY DEF GoneRow
<1>1. id \in SeqIds /\ pool.live \subseteq SeqIds
  BY <1>0, PoolLens DEF SpecInv
<1>2. NoRow \in RowStates
  <2>1. NoFeed \in [first : Nat, len : Nat]
    BY DEF NoFeed
  <2> QED
    BY <2>1, SpeculationSizes DEF NoRow, RowStates
<1>3. /\ row' \in [SeqIds -> RowStates]
      /\ \A x \in SeqIds : x # id => row'[x] = row[x]
  BY <1>0, <1>1, <1>2, RowChange DEF SpecInv, Types, RowTypes
<1>4. /\ WholePool(pool') /\ pool'.live = pool.live \ {id}
      /\ \A x \in SeqIds : x # id => pool'.slots[x] = pool.slots[x]
  <2>1. WholePool(pool)
    BY DEF SpecInv, PoolOk
  <2>2. \A x \in SeqIds \ {id} : Free(pool, id).slots[x] = pool.slots[x]
    BY <1>0, <1>1, <2>1, WholeFree
  <2> QED
    BY <1>0, <1>1, <2>1, <2>2, WholeFree
<1>5. PoolOk'
  <2>1. SeqLen(pool', id) = 0
    BY <1>1, <1>4 DEF WholePool
  <2>2. \A x \in SeqIds : x # id => SeqLen(pool', x) = SeqLen(pool, x)
    BY <1>4 DEF SeqLen
  <2> QED
    BY <1>4, <2>1, <2>2, PoolSizes DEF SpecInv, PoolOk
<1>6. RunningOk'
  <2>1. \A i, j \in 1 .. Len(running') : running'[i] = running'[j] => i = j
    BY DEF GoneRow
  <2>2. \A x \in SeqIds : x \in pool'.live <=> \E i \in 1 .. Len(running') : running'[i] = x
    BY <1>4 DEF GoneRow, SpecInv, RunningOk
  <2> QED
    BY <2>1, <2>2 DEF RunningOk
<1>7. \A x \in pool'.live : /\ x \in pool.live /\ x # id /\ row'[x] = row[x]
                            /\ row[x].req \in Requests /\ row[x].req # row[id].req
                            /\ status'[row[x].req] = status[row[x].req]
                            /\ (x \in done' <=> x \in done)
  <2> SUFFICES ASSUME NEW x \in pool'.live
               PROVE  /\ x \in pool.live /\ x # id /\ row'[x] = row[x]
                      /\ row[x].req \in Requests /\ row[x].req # row[id].req
                      /\ status'[row[x].req] = status[row[x].req]
                      /\ (x \in done' <=> x \in done)
    OBVIOUS
  <2>1. x \in pool.live /\ x # id /\ x \in SeqIds
    BY <1>1, <1>4
  <2>2. row'[x] = row[x] /\ (x \in done' <=> x \in done)
    BY <1>0, <1>3, <2>1
  <2>3. row[x].req \in Requests /\ row[x].req # row[id].req
    BY <1>0, <2>1 DEF SpecInv, ServesOne
  <2> QED
    BY <2>1, <2>2, <2>3 DEF GoneRow
<1>8. ServesOne'
  <2>1. \A x \in pool.live : status[row[x].req] \in IF x \in done THEN {"stop", "length"} ELSE {"running"}
    BY DEF SpecInv, ServesOne
  <2>2. \A a, b \in pool.live : row[a].req = row[b].req => a = b
    BY DEF SpecInv, ServesOne
  <2>3. \A x \in pool'.live : status'[row'[x].req] \in IF x \in done' THEN {"stop", "length"} ELSE {"running"}
    BY <1>7, <2>1
  <2>4. \A a, b \in pool'.live : row'[a].req = row'[b].req => a = b
    BY <1>7, <2>2
  <2> QED
    BY <1>7, <2>3, <2>4 DEF ServesOne
<1>9. Types'
  BY <1>0, <1>3 DEF SpecInv, Types, TextTypes, DeviceTypes, RowTypes, StepTypes, Phases, device
<1>10. TextsBegin'
  <2>1. \A r \in Requests : status'[r] = "waiting" => status[r] = "waiting"
    BY DEF GoneRow
  <2> QED
    BY <1>0, <2>1 DEF SpecInv, TextsBegin
<1>11. Scratch'
  BY <1>0, <1>4 DEF SpecInv, Scratch
<1>12. ~InHand /\ ~InHand'
  BY <1>0 DEF InHand
<1>13. PlanOk' /\ FitsPool' /\ DraftsOk'
  BY <1>0, <1>12 DEF PlanOk, FitsPool, DraftsOk
<1>14. RestOk'
  <2> SUFFICES ASSUME phase = "retire", NEW x \in pool'.live PROVE x \in done' \/ Resting(x)'
    BY <1>0 DEF RestOk
  <2>1. x \in pool.live /\ x # id /\ row'[x] = row[x] /\ (x \in done' <=> x \in done) /\ x \in SeqIds
    BY <1>1, <1>7
  <2>2. x \in done \/ Resting(x)
    BY <1>12, <2>1 DEF SpecInv, RestOk
  <2>3. Untouched(x)
    BY <1>0, <1>4, <2>1 DEF Untouched, SameRow, SeqLen
  <2> QED
    BY <2>1, <2>2, <2>3, RestingKept
<1>15. JournalOk'
  BY <1>0, <1>12 DEF SpecInv, JournalOk, ToSettle
<1> QED
  BY <1>5, <1>6, <1>8, <1>9, <1>10, <1>11, <1>13, <1>14, <1>15 DEF SpecInv

-----------------------------------------------------------------------------
(* Taking a row out of the list. *)
LEMMA SwapRemoveFacts ==
  ASSUME NEW S, NEW s \in Seq(S), NEW i \in 1 .. Len(s)
  PROVE  /\ SwapRemove(s, i) \in Seq(S)
         /\ Len(SwapRemove(s, i)) = Len(s) - 1
         /\ \A j \in 1 .. Len(s) - 1 : SwapRemove(s, i)[j] = IF j = i THEN s[Len(s)] ELSE s[j]
<1> DEFINE n == Len(s) - 1
           r == [ j \in 1 .. n |-> IF j = i THEN s[Len(s)] ELSE s[j] ]
<1>1. n \in Nat /\ n + 1 = Len(s)
  BY LenProperties
<1>2. ASSUME NEW j \in 1 .. n PROVE r[j] \in S
  <2>1. j \in 1 .. Len(s) /\ Len(s) \in 1 .. Len(s)
    BY <1>1
  <2>2. s[j] \in S /\ s[Len(s)] \in S
    BY <2>1, ElementOfSeq
  <2> QED
    BY <2>2
<1>3. r = SwapRemove(s, i)
  BY DEF SwapRemove
<1>4. \A j \in 1 .. n : r[j] = IF j = i THEN s[Len(s)] ELSE s[j]
  OBVIOUS
<1>5. r \in [1 .. n -> S]
  BY <1>2
<1> HIDE DEF r
<1>6. r \in Seq(S) /\ Len(r) = n
  <2> HIDE DEF n
  <2> QED
    BY <1>1, <1>5, IsASeq
<1> QED
  BY <1>3, <1>4, <1>6

(* A set of places in the list has a last one. *)
LEMMA LargestRow ==
  ASSUME NEW n \in Nat, NEW F \in SUBSET (1 .. n), F # {}
  PROVE  Max(F) \in F
<1> DEFINE I == { k \in 0 .. n : (\E j \in F : j <= k) =>
                                   \E x \in F : \A j \in F : j <= k => j <= x }
<1>1. 0 \in I
  OBVIOUS
<1>2. ASSUME NEW k \in 1 .. n, k - 1 \in I PROVE k \in I
  <2>1. CASE k \in F
    BY <2>1
  <2>2. CASE k \notin F
    <3>1. \A j \in F : j <= k <=> j <= k - 1
      BY <2>2
    <3>2. (\E j \in F : j <= k - 1) => \E x \in F : \A j \in F : j <= k - 1 => j <= x
      BY <1>2
    <3> QED
      BY <3>1, <3>2
  <2> QED
    BY <2>1, <2>2
<1> HIDE DEF I
<1>3. n \in I
  BY <1>1, <1>2, LoopInduction
<1>4. PICK x \in F : \A j \in F : x >= j
  <2>1. (\E j \in F : j <= n) => \E x \in F : \A j \in F : j <= n => j <= x
    BY <1>3 DEF I
  <2>2. \A j \in F : j \in 1 .. n /\ j <= n
    OBVIOUS
  <2> QED
    BY <2>1, <2>2
<1> QED
  BY <1>4 DEF Max

LEMMA RetireStep ==
  ASSUME SpecInv, Retire
  PROVE  SpecInv'
<1> DEFINE F == { j \in 1 .. Len(running) : running[j] \in done }
           n == Len(running)
<1>1. running \in Seq(SeqIds) /\ n \in Nat
  BY LenProperties DEF SpecInv, Types, RowTypes
<1>2. /\ \A i, j \in 1 .. n : running[i] = running[j] => i = j
      /\ \A x \in SeqIds : x \in pool.live <=> \E i \in 1 .. n : running[i] = x
  BY DEF SpecInv, RunningOk
<1>3. F # {}
  <2>1. done # {} /\ done \subseteq pool.live /\ pool.live \subseteq SeqIds
    BY PoolLens DEF Retire, SpecInv, Scratch
  <2>2. PICK x \in done : x \in SeqIds /\ x \in pool.live
    BY <2>1
  <2>3. PICK i \in 1 .. n : running[i] = x
    BY <1>2, <2>2
  <2> QED
    BY <2>3
<1>4. PICK i : i = Max(F)
  OBVIOUS
<1>5. i \in 1 .. n /\ running[i] \in done
  <2>1. F \in SUBSET (1 .. n)
    OBVIOUS
  <2> HIDE DEF F, n
  <2>2. i \in F
    BY <1>1, <1>3, <1>4, <2>1, LargestRow
  <2> QED
    BY <2>2 DEF F, n
<1>6. PICK id : id = running[i]
  OBVIOUS
<1>7. /\ phase = "retire" /\ phase' = "retire" /\ status' = status
      /\ pool' = Free(pool, id) /\ row' = [row EXCEPT ![id] = NoRow]
      /\ UNCHANGED << ask, said, device, journal, lens, mixed, faults >>
      /\ UNCHANGED << committed, depth, left, drafts, plan, at, tok, sampled, outcome >>
      /\ running' = SwapRemove(running, i) /\ done' = done \ {id}
  BY <1>4, <1>6 DEF Retire, Gone
<1> HIDE DEF F
<1>8. id \in SeqIds /\ id \in pool.live
  <2>1. done \subseteq pool.live /\ pool.live \subseteq SeqIds
    BY PoolLens DEF SpecInv, Scratch
  <2> QED
    BY <1>5, <1>6, <2>1
<1>9. /\ running' \in Seq(SeqIds) /\ Len(running') = n - 1
      /\ \A j \in 1 .. n - 1 : running'[j] = IF j = i THEN running[n] ELSE running[j]
  BY <1>1, <1>5, <1>7, SwapRemoveFacts
<1> HIDE DEF n
<1>10. \A j \in 1 .. n - 1 : j \in 1 .. n /\ n \in 1 .. n /\ j # n
  BY <1>1
<1>11. \A j, k \in 1 .. n - 1 : running'[j] = running'[k] => j = k
  <2> SUFFICES ASSUME NEW j \in 1 .. n - 1, NEW k \in 1 .. n - 1, running'[j] = running'[k] PROVE j = k
    OBVIOUS
  <2>1. CASE j = i /\ k # i
    BY <1>2, <1>9, <1>10, <2>1
  <2>2. CASE j # i /\ k = i
    BY <1>2, <1>9, <1>10, <2>2
  <2>3. CASE j # i /\ k # i
    BY <1>2, <1>9, <1>10, <2>3
  <2> QED
    BY <2>1, <2>2, <2>3
<1>12. ASSUME NEW x \in SeqIds
       PROVE  (\E j \in 1 .. n - 1 : running'[j] = x) <=> (x # id /\ \E j \in 1 .. n : running[j] = x)
  <2>1. ASSUME NEW j \in 1 .. n - 1 PROVE running'[j] # id /\ \E k \in 1 .. n : running[k] = running'[j]
    <3>1. CASE j = i
      <4>1. running'[j] = running[n] /\ n \in 1 .. n /\ n # i
        BY <1>9, <1>10, <3>1
      <4> QED
        BY <1>2, <1>5, <1>6, <4>1
    <3>2. CASE j # i
      <4>1. running'[j] = running[j] /\ j \in 1 .. n
        BY <1>9, <1>10, <3>2
      <4> QED
        BY <1>2, <1>5, <1>6, <3>2, <4>1
    <3> QED
      BY <3>1, <3>2
  <2>2. ASSUME NEW k \in 1 .. n, running[k] # id PROVE \E j \in 1 .. n - 1 : running'[j] = running[k]
    <3>1. k # i
      BY <1>6, <2>2
    <3>2. CASE k = n
      <4>1. i \in 1 .. n - 1
        BY <1>1, <1>5, <3>1, <3>2
      <4>2. running'[i] = running[k]
        BY <1>9, <3>2, <4>1
      <4> QED
        BY <4>1, <4>2
    <3>3. CASE k # n
      <4>1. k \in 1 .. n - 1
        BY <1>1, <3>3
      <4>2. running'[k] = running[k]
        BY <1>9, <3>1, <4>1
      <4> QED
        BY <4>1, <4>2
    <3> QED
      BY <3>2, <3>3
  <2> QED
    BY <2>1, <2>2
<1>13. /\ status' \in [Requests -> {"waiting", "running", "stop", "length", "failed"}]
       /\ status'[row[id].req] # "waiting"
  <2>1. status[row[id].req] \in {"stop", "length", "running"}
    BY <1>8 DEF SpecInv, ServesOne
  <2> QED
    BY <1>7, <2>1 DEF SpecInv, Types, TextTypes
<1>14. GoneRow(id)
  BY <1>7, <1>8, <1>9, <1>11, <1>12, <1>13 DEF GoneRow, n
<1> QED
  BY <1>14, GoneKeeps

LEMMA FailRowStep ==
  ASSUME SpecInv, FailRow
  PROVE  SpecInv'
<1> DEFINE n == Len(running)
<1>1. running \in Seq(SeqIds) /\ n \in Nat
  BY LenProperties DEF SpecInv, Types, RowTypes
<1>2. /\ \A i, j \in 1 .. n : running[i] = running[j] => i = j
      /\ \A x \in SeqIds : x \in pool.live <=> \E i \in 1 .. n : running[i] = x
  BY DEF SpecInv, RunningOk
<1>3. PICK id : id = running[1]
  OBVIOUS
<1>4. /\ phase = "fail" /\ phase' = "fail" /\ running # << >>
      /\ status' = [status EXCEPT ![row[id].req] = "failed"]
      /\ pool' = Free(pool, id) /\ row' = [row EXCEPT ![id] = NoRow]
      /\ UNCHANGED << ask, said, device, journal, lens, mixed, faults >>
      /\ UNCHANGED << committed, depth, left, drafts, plan, at, tok, sampled, outcome >>
      /\ running' = Tail(running) /\ done' = done
  BY <1>3 DEF FailRow, Gone
<1>5. 1 \in 1 .. n
  <2>1. n # 0
    BY <1>1, <1>4, EmptySeq
  <2> HIDE DEF n
  <2> QED
    BY <1>1, <2>1
<1>6. id \in SeqIds /\ id \in pool.live
  <2>1. id \in SeqIds
    BY <1>1, <1>3, <1>5, ElementOfSeq
  <2> QED
    BY <1>2, <1>3, <1>5, <2>1
<1>7. /\ running' \in Seq(SeqIds) /\ Len(running') = n - 1
      /\ \A j \in 1 .. n - 1 : running'[j] = running[j + 1]
  BY <1>1, <1>4, HeadTailProperties
<1> HIDE DEF n
<1>8. \A j \in 1 .. n - 1 : j + 1 \in 1 .. n /\ j + 1 # 1
  BY <1>1
<1>9. \A j, k \in 1 .. n - 1 : running'[j] = running'[k] => j = k
  <2> SUFFICES ASSUME NEW j \in 1 .. n - 1, NEW k \in 1 .. n - 1, running'[j] = running'[k] PROVE j = k
    OBVIOUS
  <2>1. j + 1 = k + 1
    BY <1>2, <1>7, <1>8
  <2> QED
    BY <2>1
<1>10. ASSUME NEW x \in SeqIds
       PROVE  (\E j \in 1 .. n - 1 : running'[j] = x) <=> (x # id /\ \E j \in 1 .. n : running[j] = x)
  <2>1. ASSUME NEW j \in 1 .. n - 1 PROVE running'[j] # id /\ \E k \in 1 .. n : running[k] = running'[j]
    BY <1>2, <1>3, <1>5, <1>7, <1>8
  <2>2. ASSUME NEW k \in 1 .. n, running[k] # id PROVE \E j \in 1 .. n - 1 : running'[j] = running[k]
    <3>1. k - 1 \in 1 .. n - 1 /\ k - 1 + 1 = k
      BY <1>1, <1>3, <2>2
    <3> QED
      BY <1>7, <3>1
  <2> QED
    BY <2>1, <2>2
<1>11. row[id].req \in Requests /\ done = {}
  BY <1>4, <1>6 DEF SpecInv, ServesOne, Scratch
<1>12. /\ status' \in [Requests -> {"waiting", "running", "stop", "length", "failed"}]
       /\ status'[row[id].req] = "failed"
       /\ \A r \in Requests : r # row[id].req => status'[r] = status[r]
  BY <1>4, <1>11 DEF SpecInv, Types, TextTypes
<1>13. GoneRow(id)
  BY <1>4, <1>6, <1>7, <1>9, <1>10, <1>11, <1>12 DEF GoneRow, n
<1> QED
  BY <1>13, GoneKeeps

-----------------------------------------------------------------------------
LEMMA StepDoneStep ==
  ASSUME SpecInv, StepDone
  PROVE  SpecInv'
<1>0. /\ phase = "retire" /\ phase' = "admit" /\ done = {}
      /\ UNCHANGED << texts, pool, running, row, done >>
      /\ UNCHANGED << device, journal, lens, mixed, faults, drafts, plan, tok, sampled, outcome >>
      /\ UNCHANGED << committed, depth, left, at >>
  BY DEF StepDone, step
<1>1. /\ TextTypes' /\ TextsBegin' /\ PoolOk' /\ RunningOk' /\ ServesOne'
      /\ \A id : Resting(id) => Resting(id)'
  BY <1>0, QuietKeeps
<1>2. Types'
  BY <1>0, <1>1 DEF SpecInv, Types, DeviceTypes, RowTypes, StepTypes, Phases, device
<1>3. Scratch'
  BY <1>0 DEF SpecInv, Scratch
<1>4. ~InHand /\ ~InHand'
  BY <1>0 DEF InHand
<1>5. PlanOk' /\ FitsPool' /\ DraftsOk'
  BY <1>0, <1>4 DEF PlanOk, FitsPool, DraftsOk
<1>6. RestOk'
  BY <1>0, <1>1, <1>4 DEF SpecInv, RestOk
<1>7. JournalOk'
  BY <1>0, <1>4 DEF SpecInv, JournalOk, ToSettle
<1> QED
  BY <1>1, <1>2, <1>3, <1>5, <1>6, <1>7 DEF SpecInv

(* With no row left nothing is asked of one. *)
LEMMA FailRestStep ==
  ASSUME SpecInv, NEW rs, FailRest(rs)
  PROVE  SpecInv'
<1>0. /\ phase = "fail" /\ phase' = "admit" /\ running = << >>
      /\ rs \subseteq { r \in Requests : status[r] = "waiting" }
      /\ status' = [r \in Requests |-> IF r \in rs THEN "failed" ELSE status[r]]
      /\ plan' = << >> /\ at' = 1 /\ tok' = 1 /\ done' = {}
      /\ drafts' = NoDrafts /\ outcome' = NoDrafts /\ sampled' = [id \in SeqIds |-> Eog]
      /\ committed' = 0 /\ depth' = 0 /\ left' = 0
      /\ UNCHANGED << ask, said, pool, device, journal, lens, running, row, mixed, faults >>
  BY DEF FailRest
<1>1. pool.live = {} /\ pool'.live = {}
  <2>1. Len(running) = 0 /\ pool.live \subseteq SeqIds
    BY <1>0, EmptySeq, PoolLens DEF SpecInv
  <2>2. \A i : i \notin 1 .. Len(running)
    BY <2>1
  <2>3. pool.live = {}
    BY <2>1, <2>2 DEF SpecInv, RunningOk
  <2> QED
    BY <1>0, <2>3
<1>2. status' \in [Requests -> {"waiting", "running", "stop", "length", "failed"}]
  BY <1>0 DEF SpecInv, Types, TextTypes
<1>3. \A r \in Requests : status'[r] = "waiting" => status[r] = "waiting"
  BY <1>0
<1>4. Types'
  <2>1. << >> \in Seq(Tokens) /\ << >> \in Seq(PlanItems)
    BY EmptySeq
  <2>2. NoDrafts \in [SeqIds -> Seq(Tokens)]
    BY <2>1 DEF NoDrafts
  <2>3. [id \in SeqIds |-> Eog] \in [SeqIds -> Tokens]
    BY SpeculationSizes
  <2>4. 0 \in 0 .. K
    BY SpeculationSizes
  <2> QED
    BY <1>0, <1>2, <2>1, <2>2, <2>3, <2>4
       DEF SpecInv, Types, TextTypes, DeviceTypes, RowTypes, StepTypes, Phases, device
<1>5. TextsBegin'
  BY <1>0, <1>3 DEF SpecInv, TextsBegin
<1>6. PoolOk' /\ RunningOk'
  BY <1>0 DEF SpecInv, PoolOk, RunningOk
<1>7. ServesOne' /\ Scratch'
  BY <1>0, <1>1 DEF ServesOne, Scratch
<1>8. ~InHand /\ ~InHand'
  BY <1>0 DEF InHand
<1>9. PlanOk' /\ FitsPool' /\ DraftsOk' /\ RestOk'
  BY <1>0, <1>1, <1>8 DEF PlanOk, FitsPool, DraftsOk, RestOk
<1>10. JournalOk'
  BY <1>0, <1>8 DEF SpecInv, JournalOk, ToSettle
<1> QED
  BY <1>4, <1>5, <1>6, <1>7, <1>9, <1>10 DEF SpecInv

LEMMA SpecInvStutter ==
  ASSUME SpecInv, UNCHANGED specvars
  PROVE  SpecInv'
<1>0. /\ UNCHANGED << ask, said, status, pool, running, row, done, phase >>
      /\ UNCHANGED << kv, state, conv, journal, lens, mixed, faults, drafts, plan, tok, sampled, outcome >>
      /\ UNCHANGED << committed, depth, left, at >>
  BY DEF specvars, texts, device, step
<1>1. Types' /\ TextsBegin' /\ PoolOk' /\ RunningOk' /\ ServesOne' /\ Scratch'
  BY <1>0 DEF SpecInv, Types, TextTypes, DeviceTypes, RowTypes, StepTypes,
              TextsBegin, PoolOk, RunningOk, ServesOne, Scratch
<1>2. /\ InHand' <=> InHand
      /\ \A i : /\ IsSettled(i)' <=> IsSettled(i)
                /\ IsOver(i)' <=> IsOver(i)
                /\ Ran(i)' = Ran(i) /\ Added(i)' = Added(i)
                /\ ToSettle(i)' <=> ToSettle(i)
  BY <1>0 DEF InHand, IsSettled, IsOver, Ran, Added, ToSettle, Verifies
<1>3. \A id : Untouched(id) /\ (Resting(id) => Resting(id)')
  BY <1>0, QuietKeeps DEF texts
<1>4. ASSUME NEW i, Going(i) PROVE Going(i)'
  <2>1. /\ SeqLen(pool', plan[i].id) = plan[i].from + Ran(i)'
        /\ plan[i].id \in pool'.live /\ plan[i].id \notin done'
    BY <1>0, <1>2, <1>4 DEF Going
  <2> QED
    BY <1>0, <1>2, <1>3, <1>4, <2>1, GoingKept DEF Untouched
<1>5. PlanOk'
  BY <1>0, <1>2, <1>4 DEF SpecInv, PlanOk, Items
<1>6. RestOk'
  BY <1>0, <1>2, <1>3 DEF SpecInv, RestOk, Items
<1>7. DraftsOk'
  BY <1>0, <1>3, UntouchedText DEF Untouched, SpecInv, DraftsOk, Drafted1
<1>8. FitsPool'
  BY <1>0 DEF SpecInv, FitsPool, Flat
<1>9. JournalOk'
  <2>1. { plan'[i].id : i \in { n \in Items(plan') : ToSettle(n)' } }
          = { plan[i].id : i \in { n \in Items(plan) : ToSettle(n) } }
    BY <1>0, <1>2 DEF Items
  <2> QED
    BY <1>0, <1>2, <2>1 DEF SpecInv, JournalOk, Items
<1> QED
  BY <1>1, <1>5, <1>6, <1>7, <1>8, <1>9 DEF SpecInv

LEMMA SpecInitially == SpecInit => SpecInv
<1> SUFFICES ASSUME SpecInit PROVE SpecInv
  OBVIOUS
<1>0. /\ ask \in [Requests -> Asks] /\ said = [r \in Requests |-> ask[r].prompt]
      /\ status = [r \in Requests |-> "waiting"]
      /\ kv = [s \in Slots |-> << >>]
      /\ state = [id \in SeqIds |-> << >>] /\ conv = [id \in SeqIds |-> << >>]
      /\ journal = [ armed |-> {}, start |-> [id \in SeqIds |-> 0], rows |-> [id \in SeqIds |-> 0],
                     taped |-> NoDrafts, conv_pre |-> NoDrafts ]
      /\ lens = [id \in SeqIds |-> 0]
      /\ running = << >> /\ row = [id \in SeqIds |-> NoRow]
      /\ phase = "admit" /\ committed = 0 /\ depth = 0 /\ left = 0 /\ drafts = NoDrafts
      /\ plan = << >> /\ at = 1 /\ tok = 1
      /\ sampled = [id \in SeqIds |-> Eog] /\ outcome = NoDrafts /\ done = {}
      /\ mixed = {} /\ faults = << >>
  BY DEF SpecInit
<1>1. PICK order \in StackOrders : pool = NewPool(order)
  BY OrdersExist DEF SpecInit
<1>2. WholePool(pool) /\ pool.live = {}
  BY <1>1, WholeNew
<1>3. PoolOk
  <2>1. \A id \in SeqIds : SeqLen(pool, id) = 0
    BY <1>2 DEF WholePool
  <2> QED
    BY <1>2, <2>1, PoolSizes DEF PoolOk
<1>4. << >> \in Seq(Tokens) /\ NoDrafts \in [SeqIds -> Seq(Tokens)]
  BY EmptySeq DEF NoDrafts
<1>5. \A r \in Requests : ask[r] \in Asks /\ ask[r].prompt \in Seq(Tokens) /\ said[r] = ask[r].prompt
  BY <1>0, SpeculationSizes
<1>6. TextTypes
  BY <1>0, <1>5 DEF TextTypes
<1>7. TextsBegin
  <2> SUFFICES ASSUME NEW r \in Requests
               PROVE  /\ Len(said[r]) >= Len(ask[r].prompt)
                      /\ SubSeq(said[r], 1, Len(ask[r].prompt)) = ask[r].prompt
                      /\ status[r] = "waiting" => said[r] = ask[r].prompt
    BY DEF TextsBegin
  <2>1. PICK p : p = ask[r].prompt
    OBVIOUS
  <2>2. p \in Seq(Tokens) /\ said[r] = p /\ Len(p) \in Nat
    BY <1>5, <2>1, LenProperties
  <2>3. SubSeq(p, 1, Len(p)) = p
    BY <2>2, SubSeqFull
  <2> QED
    BY <2>1, <2>2, <2>3
<1>8. DeviceTypes
  <2>1. journal \in Journals
    BY <1>0, <1>4 DEF Journals
  <2> QED
    BY <1>0, <1>4, <2>1 DEF DeviceTypes
<1>9. RowTypes
  <2>1. NoRow \in RowStates
    <3>1. NoFeed \in [first : Nat, len : Nat]
      BY DEF NoFeed
    <3> QED
      BY <3>1, SpeculationSizes DEF NoRow, RowStates
  <2>2. << >> \in Seq(SeqIds) /\ << >> \in Seq({"forward", "settle"})
    BY EmptySeq
  <2>3. 0 \in 0 .. MaxSeq
    BY PoolSizes
  <2> QED
    BY <1>0, <2>1, <2>2, <2>3 DEF RowTypes
<1>10. StepTypes
  <2>1. << >> \in Seq(PlanItems) /\ 0 \in 0 .. K /\ Eog \in Tokens
    BY EmptySeq, SpeculationSizes
  <2> QED
    BY <1>0, <1>4, <2>1 DEF StepTypes, Phases
<1>11. RunningOk
  <2>1. Len(running) = 0
    BY <1>0, EmptySeq
  <2>2. \A i : i \notin 1 .. Len(running)
    BY <2>1
  <2> QED
    BY <1>2, <2>2 DEF RunningOk
<1>12. ~InHand /\ \A i : ~ToSettle(i)
  BY <1>0 DEF InHand, ToSettle
<1>13. ServesOne /\ Scratch /\ PlanOk /\ RestOk /\ DraftsOk /\ FitsPool /\ JournalOk
  BY <1>0, <1>2, <1>12 DEF ServesOne, Scratch, PlanOk, RestOk, DraftsOk, FitsPool, JournalOk
<1> QED
  BY <1>3, <1>6, <1>7, <1>8, <1>9, <1>10, <1>11, <1>13 DEF SpecInv, Types

-----------------------------------------------------------------------------
(* Every step keeps the invariant. *)
LEMMA SpecInvStep ==
  ASSUME SpecInv, [Step]_specvars
  PROVE  SpecInv'
<1>1. CASE UNCHANGED specvars
  BY <1>1, SpecInvStutter
<1>2. CASE \E id \in SeqIds : Admit(id)
  BY <1>2, AdmitStep
<1>3. CASE BeginDrafting \/ MakePlan
  BY <1>3, BeginDraftingStep, MakePlanStep
<1>4. CASE \E id \in SeqIds : DraftSkip(id) \/ DraftNoSlots(id) \/ DraftDesynced(id)
  BY <1>4, DraftingSteps, DraftDesyncedStep
<1>5. CASE \E id \in SeqIds : \E draft \in [1 .. depth -> Tokens] : Draft(id, draft)
  BY <1>5, DraftStep
<1>6. CASE Forward \/ ForwardFails
  BY <1>6, ForwardStep, ForwardFailsStep
<1>7. CASE Sample \/ SettleFails \/ SettleNext
  BY <1>7, SampleStep, SettleFailsStep, SettleNextStep
<1>8. CASE \E accepted \in 0 .. K, token \in Tokens : Settle(accepted, token)
  BY <1>8, SettleStep
<1>9. CASE AdvancePrompt \/ AdvanceRow \/ AdvanceVerified \/ AdvanceDone
  BY <1>9, AdvancePromptStep, AdvanceRowStep, AdvanceVerifiedStep, AdvanceDoneStep
<1>10. CASE Retire \/ StepDone
  BY <1>10, RetireStep, StepDoneStep
<1>11. CASE FailRow \/ \E rs \in SUBSET Requests : FailRest(rs)
  BY <1>11, FailRowStep, FailRestStep
<1> QED
  BY <1>1, <1>2, <1>3, <1>4, <1>5, <1>6, <1>7, <1>8, <1>9, <1>10, <1>11 DEF Step

LEMMA Speculates == SpecSpec => []SpecInv
<1>1. SpecInit => SpecInv
  BY SpecInitially
<1>2. SpecInv /\ [Step]_specvars => SpecInv'
  BY SpecInvStep
<1> QED
  BY <1>1, <1>2, PTL DEF SpecSpec

-----------------------------------------------------------------------------
(* The state has its types, and the rows that exist are those that run, each *)
(* of them once: what admit, retire and fail_all keep between them.          *)
THEOREM SpecTypes == SpecSpec => []SpecTypeOK
<1>1. SpecInv => SpecTypeOK
  <2> SUFFICES ASSUME SpecInv PROVE SpecTypeOK
    OBVIOUS
  <2> DEFINE n == Len(running)
  <2>1. running \in Seq(SeqIds) /\ n \in Nat
    BY LenProperties DEF SpecInv, Types, RowTypes
  <2>2. /\ \A i, j \in 1 .. n : running[i] = running[j] => i = j
        /\ \A x \in SeqIds : x \in pool.live <=> \E i \in 1 .. n : running[i] = x
    BY DEF SpecInv, RunningOk
  <2>3. \A i \in 1 .. n : running[i] \in SeqIds
    BY <2>1, ElementOfSeq
  <2>4. pool \in Pools /\ pool.live \subseteq SeqIds
    BY PoolLens DEF SpecInv
  <2>5. pool.live = { running[i] : i \in 1 .. n }
    BY <2>2, <2>3, <2>4
  <2>6. Cardinality(pool.live) = n
    <3> DEFINE f == [ i \in 1 .. n |-> running[i] ]
    <3>1. f \in [1 .. n -> pool.live] /\ \A i \in 1 .. n : f[i] = running[i]
      BY <2>5
    <3> HIDE DEF f, n
    <3>2. \A i, j \in 1 .. n : f[i] = f[j] => i = j
      BY <2>2, <3>1
    <3>3. \A x \in pool.live : \E i \in 1 .. n : f[i] = x
      BY <2>2, <2>4, <3>1
    <3>4. f \in Bijection(1 .. n, pool.live)
      BY <3>1, <3>2, <3>3 DEF Bijection, Injection, Surjection, IsInjective
    <3>5. ExistsBijection(1 .. n, pool.live)
      BY <3>4 DEF ExistsBijection
    <3>6. IsFiniteSet(1 .. n) /\ Cardinality(1 .. n) = n
      BY <2>1, FS_Interval
    <3> QED
      BY <3>5, <3>6, FS_Bijection
  <2>7. \A id \in pool.live : row[id].req \in Requests
    BY DEF SpecInv, ServesOne
  <2>8. done \subseteq pool.live
    BY DEF SpecInv, Scratch
  <2>9. journal.armed \subseteq SeqIds
    BY DEF SpecInv, Types, DeviceTypes, Journals
  <2> HIDE DEF n
  <2>10. /\ said \in [Requests -> Seq(Tokens)]
         /\ status \in [Requests -> {"waiting", "running", "stop", "length", "failed"}]
         /\ state \in [SeqIds -> Seq(Tokens)] /\ conv \in [SeqIds -> Seq(Tokens)]
         /\ lens \in [SeqIds -> 0 .. MaxSeq] /\ mixed \subseteq Requests
    BY DEF SpecInv, Types, TextTypes, DeviceTypes, RowTypes
  <2>11. /\ pool.live = { running[i] : i \in 1 .. Len(running) }
         /\ Cardinality(pool.live) = Len(running)
    BY <2>5, <2>6, Zenon DEF n
  <2> QED
    BY <2>4, <2>7, <2>8, <2>9, <2>10, <2>11, Zenon DEF SpecTypeOK
<1> QED
  BY Speculates, <1>1, PTL

(* A whole pool has every slot in one place. *)
LEMMA OneOwner ==
  ASSUME PoolOk, NEW s \in Slots
  PROVE  \E x : { << Stack, i >> : i \in { n \in 1 .. FreeSlots(pool) : pool.free[n] = s } }
                \cup { place \in SeqIds \X (1 .. MaxSeq) :
                         place[2] <= SeqLen(pool, place[1]) /\ pool.slots[place[1]][place[2]] = s }
                  = {x}
<1> DEFINE free == { << Stack, i >> : i \in { n \in 1 .. FreeSlots(pool) : pool.free[n] = s } }
           held == { place \in SeqIds \X (1 .. MaxSeq) :
                       place[2] <= SeqLen(pool, place[1]) /\ pool.slots[place[1]][place[2]] = s }
<1>1. EveryPlace(pool) /\ StackOnce(pool) /\ RowsOnce(pool) /\ RowsOrStack(pool)
  BY DEF PoolOk, WholePool, OnePlace
<1>2. \A id \in SeqIds : SeqLen(pool, id) \in Nat /\ SeqLen(pool, id) <= MaxSeq
  BY PoolLens
<1>3. \A place \in held : /\ place[1] \in SeqIds /\ place[2] \in 1 .. SeqLen(pool, place[1])
                          /\ place = << place[1], place[2] >>
                          /\ pool.slots[place[1]][place[2]] = s
  <2> SUFFICES ASSUME NEW place \in held
               PROVE  /\ place[1] \in SeqIds /\ place[2] \in 1 .. SeqLen(pool, place[1])
                      /\ place = << place[1], place[2] >>
                      /\ pool.slots[place[1]][place[2]] = s
    OBVIOUS
  <2>1. /\ place \in SeqIds \X (1 .. MaxSeq)
        /\ place[2] <= SeqLen(pool, place[1]) /\ pool.slots[place[1]][place[2]] = s
    OBVIOUS
  <2>2. place[1] \in SeqIds /\ place[2] \in 1 .. MaxSeq /\ place = << place[1], place[2] >>
    BY <2>1
  <2>3. place[2] \in 1 .. SeqLen(pool, place[1])
    BY <1>2, <2>1, <2>2, PoolSizes
  <2> QED
    BY <2>1, <2>2, <2>3
<1>4. CASE \E n \in 1 .. FreeSlots(pool) : pool.free[n] = s
  <2>1. PICK n \in 1 .. FreeSlots(pool) : pool.free[n] = s
    BY <1>4
  <2>2. free = { << Stack, n >> }
    BY <1>1, <2>1 DEF StackOnce
  <2>3. held = {}
    BY <1>1, <1>3, <2>1 DEF RowsOrStack
  <2> HIDE DEF free, held
  <2>4. free \cup held = { << Stack, n >> }
    BY <2>2, <2>3
  <2> QED
    BY <2>4 DEF free, held
<1>5. CASE \E id \in SeqIds : \E i \in 1 .. SeqLen(pool, id) : pool.slots[id][i] = s
  <2>1. PICK id \in SeqIds : \E i \in 1 .. SeqLen(pool, id) : pool.slots[id][i] = s
    BY <1>5
  <2>2. PICK i \in 1 .. SeqLen(pool, id) : pool.slots[id][i] = s
    BY <2>1
  <2>3. free = {}
    BY <1>1, <2>2 DEF RowsOrStack
  <2>4. << id, i >> \in held
    <3>1. i \in 1 .. MaxSeq /\ i <= SeqLen(pool, id)
      BY <1>2, <2>2, PoolSizes
    <3> QED
      BY <2>2, <3>1
  <2>5. ASSUME NEW place \in held PROVE place = << id, i >>
    <3>1. PICK a, j : a = place[1] /\ j = place[2]
      OBVIOUS
    <3>2. a \in SeqIds /\ j \in 1 .. SeqLen(pool, a) /\ place = << a, j >> /\ pool.slots[a][j] = s
      BY <1>3, <3>1
    <3>3. a = id /\ j = i
      BY <1>1, <2>2, <3>2 DEF RowsOnce
    <3> QED
      BY <3>2, <3>3
  <2> HIDE DEF free, held
  <2>6. free \cup held = { << id, i >> }
    BY <2>3, <2>4, <2>5
  <2> QED
    BY <2>6 DEF free, held
<1> QED
  BY <1>1, <1>4, <1>5 DEF EveryPlace

(* No slot is lost or owned twice, however many drafts were refused, rows    *)
(* retired and steps failed.                                                 *)
THEOREM SlotsStayPartitioned == SpecSpec => []SlotsPartitioned
<1>1. SpecInv => SlotsPartitioned
  <2> SUFFICES ASSUME SpecInv, NEW s \in Slots
               PROVE  Cardinality({ << Stack, i >> : i \in { n \in 1 .. FreeSlots(pool) : pool.free[n] = s } }
                        \cup { place \in SeqIds \X (1 .. MaxSeq) :
                                 place[2] <= SeqLen(pool, place[1]) /\ pool.slots[place[1]][place[2]] = s }) = 1
    BY DEF SlotsPartitioned
  <2>1. PICK x : { << Stack, i >> : i \in { n \in 1 .. FreeSlots(pool) : pool.free[n] = s } }
                   \cup { place \in SeqIds \X (1 .. MaxSeq) :
                            place[2] <= SeqLen(pool, place[1]) /\ pool.slots[place[1]][place[2]] = s }
                     = {x}
    BY OneOwner DEF SpecInv
  <2>2. Cardinality({x}) = 1
    BY FS_Singleton
  <2> QED
    BY <2>1, <2>2
<1> QED
  BY Speculates, <1>1, PTL

(* A plan made with drafts in it has a slot, a place in its row and a row of *)
(* the batch for every token, when it is run.                                *)
THEOREM CandidatesGetRoom == SpecSpec => []CandidatesFit
<1>1. SpecInv => CandidatesFit
  <2> SUFFICES ASSUME SpecInv, phase = "forward"
               PROVE  CanForward /\ Len(Flat) <= BatchTokens
    BY DEF CandidatesFit
  <2>1. Len(Flat) <= FreeSlots(pool) /\ Len(Flat) <= BatchTokens
    BY DEF SpecInv, FitsPool
  <2>2. ASSUME NEW i \in Items(plan) PROVE Len(plan[i].toks) <= Headroom(pool, plan[i].id)
    <3> DEFINE f == plan[i].from
               l == Len(plan[i].toks)
    <3>1. /\ Going(i) /\ SeqLen(pool, plan[i].id) = f /\ ~IsOver(i) /\ InHand
      BY RoomFacts
    <3>2. f \in Nat /\ l \in Nat
      BY <3>1, GoalFacts
    <3>3. f + l <= MaxSeq
      BY <3>1 DEF Going
    <3>4. Headroom(pool, plan[i].id) = MaxSeq - f
      BY <3>1 DEF Headroom
    <3> HIDE DEF f, l
    <3>5. l <= MaxSeq - f
      BY <3>2, <3>3, PoolSizes
    <3> QED
      BY <3>4, <3>5 DEF l
  <2> QED
    BY <2>1, <2>2 DEF CanForward
<1> QED
  BY Speculates, <1>1, PTL

(* What the drafter is fed next ends where the row's keys end. *)
THEOREM FeedsTheLastPass == SpecSpec => []FeedIsLastPass
<1>1. SpecInv => FeedIsLastPass
  <2> SUFFICES ASSUME SpecInv, phase = "admit", NEW id \in pool.live, row[id].feed # NoFeed
               PROVE  /\ row[id].feed.first + row[id].feed.len = SeqLen(pool, id)
                      /\ row[id].feed.first + row[id].feed.len = Len(Text(id)) - 1
    BY DEF FeedIsLastPass
  <2>1. Resting(id)
    BY RestingAll DEF InHand, SpecInv, Scratch
  <2>2. /\ PromptComplete(id) /\ row[id].feed.first + row[id].feed.len = SeqLen(pool, id)
        /\ SeqLen(pool, id) = Fed(id)
    BY <2>1 DEF Resting
  <2>3. Fed(id) = Len(Text(id)) - 1
    BY <2>2 DEF Fed
  <2> QED
    BY <2>2, <2>3
<1> QED
  BY Speculates, <1>1, PTL

(* Between steps no row is armed, unless a step failed after its pass. *)
THEOREM LeavesDisarmed == SpecSpec => []Disarmed
<1>1. SpecInv => Disarmed
  BY DEF SpecInv, JournalOk, InHand, Disarmed
<1> QED
  BY Speculates, <1>1, PTL

-----------------------------------------------------------------------------
(* The beginnings of a sequence. *)
LEMMA PrefixFacts ==
  ASSUME NEW S, NEW s \in Seq(S), NEW n \in 0 .. Len(s)
  PROVE  /\ SubSeq(s, 1, n) \in Seq(S) /\ Len(SubSeq(s, 1, n)) = n
         /\ \A i \in 1 .. n : SubSeq(s, 1, n)[i] = s[i]
<1>1. Len(s) \in Nat
  BY LenProperties
<1>2. 1 \in 1 .. Len(s) + 1
  BY <1>1
<1>3. /\ SubSeq(s, 1, n) \in Seq(S)
      /\ Len(SubSeq(s, 1, n)) = IF 1 <= n THEN n - 1 + 1 ELSE 0
      /\ \A i \in 1 .. n - 1 + 1 : SubSeq(s, 1, n)[i] = s[1 + i - 1]
  BY ONLY <1>2, SliceFacts, n \in 0 .. Len(s), s \in Seq(S)
<1>4. n \in Nat
  BY <1>1
<1>5. n - 1 + 1 = n /\ \A i \in 1 .. n : 1 + i - 1 = i
  BY <1>4
<1>6. Len(SubSeq(s, 1, n)) = n
  <2>1. PICK l : l = Len(SubSeq(s, 1, n))
    OBVIOUS
  <2>2. l = IF 1 <= n THEN n - 1 + 1 ELSE 0
    BY <1>3, <2>1
  <2>3. l = n
    BY ONLY <2>2, <1>4
  <2> QED
    BY <2>1, <2>3
<1>7. \A i \in 1 .. n : SubSeq(s, 1, n)[i] = s[i]
  BY ONLY <1>3, <1>5
<1> QED
  BY <1>3, <1>6, <1>7

LEMMA SamePrefix ==
  ASSUME NEW S, NEW s \in Seq(S), NEW t \in Seq(S), NEW n \in 0 .. Len(s), n \in 0 .. Len(t),
         \A i \in 1 .. n : s[i] = t[i]
  PROVE  SubSeq(s, 1, n) = SubSeq(t, 1, n)
<1>1. PICK u, v : u = SubSeq(s, 1, n) /\ v = SubSeq(t, 1, n)
  OBVIOUS
<1>2. u \in Seq(S) /\ Len(u) = n /\ \A i \in 1 .. n : u[i] = s[i]
  BY <1>1, PrefixFacts
<1>3. v \in Seq(S) /\ Len(v) = n /\ \A i \in 1 .. n : v[i] = t[i]
  BY <1>1, PrefixFacts
<1>4. u = v
  BY ONLY <1>2, <1>3, SeqEqual, \A i \in 1 .. n : s[i] = t[i]
<1> QED
  BY <1>1, <1>4

LEMMA PrefixOfPrefix ==
  ASSUME NEW S, NEW s \in Seq(S), NEW n \in 0 .. Len(s), NEW m \in 0 .. n
  PROVE  SubSeq(SubSeq(s, 1, n), 1, m) = SubSeq(s, 1, m)
<1>1. PICK u : u = SubSeq(s, 1, n)
  OBVIOUS
<1>2. u \in Seq(S) /\ Len(u) = n /\ \A i \in 1 .. n : u[i] = s[i]
  BY <1>1, PrefixFacts
<1>3. Len(s) \in Nat
  BY LenProperties
<1>4. m \in 0 .. Len(u) /\ m \in 0 .. Len(s) /\ \A i \in 1 .. m : i \in 1 .. n
  BY <1>2, <1>3
<1>5. \A i \in 1 .. m : u[i] = s[i]
  BY <1>2, <1>4
<1>6. SubSeq(u, 1, m) = SubSeq(s, 1, m)
  BY ONLY <1>2, <1>4, <1>5, SamePrefix, s \in Seq(S)
<1> QED
  BY <1>1, <1>6

LEMMA WholePrefix ==
  ASSUME NEW S, NEW s \in Seq(S)
  PROVE  SubSeq(s, 1, Len(s)) = s
<1>1. PICK n, u : n = Len(s) /\ u = SubSeq(s, 1, n)
  OBVIOUS
<1>2. n \in Nat
  BY <1>1, LenProperties
<1>3. n \in 0 .. Len(s)
  BY <1>1, <1>2
<1>4. u \in Seq(S) /\ Len(u) = n /\ \A i \in 1 .. n : u[i] = s[i]
  BY <1>1, <1>3, PrefixFacts
<1>5. u = s
  BY ONLY <1>1, <1>4, SeqEqual, s \in Seq(S)
<1> QED
  BY <1>1, <1>5

LEMMA PrefixOfConcat ==
  ASSUME NEW S, NEW s \in Seq(S), NEW t \in Seq(S)
  PROVE  /\ s \o t \in Seq(S)
         /\ \A n \in 0 .. Len(s) : SubSeq(s \o t, 1, n) = SubSeq(s, 1, n)
         /\ \A k \in 0 .. Len(t) : SubSeq(s \o t, 1, Len(s) + k) = s \o SubSeq(t, 1, k)
<1>1. PICK w, a, b : w = s \o t /\ a = Len(s) /\ b = Len(t)
  OBVIOUS
<1>2. a \in Nat /\ b \in Nat
  BY <1>1, LenProperties
<1>3. /\ w \in Seq(S) /\ Len(w) = a + b
      /\ \A i \in 1 .. a + b : w[i] = IF i <= a THEN s[i] ELSE t[i - a]
  BY <1>1, ConcatProperties
<1>4. ASSUME NEW n \in 0 .. a PROVE SubSeq(w, 1, n) = SubSeq(s, 1, n)
  <2>1. n \in 0 .. Len(w) /\ n \in 0 .. Len(s)
    BY <1>1, <1>2, <1>3
  <2>2. \A i \in 1 .. n : i \in 1 .. a + b /\ i <= a
    BY <1>2
  <2>3. \A i \in 1 .. n : w[i] = s[i]
    BY <1>3, <2>2
  <2> QED
    BY ONLY <1>3, <2>1, <2>3, SamePrefix, s \in Seq(S)
<1>5. ASSUME NEW k \in 0 .. b PROVE SubSeq(w, 1, a + k) = s \o SubSeq(t, 1, k)
  <2>1. PICK v, x, y : v = SubSeq(t, 1, k) /\ x = SubSeq(w, 1, a + k) /\ y = s \o v
    OBVIOUS
  <2>2. v \in Seq(S) /\ Len(v) = k /\ \A i \in 1 .. k : v[i] = t[i]
    BY <1>1, <2>1, PrefixFacts
  <2>3. /\ y \in Seq(S) /\ Len(y) = a + k
        /\ \A i \in 1 .. a + k : y[i] = IF i <= a THEN s[i] ELSE v[i - a]
    BY <1>1, <2>1, <2>2, ConcatProperties
  <2>4. a + k \in 0 .. Len(w)
    BY <1>2, <1>3
  <2>5. x \in Seq(S) /\ Len(x) = a + k /\ \A i \in 1 .. a + k : x[i] = w[i]
    BY <1>3, <2>1, <2>4, PrefixFacts
  <2>6. \A i \in 1 .. a + k : i \in 1 .. a + b /\ (~(i <= a) => i - a \in 1 .. k)
    BY <1>2
  <2>7. \A i \in 1 .. a + k : x[i] = y[i]
    BY <1>3, <2>2, <2>3, <2>5, <2>6
  <2>8. x = y
    BY ONLY <2>3, <2>5, <2>7, SeqEqual
  <2> QED
    BY <2>1, <2>8
<1> QED
  BY <1>1, <1>3, <1>4, <1>5

-----------------------------------------------------------------------------
(* What a step leaves of a row's memory. *)
SameMemory(id) ==
  /\ \A pos \in 1 .. SeqLen(pool, id) : kv'[pool'.slots[id][pos]] = kv[pool.slots[id][pos]]
  /\ state'[id] = state[id] /\ conv'[id] = conv[id]

LEMMA RemembersKept ==
  ASSUME NEW id, SameMemory(id), NEW t, Len(t) <= SeqLen(pool, id),
         Len(t) \in Nat, SeqLen(pool, id) \in Nat
  PROVE  /\ HasKv(id, t) => HasKv(id, t)'
         /\ Holds(state, id, t) => (Holds(state, id, t))'
         /\ Holds(conv, id, t) => (Holds(conv, id, t))'
<1>1. \A pos \in 1 .. Len(t) : pos \in 1 .. SeqLen(pool, id)
  OBVIOUS
<1>2. HasKv(id, t) => HasKv(id, t)'
  BY <1>1 DEF HasKv, SameMemory
<1> QED
  BY <1>2 DEF Holds, SameMemory

(* What a resting row has been fed is a beginning of its text. *)
LEMMA FedFacts ==
  ASSUME SpecInv, NEW id \in pool.live, Resting(id)
  PROVE  /\ id \in SeqIds /\ Serves(id) /\ Text(id) \in Seq(Tokens)
         /\ Fed(id) \in 0 .. Len(Text(id)) /\ SeqLen(pool, id) = Fed(id)
         /\ SeqLen(pool, id) \in Nat
         /\ SubSeq(Text(id), 1, Fed(id)) \in Seq(Tokens)
         /\ Len(SubSeq(Text(id), 1, Fed(id))) = Fed(id)
<1>1. id \in SeqIds /\ Serves(id) /\ SeqLen(pool, id) \in Nat
  BY PoolLens DEF SpecInv, ServesOne, Serves
<1>2. PICK m, p, f : m = Len(Text(id)) /\ p = Len(Prompt(id)) /\ f = Fed(id)
  OBVIOUS
<1>3. Text(id) \in Seq(Tokens) /\ m \in Nat /\ p \in Nat /\ p >= 1 /\ p <= m
  BY <1>1, <1>2, RowFacts DEF SpecInv
<1>4. f \in Nat /\ SeqLen(pool, id) = f
  BY <1>1, <1>2 DEF Resting
<1>5. f = m - 1 \/ (f = row[id].prefilled /\ row[id].prefilled <= p)
  BY <1>2 DEF Resting, Fed
<1>6. f \in 0 .. m
  BY ONLY <1>3, <1>4, <1>5
<1>7. f \in 0 .. Len(Text(id))
  BY <1>2, <1>6
<1>8. SubSeq(Text(id), 1, f) \in Seq(Tokens) /\ Len(SubSeq(Text(id), 1, f)) = f
  BY ONLY <1>3, <1>7, PrefixFacts
<1> QED
  BY <1>1, <1>2, <1>3, <1>4, <1>7, <1>8

LEMMA RestsOn ==
  ASSUME SpecInv, NEW id \in pool.live, Resting(id), RestMemory(id), SameRow(id), SameMemory(id)
  PROVE  RestMemory(id)'
<1>1. PICK t : t = SubSeq(Text(id), 1, Fed(id))
  OBVIOUS
<1>2. Len(t) \in Nat /\ Len(t) <= SeqLen(pool, id) /\ SeqLen(pool, id) \in Nat
  BY <1>1, FedFacts
<1>3. HasKv(id, t) /\ Holds(state, id, t) /\ Holds(conv, id, t)
  BY <1>1 DEF RestMemory, Remembers
<1>4. HasKv(id, t)' /\ (Holds(state, id, t))' /\ (Holds(conv, id, t))'
  BY <1>2, <1>3, RemembersKept
<1>5. t = SubSeq(Text(id)', 1, Fed(id)')
  BY <1>1, UntouchedText
<1> QED
  BY <1>4, <1>5 DEF RestMemory, Remembers, HasKv, Holds

(* What an item's row has of its goal. *)
LEMMA RanFacts ==
  ASSUME SpecInv, InHand, NEW i \in Items(plan), ~IsOver(i)
  PROVE  /\ Ran(i) \in 0 .. Len(plan[i].toks)
         /\ SeqLen(pool, plan[i].id) = plan[i].from + Ran(i)
         /\ SeqLen(pool, plan[i].id) \in Nat
         /\ Pending(i) => Ran(i) = Len(plan[i].toks)
         /\ Len(SubSeq(Goal(i), 1, plan[i].from + Ran(i))) = plan[i].from + Ran(i)
         /\ SubSeq(Goal(i), 1, plan[i].from + Ran(i)) \in Seq(Tokens)
         /\ plan[i].from + Ran(i) \in 0 .. Len(Goal(i))
<1>1. PICK k, l, r, f : k = plan[i].id /\ l = Len(plan[i].toks) /\ r = Ran(i) /\ f = plan[i].from
  OBVIOUS
<1>2. Going(i) /\ k \in SeqIds /\ l \in Nat /\ f \in Nat
  BY <1>1, InHandFacts
<1>3. r \in 0 .. l
  <2>1. CASE phase = "forward"
    BY <1>1, <1>2, <2>1 DEF Ran
  <2>2. CASE phase # "forward" /\ IsSettled(i)
    <3>1. PICK o, a : o = Len(outcome[k]) /\ a = Added(i)
      OBVIOUS
    <3>2. a \in Nat
      BY <3>1 DEF Added, SpecInv, Types, StepTypes
    <3>3. o \in a + 1 .. l
      BY <1>1, <1>2, <2>2, <3>1 DEF Going
    <3>4. r = o
      BY <1>1, <2>2, <3>1 DEF Ran
    <3> QED
      BY ONLY <1>2, <3>2, <3>3, <3>4
  <2>3. CASE phase # "forward" /\ ~IsSettled(i)
    BY <1>1, <1>2, <2>3 DEF Ran
  <2> QED
    BY <2>1, <2>2, <2>3
<1>4. SeqLen(pool, k) = f + r /\ SeqLen(pool, k) \in Nat
  BY <1>1, <1>2, PoolLens DEF Going, SpecInv
<1>5. Pending(i) => r = l
  BY <1>1 DEF Pending, ToSettle, Ran
<1>6. PICK g : g = Goal(i)
  OBVIOUS
<1>7. g \in Seq(Tokens) /\ Len(g) = f + l
  BY <1>1, <1>6, GoalFacts
<1>8. f + r \in 0 .. Len(g)
  BY <1>2, <1>3, <1>7
<1>9. Len(SubSeq(g, 1, f + r)) = f + r /\ SubSeq(g, 1, f + r) \in Seq(Tokens)
  BY ONLY <1>7, <1>8, PrefixFacts
<1> QED
  BY <1>1, <1>3, <1>4, <1>5, <1>6, <1>8, <1>9

LEMMA GoalKept ==
  ASSUME NEW i, plan' = plan, SameRow(plan[i].id)
  PROVE  Goal(i)' = Goal(i) /\ Before(i)' = Before(i)
<1>1. PICK x : x = plan[i]
  OBVIOUS
<1>2. Text(x.id)' = Text(x.id)
  BY <1>1, UntouchedText
<1>3. plan'[i] = x
  BY <1>1
<1> QED
  BY <1>1, <1>2, <1>3 DEF Goal, Before

(* An item whose row is left alone is as far as it was. *)
LEMMA GoingOn ==
  ASSUME SpecInv, InHand, NEW i \in Items(plan), ~IsOver(i), GoingMemory(i),
         plan' = plan, SameRow(plan[i].id), SameMemory(plan[i].id),
         Pending(i)' <=> Pending(i), Ran(i)' = Ran(i),
         journal'.conv_pre[plan[i].id] = journal.conv_pre[plan[i].id],
         journal'.taped[plan[i].id] = journal.taped[plan[i].id],
         phase' # "sample"
  PROVE  GoingMemory(i)'
<1>1. PICK x, r : x = plan[i] /\ r = Ran(i)
  OBVIOUS
<1>2. PICK g, b, t : g = Goal(i) /\ b = Before(i) /\ t = SubSeq(g, 1, x.from + r)
  OBVIOUS
<1>3. plan'[i] = x /\ Goal(i)' = g /\ Before(i)' = b
  BY <1>1, <1>2, GoalKept
<1>4. /\ g \in Seq(Tokens) /\ Len(g) = x.from + Len(x.toks) /\ Len(b) = x.from
      /\ x.from \in Nat /\ Len(x.toks) \in Nat
  BY <1>1, <1>2, GoalFacts DEF Before
<1>5. /\ r \in 0 .. Len(x.toks) /\ SeqLen(pool, x.id) = x.from + r /\ SeqLen(pool, x.id) \in Nat
      /\ Pending(i) => r = Len(x.toks)
      /\ Len(t) = x.from + r
  BY <1>1, <1>2, RanFacts
<1>6. CASE Pending(i)
  <2>1. Len(g) <= SeqLen(pool, x.id) /\ Len(g) \in Nat
    BY <1>4, <1>5, <1>6
  <2>2. Len(b) <= SeqLen(pool, x.id) /\ Len(b) \in Nat
    BY <1>4, <1>5
  <2>3. /\ HasKv(x.id, g) /\ Holds(state, x.id, b)
        /\ journal.conv_pre[x.id] = b /\ journal.taped[x.id] = x.toks
    BY <1>1, <1>2, <1>6 DEF GoingMemory
  <2>4. HasKv(x.id, g)'
    BY <1>1, <1>5, <2>1, <2>3, RemembersKept
  <2>5. (Holds(state, x.id, b))'
    BY <1>1, <1>5, <2>2, <2>3, RemembersKept
  <2>6. journal'.conv_pre[x.id] = b /\ journal'.taped[x.id] = x.toks
    BY <1>1, <2>3
  <2>7. HasKv(plan[i].id, Goal(i))'
    BY <1>1, <1>3, <2>4 DEF HasKv
  <2>8. (Holds(state, plan[i].id, Before(i)))'
    BY <1>1, <1>3, <2>5 DEF Holds
  <2> QED
    BY <1>1, <1>3, <1>6, <2>6, <2>7, <2>8 DEF GoingMemory
<1>7. CASE ~Pending(i)
  <2>1. HasKv(x.id, t) /\ Holds(state, x.id, t) /\ Holds(conv, x.id, t)
    BY <1>1, <1>2, <1>7 DEF GoingMemory, Remembers
  <2>2. Len(t) <= SeqLen(pool, x.id) /\ Len(t) \in Nat
    BY <1>4, <1>5
  <2>3. HasKv(x.id, t)' /\ (Holds(state, x.id, t))' /\ (Holds(conv, x.id, t))'
    BY <1>1, <1>5, <2>1, <2>2, RemembersKept
  <2>4. t = SubSeq(Goal(i)', 1, plan'[i].from + Ran(i)')
    BY <1>1, <1>2, <1>3
  <2>5. Remembers(plan[i].id, SubSeq(Goal(i), 1, plan[i].from + Ran(i)))'
    BY <1>1, <1>3, <2>3, <2>4 DEF Remembers, HasKv, Holds
  <2> QED
    BY <1>1, <1>3, <1>7, <2>5 DEF GoingMemory
<1> QED
  BY <1>6, <1>7

(* A row that is not in hand rests. *)
LEMMA IdleRests ==
  ASSUME SpecInv, phase # "fail", NEW id \in pool.live \ done, Idle(id)
  PROVE  Resting(id)
BY DEF SpecInv, RestOk, Idle

(* The steps between two plans. *)
LEMMA QuietMemory ==
  ASSUME SpecInv, MemoryOk, phase # "fail", ~InHand', mixed' = mixed,
         \A x \in pool'.live \ done' :
           x \in pool.live \ done /\ Idle(x) /\ SameRow(x) /\ SameMemory(x)
  PROVE  MemoryOk'
<1>1. ASSUME NEW x \in pool'.live \ done', row'[x].req \notin mixed' PROVE RestMemory(x)'
  <2>1. x \in pool.live \ done /\ Idle(x) /\ SameRow(x) /\ SameMemory(x)
    OBVIOUS
  <2>2. row[x].req \notin mixed
    BY <1>1, <2>1 DEF SameRow
  <2>3. RestMemory(x) /\ Resting(x)
    BY <2>1, <2>2, IdleRests DEF MemoryOk
  <2> QED
    BY <2>1, <2>3, RestsOn
<1> QED
  BY <1>1 DEF MemoryOk

(* The steps on a plan in hand, which see to one row at most. *)
LEMMA HandMemory ==
  ASSUME SpecInv, SpecInv', MemoryOk, InHand, InHand', phase' # "sample",
         plan' = plan, mixed' = mixed, NEW but,
         \A x \in pool'.live \ done' :
           /\ x \in pool.live \ done /\ row'[x].req = row[x].req
           /\ x # but => SameRow(x) /\ SameMemory(x),
         \A i \in Items(plan) : plan[i].id # but =>
           /\ IsOver(i)' <=> IsOver(i)
           /\ Pending(i)' <=> Pending(i)
           /\ Ran(i)' = Ran(i)
           /\ journal'.conv_pre[plan[i].id] = journal.conv_pre[plan[i].id]
           /\ journal'.taped[plan[i].id] = journal.taped[plan[i].id],
         but \in pool'.live \ done' /\ row[but].req \notin mixed =>
           /\ Idle(but)' => RestMemory(but)'
           /\ \A i \in Items(plan) : plan[i].id = but /\ ~IsOver(i)' => GoingMemory(i)'
  PROVE  MemoryOk'
<1>0. phase # "fail" /\ Items(plan') = Items(plan)
  BY DEF InHand
<1>1. ASSUME NEW x \in pool'.live \ done', Idle(x)', row'[x].req \notin mixed'
      PROVE  RestMemory(x)'
  <2>1. x \in pool.live \ done /\ row[x].req \notin mixed
    BY <1>1
  <2>2. CASE x = but
    BY <1>1, <2>1, <2>2
  <2>3. CASE x # but
    <3>1. SameRow(x) /\ SameMemory(x)
      BY <2>3
    <3>2. Idle(x)
      BY <1>0, <1>1, <2>3 DEF Idle
    <3>3. RestMemory(x) /\ Resting(x)
      BY <1>0, <2>1, <3>2, IdleRests DEF MemoryOk
    <3> QED
      BY <2>1, <3>1, <3>3, RestsOn
  <2> QED
    BY <2>2, <2>3
<1>2. ASSUME NEW i \in Items(plan), ~IsOver(i)', row'[plan[i].id].req \notin mixed'
      PROVE  GoingMemory(i)'
  <2>1. PICK k : k = plan[i].id
    OBVIOUS
  <2>2. k \in pool'.live \ done'
    <3>1. Going(i)'
      BY <1>0, <1>2 DEF SpecInv, PlanOk
    <3> QED
      BY <2>1, <3>1 DEF Going
  <2>3. k \in pool.live \ done /\ row[k].req \notin mixed
    BY <1>2, <2>1, <2>2
  <2>4. CASE k = but
    BY <1>2, <2>1, <2>2, <2>3, <2>4
  <2>5. CASE k # but
    <3>1. SameRow(k) /\ SameMemory(k) /\ ~IsOver(i)
      BY <1>2, <2>1, <2>2, <2>5
    <3>2. GoingMemory(i)
      BY <1>0, <2>1, <2>3, <3>1 DEF MemoryOk
    <3> QED
      BY <2>1, <2>5, <3>1, <3>2, GoingOn
  <2> QED
    BY <2>4, <2>5
<1> QED
  BY <1>0, <1>1, <1>2 DEF MemoryOk

-----------------------------------------------------------------------------
(* Each step keeps memory in order. *)
LEMMA SameDevice ==
  ASSUME UNCHANGED << pool, device >>
  PROVE  \A x : SameMemory(x)
BY DEF SameMemory, device

LEMMA DraftingMemory ==
  ASSUME SpecInv, MemoryOk,
         \/ BeginDrafting
         \/ \E id \in SeqIds : DraftSkip(id) \/ DraftNoSlots(id) \/ DraftDesynced(id)
         \/ \E id \in SeqIds : \E draft \in [1 .. depth -> Tokens] : Draft(id, draft)
  PROVE  MemoryOk'
<1>1. /\ phase \in {"admit", "draft"} /\ phase' = "draft"
      /\ UNCHANGED << texts, pool, device, mixed, done >>
      /\ \/ row' = row
         \/ \E id \in SeqIds : row' = [row EXCEPT ![id].feed = NoFeed, ![id].desynced = TRUE]
         \/ \E id \in SeqIds : row' = [row EXCEPT ![id].feed = NoFeed]
  BY DEF BeginDrafting, DraftSkip, DraftNoSlots, DraftDesynced, Draft, Drafting
<1>2. row \in [SeqIds -> RowStates]
  BY DEF SpecInv, Types, RowTypes
<1>3. ASSUME NEW x \in SeqIds
      PROVE  /\ row'[x].req = row[x].req /\ row'[x].prefilled = row[x].prefilled
             /\ row'[x].feed \in {row[x].feed, NoFeed}
  <2>1. PICK o : o = row[x]
    OBVIOUS
  <2>2. o \in RowStates
    BY <1>2, <2>1
  <2>3. ASSUME NEW n, n = [o EXCEPT !.feed = NoFeed] \/ n = [o EXCEPT !.feed = NoFeed, !.desynced = TRUE]
        PROVE  n.req = o.req /\ n.prefilled = o.prefilled /\ n.feed = NoFeed
    BY <2>2, <2>3 DEF RowStates
  <2>4. \/ row'[x] = o \/ row'[x] = [o EXCEPT !.feed = NoFeed]
        \/ row'[x] = [o EXCEPT !.feed = NoFeed, !.desynced = TRUE]
    BY <1>1, <1>2, <2>1
  <2> QED
    BY <2>1, <2>3, <2>4
<1>4. \A x \in SeqIds : SameRow(x)
  BY <1>1, <1>3 DEF SameRow, texts
<1>5. ~InHand /\ ~InHand' /\ phase # "fail"
  BY <1>1 DEF InHand
<1>6. \A x \in pool'.live \ done' :
        x \in pool.live \ done /\ Idle(x) /\ SameRow(x) /\ SameMemory(x)
  BY <1>1, <1>4, <1>5, SameDevice, PoolLens DEF Idle, SpecInv
<1> QED
  BY <1>1, <1>5, <1>6, QuietMemory

LEMMA RetiringMemory ==
  ASSUME SpecInv, MemoryOk, AdvanceDone \/ StepDone
  PROVE  MemoryOk'
<1>1. /\ phase \in {"advance", "retire"} /\ phase' \in {"retire", "admit"}
      /\ phase = "advance" => at > Len(plan)
      /\ UNCHANGED << texts, pool, device, mixed, done, row >>
  BY DEF AdvanceDone, StepDone, step
<1>2. ~InHand' /\ phase # "fail"
  BY <1>1 DEF InHand
<1>3. \A x : Idle(x)
  <2>1. CASE phase = "retire"
    BY <2>1 DEF Idle, InHand
  <2>2. CASE phase = "advance"
    <3>1. Len(plan) \in Nat /\ at \in Nat
      BY LenProperties DEF SpecInv, Types, StepTypes
    <3>2. \A i \in Items(plan) : IsOver(i)
      BY <1>1, <2>2, <3>1 DEF Items, IsOver
    <3> QED
      BY <3>2 DEF Idle
  <2> QED
    BY <1>1, <2>1, <2>2
<1>4. \A x : SameRow(x) /\ SameMemory(x)
  BY <1>1, SameDevice DEF SameRow, texts
<1> QED
  BY <1>1, <1>2, <1>3, <1>4, QuietMemory

LEMMA RetireMemory ==
  ASSUME SpecInv, MemoryOk, Retire
  PROVE  MemoryOk'
<1>1. PICK id : id = running[Max({ j \in 1 .. Len(running) : running[j] \in done })]
  OBVIOUS
<1>2. /\ phase = "retire" /\ phase' = "retire" /\ done # {}
      /\ pool' = Free(pool, id) /\ row' = [row EXCEPT ![id] = NoRow] /\ done' = done \ {id}
      /\ UNCHANGED << ask, said, device, mixed >>
  BY <1>1 DEF Retire, Gone
<1>3. id \in done /\ id \in pool.live /\ id \in SeqIds
  <2> DEFINE F == { j \in 1 .. Len(running) : running[j] \in done }
  <2>1. Len(running) \in Nat
    BY LenProperties DEF SpecInv, Types, RowTypes
  <2>2. done \subseteq pool.live /\ pool.live \subseteq SeqIds
    BY PoolLens DEF SpecInv, Scratch
  <2>3. F # {}
    BY <1>2, <2>2 DEF SpecInv, RunningOk
  <2>4. F \in SUBSET (1 .. Len(running))
    OBVIOUS
  <2>5. Max(F) \in F
    BY <2>1, <2>3, <2>4, LargestRow
  <2> QED
    BY <1>1, <2>2, <2>5
<1>4. /\ pool'.live = pool.live \ {id}
      /\ \A other \in SeqIds \ {id} : pool'.slots[other] = pool.slots[other]
  BY <1>2, <1>3, WholeFree DEF SpecInv, PoolOk
<1>5. row \in [SeqIds -> RowStates] /\ pool.live \subseteq SeqIds
  BY PoolLens DEF SpecInv, Types, RowTypes
<1>6. \A x \in pool.live : x # id => SameRow(x) /\ SameMemory(x)
  BY <1>2, <1>3, <1>4, <1>5 DEF SameRow, SameMemory, device
<1>7. \A x : Idle(x)
  BY <1>2 DEF Idle, InHand
<1>8. ~InHand' /\ phase # "fail"
  BY <1>2 DEF InHand
<1> QED
  BY <1>2, <1>3, <1>4, <1>6, <1>7, <1>8, QuietMemory

LEMMA FailingMemory ==
  ASSUME SpecInv, MemoryOk, ForwardFails \/ SettleFails \/ FailRow
  PROVE  MemoryOk'
BY DEF ForwardFails, SettleFails, FailRow, MemoryOk

LEMMA FailRestMemory ==
  ASSUME SpecInv, NEW rs, FailRest(rs)
  PROVE  MemoryOk'
<1>1. running = << >> /\ phase' = "admit" /\ pool' = pool
  BY DEF FailRest
<1>2. pool.live = {}
  <2>1. Len(running) = 0 /\ pool.live \subseteq SeqIds
    BY <1>1, PoolLens DEF SpecInv
  <2> QED
    BY <2>1 DEF SpecInv, RunningOk
<1> QED
  BY <1>1, <1>2 DEF MemoryOk, InHand

LEMMA AdmitMemory ==
  ASSUME SpecInv, MemoryOk, NEW id \in SeqIds, Admit(id)
  PROVE  MemoryOk'
<1>1. PICK r \in Requests : row' = [row EXCEPT ![id] = [ NoRow EXCEPT !.req = r ]]
  BY DEF Admit
<1>2. /\ phase = "admit" /\ phase' = "admit" /\ CanAlloc(pool, id) /\ pool' = Alloc(pool, id)
      /\ UNCHANGED << ask, said, device, mixed, done >>
  BY DEF Admit
<1>3. pool \in Pools /\ row \in [SeqIds -> RowStates]
  BY DEF SpecInv, PoolOk, WholePool, Types, RowTypes
<1>4. pool'.live = pool.live \cup {id} /\ pool'.slots = pool.slots /\ id \notin pool.live
  BY <1>2, <1>3, AllocFacts DEF CanAlloc
<1>5. ~InHand /\ ~InHand' /\ phase # "fail" /\ \A x : Idle(x)
  BY <1>2 DEF InHand, Idle
<1>6. ASSUME NEW x \in pool.live \ done, row'[x].req \notin mixed PROVE RestMemory(x)'
  <2>1. x \in SeqIds /\ x # id
    BY <1>4, PoolLens DEF SpecInv
  <2>2. row'[x] = row[x]
    BY <1>1, <1>3, <2>1
  <2>3. SameRow(x) /\ SameMemory(x)
    BY <1>2, <1>4, <2>1, <2>2 DEF SameRow, SameMemory, device
  <2>4. RestMemory(x) /\ Resting(x)
    BY <1>5, <1>6, <2>2, IdleRests DEF MemoryOk
  <2> QED
    BY <2>3, <2>4, RestsOn
<1>7. RestMemory(id)'
  <2>1. row'[id] = [ NoRow EXCEPT !.req = r ]
    BY <1>1, <1>3
  <2>2. row'[id].prefilled = 0 /\ row'[id].req = r
    BY <2>1 DEF NoRow
  <2>3. PICK p, s : p = ask'[r].prompt /\ s = said'[r]
    OBVIOUS
  <2>4. Len(p) \in Nat /\ Len(p) >= 1 /\ s \in Seq(Tokens)
    <3>1. ask[r] \in Asks /\ said[r] \in Seq(Tokens)
      BY DEF SpecInv, Types, TextTypes
    <3>2. PICK a : a = ask[r]
      OBVIOUS
    <3>3. Len(a.prompt) \in 1 .. MaxSeq - 1
      BY <3>1, <3>2, SpeculationSizes
    <3>4. p = a.prompt /\ s \in Seq(Tokens)
      BY <1>2, <2>3, <3>1, <3>2
    <3>5. PICK l : l = Len(a.prompt)
      OBVIOUS
    <3>6. l \in Nat /\ l >= 1
      BY <3>3, <3>5, PoolSizes
    <3> QED
      BY <3>4, <3>5, <3>6
  <2>5. ~PromptComplete(id)'
    <3>1. PICK l : l = Len(p)
      OBVIOUS
    <3>2. ~(0 >= l)
      BY <2>4, <3>1
    <3> QED
      BY <2>2, <2>3, <3>1, <3>2, Zenon DEF PromptComplete, Prompt
  <2>6. Fed(id)' = 0
    BY <2>2, <2>5 DEF Fed
  <2>7. Text(id)' = s
    BY <2>2, <2>3 DEF Text
  <2>8. PICK t : t = SubSeq(s, 1, 0)
    OBVIOUS
  <2>9. Len(t) = 0
    <3>1. Len(s) \in Nat
      BY <2>4, LenProperties
    <3>2. 0 \in 0 .. Len(s)
      BY <3>1
    <3> QED
      BY <2>4, <2>8, <3>2, PrefixFacts
  <2>10. t = SubSeq(Text(id)', 1, Fed(id)')
    BY <2>6, <2>7, <2>8
  <2>11. ~(Len(t) > 0) /\ 1 .. Len(t) = {}
    BY <2>9
  <2> QED
    BY <2>10, <2>11 DEF RestMemory, Remembers, HasKv, Holds
<1> QED
  BY <1>2, <1>4, <1>5, <1>6, <1>7 DEF MemoryOk

(* A beginning of a text, and tokens behind it. *)
LEMMA GoalParts ==
  ASSUME NEW t \in Seq(Tokens), NEW f \in 0 .. Len(t), NEW s \in Seq(Tokens),
         NEW g, g = SubSeq(t, 1, f) \o s
  PROVE  /\ g \in Seq(Tokens) /\ Len(g) = f + Len(s) /\ f \in Nat /\ Len(s) \in Nat
         /\ SubSeq(g, 1, f) = SubSeq(t, 1, f)
         /\ SubSeq(g, 1, f + Len(s)) = g
         /\ \A k \in 0 .. Len(s) : SubSeq(g, 1, f + k) = SubSeq(t, 1, f) \o SubSeq(s, 1, k)
<1>1. PICK b : b = SubSeq(t, 1, f)
  OBVIOUS
<1>2. b \in Seq(Tokens) /\ Len(b) = f
  BY <1>1, PrefixFacts
<1>3. Len(t) \in Nat /\ Len(s) \in Nat
  BY LenProperties
<1>4. f \in Nat
  BY <1>3
<1>5. /\ g \in Seq(Tokens) /\ SubSeq(g, 1, f) = SubSeq(b, 1, f)
      /\ \A k \in 0 .. Len(s) : SubSeq(g, 1, f + k) = b \o SubSeq(s, 1, k)
  <2>1. /\ b \o s \in Seq(Tokens)
        /\ \A n \in 0 .. Len(b) : SubSeq(b \o s, 1, n) = SubSeq(b, 1, n)
        /\ \A k \in 0 .. Len(s) : SubSeq(b \o s, 1, Len(b) + k) = b \o SubSeq(s, 1, k)
    <3>1. b \in Seq(Tokens) /\ s \in Seq(Tokens)
      BY <1>2
    <3>2. b \o s \in Seq(Tokens)
      BY ONLY <3>1, PrefixOfConcat
    <3>3. \A n \in 0 .. Len(b) : SubSeq(b \o s, 1, n) = SubSeq(b, 1, n)
      BY ONLY <3>1, PrefixOfConcat
    <3>4. \A k \in 0 .. Len(s) : SubSeq(b \o s, 1, Len(b) + k) = b \o SubSeq(s, 1, k)
      BY ONLY <3>1, PrefixOfConcat
    <3> QED
      BY <3>2, <3>3, <3>4
  <2>2. f \in 0 .. Len(b)
    BY <1>2, <1>4
  <2> QED
    BY <1>1, <1>2, <2>1, <2>2
<1>6. SubSeq(b, 1, f) = b
  BY <1>2, WholePrefix
<1>7. Len(g) = f + Len(s)
  BY <1>1, <1>2, ConcatProperties
<1>8. SubSeq(g, 1, f + Len(s)) = g
  BY <1>5, <1>7, WholePrefix
<1> QED
  BY <1>1, <1>3, <1>4, <1>5, <1>6, <1>7, <1>8

LEMMA MakePlanMemory ==
  ASSUME SpecInv, SpecInv', MemoryOk, MakePlan
  PROVE  MemoryOk'
<1>1. /\ phase = "draft" /\ phase' \in {"fail", "forward"}
      /\ UNCHANGED << texts, pool, row, device, mixed, done >>
  BY DEF MakePlan
<1>2. ~InHand /\ phase # "fail" /\ done = {}
  BY <1>1 DEF InHand, SpecInv, Scratch
<1>3. \A x : Idle(x) /\ SameRow(x) /\ SameMemory(x)
  BY <1>1, <1>2, SameDevice DEF Idle, SameRow, texts
<1>4. ASSUME NEW x \in pool.live, row[x].req \notin mixed PROVE RestMemory(x) /\ Resting(x)
  BY <1>2, <1>3, <1>4, IdleRests DEF MemoryOk
<1>5. CASE phase' = "fail"
  BY <1>5 DEF MemoryOk
<1>6. CASE phase' = "forward"
  <2>1. ASSUME NEW i \in Items(plan'), row'[plan'[i].id].req \notin mixed' PROVE GoingMemory(i)'
    <3>1. PICK x : x = plan'[i]
      OBVIOUS
    <3>2. Going(i)'
      BY <1>6 DEF SpecInv, PlanOk, InHand, IsOver
    <3>3. Ran(i)' = 0 /\ ~Pending(i)'
      BY <1>6 DEF Ran, Pending
    <3>4. x.id \in pool.live /\ SeqLen(pool', x.id) = x.from + Ran(i)'
      BY <1>1, <3>1, <3>2 DEF Going
    <3>5. /\ plan' \in Seq(PlanItems) /\ i \in 1 .. Len(plan')
      BY DEF SpecInv, Types, StepTypes, Items
    <3>6. x.from \in Nat /\ x.toks \in Seq(Tokens)
      BY <3>1, <3>5, PlanItem
    <3>7. RestMemory(x.id) /\ Resting(x.id)
      BY <1>1, <1>4, <2>1, <3>1, <3>4
    <3>8. /\ Text(x.id) \in Seq(Tokens) /\ Fed(x.id) \in 0 .. Len(Text(x.id))
          /\ SeqLen(pool, x.id) = Fed(x.id) /\ SeqLen(pool, x.id) \in Nat
          /\ Len(SubSeq(Text(x.id), 1, Fed(x.id))) = Fed(x.id)
      BY <3>4, <3>7, FedFacts
    <3>9. PICK f, s : f = x.from /\ s = Text(x.id)
      OBVIOUS
    <3>10. Fed(x.id) = f
      BY <1>1, <3>3, <3>4, <3>6, <3>8, <3>9
    <3>11. PICK t : t = SubSeq(s, 1, f)
      OBVIOUS
    <3>12. HasKv(x.id, t) /\ Holds(state, x.id, t) /\ Holds(conv, x.id, t)
      BY <3>7, <3>9, <3>10, <3>11 DEF RestMemory, Remembers
    <3>13. Len(t) \in Nat /\ Len(t) <= SeqLen(pool, x.id)
      BY <3>6, <3>8, <3>9, <3>10, <3>11
    <3>14. HasKv(x.id, t)' /\ (Holds(state, x.id, t))' /\ (Holds(conv, x.id, t))'
      BY <1>3, <3>8, <3>12, <3>13, RemembersKept
    <3>15. PICK g : g = t \o x.toks
      OBVIOUS
    <3>16. Goal(i)' = g
      <4>1. Text(x.id)' = s
        BY <1>3, <3>9, UntouchedText
      <4> QED
        BY <3>1, <3>9, <3>11, <3>15, <4>1 DEF Goal
    <3>17. SubSeq(g, 1, f) = t
      BY <3>6, <3>8, <3>9, <3>10, <3>11, <3>15, GoalParts
    <3>18. f + 0 = f
      BY <3>6, <3>9
    <3>19. SubSeq(Goal(i)', 1, plan'[i].from + Ran(i)') = t
      BY <3>1, <3>3, <3>9, <3>16, <3>17, <3>18
    <3>20. Remembers(plan[i].id, SubSeq(Goal(i), 1, plan[i].from + Ran(i)))'
      BY <3>1, <3>14, <3>19 DEF Remembers, HasKv, Holds
    <3> QED
      BY <1>6, <3>3, <3>20 DEF GoingMemory
  <2>2. ASSUME NEW x \in pool'.live \ done', row'[x].req \notin mixed' PROVE RestMemory(x)'
    <3>1. x \in pool.live /\ row[x].req \notin mixed
      BY <1>1, <2>2
    <3> QED
      BY <1>3, <1>4, <3>1, RestsOn
  <2> QED
    BY <2>1, <2>2 DEF MemoryOk
<1> QED
  BY <1>1, <1>5, <1>6

(* The steps of a pass that answer and leave memory alone. *)
LEMMA AnsweringMemory ==
  ASSUME SpecInv, SpecInv', MemoryOk, Sample \/ SettleNext
  PROVE  MemoryOk'
<1>1. /\ UNCHANGED << texts, pool, row, device, mixed, done, plan, outcome, journal >>
      /\ phase' \in {"settle", "advance"} /\ phase \in {"sample", "settle"}
      /\ \/ phase = "sample" /\ phase' = "settle" /\ at' = 1
         \/ phase = "settle" /\ at > Len(plan) /\ phase' = "advance" /\ at' = 1
         \/ /\ phase = "settle" /\ at <= Len(plan) /\ plan[at].kind # "verify"
            /\ at' = at + 1 /\ phase' = "settle"
  <2>1. at \in Nat /\ Len(plan) \in Nat
    BY LenProperties DEF SpecInv, Types, StepTypes
  <2> QED
    BY <2>1 DEF Sample, SettleNext
<1>2. InHand /\ InHand' /\ phase' # "sample"
  BY <1>1 DEF InHand
<1>3. \A x : SameRow(x) /\ SameMemory(x)
  BY <1>1, SameDevice DEF SameRow, texts
<1>4. at \in Nat \ {0} /\ Len(plan) \in Nat
  BY LenProperties DEF SpecInv, Types, StepTypes
<1>5. ASSUME NEW i \in Items(plan)
      PROVE  /\ IsSettled(i)' <=> IsSettled(i)
             /\ ~IsOver(i)' /\ ~IsOver(i)
  <2>1. i \in 1 .. Len(plan) /\ i \in Nat /\ i >= 1 /\ i <= Len(plan)
    BY <1>4 DEF Items
  <2>2. CASE phase = "sample" /\ phase' = "settle" /\ at' = 1
    BY <1>1, <2>1, <2>2 DEF IsSettled, IsOver
  <2>3. CASE phase = "settle" /\ at > Len(plan) /\ phase' = "advance" /\ at' = 1
    <3>1. i < at /\ ~(i < at')
      BY <1>4, <2>1, <2>3
    <3> QED
      BY <1>1, <2>3, <3>1 DEF IsSettled, IsOver
  <2>4. CASE /\ phase = "settle" /\ at <= Len(plan) /\ plan[at].kind # "verify"
             /\ at' = at + 1 /\ phase' = "settle"
    <3>1. i = at \/ (i < at <=> i < at')
      BY <1>4, <2>1, <2>4
    <3> QED
      BY <1>1, <2>4, <3>1 DEF IsSettled, IsOver
  <2> QED
    BY <1>1, <2>2, <2>3, <2>4
<1>6. \A i \in Items(plan) : /\ Pending(i)' <=> Pending(i)
                             /\ Ran(i)' = Ran(i)
  BY <1>1, <1>2, <1>5 DEF Pending, ToSettle, Ran
<1>7. -1 \notin SeqIds
  BY PoolSizes DEF SeqIds
<1>8. -1 \notin pool'.live \ done'
  BY <1>1, <1>7, PoolLens DEF SpecInv
<1>9. PICK but : but = -1
  OBVIOUS
<1>10. but \notin pool'.live \ done'
  BY <1>8, <1>9
<1>11. \A x \in pool'.live \ done' :
         /\ x \in pool.live \ done /\ row'[x].req = row[x].req
         /\ x # but => SameRow(x) /\ SameMemory(x)
  BY <1>1, <1>3
<1>12. \A i \in Items(plan) : plan[i].id # but =>
         /\ IsOver(i)' <=> IsOver(i)
         /\ Pending(i)' <=> Pending(i)
         /\ Ran(i)' = Ran(i)
         /\ journal'.conv_pre[plan[i].id] = journal.conv_pre[plan[i].id]
         /\ journal'.taped[plan[i].id] = journal.taped[plan[i].id]
  BY <1>1, <1>5, <1>6
<1> QED
  BY <1>1, <1>2, <1>10, <1>11, <1>12, HandMemory

(* The pass: where the keys are, and what becomes of a row's state. *)
LEMMA ForwardKeys ==
  ASSUME SpecInv, Forward
  PROVE  /\ phase = "forward" /\ phase' = "sample" /\ InHand /\ InHand'
         /\ plan' = plan /\ pool'.live = pool.live /\ done' = done
         /\ \A x : SameRow(x)
         /\ \A i \in Items(plan) : \A pos \in 1 .. Len(plan[i].toks) :
              kv'[pool'.slots[plan[i].id][plan[i].from + pos]] = SubSeq(Goal(i), 1, plan[i].from + pos)
         /\ \A id \in SeqIds : \A pos \in 1 .. SeqLen(pool, id) :
              kv'[pool'.slots[id][pos]] = kv[pool.slots[id][pos]]
<1>1. /\ phase = "forward" /\ phase' = "sample"
      /\ pool' = Extended[Len(plan)] /\ kv' = KvAfter(pool') /\ plan' = plan /\ done' = done
      /\ UNCHANGED << texts, row >>
  BY DEF Forward, step
<1>2. Room
  BY <1>1, RoomFacts
<1>3. Reached(Len(plan), pool')
  BY <1>1, <1>2, ExtendedFacts
<1>4. \A x : SameRow(x)
  BY <1>1 DEF SameRow, texts
<1>5. PICK q : q = pool'
  OBVIOUS
<1>6. /\ \A i \in Items(plan) : \A pos \in 1 .. Len(plan[i].toks) :
           KvAfter(q)[q.slots[plan[i].id][plan[i].from + pos]] = SubSeq(Goal(i), 1, plan[i].from + pos)
      /\ \A id \in SeqIds : \A pos \in 1 .. SeqLen(pool, id) :
           KvAfter(q)[q.slots[id][pos]] = kv[q.slots[id][pos]]
  <2>1. Reached(Len(plan), q)
    BY <1>3, <1>5
  <2> QED
    BY <1>1, <2>1, KvAfterFacts
<1>7. \A id \in SeqIds : \A pos \in 1 .. SeqLen(pool, id) : q.slots[id][pos] = pool.slots[id][pos]
  BY <1>3, <1>5 DEF Reached
<1>8. kv' = KvAfter(q)
  BY <1>1, <1>5
<1>9. /\ \A i \in Items(plan) : \A pos \in 1 .. Len(plan[i].toks) :
           kv'[q.slots[plan[i].id][plan[i].from + pos]] = SubSeq(Goal(i), 1, plan[i].from + pos)
      /\ \A id \in SeqIds : \A pos \in 1 .. SeqLen(pool, id) :
           kv'[q.slots[id][pos]] = kv[pool.slots[id][pos]]
  BY ONLY <1>6, <1>7, <1>8
<1>10. InHand /\ InHand' /\ pool'.live = pool.live
  BY <1>1, <1>3 DEF InHand, Reached
<1>11. /\ \A i \in Items(plan) : \A pos \in 1 .. Len(plan[i].toks) :
            kv'[pool'.slots[plan[i].id][plan[i].from + pos]] = SubSeq(Goal(i), 1, plan[i].from + pos)
       /\ \A id \in SeqIds : \A pos \in 1 .. SeqLen(pool, id) :
            kv'[pool'.slots[id][pos]] = kv[pool.slots[id][pos]]
  BY ONLY <1>5, <1>9, Zenon
<1> QED
  BY <1>1, <1>4, <1>10, <1>11, Zenon

LEMMA ForwardStates ==
  ASSUME SpecInv, Forward
  PROVE  /\ journal'.armed = journal.armed
         /\ \A id \in journal.armed :
              /\ journal'.conv_pre[id] = conv[id]
              /\ journal'.taped[id] = SubSeq(Flat, journal.start[id] + 1,
                                             journal.start[id] + journal.rows[id])
         /\ \A id \in SeqIds : ~InPass(id) => state'[id] = state[id] /\ conv'[id] = conv[id]
         /\ \A i \in Items(plan) :
              /\ conv'[plan[i].id] = (IF plan[i].from = 0 THEN << >> ELSE conv[plan[i].id]) \o plan[i].toks
              /\ Armed /\ plan[i].from # 0 => state'[plan[i].id] = state[plan[i].id]
              /\ ~Armed => state'[plan[i].id] =
                   (IF plan[i].from = 0 THEN << >> ELSE state[plan[i].id]) \o plan[i].toks
<1>1. /\ phase = "forward" /\ CanRecord /\ journal' = Recorded(Staged(journal))
      /\ conv' = [ id \in SeqIds |-> IF InPass(id) THEN Folded(conv, id) ELSE conv[id] ]
      /\ state' = [ id \in SeqIds |->
                      IF ~InPass(id) THEN state[id]
                      ELSE IF Armed THEN Was(state, id) ELSE Folded(state, id) ]
  BY DEF Forward
<1>2. /\ plan \in Seq(PlanItems) /\ Apart(plan) /\ Len(plan) \in Nat
      /\ \A i \in Items(plan) : plan[i].id \in SeqIds
  BY <1>1, InHandFacts DEF InHand
<1>3. /\ journal'.armed = journal.armed
      /\ \A id \in journal.armed :
           /\ journal'.conv_pre[id] = conv[id]
           /\ journal'.taped[id] = SubSeq(Flat, journal.start[id] + 1,
                                          journal.start[id] + journal.rows[id])
  <2>1. Flat \in Seq(Tokens)
    <3>1. Len(plan) \in 0 .. Len(plan)
      BY <1>2
    <3> QED
      BY <1>2, <3>1, FlatFacts DEF Flat
  <2>2. journal \in Journals /\ conv \in [SeqIds -> Seq(Tokens)]
    BY DEF SpecInv, Types, DeviceTypes
  <2> QED
    BY <1>1, <2>1, <2>2, TapeFacts
<1>4. \A id \in SeqIds : ~InPass(id) => state'[id] = state[id] /\ conv'[id] = conv[id]
  BY <1>1
<1>5. ASSUME NEW i \in Items(plan)
      PROVE  /\ conv'[plan[i].id] = (IF plan[i].from = 0 THEN << >> ELSE conv[plan[i].id]) \o plan[i].toks
             /\ Armed /\ plan[i].from # 0 => state'[plan[i].id] = state[plan[i].id]
             /\ ~Armed => state'[plan[i].id] =
                  (IF plan[i].from = 0 THEN << >> ELSE state[plan[i].id]) \o plan[i].toks
  <2>1. PICK k : k = plan[i].id
    OBVIOUS
  <2>2. k \in SeqIds /\ InPass(k) /\ Mine(k) = i
    BY <1>2, <2>1, MineFacts
  <2>3. /\ conv'[k] = Folded(conv, k)
        /\ state'[k] = IF Armed THEN Was(state, k) ELSE Folded(state, k)
    BY <1>1, <2>2
  <2> QED
    BY <2>1, <2>2, <2>3 DEF Folded, Was
<1> QED
  BY <1>3, <1>4, <1>5

(* An item the pass does justice has its goal in memory, or the means to it. *)
LEMMA ForwardItem ==
  ASSUME SpecInv, MemoryOk, Forward, NEW i \in Items(plan),
         row[plan[i].id].req \notin mixed'
  PROVE  GoingMemory(i)'
<1>0. /\ phase = "forward" /\ phase' = "sample" /\ InHand /\ InHand' /\ plan' = plan
      /\ \A x : SameRow(x)
  BY ForwardKeys
<1>1. PICK x, g, b : x = plan[i] /\ g = Goal(i) /\ b = Before(i)
  OBVIOUS
<1>2. /\ ~IsOver(i) /\ ~IsSettled(i) /\ Going(i) /\ Added(i) = 0 /\ Ran(i) = 0
      /\ SeqLen(pool, x.id) = x.from
  BY <1>0, <1>1, RoomFacts
<1>3. /\ x.id \in SeqIds /\ x.from \in Nat /\ x.toks \in Seq(Tokens) /\ Len(x.toks) \in Nat
      /\ Text(x.id) \in Seq(Tokens) /\ x.from \in 0 .. Len(Text(x.id)) /\ Len(x.toks) >= 1
      /\ x.kind \in {"verify", "decode", "prefill"}
      /\ plan \in Seq(PlanItems) /\ Apart(plan)
  BY <1>0, <1>1, <1>2, GoalFacts, InHandFacts
<1>4. /\ b = SubSeq(Text(x.id), 1, x.from) /\ b \in Seq(Tokens) /\ Len(b) = x.from
      /\ g = b \o x.toks /\ g \in Seq(Tokens) /\ Len(g) = x.from + Len(x.toks)
      /\ SubSeq(g, 1, x.from) = b /\ SubSeq(g, 1, x.from + Len(x.toks)) = g
  <2>1. b = SubSeq(Text(x.id), 1, x.from) /\ g = SubSeq(Text(x.id), 1, x.from) \o x.toks
    BY <1>1 DEF Before, Goal
  <2>2. b \in Seq(Tokens) /\ Len(b) = x.from
    BY <1>3, <2>1, PrefixFacts
  <2>3. PICK t, s, f : t = Text(x.id) /\ s = x.toks /\ f = x.from
    OBVIOUS
  <2>4. t \in Seq(Tokens) /\ s \in Seq(Tokens) /\ f \in 0 .. Len(t) /\ g = SubSeq(t, 1, f) \o s
    BY <1>3, <2>1, <2>3
  <2>5. g \in Seq(Tokens) /\ Len(g) = f + Len(s)
    BY ONLY <2>4, GoalParts
  <2>6. SubSeq(g, 1, f) = SubSeq(t, 1, f)
    BY ONLY <2>4, GoalParts
  <2>7. SubSeq(g, 1, f + Len(s)) = g
    BY ONLY <2>4, GoalParts
  <2> QED
    BY <2>1, <2>2, <2>3, <2>5, <2>6, <2>7
<1>5. Goal(i)' = g /\ Before(i)' = b
  BY <1>0, <1>1, GoalKept
<1>6. mixed' = mixed \cup Wronged
  BY DEF Forward
<1>7. HasKv(x.id, b) /\ Holds(state, x.id, b) /\ Holds(conv, x.id, b)
  <2>1. GoingMemory(i) /\ ~Pending(i)
    BY <1>0, <1>1, <1>2, <1>6 DEF MemoryOk, Pending
  <2>2. x.from + Ran(i) = x.from
    BY <1>2, <1>3
  <2>3. SubSeq(Goal(i), 1, plan[i].from + Ran(i)) = b
    <3>1. PICK r : r = Ran(i)
      OBVIOUS
    <3>2. x.from + r = x.from
      BY <2>2, <3>1
    <3>3. SubSeq(g, 1, x.from + r) = b
      BY <1>4, <3>2
    <3> QED
      BY <1>1, <3>1, <3>3
  <2>4. Remembers(plan[i].id, SubSeq(Goal(i), 1, plan[i].from + Ran(i)))
    BY <2>1 DEF GoingMemory
  <2>5. Remembers(x.id, b)
    BY <1>1, <2>3, <2>4
  <2> QED
    BY <2>5 DEF Remembers
<1>8. HasKv(x.id, g)'
  <2> SUFFICES ASSUME NEW pos \in 1 .. Len(g)
               PROVE  kv'[pool'.slots[x.id][pos]] = SubSeq(g, 1, pos)
    BY DEF HasKv
  <2>1. pos \in Nat /\ pos >= 1 /\ pos <= x.from + Len(x.toks)
    BY <1>3, <1>4
  <2>2. CASE pos <= x.from
    <3>1. pos \in 1 .. SeqLen(pool, x.id) /\ pos \in 1 .. Len(b)
      BY <1>2, <1>3, <1>4, <2>1, <2>2
    <3>2. kv'[pool'.slots[x.id][pos]] = kv[pool.slots[x.id][pos]]
      BY <1>3, <3>1, ForwardKeys
    <3>3. kv[pool.slots[x.id][pos]] = SubSeq(b, 1, pos)
      BY <1>7, <3>1 DEF HasKv
    <3>4. x.from \in 0 .. Len(g) /\ pos \in 0 .. x.from
      BY <1>3, <1>4, <2>1, <2>2
    <3>5. SubSeq(SubSeq(g, 1, x.from), 1, pos) = SubSeq(g, 1, pos)
      BY <1>4, <3>4, PrefixOfPrefix
    <3> QED
      BY <1>4, <3>2, <3>3, <3>5
  <2>3. CASE ~(pos <= x.from)
    <3>1. PICK k : k = pos - x.from
      OBVIOUS
    <3>2. k \in 1 .. Len(x.toks) /\ x.from + k = pos
      BY <1>3, <2>1, <2>3, <3>1
    <3>3. kv'[pool'.slots[x.id][x.from + k]] = SubSeq(g, 1, x.from + k)
      BY <1>1, <3>2, ForwardKeys
    <3> QED
      BY <3>2, <3>3
  <2> QED
    BY <2>2, <2>3
<1>9. Ran(i)' = Len(x.toks) /\ ~IsSettled(i)'
  BY <1>0, <1>1 DEF Ran, IsSettled
<1>10. CASE x.kind = "verify"
  <2>1. ToSettle(i) /\ Pending(i)'
    <3>1. i \in Verifies(plan)
      BY <1>1, <1>10 DEF Verifies, Items
    <3> QED
      BY <1>0, <1>2, <1>9, <3>1 DEF ToSettle, Pending
  <2>2. /\ x.id \in journal.armed /\ Armed
        /\ journal.rows[x.id] = Len(x.toks) /\ journal.start[x.id] = RowStart(plan, i)
    BY <1>0, <1>1, <2>1 DEF SpecInv, JournalOk, Armed
  <2>3. x.from >= 1
    <3>1. FitsDecoding(x, 0)
      BY <1>1, <1>2, <1>10 DEF Going, FitsPrefill
    <3>2. PICK m, p, n : m = Len(Text(x.id)) /\ p = Len(Prompt(x.id)) /\ n = Generated(x.id)
      OBVIOUS
    <3>3. x.from + 1 + 0 = m /\ n >= 1 + 0 /\ n = m - p
      BY <3>1, <3>2 DEF FitsDecoding, Generated
    <3>4. Serves(x.id)
      BY <1>0, <1>1, <1>2, GoalFacts
    <3>5. m \in Nat /\ p \in Nat /\ p >= 1
      BY <1>3, <3>2, <3>4, RowFacts DEF SpecInv
    <3>6. PICK f : f = x.from
      OBVIOUS
    <3>7. f \in Nat /\ f + 1 + 0 = m
      BY <1>3, <3>3, <3>6
    <3>8. f >= 1
      BY ONLY <3>3, <3>5, <3>7
    <3> QED
      BY <3>6, <3>8
  <2>4. RowStart(plan, i) = TokenStart(plan, i)
    BY <1>1, <1>6, <2>2 DEF Wronged
  <2>5. SubSeq(Flat, journal.start[x.id] + 1, journal.start[x.id] + journal.rows[x.id]) = x.toks
    <3>1. i \in 1 .. Len(plan)
      BY DEF Items
    <3>2. SubSeq(Flattened(plan, Len(plan)), Size(plan, i - 1) + 1, Size(plan, i - 1) + Len(plan[i].toks))
            = plan[i].toks
      BY <1>3, <3>1, FlatWindow
    <3>3. TokenStart(plan, i) = Size(plan, i - 1)
      BY DEF TokenStart, Size
    <3> QED
      BY <1>1, <2>2, <2>4, <3>2, <3>3 DEF Flat
  <2>6. journal'.conv_pre[x.id] = b /\ journal'.taped[x.id] = x.toks
    <3>1. conv[x.id] = b
      BY <1>4, <1>7, <2>3 DEF Holds
    <3> QED
      BY <2>2, <2>5, <3>1, ForwardStates
  <2>7. (Holds(state, x.id, b))'
    <3>1. state[x.id] = b
      BY <1>4, <1>7, <2>3 DEF Holds
    <3>2. x.from # 0
      BY <1>3, <2>3
    <3>3. state'[x.id] = state[x.id]
      BY <1>1, <2>2, <3>2, ForwardStates
    <3> QED
      BY <3>1, <3>3 DEF Holds
  <2>8. /\ HasKv(plan[i].id, Goal(i))' /\ (Holds(state, plan[i].id, Before(i)))'
        /\ journal'.conv_pre[plan'[i].id] = Before(i)' /\ journal'.taped[plan'[i].id] = plan'[i].toks
    BY <1>0, <1>1, <1>5, <1>8, <2>6, <2>7 DEF HasKv, Holds
  <2>9. plan'[i].kind = "verify"
    BY <1>0, <1>1, <1>10
  <2> QED
    BY <2>1, <2>8, <2>9 DEF GoingMemory
<1>11. CASE x.kind # "verify"
  <2>1. ~Armed /\ ~Armed'
    <3>1. ~Armed
      BY <1>1, <1>6, <1>11 DEF Wronged
    <3> QED
      BY <3>1, ForwardStates DEF Armed
  <2>2. ~Pending(i)'
    BY <1>0, <1>1, <1>11 DEF Pending, ToSettle, Verifies
  <2>3. ASSUME NEW m, Len(b) > 0 => m = b
        PROVE  (IF x.from = 0 THEN << >> ELSE m) \o x.toks = g
    <3>1. CASE x.from = 0
      <4>1. b = << >>
        BY <1>4, <3>1, EmptySeq
      <4> QED
        BY <1>4, <3>1, <4>1
    <3>2. CASE x.from # 0
      <4>1. Len(b) > 0
        BY <1>3, <1>4, <3>2
      <4>2. m = b
        BY <2>3, <4>1
      <4> QED
        BY <1>4, <3>2, <4>2
    <3> QED
      BY <3>1, <3>2
  <2>4. state'[x.id] = g /\ conv'[x.id] = g
    <3>1. /\ state'[x.id] = (IF x.from = 0 THEN << >> ELSE state[x.id]) \o x.toks
          /\ conv'[x.id] = (IF x.from = 0 THEN << >> ELSE conv[x.id]) \o x.toks
      BY <1>1, <2>1, ForwardStates
    <3>2. PICK m, c : m = state[x.id] /\ c = conv[x.id]
      OBVIOUS
    <3>3. (Len(b) > 0 => m = b) /\ (Len(b) > 0 => c = b)
      BY <1>7, <3>2 DEF Holds
    <3>4. (IF x.from = 0 THEN << >> ELSE m) \o x.toks = g
      BY ONLY <2>3, <3>3, Zenon
    <3>5. (IF x.from = 0 THEN << >> ELSE c) \o x.toks = g
      BY ONLY <2>3, <3>3, Zenon
    <3> QED
      BY ONLY <3>1, <3>2, <3>4, <3>5, Zenon
  <2>5. SubSeq(Goal(i)', 1, plan'[i].from + Ran(i)') = g
    BY <1>0, <1>1, <1>4, <1>5, <1>9
  <2>6. Remembers(plan[i].id, SubSeq(Goal(i), 1, plan[i].from + Ran(i)))'
    BY <1>0, <1>1, <1>8, <2>4, <2>5 DEF Remembers, HasKv, Holds
  <2> QED
    BY <2>1, <2>2, <2>6 DEF GoingMemory
<1> QED
  BY <1>10, <1>11

LEMMA ForwardMemory ==
  ASSUME SpecInv, MemoryOk, Forward
  PROVE  MemoryOk'
<1>0. /\ phase = "forward" /\ phase' = "sample" /\ InHand /\ InHand' /\ plan' = plan
      /\ pool'.live = pool.live /\ done' = done
      /\ \A x : SameRow(x)
      /\ mixed' = mixed \cup Wronged
  BY ForwardKeys DEF Forward
<1>1. \A i \in Items(plan) : row'[plan[i].id].req \notin mixed' => GoingMemory(i)'
  BY <1>0, ForwardItem DEF SameRow
<1>2. ASSUME NEW x \in pool.live \ done, Idle(x)', row'[x].req \notin mixed'
      PROVE  RestMemory(x)'
  <2>1. \A i \in Items(plan) : plan[i].id # x
    BY <1>0, <1>2 DEF Idle, IsOver, Items
  <2>2. Idle(x) /\ ~InPass(x) /\ x \in SeqIds
    BY <2>1, PoolLens DEF Idle, InPass, SpecInv
  <2>3. row[x].req \notin mixed
    BY <1>0, <1>2 DEF SameRow
  <2>4. RestMemory(x) /\ Resting(x)
    BY <1>0, <2>2, <2>3, IdleRests DEF MemoryOk
  <2>5. SameMemory(x)
    BY <2>2, ForwardKeys, ForwardStates DEF SameMemory
  <2> QED
    BY <1>0, <2>4, <2>5, RestsOn
<1> QED
  BY <1>0, <1>1, <1>2 DEF MemoryOk

-----------------------------------------------------------------------------
(* What settling does for the item it comes to, and leaves of the others. *)
SettledHere(here, x, accepted, token) ==
  /\ phase = "settle" /\ phase' = "settle" /\ InHand /\ InHand' /\ here \in Items(plan)
  /\ plan' = plan /\ done = {} /\ done' = {} /\ \A y : SameRow(y)
  /\ UNCHANGED << texts, kv, row, mixed, sampled >>
  /\ Pending(here) /\ ~Pending(here)' /\ ~IsOver(here) /\ ~IsSettled(here) /\ IsSettled(here)'
  /\ \A i \in Items(plan) : /\ ~IsOver(i) /\ ~IsOver(i)'
                            /\ (i # here => (IsSettled(i)' <=> IsSettled(i)))
  /\ x.kind = "verify" /\ FitsDecoding(x, 0)
  /\ accepted \in Nat /\ accepted + 1 \in 0 .. Len(x.toks) /\ accepted <= Len(Tail(x.toks))
  /\ outcome' = [outcome EXCEPT ![x.id] = Append(SubSeq(Tail(x.toks), 1, accepted), token)]
  /\ conv' = [conv EXCEPT ![x.id] = Rewound(x.id, accepted + 1)]
  /\ state' = [state EXCEPT
       ![x.id] = state[x.id] \o SubSeq(journal.taped[x.id], 1, accepted + 1)]
  /\ journal'.taped = journal.taped /\ journal'.conv_pre = journal.conv_pre
  /\ pool' = Truncate(pool, x.id, x.from + (accepted + 1))

LEMMA SettleFacts ==
  ASSUME SpecInv, NEW accepted \in 0 .. K, NEW token \in Tokens, Settle(accepted, token),
         NEW here, here = at, NEW x, x = plan[here]
  PROVE  SettledHere(here, x, accepted, token)
<1>0. /\ phase = "settle" /\ phase' = "settle" /\ here <= Len(plan) /\ at' = at + 1
      /\ x.kind = "verify" /\ accepted <= Len(Tail(x.toks))
      /\ pool' = Truncate(pool, x.id, x.from + (accepted + 1))
      /\ conv' = [conv EXCEPT ![x.id] = Rewound(x.id, accepted + 1)]
      /\ state' = [state EXCEPT
           ![x.id] = state[x.id] \o SubSeq(journal.taped[x.id], 1, accepted + 1)]
      /\ journal' = [journal EXCEPT !.armed = journal.armed \ {x.id}]
      /\ outcome' = [outcome EXCEPT ![x.id] = Append(SubSeq(Tail(x.toks), 1, accepted), token)]
      /\ UNCHANGED << texts, kv, row, mixed, sampled >> /\ plan' = plan /\ done' = done
  <2>1. state \in [SeqIds -> Seq(Tokens)] /\ journal \in Journals
    BY DEF SpecInv, Types, DeviceTypes
  <2> QED
    BY <2>1 DEF Settle, Kept, Drafted, Journals
<1>1. /\ InHand /\ InHand' /\ at \in Nat \ {0} /\ accepted \in Nat /\ done = {}
  BY <1>0, SpeculationSizes DEF InHand, SpecInv, Types, StepTypes, Scratch
<1>2. Len(plan) \in Nat /\ \A i \in Items(plan) : ~IsOver(i) /\ ~IsOver(i)'
  BY <1>0, <1>1, InHandFacts DEF IsOver
<1>3. here \in Items(plan) /\ here \in Nat
  BY <1>0, <1>1, <1>2 DEF Items
<1>4. \A i \in Items(plan) : i \in Nat /\ (i # at => (i < at + 1 <=> i < at))
  BY <1>1, <1>2 DEF Items
<1>5. \A i \in Items(plan) : i # here => (IsSettled(i)' <=> IsSettled(i))
  BY <1>0, <1>4 DEF IsSettled
<1>6. ~IsSettled(here) /\ IsSettled(here)' /\ Pending(here) /\ ~Pending(here)'
  <2>1. ~(here < at) /\ here < at' /\ here \in 1 .. Len(plan)
    BY <1>0, <1>1, <1>3 DEF Items
  <2>2. plan[here].kind = "verify" /\ plan'[here].kind = "verify"
    BY <1>0
  <2>3. ~IsSettled(here) /\ IsSettled(here)'
    BY <1>0, <2>1, <2>2 DEF IsSettled
  <2> QED
    BY <1>0, <1>1, <2>1, <2>2, <2>3 DEF Pending, ToSettle, Verifies
<1>7. /\ Going(here) /\ x.toks \in Seq(Tokens) /\ Len(x.toks) \in Nat /\ Len(x.toks) >= 1
  BY <1>1, <1>2, <1>3, InHandFacts, GoalFacts
<1>8. FitsDecoding(x, 0)
  <2>1. Added(here) = 0
    BY <1>0 DEF Added
  <2>2. FitsPrefill(x) \/ FitsDecoding(x, 0)
    BY <1>7, <2>1 DEF Going
  <2> QED
    BY <1>0, <2>2 DEF FitsPrefill
<1>9. accepted + 1 \in 0 .. Len(x.toks)
  <2>1. PICK t : t = x.toks
    OBVIOUS
  <2>2. t # << >>
    <3>1. Len(<< >>) = 0
      BY EmptySeq
    <3> QED
      BY <1>7, <2>1, <3>1
  <2>3. t \in Seq(Tokens) /\ accepted \in Nat /\ accepted <= Len(Tail(t))
    BY <1>0, <1>1, <1>7, <2>1
  <2>4. accepted + 1 <= Len(t) /\ Len(t) \in Nat
    BY ONLY <2>2, <2>3, token \in Tokens, TakenFacts
  <2>5. accepted + 1 \in 0 .. Len(t)
    BY ONLY <2>3, <2>4
  <2> QED
    BY <2>1, <2>5
<1>10. journal'.taped = journal.taped /\ journal'.conv_pre = journal.conv_pre
  <2>1. journal \in Journals
    BY DEF SpecInv, Types, DeviceTypes
  <2> QED
    BY <1>0, <2>1 DEF Journals
<1>11. \A y : SameRow(y)
  BY <1>0 DEF SameRow, texts
<1> QED
  BY <1>0, <1>1, <1>2, <1>3, <1>5, <1>6, <1>8, <1>9, <1>10, <1>11 DEF SettledHere

LEMMA SettlePool ==
  ASSUME SpecInv, NEW accepted \in 0 .. K, NEW token \in Tokens, Settle(accepted, token),
         NEW here, here = at, NEW x, x = plan[here]
  PROVE  /\ SeqLen(pool', x.id) = x.from + (accepted + 1) /\ pool'.live = pool.live
         /\ \A pos \in 1 .. x.from + (accepted + 1) : pool'.slots[x.id][pos] = pool.slots[x.id][pos]
         /\ \A y \in SeqIds \ {x.id} : pool'.slots[y] = pool.slots[y]
<1> DEFINE keep == accepted + 1
           q == Truncate(pool, x.id, x.from + keep)
<1>1. /\ InHand /\ here \in Items(plan) /\ ~IsOver(here) /\ Pending(here)
      /\ keep \in 0 .. Len(x.toks) /\ pool' = q
  BY SettleFacts DEF SettledHere
<1>2. /\ SeqLen(pool, x.id) = x.from + Len(x.toks) /\ SeqLen(pool, x.id) \in Nat
      /\ x.id \in SeqIds /\ x.id \in pool.live /\ x.from \in Nat /\ Len(x.toks) \in Nat
  BY <1>1, RanFacts, GoalFacts
<1>3. pool \in Pools /\ pool.borrowed[x.id] = 0
  BY <1>2 DEF SpecInv, PoolOk, WholePool
<1>4. x.from + keep \in Nat /\ x.from + keep <= SeqLen(pool, x.id)
  <2>1. PICK k, l, n, f : k = keep /\ l = SeqLen(pool, x.id) /\ n = Len(x.toks) /\ f = x.from
    OBVIOUS
  <2>2. k \in 0 .. n /\ l = f + n /\ l \in Nat /\ f \in Nat /\ n \in Nat
    BY <1>1, <1>2, <2>1
  <2>3. f + k \in Nat /\ f + k <= l
    BY ONLY <2>2
  <2> QED
    BY <2>1, <2>3
<1>5. /\ q.live = pool.live /\ SeqLen(q, x.id) = x.from + keep /\ Moved(pool, q, x.id)
  BY <1>2, <1>3, <1>4, TruncateFacts
<1> HIDE DEF q, keep
<1>6. /\ \A y \in SeqIds \ {x.id} : q.slots[y] = pool.slots[y]
      /\ \A pos \in 1 .. SeqLen(q, x.id) : q.slots[x.id][pos] = pool.slots[x.id][pos]
  BY <1>5 DEF Moved
<1>7. /\ \A pos \in 1 .. x.from + keep : q.slots[x.id][pos] = pool.slots[x.id][pos]
  BY <1>5, <1>6
<1> QED
  BY <1>1, <1>5, <1>6, <1>7 DEF keep

LEMMA SettleMemory ==
  ASSUME SpecInv, SpecInv', MemoryOk, NEW accepted \in 0 .. K, NEW token \in Tokens,
         Settle(accepted, token), NEW here, here = at, NEW x, x = plan[here]
  PROVE  MemoryOk'
<1>0. here = at /\ x = plan[here]
  OBVIOUS
<1>1. PICK id, f, s, k : id = x.id /\ f = x.from /\ s = x.toks /\ k = accepted + 1
  OBVIOUS
<1>2. /\ phase = "settle" /\ phase' = "settle" /\ InHand /\ InHand' /\ here \in Items(plan)
      /\ plan' = plan /\ done = {} /\ done' = {} /\ \A y : SameRow(y)
      /\ UNCHANGED << texts, kv, row, mixed, sampled >>
      /\ Pending(here) /\ ~Pending(here)' /\ ~IsOver(here) /\ ~IsSettled(here) /\ IsSettled(here)'
      /\ \A i \in Items(plan) : /\ ~IsOver(i) /\ ~IsOver(i)'
                                /\ (i # here => (IsSettled(i)' <=> IsSettled(i)))
      /\ x.kind = "verify" /\ FitsDecoding(x, 0)
      /\ accepted \in Nat /\ k \in 0 .. Len(s) /\ accepted <= Len(Tail(s))
      /\ outcome' = [outcome EXCEPT ![id] = Append(SubSeq(Tail(s), 1, accepted), token)]
      /\ conv' = [conv EXCEPT ![id] = Rewound(id, k)]
      /\ state' = [state EXCEPT ![id] = state[id] \o SubSeq(journal.taped[id], 1, k)]
      /\ journal'.taped = journal.taped /\ journal'.conv_pre = journal.conv_pre
  <2>1. SettledHere(here, x, accepted, token)
    BY SettleFacts
  <2> QED
    BY ONLY <1>1, <2>1 DEF SettledHere
<1>3. /\ SeqLen(pool', id) = f + k /\ pool'.live = pool.live
      /\ \A pos \in 1 .. f + k : pool'.slots[id][pos] = pool.slots[id][pos]
      /\ \A y \in SeqIds \ {id} : pool'.slots[y] = pool.slots[y]
  BY <1>0, <1>1, SettlePool
<1>4. /\ id \in SeqIds /\ id \in pool.live /\ Serves(id) /\ f \in Nat /\ s \in Seq(Tokens)
      /\ Len(s) \in Nat /\ Text(id) \in Seq(Tokens) /\ f \in 0 .. Len(Text(id))
  BY <1>0, <1>1, <1>2, GoalFacts
<1>5. Apart(plan) /\ pool.live \subseteq SeqIds
  BY <1>2, InHandFacts, PoolLens DEF SpecInv
<1>6. outcome \in [SeqIds -> Seq(Tokens)] /\ conv \in [SeqIds -> Seq(Tokens)]
      /\ state \in [SeqIds -> Seq(Tokens)]
  BY DEF SpecInv, Types, StepTypes, DeviceTypes
<1>7. f >= 1
  <2>1. PICK m, p : m = Len(Text(id)) /\ p = Len(Prompt(id))
    OBVIOUS
  <2>2. m \in Nat /\ p \in Nat /\ p >= 1 /\ Generated(id) = m - p
    BY <1>4, <2>1, RowFacts DEF SpecInv
  <2>3. Generated(id) >= 1 + 0 /\ f + 1 + 0 = m
    BY <1>1, <1>2, <2>1 DEF FitsDecoding
  <2>4. m - p >= 1 + 0
    BY <2>2, <2>3
  <2> QED
    BY ONLY <1>4, <2>2, <2>3, <2>4
<1>8. PICK g, b : g = Goal(here) /\ b = Before(here)
  OBVIOUS
<1>9. PICK t : t = b \o SubSeq(s, 1, k)
  OBVIOUS
<1>10. /\ b = SubSeq(Text(id), 1, f) /\ g = b \o s /\ g \in Seq(Tokens) /\ Len(g) = f + Len(s)
       /\ SubSeq(g, 1, f + k) = t /\ Len(b) = f
  <2>1. b = SubSeq(Text(id), 1, f) /\ g = SubSeq(Text(id), 1, f) \o s
    BY <1>0, <1>1, <1>8 DEF Goal, Before
  <2>2. PICK y : y = Text(id)
    OBVIOUS
  <2>3. y \in Seq(Tokens) /\ f \in 0 .. Len(y) /\ s \in Seq(Tokens) /\ g = SubSeq(y, 1, f) \o s
    BY <1>4, <2>1, <2>2
  <2>5. g \in Seq(Tokens) /\ Len(g) = f + Len(s)
    BY ONLY <2>3, GoalParts
  <2>6. SubSeq(g, 1, f + k) = SubSeq(y, 1, f) \o SubSeq(s, 1, k)
    <3>1. k \in 0 .. Len(s)
      BY <1>2
    <3>2. \A n \in 0 .. Len(s) : SubSeq(g, 1, f + n) = SubSeq(y, 1, f) \o SubSeq(s, 1, n)
      BY ONLY <2>3, GoalParts
    <3> QED
      BY ONLY <3>1, <3>2, Zenon
  <2>4. Len(b) = f
    BY <1>4, <2>1, PrefixFacts
  <2> QED
    BY <1>9, <2>1, <2>2, <2>4, <2>5, <2>6
<1>11. Ran(here)' = k
  <2>1. outcome'[id] = Append(SubSeq(Tail(s), 1, accepted), token)
    BY <1>2, <1>4, <1>6
  <2>2. Len(Append(SubSeq(Tail(s), 1, accepted), token)) = accepted + 1
    <3>1. s # << >>
      <4>1. Len(<< >>) = 0
        BY EmptySeq
      <4>2. k >= 1
        BY <1>1, <1>2
      <4> QED
        BY <1>2, <4>1, <4>2
    <3> QED
      BY ONLY <1>2, <1>4, <3>1, TakenFacts, token \in Tokens
  <2>3. phase' # "forward" /\ plan'[here].id = id
    BY <1>0, <1>1, <1>2
  <2> QED
    BY <1>1, <1>2, <2>1, <2>2, <2>3 DEF Ran
<1>12. ASSUME row[id].req \notin mixed PROVE GoingMemory(here)'
  <2>1. GoingMemory(here)
    BY <1>0, <1>1, <1>2, <1>12 DEF MemoryOk
  <2>2. /\ HasKv(id, g) /\ Holds(state, id, b)
        /\ journal.conv_pre[id] = b /\ journal.taped[id] = s
    BY <1>0, <1>1, <1>2, <1>8, <2>1 DEF GoingMemory
  <2>3. state[id] = b
    <3>1. Len(b) > 0
      BY <1>4, <1>7, <1>10
    <3> QED
      BY <2>2, <3>1 DEF Holds
  <2>4. conv'[id] = t /\ state'[id] = t
    BY <1>2, <1>4, <1>6, <1>9, <2>2, <2>3 DEF Rewound
  <2>5. f + k \in 0 .. Len(g) /\ f + k \in Nat
    BY <1>2, <1>4, <1>10
  <2>6. Len(t) = f + k
    BY ONLY <1>10, <2>5, PrefixFacts
  <2>7. ASSUME NEW pos \in 1 .. Len(t) PROVE kv'[pool'.slots[id][pos]] = SubSeq(t, 1, pos)
    <3>1. pos \in 1 .. f + k /\ pos \in 1 .. Len(g) /\ pos \in 0 .. f + k
      BY <1>2, <1>4, <1>10, <2>6, <2>5
    <3>2. kv'[pool'.slots[id][pos]] = SubSeq(g, 1, pos)
      BY <1>2, <1>3, <2>2, <3>1 DEF HasKv
    <3>3. SubSeq(SubSeq(g, 1, f + k), 1, pos) = SubSeq(g, 1, pos)
      BY ONLY <1>10, <2>5, <3>1, PrefixOfPrefix
    <3> QED
      BY <1>10, <3>2, <3>3
  <2>8. t = SubSeq(Goal(here)', 1, plan'[here].from + Ran(here)') /\ plan'[here].id = id
    <3>1. Goal(here)' = g
      BY <1>2, <1>8, GoalKept
    <3> QED
      BY <1>0, <1>1, <1>2, <1>10, <1>11, <3>1
  <2>9. Remembers(plan[here].id, SubSeq(Goal(here), 1, plan[here].from + Ran(here)))'
    BY <2>4, <2>7, <2>8 DEF Remembers, HasKv, Holds
  <2> QED
    BY <1>2, <2>9 DEF GoingMemory
<1>13. ~Idle(id)'
  BY <1>0, <1>1, <1>2 DEF Idle
<1>14. \A i \in Items(plan) : plan[i].id = id => i = here
  BY <1>0, <1>1, <1>2, <1>5 DEF Apart, Items
<1>15. \A i \in Items(plan) : plan[i].id # id =>
         /\ IsOver(i)' <=> IsOver(i)
         /\ Pending(i)' <=> Pending(i)
         /\ Ran(i)' = Ran(i)
         /\ journal'.conv_pre[plan[i].id] = journal.conv_pre[plan[i].id]
         /\ journal'.taped[plan[i].id] = journal.taped[plan[i].id]
  <2> SUFFICES ASSUME NEW i \in Items(plan), plan[i].id # id
               PROVE  /\ IsSettled(i)' <=> IsSettled(i)
                      /\ Pending(i)' <=> Pending(i)
                      /\ Ran(i)' = Ran(i)
    BY <1>2
  <2>1. IsSettled(i)' <=> IsSettled(i)
    BY <1>0, <1>1, <1>2
  <2>2. outcome'[plan[i].id] = outcome[plan[i].id] /\ plan' = plan
    BY <1>2, <1>6, InHandFacts
  <2>3. Ran(i)' = Ran(i)
    BY <1>2, <2>1, <2>2 DEF Ran
  <2> QED
    BY <1>2, <2>1, <2>2, <2>3 DEF Pending, ToSettle, Verifies
<1>16. \A y \in pool'.live \ done' :
         /\ y \in pool.live \ done /\ row'[y].req = row[y].req
         /\ y # id => SameRow(y) /\ SameMemory(y)
  <2> SUFFICES ASSUME NEW y \in pool.live, y # id PROVE SameMemory(y)
    BY <1>2, <1>3
  <2>1. pool'.slots[y] = pool.slots[y] /\ conv'[y] = conv[y] /\ state'[y] = state[y]
    BY <1>2, <1>3, <1>5, <1>6
  <2> QED
    BY <1>2, <2>1 DEF SameMemory
<1>17. id \in pool'.live \ done' /\ row[id].req \notin mixed =>
         /\ Idle(id)' => RestMemory(id)'
         /\ \A i \in Items(plan) : plan[i].id = id /\ ~IsOver(i)' => GoingMemory(i)'
  BY <1>12, <1>13, <1>14
<1> QED
  BY <1>2, <1>15, <1>16, <1>17, HandMemory

-----------------------------------------------------------------------------
(* What has run of an item is its row's text, as far as that goes. *)
LEMMA TextIsGoal ==
  ASSUME SpecInv, InHand, NEW i0 \in Items(plan), ~IsOver(i0), NEW x, x = plan[i0],
         x.kind # "verify" \/ IsSettled(i0), x.from + Ran(i0) <= Len(Text(x.id)),
         phase # "forward"
  PROVE  SubSeq(Goal(i0), 1, x.from + Ran(i0)) = SubSeq(Text(x.id), 1, x.from + Ran(i0))
<1>1. PICK id, f, s, u, a, g, r, o :
        /\ id = x.id /\ f = x.from /\ s = x.toks /\ u = Text(x.id) /\ a = Added(i0)
        /\ g = Goal(i0) /\ r = Ran(i0) /\ o = outcome[x.id]
  OBVIOUS
<1>2. a \in Nat
  BY <1>1 DEF Added, SpecInv, Types, StepTypes
<1>3. /\ id \in SeqIds /\ Serves(id) /\ u \in Seq(Tokens) /\ s \in Seq(Tokens)
      /\ f \in 0 .. Len(u) /\ f \in Nat /\ Len(s) \in Nat
  BY <1>1, GoalFacts
<1>4. /\ x.kind \in {"verify", "decode", "prefill"}
      /\ FitsPrefill(x) \/ FitsDecoding(x, a)
      /\ x.kind = "verify" =>
           /\ Len(o) \in a + 1 .. Len(s)
           /\ \A j \in 1 .. Len(o) - 1 : o[j] = s[j + 1]
           /\ \A j \in 1 .. a : u[f + 1 + j] = o[j]
  <2>1. x.kind \in {"verify", "decode", "prefill"} /\ Going(i0)
    BY InHandFacts
  <2>2. FitsPrefill(x) \/ FitsDecoding(x, Added(i0))
    BY <2>1 DEF Going
  <2>3. x.kind = "verify" =>
          /\ Len(outcome[x.id]) \in Added(i0) + 1 .. Len(x.toks)
          /\ \A j \in 1 .. Len(outcome[x.id]) - 1 : outcome[x.id][j] = x.toks[j + 1]
          /\ \A j \in 1 .. Added(i0) : Text(x.id)[x.from + 1 + j] = outcome[x.id][j]
    BY <2>1 DEF Going
  <2> QED
    BY ONLY <1>1, <2>1, <2>2, <2>3, Zenon
<1>5. PICK b : b = SubSeq(u, 1, f)
  OBVIOUS
<1>6. /\ b \in Seq(Tokens) /\ Len(b) = f /\ \A i \in 1 .. f : b[i] = u[i]
  BY ONLY <1>3, <1>5, PrefixFacts
<1>7. g = b \o s
  BY <1>1, <1>5 DEF Goal
<1>8. /\ g \in Seq(Tokens) /\ Len(g) = f + Len(s)
      /\ \A i \in 1 .. f + Len(s) : g[i] = IF i <= f THEN b[i] ELSE s[i - f]
  BY ONLY <1>3, <1>6, <1>7, ConcatProperties
<1>9. Len(u) \in Nat /\ f + r <= Len(u)
  BY <1>1, <1>3, LenProperties
<1>10. r \in 0 .. Len(s) /\ (x.kind = "verify" => r = Len(o))
  <2>1. Ran(i0) \in 0 .. Len(plan[i0].toks)
    BY RanFacts
  <2>2. x.kind = "verify" => Ran(i0) = Len(outcome[plan[i0].id])
    BY DEF Ran
  <2> QED
    BY <1>1, <2>1, <2>2
<1>11. ASSUME NEW j \in 1 .. r PROVE s[j] = u[f + j]
  <2>1. CASE FitsPrefill(x)
    <3>1. PICK p : p = Prompt(id)
      OBVIOUS
    <3>2. /\ p \in Seq(Tokens) /\ Len(p) \in Nat /\ Len(p) <= Len(u) /\ SubSeq(u, 1, Len(p)) = p
      BY <1>1, <1>3, <3>1, RowFacts DEF SpecInv
    <3>3. f + Len(s) <= Len(p) /\ s = SubSeq(p, f + 1, f + Len(s))
      BY <1>1, <2>1, <3>1 DEF FitsPrefill
    <3>4. PICK l, m, v, w : l = Len(s) /\ m = Len(p) /\ v = f + 1 /\ w = f + l
      OBVIOUS
    <3>5. /\ v \in 1 .. m + 1 /\ w \in 0 .. m /\ j \in 1 .. w - v + 1
          /\ v + j - 1 = f + j /\ f + j \in 1 .. m
      <4>1. f \in Nat /\ l \in Nat /\ m \in Nat /\ f + l <= m /\ r \in 0 .. l
        BY <1>3, <1>10, <3>2, <3>3, <3>4
      <4> QED
        BY <3>4, <4>1
    <3>6. s = SubSeq(p, v, w)
      BY <3>3, <3>4
    <3>7. s[j] = p[v + j - 1]
      <4>1. p \in Seq(Tokens) /\ v \in 1 .. Len(p) + 1 /\ w \in 0 .. Len(p)
        BY <3>2, <3>4, <3>5
      <4>2. \A i \in 1 .. w - v + 1 : SubSeq(p, v, w)[i] = p[v + i - 1]
        BY ONLY <4>1, SliceFacts
      <4>3. SubSeq(p, v, w)[j] = p[v + j - 1]
        BY ONLY <3>5, <4>2
      <4> QED
        BY <3>6, <4>3
    <3>8. \A i \in 1 .. m : SubSeq(u, 1, m)[i] = u[i]
      <4>1. m \in 0 .. Len(u)
        BY <1>9, <3>2, <3>4
      <4> QED
        BY ONLY <1>3, <4>1, PrefixFacts
    <3> QED
      BY <3>2, <3>4, <3>5, <3>7, <3>8
  <2>2. CASE FitsDecoding(x, a)
    <3>3. /\ x.kind \in {"decode", "verify"} /\ f + 1 + a = Len(u) /\ s[1] = u[f + 1]
          /\ x.kind = "decode" => Len(s) = 1
      BY <1>1, <2>2 DEF FitsDecoding
    <3>4. CASE j = 1
      BY <3>3, <3>4
    <3>5. CASE j # 1
      <4>1. PICK l, m, k, i : l = Len(s) /\ m = Len(u) /\ k = Len(o) /\ i = j - 1
        OBVIOUS
      <4>2. /\ a \in Nat /\ f + 1 + a = m /\ f + r <= m /\ j \in 1 .. r
            /\ r \in 0 .. l /\ l \in Nat /\ m \in Nat /\ f \in Nat /\ i = j - 1 /\ j # 1
        BY <1>2, <1>3, <1>9, <1>10, <3>3, <3>5, <4>1
      <4>3. i \in Nat /\ i \in 1 .. a /\ i + 1 = j /\ f + 1 + i = f + j /\ i \in 1 .. r - 1 /\ l # 1
        BY ONLY <4>2
      <4>4. x.kind = "verify" /\ r = k
        BY <1>10, <3>3, <4>1, <4>3
      <4>5. i \in 1 .. Len(o) - 1
        BY <4>1, <4>3, <4>4
      <4>6. o[i] = s[i + 1] /\ u[f + 1 + i] = o[i]
        BY <1>4, <4>3, <4>4, <4>5
      <4> QED
        BY <4>3, <4>6
    <3> QED
      BY <3>4, <3>5
  <2> QED
    BY <1>4, <2>1, <2>2
<1>12. \A i \in 1 .. f + r : g[i] = u[i]
  <2> SUFFICES ASSUME NEW i \in 1 .. f + r PROVE g[i] = u[i]
    OBVIOUS
  <2>1. PICK l : l = Len(s)
    OBVIOUS
  <2>2. r \in 0 .. l /\ l \in Nat /\ f \in Nat
    BY <1>3, <1>10, <2>1
  <2>3. i \in 1 .. f + l /\ i \in Nat
    BY <2>2
  <2>4. g[i] = IF i <= f THEN b[i] ELSE s[i - f]
    BY <1>8, <2>1, <2>3
  <2>5. CASE i <= f
    <3>1. i \in 1 .. f
      BY <2>2, <2>5
    <3> QED
      BY <1>6, <2>4, <2>5, <3>1
  <2>6. CASE ~(i <= f)
    <3>1. i - f \in 1 .. r /\ f + (i - f) = i
      BY <2>2, <2>6
    <3> QED
      BY <1>11, <2>4, <2>6, <3>1
  <2> QED
    BY <2>5, <2>6
<1>13. f + r \in 0 .. Len(g) /\ f + r \in 0 .. Len(u)
  BY <1>3, <1>8, <1>9, <1>10
<1>14. SubSeq(g, 1, f + r) = SubSeq(u, 1, f + r)
  BY ONLY <1>3, <1>8, <1>12, <1>13, SamePrefix
<1> QED
  BY <1>1, <1>14

(* A text with one token more begins as it did. *)
LEMMA TextGoesOn ==
  ASSUME SpecInv, NEW id, row[id].req \in Requests, OneMore(id), row'[id].req = row[id].req
  PROVE  /\ Text(id) \in Seq(Tokens) /\ Len(Text(id)) \in Nat
         /\ Text(id)' \in Seq(Tokens) /\ Len(Text(id)') \in {Len(Text(id)), Len(Text(id)) + 1}
         /\ \A n \in 0 .. Len(Text(id)) : SubSeq(Text(id)', 1, n) = SubSeq(Text(id), 1, n)
<1>1. PICK s, u : s = Text(id) /\ u = Text(id)'
  OBVIOUS
<1>2. said[row[id].req] = s /\ said'[row[id].req] = u
  BY <1>1 DEF Text
<1>3. s \in Seq(Tokens) /\ Len(s) \in Nat
  BY <1>2, LenProperties DEF SpecInv, Types, TextTypes
<1>4. PICK t \in Tokens : u = s \/ u = Append(s, t)
  BY <1>2, Zenon DEF OneMore
<1>5. CASE u = s
  BY <1>1, <1>3, <1>5
<1>6. CASE u = Append(s, t)
  <2>1. /\ u \in Seq(Tokens) /\ Len(u) = Len(s) + 1
        /\ \A n \in 0 .. Len(s) : SubSeq(u, 1, n) = SubSeq(s, 1, n)
    BY ONLY <1>3, <1>6, AppendedFacts, t \in Tokens
  <2> QED
    BY <1>1, <1>3, <2>1
<1> QED
  BY <1>4, <1>5, <1>6

(* A turn leaves memory alone, and its row with what its text says. *)
LEMMA TurnMemory ==
  ASSUME SpecInv, SpecInv', MemoryOk, NEW here, NEW id, TurnFor(here, id)
  PROVE  MemoryOk'
<1>0. /\ phase = "advance" /\ phase' = "advance" /\ here \in Items(plan) /\ here = at
      /\ id = plan[here].id
      /\ UNCHANGED << ask, pool, device, journal, mixed, plan, outcome >>
      /\ row'[id].req = row[id].req /\ OneMore(id)
      /\ \A y \in SeqIds : y # id => row'[y] = row[y]
      /\ \A q \in Requests : q # row[id].req => said'[q] = said[q]
      /\ at' \in {at, at + 1}
      /\ done' \in {done, done \cup {id}}
  BY DEF TurnFor
<1>16. at' = at + 1 /\ id \notin done' => Resting(id)'
  BY HereFacts DEF TurnFor
<1>1. /\ InHand /\ InHand' /\ ~IsOver(here) /\ id \in SeqIds /\ id \in pool.live /\ id \notin done
      /\ row[id].req \in Requests /\ at \in Nat \ {0}
  <2>1. InHand /\ InHand'
    BY <1>0 DEF InHand
  <2> QED
    BY <1>0, <2>1, HereFacts
<1>2. Apart(plan) /\ Len(plan) \in Nat /\ \A i \in Items(plan) : i \in Nat /\ plan[i].id \in SeqIds
  BY <1>1, InHandFacts DEF Items
<1>3. \A i \in Items(plan) : plan[i].id = id => i = here
  BY <1>0, <1>2 DEF Apart, Items
<1>4. \A y : SameMemory(y)
  BY <1>0, SameDevice
<1>5. \A y \in pool'.live \ done' :
         /\ y \in pool.live \ done /\ row'[y].req = row[y].req
         /\ y # id => SameRow(y) /\ SameMemory(y)
  <2> SUFFICES ASSUME NEW y \in pool.live, y # id PROVE SameRow(y) /\ row'[y].req = row[y].req
    BY <1>0, <1>1, <1>4
  <2>1. y \in SeqIds
    BY PoolLens DEF SpecInv
  <2>2. row[y].req \in Requests /\ row[y].req # row[id].req
    BY <1>1 DEF SpecInv, ServesOne
  <2> QED
    BY <1>0, <2>1, <2>2 DEF SameRow
<1>6. \A i \in Items(plan) : i # here => (IsOver(i)' <=> IsOver(i))
  <2>1. PICK a, c : a = at /\ c = at'
    OBVIOUS
  <2>2. /\ a \in Nat /\ c \in {a, a + 1} /\ here = a
        /\ \A i \in Items(plan) : i \in Nat
    BY <1>0, <1>1, <1>2, <2>1
  <2>3. \A i \in Items(plan) : i # here => (i < c <=> i < a)
    BY ONLY <2>2
  <2> QED
    BY <1>0, <2>1, <2>3 DEF IsOver
<1>7. \A i : /\ ~Pending(i) /\ ~Pending(i)'
             /\ (IsSettled(i)' <=> IsSettled(i)) /\ Ran(i)' = Ran(i)
  BY <1>0 DEF Pending, ToSettle, Verifies, IsSettled, Ran
<1>8. PICK x, r : x = plan[here] /\ r = Ran(here)
  OBVIOUS
<1>9. PICK f, g, u, v : f = x.from /\ g = Goal(here) /\ u = Text(id) /\ v = Text(id)'
  OBVIOUS
<1>10. /\ x.id = id /\ Serves(id) /\ u \in Seq(Tokens) /\ Len(u) \in Nat /\ f \in 0 .. Len(u)
       /\ f \in Nat /\ g = SubSeq(u, 1, f) \o x.toks /\ g \in Seq(Tokens)
       /\ r \in 0 .. Len(x.toks) /\ Len(x.toks) \in Nat
       /\ SeqLen(pool, id) = f + r /\ f + r \in 0 .. Len(g)
  <2>1. /\ x.id = id /\ Serves(id) /\ u \in Seq(Tokens) /\ f \in 0 .. Len(u) /\ f \in Nat
        /\ g \in Seq(Tokens) /\ Len(x.toks) \in Nat
    BY <1>0, <1>1, <1>8, <1>9, GoalFacts
  <2>2. r \in 0 .. Len(x.toks) /\ SeqLen(pool, id) = f + r /\ f + r \in 0 .. Len(g)
    BY <1>0, <1>1, <1>8, <1>9, RanFacts
  <2>3. g = SubSeq(u, 1, f) \o x.toks
    BY <1>0, <1>8, <1>9 DEF Goal
  <2> QED
    BY <2>1, <2>2, <2>3, LenProperties
<1>11. /\ v \in Seq(Tokens) /\ Len(v) \in {Len(u), Len(u) + 1}
       /\ \A n \in 0 .. Len(u) : SubSeq(v, 1, n) = SubSeq(u, 1, n)
  BY <1>0, <1>1, <1>9, TextGoesOn
<1>12. ASSUME row[id].req \notin mixed, ~IsOver(here)' PROVE GoingMemory(here)'
  <2>1. PICK t : t = SubSeq(g, 1, f + r)
    OBVIOUS
  <2>2. HasKv(id, t) /\ Holds(state, id, t) /\ Holds(conv, id, t)
    <3>1. GoingMemory(here)
      BY <1>0, <1>1, <1>12 DEF MemoryOk
    <3> QED
      BY <1>7, <1>8, <1>9, <1>10, <2>1, <3>1 DEF GoingMemory, Remembers
  <2>3. Goal(here)' = g
    <3>1. SubSeq(v, 1, f) = SubSeq(u, 1, f)
      BY <1>10, <1>11
    <3>2. plan'[here] = x /\ Text(x.id)' = v
      BY <1>0, <1>8, <1>9, <1>10
    <3>3. Goal(here)' = SubSeq(v, 1, f) \o x.toks
      BY <1>9, <3>2 DEF Goal
    <3> QED
      BY <1>10, <3>1, <3>3
  <2>4. t = SubSeq(Goal(here)', 1, plan'[here].from + Ran(here)')
    BY <1>0, <1>7, <1>8, <1>9, <2>1, <2>3
  <2>5. HasKv(id, t)' /\ (Holds(state, id, t))' /\ (Holds(conv, id, t))'
    BY <1>0, <2>2 DEF HasKv, Holds, device
  <2>6. Remembers(plan[here].id, SubSeq(Goal(here), 1, plan[here].from + Ran(here)))'
    BY <1>0, <2>4, <2>5 DEF Remembers, HasKv, Holds
  <2> QED
    BY <1>0, <1>7, <2>6 DEF GoingMemory
<1>13. ASSUME row[id].req \notin mixed, IsOver(here)', id \notin done' PROVE RestMemory(id)'
  <2>1. at' = at + 1
    <3>1. at' # at
      BY <1>0, <1>1, <1>13 DEF IsOver
    <3> QED
      BY <1>0, <3>1
  <2>2. Resting(id)'
    BY <1>13, <1>16, <2>1
  <2>3. PICK n : n = Fed(id)'
    OBVIOUS
  <2>4. n = f + r
    <3>1. SeqLen(pool', id) = n
      BY <2>2, <2>3 DEF Resting
    <3> QED
      BY <1>0, <1>10, <3>1
  <2>5. n <= Len(u)
    <3>1. PICK m, p, k : m = Len(v) /\ p = Len(Prompt(id)') /\ k = Len(u)
      OBVIOUS
    <3>2. \/ n = m - 1
          \/ n = row'[id].prefilled /\ row'[id].prefilled <= p
      BY <1>9, <2>2, <2>3, <3>1 DEF Resting, Fed
    <3>3. p \in Nat /\ p <= k
      <4>1. Prompt(id)' = Prompt(id)
        BY <1>0 DEF Prompt
      <4>2. Len(Prompt(id)) \in Nat /\ Len(Prompt(id)) <= Len(Text(id))
        BY <1>1, <1>10, RowFacts DEF SpecInv
      <4> QED
        BY <1>9, <3>1, <4>1, <4>2
    <3>4. m \in {k, k + 1} /\ k \in Nat /\ n \in Nat
      BY <1>10, <1>11, <2>4, <3>1
    <3>5. n <= k
      BY ONLY <3>2, <3>3, <3>4
    <3> QED
      BY <3>1, <3>5
  <2>6. PICK t : t = SubSeq(g, 1, n)
    OBVIOUS
  <2>7. HasKv(id, t) /\ Holds(state, id, t) /\ Holds(conv, id, t)
    <3>1. GoingMemory(here)
      BY <1>0, <1>1, <1>13 DEF MemoryOk
    <3> QED
      BY <1>7, <1>8, <1>9, <1>10, <2>4, <2>6, <3>1 DEF GoingMemory, Remembers
  <2>8. t = SubSeq(v, 1, n)
    <3>1. x.from + Ran(here) <= Len(Text(x.id))
      BY <1>8, <1>9, <1>10, <2>4, <2>5
    <3>2. plan[here].kind = "verify" => IsSettled(here)
      BY <1>0 DEF IsSettled
    <3>5. SubSeq(Goal(here), 1, x.from + Ran(here)) = SubSeq(Text(x.id), 1, x.from + Ran(here))
      BY <1>0, <1>1, <1>8, <3>1, <3>2, TextIsGoal
    <3>3. SubSeq(g, 1, n) = SubSeq(u, 1, n)
      BY <1>8, <1>9, <1>10, <2>4, <3>5
    <3>4. n \in 0 .. Len(u)
      BY <1>10, <2>4, <2>5
    <3> QED
      BY <1>11, <2>6, <3>3, <3>4
  <2>9. t = SubSeq(Text(id)', 1, Fed(id)')
    BY <1>9, <2>3, <2>8
  <2>10. HasKv(id, t)' /\ (Holds(state, id, t))' /\ (Holds(conv, id, t))'
    BY <1>0, <2>7 DEF HasKv, Holds, device
  <2> QED
    BY <2>9, <2>10 DEF RestMemory, Remembers, HasKv, Holds
<1>14. \A i \in Items(plan) : plan[i].id # id =>
         /\ IsOver(i)' <=> IsOver(i)
         /\ Pending(i)' <=> Pending(i)
         /\ Ran(i)' = Ran(i)
         /\ journal'.conv_pre[plan[i].id] = journal.conv_pre[plan[i].id]
         /\ journal'.taped[plan[i].id] = journal.taped[plan[i].id]
  BY <1>0, <1>6, <1>7
<1>15. id \in pool'.live \ done' /\ row[id].req \notin mixed =>
         /\ Idle(id)' => RestMemory(id)'
         /\ \A i \in Items(plan) : plan[i].id = id /\ ~IsOver(i)' => GoingMemory(i)'
  <2>1. Idle(id)' => IsOver(here)'
    BY <1>0, <1>1 DEF Idle
  <2> QED
    BY <1>3, <1>12, <1>13, <2>1
<1> QED
  BY <1>0, <1>1, <1>5, <1>14, <1>15, HandMemory

-----------------------------------------------------------------------------
(* Every step keeps memory in order. *)
LEMMA MemoryStutter ==
  ASSUME MemoryOk, UNCHANGED specvars
  PROVE  MemoryOk'
<1>0. /\ UNCHANGED << ask, said, pool, row, done, phase, kv, state, conv, journal, mixed, plan >>
      /\ UNCHANGED << outcome, at, tok >>
  BY DEF specvars, texts, device, step
<1>1. \A i : /\ IsOver(i)' <=> IsOver(i)
             /\ Pending(i)' <=> Pending(i)
             /\ Ran(i)' = Ran(i)
             /\ Goal(i)' = Goal(i) /\ Before(i)' = Before(i)
  BY <1>0 DEF IsOver, Pending, ToSettle, InHand, Verifies, IsSettled, Ran, Goal, Before, Text
<1>2. \A i : GoingMemory(i) => GoingMemory(i)'
  BY <1>0, <1>1 DEF GoingMemory, Remembers, HasKv, Holds, Armed
<1>3. \A id : /\ Idle(id)' <=> Idle(id)
              /\ RestMemory(id) => RestMemory(id)'
  BY <1>0, <1>1 DEF Idle, InHand, Items, RestMemory, Remembers, HasKv, Holds, Fed, Text,
                    PromptComplete, Prompt
<1> QED
  BY <1>0, <1>1, <1>2, <1>3 DEF MemoryOk, InHand, Items

LEMMA MemoryStep ==
  ASSUME SpecInv, MemoryOk, [Step]_specvars
  PROVE  MemoryOk'
<1>0. SpecInv'
  BY SpecInvStep
<1>1. CASE UNCHANGED specvars
  BY <1>1, MemoryStutter
<1>2. CASE \E id \in SeqIds : Admit(id)
  BY <1>2, AdmitMemory
<1>3. CASE \/ BeginDrafting
           \/ \E id \in SeqIds : DraftSkip(id) \/ DraftNoSlots(id) \/ DraftDesynced(id)
           \/ \E id \in SeqIds : \E draft \in [1 .. depth -> Tokens] : Draft(id, draft)
  BY <1>3, DraftingMemory
<1>4. CASE MakePlan \/ Forward
  BY <1>0, <1>4, MakePlanMemory, ForwardMemory
<1>5. CASE ForwardFails \/ SettleFails \/ FailRow
  BY <1>5, FailingMemory
<1>6. CASE Sample \/ SettleNext
  BY <1>0, <1>6, AnsweringMemory
<1>7. CASE \E accepted \in 0 .. K, token \in Tokens : Settle(accepted, token)
  <2>1. PICK accepted \in 0 .. K, token \in Tokens : Settle(accepted, token)
    BY <1>7
  <2>2. PICK here, x : here = at /\ x = plan[here]
    OBVIOUS
  <2> QED
    BY <1>0, <2>1, <2>2, SettleMemory
<1>8. CASE AdvancePrompt \/ AdvanceRow \/ AdvanceVerified
  <2>1. \E here, id : TurnFor(here, id)
    BY <1>8, AdvancePromptTurn, AdvanceRowTurn, AdvanceVerifiedTurn
  <2> QED
    BY <1>0, <2>1, TurnMemory
<1>9. CASE AdvanceDone \/ StepDone \/ Retire
  BY <1>9, RetiringMemory, RetireMemory
<1>10. CASE \E rs \in SUBSET Requests : FailRest(rs)
  BY <1>10, FailRestMemory
<1> QED
  BY <1>1, <1>2, <1>3, <1>4, <1>5, <1>6, <1>7, <1>8, <1>9, <1>10 DEF Step

LEMMA MemoryInitially == SpecInit => MemoryOk
<1> SUFFICES ASSUME SpecInit PROVE MemoryOk
  OBVIOUS
<1>1. phase = "admit" /\ pool.live = {}
  BY OrdersExist, WholeNew DEF SpecInit
<1> QED
  BY <1>1 DEF MemoryOk, InHand

LEMMA MemoryAlways == SpecSpec => [](SpecInv /\ MemoryOk)
<1>1. SpecInit => SpecInv /\ MemoryOk
  BY SpecInitially, MemoryInitially
<1>2. SpecInv /\ MemoryOk /\ [Step]_specvars => (SpecInv /\ MemoryOk)'
  BY SpecInvStep, MemoryStep
<1> QED
  BY <1>1, <1>2, PTL DEF SpecSpec

(* Between steps everything a row has in memory is the text it has been fed: *)
(* what a pass wrote, took back or replayed for it, in whatever order the    *)
(* drafts of other rows were refused. Only the requests of `mixed` are left  *)
(* out, those whose row shared a pass with the journal.                      *)
THEOREM MemoryKeptInStep == SpecSpec => []MemoryIsText
<1>1. SpecInv /\ MemoryOk => MemoryIsText
  <2> SUFFICES ASSUME SpecInv, MemoryOk, phase = "admit",
                      NEW id \in pool.live, row[id].req \notin mixed
               PROVE  InMemory(id)
    BY DEF MemoryIsText
  <2>1. ~InHand /\ done = {} /\ Idle(id)
    BY DEF InHand, Idle, SpecInv, Scratch
  <2>2. Resting(id) /\ RestMemory(id)
    BY <2>1, IdleRests DEF MemoryOk
  <2>3. PICK s, n : s = Text(id) /\ n = Fed(id)
    OBVIOUS
  <2>4. PICK t : t = SubSeq(s, 1, n)
    OBVIOUS
  <2>5. /\ s \in Seq(Tokens) /\ n \in 0 .. Len(s) /\ SeqLen(pool, id) = n /\ Len(t) = n /\ n \in Nat
    BY <2>2, <2>3, <2>4, FedFacts
  <2>6. HasKv(id, t) /\ Holds(state, id, t) /\ Holds(conv, id, t)
    BY <2>2, <2>3, <2>4 DEF RestMemory, Remembers
  <2>7. \A pos \in 1 .. n : kv[pool.slots[id][pos]] = SubSeq(s, 1, pos)
    <3> SUFFICES ASSUME NEW pos \in 1 .. n PROVE kv[pool.slots[id][pos]] = SubSeq(s, 1, pos)
      OBVIOUS
    <3>1. kv[pool.slots[id][pos]] = SubSeq(t, 1, pos)
      BY <2>5, <2>6 DEF HasKv
    <3>2. pos \in 0 .. n
      BY <2>5
    <3>3. SubSeq(SubSeq(s, 1, n), 1, pos) = SubSeq(s, 1, pos)
      BY ONLY <2>5, <3>2, PrefixOfPrefix
    <3> QED
      BY <2>4, <3>1, <3>3
  <2>8. n > 0 => state[id] = t /\ conv[id] = t
    BY <2>5, <2>6 DEF Holds
  <2>9. ReadsOwnKv(id, n)
    BY <2>3, <2>5, <2>7 DEF ReadsOwnKv
  <2> QED
    BY <2>3, <2>4, <2>5, <2>8, <2>9 DEF InMemory, Keeps
<1> QED
  BY <1>1, MemoryAlways, PTL

-----------------------------------------------------------------------------
(* Every step keeps the answers those of the rows' own texts. *)
LEMMA AnswersVoid ==
  ASSUME ~InHand' \/ phase' \in {"forward", "sample"}
  PROVE  AnswersOk'
<1>1. InHand' => \A i : ~IsSettled(i)' /\ phase' \notin {"settle", "advance"}
  BY DEF IsSettled
<1> QED
  BY <1>1 DEF AnswersOk, GoingAnswers

(* A row that wants a token has run to the end of its text. *)
LEMMA WantsWhole ==
  ASSUME SpecInv, InHand, phase # "forward", NEW i \in Items(plan), ~IsOver(i),
         NEW x, x = plan[i], Wants(x)
  PROVE  /\ Ran(i) = Len(x.toks) /\ x.from + Len(x.toks) = Len(Text(x.id))
         /\ Len(Text(x.id)) \in Nat /\ Len(Text(x.id)) >= 1
         /\ SeqLen(pool, x.id) = x.from + Len(x.toks)
<1>1. PICK f, l, m, p, id : f = x.from /\ l = Len(x.toks) /\ m = Len(Text(x.id))
                              /\ p = Len(Prompt(x.id)) /\ id = x.id
  OBVIOUS
<1>2. Going(i) /\ id \in SeqIds /\ Serves(id) /\ f \in Nat /\ l \in Nat
  BY <1>1, InHandFacts, GoalFacts
<1>3. m \in Nat /\ p \in Nat /\ p >= 1 /\ p <= m /\ Generated(id) = m - p
  BY <1>1, <1>2, RowFacts DEF SpecInv
<1>4. x.kind # "verify" /\ x.last
  BY DEF Wants
<1>5. Ran(i) = l
  BY <1>1, <1>4 DEF Ran, IsSettled
<1>6. f + l = m
  <2>1. CASE FitsPrefill(x)
    <3>1. Generated(id) = 0 /\ f + l = p
      BY <1>1, <1>4, <2>1 DEF FitsPrefill
    <3> QED
      BY <1>3, <3>1
  <2>2. CASE FitsDecoding(x, Added(i))
    <3>1. PICK a : a = Added(i)
      OBVIOUS
    <3>2. l = 1 /\ a = 0 /\ f + 1 + a = m
      BY <1>1, <1>4, <2>2, <3>1 DEF FitsDecoding
    <3> QED
      BY <1>2, <3>2
  <2> QED
    BY <1>2, <2>1, <2>2 DEF Going
<1>7. SeqLen(pool, id) = f + l
  BY <1>1, <1>5, RanFacts
<1> QED
  BY <1>1, <1>3, <1>5, <1>6, <1>7

(* What memory has for a row that wants a token is its text. *)
LEMMA WantsFaithful ==
  ASSUME SpecInv, MemoryOk, phase = "sample", NEW i \in Items(plan),
         NEW x, x = plan[i], Wants(x), row[x.id].req \notin mixed
  PROVE  AnswersRow(x) = Support(Text(x.id))
<1>1. InHand /\ ~IsOver(i) /\ x.kind # "verify" /\ phase # "forward" /\ phase # "fail"
  BY DEF InHand, IsOver, Wants
<1>2. PICK s, n, id : s = Text(x.id) /\ n = x.from + Len(x.toks) /\ id = x.id
  OBVIOUS
<1>3. Ran(i) = Len(x.toks) /\ n = Len(s) /\ n \in Nat /\ n >= 1 /\ SeqLen(pool, id) = n
  BY <1>1, <1>2, WantsWhole
<1>4. s \in Seq(Tokens) /\ SubSeq(s, 1, n) = s
  <2>1. s \in Seq(Tokens)
    BY <1>1, <1>2, GoalFacts
  <2> QED
    BY <1>3, <2>1, WholePrefix
<1>5. SubSeq(Goal(i), 1, x.from + Ran(i)) = s
  <2>1. PICK r : r = Ran(i)
    OBVIOUS
  <2>2. x.from + r = n /\ n <= Len(Text(x.id))
    BY <1>2, <1>3, <2>1
  <2>3. SubSeq(Goal(i), 1, x.from + Ran(i)) = SubSeq(Text(x.id), 1, x.from + Ran(i))
    BY <1>1, <2>1, <2>2, TextIsGoal
  <2>4. SubSeq(Goal(i), 1, x.from + r) = SubSeq(s, 1, n)
    BY <1>2, <2>1, <2>2, <2>3
  <2> QED
    BY <1>4, <2>1, <2>4
<1>6. ~Armed /\ HasKv(id, s) /\ Holds(state, id, s) /\ Holds(conv, id, s)
  <2>1. GoingMemory(i) /\ ~Pending(i)
    BY <1>1 DEF MemoryOk, Pending, ToSettle, Verifies
  <2> QED
    BY <1>1, <1>2, <1>5, <2>1 DEF GoingMemory, Remembers
<1>7. state[id] = s /\ conv[id] = s
  BY <1>3, <1>6 DEF Holds
<1>8. Keeps(state, id, n) /\ Keeps(conv, id, n)
  BY <1>2, <1>4, <1>7 DEF Keeps
<1>9. ReadsOwnKv(id, n)
  BY <1>2, <1>3, <1>6 DEF ReadsOwnKv, HasKv
<1> QED
  BY <1>2, <1>4, <1>6, <1>8, <1>9 DEF AnswersRow, Answers

LEMMA SampleAnswers ==
  ASSUME SpecInv, MemoryOk, Sample
  PROVE  AnswersOk'
<1>1. /\ phase = "sample" /\ phase' = "settle" /\ at' = 1 /\ plan' = plan /\ mixed' = mixed
      /\ \A y \in SeqIds : InPass(y) /\ Wants(plan[Mine(y)]) => sampled'[y] \in AnswersRow(plan[Mine(y)])
      /\ UNCHANGED << texts, row >>
  BY DEF Sample
<1>2. InHand /\ Apart(plan) /\ \A i \in Items(plan) : plan[i].id \in SeqIds /\ i \in Nat /\ i >= 1
  <2>1. InHand
    BY <1>1 DEF InHand
  <2> QED
    BY <2>1, InHandFacts DEF Items
<1> SUFFICES ASSUME NEW i \in Items(plan), row[plan[i].id].req \notin mixed
             PROVE  GoingAnswers(i)'
  BY <1>1 DEF AnswersOk, Items
<1>3. ~IsSettled(i)'
  BY <1>1, <1>2 DEF IsSettled
<1>4. PICK x : x = plan[i]
  OBVIOUS
<1>5. Text(x.id)' = Text(x.id) /\ plan'[i] = x
  BY <1>1, <1>4 DEF Text, texts
<1>6. ASSUME Wants(x) PROVE sampled'[x.id] \in Support(Text(x.id))
  <2>1. InPass(x.id) /\ Mine(x.id) = i
    BY <1>2, <1>4, MineFacts
  <2>2. sampled'[x.id] \in AnswersRow(x)
    BY <1>1, <1>2, <1>4, <1>6, <2>1
  <2> QED
    BY <1>1, <1>4, <1>6, <2>2, WantsFaithful
<1>7. Wants(x)' => Wants(x)
  BY DEF Wants
<1> QED
  BY <1>3, <1>5, <1>6, <1>7 DEF GoingAnswers, Wants

(* The answers for an item the step leaves alone. *)
LEMMA AnswersOn ==
  ASSUME NEW i, GoingAnswers(i), plan' = plan, sampled' = sampled,
         Text(plan[i].id)' = Text(plan[i].id), outcome'[plan[i].id] = outcome[plan[i].id],
         IsSettled(i)' <=> IsSettled(i), phase \in {"settle", "advance"}
  PROVE  GoingAnswers(i)'
<1>1. PICK x, s, o : x = plan[i] /\ s = Text(x.id) /\ o = outcome[x.id]
  OBVIOUS
<1>2. plan'[i] = x /\ Text(x.id)' = s /\ outcome'[x.id] = o
  BY <1>1
<1>3. /\ Wants(x) => sampled[x.id] \in Support(s)
      /\ IsSettled(i) => \A j \in 1 .. Len(o) :
           o[j] \in Support(SubSeq(s, 1, x.from + 1) \o SubSeq(o, 1, j - 1))
  BY <1>1 DEF GoingAnswers
<1>4. Wants(x)' <=> Wants(x)
  BY DEF Wants
<1> QED
  BY <1>2, <1>3, <1>4, Zenon DEF GoingAnswers

LEMMA SettleNextAnswers ==
  ASSUME SpecInv, AnswersOk, SettleNext
  PROVE  AnswersOk'
<1>1. /\ UNCHANGED << texts, row, mixed, plan, outcome, sampled >>
      /\ phase = "settle" /\ phase' \in {"settle", "advance"}
      /\ \/ at > Len(plan) /\ phase' = "advance" /\ at' = 1
         \/ at <= Len(plan) /\ plan[at].kind # "verify" /\ at' = at + 1 /\ phase' = "settle"
  <2>1. at \in Nat /\ Len(plan) \in Nat
    BY LenProperties DEF SpecInv, Types, StepTypes
  <2> QED
    BY <2>1 DEF SettleNext
<1>2. InHand /\ at \in Nat /\ Len(plan) \in Nat
  BY <1>1, LenProperties DEF InHand, SpecInv, Types, StepTypes
<1> SUFFICES ASSUME NEW i \in Items(plan), row[plan[i].id].req \notin mixed
             PROVE  GoingAnswers(i)'
  BY <1>1 DEF AnswersOk, Items
<1>3. i \in Nat /\ i <= Len(plan)
  BY <1>2 DEF Items
<1>4. IsSettled(i)' <=> IsSettled(i)
  <2>1. CASE at > Len(plan) /\ phase' = "advance" /\ at' = 1
    <3>1. i < at
      BY <1>2, <1>3, <2>1
    <3> QED
      BY <1>1, <2>1, <3>1 DEF IsSettled
  <2>2. CASE at <= Len(plan) /\ plan[at].kind # "verify" /\ at' = at + 1 /\ phase' = "settle"
    <3>1. i = at \/ (i < at <=> i < at')
      BY <1>2, <1>3, <2>2
    <3> QED
      BY <1>1, <2>2, <3>1 DEF IsSettled
  <2> QED
    BY <1>1, <2>1, <2>2
<1>5. Text(plan[i].id)' = Text(plan[i].id)
  BY <1>1 DEF Text, texts
<1>6. GoingAnswers(i)
  BY <1>1, <1>2 DEF AnswersOk, IsOver
<1> QED
  BY <1>1, <1>4, <1>5, <1>6, AnswersOn

(* What memory has for a verified row is its text up to the candidates. *)
LEMMA VerifyFaithful ==
  ASSUME SpecInv, MemoryOk, phase = "settle", NEW here \in Items(plan), NEW x, x = plan[here],
         Pending(here), FitsDecoding(x, 0), row[x.id].req \notin mixed
  PROVE  /\ x.from + 1 = Len(Text(x.id)) /\ Text(x.id) \in Seq(Tokens)
         /\ \A a : AnswersAfter(x, a) = Support(Text(x.id) \o SubSeq(Drafted(x), 1, a))
<1>1. InHand /\ ~IsOver(here) /\ phase # "fail"
  BY DEF InHand, IsOver
<1>2. PICK s, f, id, m : s = Text(x.id) /\ f = x.from /\ id = x.id /\ m = Len(s)
  OBVIOUS
<1>3. /\ s \in Seq(Tokens) /\ f \in 0 .. m /\ f \in Nat /\ id \in SeqIds /\ Serves(id)
      /\ Len(x.toks) \in Nat
  BY <1>1, <1>2, GoalFacts
<1>4. m \in Nat /\ f + 1 = m /\ f >= 1
  <2>1. PICK p : p = Len(Prompt(id))
    OBVIOUS
  <2>2. m \in Nat /\ p \in Nat /\ p >= 1 /\ Generated(id) = m - p
    BY <1>2, <1>3, <2>1, RowFacts DEF SpecInv
  <2>3. Generated(id) >= 1 + 0 /\ f + 1 + 0 = m
    BY <1>2 DEF FitsDecoding
  <2>4. m - p >= 1 + 0
    BY <2>2, <2>3
  <2> QED
    BY ONLY <1>3, <2>2, <2>3, <2>4
<1>5. PICK b, g : b = SubSeq(s, 1, f) /\ g = Goal(here)
  OBVIOUS
<1>6. Before(here) = b /\ g = b \o x.toks /\ b \in Seq(Tokens) /\ Len(b) = f
  <2>1. Before(here) = b /\ g = b \o x.toks
    BY <1>2, <1>5 DEF Before, Goal
  <2>2. f \in 0 .. Len(s)
    BY <1>2, <1>3
  <2>3. b \in Seq(Tokens) /\ Len(b) = f
    BY ONLY <1>3, <1>5, <2>2, PrefixFacts
  <2> QED
    BY <2>1, <2>3
<1>7. HasKv(id, g) /\ Holds(state, id, b) /\ journal.conv_pre[id] = b
  <2>1. GoingMemory(here)
    BY <1>1 DEF MemoryOk
  <2> QED
    BY <1>2, <1>5, <1>6, <2>1 DEF GoingMemory
<1>8. state[id] = b
  BY <1>4, <1>6, <1>7 DEF Holds
<1>9. Keeps(state, id, f) /\ Keeps(journal.conv_pre, id, f)
  BY <1>2, <1>5, <1>7, <1>8 DEF Keeps
<1>10. ReadsOwnKv(id, f)
  <2>1. SeqLen(pool, id) = f + Ran(here) /\ Ran(here) \in 0 .. Len(x.toks)
    BY <1>1, <1>2, RanFacts
  <2>2. f <= SeqLen(pool, id)
    <3>1. PICK r, l : r = Ran(here) /\ l = Len(x.toks)
      OBVIOUS
    <3>2. r \in 0 .. l /\ l \in Nat /\ SeqLen(pool, id) = f + r
      BY <1>3, <2>1, <3>1
    <3> QED
      BY <1>3, <3>2
  <2>3. ASSUME NEW pos \in 1 .. f PROVE kv[pool.slots[id][pos]] = SubSeq(s, 1, pos)
    <3>1. pos \in 1 .. Len(g) /\ pos \in 0 .. Len(b) /\ pos \in 0 .. f
      <4>1. Len(g) = f + Len(x.toks)
        BY <1>1, <1>2, <1>5, GoalFacts
      <4> QED
        BY <1>3, <1>6, <4>1
    <3>2. kv[pool.slots[id][pos]] = SubSeq(g, 1, pos)
      BY <1>7, <3>1 DEF HasKv
    <3>3. SubSeq(g, 1, pos) = SubSeq(b, 1, pos)
      <4>1. PICK t : t = x.toks
        OBVIOUS
      <4>2. t \in Seq(Tokens) /\ g = b \o t
        BY <1>1, <1>6, <4>1, GoalFacts
      <4>3. \A n \in 0 .. Len(b) : SubSeq(b \o t, 1, n) = SubSeq(b, 1, n)
        BY ONLY <1>6, <4>2, PrefixOfConcat
      <4> QED
        BY ONLY <3>1, <4>2, <4>3
    <3>4. SubSeq(b, 1, pos) = SubSeq(s, 1, pos)
      <4>1. f \in 0 .. Len(s)
        BY <1>2, <1>3
      <4> QED
        BY ONLY <1>3, <1>5, <3>1, <4>1, PrefixOfPrefix
    <3> QED
      BY <3>2, <3>3, <3>4
  <2> QED
    BY <1>2, <2>2, <2>3 DEF ReadsOwnKv
<1>11. \A a : AnswersAfter(x, a) = Support(s \o SubSeq(Drafted(x), 1, a))
  BY <1>2, <1>9, <1>10 DEF AnswersAfter, Answers
<1> QED
  BY <1>2, <1>3, <1>4, <1>11

LEMMA SettleAnswers ==
  ASSUME SpecInv, MemoryOk, AnswersOk, NEW accepted \in 0 .. K, NEW token \in Tokens,
         Settle(accepted, token), NEW here, here = at, NEW x, x = plan[here]
  PROVE  AnswersOk'
<1>0. here = at /\ x = plan[here]
  OBVIOUS
<1>1. PICK id, f, s, d, o, u : /\ id = x.id /\ f = x.from /\ s = x.toks /\ d = Tail(x.toks)
                               /\ o = Append(SubSeq(d, 1, accepted), token) /\ u = Text(x.id)
  OBVIOUS
<1>2. /\ phase = "settle" /\ phase' = "settle" /\ InHand /\ InHand' /\ here \in Items(plan)
      /\ plan' = plan /\ \A y : SameRow(y)
      /\ UNCHANGED << row, mixed, sampled >> /\ Pending(here)
      /\ \A i \in Items(plan) : /\ ~IsOver(i)
                                /\ (i # here => (IsSettled(i)' <=> IsSettled(i)))
      /\ x.kind = "verify" /\ FitsDecoding(x, 0)
      /\ accepted \in Nat /\ accepted + 1 \in 0 .. Len(s) /\ accepted <= Len(d)
      /\ outcome' = [outcome EXCEPT ![id] = o]
  <2>1. SettledHere(here, x, accepted, token)
    BY SettleFacts
  <2> QED
    BY ONLY <1>1, <2>1 DEF SettledHere
<1>3. /\ \A j \in 1 .. accepted : d[j] \in AnswersAfter(x, j - 1)
      /\ token \in AnswersAfter(x, accepted)
  BY <1>0, <1>1 DEF Settle, Drafted
<1>4. /\ id \in SeqIds /\ s \in Seq(Tokens) /\ Len(s) \in Nat /\ Apart(plan)
      /\ \A i \in Items(plan) : plan[i].id \in SeqIds /\ (plan[i].id = id => i = here)
  <2>1. /\ id \in SeqIds /\ s \in Seq(Tokens) /\ Len(s) \in Nat /\ Apart(plan)
        /\ \A i \in Items(plan) : plan[i].id \in SeqIds
    BY <1>0, <1>1, <1>2, InHandFacts
  <2> QED
    BY <1>0, <1>1, <1>2, <2>1 DEF Apart, Items
<1>5. outcome \in [SeqIds -> Seq(Tokens)]
  BY DEF SpecInv, Types, StepTypes
<1>6. /\ d \in Seq(Tokens) /\ Len(o) = accepted + 1 /\ o[accepted + 1] = token
      /\ \A j \in 1 .. accepted : o[j] = d[j]
      /\ \A n \in 0 .. accepted : SubSeq(o, 1, n) = SubSeq(d, 1, n)
  <2>1. s # << >>
    <3>1. Len(<< >>) = 0
      BY EmptySeq
    <3> QED
      BY <1>2, <3>1
  <2>2. d \in Seq(Tokens) /\ accepted \in 0 .. Len(d)
    BY <1>1, <1>2, <1>4, <2>1, HeadTailProperties, LenProperties
  <2>3. PICK c : c = SubSeq(d, 1, accepted)
    OBVIOUS
  <2>4. c \in Seq(Tokens) /\ Len(c) = accepted /\ \A j \in 1 .. accepted : c[j] = d[j]
    BY ONLY <2>2, <2>3, PrefixFacts
  <2>5. o = Append(c, token)
    BY <1>1, <2>3
  <2>6. /\ Len(o) = Len(c) + 1 /\ o[Len(c) + 1] = token
        /\ \A j \in 1 .. Len(c) : o[j] = c[j]
        /\ \A n \in 0 .. Len(c) : SubSeq(o, 1, n) = SubSeq(c, 1, n)
    BY ONLY <2>4, <2>5, token \in Tokens, AppendedFacts
  <2>7. \A n \in 0 .. accepted : SubSeq(c, 1, n) = SubSeq(d, 1, n)
    BY ONLY <2>2, <2>3, PrefixOfPrefix
  <2> QED
    BY <2>2, <2>4, <2>6, <2>7
<1>7. ASSUME row[id].req \notin mixed, NEW j \in 1 .. accepted + 1
      PROVE  o[j] \in Support(SubSeq(u, 1, f + 1) \o SubSeq(o, 1, j - 1))
  <2>1. /\ f + 1 = Len(u) /\ u \in Seq(Tokens)
        /\ \A a : AnswersAfter(x, a) = Support(u \o SubSeq(d, 1, a))
    <3>1. /\ x.from + 1 = Len(Text(x.id)) /\ Text(x.id) \in Seq(Tokens)
          /\ \A a : AnswersAfter(x, a) = Support(Text(x.id) \o SubSeq(Drafted(x), 1, a))
      BY <1>1, <1>2, <1>7, VerifyFaithful
    <3> QED
      BY <1>1, <3>1 DEF Drafted
  <2>2. SubSeq(u, 1, f + 1) = u
    BY <2>1, WholePrefix
  <2>3. j - 1 \in 0 .. accepted
    BY <1>2
  <2>4. o[j] \in AnswersAfter(x, j - 1)
    <3>1. CASE j = accepted + 1
      <4>1. j - 1 = accepted
        BY <1>2, <3>1
      <4> QED
        BY <1>3, <1>6, <3>1, <4>1
    <3>2. CASE j # accepted + 1
      <4>1. j \in 1 .. accepted
        BY <1>2, <3>2
      <4> QED
        BY <1>3, <1>6, <4>1
    <3> QED
      BY <3>1, <3>2
  <2>5. SubSeq(o, 1, j - 1) = SubSeq(d, 1, j - 1)
    BY <1>6, <2>3
  <2>6. AnswersAfter(x, j - 1) = Support(u \o SubSeq(d, 1, j - 1))
    BY <2>1
  <2> QED
    BY <2>2, <2>4, <2>5, <2>6
<1>8. ASSUME row[id].req \notin mixed PROVE GoingAnswers(here)'
  <2>1. plan'[here] = x /\ outcome'[id] = o /\ Text(id)' = u
    BY <1>0, <1>1, <1>2, <1>4, <1>5, UntouchedText
  <2>2. ~Wants(plan'[here])
    BY <1>2, <2>1 DEF Wants
  <2>3. \A j \in 1 .. Len(o) : o[j] \in Support(SubSeq(u, 1, f + 1) \o SubSeq(o, 1, j - 1))
    BY <1>6, <1>7, <1>8
  <2>4. \A j \in 1 .. Len(outcome'[x.id]) :
          outcome'[x.id][j] \in Support(SubSeq(Text(x.id)', 1, x.from + 1)
                                          \o SubSeq(outcome'[x.id], 1, j - 1))
    BY <1>1, <2>1, <2>3
  <2>5. ~Wants(x)'
    BY <2>1, <2>2 DEF Wants
  <2> QED
    BY <2>1, <2>4, <2>5, Zenon DEF GoingAnswers
<1>9. ASSUME NEW i \in Items(plan), row[plan[i].id].req \notin mixed PROVE GoingAnswers(i)'
  <2>1. CASE i = here
    BY <1>0, <1>1, <1>8, <1>9, <2>1
  <2>2. CASE i # here
    <3>1. GoingAnswers(i)
      BY <1>2, <1>9 DEF AnswersOk
    <3>2. Text(plan[i].id)' = Text(plan[i].id)
      BY <1>2, UntouchedText
    <3>3. outcome'[plan[i].id] = outcome[plan[i].id]
      BY <1>2, <1>4, <1>5, <2>2
    <3> QED
      BY <1>2, <2>2, <3>1, <3>2, <3>3, AnswersOn
  <2> QED
    BY <2>1, <2>2
<1> QED
  BY <1>2, <1>9 DEF AnswersOk, Items

LEMMA TurnAnswers ==
  ASSUME SpecInv, AnswersOk, NEW here, NEW id, TurnFor(here, id)
  PROVE  AnswersOk'
<1>0. /\ phase = "advance" /\ phase' = "advance" /\ here \in Items(plan) /\ here = at
      /\ id = plan[here].id
      /\ UNCHANGED << ask, pool, mixed, plan, outcome, sampled >>
      /\ row'[id].req = row[id].req /\ OneMore(id)
      /\ \A y \in SeqIds : y # id => row'[y] = row[y]
      /\ \A q \in Requests : q # row[id].req => said'[q] = said[q]
      /\ at' \in {at, at + 1}
      /\ at' = at => plan[here].kind = "verify"
  BY HereFacts DEF TurnFor
<1>1. /\ InHand /\ InHand' /\ ~IsOver(here) /\ Going(here) /\ id \in SeqIds /\ id \in pool.live
      /\ row[id].req \in Requests /\ at \in Nat \ {0}
  <2>1. InHand /\ InHand'
    BY <1>0 DEF InHand
  <2> QED
    BY <1>0, <2>1, HereFacts
<1>2. Apart(plan) /\ Len(plan) \in Nat /\ \A i \in Items(plan) : i \in Nat /\ plan[i].id \in SeqIds
  BY <1>1, InHandFacts DEF Items
<1>3. \A i : IsSettled(i)' <=> IsSettled(i)
  BY <1>0 DEF IsSettled
<1>4. ASSUME NEW i \in Items(plan), i # here, ~IsOver(i)', row'[plan[i].id].req \notin mixed'
      PROVE  GoingAnswers(i)'
  <2>1. PICK y : y = plan[i].id
    OBVIOUS
  <2>2. y \in SeqIds /\ y # id
    BY <1>0, <1>2, <1>4, <2>1 DEF Apart, Items
  <2>3. ~IsOver(i)
    <3>1. PICK a, b : a = at /\ b = at'
      OBVIOUS
    <3>2. i \in Nat /\ a \in Nat /\ b \in {a, a + 1} /\ ~(i < b)
      BY <1>0, <1>1, <1>2, <1>4, <3>1 DEF IsOver
    <3>3. ~(i < a)
      BY ONLY <3>2
    <3> QED
      BY <3>1, <3>3 DEF IsOver
  <2>4. row'[y] = row[y] /\ row[y].req \notin mixed
    BY <1>0, <1>4, <2>1, <2>2
  <2>5. Text(y)' = Text(y)
    <3>1. y \in pool.live
      BY <1>1, <2>1, <2>3, GoalFacts
    <3>2. row[y].req \in Requests /\ row[y].req # row[id].req
      BY <1>1, <2>2, <3>1 DEF SpecInv, ServesOne
    <3> QED
      BY <1>0, <2>4, <3>2 DEF Text
  <2>6. GoingAnswers(i)
    BY <1>1, <2>1, <2>3, <2>4 DEF AnswersOk
  <2> QED
    BY <1>0, <1>3, <2>1, <2>5, <2>6, AnswersOn
<1>5. ASSUME ~IsOver(here)', row[id].req \notin mixed PROVE GoingAnswers(here)'
  <2>1. at' = at
    <3>1. PICK a, b : a = at /\ b = at'
      OBVIOUS
    <3>2. a \in Nat /\ b \in {a, a + 1} /\ ~(a < b)
      BY <1>0, <1>1, <1>5, <3>1 DEF IsOver
    <3>3. b = a
      BY ONLY <3>2
    <3> QED
      BY <3>1, <3>3
  <2>2. PICK x, s, o, f, t : /\ x = plan[here] /\ s = Text(id) /\ o = outcome[id] /\ f = x.from
                             /\ t = Text(id)'
    OBVIOUS
  <2>3. x.kind = "verify" /\ x.id = id /\ plan'[here] = x /\ outcome'[x.id] = o
    BY <1>0, <2>1, <2>2
  <2>4. SubSeq(t, 1, f + 1) = SubSeq(s, 1, f + 1)
    <3>1. FitsDecoding(x, Added(here))
      BY <1>1, <2>2, <2>3 DEF Going, FitsPrefill
    <3>2. PICK a : a = Added(here)
      OBVIOUS
    <3>3. a \in Nat /\ f \in Nat
      <4>1. a \in Nat
        BY <3>2 DEF Added, SpecInv, Types, StepTypes
      <4>2. plan[here].from \in Nat
        BY <1>0, <1>1, InHandFacts
      <4> QED
        BY <2>2, <4>1, <4>2
    <3>4. f + 1 + a = Len(s)
      BY <2>2, <2>3, <3>1, <3>2 DEF FitsDecoding
    <3>5. f + 1 \in 0 .. Len(s)
      BY <3>3, <3>4
    <3>6. \A n \in 0 .. Len(s) : SubSeq(t, 1, n) = SubSeq(s, 1, n)
      BY <1>0, <1>1, <2>2, TextGoesOn
    <3> QED
      BY <3>5, <3>6
  <2>5. IsSettled(here)
    BY <1>0, <2>2, <2>3 DEF IsSettled
  <2>6. \A j \in 1 .. Len(o) : o[j] \in Support(SubSeq(s, 1, f + 1) \o SubSeq(o, 1, j - 1))
    <3>1. GoingAnswers(here)
      BY <1>0, <1>1, <1>5 DEF AnswersOk
    <3> QED
      BY <1>0, <2>2, <2>5, <3>1 DEF GoingAnswers
  <2>7. \A j \in 1 .. Len(outcome'[x.id]) :
          outcome'[x.id][j] \in Support(SubSeq(Text(x.id)', 1, x.from + 1)
                                          \o SubSeq(outcome'[x.id], 1, j - 1))
    BY <2>2, <2>3, <2>4, <2>6
  <2>8. ~Wants(x)'
    BY <2>3 DEF Wants
  <2> QED
    BY <2>3, <2>7, <2>8, Zenon DEF GoingAnswers
<1>6. ASSUME NEW i \in Items(plan), ~IsOver(i)', row'[plan[i].id].req \notin mixed'
      PROVE  GoingAnswers(i)'
  BY <1>0, <1>4, <1>5, <1>6
<1> QED
  BY <1>0, <1>6 DEF AnswersOk, Items

LEMMA AnswersStutter ==
  ASSUME AnswersOk, UNCHANGED specvars
  PROVE  AnswersOk'
<1>0. /\ UNCHANGED << said, row, phase, mixed, plan, outcome, sampled, at >>
  BY DEF specvars, texts, step
<1>1. \A i : /\ IsOver(i)' <=> IsOver(i)
             /\ IsSettled(i)' <=> IsSettled(i)
  BY <1>0 DEF IsOver, IsSettled
<1>2. \A i : GoingAnswers(i) => GoingAnswers(i)'
  BY <1>0, <1>1 DEF GoingAnswers, Wants, Text
<1> QED
  BY <1>0, <1>1, <1>2 DEF AnswersOk, InHand, Items

LEMMA AnswersStep ==
  ASSUME SpecInv, MemoryOk, AnswersOk, [Step]_specvars
  PROVE  AnswersOk'
<1>1. CASE UNCHANGED specvars
  BY <1>1, AnswersStutter
<1>2. CASE \/ \E id \in SeqIds : Admit(id)
           \/ BeginDrafting
           \/ \E id \in SeqIds : DraftSkip(id) \/ DraftNoSlots(id) \/ DraftDesynced(id)
           \/ \E id \in SeqIds : \E draft \in [1 .. depth -> Tokens] : Draft(id, draft)
           \/ MakePlan \/ Forward \/ ForwardFails \/ SettleFails
           \/ AdvanceDone \/ Retire \/ StepDone
           \/ FailRow \/ \E rs \in SUBSET Requests : FailRest(rs)
  <2>1. phase' \in {"admit", "draft", "fail", "forward", "sample", "retire"}
    BY <1>2 DEF Admit, BeginDrafting, DraftSkip, DraftNoSlots, DraftDesynced, Draft, Drafting,
                MakePlan, Forward, ForwardFails, SettleFails, AdvanceDone, Retire, StepDone,
                FailRow, FailRest
  <2>2. ~InHand' \/ phase' \in {"forward", "sample"}
    BY <2>1 DEF InHand
  <2> QED
    BY <2>2, AnswersVoid
<1>3. CASE Sample
  BY <1>3, SampleAnswers
<1>4. CASE SettleNext
  BY <1>4, SettleNextAnswers
<1>5. CASE \E accepted \in 0 .. K, token \in Tokens : Settle(accepted, token)
  <2>1. PICK accepted \in 0 .. K, token \in Tokens : Settle(accepted, token)
    BY <1>5
  <2>2. PICK here, x : here = at /\ x = plan[here]
    OBVIOUS
  <2> QED
    BY <2>1, <2>2, SettleAnswers
<1>6. CASE AdvancePrompt \/ AdvanceRow \/ AdvanceVerified
  <2>1. \E here, id : TurnFor(here, id)
    BY <1>6, AdvancePromptTurn, AdvanceRowTurn, AdvanceVerifiedTurn
  <2> QED
    BY <2>1, TurnAnswers
<1> QED
  BY <1>1, <1>2, <1>3, <1>4, <1>5, <1>6 DEF Step

(* What holds of every state: the rows, their memory, their answers. *)
SpecWhole == SpecInv /\ MemoryOk /\ AnswersOk
LEMMA WholeAlways == SpecSpec => []SpecWhole
<1>1. SpecInit => SpecWhole
  <2>1. SpecInit => AnswersOk
    BY DEF SpecInit, AnswersOk, InHand
  <2> QED
    BY <2>1, SpecInitially, MemoryInitially DEF SpecWhole
<1>2. SpecWhole /\ [Step]_specvars => SpecWhole'
  BY SpecInvStep, MemoryStep, AnswersStep DEF SpecWhole
<1> QED
  BY <1>1, <1>2, PTL DEF SpecSpec

-----------------------------------------------------------------------------
(* What each step is to plain decoding. *)
LEMMA AdmitBegins ==
  ASSUME NEW id \in SeqIds, Admit(id)
  PROVE  Plain!PlainNext
<1>1. PICK r \in Requests : /\ status[r] = "waiting" /\ status' = [status EXCEPT ![r] = "running"]
                            /\ UNCHANGED << ask, said, mixed >>
  BY DEF Admit
<1>2. Plain!Begin(r)
  BY <1>1 DEF Plain!Begin
<1> QED
  BY <1>2 DEF Plain!PlainNext

LEMMA ForwardDrifts ==
  ASSUME SpecInv, Forward
  PROVE  Plain!PlainNext
<1>1. phase = "forward" /\ mixed' = mixed \cup Wronged /\ UNCHANGED texts
  BY DEF Forward
<1>2. Wronged \subseteq { r \in Requests : status[r] = "running" }
  <2> SUFFICES ASSUME NEW i \in Items(plan)
               PROVE  row[plan[i].id].req \in Requests /\ status[row[plan[i].id].req] = "running"
    BY DEF Wronged
  <2>1. Going(i)
    <3>1. InHand /\ ~IsOver(i)
      BY <1>1 DEF InHand, IsOver
    <3> QED
      BY <3>1, InHandFacts
  <2>2. plan[i].id \in pool.live /\ plan[i].id \notin done
    BY <2>1 DEF Going
  <2> QED
    BY <2>2 DEF SpecInv, ServesOne
<1>3. Plain!Drift(Wronged)
  BY <1>1, <1>2 DEF Plain!Drift, texts
<1>4. Wronged \in SUBSET Requests
  BY <1>2
<1> QED
  BY <1>3, <1>4 DEF Plain!PlainNext

(* A token the row's text allows, or one of a request that has drifted. *)
LEMMA TokenIsSaid ==
  ASSUME SpecInv, phase = "advance", NEW here \in Items(plan), here = at,
         NEW t \in Tokens, NEW id, id = plan[here].id, AdvanceToken(id, t),
         ask' = ask, mixed' = mixed,
         row[id].req \notin mixed => t \in Support(Text(id))
  PROVE  Plain!PlainNext
<1> DEFINE least == Lesser(ask[row[id].req].max_tokens, MaxSeq - Len(Prompt(id)))
           next == IF t = Eog \/ t \in Stops THEN "stop"
                   ELSE IF Generated(id) + 1 >= least
                           \/ Headroom(pool, id) = 0 \/ FreeSlots(pool) = 0
                   THEN "length" ELSE "running"
<1>1. PICK r : r = row[id].req
  OBVIOUS
<1>2. r \in Requests /\ status[r] = "running" /\ id \in SeqIds /\ Serves(id)
  BY <1>1, HereFacts DEF Serves
<1>3. /\ said' = IF t = Eog THEN said ELSE [said EXCEPT ![r] = Append(said[r], t)]
      /\ status' = [status EXCEPT ![r] = next]
  BY <1>1 DEF AdvanceToken
<1>4. Text(id) = said[r] /\ Generated(id) = Plain!Generated(r)
  BY <1>1 DEF Text, Generated, Prompt, Plain!Generated
<1>5. Plain!MayChoose(r, t)
  BY <1>1, <1>2, <1>4 DEF Plain!MayChoose
<1>6. CASE t = Eog
  <2>1. status' = [status EXCEPT ![r] = "stop"] /\ said' = said
    BY <1>3, <1>6
  <2>2. Plain!EndOfText(r)
    BY <1>5, <1>6, <2>1 DEF Plain!EndOfText
  <2> QED
    BY <1>2, <2>2 DEF Plain!PlainNext
<1>7. CASE t # Eog
  <2>1. next \in {"running", "stop", "length"} /\ (next = "stop" <=> t \in Stops)
    BY <1>7
  <2>2. Plain!Generated(r) + 1 >= ask[r].max_tokens => next # "running"
    <3>1. PICK g, m, p : g = Generated(id) /\ m = ask[r].max_tokens /\ p = Len(Prompt(id))
      OBVIOUS
    <3>2. g \in Nat /\ m \in Nat /\ p \in Nat /\ MaxSeq \in Nat
      <4>1. ask[r] \in Asks
        BY <1>2 DEF SpecInv, Types, TextTypes
      <4>2. m \in Nat
        BY <3>1, <4>1, SpeculationSizes
      <4>3. g \in Nat /\ p \in Nat
        BY <1>2, <3>1, RowFacts DEF SpecInv
      <4> QED
        BY <4>2, <4>3, PoolSizes
    <3>3. g + 1 >= m => g + 1 >= Lesser(m, MaxSeq - p)
      BY ONLY <3>2 DEF Lesser
    <3>4. Generated(id) + 1 >= least => next # "running"
      OBVIOUS
    <3>5. g + 1 >= Lesser(m, MaxSeq - p) => next # "running"
      BY ONLY <1>1, <3>1, <3>4, Zenon DEF least
    <3> QED
      BY <1>4, <3>1, <3>3, <3>5
  <2> HIDE DEF next
  <2>3. said' = [said EXCEPT ![r] = Append(said[r], t)]
    BY <1>3, <1>7
  <2>4. Plain!Say(r, t)
    BY <1>3, <1>5, <1>7, <2>1, <2>2, <2>3 DEF Plain!Say
  <2> QED
    BY <1>2, <2>4 DEF Plain!PlainNext
<1> QED
  BY <1>6, <1>7

LEMMA AdvanceRowSays ==
  ASSUME SpecInv, AnswersOk, AdvanceRow
  PROVE  Plain!PlainNext
<1>1. PICK here, id, t : here = at /\ id = plan[here].id /\ t = sampled[id]
  OBVIOUS
<1>2. /\ phase = "advance" /\ here <= Len(plan) /\ Wants(plan[here])
      /\ AdvanceToken(id, t) /\ ask' = ask /\ mixed' = mixed
  BY <1>1 DEF AdvanceRow, Turn, Item
<1>3. here \in Items(plan)
  <2>1. at \in Nat \ {0} /\ Len(plan) \in Nat
    BY LenProperties DEF SpecInv, Types, StepTypes
  <2> QED
    BY <1>1, <1>2, <2>1 DEF Items
<1>4. InHand /\ ~IsOver(here) /\ id \in SeqIds
  BY <1>1, <1>2, <1>3, HereFacts
<1>5. t \in Tokens
  BY <1>1, <1>4 DEF SpecInv, Types, StepTypes
<1>6. ASSUME row[id].req \notin mixed PROVE t \in Support(Text(id))
  <2>1. GoingAnswers(here)
    BY <1>1, <1>3, <1>4, <1>6 DEF AnswersOk
  <2> QED
    BY <1>1, <1>2, <2>1 DEF GoingAnswers
<1> QED
  BY <1>1, <1>2, <1>3, <1>5, <1>6, TokenIsSaid

(* A verified row has said the tokens of its outcome it has gone through. *)
LEMMA OutcomeSaid ==
  ASSUME SpecInv, phase = "advance", NEW here \in Items(plan), here = at,
         NEW x, x = plan[here], x.kind = "verify"
  PROVE  /\ tok \in 1 .. Len(outcome[x.id]) /\ outcome[x.id] \in Seq(Tokens)
         /\ SubSeq(Text(x.id), 1, x.from + 1) \o SubSeq(outcome[x.id], 1, tok - 1) = Text(x.id)
<1>1. PICK id, f, s, o, a, m : /\ id = x.id /\ f = x.from /\ s = Text(x.id) /\ o = outcome[x.id]
                               /\ a = tok - 1 /\ m = Len(s)
  OBVIOUS
<1>2. /\ InHand /\ ~IsOver(here) /\ Going(here) /\ id \in SeqIds /\ Added(here) = a
      /\ tok \in Nat \ {0}
  BY <1>1, HereFacts
<1>3. s \in Seq(Tokens) /\ f \in Nat /\ o \in Seq(Tokens) /\ m \in Nat
  <2>1. s \in Seq(Tokens) /\ f \in Nat
    BY <1>1, <1>2, GoalFacts
  <2>2. o \in Seq(Tokens)
    BY <1>1, <1>2 DEF SpecInv, Types, StepTypes
  <2> QED
    BY <1>1, <2>1, <2>2, LenProperties
<1>4. IsSettled(here)
  BY DEF IsSettled
<1>5. /\ f + 1 + a = m /\ Len(o) \in a + 1 .. Len(x.toks)
      /\ \A j \in 1 .. a : s[f + 1 + j] = o[j]
  <2>1. FitsDecoding(x, a)
    BY <1>2 DEF Going, FitsPrefill
  <2>2. f + 1 + a = m
    BY <1>1, <2>1 DEF FitsDecoding
  <2> QED
    BY <1>1, <1>2, <1>4, <2>2 DEF Going
<1>6. /\ a \in Nat /\ a + 1 = tok /\ tok \in 1 .. Len(o) /\ a \in 0 .. Len(o) /\ f + 1 \in 0 .. m
  <2>1. PICK l, n : l = Len(o) /\ n = Len(x.toks)
    OBVIOUS
  <2>2. l \in Nat /\ n \in Nat
    BY <1>1, <1>2, <1>3, <2>1, InHandFacts, LenProperties
  <2>3. l \in a + 1 .. n
    BY <1>5, <2>1
  <2> QED
    BY <1>1, <1>2, <1>3, <1>5, <2>1, <2>2, <2>3
<1>7. PICK b, c, w : b = SubSeq(s, 1, f + 1) /\ c = SubSeq(o, 1, a) /\ w = b \o c
  OBVIOUS
<1>8. b \in Seq(Tokens) /\ Len(b) = f + 1 /\ \A i \in 1 .. f + 1 : b[i] = s[i]
  <2>1. f + 1 \in 0 .. Len(s)
    BY <1>1, <1>6
  <2> QED
    BY ONLY <1>3, <1>7, <2>1, PrefixFacts
<1>9. c \in Seq(Tokens) /\ Len(c) = a /\ \A i \in 1 .. a : c[i] = o[i]
  BY ONLY <1>3, <1>6, <1>7, PrefixFacts
<1>10. /\ w \in Seq(Tokens) /\ Len(w) = f + 1 + a
       /\ \A i \in 1 .. f + 1 + a : w[i] = IF i <= f + 1 THEN b[i] ELSE c[i - (f + 1)]
  BY ONLY <1>7, <1>8, <1>9, ConcatProperties
<1>11. \A i \in 1 .. m : w[i] = s[i]
  <2> SUFFICES ASSUME NEW i \in 1 .. m PROVE w[i] = s[i]
    OBVIOUS
  <2>1. i \in 1 .. f + 1 + a /\ w[i] = IF i <= f + 1 THEN b[i] ELSE c[i - (f + 1)]
    BY <1>5, <1>10
  <2>2. CASE i <= f + 1
    <3>1. i \in 1 .. f + 1
      BY <1>3, <2>2
    <3> QED
      BY <1>8, <2>1, <2>2, <3>1
  <2>3. CASE ~(i <= f + 1)
    <3>1. PICK j : j = i - (f + 1)
      OBVIOUS
    <3>2. j \in 1 .. a /\ f + 1 + j = i
      <4>1. f \in Nat /\ a \in Nat /\ i \in 1 .. f + 1 + a
        BY <1>3, <1>6, <2>1
      <4> QED
        BY ONLY <2>3, <3>1, <4>1
    <3> QED
      BY <1>5, <1>9, <2>1, <2>3, <3>1, <3>2
  <2> QED
    BY <2>2, <2>3
<1>12. w = s
  <2>1. Len(w) = m /\ Len(s) = m
    BY <1>1, <1>5, <1>10
  <2> QED
    BY ONLY <1>3, <1>10, <1>11, <2>1, SeqEqual
<1> QED
  BY <1>1, <1>3, <1>6, <1>7, <1>12

LEMMA AdvanceVerifiedSays ==
  ASSUME SpecInv, AnswersOk, AdvanceVerified
  PROVE  Plain!PlainNext
<1>1. PICK here, x, o, n : here = at /\ x = plan[here] /\ o = outcome[x.id] /\ n = tok
  OBVIOUS
<1>0. PICK t : t = o[n]
  OBVIOUS
<1>2. /\ phase = "advance" /\ here <= Len(plan) /\ x.kind = "verify"
      /\ AdvanceToken(x.id, t) /\ ask' = ask /\ mixed' = mixed
  BY <1>0, <1>1 DEF AdvanceVerified, Turn, Item
<1>3. here \in Items(plan)
  <2>1. at \in Nat \ {0} /\ Len(plan) \in Nat
    BY LenProperties DEF SpecInv, Types, StepTypes
  <2> QED
    BY <1>1, <1>2, <2>1 DEF Items
<1>4. InHand /\ ~IsOver(here) /\ IsSettled(here)
  BY <1>1, <1>2, <1>3, HereFacts DEF IsSettled
<1>5. /\ n \in 1 .. Len(o) /\ o \in Seq(Tokens)
      /\ SubSeq(Text(x.id), 1, x.from + 1) \o SubSeq(o, 1, n - 1) = Text(x.id)
  BY <1>1, <1>2, <1>3, OutcomeSaid
<1>6. t \in Tokens
  BY <1>0, <1>5, ElementOfSeq
<1>7. ASSUME row[x.id].req \notin mixed PROVE t \in Support(Text(x.id))
  <2>1. GoingAnswers(here)
    BY <1>1, <1>3, <1>4, <1>7 DEF AnswersOk
  <2>2. o[n] \in Support(SubSeq(Text(x.id), 1, x.from + 1) \o SubSeq(o, 1, n - 1))
    BY <1>1, <1>4, <1>5, <2>1 DEF GoingAnswers
  <2> QED
    BY <1>0, <1>5, <2>2
<1> QED
  BY <1>1, <1>2, <1>3, <1>6, <1>7, TokenIsSaid

LEMMA FailingFails ==
  ASSUME SpecInv, FailRow \/ \E rs \in SUBSET Requests : FailRest(rs)
  PROVE  Plain!PlainNext \/ UNCHANGED << ask, said, status, mixed >>
<1>0. status \in [Requests -> {"waiting", "running", "stop", "length", "failed"}]
  BY DEF SpecInv, Types, TextTypes
<1>1. CASE FailRow
  <2>1. PICK r : r = row[running[1]].req
    OBVIOUS
  <2>2. /\ phase = "fail" /\ running # << >> /\ status' = [status EXCEPT ![r] = "failed"]
        /\ UNCHANGED << ask, said, mixed >>
    BY <1>1, <2>1 DEF FailRow, Gone
  <2>3. r \in Requests /\ status[r] = "running"
    <3>1. running[1] \in pool.live
      <4>1. running \in Seq(SeqIds)
        BY DEF SpecInv, Types, RowTypes
      <4>2. 1 \in 1 .. Len(running)
        BY <2>2, <4>1, EmptySeq, LenProperties
      <4>3. running[1] \in SeqIds
        BY <4>1, <4>2, ElementOfSeq
      <4> QED
        BY <4>2, <4>3 DEF SpecInv, RunningOk
    <3>2. done = {}
      BY <2>2 DEF SpecInv, Scratch
    <3> QED
      BY <2>1, <3>1, <3>2 DEF SpecInv, ServesOne
  <2>4. status' = [q \in Requests |-> IF q \in {r} THEN "failed" ELSE status[q]]
    BY <1>0, <2>2
  <2>5. Plain!Fail({r})
    BY <2>2, <2>3, <2>4 DEF Plain!Fail
  <2>6. {r} \in SUBSET Requests
    BY <2>3
  <2> QED
    BY <2>5, <2>6 DEF Plain!PlainNext
<1>2. CASE \E rs \in SUBSET Requests : FailRest(rs)
  <2>1. PICK rs \in SUBSET Requests : FailRest(rs)
    BY <1>2
  <2>2. /\ rs \subseteq { r \in Requests : status[r] = "waiting" }
        /\ status' = [r \in Requests |-> IF r \in rs THEN "failed" ELSE status[r]]
        /\ UNCHANGED << ask, said, mixed >>
    BY <2>1 DEF FailRest
  <2>3. CASE rs = {}
    <3>1. status' = status
      BY <1>0, <2>2, <2>3
    <3> QED
      BY <2>2, <3>1
  <2>4. CASE rs # {}
    <3>1. Plain!Fail(rs)
      BY <2>2, <2>4 DEF Plain!Fail
    <3> QED
      BY <3>1 DEF Plain!PlainNext
  <2> QED
    BY <2>3, <2>4
<1> QED
  BY <1>1, <1>2

LEMMA PlainStep ==
  ASSUME SpecWhole, [Step]_specvars
  PROVE  [Plain!PlainNext]_(Plain!plainvars)
<1>0. SpecInv /\ AnswersOk
  BY DEF SpecWhole
<1>1. ASSUME UNCHANGED << ask, said, status, mixed >> PROVE UNCHANGED Plain!plainvars
  BY <1>1 DEF Plain!plainvars
<1>2. CASE \/ UNCHANGED specvars
           \/ BeginDrafting
           \/ \E id \in SeqIds : DraftSkip(id) \/ DraftNoSlots(id) \/ DraftDesynced(id)
           \/ \E id \in SeqIds : \E draft \in [1 .. depth -> Tokens] : Draft(id, draft)
           \/ MakePlan \/ ForwardFails \/ Sample \/ SettleFails
           \/ \E accepted \in 0 .. K, token \in Tokens : Settle(accepted, token)
           \/ SettleNext \/ AdvancePrompt \/ AdvanceDone \/ Retire \/ StepDone
  <2>1. CASE UNCHANGED specvars \/ BeginDrafting \/ MakePlan
    BY <1>1, <2>1 DEF specvars, texts, BeginDrafting, MakePlan
  <2>2. CASE \/ \E id \in SeqIds : DraftSkip(id) \/ DraftNoSlots(id) \/ DraftDesynced(id)
             \/ \E id \in SeqIds : \E draft \in [1 .. depth -> Tokens] : Draft(id, draft)
    <3>1. \E id \in SeqIds : Drafting(id)
      BY <2>2 DEF DraftSkip, DraftNoSlots, DraftDesynced, Draft
    <3> QED
      BY <1>1, <3>1 DEF Drafting, texts
  <2>3. CASE ForwardFails \/ Sample \/ SettleFails
    BY <1>1, <2>3 DEF texts, ForwardFails, Sample, SettleFails
  <2>4. CASE \E accepted \in 0 .. K, token \in Tokens : Settle(accepted, token)
    BY <1>1, <2>4 DEF texts, Settle
  <2>5. CASE SettleNext \/ AdvancePrompt \/ AdvanceDone
    BY <1>1, <2>5 DEF texts, SettleNext, AdvancePrompt, Turn, AdvanceDone
  <2>6. CASE Retire \/ StepDone
    BY <1>1, <2>6 DEF texts, Retire, Gone, StepDone
  <2> QED
    BY <1>2, <2>1, <2>2, <2>3, <2>4, <2>5, <2>6
<1>3. CASE \E id \in SeqIds : Admit(id)
  BY <1>3, AdmitBegins
<1>4. CASE Forward
  BY <1>0, <1>4, ForwardDrifts
<1>5. CASE AdvanceRow
  BY <1>0, <1>5, AdvanceRowSays
<1>6. CASE AdvanceVerified
  BY <1>0, <1>6, AdvanceVerifiedSays
<1>7. CASE FailRow \/ \E rs \in SUBSET Requests : FailRest(rs)
  BY <1>0, <1>1, <1>7, FailingFails
<1> QED
  BY <1>2, <1>3, <1>4, <1>5, <1>6, <1>7 DEF Step

(* Speculation is a pure speedup and not a different sampler: every token of *)
(* every reply is one the model could have chosen after the tokens before    *)
(* it, whatever was drafted, refused, rolled back or replayed. The requests  *)
(* of `mixed`, whose row shared a pass with the journal, are the exception.  *)
THEOREM SpeculationIsPlain == SpecSpec => PlainDecoding
<1>1. SpecInit => Plain!PlainInit
  BY DEF SpecInit, Plain!PlainInit
<1>2. SpecWhole /\ [Step]_specvars => [Plain!PlainNext]_(Plain!plainvars)
  BY PlainStep
<1>3. SpecSpec => []SpecWhole
  BY WholeAlways
<1> QED
  BY <1>1, <1>2, <1>3, PTL DEF SpecSpec, PlainDecoding, Plain!PlainSpec

=============================================================================

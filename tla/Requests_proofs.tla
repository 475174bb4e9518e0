--------------------------- MODULE Requests_proofs ---------------------------
(***************************************************************************)
(* Three of the components MCRequests puts side by side, with no bounds.   *)
(*                                                                         *)
(* RateLimiter: RateBounded for any number of callers and keys, any limit  *)
(* and window, and a clock that runs as far as it likes. What makes it     *)
(* inductive is the window that is open: it has served at most Limit,      *)
(* everything served before it fits the windows before it, and they lie a  *)
(* whole Window apart - also when the call that opened it, or the one that *)
(* meets it, read its clock long ago.                                      *)
(*                                                                         *)
(* DecodeGraphs: RunsItsShape for any passes, any bucket, any context      *)
(* length and a cache of any size. A graph is determined by its key: all   *)
(* that went into its launch, the windows of the journal apart, is in the  *)
(* key or the same for every pass that may be captured.                    *)
(*                                                                         *)
(* Reply: SaysItsText and StopsAtStop for any bytes, any stop strings and  *)
(* tokens of any length. Of a row that generates, Decoded says that there  *)
(* are bytes `done` whose text is what was sent and what is held back, that *)
(* `partial` is the bytes behind them, that no character goes over the     *)
(* joint, and that no stop string is in that text or begins in it before   *)
(* what is held back.                                                      *)
(***************************************************************************)
EXTENDS RateLimiter, DecodeGraphs, Reply, KvPool_proofs

(* The rate limiter. *)
WindowInv(w, l) ==
  /\ w.count <= Limit /\ l.opened >= 1
  /\ l.served <= Limit * (l.opened - 1) + w.count
  /\ (l.opened - 1) * Window <= w.start - l.first
  /\ w.start <= clock
KeyInv(w, l) ==
  IF w = None THEN l.served = 0 /\ l.opened = 0 /\ l.first = 0 ELSE WindowInv(w, l)
CallsPast == \A c \in Callers : call[c] # None => call[c] <= clock
LimiterInv == LimiterTypeOK /\ CallsPast /\ \A k \in Keys : KeyInv(windows[k], ledger[k])

(* Every request belongs to one key. *)
LEMMA KeyInKeys == ASSUME NEW c \in Callers PROVE KeyOfCaller(c) \in Keys
  BY LimiterSizes DEF KeyOfCaller, LimiterSizes

(* The window a call is counted in, before it is counted: whether it is     *)
(* open still or has to be opened, the window is one of those KeyInv allows *)
(* and the ledger of Record fits it.                                        *)
LEMMA WindowFits ==
  ASSUME LimiterInv, NEW k \in Keys, NEW now \in Nat, now <= clock
  PROVE  LET w == WindowFor(k, now)
             l == [ served |-> ledger[k].served,
                    opened |-> ledger[k].opened + (IF Renewed(k, now) THEN 1 ELSE 0),
                    first  |-> IF windows[k] = None THEN now ELSE ledger[k].first ]
         IN  w \in [start : Nat, count : Nat] /\ WindowInv(w, l)
<1> DEFINE w == WindowFor(k, now)
           o == ledger[k].opened
           l == [ served |-> ledger[k].served,
                  opened |-> o + (IF Renewed(k, now) THEN 1 ELSE 0),
                  first  |-> IF windows[k] = None THEN now ELSE ledger[k].first ]
<1>0. /\ ledger[k] \in [served : Nat, opened : Nat, first : Nat] /\ clock \in Nat
      /\ windows[k] # None => windows[k] \in [start : Nat, count : Nat]
      /\ KeyInv(windows[k], ledger[k])
      /\ Limit \in Nat /\ Window \in Nat \ {0}
  BY LimiterSizes DEF LimiterInv, LimiterTypeOK, LimiterSizes
<1>1. CASE windows[k] = None
  BY <1>0, <1>1 DEF WindowFor, Renewed, WindowInv, KeyInv
<1>2. CASE windows[k] # None /\ Expired(windows[k], now)
  <2>1. /\ windows[k].count \in Nat /\ windows[k].start \in Nat /\ o \in Nat \ {0}
        /\ ledger[k].served \in Nat /\ ledger[k].first \in Nat
        /\ windows[k].count <= Limit
        /\ ledger[k].served <= Limit * (o - 1) + windows[k].count
        /\ (o - 1) * Window <= windows[k].start - ledger[k].first
    BY <1>0, <1>2 DEF KeyInv, WindowInv
  <2>2. now - windows[k].start >= Window
    BY <1>0, <1>2, <2>1 DEF Expired, Since
  <2>3. Limit * (o - 1) + Limit = Limit * o /\ (o - 1) * Window + Window = o * Window
    BY <1>0, <2>1
  <2>4. Limit * (o - 1) \in Int /\ Limit * o \in Int /\ (o - 1) * Window \in Int /\ o * Window \in Int
    BY <1>0, <2>1
  <2>5. ledger[k].served <= Limit * o
    BY <1>0, <2>1, <2>3, <2>4
  <2>6. o * Window <= now - ledger[k].first
    BY <1>0, <2>1, <2>2, <2>3, <2>4
  <2>7. w = [start |-> now, count |-> 0] /\ l.opened = o + 1 /\ l.first = ledger[k].first
    BY <1>2 DEF WindowFor, Renewed
  <2>8. o + 1 - 1 = o
    BY <2>1
  <2>. QED
    BY <1>0, <2>1, <2>5, <2>6, <2>7, <2>8 DEF WindowInv
<1>3. CASE windows[k] # None /\ ~Expired(windows[k], now)
  <2>1. w = windows[k] /\ l.opened = o /\ l.first = ledger[k].first /\ l.served = ledger[k].served
    BY <1>0, <1>3 DEF WindowFor, Renewed
  <2>. QED
    BY <1>0, <1>3, <2>1 DEF KeyInv, WindowInv
<1>. QED
  BY <1>1, <1>2, <1>3

(* Nobody has called. *)
LEMMA InitInv == LimiterInit => LimiterInv
  BY LimiterSizes DEF LimiterInit, LimiterInv, LimiterTypeOK, CallsPast, KeyInv, LimiterSizes

(* A window that started by now has started by any later time. *)
LEMMA TickInv == LimiterInv /\ Tick => LimiterInv'
<1> SUFFICES ASSUME LimiterInv, Tick PROVE LimiterInv'
  OBVIOUS
<1>1. clock \in Nat /\ clock' \in Nat /\ clock < clock'
  BY DEF LimiterInv, LimiterTypeOK, Tick
<1>2. LimiterTypeOK'
  BY <1>1 DEF LimiterInv, LimiterTypeOK, Tick
<1>3. CallsPast'
  BY <1>1 DEF LimiterInv, LimiterTypeOK, CallsPast, Tick
<1>4. \A k \in Keys : KeyInv(windows[k], ledger[k])'
  BY <1>1 DEF LimiterInv, LimiterTypeOK, KeyInv, WindowInv, Tick
<1>. QED
  BY <1>2, <1>3, <1>4 DEF LimiterInv

(* What is read is the clock. *)
LEMMA ReadClockInv ==
  ASSUME LimiterInv, NEW c \in Callers, ReadClock(c) PROVE LimiterInv'
<1>1. LimiterTypeOK'
  BY DEF LimiterInv, LimiterTypeOK, ReadClock
<1>2. CallsPast'
  BY DEF LimiterInv, LimiterTypeOK, CallsPast, ReadClock
<1>3. \A k \in Keys : KeyInv(windows[k], ledger[k])'
  BY DEF LimiterInv, KeyInv, WindowInv, ReadClock
<1>. QED
  BY <1>1, <1>2, <1>3 DEF LimiterInv

(* What both outcomes of check leave: the call answered, its key's window   *)
(* and ledger as WindowFits has them, with the request counted or not, and  *)
(* every other key untouched.                                               *)
LEMMA CheckInv ==
  ASSUME LimiterInv, NEW c \in Callers, call[c] # None, NEW more \in {0, 1},
         WindowFor(KeyOfCaller(c), call[c]).count + more <= Limit,
         windows' = [windows EXCEPT ![KeyOfCaller(c)] =
           [WindowFor(KeyOfCaller(c), call[c]) EXCEPT !.count = @ + more]],
         Record(KeyOfCaller(c), call[c], more = 1),
         call' = [call EXCEPT ![c] = None], clock' = clock,
         refused' \in [Callers -> [start : Nat, until : Nat] \cup {None}]
  PROVE  LimiterInv'
<1> DEFINE k == KeyOfCaller(c)
           now == call[c]
           w == WindowFor(k, now)
           l == [ served |-> ledger[k].served,
                  opened |-> ledger[k].opened + (IF Renewed(k, now) THEN 1 ELSE 0),
                  first  |-> IF windows[k] = None THEN now ELSE ledger[k].first ]
<1>1. k \in Keys /\ now \in Nat /\ now <= clock /\ clock \in Nat
  BY KeyInKeys DEF LimiterInv, LimiterTypeOK, CallsPast
<1>2. w \in [start : Nat, count : Nat] /\ WindowInv(w, l)
  BY <1>1, WindowFits
<1>3. ledger[k] \in [served : Nat, opened : Nat, first : Nat]
  BY <1>1 DEF LimiterInv, LimiterTypeOK
<1>4. /\ windows'[k] = [start |-> w.start, count |-> w.count + more]
      /\ ledger'[k] = [served |-> l.served + more, opened |-> l.opened, first |-> l.first]
      /\ \A j \in Keys \ {k} : windows'[j] = windows[j] /\ ledger'[j] = ledger[j]
  <2>1. windows \in [Keys -> [start : Nat, count : Nat] \cup {None}]
    BY DEF LimiterInv, LimiterTypeOK
  <2>2. ledger \in [Keys -> [served : Nat, opened : Nat, first : Nat]]
    BY DEF LimiterInv, LimiterTypeOK
  <2>3. windows'[k] = [start |-> w.start, count |-> w.count + more]
    BY <1>1, <1>2, <2>1
  <2>4. ledger'[k] = [served |-> l.served + more, opened |-> l.opened, first |-> l.first]
    BY <1>1, <1>3, <2>2 DEF Record
  <2>5. \A j \in Keys \ {k} : windows'[j] = windows[j] /\ ledger'[j] = ledger[j]
    BY <1>1, <2>1, <2>2 DEF Record
  <2>. QED
    BY <2>3, <2>4, <2>5
<1>5. l.served \in Nat /\ l.opened \in Nat /\ l.first \in Nat
  BY <1>1, <1>3
<1>. HIDE DEF k, now, w, l
<1>6. windows'[k] \in [start : Nat, count : Nat]
  BY <1>2, <1>4
<1>7. ledger'[k] \in [served : Nat, opened : Nat, first : Nat]
  BY <1>4, <1>5
<1>8. LimiterTypeOK'
  <2>1. windows' \in [Keys -> [start : Nat, count : Nat] \cup {None}]
    <3>1. \A j \in Keys : windows'[j] \in [start : Nat, count : Nat] \cup {None}
      BY <1>4, <1>6 DEF LimiterInv, LimiterTypeOK
    <3>. QED
      BY <3>1 DEF LimiterInv, LimiterTypeOK
  <2>2. ledger' \in [Keys -> [served : Nat, opened : Nat, first : Nat]]
    <3>1. \A j \in Keys : ledger'[j] \in [served : Nat, opened : Nat, first : Nat]
      BY <1>4, <1>7 DEF LimiterInv, LimiterTypeOK
    <3>. QED
      BY <3>1 DEF LimiterInv, LimiterTypeOK, Record
  <2>3. call' \in [Callers -> Nat \cup {None}] /\ clock' \in Nat
    BY DEF LimiterInv, LimiterTypeOK
  <2>. QED
    BY <2>1, <2>2, <2>3 DEF LimiterTypeOK
<1>9. CallsPast'
  BY DEF LimiterInv, LimiterTypeOK, CallsPast
<1>10. KeyInv(windows'[k], ledger'[k])
  <2>1. windows'[k] # None
    BY <1>6, LimiterSizes DEF LimiterSizes
  <2>2. Limit * (l.opened - 1) \in Int
    BY <1>5, LimiterSizes DEF LimiterSizes
  <2>3. l.served + more <= Limit * (l.opened - 1) + (w.count + more)
    BY <1>2, <1>5, <2>2 DEF WindowInv
  <2>4. w.count + more <= Limit
    BY DEF k, now, w
  <2>5. WindowInv(windows'[k], ledger'[k])
    BY <1>2, <1>4, <2>3, <2>4 DEF WindowInv
  <2>. QED
    BY <2>1, <2>5 DEF KeyInv
<1>11. \A j \in Keys : KeyInv(windows'[j], ledger'[j])
  BY <1>4, <1>10 DEF LimiterInv
<1>12. \A j \in Keys : KeyInv(windows[j], ledger[j])'
  BY <1>11 DEF KeyInv, WindowInv
<1>. QED
  BY <1>8, <1>9, <1>12 DEF LimiterInv

(* Serve counts the request... *)
LEMMA ServeInv == ASSUME LimiterInv, NEW c \in Callers, Serve(c) PROVE LimiterInv'
<1> DEFINE w == WindowFor(KeyOfCaller(c), call[c])
<1>1. w.count \in Nat
  <2>1. KeyOfCaller(c) \in Keys /\ call[c] \in Nat /\ call[c] <= clock
    BY KeyInKeys DEF LimiterInv, LimiterTypeOK, CallsPast, Serve
  <2>. QED
    BY <2>1, WindowFits
<1>2. w.count + 1 <= Limit
  BY <1>1, LimiterSizes DEF LimiterSizes, Serve
<1>3. refused' \in [Callers -> [start : Nat, until : Nat] \cup {None}]
  BY DEF LimiterInv, LimiterTypeOK, Serve
<1>4. Record(KeyOfCaller(c), call[c], 1 = 1)
  BY DEF Serve, Record
<1>. QED
  BY <1>2, <1>3, <1>4, CheckInv DEF Serve

(* ... and Refuse does not, though it may open a window. *)
LEMMA RefuseInv == ASSUME LimiterInv, NEW c \in Callers, Refuse(c) PROVE LimiterInv'
<1> DEFINE w == WindowFor(KeyOfCaller(c), call[c])
<1>1. w \in [start : Nat, count : Nat] /\ w.count <= Limit
  <2>1. KeyOfCaller(c) \in Keys /\ call[c] \in Nat /\ call[c] <= clock
    BY KeyInKeys DEF LimiterInv, LimiterTypeOK, CallsPast, Refuse
  <2>. QED
    BY <2>1, WindowFits DEF WindowInv
<1>2. w.count + 0 <= Limit /\ [w EXCEPT !.count = @ + 0] = w
  BY <1>1
<1>3. refused' \in [Callers -> [start : Nat, until : Nat] \cup {None}]
  <2>1. RetryAfter(w, call[c]) \in Nat
    <3>1. call[c] \in Nat /\ w.start \in Nat /\ Window \in Nat /\ Second \in Nat \ {0}
      BY <1>1, LimiterSizes DEF LimiterInv, LimiterTypeOK, LimiterSizes, Refuse
    <3>. HIDE DEF w
    <3>2. ASSUME NEW n \in Nat PROVE n \div Second \in Int
      BY <3>1
    <3>. QED
      BY <3>1, <3>2 DEF RetryAfter, Since
  <2>2. clock + RetryAfter(w, call[c]) * Second \in Nat
    <3>1. \A r, t, n \in Nat : t + r * n \in Nat
      OBVIOUS
    <3>2. clock \in Nat /\ Second \in Nat
      BY LimiterSizes DEF LimiterInv, LimiterTypeOK, LimiterSizes
    <3>. QED
      BY <2>1, <3>1, <3>2
  <2>. QED
    BY <1>1, <2>2 DEF LimiterInv, LimiterTypeOK, Refuse
<1>4. Record(KeyOfCaller(c), call[c], 0 = 1)
  BY DEF Refuse, Record
<1>. QED
  BY <1>2, <1>3, <1>4, CheckInv DEF Refuse

(* The invariant holds in every state the limiter reaches. *)
LEMMA Reached == LimiterSpec => []LimiterInv
<1>1. LimiterInv /\ [LimiterNext]_limiter => LimiterInv'
  <2> SUFFICES ASSUME LimiterInv, [LimiterNext]_limiter PROVE LimiterInv'
    OBVIOUS
  <2>1. CASE Tick
    BY <2>1, TickInv
  <2>2. ASSUME NEW c \in Callers, ReadClock(c) PROVE LimiterInv'
    BY <2>2, ReadClockInv
  <2>3. ASSUME NEW c \in Callers, Serve(c) PROVE LimiterInv'
    BY <2>3, ServeInv
  <2>4. ASSUME NEW c \in Callers, Refuse(c) PROVE LimiterInv'
    BY <2>4, RefuseInv
  <2>5. CASE UNCHANGED limiter
    BY <2>5 DEF limiter, LimiterInv, LimiterTypeOK, CallsPast, KeyInv, WindowInv
  <2>. QED
    BY <2>1, <2>2, <2>3, <2>4, <2>5 DEF LimiterNext
<1>. QED
  BY InitInv, <1>1, PTL DEF LimiterSpec

(* Windows, calls and the times clients are told to wait for are as typed. *)
THEOREM LimiterTypeCorrect == LimiterSpec => []LimiterTypeOK
<1>1. LimiterInv => LimiterTypeOK
  BY DEF LimiterInv
<1>. QED
  BY <1>1, Reached, PTL

(* RateLimiter::check, called by any number of requests that race for its   *)
(* lock with times they read before: no key is served more than Limit       *)
(* requests a window, and its windows lie a whole Window apart.             *)
THEOREM RateIsBounded == LimiterSpec => []RateBounded
<1>1. LimiterInv => RateBounded
  <2> SUFFICES ASSUME LimiterInv, NEW k \in Keys
               PROVE  /\ ledger[k].served <= Limit * ledger[k].opened
                      /\ (ledger[k].opened - 1) * Window <= clock - ledger[k].first
    BY DEF RateBounded
  <2>1. /\ ledger[k] \in [served : Nat, opened : Nat, first : Nat] /\ clock \in Nat
        /\ windows[k] # None => windows[k] \in [start : Nat, count : Nat]
        /\ KeyInv(windows[k], ledger[k])
        /\ Limit \in Nat /\ Window \in Nat
    BY LimiterSizes DEF LimiterInv, LimiterTypeOK, LimiterSizes
  <2>2. CASE windows[k] = None
    BY <2>1, <2>2 DEF KeyInv
  <2>3. CASE windows[k] # None
    <3> DEFINE o == ledger[k].opened
    <3>1. o \in Nat /\ Limit * (o - 1) \in Int /\ (o - 1) * Window \in Int
      BY <2>1
    <3>2. Limit * (o - 1) + Limit = Limit * o
      BY <2>1
    <3>. QED
      BY <2>1, <2>3, <3>1, <3>2 DEF KeyInv, WindowInv
  <2>. QED
    BY <2>2, <2>3
<1>. QED
  BY <1>1, Reached, PTL

(* Rounding down to whole seconds takes off less than one of them. *)
LEMMA WholeSeconds ==
  ASSUME NEW n \in Nat, NEW s \in Nat \ {0}
  PROVE  n \div s \in Nat /\ (n \div s) * s \in Nat /\ n <= (n \div s) * s + s
<1>1. n \div s \in Nat /\ n = s * (n \div s) + (n % s) /\ n % s \in 0..(s - 1)
  OBVIOUS
<1>2. s * (n \div s) = (n \div s) * s /\ (n \div s) * s \in Nat
  BY <1>1
<1>. QED
  BY <1>1, <1>2

(* A second after what the header says, the window that refused is over. *)
Waits == \A c \in Callers :
  refused[c] # None => refused[c].start + Window <= refused[c].until + Second

(* What a refusal tells the client, whenever it had read its clock. *)
LEMMA LongEnough ==
  ASSUME NEW w \in [start : Nat, count : Nat], NEW now \in Nat, clock \in Nat,
         now <= clock, w.start <= clock
  PROVE  w.start + Window <= clock + RetryAfter(w, now) * Second + Second
<1> DEFINE left == IF Since(now, w.start) < Window THEN Window - Since(now, w.start) ELSE 0
           seconds == left \div Second
<1>1. Window \in Nat /\ Second \in Nat \ {0} /\ w.start \in Nat
  BY LimiterSizes DEF LimiterSizes
<1>2. left \in Nat /\ w.start + Window <= clock + left
  BY <1>1 DEF Since
<1>3. RetryAfter(w, now) = IF seconds >= 1 THEN seconds ELSE 1
  BY DEF RetryAfter
<1>. HIDE DEF left
<1>4. seconds \in Nat /\ seconds * Second \in Nat /\ left <= seconds * Second + Second
  BY <1>1, <1>2, WholeSeconds
<1>. HIDE DEF seconds
<1>5. CASE seconds >= 1
  BY <1>1, <1>2, <1>3, <1>4, <1>5
<1>6. CASE seconds = 0
  BY <1>1, <1>2, <1>3, <1>4, <1>6
<1>. QED
  BY <1>4, <1>5, <1>6

(* A client that comes back a second after the time it was told finds       *)
(* another window than the one that refused it, whoever opened it.          *)
THEOREM RetryWorks == LimiterSpec => []RetryIsDue
<1>1. LimiterInit => Waits
  BY DEF LimiterInit, Waits
<1>2. LimiterInv /\ Waits /\ [LimiterNext]_limiter => Waits'
  <2> SUFFICES ASSUME LimiterInv, Waits, [LimiterNext]_limiter PROVE Waits'
    OBVIOUS
  <2>1. CASE Tick \/ (\E c \in Callers : ReadClock(c)) \/ UNCHANGED limiter
    BY <2>1 DEF Tick, ReadClock, limiter, Waits
  <2>2. ASSUME NEW c \in Callers, Serve(c) PROVE Waits'
    BY <2>2 DEF LimiterInv, LimiterTypeOK, Serve, Waits
  <2>3. ASSUME NEW c \in Callers, Refuse(c) PROVE Waits'
    <3> DEFINE w == WindowFor(KeyOfCaller(c), call[c])
    <3>1. KeyOfCaller(c) \in Keys /\ call[c] \in Nat /\ call[c] <= clock /\ clock \in Nat
      BY <2>3, KeyInKeys DEF LimiterInv, LimiterTypeOK, CallsPast, Refuse
    <3>2. w \in [start : Nat, count : Nat] /\ w.start <= clock
      BY <3>1, WindowFits DEF WindowInv
    <3>3. w.start + Window <= clock + RetryAfter(w, call[c]) * Second + Second
      BY <3>1, <3>2, LongEnough
    <3>4. refused' = [refused EXCEPT ![c] =
            [start |-> w.start, until |-> clock + RetryAfter(w, call[c]) * Second]]
      BY <2>3 DEF Refuse
    <3>. HIDE DEF w
    <3>. QED
      BY <3>3, <3>4 DEF LimiterInv, LimiterTypeOK, Waits
  <2>. QED
    BY <2>1, <2>2, <2>3 DEF LimiterNext
<1>3. LimiterInv /\ Waits => RetryIsDue
  <2> SUFFICES ASSUME LimiterInv, Waits, NEW c \in Callers, refused[c] # None,
                      clock >= refused[c].until + Second
               PROVE  WindowFor(KeyOfCaller(c), clock).start # refused[c].start
    BY DEF RetryIsDue
  <2> DEFINE k == KeyOfCaller(c)
  <2>1. k \in Keys /\ clock \in Nat /\ refused[c].start \in Nat /\ refused[c].until \in Nat
    BY KeyInKeys DEF LimiterInv, LimiterTypeOK
  <2>2. Window \in Nat \ {0} /\ Second \in Nat
    BY LimiterSizes DEF LimiterSizes
  <2>3. refused[c].start + Window <= clock
    BY <2>1, <2>2 DEF Waits
  <2>4. CASE Renewed(k, clock)
    BY <2>1, <2>2, <2>3, <2>4 DEF WindowFor
  <2>5. CASE ~Renewed(k, clock)
    <3>1. windows[k] \in [start : Nat, count : Nat] /\ Since(clock, windows[k].start) < Window
      BY <2>1, <2>2, <2>5 DEF Renewed, Expired, LimiterInv, LimiterTypeOK, Since
    <3>2. windows[k].start # refused[c].start
      BY <2>1, <2>2, <2>3, <3>1 DEF Since
    <3>. QED
      BY <2>5, <3>2 DEF WindowFor
  <2>. QED
    BY <2>4, <2>5
<1>. QED
  BY InitInv, Reached, <1>1, <1>2, <1>3, PTL DEF LimiterSpec

-----------------------------------------------------------------------------
(* Captured graphs. *)
OfKey(k, launch) ==
  /\ launch.pool = k.pool /\ launch.tokens = k.tokens
  /\ launch.armed = k.armed /\ launch.kv = k.kv
  /\ launch.run = 0
  /\ launch.calls = {[base |-> 0, tokens |-> k.tokens]}
GraphsOfKeys == \A k \in DOMAIN graph : OfKey(k, graph[k])
GraphInv == pass \in GraphPasses \cup {NoPass} /\ GraphsOfKeys /\ RunsItsShape

(* The longest row of a pass is one number, and no row is longer. *)
LEMMA KvLenReaches ==
  ASSUME NEW p \in GraphPasses
  PROVE  /\ KvLen(p) \in 0 .. LongestKv
         /\ \A i \in Items(p) : Reach(p.items[i]) <= KvLen(p)
<1> DEFINE T == { m \in 0 .. LongestKv : \A i \in Items(p) : Reach(p.items[i]) <= m }
<1>1. LongestKv \in Nat /\ LongestKv \in T
  BY GraphSizes DEF GraphSizes, Items
<1> DEFINE Lengths == { 0 .. m : m \in T }
<1>2. PICK least \in Lengths : \A other \in Lengths :
        ~ (<< other, least >> \in StrictSubsetOrdering(0 .. LongestKv))
  <2>1. IsFiniteSet(0 .. LongestKv)
    BY <1>1, FS_Interval
  <2>2. IsWellFoundedOn(StrictSubsetOrdering(0 .. LongestKv), SUBSET (0 .. LongestKv))
    BY <2>1, FS_StrictSubsetOrderingWellFounded, FS_FiniteSubsetsOfFinite
  <2>3. Lengths \subseteq SUBSET (0 .. LongestKv) /\ Lengths # {}
    BY <1>1
  <2> HIDE DEF Lengths
  <2> QED
    BY <2>2, <2>3, WFMin
<1>3. PICK x \in T : least = 0 .. x
  OBVIOUS
<1>4. \A y \in T : x <= y
  <2> SUFFICES ASSUME NEW y \in T, y < x PROVE FALSE
    BY <1>1
  <2>1. x \in Nat /\ y \in Nat /\ x <= LongestKv /\ 0 .. y \in Lengths
    BY <1>1
  <2>2. 0 .. y \subseteq 0 .. x /\ 0 .. x \subseteq 0 .. LongestKv /\ 0 .. y # 0 .. x
    <3>1. x \in 0 .. x /\ x \notin 0 .. y
      BY <2>1
    <3> QED
      BY <1>1, <2>1, <3>1
  <2>3. << 0 .. y, 0 .. x >> \in StrictSubsetOrdering(0 .. LongestKv)
    BY <2>2 DEF StrictSubsetOrdering
  <2> QED
    BY <1>2, <1>3, <2>1, <2>3
<1>5. \E n \in 0 .. LongestKv :
        /\ \A i \in Items(p) : Reach(p.items[i]) <= n
        /\ \A m \in 0 .. LongestKv : (\A i \in Items(p) : Reach(p.items[i]) <= m) => n <= m
  BY <1>4
<1> HIDE DEF T
<1> QED
  BY <1>5 DEF KvLen

(* A bucket is never shorter than what is put into it. *)
LEMMA BucketCovers == ASSUME NEW n \in Nat PROVE Bucketed(n) \in Nat /\ n <= Bucketed(n)
<1>1. KvBucket \in Nat \ {0} /\ n % KvBucket \in 0 .. KvBucket - 1
  BY GraphSizes DEF GraphSizes
<1> QED
  BY <1>1 DEF Bucketed

(* Attention over a pass that may be captured is one call, over all of it. *)
LEMMA OneCall ==
  ASSUME NEW p, Graphable(p)
  PROVE  { CallOver(p, some) : some \in Calls(p) } = {[base |-> 0, tokens |-> PassLen(p)]}
<1>1. Calls(p) = {Items(p)}
  BY DEF Graphable, LayoutDependent
<1>2. CallOver(p, Items(p)) = [base |-> 0, tokens |-> PassLen(p)]
  BY DEF CallOver, PassLen
<1> QED
  BY <1>1, <1>2

(* A pass that runs with its own launch runs its own shape. *)
LEMMA LaunchFits ==
  ASSUME NEW p \in GraphPasses, Ran(p, Launch(p))
  PROVE  RunsItsShape' /\ pass' \in GraphPasses
<1>1. KvLen(p) \in 0 .. LongestKv /\ \A i \in Items(p) : Reach(p.items[i]) <= KvLen(p)
  BY KvLenReaches
<1>2. \A i \in Items(p) : Reach(p.items[i]) \in Nat
  BY GraphSizes DEF GraphSizes, Items, Reach
<1>3. LongestKv \in Nat /\ KvLen(p) \in Nat
  BY <1>1, GraphSizes DEF GraphSizes
<1>4. Bucketed(KvLen(p)) \in Nat /\ KvLen(p) <= Bucketed(KvLen(p))
  BY <1>3, BucketCovers
<1>5. Launch(p).kv <= LongestKv /\ KvLen(p) <= Launch(p).kv /\ Launch(p).kv \in Nat
  BY <1>1, <1>3, <1>4 DEF Launch, Graphable, KeyOf
<1>6. \A i \in Items(p) : Reach(p.items[i]) <= Launch(p).kv
  BY <1>1, <1>2, <1>3, <1>5
<1>7. /\ Launch(p).pool = p.pool /\ Launch(p).tokens = PassLen(p)
      /\ Launch(p).armed = ArmedSlots(p) /\ Launch(p).run = PrefillRun(p)
      /\ Launch(p).calls = { CallOver(p, some) : some \in Calls(p) }
  BY DEF Launch
<1> QED
  BY <1>5, <1>6, <1>7 DEF Ran, RunsItsShape

(* So does a pass that is replayed with a graph of its key. *)
LEMMA ReplayFits ==
  ASSUME NEW p \in GraphPasses, Graphable(p), NEW launch, OfKey(KeyOf(p), launch),
         Ran(p, launch)
  PROVE  RunsItsShape' /\ pass' \in GraphPasses
<1>1. KvLen(p) \in 0 .. LongestKv /\ \A i \in Items(p) : Reach(p.items[i]) <= KvLen(p)
  BY KvLenReaches
<1>2. \A i \in Items(p) : Reach(p.items[i]) \in Nat
  BY GraphSizes DEF GraphSizes, Items, Reach
<1>3. LongestKv \in Nat /\ KvLen(p) \in Nat
  BY <1>1, GraphSizes DEF GraphSizes
<1>4. Bucketed(KvLen(p)) \in Nat /\ KvLen(p) <= Bucketed(KvLen(p))
  BY <1>3, BucketCovers
<1>5. launch.kv = Bucketed(KvLen(p)) /\ launch.kv <= LongestKv /\ launch.run = PrefillRun(p)
  BY DEF OfKey, KeyOf, Graphable
<1>6. \A i \in Items(p) : Reach(p.items[i]) <= launch.kv
  BY <1>1, <1>2, <1>3, <1>4, <1>5
<1>7. /\ launch.pool = p.pool /\ launch.tokens = PassLen(p) /\ launch.armed = ArmedSlots(p)
      /\ launch.calls = { CallOver(p, some) : some \in Calls(p) }
  BY OneCall DEF OfKey, KeyOf
<1> QED
  BY <1>5, <1>6, <1>7 DEF Ran, RunsItsShape

(* A pass that may be captured leaves a graph of its key. *)
LEMMA LaunchOfKey ==
  ASSUME NEW p \in GraphPasses, Graphable(p) PROVE OfKey(KeyOf(p), Launch(p))
  BY OneCall DEF OfKey, KeyOf, Launch, Graphable

(* Eviction drops graphs and changes none. *)
LEMMA KeepKeeps ==
  ASSUME NEW w, NEW g, NEW ticks, Keep(w, g, ticks), \A k \in DOMAIN g : OfKey(k, g[k])
  PROVE  GraphsOfKeys'
<1>1. PICK gone : graph' = g \/ graph' = [ k \in DOMAIN g \ {gone} |-> g[k] ]
  BY DEF Keep
<1> QED
  BY <1>1 DEF GraphsOfKeys

LEMMA GraphStep == GraphInv /\ [GraphNext]_graphvars => GraphInv'
<1> SUFFICES ASSUME GraphInv, [GraphNext]_graphvars PROVE GraphInv'
  OBVIOUS
<1>1. CASE UNCHANGED graphvars
  BY <1>1 DEF GraphInv, GraphsOfKeys, RunsItsShape, graphvars
<1>2. ASSUME NEW p \in GraphPasses, RunEagerly(p) PROVE GraphInv'
  BY <1>2, LaunchFits DEF RunEagerly, GraphInv, GraphsOfKeys
<1>3. ASSUME NEW p \in GraphPasses, WarmUp(p) PROVE GraphInv'
  <2>1. RunsItsShape' /\ pass' \in GraphPasses
    BY <1>3, LaunchFits DEF WarmUp
  <2>2. GraphsOfKeys'
    BY <1>3, KeepKeeps DEF WarmUp, GraphInv, GraphsOfKeys
  <2> QED
    BY <2>1, <2>2 DEF GraphInv
<1>4. ASSUME NEW p \in GraphPasses, Capture(p) PROVE GraphInv'
  <2> DEFINE g == [ k \in DOMAIN graph \cup {KeyOf(p)} |->
                      IF k = KeyOf(p) THEN Launch(p) ELSE graph[k] ]
  <2>1. RunsItsShape' /\ pass' \in GraphPasses
    BY <1>4, LaunchFits DEF Capture
  <2>2. Graphable(p) /\ Keep(warm \ {KeyOf(p)}, g, Touched(p))
    BY <1>4 DEF Capture
  <2>3. OfKey(KeyOf(p), Launch(p))
    BY <2>2, LaunchOfKey
  <2>4. \A k \in DOMAIN g : OfKey(k, g[k])
    BY <2>3 DEF GraphInv, GraphsOfKeys
  <2> HIDE DEF g
  <2>5. GraphsOfKeys'
    BY <2>2, <2>4, KeepKeeps
  <2> QED
    BY <2>1, <2>5 DEF GraphInv
<1>5. ASSUME NEW p \in GraphPasses, Replay(p) PROVE GraphInv'
  <2>1. Graphable(p) /\ KeyOf(p) \in DOMAIN graph /\ Ran(p, graph[KeyOf(p)])
        /\ Keep(warm, graph, Touched(p))
    BY <1>5 DEF Replay
  <2>2. RunsItsShape' /\ pass' \in GraphPasses
    BY <2>1, ReplayFits DEF GraphInv, GraphsOfKeys
  <2>3. GraphsOfKeys'
    BY <2>1, KeepKeeps DEF GraphInv, GraphsOfKeys
  <2> QED
    BY <2>2, <2>3 DEF GraphInv
<1>6. ASSUME NEW p \in GraphPasses, PassFails(p) PROVE GraphInv'
  BY <1>6 DEF PassFails, GraphInv, GraphsOfKeys, RunsItsShape
<1> QED
  BY <1>1, <1>2, <1>3, <1>4, <1>5, <1>6 DEF GraphNext

(* Whatever was captured, evicted or failed before, the layers of a pass run *)
(* on its own pool, over its own tokens, with its own rows armed, and far     *)
(* enough (forward_batch_rows, GraphKey).                                     *)
THEOREM ReplaysRunTheirShape == GraphSpec => []RunsItsShape
<1>1. GraphInit => GraphInv
  BY DEF GraphInit, GraphInv, GraphsOfKeys, RunsItsShape
<1>2. GraphInv => RunsItsShape
  BY DEF GraphInv
<1> QED
  BY <1>1, <1>2, GraphStep, PTL DEF GraphSpec

-----------------------------------------------------------------------------
(* Sequences and the ends of bounded sets. *)
LEMMA MaxFacts ==
  ASSUME NEW n \in Nat, NEW X, X \subseteq 0 .. n, X # {}
  PROVE  Max(X) \in X /\ \A y \in X : y <= Max(X)
<1> DEFINE I == { k \in 0 .. n : (\E y \in X : y <= k) => \E x \in X : \A y \in X : y <= k => y <= x }
<1>1. 0 \in I
  BY SMT
<1>2. ASSUME NEW k \in 1 .. n, k - 1 \in I PROVE k \in I
  <2> SUFFICES ASSUME \E y \in X : y <= k PROVE \E x \in X : \A y \in X : y <= k => y <= x
    OBVIOUS
  <2>1. CASE k \in X
    <3>1. \A y \in X : y <= k => y <= k
      OBVIOUS
    <3> QED
      BY <2>1, <3>1, Zenon
  <2>2. CASE k \notin X
    <3>1. ASSUME NEW y \in X PROVE y <= k <=> y <= k - 1
      <4>1. y \in 0 .. n /\ y # k
        BY <2>2
      <4> QED
        BY <4>1
    <3>2. PICK x \in X : \A y \in X : y <= k - 1 => y <= x
      BY <1>2, <3>1
    <3> QED
      BY <3>1, <3>2
  <2> QED
    BY <2>1, <2>2
<1> HIDE DEF I
<1>3. n \in I
  BY <1>1, <1>2, LoopInduction
<1>4. \E x \in X : \A y \in X : x >= y
  <2>1. \A y \in X : y <= n /\ y \in Nat
    OBVIOUS
  <2>2. PICK x \in X : \A y \in X : y <= n => y <= x
    BY <1>3, <2>1 DEF I
  <2> QED
    BY <2>1, <2>2
<1>5. Max(X) \in X /\ \A y \in X : Max(X) >= y
  BY <1>4 DEF Max
<1> QED
  BY <1>5

LEMMA MinFacts ==
  ASSUME NEW n \in Nat, NEW X, X \subseteq 0 .. n, X # {}
  PROVE  Min(X) \in X /\ \A y \in X : Min(X) <= y
<1> DEFINE Y == { n - x : x \in X }
<1>1. Y \subseteq 0 .. n /\ Y # {}
  <2>1. \A x \in X : n - x \in 0 .. n
    OBVIOUS
  <2> QED
    BY <2>1, Zenon
<1>2. Max(Y) \in Y /\ \A y \in Y : y <= Max(Y)
  BY <1>1, MaxFacts
<1> HIDE DEF Y
<1>3. Max(Y) \in 0 .. n
  BY <1>1, <1>2
<1>4. PICK x \in X : Max(Y) = n - x
  BY <1>2 DEF Y
<1>5. \A y \in X : n - y \in Y
  BY DEF Y
<1>6. ASSUME NEW y \in X PROVE x <= y
  <2>1. n - y <= n - x
    BY <1>2, <1>4, <1>5
  <2>2. x \in 0 .. n /\ y \in 0 .. n
    OBVIOUS
  <2> QED
    BY ONLY <2>1, <2>2, n \in Nat
<1>7. \E z \in X : \A y \in X : z <= y
  BY <1>6
<1> QED
  BY <1>7 DEF Min

LEMMA JoinedAt ==
  ASSUME NEW S, NEW s \in Seq(S), NEW t \in Seq(S)
  PROVE  /\ s \o t \in Seq(S) /\ Len(s \o t) = Len(s) + Len(t) /\ Len(s) \in Nat /\ Len(t) \in Nat
         /\ \A i \in 1 .. Len(s) : (s \o t)[i] = s[i]
         /\ \A j \in 1 .. Len(t) : (s \o t)[Len(s) + j] = t[j]
<1>1. /\ s \o t \in Seq(S) /\ Len(s \o t) = Len(s) + Len(t) /\ Len(s) \in Nat /\ Len(t) \in Nat
      /\ \A i \in 1 .. Len(s) + Len(t) : (s \o t)[i] = IF i <= Len(s) THEN s[i] ELSE t[i - Len(s)]
  BY ConcatProperties, LenProperties
<1>2. ASSUME NEW i \in 1 .. Len(s) PROVE i \in 1 .. Len(s) + Len(t) /\ i <= Len(s)
  BY <1>1
<1>3. ASSUME NEW j \in 1 .. Len(t)
      PROVE  Len(s) + j \in 1 .. Len(s) + Len(t) /\ ~(Len(s) + j <= Len(s)) /\ Len(s) + j - Len(s) = j
  BY <1>1
<1> QED
  BY <1>1, <1>2, <1>3

LEMMA CutInTwo ==
  ASSUME NEW S, NEW s \in Seq(S), NEW m \in 0 .. Len(s)
  PROVE  /\ SubSeq(s, 1, m) \in Seq(S) /\ Len(SubSeq(s, 1, m)) = m
         /\ SubSeq(s, m + 1, Len(s)) \in Seq(S) /\ Len(SubSeq(s, m + 1, Len(s))) = Len(s) - m
         /\ \A i \in 1 .. m : SubSeq(s, 1, m)[i] = s[i]
         /\ \A j \in 1 .. Len(s) - m : SubSeq(s, m + 1, Len(s))[j] = s[m + j]
         /\ SubSeq(s, 1, m) \o SubSeq(s, m + 1, Len(s)) = s
<1> DEFINE n == Len(s)
           a == SubSeq(s, 1, m)
           b == SubSeq(s, m + 1, n)
<1>1. n \in Nat /\ m \in Nat /\ m <= n
  BY LenProperties
<1>2. 1 \in 1 .. n + 1 /\ m \in 0 .. n /\ m + 1 \in 1 .. n + 1 /\ n \in 0 .. n /\ m \in 1 - 1 .. n /\ n \in m .. n
  BY <1>1
<1>3. /\ a \in Seq(S) /\ Len(a) = (IF 1 <= m THEN m - 1 + 1 ELSE 0)
      /\ \A i \in 1 .. m - 1 + 1 : a[i] = s[1 + i - 1]
  BY <1>2, SliceFacts
<1>4. /\ b \in Seq(S) /\ Len(b) = (IF m + 1 <= n THEN n - (m + 1) + 1 ELSE 0)
      /\ \A j \in 1 .. n - (m + 1) + 1 : b[j] = s[m + 1 + j - 1]
  BY <1>2, SliceFacts
<1>9. a \o b = s
  <2>1. a \o b = SubSeq(s, 1, n)
    BY <1>2, ConcatAdjacentSubSeq
  <2> QED
    BY <2>1, SubSeqFull
<1> HIDE DEF a, b, n
<1>5. Len(a) = m /\ \A i \in 1 .. m : a[i] = s[i]
  <2>1. m - 1 + 1 = m /\ (IF 1 <= m THEN m - 1 + 1 ELSE 0) = m /\ \A i \in 1 .. m : 1 + i - 1 = i
    BY <1>1
  <2> QED
    BY <1>3, <2>1
<1>6. Len(b) = n - m /\ \A j \in 1 .. n - m : b[j] = s[m + j]
  <2>1. n - (m + 1) + 1 = n - m /\ (IF m + 1 <= n THEN n - (m + 1) + 1 ELSE 0) = n - m /\ \A j \in 1 .. n - m : m + 1 + j - 1 = m + j
    BY <1>1
  <2>2. \A j \in 1 .. n - m : b[j] = s[m + 1 + j - 1]
    BY <1>4, <2>1
  <2>3. \A j \in 1 .. n - m : b[j] = s[m + j]
    BY <2>1, <2>2
  <2> QED
    BY <1>4, <2>1, <2>3
<1> QED
  BY <1>1, <1>3, <1>4, <1>5, <1>6, <1>9 DEF a, b, n

-----------------------------------------------------------------------------
(* Characters, byte by byte: a history of what has been decoded.            *)
Char == STRING \cup {"?", "C3", "A9", "C3A9", "<tool", "_call>"}
DecodedTexts == [text : Seq(Char), open : BOOLEAN]
Nothing == [text |-> << >>, open |-> FALSE]
Flushed(done) == IF done.open THEN Append(done.text, "?") ELSE done.text

History(bytes, h) ==
  /\ h \in [0 .. Len(bytes) -> DecodedTexts] /\ h[0] = Nothing
  /\ \A n \in 1 .. Len(bytes) : h[n] = Decode(h[n - 1], bytes[n])

LEMMA DecodeCases ==
  ASSUME NEW d, NEW byte
  PROVE  /\ byte = "A9" /\ d.open => Decode(d, byte) = [text |-> Append(d.text, "C3A9"), open |-> FALSE]
         /\ byte = "C3" => Decode(d, byte) = [text |-> Flushed(d), open |-> TRUE]
         /\ byte # "C3" /\ ~(byte = "A9" /\ d.open) =>
              Decode(d, byte) = [text |-> Append(Flushed(d), IF byte = "A9" THEN "?" ELSE byte), open |-> FALSE]
BY DEF Decode, Flushed

LEMMA DecodeTypes ==
  ASSUME NEW d \in DecodedTexts, NEW byte \in Char
  PROVE  /\ Decode(d, byte) \in DecodedTexts
         /\ Decode(d, byte).open <=> byte = "C3"
         /\ Flushed(d) \in Seq(Char) /\ Decode(d, byte).text \in Seq(Char)
<1>1. d.text \in Seq(Char) /\ d.open \in BOOLEAN
  BY DEF DecodedTexts
<1>2. Append(d.text, "C3A9") \in Seq(Char) /\ Append(d.text, "?") \in Seq(Char)
  <2>1. "C3A9" \in Char /\ "?" \in Char
    BY DEF Char
  <2> HIDE DEF Char
  <2> QED
    BY <1>1, <2>1, AppendProperties
<1>3. Flushed(d) \in Seq(Char)
  BY <1>1, <1>2 DEF Flushed
<1>4. CASE byte = "A9" /\ d.open
  <2>1. Decode(d, byte) = [text |-> Append(d.text, "C3A9"), open |-> FALSE]
    BY <1>4 DEF Decode
  <2>2. Decode(d, byte) \in DecodedTexts
    BY <1>2, <2>1 DEF DecodedTexts
  <2>3. ~Decode(d, byte).open /\ byte # "C3"
    BY <1>4, <2>1
  <2>4. Decode(d, byte).text \in Seq(Char)
    BY <2>2 DEF DecodedTexts
  <2> QED
    BY <1>3, <2>2, <2>3, <2>4
<1>5. CASE byte = "C3"
  <2>1. Decode(d, byte) = [text |-> Flushed(d), open |-> TRUE]
    BY <1>5 DEF Decode, Flushed
  <2>2. Decode(d, byte) \in DecodedTexts
    BY <1>3, <2>1 DEF DecodedTexts
  <2>3. Decode(d, byte).open /\ byte = "C3"
    BY <1>5, <2>1
  <2>4. Decode(d, byte).text \in Seq(Char)
    BY <2>2 DEF DecodedTexts
  <2> QED
    BY <1>3, <2>2, <2>3, <2>4
<1>6. CASE byte # "C3" /\ ~(byte = "A9" /\ d.open)
  <2> DEFINE char == IF byte = "A9" THEN "?" ELSE byte
  <2>1. Decode(d, byte) = [text |-> Append(Flushed(d), char), open |-> FALSE]
    BY <1>6 DEF Decode, Flushed
  <2>2. char \in Char
    BY DEF Char
  <2> HIDE DEF char
  <2>3. Append(Flushed(d), char) \in Seq(Char)
    BY <1>3, <2>2, AppendProperties
  <2>4. Decode(d, byte) \in DecodedTexts
    BY <2>1, <2>3 DEF DecodedTexts
  <2>5. ~Decode(d, byte).open /\ byte # "C3"
    BY <1>6, <2>1
  <2>6. Decode(d, byte).text \in Seq(Char)
    BY <2>4 DEF DecodedTexts
  <2> QED
    BY <1>3, <2>4, <2>5, <2>6
<1> QED
  BY <1>4, <1>5, <1>6

LEMMA HistoryExists ==
  ASSUME NEW bytes \in Seq(Char)
  PROVE  \E h : History(bytes, h) /\ Characters(bytes) = h[Len(bytes)]
<1> DEFINE n == Len(bytes)
           turn == [ i \in 1 .. n |-> [ d \in DecodedTexts |-> Decode(d, bytes[i]) ] ]
           Fits(f) == f = [ i \in 0 .. n |-> IF i = 0 THEN Nothing ELSE Decode(f[i - 1], bytes[i]) ]
           done == CHOOSE f : Fits(f)
<1>1. n \in Nat /\ \A i \in 1 .. n : bytes[i] \in Char
  BY LenProperties, ElementOfSeq
<1>2. Nothing \in DecodedTexts
  BY EmptySeq DEF Nothing, DecodedTexts
<1>3. turn \in [1 .. n -> [DecodedTexts -> DecodedTexts]]
  BY <1>1, DecodeTypes
<1>4. Characters(bytes) = done[n]
  BY DEF Characters, Nothing
<1> HIDE DEF n
<1>5. PICK f \in [0 .. n -> DecodedTexts] : f[0] = Nothing /\ \A i \in 1 .. n : f[i] = turn[i][f[i - 1]]
  <2> DEFINE T == DecodedTexts
             init == Nothing
  <2>1. init \in T /\ n \in Nat /\ turn \in [1 .. n -> [T -> T]]
    BY <1>1, <1>2, <1>3
  <2> HIDE DEF turn, T, init
  <2>2. \E f \in [0 .. n -> T] : f[0] = init /\ \A i \in 1 .. n : f[i] = turn[i][f[i - 1]]
    BY ONLY <2>1, LoopExists
  <2> QED
    BY <2>2 DEF T, init
<1>6. \A i \in 1 .. n : f[i] = Decode(f[i - 1], bytes[i])
  <2> TAKE i \in 1 .. n
  <2>1. i - 1 \in 0 .. n
    BY <1>1
  <2> QED
    BY <1>5, <2>1
<1>7. Fits(f)
  BY <1>1, <1>5, <1>6
<1>8. Fits(done)
  BY <1>7
<1> HIDE DEF done
<1>9. done[0] = Nothing /\ \A i \in 1 .. n : done[i] = Decode(done[i - 1], bytes[i])
  BY <1>1, <1>8
<1>10. \A i \in 0 .. n : done[i] \in DecodedTexts
  <2> DEFINE I == { i \in 0 .. n : done[i] \in DecodedTexts }
  <2>1. 0 \in I
    BY <1>1, <1>2, <1>9
  <2>2. ASSUME NEW i \in 1 .. n, i - 1 \in I PROVE i \in I
    <3>1. done[i - 1] \in DecodedTexts /\ bytes[i] \in Char /\ done[i] = Decode(done[i - 1], bytes[i])
      BY <1>1, <1>9, <2>2
    <3>2. done[i] \in DecodedTexts
      BY <3>1, DecodeTypes
    <3> QED
      BY <1>1, <3>2
  <2> HIDE DEF I
  <2>3. \A i \in 0 .. n : i \in I
    BY <1>1, <2>1, <2>2, LoopInduction
  <2> QED
    BY <2>3 DEF I
<1>11. done \in [0 .. n -> DecodedTexts]
  BY <1>8, <1>10
<1> QED
  BY <1>4, <1>9, <1>11 DEF History, n

LEMMA HistoryUnique ==
  ASSUME NEW bytes \in Seq(Char), NEW h, History(bytes, h)
  PROVE  Characters(bytes) = h[Len(bytes)]
<1> DEFINE n == Len(bytes)
<1>1. PICK g : History(bytes, g) /\ Characters(bytes) = g[n]
  BY HistoryExists
<1>2. n \in Nat
  BY LenProperties
<1>3. /\ g[0] = Nothing /\ \A i \in 1 .. n : g[i] = Decode(g[i - 1], bytes[i])
      /\ h[0] = Nothing /\ \A i \in 1 .. n : h[i] = Decode(h[i - 1], bytes[i])
  BY <1>1 DEF History
<1> DEFINE I == { i \in 0 .. n : g[i] = h[i] }
<1> HIDE DEF n
<1>4. 0 \in I
  BY <1>2, <1>3
<1>5. ASSUME NEW i \in 1 .. n, i - 1 \in I PROVE i \in I
  BY <1>2, <1>3, <1>5
<1> HIDE DEF I
<1>6. \A i \in 0 .. n : i \in I
  BY <1>2, <1>4, <1>5, LoopInduction
<1>7. n \in I
  BY <1>2, <1>6
<1> QED
  BY <1>1, <1>7 DEF I, n

(* What the decoding of a whole text is: its last byte decides. *)
LEMMA CharactersFacts ==
  ASSUME NEW bytes \in Seq(Char)
  PROVE  /\ Characters(bytes) \in DecodedTexts
         /\ Lossy(bytes) = Flushed(Characters(bytes)) /\ Lossy(bytes) \in Seq(Char)
         /\ bytes = << >> => Characters(bytes) = Nothing
         /\ Characters(bytes).open <=> bytes # << >> /\ bytes[Len(bytes)] = "C3"
<1>1. PICK h : History(bytes, h) /\ Characters(bytes) = h[Len(bytes)]
  BY HistoryExists
<1>2. Len(bytes) \in Nat /\ (bytes = << >> <=> Len(bytes) = 0)
  BY LenProperties, EmptySeq
<1>3. /\ \A i \in 0 .. Len(bytes) : h[i] \in DecodedTexts
      /\ h[0] = Nothing /\ \A i \in 1 .. Len(bytes) : h[i] = Decode(h[i - 1], bytes[i])
  BY <1>1 DEF History
<1>4. Characters(bytes) \in DecodedTexts
  BY <1>1, <1>2, <1>3
<1>5. Lossy(bytes) = Flushed(Characters(bytes))
  BY DEF Lossy, Flushed
<1>6. Flushed(Characters(bytes)) \in Seq(Char)
  <2>1. "C3" \in Char
    BY DEF Char
  <2> QED
    BY <1>4, <2>1, DecodeTypes
<1>7. CASE bytes = << >>
  <2>1. Characters(bytes) = Nothing /\ ~Nothing.open
    BY <1>1, <1>2, <1>3, <1>7 DEF Nothing
  <2> QED
    BY <1>4, <1>5, <1>6, <1>7, <2>1
<1>8. CASE bytes # << >>
  <2> DEFINE n == Len(bytes)
  <2>1. n \in 1 .. n /\ n - 1 \in 0 .. n
    BY <1>2, <1>8
  <2>2. bytes[n] \in Char /\ h[n - 1] \in DecodedTexts /\ h[n] = Decode(h[n - 1], bytes[n])
    BY <1>3, <2>1, ElementOfSeq
  <2>3. h[n].open <=> bytes[n] = "C3"
    BY <2>2, DecodeTypes
  <2> QED
    BY <1>1, <1>4, <1>5, <1>6, <1>8, <2>3
<1> QED
  BY <1>7, <1>8

LEMMA OneMore ==
  ASSUME NEW a \in Seq(Char), NEW s \in Seq(Char), NEW x \in Char
  PROVE  Append(a \o s, x) = a \o Append(s, x)
<1>1. << x >> \in Seq(Char)
  OBVIOUS
<1>2. a \o s \in Seq(Char)
  BY ConcatProperties
<1>3. Append(a \o s, x) = (a \o s) \o << x >>
  BY <1>2, AppendIsConcat
<1>4. Append(s, x) = s \o << x >>
  BY AppendIsConcat
<1> QED
  BY <1>1, <1>3, <1>4, ConcatAssociative

(* The one place where a text may not be cut: inside a character. *)
Joins(a, b) == a # << >> /\ b # << >> /\ a[Len(a)] = "C3" /\ b[1] = "A9"

(* A decoding that goes on after `before` has the text of `before` in front. *)
Follows(before, late, d) == late = [text |-> before \o d.text, open |-> d.open]

LEMMA FollowsFlushed ==
  ASSUME NEW before \in Seq(Char), NEW d \in DecodedTexts, NEW late, Follows(before, late, d)
  PROVE  Flushed(late) = before \o Flushed(d)
<1>1. d.text \in Seq(Char) /\ d.open \in BOOLEAN /\ "?" \in Char
  BY DEF DecodedTexts, Char
<1>2. late.text = before \o d.text /\ late.open = d.open
  BY DEF Follows
<1>3. Append(before \o d.text, "?") = before \o Append(d.text, "?")
  BY <1>1, OneMore
<1> QED
  BY <1>1, <1>2, <1>3 DEF Flushed

LEMMA FollowsOn ==
  ASSUME NEW before \in Seq(Char), NEW d \in DecodedTexts, NEW late, Follows(before, late, d), NEW byte \in Char
  PROVE  Follows(before, Decode(late, byte), Decode(d, byte))
<1>1. d.text \in Seq(Char) /\ d.open \in BOOLEAN /\ "?" \in Char /\ "C3A9" \in Char
  BY DEF DecodedTexts, Char
<1>2. late.text = before \o d.text /\ late.open = d.open
  BY DEF Follows
<1>3. Flushed(late) = before \o Flushed(d) /\ Flushed(d) \in Seq(Char)
  BY FollowsFlushed, DecodeTypes
<1>4. CASE byte = "A9" /\ d.open
  <2>1. /\ Decode(d, byte) = [text |-> Append(d.text, "C3A9"), open |-> FALSE]
        /\ Decode(late, byte) = [text |-> Append(late.text, "C3A9"), open |-> FALSE]
    BY <1>2, <1>4 DEF Decode
  <2>2. Append(late.text, "C3A9") = before \o Append(d.text, "C3A9")
    BY <1>1, <1>2, OneMore
  <2>3. Decode(d, byte).text = Append(d.text, "C3A9") /\ Decode(d, byte).open = FALSE
    BY <2>1
  <2> QED
    BY <2>1, <2>2, <2>3 DEF Follows
<1>5. CASE byte = "C3"
  <2>1. /\ Decode(d, byte) = [text |-> Flushed(d), open |-> TRUE]
        /\ Decode(late, byte) = [text |-> Flushed(late), open |-> TRUE]
    BY <1>5 DEF Decode, Flushed
  <2>2. Decode(d, byte).text = Flushed(d) /\ Decode(d, byte).open = TRUE
    BY <2>1
  <2> QED
    BY <1>3, <2>1, <2>2 DEF Follows
<1>6. CASE byte # "C3" /\ ~(byte = "A9" /\ d.open)
  <2> DEFINE char == IF byte = "A9" THEN "?" ELSE byte
  <2>1. /\ Decode(d, byte) = [text |-> Append(Flushed(d), char), open |-> FALSE]
        /\ Decode(late, byte) = [text |-> Append(Flushed(late), char), open |-> FALSE]
    BY <1>2, <1>6 DEF Decode, Flushed
  <2>2. char \in Char
    BY DEF Char
  <2> HIDE DEF char
  <2>3. Append(Flushed(late), char) = before \o Append(Flushed(d), char)
    <3> DEFINE flushed == Flushed(d)
    <3>1. flushed \in Seq(Char) /\ Flushed(late) = before \o flushed
      BY <1>3
    <3> HIDE DEF flushed
    <3>2. Append(before \o flushed, char) = before \o Append(flushed, char)
      BY <2>2, <3>1, OneMore
    <3> QED
      BY <3>1, <3>2 DEF flushed
  <2>4. Decode(d, byte).text = Append(Flushed(d), char) /\ Decode(d, byte).open = FALSE
    BY <2>1
  <2> QED
    BY <2>1, <2>3, <2>4 DEF Follows
<1> QED
  BY <1>4, <1>5, <1>6

LEMMA LossyJoin ==
  ASSUME NEW a \in Seq(Char), NEW b \in Seq(Char), ~Joins(a, b)
  PROVE  Lossy(a \o b) = Lossy(a) \o Lossy(b)
<1> DEFINE c == a \o b
           m == Len(a)
           n == Len(b)
           before == Lossy(a)
<1>1. /\ c \in Seq(Char) /\ Len(c) = m + n /\ m \in Nat /\ n \in Nat
      /\ (\A i \in 1 .. m : c[i] = a[i]) /\ \A j \in 1 .. n : c[m + j] = b[j]
  BY JoinedAt
<1>2. PICK h : History(c, h) /\ Characters(c) = h[Len(c)]
  BY <1>1, HistoryExists
<1>3. PICK g : History(b, g) /\ Characters(b) = g[n]
  BY HistoryExists
<1>4. before = Flushed(Characters(a)) /\ Characters(a) \in DecodedTexts /\ before \in Seq(Char)
  BY CharactersFacts
<1>5. Lossy(c) = Flushed(Characters(c)) /\ Lossy(b) = Flushed(Characters(b))
  BY <1>1, CharactersFacts
<1>6. /\ h \in [0 .. m + n -> DecodedTexts] /\ h[0] = Nothing /\ \A i \in 1 .. m + n : h[i] = Decode(h[i - 1], c[i])
      /\ g \in [0 .. n -> DecodedTexts] /\ g[0] = Nothing /\ \A i \in 1 .. n : g[i] = Decode(g[i - 1], b[i])
  BY <1>1, <1>2, <1>3 DEF History
<1>7. h[m] = Characters(a)
  <2> DEFINE f == [ i \in 0 .. m |-> h[i] ]
  <2>1. \A i \in 0 .. m : i \in 0 .. m + n /\ (i >= 1 => i \in 1 .. m + n /\ i \in 1 .. m /\ i - 1 \in 0 .. m)
    BY <1>1
  <2>2. f \in [0 .. m -> DecodedTexts] /\ f[0] = Nothing
    BY <1>1, <1>6, <2>1
  <2>3. ASSUME NEW i \in 1 .. m PROVE f[i] = Decode(f[i - 1], a[i])
    <3>1. i \in 0 .. m /\ i >= 1 /\ i - 1 \in 0 .. m /\ i \in 1 .. m + n
      BY <1>1
    <3>2. h[i] = Decode(h[i - 1], c[i]) /\ c[i] = a[i]
      BY <1>1, <1>6, <3>1
    <3> QED
      BY <3>1, <3>2
  <2>4. f[m] = h[m]
    BY <1>1
  <2> HIDE DEF f
  <2>5. History(a, f)
    BY <2>2, <2>3 DEF History
  <2>6. Characters(a) = f[m]
    BY <2>5, HistoryUnique
  <2> QED
    BY <2>4, <2>6
<1>8. CASE n = 0
  <2>1. b = << >>
    BY <1>8, EmptySeq
  <2>2. c = a /\ Lossy(b) = << >>
    <3>1. Flushed(Nothing) = << >>
      BY DEF Flushed, Nothing
    <3>2. Characters(b) = Nothing
      BY <2>1, CharactersFacts
    <3> QED
      BY <1>5, <2>1, <3>1, <3>2, ConcatEmptySeq
  <2> QED
    BY <1>4, <2>2, ConcatEmptySeq
<1>9. CASE n # 0
  <2> DEFINE I == { i \in 0 .. n : i = 0 \/ Follows(before, h[m + i], g[i]) }
  <2> HIDE DEF c, m, n, before
  <2>1. 0 \in I
    BY <1>1
  <2>2. ASSUME NEW i \in 1 .. n, i - 1 \in I PROVE i \in I
    <3>1. i \in 0 .. n /\ i - 1 \in 0 .. n /\ m + i \in 1 .. m + n /\ (m + i) - 1 = m + (i - 1)
      BY <1>1
    <3>2. h[m + i] = Decode(h[m + (i - 1)], b[i]) /\ g[i] = Decode(g[i - 1], b[i]) /\ g[i - 1] \in DecodedTexts
      BY <1>1, <1>6, <3>1
    <3>3. b[i] \in Char
      BY ElementOfSeq DEF n
    <3>4. CASE i = 1
      <4>1. g[1] = Decode(Nothing, b[1]) /\ h[m + 1] = Decode(Characters(a), b[1]) /\ m + 0 = m
        BY <1>1, <1>6, <1>7, <3>2, <3>4
      <4>2. ~(b[1] = "A9" /\ Characters(a).open)
        <5>1. Characters(a).open <=> a # << >> /\ a[Len(a)] = "C3"
          BY CharactersFacts
        <5>2. b # << >>
          BY <1>9, EmptySeq DEF n
        <5> QED
          BY <5>1, <5>2 DEF Joins
      <4>3. Nothing \in DecodedTexts /\ ~Nothing.open /\ Flushed(Nothing) = << >>
        BY EmptySeq DEF Nothing, Flushed, DecodedTexts
      <4>4. CASE b[1] = "C3"
        <5>1. /\ Decode(Characters(a), b[1]) = [text |-> before, open |-> TRUE]
              /\ Decode(Nothing, b[1]) = [text |-> << >>, open |-> TRUE]
          BY <1>4, <4>3, <4>4 DEF Decode, Flushed
        <5>2. before \o << >> = before
          BY <1>4, ConcatEmptySeq
        <5>3. g[1].text = << >> /\ g[1].open = TRUE
          BY <4>1, <5>1
        <5> QED
          BY <3>4, <4>1, <5>1, <5>2, <5>3, <3>1 DEF Follows
      <4>5. CASE b[1] # "C3"
        <5> DEFINE char == IF b[1] = "A9" THEN "?" ELSE b[1]
        <5>1. /\ Decode(Characters(a), b[1]) = [text |-> Append(before, char), open |-> FALSE]
              /\ Decode(Nothing, b[1]) = [text |-> Append(<< >>, char), open |-> FALSE]
          BY <1>4, <4>2, <4>3, <4>5 DEF Decode, Flushed
        <5>2. char \in Char
          BY <3>3, <3>4 DEF Char
        <5> HIDE DEF char
        <5>3. Append(before, char) = before \o << char >> /\ Append(<< >>, char) = << char >>
          BY <1>4, <5>2, AppendIsConcat
        <5>4. g[1].text = << char >> /\ g[1].open = FALSE
          BY <4>1, <5>1, <5>3
        <5> QED
          BY <3>4, <4>1, <5>1, <5>3, <5>4, <3>1 DEF Follows
      <4> QED
        BY <4>4, <4>5
    <3>5. CASE i # 1
      <4>1. Follows(before, h[m + (i - 1)], g[i - 1])
        BY <2>2, <3>5
      <4>2. Follows(before, h[m + i], g[i])
        BY <1>4, <3>2, <3>3, <4>1, FollowsOn
      <4> QED
        BY <3>1, <4>2
    <3> QED
      BY <3>4, <3>5
  <2> HIDE DEF I
  <2>3. \A i \in 0 .. n : i \in I
    BY <1>1, <2>1, <2>2, LoopInduction
  <2>4. Follows(before, h[m + n], g[n]) /\ g[n] \in DecodedTexts
    <3>1. n \in I /\ n \in 0 .. n
      BY <1>1, <2>3
    <3> QED
      BY <1>6, <1>9, <3>1 DEF I
  <2>5. Flushed(h[m + n]) = before \o Flushed(g[n])
    BY <1>4, <2>4, FollowsFlushed
  <2> QED
    BY <1>1, <1>2, <1>3, <1>5, <2>5 DEF before, c
<1> QED
  BY <1>1, <1>8, <1>9

(* A text of one byte, of one whole character, and of anything at all. *)
LEMMA LossyEmpty == Lossy(<< >>) = << >>
<1>1. << >> \in Seq(Char)
  BY EmptySeq
<1>2. Characters(<< >>) = Nothing /\ Lossy(<< >>) = Flushed(Characters(<< >>))
  BY <1>1, CharactersFacts
<1> QED
  BY <1>2 DEF Flushed, Nothing

LEMMA LossyOne ==
  ASSUME NEW s \in Seq(Char), Len(s) = 1
  PROVE  /\ Lossy(s) \in Seq(Char) /\ Len(Lossy(s)) = 1
         /\ s[1] = "C3" => Lossy(s)[1] = "?"
<1>1. PICK h : History(s, h) /\ Characters(s) = h[1]
  BY HistoryExists
<1>2. h[1] = Decode(Nothing, s[1])
  BY <1>1 DEF History
<1>3. Nothing \in DecodedTexts /\ ~Nothing.open /\ Flushed(Nothing) = << >> /\ << >> \in Seq(Char) /\ Len(<< >>) = 0
  BY EmptySeq DEF Nothing, Flushed, DecodedTexts
<1>4. s[1] \in Char /\ "?" \in Char
  BY ElementOfSeq DEF Char
<1>5. Lossy(s) = Flushed(h[1]) /\ Lossy(s) \in Seq(Char)
  BY <1>1, CharactersFacts
<1>6. CASE s[1] = "C3"
  <2>1. h[1] = [text |-> << >>, open |-> TRUE]
    BY <1>2, <1>3, <1>6, DecodeCases
  <2>2. Lossy(s) = Append(<< >>, "?")
    BY <1>5, <2>1 DEF Flushed
  <2>3. Len(Append(<< >>, "?")) = 1 /\ Append(<< >>, "?")[1] = "?"
    BY <1>3, <1>4, AppendProperties
  <2> QED
    BY <1>5, <2>2, <2>3
<1>7. CASE s[1] # "C3"
  <2> DEFINE char == IF s[1] = "A9" THEN "?" ELSE s[1]
  <2>1. h[1] = [text |-> Append(Flushed(Nothing), char), open |-> FALSE]
    <3>1. s[1] # "C3" /\ ~(s[1] = "A9" /\ Nothing.open)
      BY <1>3, <1>7
    <3>2. Decode(Nothing, s[1]) = [text |-> Append(Flushed(Nothing), char), open |-> FALSE]
      BY <3>1, DecodeCases, Zenon
    <3> QED
      BY <1>2, <3>2
  <2>2. char \in Char
    BY <1>4
  <2> HIDE DEF char
  <2>3. Lossy(s) = Append(<< >>, char)
    <3>1. h[1].text = Append(<< >>, char) /\ h[1].open = FALSE
      BY <1>3, <2>1
    <3> QED
      BY <1>5, <3>1 DEF Flushed
  <2>4. Len(Append(<< >>, char)) = 1
    BY <1>3, <2>2, AppendProperties
  <2> QED
    BY <1>5, <1>7, <2>3, <2>4
<1> QED
  BY <1>6, <1>7

LEMMA LossyTwo ==
  ASSUME NEW s \in Seq(Char), Len(s) = 2, s[1] = "C3", s[2] = "A9"
  PROVE  Lossy(s) \in Seq(Char) /\ Len(Lossy(s)) = 1 /\ Lossy(s)[1] = "C3A9"
<1>1. PICK h : History(s, h) /\ Characters(s) = h[2]
  BY HistoryExists
<1>2. h[1] = Decode(Nothing, "C3") /\ h[2] = Decode(h[1], "A9")
  BY <1>1 DEF History
<1>3. Nothing \in DecodedTexts /\ Flushed(Nothing) = << >> /\ << >> \in Seq(Char) /\ Len(<< >>) = 0
  BY EmptySeq DEF Nothing, Flushed, DecodedTexts
<1>4. Lossy(s) = Flushed(h[2]) /\ Lossy(s) \in Seq(Char) /\ "C3A9" \in Char
  BY <1>1, CharactersFacts DEF Char
<1>5. h[1] = [text |-> << >>, open |-> TRUE]
  BY <1>2, <1>3, DecodeCases
<1>6. h[2] = [text |-> Append(<< >>, "C3A9"), open |-> FALSE]
  <2>1. h[1].text = << >> /\ h[1].open
    BY <1>5
  <2>2. h[2] = [text |-> Append(h[1].text, "C3A9"), open |-> FALSE]
    BY <1>2, <2>1, DecodeCases
  <2> QED
    BY <2>1, <2>2
<1>7. Lossy(s) = Append(<< >>, "C3A9")
  BY <1>4, <1>6 DEF Flushed
<1>8. Len(Append(<< >>, "C3A9")) = 1 /\ Append(<< >>, "C3A9")[1] = "C3A9"
  BY <1>3, <1>4, AppendProperties
<1> QED
  BY <1>4, <1>7, <1>8

LEMMA LossySome ==
  ASSUME NEW s \in Seq(Char), s # << >>
  PROVE  /\ Lossy(s) \in Seq(Char) /\ Len(Lossy(s)) \in Nat \ {0}
         /\ s[Len(s)] = "C3" => Lossy(s)[Len(Lossy(s))] = "?"
<1> DEFINE n == Len(s)
<1>1. PICK h : History(s, h) /\ Characters(s) = h[n]
  BY HistoryExists
<1>2. n \in 1 .. n /\ n - 1 \in 0 .. n /\ n \in Nat
  BY EmptySeq
<1>3. h[n - 1] \in DecodedTexts /\ h[n] = Decode(h[n - 1], s[n]) /\ s[n] \in Char
  BY <1>1, <1>2, ElementOfSeq DEF History
<1>4. Lossy(s) = Flushed(h[n]) /\ Lossy(s) \in Seq(Char)
  BY <1>1, CharactersFacts
<1> HIDE DEF n
<1> DEFINE d == h[n - 1]
<1>5. d \in DecodedTexts /\ Flushed(d) \in Seq(Char) /\ d.text \in Seq(Char) /\ "?" \in Char /\ "C3A9" \in Char
  BY <1>3, DecodeTypes DEF DecodedTexts, Char
<1>6. \A t \in Seq(Char), x \in Char :
        Len(Append(t, x)) \in Nat \ {0} /\ Append(t, x)[Len(Append(t, x))] = x
  BY AppendProperties, LenProperties
<1> HIDE DEF d
<1>7. h[n] = Decode(d, s[n])
  BY <1>3 DEF d
<1>8. CASE s[n] = "A9" /\ d.open
  <2>1. h[n] = [text |-> Append(d.text, "C3A9"), open |-> FALSE]
    BY <1>7, <1>8 DEF Decode
  <2>2. Lossy(s) = Append(d.text, "C3A9")
    BY <1>4, <2>1 DEF Flushed
  <2> QED
    BY <1>4, <1>5, <1>6, <1>8, <2>2 DEF n
<1>9. CASE s[n] = "C3"
  <2>1. h[n] = [text |-> Flushed(d), open |-> TRUE]
    BY <1>7, <1>9 DEF Decode, Flushed
  <2>2. Lossy(s) = Append(Flushed(d), "?")
    BY <1>4, <2>1 DEF Flushed
  <2> QED
    BY <1>4, <1>5, <1>6, <2>2 DEF n
<1>10. CASE s[n] # "C3" /\ ~(s[n] = "A9" /\ d.open)
  <2> DEFINE char == IF s[n] = "A9" THEN "?" ELSE s[n]
  <2>1. h[n] = [text |-> Append(Flushed(d), char), open |-> FALSE]
    BY <1>7, <1>10 DEF Decode, Flushed
  <2>2. char \in Char
    BY <1>3, <1>5
  <2> HIDE DEF char
  <2>3. Lossy(s) = Append(Flushed(d), char)
    BY <1>4, <2>1 DEF Flushed
  <2> QED
    BY <1>4, <1>5, <1>6, <1>10, <2>2, <2>3 DEF n
<1> QED
  BY <1>8, <1>9, <1>10

(* What is not a valid text on from its first byte begins with a replacement. *)
LEMMA LossyStart ==
  ASSUME NEW r \in Seq(Char), r # << >>,
         Lossy(SubSeq(r, 1, 1))[1] = "?", ~(Len(r) >= 2 /\ r[1] = "C3" /\ r[2] = "A9")
  PROVE  Lossy(r)[1] = "?"
<1> DEFINE one == SubSeq(r, 1, 1)
           rest == SubSeq(r, 2, Len(r))
<1>1. Len(r) \in Nat \ {0} /\ 1 \in 0 .. Len(r) /\ 1 + 1 = 2
  BY EmptySeq
<1>2. /\ one \in Seq(Char) /\ Len(one) = 1 /\ rest \in Seq(Char) /\ Len(rest) = Len(r) - 1
      /\ one[1] = r[1] /\ (Len(r) - 1 >= 1 => rest[1] = r[2]) /\ one \o rest = r
  <2>1. /\ one \in Seq(Char) /\ Len(one) = 1
        /\ rest \in Seq(Char) /\ Len(rest) = Len(r) - 1
        /\ \A i \in 1 .. 1 : one[i] = r[i]
        /\ \A j \in 1 .. Len(r) - 1 : rest[j] = r[1 + j]
        /\ one \o rest = r
    <3>1. rest = SubSeq(r, 1 + 1, Len(r))
      BY <1>1
    <3> HIDE DEF rest
    <3> QED
      BY <1>1, <3>1, CutInTwo
  <2>2. 1 \in 1 .. 1 /\ (Len(r) - 1 >= 1 => 1 \in 1 .. Len(r) - 1)
    BY <1>1
  <2>3. one[1] = r[1]
    BY <2>1, <2>2
  <2>4. Len(r) - 1 >= 1 => rest[1] = r[1 + 1]
    BY <2>1, <2>2
  <2> QED
    BY <1>1, <2>1, <2>3, <2>4
<1> HIDE DEF one, rest
<1>3. ~Joins(one, rest)
  <2> SUFFICES ASSUME Joins(one, rest) PROVE FALSE
    OBVIOUS
  <2>1. rest # << >> /\ one[1] = "C3" /\ rest[1] = "A9"
    BY <1>2 DEF Joins
  <2>2. Len(rest) \in Nat \ {0}
    BY <1>2, <2>1, EmptySeq
  <2>3. Len(r) >= 2 /\ Len(r) - 1 >= 1
    BY <1>1, <1>2, <2>2
  <2> QED
    BY <1>2, <2>1, <2>3
<1>4. Lossy(r) = Lossy(one) \o Lossy(rest)
  BY <1>2, <1>3, LossyJoin
<1>5. (Lossy(one) \o Lossy(rest))[1] = Lossy(one)[1]
  <2> DEFINE a == Lossy(one)
             b == Lossy(rest)
  <2>1. a \in Seq(Char) /\ Len(a) = 1 /\ b \in Seq(Char)
    BY <1>2, LossyOne, CharactersFacts
  <2> HIDE DEF a, b
  <2>2. 1 \in 1 .. Len(a)
    BY <2>1
  <2>3. (a \o b)[1] = a[1]
    BY <2>1, <2>2, JoinedAt
  <2> QED
    BY <2>3 DEF a, b
<1> QED
  BY <1>4, <1>5 DEF one

LEMMA ContainsJoin ==
  ASSUME NEW s \in Seq(Char), NEW t \in Seq(Char), NEW e
  PROVE  Contains(s \o t, e) <=> Contains(s, e) \/ Contains(t, e)
<1> DEFINE m == Len(s)
           n == Len(t)
           c == s \o t
<1>1. /\ Len(c) = m + n /\ m \in Nat /\ n \in Nat
      /\ (\A i \in 1 .. m : c[i] = s[i]) /\ \A j \in 1 .. n : c[m + j] = t[j]
  BY JoinedAt
<1> HIDE DEF m, n, c
<1>2. ASSUME Contains(s, e) PROVE Contains(c, e)
  <2>1. PICK i \in 1 .. m : s[i] = e
    BY <1>2 DEF Contains, m
  <2>2. i \in 1 .. Len(c) /\ c[i] = e
    BY <1>1, <2>1
  <2> QED
    BY <2>2 DEF Contains
<1>3. ASSUME Contains(t, e) PROVE Contains(c, e)
  <2>1. PICK j \in 1 .. n : t[j] = e
    BY <1>3 DEF Contains, n
  <2>2. m + j \in 1 .. Len(c) /\ c[m + j] = e
    BY <1>1, <2>1
  <2> QED
    BY <2>2 DEF Contains
<1>4. ASSUME Contains(c, e) PROVE Contains(s, e) \/ Contains(t, e)
  <2>1. PICK i \in 1 .. m + n : c[i] = e
    BY <1>1, <1>4 DEF Contains
  <2>2. CASE i \in 1 .. m
    BY <1>1, <2>1, <2>2 DEF Contains, m
  <2>3. CASE ~(i \in 1 .. m)
    <3>1. i - m \in 1 .. n /\ m + (i - m) = i
      BY <1>1, <2>3
    <3>2. t[i - m] = e
      BY <1>1, <2>1, <3>1
    <3> QED
      BY <3>1, <3>2 DEF Contains, n
  <2> QED
    BY <2>2, <2>3
<1> QED
  BY <1>2, <1>3, <1>4 DEF c

LEMMA OnlyOne ==
  ASSUME NEW t \in Seq(Char), NEW e, Len(t) = 1
  PROVE  Contains(t, e) <=> t[1] = e
<1>1. \A i \in 1 .. Len(t) : i = 1
  OBVIOUS
<1>2. 1 \in 1 .. Len(t)
  OBVIOUS
<1> QED
  BY <1>1, <1>2, Zenon DEF Contains

(* take_complete: a text in two parts, the first of which is decoded for     *)
(* good and does not end inside a character; where there is a second, a      *)
(* replacement stands right before it or at its beginning.                   *)
Sealed(head, rest) == head # << >> /\ head[Len(head)] = "C3" => rest # << >> /\ rest[1] # "A9"
Broken(text, rest) ==
  rest # << >> => (text # << >> /\ text[Len(text)] = "?") \/ Lossy(rest)[1] = "?"

LEMMA TakeCompleteFacts ==
  ASSUME NEW b \in Seq(Char), b # << >>
  PROVE  \E head \in Seq(Char) :
           /\ TakeComplete(b).rest \in Seq(Char) /\ b = head \o TakeComplete(b).rest
           /\ TakeComplete(b).text = Lossy(head)
           /\ Sealed(head, TakeComplete(b).rest)
           /\ Broken(Lossy(head), TakeComplete(b).rest)
<1> DEFINE n == Len(b)
           P(k) == SubSeq(b, 1, k)
           X == { k \in 0 .. n : ~Contains(Lossy(P(k)), "?") }
           good == ValidUpTo(b)
<1>1. n \in Nat \ {0} /\ n \in Nat
  BY EmptySeq
<1>2. good = Max(X)
  BY DEF ValidUpTo
<1>3. 0 \in X
  <2>1. P(0) = << >>
    BY SubSeqEmpty
  <2>2. ~Contains(<< >>, "?")
    BY DEF Contains
  <2>3. ~Contains(Lossy(P(0)), "?")
    BY <2>1, <2>2, LossyEmpty
  <2> HIDE DEF P
  <2> QED
    BY <1>1, <2>3
<1>4. good \in X /\ \A k \in X : k <= good
  <2>1. X \subseteq 0 .. n /\ X # {}
    BY <1>3
  <2> HIDE DEF X, n, good
  <2>2. Max(X) \in X /\ \A k \in X : k <= Max(X)
    BY <1>1, <2>1, MaxFacts
  <2> QED
    BY <1>2, <2>2
<1>5. \A k \in 0 .. n : P(k) \in Seq(Char) /\ Len(P(k)) = k /\ \A i \in 1 .. k : P(k)[i] = b[i]
  BY CutInTwo
<1>6. TakeComplete(b) = Cut(b, good)
  BY DEF TakeComplete
<1>7. good \in 0 .. n /\ ~Contains(Lossy(P(good)), "?")
  BY <1>4
<1>8. \A k \in 0 .. n : k > good => Contains(Lossy(P(k)), "?")
  BY <1>4, <1>7
<1> HIDE DEF X, good
<1>9. CASE good = 0 /\ ~Truncated(b)
  <2> DEFINE head == P(1)
             rest == Tail(b)
  <2>1. TakeComplete(b).text = << "?" >> /\ TakeComplete(b).rest = rest
    BY <1>6, <1>9 DEF Cut
  <2>2. 1 \in 0 .. n /\ 1 \in 1 .. 1 /\ 1 > 0
    BY <1>1
  <2>3. head \in Seq(Char) /\ Len(head) = 1 /\ head[1] = b[1]
    BY <1>5, <2>2
  <2>4. rest \in Seq(Char) /\ Len(rest) = n - 1 /\ \A i \in 1 .. n - 1 : rest[i] = b[i + 1]
    BY HeadTailProperties
  <2>5. b = head \o rest
    <3>1. rest = SubSeq(b, 2, n)
      BY TailIsSubSeq
    <3>2. rest = SubSeq(b, 1 + 1, n)
      BY <3>1
    <3> HIDE DEF rest
    <3> QED
      BY <2>2, <3>2, CutInTwo
  <2>6. Lossy(head) = << "?" >>
    <3>1. Contains(Lossy(head), "?")
      BY <1>8, <1>9, <2>2
    <3>2. Lossy(head) \in Seq(Char) /\ Len(Lossy(head)) = 1
      BY <2>3, LossyOne
    <3> DEFINE t == Lossy(head)
    <3>3. t[1] = "?"
      BY <3>1, <3>2 DEF Contains
    <3>4. << "?" >> \in Seq(Char) /\ Len(<< "?" >>) = 1 /\ << "?" >>[1] = "?"
      BY DEF Char
    <3> HIDE DEF t
    <3>5. t = << "?" >>
      BY <3>2, <3>3, <3>4, SeqEqual DEF t
    <3> QED
      BY <3>5 DEF t
  <2> HIDE DEF head, rest
  <2>7. Sealed(head, rest)
    <3> SUFFICES ASSUME b[1] = "C3" PROVE rest # << >> /\ rest[1] # "A9"
      BY <2>3 DEF Sealed
    <3>1. n # 1
      <4> SUFFICES ASSUME n = 1 PROVE FALSE
        OBVIOUS
      <4>1. << "C3" >> \in Seq(Char) /\ Len(<< "C3" >>) = 1 /\ << "C3" >>[1] = "C3"
        BY DEF Char
      <4>2. b = << "C3" >>
        BY <4>1, SeqEqual
      <4> QED
        BY <1>9, <4>2 DEF Truncated
    <3>2. rest # << >>
      BY <1>1, <2>4, <3>1, EmptySeq
    <3>3. rest[1] = b[2] /\ 2 \in 0 .. n
      <4> HIDE DEF n
      <4>1. 1 \in 1 .. n - 1
        BY <1>1, <3>1
      <4> QED
        BY <1>1, <2>4, <3>1, <4>1
    <3>4. b[2] # "A9"
      <4> SUFFICES ASSUME b[2] = "A9" PROVE FALSE
        OBVIOUS
      <4>1. Contains(Lossy(P(2)), "?")
        BY <1>8, <1>9, <3>3
      <4>2. P(2) \in Seq(Char) /\ Len(P(2)) = 2 /\ P(2)[1] = "C3" /\ P(2)[2] = "A9"
        BY <1>5, <3>3
      <4> HIDE DEF P
      <4>3. Lossy(P(2)) \in Seq(Char) /\ Len(Lossy(P(2))) = 1 /\ Lossy(P(2))[1] = "C3A9"
        BY <4>2, LossyTwo
      <4> QED
        BY <4>1, <4>3, OnlyOne
    <3> QED
      BY <3>2, <3>3, <3>4
  <2>8. Broken(Lossy(head), rest)
    <3>1. << "?" >> # << >> /\ << "?" >>[Len(<< "?" >>)] = "?"
      OBVIOUS
    <3> QED
      BY <2>6, <3>1 DEF Broken
  <2> QED
    BY <2>1, <2>3, <2>4, <2>5, <2>6, <2>7, <2>8
<1>10. CASE ~(good = 0 /\ ~Truncated(b))
  <2> DEFINE head == P(good)
             rest == SubSeq(b, good + 1, n)
  <2>1. TakeComplete(b).text = Lossy(head) /\ TakeComplete(b).rest = rest
    <3>1. ~(good = 0 /\ b # << >> /\ ~Truncated(b))
      BY <1>10
    <3>2. Cut(b, good) = [text |-> Lossy(head), rest |-> rest]
      BY <3>1, Zenon DEF Cut
    <3> HIDE DEF head, rest
    <3> QED
      BY <1>6, <3>2
  <2>2. /\ head \in Seq(Char) /\ Len(head) = good /\ rest \in Seq(Char) /\ Len(rest) = n - good
        /\ (\A j \in 1 .. n - good : rest[j] = b[good + j]) /\ b = head \o rest
    BY <1>7, CutInTwo
  <2>3. ~(head # << >> /\ head[Len(head)] = "C3")
    <3> SUFFICES ASSUME head # << >>, head[Len(head)] = "C3" PROVE FALSE
      OBVIOUS
    <3> HIDE DEF head
    <3>1. Len(Lossy(head)) \in Nat \ {0} /\ Lossy(head)[Len(Lossy(head))] = "?"
      BY <2>2, LossySome
    <3>2. Contains(Lossy(head), "?")
      BY <3>1 DEF Contains
    <3> QED
      BY <1>7, <3>2 DEF head
  <2>4. ASSUME rest # << >> PROVE Lossy(rest)[1] = "?"
    <3> DEFINE more(k) == SubSeq(rest, 1, k)
    <3>1. n - good \in Nat \ {0} /\ good + 1 \in 0 .. n /\ good + 1 > good
      <4> HIDE DEF rest, n
      <4>1. Len(rest) \in Nat \ {0}
        BY <2>2, <2>4, EmptySeq
      <4> QED
        BY <1>1, <1>7, <2>2, <4>1
    <3>2. ASSUME NEW k \in 1 .. n - good
          PROVE  /\ more(k) \in Seq(Char) /\ Len(more(k)) = k /\ (\A i \in 1 .. k : more(k)[i] = rest[i])
                 /\ P(good + k) = head \o more(k)
                 /\ Contains(Lossy(more(k)), "?")
      <4>1. k \in 0 .. Len(rest) /\ good + k \in 0 .. n /\ good + k > good
        BY <1>1, <1>7, <2>2
      <4>2. more(k) \in Seq(Char) /\ Len(more(k)) = k /\ \A i \in 1 .. k : more(k)[i] = rest[i]
        <5> HIDE DEF rest
        <5> QED
          BY <2>2, <4>1, CutInTwo
      <4>3. P(good + k) = head \o more(k)
        <5>1. more(k) = SubSeq(b, good + 1, good + k)
          <6>1. good + 1 \in 1 .. n /\ n \in 1 .. n /\ 1 \in 1 .. n - (good + 1) + 1 /\ k \in 1 .. n - (good + 1) + 1
            BY <1>1, <1>7, <3>1
          <6>2. more(k) = SubSeq(b, good + 1 + 1 - 1, good + 1 + k - 1)
            BY <6>1, SubSeqOfSubSeq
          <6>3. good + 1 + 1 - 1 = good + 1 /\ good + 1 + k - 1 = good + k
            BY <1>7
          <6> QED
            BY <6>2, <6>3
        <5>2. 1 \in 1 .. n + 1 /\ good \in 1 - 1 .. n /\ good + k \in good .. n
          BY <1>1, <1>7, <4>1
        <5>3. SubSeq(b, 1, good) \o SubSeq(b, good + 1, good + k) = SubSeq(b, 1, good + k)
          BY <5>2, ConcatAdjacentSubSeq
        <5> QED
          BY <5>1, <5>3
      <4> HIDE DEF head, rest
      <4>4. Contains(Lossy(P(good + k)), "?")
        BY <1>8, <4>1
      <4>5. ~Joins(head, more(k))
        BY <2>3 DEF Joins
      <4> HIDE DEF more, P
      <4>6. Lossy(head \o more(k)) = Lossy(head) \o Lossy(more(k))
        BY <2>2, <4>2, <4>5, LossyJoin
      <4>7. Lossy(head) \in Seq(Char) /\ Lossy(more(k)) \in Seq(Char)
        BY <2>2, <4>2, CharactersFacts
      <4>8. Contains(Lossy(head), "?") \/ Contains(Lossy(more(k)), "?")
        <5>1. Contains(Lossy(head) \o Lossy(more(k)), "?") <=> Contains(Lossy(head), "?") \/ Contains(Lossy(more(k)), "?")
          BY <4>7, ContainsJoin
        <5>2. Contains(Lossy(head) \o Lossy(more(k)), "?")
          BY <4>3, <4>4, <4>6
        <5> QED
          BY <5>1, <5>2
      <4>9. ~Contains(Lossy(head), "?")
        BY <1>7 DEF head, P
      <4> QED
        BY <4>2, <4>3, <4>8, <4>9
    <3> HIDE DEF head, rest, more
    <3>3. 1 \in 1 .. n - good
      BY <3>1
    <3>4. Lossy(more(1))[1] = "?"
      <4>1. more(1) \in Seq(Char) /\ Len(more(1)) = 1 /\ Contains(Lossy(more(1)), "?")
        BY <3>2, <3>3
      <4>2. Lossy(more(1)) \in Seq(Char) /\ Len(Lossy(more(1))) = 1
        BY <4>1, LossyOne
      <4> QED
        BY <4>1, <4>2, OnlyOne
    <3>5. ~(Len(rest) >= 2 /\ rest[1] = "C3" /\ rest[2] = "A9")
      <4> SUFFICES ASSUME Len(rest) >= 2, rest[1] = "C3", rest[2] = "A9" PROVE FALSE
        OBVIOUS
      <4>1. 2 \in 1 .. n - good
        BY <2>2, <3>1
      <4>2. more(2) \in Seq(Char) /\ Len(more(2)) = 2 /\ more(2)[1] = "C3" /\ more(2)[2] = "A9"
        <5>1. \A i \in 1 .. 2 : more(2)[i] = rest[i]
          BY <3>2, <4>1
        <5>2. more(2)[1] = rest[1] /\ more(2)[2] = rest[2]
          BY <5>1
        <5> QED
          BY <3>2, <4>1, <5>2
      <4>3. Lossy(more(2)) \in Seq(Char) /\ Len(Lossy(more(2))) = 1 /\ Lossy(more(2))[1] = "C3A9"
        BY <4>2, LossyTwo
      <4>4. Contains(Lossy(more(2)), "?")
        BY <3>2, <4>1
      <4> QED
        BY <4>3, <4>4, OnlyOne
    <3> QED
      BY <2>2, <2>4, <3>4, <3>5, LossyStart DEF more
  <2> HIDE DEF head, rest
  <2>5. Sealed(head, rest) /\ Broken(Lossy(head), rest)
    BY <2>3, <2>4 DEF Sealed, Broken
  <2> QED
    BY <2>1, <2>2, <2>5
<1> QED
  BY <1>9, <1>10

-----------------------------------------------------------------------------
(* Where stop strings are, position by position.                            *)
Occurs(text, i, s) ==
  /\ s # << >> /\ i \in 1 .. Len(text) /\ i + Len(s) - 1 <= Len(text)
  /\ \A j \in 1 .. Len(s) : text[i + j - 1] = s[j]
Begins(text, k, s) == k <= Len(s) /\ \A j \in 1 .. k : text[Len(text) - k + j] = s[j]
Clear(text, stops) == \A s \in stops : \A i \in 1 .. Len(text) : ~Occurs(text, i, s)
NoneEarlier(text, m, stops) == \A s \in stops : \A k \in 1 .. Len(text) : Begins(text, k, s) => k <= m

LEMMA OccurrenceFacts ==
  ASSUME NEW text \in Seq(Char), NEW s \in Seq(Char), NEW i
  PROVE  i \in Occurrences(text, s) <=> Occurs(text, i, s)
<1> DEFINE m == Len(s)
           last == i + m - 1
           part == SubSeq(text, i, last)
<1>1. Len(text) \in Nat /\ m \in Nat /\ (s # << >> => m # 0)
  BY LenProperties, EmptySeq
<1>2. i \in Occurrences(text, s) <=> i \in 1 .. Len(text) /\ s # << >> /\ last <= Len(text) /\ part = s
  BY DEF Occurrences
<1>3. ASSUME i \in 1 .. Len(text), s # << >>, last <= Len(text)
      PROVE  part = s <=> \A j \in 1 .. m : text[i + j - 1] = s[j]
  <2>1. i \in 1 .. Len(text) + 1 /\ last \in 0 .. Len(text) /\ i <= last /\ last - i + 1 = m
    BY <1>1, <1>3
  <2>2. part \in Seq(Char) /\ Len(part) = m /\ \A j \in 1 .. m : part[j] = text[i + j - 1]
    <3> HIDE DEF last, m
    <3>1. /\ part \in Seq(Char) /\ Len(part) = (IF i <= last THEN last - i + 1 ELSE 0)
          /\ \A j \in 1 .. last - i + 1 : part[j] = text[i + j - 1]
      BY <2>1, SliceFacts
    <3> QED
      BY <2>1, <3>1
  <2> HIDE DEF part
  <2>3. (\A j \in 1 .. m : text[i + j - 1] = s[j]) => part = s
    BY <2>2, SeqEqual
  <2> QED
    BY <2>2, <2>3
<1> QED
  BY <1>2, <1>3 DEF Occurs

LEMMA EndsWithFacts ==
  ASSUME NEW text \in Seq(Char), NEW s \in Seq(Char), NEW n \in 1 .. Len(text)
  PROVE  EndsWith(text, n, s) <=> Begins(text, n, s)
<1> DEFINE m == Len(text)
           end == SubSeq(text, m - n + 1, m)
           start == SubSeq(s, 1, n)
<1>1. m \in Nat /\ Len(s) \in Nat /\ n \in 1 .. m
  BY LenProperties
<1> HIDE DEF m
<1>2. ASSUME n <= Len(s) PROVE end = start <=> \A j \in 1 .. n : text[m - n + j] = s[j]
  <2>1. m - n + 1 \in 1 .. m + 1 /\ m \in 0 .. m /\ m - n + 1 <= m /\ m - (m - n + 1) + 1 = n
    BY <1>1
  <2>2. end \in Seq(Char) /\ Len(end) = n /\ \A j \in 1 .. n : end[j] = text[m - n + j]
    <3> DEFINE from == m - n + 1
    <3>1. \A j \in 1 .. n : from + j - 1 = m - n + j
      BY <1>1
    <3>2. from \in 1 .. Len(text) + 1 /\ m \in 0 .. Len(text) /\ from <= m /\ m - from + 1 = n
      BY <2>1 DEF m
    <3> HIDE DEF from
    <3>3. /\ SubSeq(text, from, m) \in Seq(Char) /\ Len(SubSeq(text, from, m)) = (IF from <= m THEN m - from + 1 ELSE 0)
          /\ \A j \in 1 .. m - from + 1 : SubSeq(text, from, m)[j] = text[from + j - 1]
      BY <3>2, SliceFacts
    <3>4. \A j \in 1 .. n : SubSeq(text, from, m)[j] = text[m - n + j]
      BY <3>1, <3>2, <3>3
    <3> QED
      BY <3>2, <3>3, <3>4 DEF from
  <2>3. start \in Seq(Char) /\ Len(start) = n /\ \A j \in 1 .. n : start[j] = s[j]
    <3>1. n \in 0 .. Len(s)
      BY <1>1, <1>2
    <3> QED
      BY <3>1, CutInTwo
  <2> HIDE DEF end, start
  <2>4. (\A j \in 1 .. n : text[m - n + j] = s[j]) => end = start
    BY <2>2, <2>3, SeqEqual
  <2> QED
    BY <2>2, <2>3, <2>4
<1>3. EndsWith(text, n, s) <=> n <= Len(s) /\ end = start
  BY DEF EndsWith, m
<1>4. Begins(text, n, s) <=> n <= Len(s) /\ \A j \in 1 .. n : text[m - n + j] = s[j]
  BY DEF Begins, m
<1> HIDE DEF end, start
<1> QED
  BY <1>2, <1>3, <1>4

LEMMA FoundFacts ==
  ASSUME NEW text \in Seq(Char), NEW stops \in SUBSET Seq(Char)
  PROVE  /\ \A i : i \in Found(text, stops) <=> \E s \in stops : Occurs(text, i, s)
         /\ Found(text, stops) \subseteq 1 .. Len(text)
         /\ Found(text, stops) = {} <=> Clear(text, stops)
<1>1. \A i : i \in Found(text, stops) <=> \E s \in stops : i \in Occurrences(text, s)
  BY DEF Found
<1>2. \A i : \A s \in stops : i \in Occurrences(text, s) <=> Occurs(text, i, s)
  BY OccurrenceFacts
<1>3. \A i : i \in Found(text, stops) <=> \E s \in stops : Occurs(text, i, s)
  BY <1>1, <1>2
<1>4. \A i : \A s \in stops : Occurs(text, i, s) => i \in 1 .. Len(text)
  BY DEF Occurs
<1>5. Found(text, stops) \subseteq 1 .. Len(text)
  BY <1>3, <1>4
<1>6. Found(text, stops) = {} <=> Clear(text, stops)
  BY <1>3, <1>5 DEF Clear
<1> QED
  BY <1>3, <1>5, <1>6

(* split_at_stop, on a buffer by itself. *)
LEMMA SplitFacts ==
  ASSUME NEW buffer \in Seq(Char), NEW stops \in SUBSET Seq(Char), NEW scan, scan = SplitAtStop(buffer, stops)
  PROVE  /\ scan.hit \in BOOLEAN /\ scan.len \in 0 .. Len(buffer)
         /\ scan.hit => /\ \E s \in stops : Occurs(buffer, scan.len + 1, s)
                        /\ \A s \in stops : \A i \in 1 .. scan.len : ~Occurs(buffer, i, s)
         /\ ~scan.hit => /\ Clear(buffer, stops)
                         /\ NoneEarlier(buffer, Len(buffer) - scan.len, stops)
                         /\ scan.len # Len(buffer) => \E s \in stops : Begins(buffer, Len(buffer) - scan.len, s)
<1> DEFINE n == Len(buffer)
           found == Found(buffer, stops)
<1>1. n \in Nat
  BY LenProperties
<1>2. /\ \A i : i \in found <=> \E s \in stops : Occurs(buffer, i, s)
      /\ found \subseteq 1 .. n
      /\ found = {} <=> Clear(buffer, stops)
  BY FoundFacts
<1>3. scan = [hit |-> found # {}, len |-> IF found # {} THEN Min(found) - 1 ELSE n - Held(buffer, stops)]
  BY DEF SplitAtStop
<1> HIDE DEF n, found
<1>4. scan.hit = (found # {})
  BY <1>3
<1>5. CASE found # {}
  <2>1. scan.len = Min(found) - 1
    BY <1>3, <1>5
  <2>2. Min(found) \in found /\ \A i \in found : Min(found) <= i
    <3>1. found \subseteq 0 .. n
      BY <1>1, <1>2
    <3> QED
      BY <1>1, <1>5, <3>1, MinFacts
  <2>3. Min(found) \in 1 .. n
    BY <1>2, <2>2
  <2>4. scan.len \in 0 .. n /\ scan.len + 1 = Min(found)
    BY <1>1, <2>1, <2>3
  <2>5. \E s \in stops : Occurs(buffer, scan.len + 1, s)
    BY <1>2, <2>2, <2>4
  <2>6. ASSUME NEW s \in stops, NEW i \in 1 .. scan.len PROVE ~Occurs(buffer, i, s)
    <3>1. i \notin found
      BY <1>1, <2>2, <2>3, <2>4
    <3> QED
      BY <1>2, <3>1
  <2> QED
    BY <1>4, <1>5, <2>4, <2>5, <2>6 DEF n
<1>6. CASE found = {}
  <2> DEFINE X == { k \in 1 .. n : \E s \in stops : EndsWith(buffer, k, s) }
             held0 == Held(buffer, stops)
  <2>1. scan.len = n - held0
    BY <1>3, <1>6
  <2>2. held0 = Max({0} \cup X)
    BY DEF Held, n
  <2>3. \A k \in 1 .. n : \A s \in stops : EndsWith(buffer, k, s) <=> Begins(buffer, k, s)
    BY EndsWithFacts DEF n
  <2>4. \A k \in 1 .. n : k \in X <=> \E s \in stops : Begins(buffer, k, s)
    BY <2>3
  <2>5. X \subseteq 1 .. n
    OBVIOUS
  <2> HIDE DEF X, held0
  <2>6. held0 \in {0} \cup X /\ \A k \in {0} \cup X : k <= held0
    <3>1. {0} \cup X \subseteq 0 .. n /\ {0} \cup X # {}
      BY <1>1, <2>5
    <3> QED
      BY <1>1, <2>2, <3>1, MaxFacts
  <2>7. held0 \in 0 .. n
    BY <1>1, <2>5, <2>6
  <2>8. scan.len \in 0 .. n /\ n - scan.len = held0
    BY <1>1, <2>1, <2>7
  <2>9. \A s \in stops : \A k \in 1 .. n : Begins(buffer, k, s) => k <= held0
    BY <2>4, <2>6
  <2>10. scan.len # n => \E s \in stops : Begins(buffer, held0, s)
    <3> SUFFICES ASSUME scan.len # n PROVE held0 \in 1 .. n /\ held0 \in X
      BY <2>4
    <3> QED
      BY <1>1, <2>5, <2>6, <2>7, <2>8
  <2> QED
    BY <1>2, <1>4, <1>6, <2>8, <2>9, <2>10 DEF NoneEarlier, n
<1> QED
  BY <1>5, <1>6

(* What a scan of the buffer has to do with all that was ever said. Once no  *)
(* stop string is in the text said, and none begins in it before the part    *)
(* that is held back, a stop string of the longer text lies in the buffer.   *)
NoStop(text, m, stops) == Clear(text, stops) /\ NoneEarlier(text, m, stops)

(* Text `whole` is text `said` and then n more; the buffer is the end of it. *)
Grows(said, whole, buffer, from, m) ==
  /\ from \in Nat /\ m \in Nat
  /\ Len(said) = from + m /\ Len(buffer) >= m /\ Len(whole) = from + Len(buffer)
  /\ \A i \in 1 .. from + m : whole[i] = said[i]
  /\ \A j \in 1 .. Len(buffer) : whole[from + j] = buffer[j]

LEMMA OccursInBuffer ==
  ASSUME NEW said \in Seq(Char), NEW whole \in Seq(Char), NEW buffer \in Seq(Char), NEW from, NEW m,
         Grows(said, whole, buffer, from, m),
         NEW stops \in SUBSET Seq(Char), NoStop(said, m, stops), NEW s \in stops, NEW i, Occurs(whole, i, s)
  PROVE  i > from /\ Occurs(buffer, i - from, s)
<1> DEFINE n == Len(buffer)
           k == Len(s)
<1>1. from \in Nat /\ m \in Nat /\ n \in Nat /\ n >= m /\ Len(said) = from + m /\ Len(whole) = from + n
  BY LenProperties DEF Grows
<1>2. k \in Nat \ {0} /\ s # << >> /\ i \in 1 .. from + n /\ i + k - 1 <= from + n
  BY <1>1, EmptySeq DEF Occurs
<1>3. \A j \in 1 .. k : whole[i + j - 1] = s[j]
  BY DEF Occurs
<1>4. /\ \A x \in 1 .. from + m : whole[x] = said[x]
      /\ \A y \in 1 .. n : whole[from + y] = buffer[y]
  BY DEF Grows
<1> HIDE DEF n, k
<1>5. i > from
  <2> SUFFICES ASSUME i <= from PROVE FALSE
    BY <1>1, <1>2
  <2>1. CASE i + k - 1 <= from + m
    <3>1. \A j \in 1 .. k : i + j - 1 \in 1 .. from + m
      BY <1>1, <1>2, <2>1
    <3>2. \A j \in 1 .. k : said[i + j - 1] = s[j]
      BY <1>3, <1>4, <3>1
    <3>3. i \in 1 .. Len(said)
      BY <1>1, <1>2
    <3>4. Occurs(said, i, s)
      BY <1>1, <1>2, <2>1, <3>2, <3>3 DEF Occurs, k
    <3> QED
      BY <3>3, <3>4 DEF NoStop, Clear
  <2>2. CASE ~(i + k - 1 <= from + m)
    <3> DEFINE l == from + m - i + 1
    <3>1. l \in 1 .. from + m /\ l > m /\ l <= k /\ from + m - l = i - 1
      BY <1>1, <1>2, <2>2
    <3> HIDE DEF l
    <3>2. ASSUME NEW j \in 1 .. l PROVE said[from + m - l + j] = s[j]
      <4>1. j \in 1 .. k /\ i + j - 1 \in 1 .. from + m /\ from + m - l + j = i + j - 1
        BY <1>1, <1>2, <3>1 DEF l
      <4> QED
        BY <1>3, <1>4, <4>1
    <3>3. Begins(said, l, s)
      <4>1. \A j \in 1 .. l : Len(said) - l + j = from + m - l + j
        BY <1>1, <3>1
      <4>2. \A j \in 1 .. l : said[Len(said) - l + j] = s[j]
        BY <3>2, <4>1
      <4> QED
        BY <3>1, <4>2 DEF Begins, k
    <3>4. l <= m
      BY <1>1, <3>1, <3>3 DEF NoStop, NoneEarlier
    <3> QED
      BY <1>1, <3>1, <3>4
  <2> QED
    BY <2>1, <2>2
<1>6. \A j \in 1 .. k : (i - from) + j - 1 \in 1 .. n /\ from + ((i - from) + j - 1) = i + j - 1
  BY <1>1, <1>2, <1>5
<1>7. \A j \in 1 .. k : buffer[(i - from) + j - 1] = s[j]
  BY <1>3, <1>4, <1>6
<1>8. i - from \in 1 .. n /\ (i - from) + k - 1 <= n
  BY <1>1, <1>2, <1>5
<1> QED
  BY <1>2, <1>5, <1>7, <1>8 DEF Occurs, n, k

LEMMA OccursInWhole ==
  ASSUME NEW said \in Seq(Char), NEW whole \in Seq(Char), NEW buffer \in Seq(Char), NEW from, NEW m,
         Grows(said, whole, buffer, from, m), NEW s \in Seq(Char), NEW i, Occurs(buffer, i, s)
  PROVE  Occurs(whole, from + i, s)
<1> DEFINE n == Len(buffer)
           k == Len(s)
<1>1. from \in Nat /\ n \in Nat /\ Len(whole) = from + n
  BY LenProperties DEF Grows
<1>2. k \in Nat /\ s # << >> /\ i \in 1 .. n /\ i + k - 1 <= n /\ \A j \in 1 .. k : buffer[i + j - 1] = s[j]
  BY LenProperties DEF Occurs
<1>3. \A y \in 1 .. n : whole[from + y] = buffer[y]
  BY DEF Grows
<1> HIDE DEF n, k
<1>4. \A j \in 1 .. k : i + j - 1 \in 1 .. n /\ from + (i + j - 1) = (from + i) + j - 1
  BY <1>1, <1>2
<1>5. \A j \in 1 .. k : whole[(from + i) + j - 1] = s[j]
  BY <1>2, <1>3, <1>4
<1>6. from + i \in 1 .. from + n /\ (from + i) + k - 1 <= from + n
  BY <1>1, <1>2
<1> QED
  BY <1>1, <1>2, <1>5, <1>6 DEF Occurs, k

LEMMA NoStopKept ==
  ASSUME NEW said \in Seq(Char), NEW whole \in Seq(Char), NEW buffer \in Seq(Char), NEW from, NEW m,
         Grows(said, whole, buffer, from, m),
         NEW stops \in SUBSET Seq(Char), NoStop(said, m, stops),
         NEW h \in Nat, Clear(buffer, stops), NoneEarlier(buffer, h, stops)
  PROVE  NoStop(whole, h, stops)
<1> DEFINE n == Len(buffer)
<1>1. from \in Nat /\ m \in Nat /\ n \in Nat /\ n >= m /\ Len(said) = from + m /\ Len(whole) = from + n
  BY LenProperties DEF Grows
<1>2. Clear(whole, stops)
  <2> SUFFICES ASSUME NEW s \in stops, NEW i \in 1 .. Len(whole), Occurs(whole, i, s) PROVE FALSE
    BY DEF Clear
  <2>1. i > from /\ Occurs(buffer, i - from, s)
    BY OccursInBuffer
  <2>2. i - from \in 1 .. Len(buffer)
    BY <2>1 DEF Occurs
  <2> QED
    BY <2>1, <2>2 DEF Clear
<1>3. ASSUME NEW s \in stops, NEW l \in 1 .. Len(whole), Begins(whole, l, s) PROVE l <= h
  <2>1. l <= Len(s) /\ \A j \in 1 .. l : whole[from + n - l + j] = s[j]
    BY <1>1, <1>3 DEF Begins
  <2>2. /\ \A x \in 1 .. from + m : whole[x] = said[x]
        /\ \A y \in 1 .. n : whole[from + y] = buffer[y]
    BY DEF Grows
  <2>3. l \in 1 .. from + n /\ Len(s) \in Nat
    BY <1>1, LenProperties
  <2> HIDE DEF n
  <2>4. CASE l <= n
    <3>1. \A j \in 1 .. l : n - l + j \in 1 .. n /\ from + (n - l + j) = from + n - l + j
      BY <1>1, <2>3, <2>4
    <3>2. \A j \in 1 .. l : buffer[n - l + j] = s[j]
      BY <2>1, <2>2, <3>1
    <3>3. Begins(buffer, l, s) /\ l \in 1 .. Len(buffer)
      BY <2>1, <2>3, <2>4, <3>2 DEF Begins, n
    <3> QED
      BY <3>3 DEF NoneEarlier
  <2>5. CASE ~(l <= n)
    <3> DEFINE k == l - (n - m)
    <3>1. k \in 1 .. from + m /\ k > m /\ k <= Len(s) /\ from + m - k = from + n - l /\ k <= l
      BY <1>1, <2>1, <2>3, <2>5
    <3>2. ASSUME NEW j \in 1 .. k PROVE said[from + m - k + j] = s[j]
      <4>1. j \in 1 .. l /\ from + m - k + j = from + n - l + j /\ from + n - l + j \in 1 .. from + m
        BY <1>1, <2>3, <2>5, <3>1
      <4> QED
        BY <2>1, <2>2, <4>1
    <3> HIDE DEF k
    <3>3. Begins(said, k, s)
      <4>1. \A j \in 1 .. k : Len(said) - k + j = from + m - k + j
        BY <1>1, <3>1
      <4>2. \A j \in 1 .. k : said[Len(said) - k + j] = s[j]
        BY <3>2, <4>1
      <4> QED
        BY <3>1, <4>2 DEF Begins
    <3>4. k <= m
      BY <1>1, <3>1, <3>3 DEF NoStop, NoneEarlier
    <3> QED
      BY <1>1, <3>1, <3>4
  <2> QED
    BY <2>4, <2>5
<1> QED
  BY <1>2, <1>3 DEF NoStop, NoneEarlier

(* The beginning of a text without a stop string, and one more character at  *)
(* its end that no stop string has.                                         *)
LEMMA ClearStart ==
  ASSUME NEW whole \in Seq(Char), NEW start \in Seq(Char), Len(start) <= Len(whole),
         \A i \in 1 .. Len(start) : start[i] = whole[i],
         NEW s \in Seq(Char), NEW i, Occurs(start, i, s)
  PROVE  Occurs(whole, i, s)
<1>1. Len(whole) \in Nat /\ Len(start) \in Nat /\ Len(s) \in Nat
  BY LenProperties
<1>2. s # << >> /\ i \in 1 .. Len(start) /\ i + Len(s) - 1 <= Len(start) /\ \A j \in 1 .. Len(s) : start[i + j - 1] = s[j]
  BY DEF Occurs
<1>3. \A j \in 1 .. Len(s) : i + j - 1 \in 1 .. Len(start)
  BY <1>1, <1>2
<1>4. \A j \in 1 .. Len(s) : whole[i + j - 1] = s[j]
  BY <1>2, <1>3
<1>5. i \in 1 .. Len(whole) /\ i + Len(s) - 1 <= Len(whole)
  BY <1>1, <1>2
<1> QED
  BY <1>2, <1>4, <1>5 DEF Occurs

LEMMA ClearEnd ==
  ASSUME NEW start \in Seq(Char), NEW end \in Seq(Char), end = << >> \/ end = << "?" >>,
         NEW stops \in SUBSET Seq(Char), \A s \in stops : ~Contains(s, "?"), Clear(start, stops)
  PROVE  Clear(start \o end, stops)
<1> DEFINE whole == start \o end
           m == Len(start)
<1>1. CASE end = << >>
  BY <1>1, ConcatEmptySeq
<1>2. CASE end = << "?" >>
  <2>1. Len(end) = 1 /\ end[1] = "?"
    BY <1>2
  <2>2. whole \in Seq(Char) /\ Len(whole) = m + 1 /\ m \in Nat /\ (\A i \in 1 .. m : whole[i] = start[i]) /\ whole[m + 1] = "?"
    <3> HIDE DEF whole
    <3>1. whole \in Seq(Char) /\ Len(whole) = m + Len(end) /\ m \in Nat /\ (\A i \in 1 .. m : whole[i] = start[i])
          /\ \A j \in 1 .. Len(end) : whole[m + j] = end[j]
      BY JoinedAt DEF whole
    <3>2. 1 \in 1 .. Len(end)
      BY <2>1
    <3> QED
      BY <2>1, <3>1, <3>2
  <2> SUFFICES ASSUME NEW s \in stops, NEW i \in 1 .. Len(whole), Occurs(whole, i, s) PROVE FALSE
    BY DEF Clear
  <2> HIDE DEF whole, m
  <2> DEFINE k == Len(s)
  <2>3. k \in Nat \ {0} /\ s # << >> /\ i + k - 1 <= m + 1 /\ i \in 1 .. m + 1 /\ \A j \in 1 .. k : whole[i + j - 1] = s[j]
    BY <2>2, EmptySeq DEF Occurs
  <2> HIDE DEF k
  <2>4. CASE i + k - 1 = m + 1
    <3>1. k \in 1 .. k
      BY <2>3
    <3>2. s[k] = "?"
      BY <2>2, <2>3, <2>4, <3>1
    <3> QED
      BY <3>1, <3>2 DEF Contains, k
  <2>5. CASE i + k - 1 # m + 1
    <3>1. i \in 1 .. m /\ i + k - 1 <= m
      BY <2>2, <2>3, <2>5
    <3>2. \A j \in 1 .. k : i + j - 1 \in 1 .. m
      BY <2>2, <2>3, <3>1
    <3>3. \A j \in 1 .. k : start[i + j - 1] = s[j]
      BY <2>2, <2>3, <3>2
    <3>4. Occurs(start, i, s)
      BY <2>3, <3>1, <3>3 DEF Occurs, m, k
    <3> QED
      BY <3>1, <3>4 DEF Clear, m
  <2> QED
    BY <2>4, <2>5
<1> QED
  BY <1>1, <1>2

-----------------------------------------------------------------------------
(* A token. *)
LEMMA ReplyTyped ==
  ASSUME NEW r \in Replies
  PROVE  r.bytes \in Seq(Char) /\ r.stop \in SUBSET Seq(Char)
<1>1. STRING \subseteq Char
  BY DEF Char
<1>2. r.bytes \in Seq(STRING) /\ r.stop \subseteq Seq(STRING)
  BY ReplyTexts
<1>3. \A s \in Seq(STRING) : s \in Seq(Char)
  BY <1>1, SeqMonotonic
<1> QED
  BY <1>2, <1>3

LEMMA SealedNotJoined ==
  ASSUME NEW a, NEW b, Sealed(a, b)
  PROVE  ~Joins(a, b)
BY DEF Sealed, Joins

(* Texts, with their concatenation kept closed. *)
Text == Seq(Char)
Cat(a, b) == a \o b

LEMMA TextFacts ==
  /\ << >> \in Text
  /\ \A a, b \in Text : Cat(a, b) \in Text
  /\ \A a, b, c \in Text : Cat(Cat(a, b), c) = Cat(a, Cat(b, c))
  /\ \A a \in Text : Cat(a, << >>) = a /\ Cat(<< >>, a) = a /\ Lossy(a) \in Text /\ Len(a) \in Nat
  /\ \A a \in Text : a # << >> => Len(a) \in 1 .. Len(a)
  /\ \A a, b \in Text : Cat(a, b) = << >> => a = << >> /\ b = << >>
<1>1. << >> \in Text
  BY EmptySeq DEF Text
<1>2. \A a, b \in Text : Cat(a, b) \in Text
  BY ConcatProperties DEF Text, Cat
<1>3. \A a, b, c \in Text : Cat(Cat(a, b), c) = Cat(a, Cat(b, c))
  BY ConcatAssociative DEF Text, Cat
<1>4. \A a \in Text : Cat(a, << >>) = a /\ Cat(<< >>, a) = a /\ Lossy(a) \in Text /\ Len(a) \in Nat
  BY ConcatEmptySeq, CharactersFacts, LenProperties DEF Text, Cat
<1>5. \A a \in Text : a # << >> => Len(a) \in 1 .. Len(a)
  BY EmptySeq DEF Text
<1>6. \A a, b \in Text : Cat(a, b) = << >> => a = << >> /\ b = << >>
  BY ConcatEqualIffEmpty DEF Text, Cat
<1> QED
  BY <1>1, <1>2, <1>3, <1>4, <1>5, <1>6

LEMMA CatPlaces ==
  ASSUME NEW a \in Text, NEW b \in Text
  PROVE  /\ Len(Cat(a, b)) = Len(a) + Len(b)
         /\ \A i \in 1 .. Len(a) : Cat(a, b)[i] = a[i]
         /\ \A j \in 1 .. Len(b) : Cat(a, b)[Len(a) + j] = b[j]
BY JoinedAt DEF Text, Cat

LEMMA LossyCat ==
  ASSUME NEW a \in Text, NEW b \in Text, ~Joins(a, b)
  PROVE  Lossy(Cat(a, b)) = Cat(Lossy(a), Lossy(b))
BY LossyJoin DEF Text, Cat

LEMMA TakenText ==
  ASSUME NEW b \in Text, b # << >>
  PROVE  \E head \in Text, rest \in Text :
           /\ b = Cat(head, rest) /\ TakeComplete(b).rest = rest /\ TakeComplete(b).text = Lossy(head)
           /\ Sealed(head, rest) /\ Broken(Lossy(head), rest)
<1>1. PICK head \in Seq(Char) :
        /\ TakeComplete(b).rest \in Seq(Char) /\ b = head \o TakeComplete(b).rest
        /\ TakeComplete(b).text = Lossy(head)
        /\ Sealed(head, TakeComplete(b).rest)
        /\ Broken(Lossy(head), TakeComplete(b).rest)
  BY TakeCompleteFacts DEF Text
<1> QED
  BY <1>1 DEF Text, Cat

(* split_at_stop, with the parts of the buffer in place of their length. *)
SplitAs(p, buffer, stops) ==
  \E e, q \in Text :
    /\ p.emit = e /\ p.pending = q /\ buffer = Cat(e, q)
    /\ p.hit => /\ \E s \in stops : Occurs(buffer, Len(e) + 1, s)
                /\ \A s \in stops : \A i \in 1 .. Len(e) : ~Occurs(buffer, i, s)
    /\ ~p.hit => /\ Clear(buffer, stops) /\ NoneEarlier(buffer, Len(q), stops)
                 /\ q # << >> => \E s \in stops : IsStrictPrefix(q, s)

LEMMA SplitText ==
  ASSUME NEW buffer \in Text, NEW part \in Text, NEW stops \in SUBSET Text,
         NEW p, p = Split(buffer, SplitAtStop(buffer, stops), part)
  PROVE  p.hit \in BOOLEAN /\ p.partial = part /\ SplitAs(p, buffer, stops)
<1>0. buffer \in Seq(Char) /\ part \in Seq(Char) /\ stops \in SUBSET Seq(Char)
  BY DEF Text
<1> DEFINE scan == SplitAtStop(buffer, stops)
           n == Len(buffer)
           emit == SubSeq(buffer, 1, scan.len)
           end == SubSeq(buffer, scan.len + 1, n)
           k == n - scan.len
<1>1. p.hit = scan.hit /\ p.emit = emit /\ p.pending = end /\ p.partial = part
  BY DEF Split
<1>2. /\ scan.hit \in BOOLEAN /\ scan.len \in 0 .. n
      /\ scan.hit => /\ \E s \in stops : Occurs(buffer, scan.len + 1, s)
                     /\ \A s \in stops : \A i \in 1 .. scan.len : ~Occurs(buffer, i, s)
      /\ ~scan.hit => /\ Clear(buffer, stops)
                      /\ NoneEarlier(buffer, k, stops)
                      /\ scan.len # n => \E s \in stops : Begins(buffer, k, s)
  BY <1>0, SplitFacts
<1> HIDE DEF scan
<1>3. /\ emit \in Seq(Char) /\ Len(emit) = scan.len /\ end \in Seq(Char) /\ Len(end) = k /\ emit \o end = buffer
      /\ \A j \in 1 .. k : end[j] = buffer[scan.len + j]
  BY <1>0, <1>2, CutInTwo
<1>4. n \in Nat /\ k \in Nat /\ n - k = scan.len /\ (k = 0 <=> scan.len = n) /\ (end # << >> => k # 0)
  <2>1. n \in Nat
    BY <1>0, LenProperties
  <2>2. end # << >> => Len(end) # 0
    BY <1>3, EmptySeq
  <2> HIDE DEF n, end
  <2> QED
    BY <1>2, <1>3, <2>1, <2>2
<1> HIDE DEF emit, end, n, k
<1>5. ASSUME ~scan.hit, end # << >> PROVE \E s \in stops : IsStrictPrefix(end, s)
  <2>1. PICK s \in stops : Begins(buffer, k, s)
    BY <1>2, <1>4, <1>5
  <2>2. s \in Seq(Char) /\ k <= Len(s) /\ \A j \in 1 .. k : buffer[n - k + j] = s[j]
    BY <1>0, <2>1 DEF Begins, n
  <2>3. \A j \in 1 .. k : end[j] = s[j]
    <3>1. \A j \in 1 .. k : buffer[scan.len + j] = s[j]
      BY <1>4, <2>2
    <3> QED
      BY <1>3, <3>1
  <2>4. IsPrefix(end, s)
    <3>1. k \in 0 .. Len(end) /\ k \in 0 .. Len(s)
      BY <1>3, <1>4, <2>2, LenProperties
    <3> DEFINE a == SubSeq(end, 1, k)
               b == SubSeq(s, 1, k)
    <3>2. /\ a \in Seq(Char) /\ Len(a) = k /\ \A j \in 1 .. k : a[j] = end[j]
          /\ b \in Seq(Char) /\ Len(b) = k /\ \A j \in 1 .. k : b[j] = s[j]
      BY <1>3, <2>2, <3>1, CutInTwo
    <3> HIDE DEF a, b
    <3>3. a = b
      BY <2>3, <3>2, SeqEqual
    <3> QED
      BY <1>3, <2>2, <3>3 DEF a, b, IsPrefix
  <2>5. end # s
    <3> SUFFICES ASSUME end = s PROVE FALSE
      OBVIOUS
    <3>1. k = Len(s) /\ k \in Nat \ {0}
      BY <1>3, <1>4, <1>5
    <3>2. \A j \in 1 .. k : (scan.len + 1) + j - 1 = scan.len + j
      BY <1>2, <1>4
    <3>3. \A j \in 1 .. Len(s) : buffer[(scan.len + 1) + j - 1] = s[j]
      BY <1>3, <3>1, <3>2
    <3>4. scan.len + 1 \in 1 .. n /\ (scan.len + 1) + k - 1 <= n
      BY <1>2, <1>4, <3>1
    <3>5. Occurs(buffer, scan.len + 1, s)
      BY <1>5, <3>1, <3>3, <3>4 DEF Occurs, n
    <3> QED
      BY <1>2, <1>5, <2>1, <3>4, <3>5 DEF Clear, n
  <2> QED
    BY <2>4, <2>5 DEF IsStrictPrefix
<1>6. emit \in Text /\ end \in Text /\ buffer = Cat(emit, end)
  BY <1>3 DEF Text, Cat
<1>7. ~scan.hit => NoneEarlier(buffer, Len(end), stops)
  BY <1>2, <1>3
<1>8. scan.hit => /\ \E s \in stops : Occurs(buffer, Len(emit) + 1, s)
                  /\ \A s \in stops : \A i \in 1 .. Len(emit) : ~Occurs(buffer, i, s)
  BY <1>2, <1>3
<1> QED
  BY <1>1, <1>2, <1>5, <1>6, <1>7, <1>8 DEF SplitAs

LEMMA CatGrows ==
  ASSUME NEW a \in Text, NEW b \in Text, NEW c \in Text
  PROVE  Grows(Cat(a, b), Cat(a, Cat(b, c)), Cat(b, c), Len(a), Len(b))
<1> DEFINE said == Cat(a, b)
           buffer == Cat(b, c)
           whole == Cat(a, buffer)
           other == Cat(said, c)
<1>1. said \in Text /\ Len(said) = Len(a) + Len(b) /\ Len(a) \in Nat /\ Len(b) \in Nat
  BY CatPlaces, TextFacts
<1>2. buffer \in Text /\ Len(buffer) = Len(b) + Len(c) /\ Len(c) \in Nat
  BY CatPlaces, TextFacts
<1>3. whole = other
  BY TextFacts
<1> HIDE DEF said, buffer, other
<1>4. Len(whole) = Len(a) + Len(buffer) /\ \A j \in 1 .. Len(buffer) : whole[Len(a) + j] = buffer[j]
  BY <1>2, CatPlaces
<1> HIDE DEF whole
<1>5. \A i \in 1 .. Len(said) : whole[i] = said[i]
  BY <1>1, <1>3, CatPlaces DEF other
<1>6. Len(buffer) >= Len(b)
  BY <1>1, <1>2
<1>7. Grows(said, whole, buffer, Len(a), Len(b))
  BY <1>1, <1>4, <1>5, <1>6 DEF Grows
<1> QED
  BY <1>7 DEF said, whole, buffer

LEMMA OccursText ==
  ASSUME NEW said \in Text, NEW whole \in Text, NEW buffer \in Text, NEW from, NEW m,
         Grows(said, whole, buffer, from, m),
         NEW stops \in SUBSET Text, NoStop(said, m, stops)
  PROVE  /\ \A s \in stops : \A i : Occurs(whole, i, s) => i > from /\ Occurs(buffer, i - from, s)
         /\ \A s \in stops : \A i : Occurs(buffer, i, s) => Occurs(whole, from + i, s)
         /\ \A h \in Nat : Clear(buffer, stops) /\ NoneEarlier(buffer, h, stops) => NoStop(whole, h, stops)
BY OccursInBuffer, OccursInWhole, NoStopKept DEF Text

(* What a row that generates has decoded, sent and held back. *)
Decoded(bytes, part, out, pend, stops, done) ==
  /\ bytes = Cat(done, part) /\ Cat(out, pend) = Lossy(done)
  /\ Sealed(done, part) /\ Broken(Lossy(done), part)
  /\ NoStop(Lossy(done), Len(pend), stops)

(* What stream_push and split_at_stop make of the next token, when `bytes` *)
(* are all the bytes so far and `out` is what was sent.                     *)
Tells(p, bytes, out, stops) ==
  /\ p.hit \in BOOLEAN
  /\ \E more, e, q, rest \in Text :
       /\ p.emit = e /\ p.pending = q /\ p.partial = rest
       /\ bytes = Cat(more, rest)
       /\ Cat(Cat(out, e), q) = Lossy(more)
       /\ Sealed(more, rest) /\ Broken(Lossy(more), rest)
       /\ ~p.hit => /\ NoStop(Lossy(more), Len(q), stops)
                    /\ q # << >> => \E s \in stops : IsStrictPrefix(q, s)
       /\ p.hit => /\ Clear(Cat(out, e), stops)
                   /\ \E s \in stops : Occurs(Lossy(more), Len(Cat(out, e)) + 1, s)

LEMMA TokenFacts ==
  ASSUME NEW part \in Text, NEW new \in Text, new # << >>, NEW bytes,
         NEW out \in Text, NEW pend \in Text, NEW stops \in SUBSET Text,
         NEW done \in Text, Decoded(bytes, part, out, pend, stops, done),
         NEW taken, taken = TakeComplete(Cat(part, new)),
         NEW p, p = Split(Cat(pend, taken.text), SplitAtStop(Cat(pend, taken.text), stops), taken.rest)
  PROVE  Tells(p, Cat(bytes, new), out, stops)
<1> SUFFICES /\ p.hit \in BOOLEAN
             /\ \E more, e, q, rest \in Text :
                  /\ p.emit = e /\ p.pending = q /\ p.partial = rest
                  /\ Cat(bytes, new) = Cat(more, rest)
                  /\ Cat(Cat(out, e), q) = Lossy(more)
                  /\ Sealed(more, rest) /\ Broken(Lossy(more), rest)
                  /\ ~p.hit => /\ NoStop(Lossy(more), Len(q), stops)
                               /\ q # << >> => \E s \in stops : IsStrictPrefix(q, s)
                  /\ p.hit => /\ Clear(Cat(out, e), stops)
                              /\ \E s \in stops : Occurs(Lossy(more), Len(Cat(out, e)) + 1, s)
  BY DEF Tells
<1> DEFINE b == Cat(part, new)
<1>1. /\ bytes = Cat(done, part) /\ Cat(out, pend) = Lossy(done) /\ Sealed(done, part)
      /\ NoStop(Lossy(done), Len(pend), stops)
  BY DEF Decoded
<1>2. b \in Text /\ b # << >> /\ (part # << >> => b[1] = part[1])
  <2>1. \A i \in 1 .. Len(part) : b[i] = part[i]
    BY CatPlaces
  <2>2. b \in Text /\ b # << >>
    BY TextFacts
  <2>3. part # << >> => 1 \in 1 .. Len(part)
    BY TextFacts
  <2> QED
    BY <2>1, <2>2, <2>3
<1> HIDE DEF b
<1>3. PICK head \in Text, rest \in Text :
        /\ b = Cat(head, rest) /\ taken.rest = rest /\ taken.text = Lossy(head)
        /\ Sealed(head, rest) /\ Broken(Lossy(head), rest)
  BY <1>2, TakenText DEF b
<1> DEFINE text == Lossy(head)
           buffer == Cat(pend, text)
           more == Cat(done, head)
<1>4. text \in Text /\ buffer \in Text /\ more \in Text /\ Lossy(done) \in Text
  BY TextFacts
<1>5. head # << >> => head[1] = b[1]
  <2>1. \A i \in 1 .. Len(head) : b[i] = head[i]
    BY <1>3, CatPlaces
  <2>2. head # << >> => 1 \in 1 .. Len(head)
    BY TextFacts
  <2> QED
    BY <2>1, <2>2
<1>6. ~Joins(done, head)
  BY <1>1, <1>2, <1>5 DEF Sealed, Joins
<1>7. Lossy(more) = Cat(Lossy(done), text)
  BY <1>6, LossyCat
<1> HIDE DEF text
<1>8. Lossy(more) = Cat(out, buffer)
  <2>1. Cat(Cat(out, pend), text) = Cat(out, buffer)
    BY <1>4, TextFacts
  <2> QED
    BY <1>1, <1>7, <2>1
<1>9. Cat(bytes, new) = Cat(more, rest)
  <2>1. Cat(Cat(done, part), new) = Cat(done, b)
    BY TextFacts DEF b
  <2>2. Cat(done, Cat(head, rest)) = Cat(more, rest)
    BY TextFacts
  <2> QED
    BY <1>1, <1>3, <2>1, <2>2
<1>10. Sealed(more, rest)
  <2>1. CASE head = << >>
    <3>1. more = done /\ rest = b
      BY <1>3, <2>1, TextFacts
    <3> HIDE DEF more
    <3> QED
      BY <1>1, <1>2, <3>1 DEF Sealed
  <2>2. CASE head # << >>
    <3>1. Len(more) = Len(done) + Len(head) /\ \A j \in 1 .. Len(head) : more[Len(done) + j] = head[j]
      BY CatPlaces
    <3>2. Len(head) \in 1 .. Len(head)
      BY <2>2, TextFacts
    <3>3. more[Len(more)] = head[Len(head)]
      BY <3>1, <3>2
    <3> HIDE DEF more
    <3> QED
      BY <1>3, <2>2, <3>3 DEF Sealed
  <2> QED
    BY <2>1, <2>2
<1>11. Broken(Lossy(more), rest)
  <2> SUFFICES ASSUME text # << >>, text[Len(text)] = "?" PROVE Lossy(more) # << >> /\ Lossy(more)[Len(Lossy(more))] = "?"
    BY <1>3 DEF Broken, text
  <2> DEFINE t == Lossy(done)
             w == Cat(t, text)
  <2>1. Len(w) = Len(t) + Len(text) /\ \A j \in 1 .. Len(text) : w[Len(t) + j] = text[j]
    BY <1>4, CatPlaces
  <2>2. Len(text) \in 1 .. Len(text)
    BY <1>4, TextFacts
  <2>3. w[Len(w)] = "?"
    BY <2>1, <2>2
  <2>4. w # << >>
    BY <1>4, TextFacts
  <2> HIDE DEF w
  <2> QED
    BY <1>7, <2>3, <2>4 DEF w
<1>12. p.hit \in BOOLEAN /\ p.partial = rest /\ SplitAs(p, buffer, stops)
  <2>1. p = Split(buffer, SplitAtStop(buffer, stops), rest)
    BY <1>3 DEF text
  <2> HIDE DEF buffer
  <2> QED
    BY <1>4, <2>1, SplitText
<1>13. PICK e, q \in Text :
            /\ p.emit = e /\ p.pending = q /\ buffer = Cat(e, q)
            /\ p.hit => /\ \E s \in stops : Occurs(buffer, Len(e) + 1, s)
                        /\ \A s \in stops : \A i \in 1 .. Len(e) : ~Occurs(buffer, i, s)
            /\ ~p.hit => /\ Clear(buffer, stops) /\ NoneEarlier(buffer, Len(q), stops)
                         /\ q # << >> => \E s \in stops : IsStrictPrefix(q, s)
  BY <1>12 DEF SplitAs
<1>14. Grows(Lossy(done), Lossy(more), buffer, Len(out), Len(pend))
  BY <1>1, <1>4, <1>8, CatGrows
<1>15. Lossy(more) \in Text
  BY <1>4, TextFacts
<1> DEFINE start == Cat(out, e)
<1>16. start \in Text /\ Cat(start, q) = Lossy(more)
  <2> HIDE DEF buffer, more
  <2>1. Cat(start, q) = Cat(out, Cat(e, q)) /\ start \in Text
    BY TextFacts
  <2> QED
    BY <1>8, <1>13, <2>1
<1>17. Len(out) \in Nat /\ Len(e) \in Nat /\ Len(q) \in Nat /\ Len(start) = Len(out) + Len(e)
  BY CatPlaces, TextFacts
<1> HIDE DEF more, buffer, start
<1>18. /\ \A s \in stops : \A i : Occurs(Lossy(more), i, s) => i > Len(out) /\ Occurs(buffer, i - Len(out), s)
       /\ \A s \in stops : \A i : Occurs(buffer, i, s) => Occurs(Lossy(more), Len(out) + i, s)
       /\ \A h \in Nat : Clear(buffer, stops) /\ NoneEarlier(buffer, h, stops) => NoStop(Lossy(more), h, stops)
  BY <1>1, <1>4, <1>14, <1>15, OccursText
<1>19. ~p.hit => NoStop(Lossy(more), Len(q), stops)
  BY <1>13, <1>17, <1>18
<1>20. ASSUME p.hit PROVE Clear(start, stops) /\ \E s \in stops : Occurs(Lossy(more), Len(start) + 1, s)
  <2>1. PICK s \in stops : Occurs(buffer, Len(e) + 1, s)
    BY <1>13, <1>20
  <2>2. Occurs(Lossy(more), Len(out) + (Len(e) + 1), s)
    BY <1>18, <2>1
  <2>3. Len(out) + (Len(e) + 1) = Len(start) + 1
    BY <1>17
  <2>4. Len(start) <= Len(Lossy(more)) /\ \A i \in 1 .. Len(start) : start[i] = Lossy(more)[i]
    <3> DEFINE w == Cat(start, q)
    <3>1. Len(w) = Len(start) + Len(q) /\ \A i \in 1 .. Len(start) : w[i] = start[i]
      BY <1>16, CatPlaces
    <3> HIDE DEF w
    <3>2. Len(start) <= Len(w)
      BY <1>17, <3>1
    <3>3. w = Lossy(more)
      BY <1>16 DEF w
    <3> QED
      BY <3>1, <3>2, <3>3
  <2>5. Clear(start, stops)
    <3> SUFFICES ASSUME NEW z \in stops, NEW i \in 1 .. Len(start), Occurs(start, i, z) PROVE FALSE
      BY DEF Clear
    <3>1. Occurs(Lossy(more), i, z)
      BY <1>15, <1>16, <2>4, ClearStart DEF Text
    <3>2. i > Len(out) /\ Occurs(buffer, i - Len(out), z)
      BY <1>18, <3>1
    <3>3. i - Len(out) \in 1 .. Len(e)
      BY <1>17, <3>2
    <3> QED
      BY <1>13, <1>20, <3>2, <3>3
  <2> QED
    BY <2>1, <2>2, <2>3, <2>5
<1> QED
  BY <1>4, <1>9, <1>10, <1>11, <1>12, <1>13, <1>16, <1>19, <1>20 DEF start

-----------------------------------------------------------------------------
(* The invariant. While a row generates, what it has decoded for good is     *)
(* what it has sent and what it holds back, and no stop string is in it.     *)
Generating ==
  /\ partial \in Text /\ pending \in Text /\ sent \in Text /\ at \in 0 .. Len(reply.bytes)
  /\ \E done \in Text : Decoded(SubSeq(reply.bytes, 1, at), partial, sent, pending, reply.stop, done)
  /\ pending # << >> => \E s \in reply.stop : IsStrictPrefix(pending, s)

ReplyInv ==
  /\ row \in {"idle", "running", "stopped", "length", "ended", "failed", "dead"}
  /\ row = "idle" => at = 0 /\ partial = << >> /\ pending = << >> /\ sent = << >>
  /\ row # "idle" => reply \in Replies
  /\ row = "running" => Generating
  /\ row # "running" => SaysItsText /\ StopsAtStop

(* The text of all the bytes there are: where nothing in it was replaced but *)
(* the last character, nothing or one replacement follows what is decoded.   *)
LEMMA TextEnds ==
  ASSUME NEW done \in Text, NEW part \in Text, Sealed(done, part), Broken(Lossy(done), part),
         NEW said, said = Lossy(Cat(done, part))
  PROVE  /\ said = Cat(Lossy(done), Lossy(part)) /\ said \in Text /\ Lossy(part) \in Text
         /\ ~(\E i \in 1 .. Len(said) - 1 : said[i] = "?") => Lossy(part) = << >> \/ Lossy(part) = << "?" >>
<1> DEFINE t == Lossy(done)
           r == Lossy(part)
<1>1. said = Cat(t, r)
  BY SealedNotJoined, LossyCat
<1>2. t \in Text /\ r \in Text /\ said \in Text
  BY TextFacts, <1>1
<1>3. CASE part = << >>
  <2>1. r = << >>
    BY <1>3, LossyEmpty
  <2> QED
    BY <1>1, <1>2, <2>1
<1>4. CASE part # << >>
  <2>1. Len(r) \in Nat \ {0}
    BY <1>4, LossySome DEF Text
  <2>2. (t # << >> /\ t[Len(t)] = "?") \/ r[1] = "?"
    BY <1>4 DEF Broken
  <2> HIDE DEF t, r
  <2>3. /\ Len(said) = Len(t) + Len(r) /\ Len(t) \in Nat
        /\ \A i \in 1 .. Len(t) : said[i] = t[i]
        /\ \A j \in 1 .. Len(r) : said[Len(t) + j] = r[j]
    <3>1. Len(t) \in Nat
      BY <1>2, TextFacts
    <3>2. /\ Len(Cat(t, r)) = Len(t) + Len(r)
          /\ \A i \in 1 .. Len(t) : Cat(t, r)[i] = t[i]
          /\ \A j \in 1 .. Len(r) : Cat(t, r)[Len(t) + j] = r[j]
      BY <1>2, CatPlaces
    <3> QED
      BY <1>1, <3>1, <3>2
  <2>4. ASSUME ~(\E i \in 1 .. Len(said) - 1 : said[i] = "?") PROVE r = << "?" >>
    <3>1. ~(t # << >> /\ t[Len(t)] = "?")
      <4> SUFFICES ASSUME t # << >>, t[Len(t)] = "?" PROVE FALSE
        OBVIOUS
      <4>1. Len(t) \in 1 .. Len(t)
        BY <1>2, TextFacts
      <4>2. Len(t) \in 1 .. Len(said) - 1 /\ said[Len(t)] = "?"
        BY <2>1, <2>3, <4>1
      <4> QED
        BY <2>4, <4>2
    <3>2. r[1] = "?"
      BY <2>2, <3>1
    <3>3. Len(r) = 1
      <4> SUFFICES ASSUME Len(r) # 1 PROVE FALSE
        OBVIOUS
      <4> DEFINE before == Len(t)
                 after == Len(r)
                 all == Len(said)
      <4>0. all = before + after /\ before \in Nat /\ after \in Nat /\ after >= 2
        <5>1. after \in Nat /\ after # 0 /\ after # 1
          BY <2>1
        <5>2. all = before + after /\ before \in Nat
          BY <2>3
        <5> HIDE DEF before, after, all
        <5>3. after >= 2
          BY <5>1
        <5> QED
          BY <5>1, <5>2, <5>3
      <4> HIDE DEF before, after, all
      <4>1. before + 1 \in 1 .. all - 1 /\ 1 \in 1 .. after
        BY <4>0
      <4> USE DEF before, after, all
      <4>2. said[Len(t) + 1] = "?"
        BY <2>3, <3>2, <4>1
      <4> QED
        BY <2>4, <4>1, <4>2
    <3>4. << "?" >> \in Seq(Char) /\ Len(<< "?" >>) = 1 /\ << "?" >>[1] = "?"
      BY DEF Char
    <3>5. r \in Seq(Char)
      BY <1>2 DEF Text
    <3> QED
      BY <3>2, <3>3, <3>4, <3>5, SeqEqual
  <2> QED
    BY <1>1, <1>2, <2>4 DEF t, r
<1> QED
  BY <1>3, <1>4

LEMMA NoneFound ==
  ASSUME NEW base \in Text, NEW end \in Text, end = << >> \/ end = << "?" >>,
         NEW stops \in SUBSET Text, Clear(base, stops)
  PROVE  Found(Cat(base, end), { s \in stops : ~Contains(s, "?") }) = {}
<1> DEFINE whole == { s \in stops : ~Contains(s, "?") }
<1>1. base \in Seq(Char) /\ end \in Seq(Char) /\ whole \in SUBSET Seq(Char) /\ \A s \in whole : s \in stops /\ ~Contains(s, "?")
  BY DEF Text
<1> HIDE DEF whole
<1>2. Clear(base, whole)
  BY <1>1 DEF Clear
<1>3. Clear(base \o end, whole)
  BY <1>1, <1>2, ClearEnd
<1>4. base \o end = Cat(base, end) /\ Cat(base, end) \in Seq(Char)
  BY TextFacts DEF Cat, Text
<1>5. Clear(Cat(base, end), whole)
  BY <1>3, <1>4
<1>6. Found(Cat(base, end), whole) = {}
  BY <1>1, <1>4, <1>5, FoundFacts
<1> QED
  BY <1>6 DEF whole

LEMMA CutAtStop ==
  ASSUME NEW base \in Text, NEW more \in Text, NEW end \in Text, NEW stops \in SUBSET Text, NEW s \in stops,
         Occurs(Cat(base, more), Len(base) + 1, s),
         NEW said, said = Cat(Cat(base, more), end)
  PROVE  /\ Len(base) + 1 \in Found(said, stops)
         /\ Cat(base, end) = Cat(SubSeq(said, 1, Len(base)), end)
<1> DEFINE start == Cat(base, more)
           n == Len(base)
<1>1. start \in Text /\ said \in Text /\ n \in Nat /\ Len(more) \in Nat /\ Len(end) \in Nat
  BY TextFacts
<1>2. Len(start) = n + Len(more) /\ \A i \in 1 .. n : start[i] = base[i]
  BY CatPlaces
<1> HIDE DEF start
<1>3. Len(said) = Len(start) + Len(end) /\ \A i \in 1 .. Len(start) : said[i] = start[i]
  BY <1>1, CatPlaces DEF start
<1>4. Occurs(start, n + 1, s)
  BY DEF start
<1> HIDE DEF n
<1>5. Occurs(said, n + 1, s)
  <2>1. said \in Seq(Char) /\ start \in Seq(Char) /\ s \in Seq(Char) /\ Len(start) <= Len(said)
    BY <1>1, <1>2, <1>3 DEF Text
  <2>2. \A i \in 1 .. Len(start) : start[i] = said[i]
    BY <1>3
  <2> QED
    BY <1>4, <2>1, <2>2, ClearStart
<1>6. n + 1 \in Found(said, stops)
  <2>1. said \in Seq(Char) /\ stops \in SUBSET Seq(Char)
    BY <1>1 DEF Text
  <2> QED
    BY <1>5, <2>1, FoundFacts
<1>7. SubSeq(said, 1, n) = base
  <2>1. n \in 0 .. Len(said) /\ said \in Seq(Char) /\ base \in Seq(Char)
    BY <1>1, <1>2, <1>3 DEF Text
  <2> DEFINE a == SubSeq(said, 1, n)
  <2>2. a \in Seq(Char) /\ Len(a) = n /\ \A i \in 1 .. n : a[i] = said[i]
    BY <2>1, CutInTwo
  <2> HIDE DEF a
  <2>3. \A i \in 1 .. n : i \in 1 .. Len(start)
    BY <1>1, <1>2
  <2>4. \A i \in 1 .. n : a[i] = base[i]
    BY <1>2, <1>3, <2>2, <2>3
  <2>5. a = base
    BY <2>1, <2>2, <2>4, SeqEqual DEF n
  <2> QED
    BY <2>5 DEF a
<1> QED
  BY <1>6, <1>7 DEF n

LEMMA StopTexts ==
  ASSUME reply \in Replies
  PROVE  reply.bytes \in Text /\ reply.stop \in SUBSET Text
BY ReplyTyped DEF Text

(* While it generates, SaysItsText holds, and StopsAtStop.                  *)
LEMMA GeneratingText ==
  ASSUME Generating, reply \in Replies
  PROVE  /\ sent \o pending \o Lossy(partial) = Said
         /\ pending # << >> => \E s \in reply.stop : IsStrictPrefix(pending, s)
         /\ Found(sent, { s \in reply.stop : ~Contains(s, "?") }) = {}
<1>1. PICK done \in Text : Decoded(SubSeq(reply.bytes, 1, at), partial, sent, pending, reply.stop, done)
  BY DEF Generating
<1>2. /\ SubSeq(reply.bytes, 1, at) = Cat(done, partial) /\ Cat(sent, pending) = Lossy(done)
      /\ Sealed(done, partial) /\ Broken(Lossy(done), partial)
      /\ Clear(Lossy(done), reply.stop)
  BY <1>1 DEF Decoded, NoStop
<1>3. partial \in Text /\ pending \in Text /\ sent \in Text /\ reply.stop \in SUBSET Text
  BY StopTexts DEF Generating
<1>4. Said = Lossy(Cat(done, partial))
  BY <1>2 DEF Said
<1>5. Said = Cat(Lossy(done), Lossy(partial))
  BY <1>2, <1>3, <1>4, TextEnds
<1>6. sent \o pending \o Lossy(partial) = Said
  BY <1>2, <1>5 DEF Cat
<1>7. Clear(sent, reply.stop)
  <2> DEFINE whole == Cat(sent, pending)
  <2>1. whole \in Text /\ Len(whole) = Len(sent) + Len(pending) /\ Len(sent) \in Nat /\ Len(pending) \in Nat
        /\ \A i \in 1 .. Len(sent) : whole[i] = sent[i]
    BY <1>3, TextFacts, CatPlaces
  <2> HIDE DEF whole
  <2>2. Clear(whole, reply.stop)
    BY <1>2 DEF whole
  <2>3. whole \in Seq(Char) /\ sent \in Seq(Char) /\ reply.stop \in SUBSET Seq(Char) /\ Len(sent) <= Len(whole)
        /\ \A i \in 1 .. Len(sent) : sent[i] = whole[i]
    BY <1>3, <2>1 DEF Text
  <2> SUFFICES ASSUME NEW s \in reply.stop, NEW i \in 1 .. Len(sent), Occurs(sent, i, s) PROVE FALSE
    BY DEF Clear
  <2>4. Occurs(whole, i, s)
    BY <2>3, ClearStart
  <2>5. i \in 1 .. Len(whole)
    BY <2>1
  <2> QED
    BY <2>2, <2>4, <2>5 DEF Clear
<1>8. Cat(sent, << >>) = sent /\ << >> \in Text
  BY <1>3, TextFacts
<1>9. Found(Cat(sent, << >>), { s \in reply.stop : ~Contains(s, "?") }) = {}
  BY <1>3, <1>7, <1>8, NoneFound
<1> QED
  BY <1>6, <1>8, <1>9 DEF Generating

-----------------------------------------------------------------------------
(* The steps of the worker. *)
LEMMA TokenStep ==
  ASSUME Generating, reply \in Replies, NEW n \in Nat \ {0}, at + n <= Len(reply.bytes), NEW p, p = Pushed(n)
  PROVE  Tells(p, SubSeq(reply.bytes, 1, at + n), sent, reply.stop)
<1> DEFINE before == SubSeq(reply.bytes, 1, at)
           new == SubSeq(reply.bytes, at + 1, at + n)
           taken == TakeComplete(Cat(partial, new))
<1>1. reply.bytes \in Seq(Char) /\ reply.stop \in SUBSET Text
  BY StopTexts DEF Text
<1>2. /\ partial \in Text /\ pending \in Text /\ sent \in Text /\ at \in 0 .. Len(reply.bytes)
      /\ at \in Nat /\ Len(reply.bytes) \in Nat
  BY <1>1, LenProperties DEF Generating
<1>3. PICK done \in Text : Decoded(before, partial, sent, pending, reply.stop, done)
  BY DEF Generating
<1>4. new \in Text /\ new # << >> /\ Cat(before, new) = SubSeq(reply.bytes, 1, at + n)
  <2>1. at + 1 \in 1 .. Len(reply.bytes) + 1 /\ at + n \in 0 .. Len(reply.bytes) /\ at + 1 <= at + n
    BY <1>2
  <2> DEFINE m == at + 1
             k == at + n
             bytes == reply.bytes
  <2>2. new \in Seq(Char) /\ Len(new) = (at + n) - (at + 1) + 1
    <3>1. bytes \in Seq(Char) /\ m \in 1 .. Len(bytes) + 1 /\ k \in 0 .. Len(bytes) /\ m <= k
      BY <1>1, <2>1
    <3> HIDE DEF m, k, bytes
    <3>2. /\ SubSeq(bytes, m, k) \in Seq(Char)
          /\ Len(SubSeq(bytes, m, k)) = IF m <= k THEN k - m + 1 ELSE 0
      BY <3>1, SliceFacts
    <3>3. Len(SubSeq(bytes, m, k)) = k - m + 1
      BY <3>1, <3>2
    <3> QED
      BY <3>2, <3>3 DEF m, k, bytes
  <2>3. (at + n) - (at + 1) + 1 = n
    BY <1>2
  <2>4. new # << >>
    BY <2>2, <2>3, EmptySeq
  <2>5. 1 \in 1 .. Len(reply.bytes) + 1 /\ at \in 1 - 1 .. Len(reply.bytes) /\ at + n \in at .. Len(reply.bytes)
    BY <1>2
  <2>6. before \o new = SubSeq(reply.bytes, 1, at + n)
    BY <1>1, <2>5, ConcatAdjacentSubSeq
  <2> QED
    BY <2>2, <2>4, <2>6 DEF Text, Cat
<1>5. p = Split(Cat(pending, taken.text), SplitAtStop(Cat(pending, taken.text), reply.stop), taken.rest)
  BY DEF Pushed, Taken, Scanned, Cat
<1> HIDE DEF before, new, taken
<1> DEFINE whole == Cat(before, new)
<1>6. Tells(p, whole, sent, reply.stop)
  <2>1. taken = TakeComplete(Cat(partial, new))
    BY DEF taken
  <2> QED
    BY <1>1, <1>2, <1>3, <1>4, <1>5, <2>1, TokenFacts
<1>7. whole = SubSeq(reply.bytes, 1, at + n)
  BY <1>4
<1> HIDE DEF whole
<1> QED
  BY <1>6, <1>7

LEMMA StopsStep ==
  ASSUME ReplyInv, NEW n \in 1 .. MaxToken, TokenStops(n)
  PROVE  ReplyInv'
<1>1. /\ row = "running" /\ at + n <= Len(reply.bytes) /\ at' = at + n /\ reply' = reply
      /\ row' = "stopped" /\ partial' = << >> /\ pending' = << >> /\ Pushed(n).hit
      /\ sent' = sent \o Pushed(n).emit \o << >> \o Lossy(Pushed(n).partial)
  BY DEF TokenStops, Generates, StopsWith, Finish
<1>2. Generating /\ reply \in Replies /\ n \in Nat \ {0} /\ reply.stop \in SUBSET Text
  BY <1>1, StopTexts, ReplyTexts DEF ReplyInv
<1>3. PICK more, e, q, rest \in Text :
        /\ Pushed(n).emit = e /\ Pushed(n).pending = q /\ Pushed(n).partial = rest
        /\ SubSeq(reply.bytes, 1, at + n) = Cat(more, rest)
        /\ Cat(Cat(sent, e), q) = Lossy(more)
        /\ Sealed(more, rest) /\ Broken(Lossy(more), rest)
        /\ Clear(Cat(sent, e), reply.stop)
        /\ \E s \in reply.stop : Occurs(Lossy(more), Len(Cat(sent, e)) + 1, s)
  BY <1>1, <1>2, TokenStep DEF Tells
<1> DEFINE base == Cat(sent, e)
           end == Lossy(rest)
           said == Lossy(Cat(more, rest))
<1>4. base \in Text /\ end \in Text
  BY <1>2, TextFacts DEF Generating
<1>5. sent' = Cat(base, end)
  <2>1. sent' = Cat(Cat(base, << >>), end)
    BY <1>1, <1>3 DEF Cat
  <2> QED
    BY <1>4, <2>1, TextFacts
<1>6. Said' = said
  BY <1>1, <1>3 DEF Said
<1>7. /\ said = Cat(Cat(base, q), end)
      /\ ~(\E i \in 1 .. Len(said) - 1 : said[i] = "?") => end = << >> \/ end = << "?" >>
  BY <1>3, TextEnds
<1> HIDE DEF base, end, said
<1>8. ASSUME ~Garbled'
      PROVE  /\ Found(sent, { s \in reply.stop : ~Contains(s, "?") })' = {}
             /\ \E cut \in Found(Said, reply.stop)', last \in { << >>, << "?" >> } : sent' = SubSeq(Said', 1, cut - 1) \o last
  <2>1. end = << >> \/ end = << "?" >>
    BY <1>6, <1>7, <1>8 DEF Garbled
  <2>2. Found(Cat(base, end), { s \in reply.stop : ~Contains(s, "?") }) = {}
    BY <1>2, <1>3, <1>4, <2>1, NoneFound DEF base
  <2>3. PICK found \in reply.stop : Occurs(Cat(base, q), Len(base) + 1, found)
    BY <1>3 DEF base
  <2>4. Len(base) + 1 \in Found(said, reply.stop) /\ Cat(base, end) = Cat(SubSeq(said, 1, Len(base)), end)
    <3> DEFINE stops == reply.stop
    <3>1. stops \in SUBSET Text /\ found \in stops
      BY <1>2
    <3>2. q \in Text /\ said = Cat(Cat(base, q), end)
      BY <1>7
    <3> HIDE DEF stops
    <3>3. Len(base) + 1 \in Found(said, stops) /\ Cat(base, end) = Cat(SubSeq(said, 1, Len(base)), end)
      BY ONLY <1>4, <2>3, <3>1, <3>2, CutAtStop
    <3> QED
      BY <3>3 DEF stops
  <2>5. Found(sent, { s \in reply.stop : ~Contains(s, "?") })' = Found(Cat(base, end), { s \in reply.stop : ~Contains(s, "?") })
    BY <1>1, <1>5
  <2>6. Found(Said, reply.stop)' = Found(said, reply.stop)
    BY <1>1, <1>6
  <2> DEFINE cut == Len(base) + 1
  <2>7. cut \in Found(Said, reply.stop)' /\ sent' = SubSeq(Said', 1, cut - 1) \o end
    <3> DEFINE l == Len(base)
    <3>1. l \in Nat
      BY <1>4, TextFacts
    <3>2. cut = l + 1
      OBVIOUS
    <3> HIDE DEF l, cut
    <3>4. cut - 1 = l
      BY <3>1, <3>2
    <3>5. sent' = SubSeq(said, 1, l) \o end
      BY <1>5, <2>4 DEF Cat, l
    <3>6. cut \in Found(said, reply.stop)
      BY <2>4 DEF cut
    <3> QED
      BY <1>6, <2>6, <3>4, <3>5, <3>6
  <2> HIDE DEF cut
  <2> QED
    BY <2>1, <2>2, <2>5, <2>7
<1>9. SaysItsText'
  BY <1>1 DEF SaysItsText
<1>10. StopsAtStop'
  BY <1>1, <1>8 DEF StopsAtStop
<1> QED
  BY <1>1, <1>2, <1>9, <1>10 DEF ReplyInv

LEMMA LastStep ==
  ASSUME ReplyInv, NEW n \in 1 .. MaxToken, TokenIsLast(n)
  PROVE  ReplyInv'
<1>1. /\ row = "running" /\ at + n <= Len(reply.bytes) /\ at' = at + n /\ reply' = reply
      /\ row' = "length" /\ partial' = << >> /\ pending' = << >> /\ ~Pushed(n).hit
      /\ sent' = sent \o Pushed(n).emit \o Pushed(n).pending \o Lossy(Pushed(n).partial)
  BY DEF TokenIsLast, Generates, LastWith, Finish
<1>2. Generating /\ reply \in Replies /\ n \in Nat \ {0} /\ reply.stop \in SUBSET Text
  BY <1>1, StopTexts, ReplyTexts DEF ReplyInv
<1>3. PICK more, e, q, rest \in Text :
        /\ Pushed(n).emit = e /\ Pushed(n).pending = q /\ Pushed(n).partial = rest
        /\ SubSeq(reply.bytes, 1, at + n) = Cat(more, rest)
        /\ Cat(Cat(sent, e), q) = Lossy(more)
        /\ Sealed(more, rest) /\ Broken(Lossy(more), rest)
        /\ NoStop(Lossy(more), Len(q), reply.stop)
  BY <1>1, <1>2, TokenStep DEF Tells
<1> DEFINE base == Lossy(more)
           end == Lossy(rest)
           said == Lossy(Cat(more, rest))
<1>4. base \in Text /\ end \in Text
  BY TextFacts
<1>5. sent' = Cat(base, end)
  BY <1>1, <1>3 DEF Cat
<1>6. Said' = said
  BY <1>1, <1>3 DEF Said
<1>7. /\ said = Cat(base, end)
      /\ ~(\E i \in 1 .. Len(said) - 1 : said[i] = "?") => end = << >> \/ end = << "?" >>
  BY <1>3, TextEnds
<1> HIDE DEF base, end, said
<1>8. ASSUME ~Garbled' PROVE Found(sent, { s \in reply.stop : ~Contains(s, "?") })' = {}
  <2>1. end = << >> \/ end = << "?" >>
    BY <1>6, <1>7, <1>8 DEF Garbled
  <2>2. Clear(base, reply.stop)
    BY <1>3 DEF base, NoStop
  <2>3. Found(Cat(base, end), { s \in reply.stop : ~Contains(s, "?") }) = {}
    BY <1>2, <1>4, <2>1, <2>2, NoneFound
  <2> QED
    BY <1>1, <1>5, <2>3
<1>9. SaysItsText'
  BY <1>1, <1>5, <1>6, <1>7 DEF SaysItsText
<1>10. StopsAtStop'
  BY <1>1, <1>8 DEF StopsAtStop
<1> QED
  BY <1>1, <1>2, <1>9, <1>10 DEF ReplyInv

LEMMA GoesOnStep ==
  ASSUME ReplyInv, NEW n \in 1 .. MaxToken, TokenGoesOn(n)
  PROVE  ReplyInv'
<1>1. /\ row = "running" /\ at + n <= Len(reply.bytes) /\ at' = at + n /\ reply' = reply
      /\ row' = row /\ partial' = Pushed(n).partial /\ pending' = Pushed(n).pending /\ ~Pushed(n).hit
      /\ sent' = sent \o Pushed(n).emit
  BY DEF TokenGoesOn, Generates, GoesOnWith
<1>2. Generating /\ reply \in Replies /\ n \in Nat \ {0}
  BY <1>1, ReplyTexts DEF ReplyInv
<1>3. PICK more, e, q, rest \in Text :
        /\ Pushed(n).emit = e /\ Pushed(n).pending = q /\ Pushed(n).partial = rest
        /\ SubSeq(reply.bytes, 1, at + n) = Cat(more, rest)
        /\ Cat(Cat(sent, e), q) = Lossy(more)
        /\ Sealed(more, rest) /\ Broken(Lossy(more), rest)
        /\ NoStop(Lossy(more), Len(q), reply.stop)
        /\ q # << >> => \E s \in reply.stop : IsStrictPrefix(q, s)
  BY <1>1, <1>2, TokenStep DEF Tells
<1>4. sent' = Cat(sent, e) /\ Cat(sent, e) \in Text /\ pending' = q /\ partial' = rest
  BY <1>1, <1>2, <1>3, TextFacts DEF Cat, Generating
<1>5. Decoded(SubSeq(reply.bytes, 1, at + n), rest, Cat(sent, e), q, reply.stop, more)
  BY <1>3 DEF Decoded
<1>6. Decoded(SubSeq(reply.bytes, 1, at), partial, sent, pending, reply.stop, more)'
  BY <1>1, <1>4, <1>5
<1>7. at' \in 0 .. Len(reply.bytes)
  <2>1. Len(reply.bytes) \in Nat
    BY <1>2, ReplyTyped, LenProperties
  <2>2. at \in 0 .. Len(reply.bytes)
    BY <1>2 DEF Generating
  <2> QED
    BY <1>1, <1>2, <2>1, <2>2
<1>8. Generating'
  BY <1>1, <1>3, <1>4, <1>6, <1>7 DEF Generating
<1> QED
  BY <1>1, <1>2, <1>8 DEF ReplyInv

LEMMA EndsStep ==
  ASSUME ReplyInv, EndsByItself
  PROVE  ReplyInv'
<1>1. /\ row = "running" /\ row' = "ended" /\ reply' = reply /\ at' = at /\ partial' = << >> /\ pending' = << >>
      /\ sent' = sent \o << >> \o pending \o Lossy(partial)
  BY DEF EndsByItself, Finish
<1>2. Generating /\ reply \in Replies /\ reply.stop \in SUBSET Text
  BY <1>1, StopTexts DEF ReplyInv
<1>3. PICK done \in Text : Decoded(SubSeq(reply.bytes, 1, at), partial, sent, pending, reply.stop, done)
  BY <1>2 DEF Generating
<1>4. /\ SubSeq(reply.bytes, 1, at) = Cat(done, partial) /\ Cat(sent, pending) = Lossy(done)
      /\ Sealed(done, partial) /\ Broken(Lossy(done), partial)
      /\ Clear(Lossy(done), reply.stop)
  BY <1>3 DEF Decoded, NoStop
<1> DEFINE base == Lossy(done)
           end == Lossy(partial)
           said == Lossy(Cat(done, partial))
<1>5. base \in Text /\ end \in Text /\ partial \in Text /\ sent \in Text
  BY <1>2, TextFacts DEF Generating
<1>6. sent' = Cat(base, end)
  <2>1. sent' = Cat(Cat(Cat(sent, << >>), pending), end) /\ Cat(sent, << >>) = sent
    BY <1>1, <1>5, TextFacts DEF Cat
  <2> QED
    BY <1>4, <2>1
<1>7. Said' = said
  BY <1>1, <1>4 DEF Said
<1>8. /\ said = Cat(base, end)
      /\ ~(\E i \in 1 .. Len(said) - 1 : said[i] = "?") => end = << >> \/ end = << "?" >>
  BY <1>4, <1>5, TextEnds
<1> HIDE DEF base, end, said
<1>9. ASSUME ~Garbled' PROVE Found(sent, { s \in reply.stop : ~Contains(s, "?") })' = {}
  <2>1. end = << >> \/ end = << "?" >>
    BY <1>7, <1>8, <1>9 DEF Garbled
  <2>2. Clear(base, reply.stop)
    BY <1>4 DEF base
  <2>3. Found(Cat(base, end), { s \in reply.stop : ~Contains(s, "?") }) = {}
    BY <1>2, <1>5, <2>1, <2>2, NoneFound
  <2> QED
    BY <1>1, <1>6, <2>3
<1>10. SaysItsText'
  BY <1>1, <1>6, <1>7, <1>8 DEF SaysItsText
<1>11. StopsAtStop'
  BY <1>1, <1>9 DEF StopsAtStop
<1> QED
  BY <1>1, <1>2, <1>10, <1>11 DEF ReplyInv

LEMMA FailsStep ==
  ASSUME ReplyInv, RowFails
  PROVE  ReplyInv'
<1>1. /\ row = "running" /\ row' = "failed" /\ reply' = reply /\ at' = at /\ partial' = partial
      /\ pending' = pending /\ sent' = sent
  BY DEF RowFails
<1>2. Generating /\ reply \in Replies
  BY <1>1 DEF ReplyInv
<1>3. /\ pending # << >> => \E s \in reply.stop : IsStrictPrefix(pending, s)
      /\ Found(sent, { s \in reply.stop : ~Contains(s, "?") }) = {}
  BY <1>2, GeneratingText
<1>4. SaysItsText'
  BY <1>1 DEF SaysItsText
<1>5. StopsAtStop'
  BY <1>1, <1>3 DEF StopsAtStop
<1> QED
  BY <1>1, <1>2, <1>4, <1>5 DEF ReplyInv

LEMMA DiesStep ==
  ASSUME ReplyInv, WorkerDies
  PROVE  ReplyInv'
<1>1. /\ row = "running" /\ row' = "dead" /\ reply' = reply /\ at' = at /\ partial' = partial
      /\ pending' = pending /\ sent' = sent
  BY DEF WorkerDies
<1>2. Generating /\ reply \in Replies
  BY <1>1 DEF ReplyInv
<1>3. /\ pending # << >> => \E s \in reply.stop : IsStrictPrefix(pending, s)
      /\ sent \o pending \o Lossy(partial) = Said
      /\ Found(sent, { s \in reply.stop : ~Contains(s, "?") }) = {}
  BY <1>2, GeneratingText
<1>4. Said' = Said
  BY <1>1 DEF Said
<1>5. SaysItsText'
  BY <1>1, <1>3, <1>4 DEF SaysItsText
<1>6. StopsAtStop'
  BY <1>1, <1>3 DEF StopsAtStop
<1> QED
  BY <1>1, <1>2, <1>5, <1>6 DEF ReplyInv

LEMMA AskStep ==
  ASSUME ReplyInv, NEW r \in Replies, Ask(r)
  PROVE  ReplyInv'
<1>1. /\ row = "idle" /\ row' = "running" /\ reply' = r /\ at' = at /\ partial' = partial
      /\ pending' = pending /\ sent' = sent
  BY DEF Ask
<1>2. at = 0 /\ partial = << >> /\ pending = << >> /\ sent = << >>
  BY <1>1 DEF ReplyInv
<1>3. r.bytes \in Seq(Char) /\ Len(r.bytes) \in Nat
  BY ReplyTyped, LenProperties
<1>4. SubSeq(r.bytes, 1, 0) = << >> /\ Lossy(<< >>) = << >> /\ Cat(<< >>, << >>) = << >> /\ << >> \in Text /\ Len(<< >>) = 0
  BY SubSeqEmpty, LossyEmpty, TextFacts, EmptySeq
<1>5. Sealed(<< >>, << >>) /\ Broken(<< >>, << >>)
  BY DEF Sealed, Broken
<1>6. NoStop(<< >>, 0, r.stop)
  <2>1. \A i : ~(i \in 1 .. Len(<< >>))
    BY <1>4
  <2> QED
    BY <2>1 DEF NoStop, Clear, NoneEarlier
<1>7. Decoded(<< >>, << >>, << >>, << >>, r.stop, << >>)
  BY <1>4, <1>5, <1>6 DEF Decoded
<1>8. Decoded(SubSeq(reply.bytes, 1, at), partial, sent, pending, reply.stop, << >>)'
  BY <1>1, <1>2, <1>4, <1>7
<1>9. Generating'
  BY <1>1, <1>2, <1>3, <1>4, <1>8 DEF Generating
<1> QED
  BY <1>1, <1>9 DEF ReplyInv

LEMMA HandlerStep ==
  ASSUME ReplyInv, UNCHANGED worker
  PROVE  ReplyInv'
<1>1. /\ reply' = reply /\ at' = at /\ partial' = partial /\ pending' = pending /\ row' = row /\ sent' = sent
  BY DEF worker
<1>2. Said' = Said
  BY <1>1 DEF Said
<1>3. SaysItsText' = SaysItsText
  BY <1>1, <1>2 DEF SaysItsText
<1>4. Garbled' = Garbled
  BY <1>2 DEF Garbled
<1>5. StopsAtStop' = StopsAtStop
  BY <1>1, <1>2, <1>4 DEF StopsAtStop
<1>6. Generating' = Generating
  BY <1>1 DEF Generating
<1> QED
  BY <1>1, <1>3, <1>5, <1>6 DEF ReplyInv

LEMMA ReplyStep == ReplyInv /\ [ReplyNext]_replyvars => ReplyInv'
<1> SUFFICES ASSUME ReplyInv, [ReplyNext]_replyvars PROVE ReplyInv'
  OBVIOUS
<1>1. ASSUME NEW r \in Replies, Ask(r) PROVE ReplyInv'
  BY <1>1, AskStep
<1>2. ASSUME NEW n \in 1 .. MaxToken, TokenStops(n) PROVE ReplyInv'
  BY <1>2, StopsStep
<1>3. ASSUME NEW n \in 1 .. MaxToken, TokenIsLast(n) PROVE ReplyInv'
  BY <1>3, LastStep
<1>4. ASSUME NEW n \in 1 .. MaxToken, TokenGoesOn(n) PROVE ReplyInv'
  BY <1>4, GoesOnStep
<1>5. CASE EndsByItself
  BY <1>5, EndsStep
<1>6. CASE RowFails
  BY <1>6, FailsStep
<1>7. CASE WorkerDies
  BY <1>7, DiesStep
<1>8. CASE StreamText \/ HoldText \/ StreamDone \/ CollectText \/ CollectDone \/ HandlerFailed
  <2>1. UNCHANGED worker
    BY <1>8 DEF StreamText, HoldText, StreamDone, CollectText, CollectDone, HandlerFailed, Receives
  <2> QED
    BY <2>1, HandlerStep
<1>9. CASE StreamClosed \/ CollectClosed
  <2>1. UNCHANGED worker
    BY <1>9 DEF StreamClosed, CollectClosed, Deserted
  <2> QED
    BY <2>1, HandlerStep
<1>10. CASE UNCHANGED replyvars
  <2>1. UNCHANGED worker
    BY <1>10 DEF replyvars
  <2> QED
    BY <2>1, HandlerStep
<1> QED
  BY <1>1, <1>2, <1>3, <1>4, <1>5, <1>6, <1>7, <1>8, <1>9, <1>10 DEF ReplyNext

LEMMA ReplyStart == ReplyInit => ReplyInv
<1> SUFFICES ASSUME ReplyInit PROVE ReplyInv
  OBVIOUS
<1>1. row = "idle" /\ at = 0 /\ partial = << >> /\ pending = << >> /\ sent = << >>
  BY DEF ReplyInit
<1> QED
  BY <1>1 DEF ReplyInv, SaysItsText, StopsAtStop

LEMMA ReplyInvariant == ReplySpec => []ReplyInv
BY ReplyStart, ReplyStep, PTL DEF ReplySpec

(* Whatever the bytes, and however they are cut into tokens: nothing that   *)
(* was said is dropped, doubled or reordered on the way to the channel       *)
(* (stream_push, split_at_stop and finish together).                        *)
THEOREM NothingLost == ReplySpec => []SaysItsText
<1>1. ReplyInv => SaysItsText
  BY GeneratingText DEF ReplyInv, SaysItsText
<1> QED
  BY <1>1, ReplyInvariant, PTL

(* Whatever the stop strings: none is in what was sent, a reply that met one *)
(* was cut where it begins, and text is held back only while it may be the   *)
(* beginning of one.                                                        *)
THEOREM CutWhereItStops == ReplySpec => []StopsAtStop
<1>1. ReplyInv => StopsAtStop
  BY GeneratingText DEF ReplyInv, StopsAtStop
<1> QED
  BY <1>1, ReplyInvariant, PTL

=============================================================================

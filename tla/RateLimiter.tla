---------------------------- MODULE RateLimiter ----------------------------
(***************************************************************************)
(* The fixed-window limiter of crates/server/src/auth.rs, as the middleware *)
(* rate_limit calls it from many handlers at once.                         *)
(*                                                                         *)
(* A call reads the clock before it takes the lock, so another call that   *)
(* read it later may get the lock first. duration_since saturates: against *)
(* a window that started "later" no time has passed.                       *)
(***************************************************************************)
EXTENDS Integers, FiniteSets

CONSTANTS
  Callers,    \* requests that arrive at the middleware
  Keys,       \* bearer tokens and peer addresses
  Bearer,     \* Bearer[c]: the token a request presents, or None
  Peer,       \* Peer[c]: the address it comes from
  Exempt,     \* keys that are never checked
  None,
  Limit,      \* requests per key and window
  Window,     \* ticks in a window
  Second,     \* ticks in a second
  MaxTime     \* bound on the clock

ASSUME LimiterSizes ==
  /\ None \notin Keys /\ None \notin [start : Nat, count : Nat]
  /\ Bearer \in [Callers -> Keys \cup {None}] /\ Peer \in [Callers -> Keys]
  /\ Limit \in Nat /\ Window \in Nat \ {0} /\ Second \in Nat \ {0} /\ MaxTime \in Nat

VARIABLES
  clock,
  windows,    \* RateLimiter::state: per key, when its window started and its count
  call,       \* per request: the time it read, while it waits for the lock
  refused,    \* per caller: None, or the window its last call was refused in, and
              \* until when it was told to wait
  ledger      \* history, per key: requests served, windows opened, start of the first

limiter == << clock, windows, call, refused, ledger >>

LimiterTypeOK ==
  /\ clock \in Nat
  /\ windows \in [Keys -> [start : Nat, count : Nat] \cup {None}]
  /\ call \in [Callers -> Nat \cup {None}]
  /\ refused \in [Callers -> [start : Nat, until : Nat] \cup {None}]
  /\ ledger \in [Keys -> [served : Nat, opened : Nat, first : Nat]]

LimiterInit ==
  /\ clock = 0
  /\ windows = [k \in Keys |-> None]
  /\ call = [c \in Callers |-> None]
  /\ refused = [c \in Callers |-> None]
  /\ ledger = [k \in Keys |-> [served |-> 0, opened |-> 0, first |-> 0]]

(* The caller's key if it has one, else where it comes from. *)
KeyOfCaller(c) == IF Bearer[c] # None THEN Bearer[c] ELSE Peer[c]

Since(now, start) == IF now >= start THEN now - start ELSE 0

Tick ==
  /\ clock < MaxTime
  /\ clock' = clock + 1
  /\ UNCHANGED << windows, call, refused, ledger >>

(* A request reads the clock; an exempt key never gets there. *)
ReadClock(c) ==
  /\ call[c] = None /\ Bearer[c] \notin Exempt
  /\ call' = [call EXCEPT ![c] = clock]
  /\ UNCHANGED << clock, windows, refused, ledger >>

(* Mutant of Expired: a difference that wraps is larger than any window. *)
ExpiredWrapping(w, now) == now < w.start \/ now - w.start >= Window

(* A key has no window yet, or its window is over. *)
Expired(w, now) == Since(now, w.start) >= Window
Renewed(k, now) == windows[k] = None \/ Expired(windows[k], now)

(* The window a call falls in: a new one, or the one that is open. *)
WindowFor(k, now) == IF Renewed(k, now) THEN [start |-> now, count |-> 0] ELSE windows[k]

Record(k, now, served) ==
  ledger' = [ledger EXCEPT ![k] =
    [ served |-> @.served + (IF served THEN 1 ELSE 0),
      opened |-> @.opened + (IF Renewed(k, now) THEN 1 ELSE 0),
      first  |-> IF windows[k] = None THEN now ELSE @.first ]]

(* Mutant of RetryAfter: what has passed, not what is left. *)
RetryAfterElapsed(w, now) == Since(now, w.start) \div Second

(* The Retry-After header: whole seconds, rounded down, and never none. *)
RetryAfter(w, now) ==
  LET left    == IF Since(now, w.start) < Window THEN Window - Since(now, w.start) ELSE 0
      seconds == left \div Second
  IN  IF seconds >= 1 THEN seconds ELSE 1

(* check, under the lock: within the budget... *)
Serve(c) ==
  LET now == call[c]  k == KeyOfCaller(c)  w == WindowFor(k, now)
  IN  /\ call[c] # None /\ w.count < Limit
      /\ windows' = [windows EXCEPT ![k] = [w EXCEPT !.count = @ + 1]]
      /\ refused' = [refused EXCEPT ![c] = None]
      /\ Record(k, now, TRUE)
      /\ call' = [call EXCEPT ![c] = None]
      /\ UNCHANGED clock

(* ... or not. *)
Refuse(c) ==
  LET now == call[c]  k == KeyOfCaller(c)  w == WindowFor(k, now)
  IN  /\ call[c] # None /\ w.count >= Limit
      /\ windows' = [windows EXCEPT ![k] = w]
      /\ refused' = [refused EXCEPT ![c] =
           [start |-> w.start, until |-> clock + RetryAfter(w, now) * Second]]
      /\ Record(k, now, FALSE)
      /\ call' = [call EXCEPT ![c] = None]
      /\ UNCHANGED clock

LimiterNext ==
  \/ Tick
  \/ \E c \in Callers : ReadClock(c) \/ Serve(c) \/ Refuse(c)

LimiterSpec == LimiterInit /\ [][LimiterNext]_limiter

-----------------------------------------------------------------------------
(* However calls race for the lock with times they read earlier, a key is   *)
(* never served more than Limit requests a window, and its windows are a    *)
(* whole Window apart: over any stretch its rate is bounded.                *)
RateBounded ==
  \A k \in Keys : LET l == ledger[k] IN
    /\ l.served <= Limit * l.opened
    /\ (l.opened - 1) * Window <= clock - l.first

(* A client that waits as the header says, and at most the second more that *)
(* rounding took off, finds the window that refused it gone.                *)
RetryIsDue ==
  \A c \in Callers :
    (refused[c] # None /\ clock >= refused[c].until + Second)
    => WindowFor(KeyOfCaller(c), clock).start # refused[c].start

=============================================================================

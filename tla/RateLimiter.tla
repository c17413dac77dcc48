----------------------------- MODULE RateLimiter -----------------------------
(***************************************************************************)
(* The limiter the tunnel server asks before it validates a key: a counter *)
(* in Redis per key prefix and window, here for one prefix.  A call reads  *)
(* the clock for the number of its window, and its INCR and EXPIRE run in  *)
(* Redis some time later, in one transaction.  Nothing bounds how much     *)
(* later: the client has no command timeout, queues commands while it is   *)
(* not connected and sends them again when it is.                          *)
(*                                                                         *)
(* Time is in seconds.  A counter lives for a window and a buffer from its *)
(* latest increment on; MaxTime bounds the run.                            *)
(***************************************************************************)
EXTENDS Naturals, FiniteSets

CONSTANTS
  Attempts,     \* slots for calls of increment() that are in progress
  Window,       \* windowMs, in seconds
  Buffer,       \* seconds added to the TTL
  MaxAttempts,  \* maxRequests of the limiter
  MaxTime,      \* bound: seconds
  MaxCount      \* bound: calls begin only while the counter is below

ASSUME RateLimiterAssumption ==
  /\ Window \in Nat \ {0} /\ Buffer \in Nat /\ MaxAttempts \in Nat
  /\ MaxTime \in Nat /\ MaxCount \in Nat

Windows == 0..(MaxTime \div Window)

VARIABLES
  now,       \* the clock, of the server and of Redis
  counter,   \* Redis: value of the counter of each window
  expiry,    \* Redis: when the counter expires
  incr,      \* per attempt: "idle", or waiting for Redis with a window
  allowed,   \* history: attempts allowed per window
  late       \* history: those of them whose transaction ran after the buffer

rateVars == <<now, counter, expiry, incr, allowed, late>>

Waiting(a) == incr[a].at = "waiting"
NoIncr == [at |-> "idle", window |-> 0]

RateTypeOK ==
  /\ now \in 0..MaxTime
  /\ counter \in [Windows -> Nat] /\ allowed \in [Windows -> Nat]
  /\ late \in [Windows -> Nat]
  /\ expiry \in [Windows -> 0..(MaxTime + Window + Buffer)]
  /\ incr \in [Attempts -> [at : {"idle", "waiting"}, window : Windows]]

RateInit ==
  /\ now = 0
  /\ counter = [w \in Windows |-> 0] /\ allowed = [w \in Windows |-> 0]
  /\ late = [w \in Windows |-> 0]
  /\ expiry = [w \in Windows |-> 0]
  /\ incr = [a \in Attempts |-> NoIncr]

currentWindow == now \div Window

\* No buffer.
TtlWithoutBuffer == Window

\* ttlSeconds: the window, rounded up, and a small buffer.
ttlSeconds == Window + Buffer

\* A counter that has expired is as if it had never been.
Current(w) == IF now < expiry[w] THEN counter[w] ELSE 0

-----------------------------------------------------------------------------
\* increment() reads the clock once, for the name of the counter.
ReadWindow(a) ==
  /\ ~Waiting(a) /\ Current(currentWindow) < MaxCount
  /\ incr' = [incr EXCEPT ![a] = [at |-> "waiting", window |-> currentWindow]]
  /\ UNCHANGED <<now, counter, expiry, allowed, late>>

\* INCR and EXPIRE run together.
RunTransaction(w) ==
  /\ counter' = [counter EXCEPT ![w] = Current(w) + 1]
  /\ expiry' = [expiry EXCEPT ![w] = now + ttlSeconds]

\* A window and the buffer after it are over.
Overdue(w) == now >= (w + 1) * Window + Buffer

\* The answer allows the first MaxAttempts.
Increment(a) ==
  LET w == incr[a].window
      allow == Current(w) + 1 <= MaxAttempts
  IN /\ Waiting(a) /\ RunTransaction(w)
     /\ allowed' = IF allow THEN [allowed EXCEPT ![w] = @ + 1] ELSE allowed
     /\ late' = IF allow /\ Overdue(w) THEN [late EXCEPT ![w] = @ + 1] ELSE late
     /\ incr' = [incr EXCEPT ![a] = NoIncr]
     /\ UNCHANGED now

\* The connection is lost after the transaction: the client sends it again.
AnswerIsLost(a) ==
  /\ Waiting(a) /\ Current(incr[a].window) < MaxCount
  /\ RunTransaction(incr[a].window)
  /\ UNCHANGED <<now, incr, allowed, late>>

\* increment() throws, whether the transaction has run or not, and the attempt
\* is closed with 1011.
IncrementFails(a) ==
  /\ Waiting(a)
  /\ incr' = [incr EXCEPT ![a] = NoIncr]
  /\ UNCHANGED <<now, counter, expiry, allowed, late>>

RateTick ==
  /\ now < MaxTime
  /\ now' = now + 1
  /\ UNCHANGED <<counter, expiry, incr, allowed, late>>

RateNext ==
  \/ RateTick
  \/ \E a \in Attempts : ReadWindow(a) \/ Increment(a) \/ AnswerIsLost(a) \/ IncrementFails(a)

RateSpec == RateInit /\ [][RateNext]_rateVars

-----------------------------------------------------------------------------
\* Of the transactions that Redis runs until the buffer after their window is
\* over, no more than maxRequests are allowed, however many come later than that:
\* the counter outlives them, though it expires on its own and each transaction
\* may come after its window (rate-limiter.ts, the buffer of ttlSeconds).
WindowLimit == \A w \in Windows : allowed[w] <= MaxAttempts + late[w]
=============================================================================

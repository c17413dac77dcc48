--------------------------- MODULE Services_proof ---------------------------
(***************************************************************************)
(* Proofs about the parts around the tunnel server, for all values of      *)
(* their constants: the shutdown, the rate limiter, the MCP server, the    *)
(* subscriptions, the types of credits, gateway and outer proxy, and that  *)
(* MCServices, which runs one of the parts, runs each of them as it is.    *)
(*                                                                         *)
(* Each part has a strengthening of its own: ShutdownInv (shutdown),       *)
(* RateInv (limiter), McpInv (MCP server), FindInv and CurrentInv          *)
(* (subscriptions), RepliesByStage and HeadWithReply (replies).            *)
(***************************************************************************)
EXTENDS MCServices, FiniteSetTheorems, Sums, TLAPS

-----------------------------------------------------------------------------
(* Shutdown                                                                *)

(* Every step of the shutdown keeps every variable in its range.           *)
LEMMA ShutdownTypesStep ==
  ASSUME ShutdownTypeOK, [ShutdownNext]_shutdownVars
  PROVE  ShutdownTypeOK'
<1> USE ShutdownAssumption DEF ShutdownTypeOK, Registered, Count, handlerVars, saveVars, trafficVars
<1>1. ASSUME NEW c \in Clients,
             Accept(c) \/ Register(c) \/ CarryTraffic(c) \/ SocketEnds(c)
      PROVE  ShutdownTypeOK'
  BY <1>1 DEF Accept, Register, CarryTraffic, SocketEnds
<1>2. ASSUME NEW c \in Clients, FinalWrite(c) \/ PeriodicWrite(c)
      PROVE  ShutdownTypeOK'
  BY <1>2 DEF FinalWrite, PeriodicWrite
<1>3. ASSUME NEW c \in Clients, NEW n \in Count, PeriodicWritten(c, n)
      PROVE  ShutdownTypeOK'
  BY <1>3 DEF PeriodicWritten, WriteOpenRow
<1>4. ASSUME NEW s \in Signals, Signal(s) \/ ShutdownWrite(s)
      PROVE  ShutdownTypeOK'
  BY <1>4 DEF Signal, ShutdownWrite, WriteOpenRow
<1>5. ASSUME NEW s \in Signals, CloseAll(s) \/ ServerClosed(s) \/ ForceExit(s)
      PROVE  ShutdownTypeOK'
  BY <1>5 DEF CloseAll, ServerClosed, ForceExit
<1>6. CASE PublicEnds
  BY <1>6 DEF PublicEnds
<1>7. CASE UNCHANGED shutdownVars
  BY <1>7 DEF shutdownVars
<1>8. QED
  BY <1>1, <1>2, <1>3, <1>4, <1>5, <1>6, <1>7 DEF ShutdownNext

(* A tunnel's traffic is in its row, or a write of it has gone wrong.      *)
Saved(c) == row[c] >= Carried(c) \/ c \in failed \cup setBack

(* The close handler never reads more than was counted, and a closed row   *)
(* is that of a tunnel that is gone, with the count its handler read.      *)
ClosedRowIsFinal ==
  \A c \in Clients :
    /\ final[c] <= counted[c]
    /\ c \in rowClosed => client[c] = "gone" /\ row[c] = final[c]

(* What a handler still owes its snapshot: while it syncs, the tunnels it  *)
(* has not written yet; once it closes sockets nothing, and only such a    *)
(* handler closes the server or exits.                                     *)
HandlerOwes ==
  \A s \in Signals :
    /\ handler[s] = "syncing" => \A c \in snapshot[s] \ toWrite[s] : Saved(c)
    /\ handler[s] = "closing" => \A c \in snapshot[s] : Saved(c)
    /\ closer = s => handler[s] = "closing"
    /\ exitedBy = s => handler[s] = "closing"

ShutdownInv == ShutdownTypeOK /\ ClosedRowIsFinal /\ HandlerOwes

(* A step that keeps the handlers and what is saved keeps what is owed.    *)
LEMMA OwesKept ==
  ASSUME HandlerOwes, ShutdownTypeOK,
         UNCHANGED <<handler, snapshot, toWrite, closer, exitedBy>>,
         \A c \in Clients : Saved(c) => Saved(c)'
  PROVE  HandlerOwes'
BY DEF HandlerOwes, ShutdownTypeOK

(* What a tunnel had carried when its socket closed stays saved once it    *)
(* is, whoever writes its row next.                                        *)
LEMMA ShutdownStep ==
  ASSUME ShutdownInv, [ShutdownNext]_shutdownVars
  PROVE  ClosedRowIsFinal' /\ HandlerOwes'
<1> DEFINE Goal == ClosedRowIsFinal' /\ HandlerOwes'
<1>0. ShutdownTypeOK /\ ClosedRowIsFinal /\ HandlerOwes
  BY DEF ShutdownInv
<1>a. /\ counted \in [Clients -> Nat] /\ final \in [Clients -> Nat] /\ row \in [Clients -> Nat]
      /\ client \in [Clients -> {"absent", "accepted", "registered", "closing", "finalizing", "gone"}]
      /\ handler \in [Signals -> {"idle", "syncing", "closing"}]
      /\ toWrite \in [Signals -> SUBSET Clients] /\ snapshot \in [Signals -> SUBSET Clients]
  BY <1>0, ShutdownAssumption DEF ShutdownTypeOK, Count
<1>1. ASSUME NEW c \in Clients, Accept(c) \/ Register(c)
      PROVE  Goal
  <2>1. /\ UNCHANGED <<handlerVars, counted, final, row, rowClosed, failed, setBack, exitedBy>>
        /\ client[c] \in {"absent", "accepted"}
        /\ client'[c] \in {"accepted", "registered"}
        /\ \A d \in Clients \ {c} : client'[d] = client[d]
    BY <1>1, <1>a DEF Accept, Register, trafficVars, saveVars
  <2>2. \A d \in Clients : Saved(d) => Saved(d)'
    BY <2>1, <1>a DEF Saved, Carried
  <2>3. ClosedRowIsFinal'
    BY <1>0, <2>1 DEF ClosedRowIsFinal
  <2>4. QED
    BY <1>0, <2>1, <2>2, <2>3, OwesKept DEF handlerVars
<1>2. ASSUME NEW c \in Clients, CarryTraffic(c), exitedBy = NoSignal
      PROVE  Goal
  <2>1. /\ UNCHANGED <<handlerVars, final, client, row, rowClosed, exitedBy>>
        /\ counted' = [counted EXCEPT ![c] = @ + 1]
        /\ \A s \in Signals : handler[s] = "idle"
    BY <1>2 DEF CarryTraffic, Signalled, saveVars
  <2>2. ClosedRowIsFinal'
    BY <1>0, <1>a, <2>1 DEF ClosedRowIsFinal
  <2>3. HandlerOwes'
    BY <1>0, <2>1 DEF HandlerOwes, handlerVars
  <2>4. QED
    BY <2>2, <2>3
<1>3. ASSUME NEW c \in Clients, SocketEnds(c)
      PROVE  Goal
  <2>1. /\ UNCHANGED <<handlerVars, counted, row, rowClosed, failed, setBack, exitedBy>>
        /\ client[c] # "gone"
        /\ \A d \in Clients \ {c} : client'[d] = client[d] /\ final'[d] = final[d]
        /\ \/ client[c] = "accepted" /\ client'[c] = "gone" /\ final'[c] = final[c]
           \/ /\ client[c] \in {"registered", "closing"}
              /\ client'[c] = "finalizing" /\ final'[c] = counted[c]
    BY <1>3, <1>a DEF SocketEnds, saveVars
  <2>2. ClosedRowIsFinal'
    BY <1>0, <1>a, <2>1 DEF ClosedRowIsFinal
  <2>3. \A d \in Clients : Saved(d) => Saved(d)'
    BY <1>0, <1>a, <2>1 DEF Saved, Carried, ClosedRowIsFinal
  <2>4. QED
    BY <1>0, <2>1, <2>2, <2>3, OwesKept DEF handlerVars
<1>4. ASSUME NEW c \in Clients, FinalWrite(c)
      PROVE  Goal
  <2>1. /\ UNCHANGED <<handlerVars, counted, final, failed, setBack, exitedBy>>
        /\ client[c] = "finalizing" /\ client'[c] = "gone"
        /\ \A d \in Clients \ {c} : client'[d] = client[d] /\ row'[d] = row[d]
        /\ \/ row'[c] = final[c] /\ rowClosed' = rowClosed \cup {c}
           \/ row'[c] = row[c] /\ rowClosed' = rowClosed
    BY <1>4, <1>a DEF FinalWrite, trafficVars
  <2>2. ClosedRowIsFinal'
    BY <1>0, <1>a, <2>1 DEF ClosedRowIsFinal
  <2>3. \A d \in Clients : Saved(d) => Saved(d)'
    BY <1>a, <2>1 DEF Saved, Carried
  <2>4. QED
    BY <1>0, <2>1, <2>2, <2>3, OwesKept DEF handlerVars
<1>5. ASSUME NEW c \in Clients, PeriodicWrite(c)
      PROVE  Goal
  <2>1. UNCHANGED <<handlerVars, client, counted, final, row, rowClosed, failed, setBack, exitedBy>>
    BY <1>5 DEF PeriodicWrite, saveVars
  <2>2. QED
    BY <1>0, <2>1, OwesKept DEF ClosedRowIsFinal, Saved, Carried, handlerVars
<1>6. ASSUME NEW c \in Clients, NEW n \in Count, PeriodicWritten(c, n)
      PROVE  Goal
  <2>1. /\ UNCHANGED <<handlerVars, client, counted, final, rowClosed, failed, exitedBy>>
        /\ \A d \in Clients \ {c} : row'[d] = row[d]
        /\ c \in rowClosed => row'[c] = row[c]
        /\ row'[c] \in Nat /\ setBack \subseteq setBack'
        /\ row'[c] < row[c] => c \in setBack'
    <3>1. n \in Nat
      BY ShutdownAssumption DEF Count
    <3>2. QED
      BY <1>6, <1>a, <3>1 DEF PeriodicWritten, WriteOpenRow
  <2>2. ClosedRowIsFinal'
    BY <1>0, <2>1 DEF ClosedRowIsFinal
  <2>3. \A d \in Clients : Saved(d) => Saved(d)'
    BY <1>a, <2>1 DEF Saved, Carried
  <2>4. QED
    BY <1>0, <2>1, <2>2, <2>3, OwesKept DEF handlerVars
<1>7. ASSUME NEW s \in Signals, Signal(s), exitedBy = NoSignal
      PROVE  Goal
  <2>1. /\ UNCHANGED <<closer, client, counted, final, row, rowClosed, failed, setBack, exitedBy>>
        /\ handler[s] = "idle" /\ handler' = [handler EXCEPT ![s] = "syncing"]
        /\ snapshot'[s] = toWrite'[s]
        /\ \A z \in Signals \ {s} : snapshot'[z] = snapshot[z] /\ toWrite'[z] = toWrite[z]
    BY <1>7, <1>a DEF Signal, trafficVars, saveVars
  <2>2. ClosedRowIsFinal'
    BY <1>0, <2>1 DEF ClosedRowIsFinal
  <2>3. \A d \in Clients : Saved(d)' <=> Saved(d)
    BY <2>1 DEF Saved, Carried
  <2>4. HandlerOwes'
    BY <1>0, <1>a, <2>1, <2>3 DEF HandlerOwes
  <2>5. QED
    BY <2>2, <2>4
<1>8. ASSUME NEW s \in Signals, ShutdownWrite(s)
      PROVE  Goal
  <2>1. PICK c \in toWrite[s] :
          /\ toWrite' = [toWrite EXCEPT ![s] = @ \ {c}]
          /\ \/ WriteOpenRow(c, counted[c]) /\ UNCHANGED failed
             \/ failed' = failed \cup {c} /\ UNCHANGED row
    BY <1>8 DEF ShutdownWrite
  <2>2. /\ UNCHANGED <<handler, snapshot, closer, client, counted, final, rowClosed, setBack, exitedBy>>
        /\ c \in Clients
    BY <1>8, <1>a DEF ShutdownWrite, trafficVars
  <2>3. /\ \A d \in Clients \ {c} : row'[d] = row[d]
        /\ c \in rowClosed => row'[c] = row[c]
        /\ failed \subseteq failed'
        /\ c \in failed' \/ c \in rowClosed \/ row'[c] = counted[c]
    BY <1>a, <2>1, <2>2 DEF WriteOpenRow
  <2>4. ClosedRowIsFinal'
    BY <1>0, <2>2, <2>3 DEF ClosedRowIsFinal
  <2>5. Saved(c)'
    BY <1>0, <1>a, <2>2, <2>3 DEF Saved, Carried, ClosedRowIsFinal
  <2>6. \A d \in Clients : Saved(d) => Saved(d)'
    BY <2>2, <2>3, <2>5 DEF Saved, Carried
  <2>7. HandlerOwes'
    BY <1>0, <1>a, <2>1, <2>2, <2>5, <2>6 DEF HandlerOwes
  <2>8. QED
    BY <2>4, <2>7
<1>9. ASSUME NEW s \in Signals, CloseAll(s), exitedBy = NoSignal
      PROVE  Goal
  <2>1. /\ UNCHANGED <<snapshot, toWrite, counted, final, row, rowClosed, failed, setBack, exitedBy>>
        /\ toWrite[s] = {} /\ handler[s] = "syncing"
        /\ handler' = [handler EXCEPT ![s] = "closing"]
        /\ closer' \in {closer, s}
        /\ \A d \in Clients : client'[d] # client[d] =>
             client[d] = "registered" /\ client'[d] = "closing"
    BY <1>9 DEF CloseAll, SyncIsDone, trafficVars, saveVars
  <2>2. ClosedRowIsFinal'
    BY <1>0, <2>1 DEF ClosedRowIsFinal
  <2>3. \A d \in Clients : Saved(d) => Saved(d)'
    BY <2>1 DEF Saved, Carried
  <2>4. HandlerOwes'
    BY <1>0, <1>a, <1>9, <2>1, <2>3, ShutdownAssumption DEF HandlerOwes
  <2>5. QED
    BY <2>2, <2>4
<1>10. ASSUME NEW s \in Signals, ServerClosed(s) \/ ForceExit(s), exitedBy = NoSignal
       PROVE  Goal
  <2>1. /\ UNCHANGED <<handlerVars, client, counted, final, row, rowClosed, failed, setBack>>
        /\ exitedBy' = s /\ (closer = s \/ handler[s] = "closing")
    BY <1>10 DEF ServerClosed, ForceExit, trafficVars, saveVars
  <2>2. \A d \in Clients : Saved(d)' <=> Saved(d)
    BY <2>1 DEF Saved, Carried
  <2>3. QED
    BY <1>0, <1>a, <2>1, <2>2 DEF HandlerOwes, ClosedRowIsFinal, handlerVars
<1>11. ASSUME PublicEnds \/ UNCHANGED shutdownVars
       PROVE  Goal
  <2>1. UNCHANGED <<handlerVars, client, counted, final, row, rowClosed, failed, setBack, exitedBy>>
    BY <1>11 DEF PublicEnds, shutdownVars, trafficVars, saveVars
  <2>2. QED
    BY <1>0, <2>1, OwesKept DEF ClosedRowIsFinal, Saved, Carried, handlerVars
<1>12. QED
  BY <1>1, <1>2, <1>3, <1>4, <1>5, <1>6, <1>7, <1>8, <1>9, <1>10, <1>11 DEF ShutdownNext

(* The strengthening holds in every state of the shutdown.                 *)
LEMMA ShutdownInvariant == ShutdownSpec => []ShutdownInv
<1>1. ShutdownInit => ShutdownInv
  <2> SUFFICES ASSUME ShutdownInit PROVE ShutdownInv
    OBVIOUS
  <2>1. ShutdownTypeOK
    BY ShutdownAssumption DEF ShutdownInit, ShutdownTypeOK, Count
  <2>2. ClosedRowIsFinal /\ HandlerOwes
    BY ShutdownAssumption DEF ShutdownInit, ClosedRowIsFinal, HandlerOwes
  <2>3. QED
    BY <2>1, <2>2 DEF ShutdownInv
<1>2. ShutdownInv /\ [ShutdownNext]_shutdownVars => ShutdownInv'
  BY ShutdownTypesStep, ShutdownStep DEF ShutdownInv
<1>3. QED
  BY <1>1, <1>2, PTL DEF ShutdownSpec

(* When the process exits, what the tunnels of the exiting handler's       *)
(* snapshot, those being finalized among them, had carried when it came    *)
(* and until their sockets closed is in their rows, unless a write of the  *)
(* sync failed or a periodic write came after it, however many signals     *)
(* came and whichever handler exits.                                       *)
THEOREM SnapshotAlwaysSaved == ShutdownSpec => []SnapshotIsSaved
<1>1. ShutdownInv => SnapshotIsSaved
  BY DEF ShutdownInv, HandlerOwes, SnapshotIsSaved, Saved
<1>2. QED
  BY <1>1, ShutdownInvariant, PTL

-----------------------------------------------------------------------------
(* Rate limiting                                                           *)

(* The window a time is in begins at or before it and ends after it.       *)
LEMMA WindowOf ==
  ASSUME NEW t \in Nat
  PROVE  /\ t \div Window \in Nat
         /\ (t \div Window) * Window <= t
         /\ t < (t \div Window) * Window + Window
BY RateLimiterAssumption

(* Every time of the run is in one of the windows.                         *)
LEMMA WindowsCover ==
  ASSUME NEW t \in 0..MaxTime
  PROVE  t \div Window \in Windows
<1> DEFINE q == t \div Window
           m == MaxTime \div Window
<1>1. /\ q \in Nat /\ q * Window <= t
      /\ m \in Nat /\ MaxTime < m * Window + Window
  BY WindowOf, RateLimiterAssumption
<1>2. q * Window < (m + 1) * Window
  BY <1>1, RateLimiterAssumption
<1> HIDE DEF q, m
<1>3. q < m + 1
  BY <1>1, <1>2, RateLimiterAssumption
<1>4. q \in 0..m
  BY <1>1, <1>3
<1>5. QED
  BY <1>4 DEF q, m, Windows

(* An attempt under way has read the number of a window that has begun, so *)
(* a counter, once it counts, lives until its window and the buffer after  *)
(* it are over.                                                            *)
CounterOutlives ==
  /\ \A a \in Attempts : Waiting(a) => incr[a].window * Window <= now
  /\ \A w \in Windows : counter[w] > 0 => expiry[w] >= (w + 1) * Window + Buffer

(* Until then a window has allowed no more attempts than its counter       *)
(* shows, and afterwards every attempt it allows is a late one.            *)
AllowedIsCounted ==
  \A w \in Windows :
    /\ allowed[w] <= MaxAttempts + late[w]
    /\ ~Overdue(w) => allowed[w] <= counter[w] /\ late[w] = 0

RateInv == RateTypeOK /\ CounterOutlives /\ AllowedIsCounted

(* The counters and the attempts of the limiter keep their ranges.         *)
LEMMA RateTypesStep ==
  ASSUME RateTypeOK, [RateNext]_rateVars
  PROVE  RateTypeOK'
<1> USE RateLimiterAssumption DEF RateTypeOK
<1>0. 0 \in Windows
  BY WindowsCover, WindowOf DEF Windows
<1>1. NoIncr \in [at : {"idle", "waiting"}, window : Windows]
  BY <1>0 DEF NoIncr
<1>a. ASSUME NEW w \in Windows, RunTransaction(w)
      PROVE  /\ counter' \in [Windows -> Nat]
             /\ expiry' \in [Windows -> 0..(MaxTime + Window + Buffer)]
  <2>1. Current(w) + 1 \in Nat
    BY DEF Current
  <2>2. now + ttlSeconds \in 0..(MaxTime + Window + Buffer)
    BY DEF ttlSeconds
  <2>3. QED
    BY <1>a, <2>1, <2>2 DEF RunTransaction
<1>2. CASE RateTick
  BY <1>2 DEF RateTick
<1>3. ASSUME NEW a \in Attempts, ReadWindow(a)
      PROVE  RateTypeOK'
  <2>1. currentWindow \in Windows
    BY WindowsCover DEF currentWindow
  <2>2. [at |-> "waiting", window |-> currentWindow]
          \in [at : {"idle", "waiting"}, window : Windows]
    BY <2>1
  <2>3. QED
    BY <1>3, <2>2 DEF ReadWindow
<1>4. ASSUME NEW a \in Attempts, Increment(a)
      PROVE  RateTypeOK'
  <2>1. incr[a].window \in Windows
    OBVIOUS
  <2>2. allowed' \in [Windows -> Nat] /\ late' \in [Windows -> Nat]
    BY <1>4, <2>1 DEF Increment
  <2>3. QED
    BY <1>1, <1>4, <1>a, <2>1, <2>2 DEF Increment
<1>5. ASSUME NEW a \in Attempts, AnswerIsLost(a)
      PROVE  RateTypeOK'
  <2>1. incr[a].window \in Windows
    OBVIOUS
  <2>2. QED
    BY <1>5, <1>a, <2>1 DEF AnswerIsLost
<1>6. ASSUME NEW a \in Attempts, IncrementFails(a)
      PROVE  RateTypeOK'
  BY <1>1, <1>6 DEF IncrementFails
<1>7. CASE UNCHANGED rateVars
  BY <1>7 DEF rateVars
<1>8. QED
  BY <1>2, <1>3, <1>4, <1>5, <1>6, <1>7 DEF RateNext

(* At first no window counts anything and no attempt is under way.         *)
LEMMA RateTypesInit == RateInit => RateTypeOK
<1> USE RateLimiterAssumption
<1>1. 0 \in Windows
  BY WindowsCover, WindowOf DEF Windows
<1>2. NoIncr \in [at : {"idle", "waiting"}, window : Windows]
  BY <1>1 DEF NoIncr
<1>3. QED
  BY <1>2 DEF RateInit, RateTypeOK

(* A transaction finds the counter as it was, until its window and the     *)
(* buffer are over, and leaves it one higher and alive until then.         *)
LEMMA TransactionCounts ==
  ASSUME RateInv, NEW w \in Windows, w * Window <= now, RunTransaction(w)
  PROVE  /\ ~Overdue(w) => Current(w) = counter[w] /\ counter'[w] = counter[w] + 1
         /\ expiry'[w] >= (w + 1) * Window + Buffer
         /\ \A v \in Windows \ {w} : counter'[v] = counter[v] /\ expiry'[v] = expiry[v]
<1> USE RateLimiterAssumption
<1>1. /\ counter \in [Windows -> Nat] /\ expiry \in [Windows -> Nat] /\ now \in Nat
      /\ counter[w] > 0 => expiry[w] >= (w + 1) * Window + Buffer
  BY DEF RateInv, RateTypeOK, CounterOutlives
<1>2. w \in Nat /\ w * Window \in Nat /\ (w + 1) * Window = w * Window + Window
  BY WindowOf DEF Windows
<1>3. ~Overdue(w) => Current(w) = counter[w]
  BY <1>1, <1>2 DEF Overdue, Current
<1>4. QED
  BY <1>1, <1>2, <1>3 DEF RunTransaction, ttlSeconds

(* However late a transaction is, it counts in the window it was read for, *)
(* and is a late one where the counter may have expired.                   *)
LEMMA RateInvStep ==
  ASSUME RateInv, [RateNext]_rateVars
  PROVE  CounterOutlives' /\ AllowedIsCounted'
<1> DEFINE Goal == CounterOutlives' /\ AllowedIsCounted'
<1> USE RateLimiterAssumption
<1>0. RateTypeOK /\ CounterOutlives /\ AllowedIsCounted
  BY DEF RateInv
<1>a. /\ now \in Nat /\ counter \in [Windows -> Nat] /\ allowed \in [Windows -> Nat]
      /\ late \in [Windows -> Nat]
      /\ incr \in [Attempts -> [at : {"idle", "waiting"}, window : Windows]]
  BY <1>0 DEF RateTypeOK
<1>b. \A w \in Windows : w \in Nat /\ w * Window \in Nat /\ (w + 1) * Window \in Nat
  BY WindowOf DEF Windows
<1>1. ASSUME RateTick PROVE Goal
  <2>1. /\ now' = now + 1
        /\ UNCHANGED <<counter, expiry, incr, allowed, late>>
    BY <1>1 DEF RateTick
  <2>2. \A w \in Windows : ~Overdue(w)' => ~Overdue(w)
    BY <1>a, <1>b, <2>1 DEF Overdue
  <2>3. \A a \in Attempts : incr[a].window * Window \in Nat
    BY <1>a, <1>b
  <2>4. QED
    BY <1>0, <1>a, <2>1, <2>2, <2>3 DEF CounterOutlives, AllowedIsCounted, Waiting
<1>2. ASSUME NEW a \in Attempts, ReadWindow(a) PROVE Goal
  <2>1. /\ UNCHANGED <<now, counter, expiry, allowed, late>>
        /\ incr' = [incr EXCEPT ![a] = [at |-> "waiting", window |-> currentWindow]]
    BY <1>2 DEF ReadWindow
  <2>2. currentWindow * Window <= now
    BY <1>a, WindowOf DEF currentWindow
  <2> HIDE DEF Goal
  <2>3. \A b \in Attempts : Waiting(b)' => incr'[b].window * Window <= now'
    BY <1>0, <1>a, <2>1, <2>2 DEF CounterOutlives, Waiting
  <2>4. AllowedIsCounted'
    BY <1>0, <2>1 DEF AllowedIsCounted, Overdue
  <2>5. QED
    BY <1>0, <2>1, <2>3, <2>4 DEF CounterOutlives, Goal
<1>3. ASSUME NEW a \in Attempts, Increment(a) PROVE Goal
  <2> DEFINE w == incr[a].window
             allow == Current(w) + 1 <= MaxAttempts
  <2>1. /\ w \in Windows /\ w * Window <= now /\ RunTransaction(w)
        /\ allowed' = IF allow THEN [allowed EXCEPT ![w] = @ + 1] ELSE allowed
        /\ late' = IF allow /\ Overdue(w) THEN [late EXCEPT ![w] = @ + 1] ELSE late
        /\ incr' = [incr EXCEPT ![a] = NoIncr] /\ now' = now
    BY <1>0, <1>3, <1>a DEF Increment, CounterOutlives
  <2>2. /\ ~Overdue(w) => Current(w) = counter[w] /\ counter'[w] = counter[w] + 1
        /\ expiry'[w] >= (w + 1) * Window + Buffer
        /\ \A v \in Windows \ {w} : counter'[v] = counter[v] /\ expiry'[v] = expiry[v]
    BY <2>1, TransactionCounts
  <2> HIDE DEF w
  <2>3. ASSUME NEW v \in Windows
        PROVE  /\ allowed'[v] <= MaxAttempts + late'[v]
               /\ ~Overdue(v)' => allowed'[v] <= counter'[v] /\ late'[v] = 0
    <3>1. Overdue(v)' <=> Overdue(v)
      BY <2>1 DEF Overdue
    <3>2. CASE v # w
      BY <1>0, <1>a, <2>1, <2>2, <3>1, <3>2 DEF AllowedIsCounted
    <3>3. CASE v = w /\ ~Overdue(w)
      <4>1. allowed[w] <= counter[w] /\ late[w] = 0 /\ allowed[w] <= MaxAttempts + late[w]
        BY <1>0, <2>1, <3>3 DEF AllowedIsCounted
      <4>2. /\ late' = late /\ counter'[w] = counter[w] + 1
            /\ allow <=> counter[w] + 1 <= MaxAttempts
        BY <2>1, <2>2, <3>3
      <4>3. allowed'[w] = IF allow THEN allowed[w] + 1 ELSE allowed[w]
        BY <1>a, <2>1
      <4> HIDE DEF allow
      <4>4. QED
        BY <1>a, <2>1, <3>1, <3>3, <4>1, <4>2, <4>3
    <3>4. CASE v = w /\ Overdue(w)
      <4>1. /\ allowed'[w] = IF allow THEN allowed[w] + 1 ELSE allowed[w]
            /\ late'[w] = IF allow THEN late[w] + 1 ELSE late[w]
        BY <1>a, <2>1, <3>4
      <4> HIDE DEF allow
      <4>2. QED
        BY <1>0, <1>a, <2>1, <3>1, <3>4, <4>1 DEF AllowedIsCounted
    <3>5. QED
      BY <3>2, <3>3, <3>4
  <2>4. \A v \in Windows : counter'[v] > 0 => expiry'[v] >= (v + 1) * Window + Buffer
    BY <1>0, <2>2 DEF CounterOutlives
  <2>5. \A b \in Attempts : Waiting(b)' => incr'[b].window * Window <= now'
    BY <1>0, <1>a, <2>1 DEF CounterOutlives, Waiting, NoIncr
  <2>6. QED
    BY <2>3, <2>4, <2>5 DEF CounterOutlives, AllowedIsCounted
<1>4. ASSUME NEW a \in Attempts, AnswerIsLost(a) PROVE Goal
  <2> DEFINE w == incr[a].window
  <2>1. /\ w \in Windows /\ w * Window <= now /\ RunTransaction(w)
        /\ UNCHANGED <<now, incr, allowed, late>>
    BY <1>0, <1>4, <1>a DEF AnswerIsLost, CounterOutlives
  <2>2. /\ ~Overdue(w) => counter'[w] = counter[w] + 1
        /\ expiry'[w] >= (w + 1) * Window + Buffer
        /\ \A v \in Windows \ {w} : counter'[v] = counter[v] /\ expiry'[v] = expiry[v]
    BY <2>1, TransactionCounts
  <2> HIDE DEF w
  <2>3. \A v \in Windows : ~Overdue(v) => counter[v] <= counter'[v]
    BY <1>a, <2>1, <2>2
  <2>4. AllowedIsCounted'
    <3> SUFFICES ASSUME NEW v \in Windows
                 PROVE  /\ allowed'[v] <= MaxAttempts + late'[v]
                        /\ ~Overdue(v)' => allowed'[v] <= counter'[v] /\ late'[v] = 0
      BY DEF AllowedIsCounted
    <3>1. (Overdue(v)' <=> Overdue(v)) /\ (~Overdue(v) => counter'[v] \in Nat)
      BY <1>a, <2>1, <2>2 DEF Overdue
    <3>2. QED
      BY <1>0, <1>a, <2>1, <2>3, <3>1 DEF AllowedIsCounted
  <2>5. CounterOutlives'
    BY <1>0, <2>1, <2>2 DEF CounterOutlives, Waiting
  <2>6. QED
    BY <2>4, <2>5
<1>5. ASSUME NEW a \in Attempts, IncrementFails(a) PROVE Goal
  <2>1. /\ UNCHANGED <<now, counter, expiry, allowed, late>>
        /\ incr' = [incr EXCEPT ![a] = NoIncr]
    BY <1>5 DEF IncrementFails
  <2>2. \A b \in Attempts : Waiting(b)' => incr'[b].window * Window <= now'
    BY <1>0, <1>a, <2>1 DEF CounterOutlives, Waiting, NoIncr
  <2>3. QED
    BY <1>0, <2>1, <2>2 DEF CounterOutlives, AllowedIsCounted, Overdue
<1>6. ASSUME UNCHANGED rateVars PROVE Goal
  BY <1>0, <1>6 DEF rateVars, CounterOutlives, AllowedIsCounted, Waiting, Overdue
<1>7. QED
  BY <1>1, <1>2, <1>3, <1>4, <1>5, <1>6 DEF RateNext

(* Of the transactions that Redis runs until the buffer after their window *)
(* is over, a window allows no more than maxRequests, though nothing       *)
(* bounds how late the others come and they start the count again.         *)
THEOREM WindowLimitHolds == RateSpec => []WindowLimit
<1>1. RateInit => RateInv
  <2> SUFFICES ASSUME RateInit PROVE RateInv
    OBVIOUS
  <2> USE RateLimiterAssumption
  <2>1. RateTypeOK
    BY RateTypesInit
  <2>2. CounterOutlives /\ AllowedIsCounted
    BY DEF RateInit, CounterOutlives, AllowedIsCounted, Waiting, NoIncr
  <2>3. QED
    BY <2>1, <2>2 DEF RateInv
<1>2. RateInv /\ [RateNext]_rateVars => RateInv'
  BY RateTypesStep, RateInvStep DEF RateInv
<1>3. RateInv => WindowLimit
  BY DEF RateInv, AllowedIsCounted, WindowLimit
<1>4. QED
  BY <1>1, <1>2, <1>3, PTL DEF RateSpec

-----------------------------------------------------------------------------
(* MCP server                                                              *)

(* disconnect() leaves every socket in one of its states.                  *)
LEMMA ClosingTypes ==
  ASSUME NEW sock \in [Calls -> {"none", "connecting", "open", "closing", "aborted", "closed"}],
         NEW agents
  PROVE  Closing(sock, agents)
           \in [Calls -> {"none", "connecting", "open", "closing", "aborted", "closed"}]
BY DEF Closing

(* Every step of the MCP server keeps every variable in its range.         *)
LEMMA McpTypesStep ==
  ASSUME McpTypeOK, [McpNext]_mcpVars
  PROVE  McpTypeOK'
<1> USE McpAssumption DEF McpTypeOK, Entries
<1>1. ASSUME NEW c \in Calls, ConnectReturnsActive(c)
      PROVE  McpTypeOK'
  BY <1>1 DEF ConnectReturnsActive, mapVars, sdkVars
<1>2. ASSUME NEW c \in Calls, ConnectShares(c)
      PROVE  McpTypeOK'
  BY <1>2, ClosingTypes DEF ConnectShares, Disconnect, Pruned
<1>3. ASSUME NEW c \in Calls, ConnectStarts(c)
      PROVE  McpTypeOK'
  BY <1>3, ClosingTypes DEF ConnectStarts, Pruned
<1>4. ASSUME NEW a \in Calls, Resolve(a), served' \subseteq Calls
      PROVE  McpTypeOK'
  <2>1. inFlight' \in Entries /\ active' \in Entries /\ probe' \in Entries
    BY <1>4 DEF Resolve, KeepOther
  <2>2. /\ promise' \in [Calls -> {"none", "pending", "resolved", "rejected"}]
        /\ call' \in [Calls -> {"new", "waiting", "own", "returned"}]
    BY <1>4 DEF Resolve
  <2>3. /\ attached' \subseteq Calls
        /\ socket' \in [Calls -> {"none", "connecting", "open", "closing", "aborted", "closed"}]
    BY <1>4, ClosingTypes DEF Resolve, Disconnect
  <2>4. QED
    BY <1>4, <2>1, <2>2, <2>3 DEF Resolve
<1>5. ASSUME NEW a \in Calls,
             NEW sock \in [Calls -> {"none", "connecting", "open", "closing", "aborted", "closed"}],
             Reject(a, sock, attached), served' \subseteq Calls
      PROVE  McpTypeOK'
  <2> DEFINE W == Waiters(a)
  <2>1. W \subseteq Calls
    BY DEF Waiters
  <2>2. inFlight' \in Entries /\ probe' \in Entries
    BY <1>5, <2>1 DEF Reject, KeepOther
  <2>3. promise' \in [Calls -> {"none", "pending", "resolved", "rejected"}]
    BY <1>5 DEF Reject
  <2>4. call' \in [Calls -> {"new", "waiting", "own", "returned"}]
    BY <1>5 DEF Reject
  <2>5. /\ attached' \subseteq Calls
        /\ socket' \in [Calls -> {"none", "connecting", "open", "closing", "aborted", "closed"}]
    BY <1>5, <2>1 DEF Reject
  <2>6. retried' \in BOOLEAN
    BY <1>5 DEF Reject
  <2>7. QED
    BY <1>5, <2>2, <2>3, <2>4, <2>5, <2>6 DEF Reject
<1>6. ASSUME NEW a \in Calls, SocketOpens(a) \/ TunnelExpires(a)
      PROVE  McpTypeOK'
  BY <1>6 DEF SocketOpens, TunnelExpires, mapVars, callVars, sdkVars
<1>7. ASSUME NEW a \in Calls, ServerConnects(a)
      PROVE  McpTypeOK'
  <2>1. served' \subseteq Calls
    BY <1>7 DEF ServerConnects
  <2>2. QED
    BY <1>4, <1>7, <2>1 DEF ServerConnects
<1>8. ASSUME NEW a \in Calls, ServerRefuses(a) \/ ConnectTimeout(a)
      PROVE  McpTypeOK'
  <2>1. PICK agents : Reject(a, Closing(socket, agents), attached)
    BY <1>8 DEF ServerRefuses, ConnectTimeout
  <2>2. UNCHANGED served
    BY <1>8 DEF ServerRefuses, ConnectTimeout
  <2>3. QED
    BY <1>5, <2>1, <2>2, ClosingTypes
<1>9. ASSUME NEW a \in Calls, SocketCloses(a)
      PROVE  McpTypeOK'
  <2>1. [socket EXCEPT ![a] = "closed"]
          \in [Calls -> {"none", "connecting", "open", "closing", "aborted", "closed"}]
    OBVIOUS
  <2>2. served' \subseteq Calls
    BY <1>9 DEF SocketCloses
  <2>3. CASE Reject(a, [socket EXCEPT ![a] = "closed"], attached)
    BY <1>5, <2>1, <2>2, <2>3
  <2>4. CASE ~ Reject(a, [socket EXCEPT ![a] = "closed"], attached)
    BY <1>9, <2>1, <2>2, <2>4 DEF SocketCloses, mapVars, callVars
  <2>5. QED
    BY <2>3, <2>4
<1>10. CASE ReadTools \/ DisconnectActive
  BY <1>10, ClosingTypes DEF ReadTools, DisconnectActive, Disconnect, callVars
<1>11. CASE DisconnectPending \/ ProbeStarts
  <2>1. /\ active' \in Entries /\ inFlight' \in Entries /\ probe' \in Entries
        /\ UNCHANGED <<call, waitsFor, promise, served, expired, exited, retried>>
        /\ dropped' = TRUE
    BY <1>11 DEF DisconnectPending, ProbeStarts, Pruned, callVars
  <2>2. PICK agents : Disconnect(agents)
    BY <1>11 DEF DisconnectPending, ProbeStarts
  <2>3. QED
    BY <2>1, <2>2, ClosingTypes DEF Disconnect
<1>12. CASE ProbeEnds
  BY <1>12 DEF ProbeEnds, mapVars, callVars, sdkVars
<1>13. CASE Shutdown
  BY <1>13 DEF Shutdown, mapVars, callVars
<1>14. CASE UNCHANGED mcpVars
  BY <1>14 DEF mcpVars, mapVars, callVars, sdkVars
<1>15. QED
  BY <1>1, <1>2, <1>3, <1>6, <1>7, <1>8, <1>9, <1>10, <1>11, <1>12, <1>13, <1>14
  DEF McpNext

(* A call has a pending attempt only while it waits for it, and none       *)
(* before it starts one.                                                   *)
AttemptOfCall ==
  \A c \in Calls :
    /\ promise[c] = "pending" => call[c] = "own"
    /\ call[c] \in {"new", "waiting"} => promise[c] = "none"

(* An attempt leaves the in-flight map in the step that settles it.        *)
LEMMA PendingStep ==
  ASSUME McpTypeOK, AttemptOfCall, InFlightIsPending, [McpNext]_mcpVars
  PROVE  AttemptOfCall' /\ InFlightIsPending'
<1> DEFINE Goal == AttemptOfCall' /\ InFlightIsPending'
<1> USE McpAssumption DEF McpTypeOK, Entries, AttemptOfCall, InFlightIsPending
<1>1. ASSUME NEW c \in Calls, ConnectReturnsActive(c) PROVE Goal
  BY <1>1 DEF ConnectReturnsActive, mapVars, sdkVars
<1>2. ASSUME NEW c \in Calls, ConnectShares(c) PROVE Goal
  BY <1>2 DEF ConnectShares
<1>3. ASSUME NEW c \in Calls, ConnectStarts(c) PROVE Goal
  BY <1>3 DEF ConnectStarts
<1>4. ASSUME NEW a \in Calls, Resolve(a) PROVE Goal
  <2>1. AttemptOfCall'
    BY <1>4 DEF Resolve, Waiters
  <2>2. InFlightIsPending'
    BY <1>4 DEF Resolve, KeepOther
  <2>3. QED
    BY <2>1, <2>2
<1>5. ASSUME NEW a \in Calls, promise[a] = "pending", NEW sock, Reject(a, sock, attached)
      PROVE  Goal
  <2>1. a \notin Waiters(a) /\ Waiters(a) \subseteq Calls
    BY <1>5 DEF Waiters
  <2>2. AttemptOfCall'
    BY <1>5, <2>1 DEF Reject
  <2>3. InFlightIsPending'
    BY <1>5, <2>1 DEF Reject, KeepOther
  <2>4. QED
    BY <2>2, <2>3
<1>6. ASSUME NEW a \in Calls, ServerRefuses(a) \/ ConnectTimeout(a) PROVE Goal
  BY <1>5, <1>6 DEF ServerRefuses, ConnectTimeout
<1>7. ASSUME NEW a \in Calls, SocketCloses(a) PROVE Goal
  <2>1. CASE promise[a] = "pending" /\ Reject(a, [socket EXCEPT ![a] = "closed"], attached)
    BY <1>5, <2>1
  <2>2. CASE UNCHANGED <<mapVars, callVars, promise>>
    BY <2>2 DEF mapVars, callVars
  <2>3. QED
    BY <1>7, <2>1, <2>2 DEF SocketCloses
<1>8. ASSUME NEW a \in Calls, SocketOpens(a) \/ TunnelExpires(a) PROVE Goal
  BY <1>8 DEF SocketOpens, TunnelExpires, mapVars, callVars, sdkVars
<1>9. ASSUME NEW a \in Calls, ServerConnects(a) PROVE Goal
  BY <1>4, <1>9 DEF ServerConnects
<1>10. ASSUME \/ ReadTools \/ DisconnectActive \/ DisconnectPending \/ ProbeStarts
              \/ ProbeEnds \/ Shutdown \/ UNCHANGED mcpVars
       PROVE  Goal
  <2>1. /\ UNCHANGED <<call, promise>>
        /\ inFlight' = inFlight \/ inFlight' = NoCall
    BY <1>10 DEF ReadTools, DisconnectActive, DisconnectPending, ProbeStarts,
       ProbeEnds, Shutdown, mcpVars, mapVars, callVars, sdkVars
  <2>2. QED
    BY <2>1
<1>11. QED
  BY <1>1, <1>2, <1>3, <1>6, <1>7, <1>8, <1>9, <1>10 DEF McpNext

(* Both hold in every state of the MCP server.                             *)
LEMMA McpPending == McpSpec => [](McpTypeOK /\ AttemptOfCall /\ InFlightIsPending)
<1>1. McpInit => McpTypeOK /\ AttemptOfCall /\ InFlightIsPending
  BY DEF McpInit, McpTypeOK, Entries, AttemptOfCall, InFlightIsPending
<1>2. /\ McpTypeOK /\ AttemptOfCall /\ InFlightIsPending /\ [McpNext]_mcpVars
      => McpTypeOK' /\ AttemptOfCall' /\ InFlightIsPending'
  BY McpTypesStep, PendingStep
<1>3. QED
  BY <1>1, <1>2, PTL DEF McpSpec

(* The in-flight map holds pending attempts only, so a connect call never  *)
(* shares a promise that is already settled: the finally of an attempt     *)
(* deletes its own entry and no later one.                                 *)
THEOREM InFlightAlwaysPending == McpSpec => []InFlightIsPending
BY McpPending, PTL

(* An agent whose socket is open or opening still refers to it, so that    *)
(* disconnect() closes it; the server has tunnels only for sockets that    *)
(* opened and whose promise has resolved.                                  *)
SocketsHeld ==
  /\ \A a \in Calls : socket[a] \in {"connecting", "open"} => a \in attached
  /\ \A a \in served : promise[a] = "resolved" /\ socket[a] \notin {"none", "connecting"}

(* OneTunnelPerPort is inductive only with what the guards of connect rely *)
(* on: a pending attempt is the one in the in-flight map, and while there  *)
(* is one, no tunnel is open.                                              *)
OneAtATime ==
  ~ retried /\ ~ dropped =>
    /\ probe = NoCall
    /\ \A a \in Calls : promise[a] = "pending" => a = inFlight
    /\ \A a \in served : socket[a] = "open" => a = active /\ inFlight = NoCall

McpInv == McpTypeOK /\ AttemptOfCall /\ InFlightIsPending /\ SocketsHeld /\ OneAtATime

(* Only disconnect() makes an agent forget its socket, and it closes it.   *)
LEMMA SocketsHeldStep ==
  ASSUME McpInv, [McpNext]_mcpVars
  PROVE  SocketsHeld'
<1> USE McpAssumption DEF McpInv, McpTypeOK, Entries, SocketsHeld
<1>1. ASSUME NEW agents, Disconnect(agents), UNCHANGED <<served, promise>>
      PROVE  SocketsHeld'
  BY <1>1 DEF Disconnect, Closing
<1>2. ASSUME NEW c \in Calls, ConnectStarts(c)
      PROVE  SocketsHeld'
  <2>1. c \notin served
    BY <1>2 DEF ConnectStarts, AttemptOfCall
  <2>2. QED
    BY <1>2, <2>1 DEF ConnectStarts, Closing
<1>3. ASSUME NEW a \in Calls, ServerConnects(a)
      PROVE  SocketsHeld'
  <2>1. promise' = [promise EXCEPT ![a] = "resolved"]
    BY <1>3 DEF ServerConnects, Resolve
  <2>2. \/ UNCHANGED <<socket, attached>>
        \/ socket' = Closing(socket, {a} \cap attached) /\ attached' = attached \ {a}
    BY <1>3 DEF ServerConnects, Resolve, Disconnect
  <2>3. /\ \A b \in Calls : socket'[b] \in {"connecting", "open"} => b \in attached'
        /\ \A b \in Calls : socket[b] \notin {"none", "connecting"} =>
                              socket'[b] \notin {"none", "connecting"}
    BY <2>2 DEF Closing
  <2>4. served' \subseteq served \cup {a} /\ socket[a] \notin {"none", "connecting"}
    BY <1>3 DEF ServerConnects
  <2>5. QED
    BY <2>1, <2>3, <2>4
<1>4. ASSUME NEW a \in Calls, promise[a] = "pending",
             NEW sock \in [Calls -> {"none", "connecting", "open", "closing", "aborted", "closed"}],
             Reject(a, sock, attached), served' \subseteq served,
             sock[a] \notin {"connecting", "open"},
             \A b \in Calls \ {a} : sock[b] = socket[b]
      PROVE  SocketsHeld'
  <2>1. \A c \in Waiters(a) : c \in Calls /\ promise[c] = "none"
    BY DEF Waiters, AttemptOfCall
  <2>2. \A b \in served : b # a /\ b \notin Waiters(a)
    BY <1>4, <2>1
  <2>3. \A b \in Calls : socket'[b] \in {"connecting", "open"} => b \in attached'
    BY <1>4 DEF Reject
  <2>4. \A b \in served : promise'[b] = promise[b] /\ socket'[b] = socket[b]
    BY <1>4, <2>2 DEF Reject
  <2>5. QED
    BY <1>4, <2>3, <2>4
<1>5. ASSUME NEW a \in Calls, ServerRefuses(a)
      PROVE  SocketsHeld'
  <2> DEFINE sock == Closing(socket, {a} \cap attached)
  <2>1. sock \in [Calls -> {"none", "connecting", "open", "closing", "aborted", "closed"}]
    BY ClosingTypes
  <2>2. /\ sock[a] \notin {"connecting", "open"}
        /\ \A b \in Calls \ {a} : sock[b] = socket[b]
    BY DEF Closing
  <2>3. promise[a] = "pending" /\ Reject(a, sock, attached) /\ served' \subseteq served
    BY <1>5 DEF ServerRefuses
  <2> HIDE DEF sock
  <2>4. QED
    BY <1>4, <2>1, <2>2, <2>3
<1>6. ASSUME NEW a \in Calls, ConnectTimeout(a)
      PROVE  SocketsHeld'
  <2> DEFINE sock == Closing(socket, {a})
  <2>1. sock \in [Calls -> {"none", "connecting", "open", "closing", "aborted", "closed"}]
    BY ClosingTypes
  <2>2. /\ sock[a] \notin {"connecting", "open"}
        /\ \A b \in Calls \ {a} : sock[b] = socket[b]
    BY DEF Closing
  <2>3. promise[a] = "pending" /\ Reject(a, sock, attached) /\ served' \subseteq served
    BY <1>6 DEF ConnectTimeout
  <2> HIDE DEF sock
  <2>4. QED
    BY <1>4, <2>1, <2>2, <2>3
<1>7. ASSUME NEW a \in Calls, SocketCloses(a)
      PROVE  SocketsHeld'
  <2> DEFINE sock == [socket EXCEPT ![a] = "closed"]
  <2>1. /\ sock \in [Calls -> {"none", "connecting", "open", "closing", "aborted", "closed"}]
        /\ sock[a] \notin {"connecting", "open"}
        /\ \A b \in Calls \ {a} : sock[b] = socket[b]
    OBVIOUS
  <2>2. CASE promise[a] = "pending" /\ Reject(a, sock, attached)
    <3>1. served' \subseteq served
      BY <1>7 DEF SocketCloses
    <3> HIDE DEF sock
    <3>2. QED
      BY <1>4, <2>1, <2>2, <3>1
  <2>3. CASE socket' = sock /\ attached' = attached \ {a} /\ UNCHANGED promise
    BY <1>7, <2>3 DEF SocketCloses
  <2>4. QED
    BY <1>7, <2>2, <2>3 DEF SocketCloses
<1>8. ASSUME NEW a \in Calls, SocketOpens(a)
      PROVE  SocketsHeld'
  BY <1>8 DEF SocketOpens
<1>9. CASE UNCHANGED <<sdkVars, served>>
  BY <1>9 DEF sdkVars
<1>10. CASE Shutdown
  BY <1>10 DEF Shutdown
<1>11. ASSUME \/ \E c \in Calls : ConnectShares(c)
              \/ ReadTools \/ DisconnectActive \/ DisconnectPending \/ ProbeStarts
       PROVE  SocketsHeld'
  <2>1. (\E agents : Disconnect(agents)) /\ UNCHANGED <<served, promise>>
    BY <1>11 DEF ConnectShares, ReadTools, DisconnectActive, DisconnectPending, ProbeStarts
  <2>2. QED
    BY <1>1, <2>1
<1>12. ASSUME \/ \E c \in Calls : ConnectReturnsActive(c) \/ TunnelExpires(c)
              \/ ProbeEnds \/ UNCHANGED mcpVars
       PROVE  UNCHANGED <<sdkVars, served>>
  BY <1>12 DEF ConnectReturnsActive, TunnelExpires, ProbeEnds, mcpVars
<1>13. QED
  BY <1>2, <1>3, <1>5, <1>6, <1>7, <1>8, <1>9, <1>10, <1>11, <1>12 DEF McpNext

(* Sockets that disconnect() closes are not open any more, and it opens    *)
(* none.                                                                   *)
LEMMA DisconnectCloses ==
  ASSUME McpInv, NEW agents, NEW a \in Calls, Closing(socket, agents \cap attached)[a] = "open"
  PROVE  socket[a] = "open" /\ a \notin agents
BY DEF McpInv, McpTypeOK, SocketsHeld, Closing

(* connect starts an attempt only where the port has neither a tunnel nor  *)
(* another attempt, until several calls shared one that failed or a        *)
(* pending one was disconnected.                                           *)
LEMMA OneAtATimeStep ==
  ASSUME McpInv, [McpNext]_mcpVars
  PROVE  OneAtATime'
<1> USE McpAssumption DEF McpInv, McpTypeOK, Entries
<1>0. ~ retried' /\ ~ dropped' => ~ retried /\ ~ dropped
  BY DEF McpNext, ConnectReturnsActive, ConnectShares, ConnectStarts, SocketOpens,
     ServerConnects, Resolve, ServerRefuses, ConnectTimeout, SocketCloses, Reject,
     TunnelExpires, ReadTools, DisconnectActive, DisconnectPending, ProbeStarts,
     ProbeEnds, Shutdown, mcpVars
<1> SUFFICES ASSUME ~ retried, ~ dropped, ~ retried', ~ dropped'
             PROVE  /\ probe' = NoCall
                    /\ \A a \in Calls : promise'[a] = "pending" => a = inFlight'
                    /\ \A a \in served' : socket'[a] = "open" =>
                         a = active' /\ inFlight' = NoCall
  BY <1>0 DEF OneAtATime
<1> DEFINE Goal == /\ probe' = NoCall
                   /\ \A a \in Calls : promise'[a] = "pending" => a = inFlight'
                   /\ \A a \in served' : socket'[a] = "open" =>
                        a = active' /\ inFlight' = NoCall
<1>a. /\ probe = NoCall
      /\ \A a \in Calls : promise[a] = "pending" => a = inFlight
      /\ \A a \in served : socket[a] = "open" => a = active /\ inFlight = NoCall
  BY DEF OneAtATime
<1>1. ASSUME NEW c \in Calls, ConnectReturnsActive(c) PROVE Goal
  BY <1>a, <1>1 DEF ConnectReturnsActive, mapVars, sdkVars
<1>2. ASSUME NEW c \in Calls, ConnectShares(c) PROVE Goal
  BY <1>a, <1>2, DisconnectCloses DEF ConnectShares, Disconnect
<1>3. ASSUME NEW c \in Calls, ConnectStarts(c) PROVE Goal
  <2>1. \A a \in Calls : promise[a] # "pending"
    BY <1>a, <1>3 DEF ConnectStarts
  <2>2. \A a \in Calls : promise'[a] = "pending" => a = inFlight'
    BY <1>3, <2>1 DEF ConnectStarts
  <2>3. ASSUME NEW a \in served, socket'[a] = "open" PROVE FALSE
    <3>1. a # c
      BY <1>3, <2>3 DEF ConnectStarts, SocketsHeld, AttemptOfCall
    <3>2. Closing(socket, Stale \cap attached)[a] = "open"
      BY <1>3, <2>3, <3>1, ClosingTypes DEF ConnectStarts
    <3>3. socket[a] = "open" /\ a \notin Stale
      BY <3>2, DisconnectCloses
    <3>4. a = active
      BY <1>a, <3>3
    <3>5. QED
      BY <1>3, <3>3, <3>4 DEF ConnectStarts, Unexpired, Stale
  <2>4. probe' = NoCall /\ served' = served
    BY <1>a, <1>3 DEF ConnectStarts
  <2>5. QED
    BY <2>2, <2>3, <2>4
<1>4. ASSUME NEW a \in Calls, ServerConnects(a) PROVE Goal
  <2>1. promise[a] = "pending" /\ a = inFlight
    BY <1>a, <1>4 DEF ServerConnects, Resolve
  <2>2. UNCHANGED <<socket, probe>>
    BY <1>a, <1>4, <2>1 DEF ServerConnects, Resolve
  <2>3. promise' = [promise EXCEPT ![a] = "resolved"]
    BY <1>4 DEF ServerConnects, Resolve
  <2>4. active' = a /\ inFlight' = NoCall
    BY <1>4, <2>1 DEF ServerConnects, Resolve, KeepOther
  <2>5. served' \subseteq served \cup {a}
    BY <1>4 DEF ServerConnects
  <2>6. \A b \in served : socket[b] # "open"
    BY <1>a, <2>1
  <2>7. \A b \in Calls : promise'[b] # "pending"
    BY <1>a, <2>1, <2>3
  <2>8. QED
    BY <1>a, <2>2, <2>4, <2>5, <2>6, <2>7
<1>5. ASSUME NEW a \in Calls, promise[a] = "pending", NEW sock,
             Reject(a, sock, attached), served' \subseteq served,
             \A b \in Calls \ {a} : sock[b] = socket[b],
             sock[a] # "open"
      PROVE  Goal
  <2> DEFINE W == Waiters(a)
  <2>1. a = inFlight /\ (\A b \in served : socket[b] # "open")
    BY <1>a, <1>5
  <2>2. W \in SUBSET Calls /\ IsFiniteSet(W) /\ a \notin W
    BY <1>5, FS_Subset DEF Waiters, AttemptOfCall
  <2>3. Cardinality(W) <= 1 /\ Cardinality(W) \in Nat
    <3>1. Cardinality(W) \in Nat
      BY <2>2, FS_CardinalityType
    <3>2. retried' = (retried \/ Cardinality(W) > 1)
      BY <1>5 DEF Reject
    <3> HIDE DEF W
    <3>3. ~ (Cardinality(W) > 1)
      BY <3>2
    <3>4. QED
      BY <3>1, <3>3
  <2>4. W = {} \/ \E w : W = {w}
    BY <2>2, <2>3, FS_EmptySet, FS_Singleton
  <2>5. /\ \A b \in Calls : promise'[b] = "pending" <=>
             b # a /\ (b \in W \/ promise[b] = "pending")
        /\ inFlight' \in IF W = {} THEN {KeepOther(a)} ELSE W
        /\ \A b \in Calls : socket'[b] = "open" => socket[b] = "open"
        /\ probe' = NoCall
    BY <1>a, <1>5 DEF Reject
  <2> HIDE DEF W
  <2>6. \A b \in Calls : promise'[b] = "pending" => b = inFlight'
    BY <1>a, <2>1, <2>4, <2>5
  <2>7. QED
    BY <1>5, <2>1, <2>5, <2>6
<1>6. ASSUME NEW a \in Calls, ServerRefuses(a) PROVE Goal
  <2> DEFINE sock == Closing(socket, {a} \cap attached)
  <2>1. sock[a] # "open" /\ \A b \in Calls \ {a} : sock[b] = socket[b]
    BY DEF Closing, SocketsHeld
  <2>2. promise[a] = "pending" /\ Reject(a, sock, attached) /\ served' \subseteq served
    BY <1>6 DEF ServerRefuses
  <2> HIDE DEF sock
  <2>3. QED
    BY <1>5, <2>1, <2>2
<1>7. ASSUME NEW a \in Calls, ConnectTimeout(a) PROVE Goal
  <2> DEFINE sock == Closing(socket, {a})
  <2>1. sock[a] # "open" /\ \A b \in Calls \ {a} : sock[b] = socket[b]
    BY DEF Closing
  <2>2. promise[a] = "pending" /\ Reject(a, sock, attached) /\ served' \subseteq served
    BY <1>7 DEF ConnectTimeout
  <2> HIDE DEF sock
  <2>3. QED
    BY <1>5, <2>1, <2>2
<1>8. ASSUME NEW a \in Calls, SocketCloses(a) PROVE Goal
  <2> DEFINE sock == [socket EXCEPT ![a] = "closed"]
  <2>1. sock[a] # "open" /\ \A b \in Calls \ {a} : sock[b] = socket[b]
    OBVIOUS
  <2>2. served' \subseteq served
    BY <1>8 DEF SocketCloses
  <2>3. CASE promise[a] = "pending" /\ Reject(a, sock, attached)
    <3> HIDE DEF sock
    <3>1. QED
      BY <1>5, <2>1, <2>2, <2>3
  <2>4. CASE socket' = sock /\ UNCHANGED <<mapVars, promise, probe>>
    BY <1>a, <2>2, <2>4 DEF mapVars
  <2>5. QED
    BY <1>8, <2>3, <2>4 DEF SocketCloses
<1>9. ASSUME NEW a \in Calls, SocketOpens(a) PROVE Goal
  BY <1>a, <1>9 DEF SocketOpens, SocketsHeld, mapVars
<1>10. ASSUME ReadTools \/ DisconnectActive PROVE Goal
  <2>1. /\ Disconnect({active}) /\ active' = NoCall
        /\ UNCHANGED <<inFlight, promise, served, probe>>
    BY <1>10 DEF ReadTools, DisconnectActive
  <2>2. \A a \in Calls : socket'[a] = "open" => socket[a] = "open" /\ a # active
    BY <2>1, DisconnectCloses DEF Disconnect
  <2>3. QED
    BY <1>a, <2>1, <2>2
<1>11. ASSUME Shutdown PROVE Goal
  BY <1>a, <1>11 DEF Shutdown, mapVars
<1>12. ASSUME \/ \E c \in Calls : TunnelExpires(c)
              \/ ProbeEnds \/ UNCHANGED mcpVars
       PROVE  Goal
  BY <1>a, <1>12 DEF TunnelExpires, ProbeEnds, mcpVars, mapVars, sdkVars
<1>13. ~ DisconnectPending /\ ~ ProbeStarts
  BY DEF DisconnectPending, ProbeStarts
<1>14. QED
  BY <1>1, <1>2, <1>3, <1>4, <1>6, <1>7, <1>8, <1>9, <1>10, <1>11, <1>12, <1>13
  DEF McpNext

(* A port has one pending attempt and one open tunnel at a time, the       *)
(* active one, unless two calls shared an attempt that failed or a pending *)
(* attempt was disconnected.                                               *)
THEOREM OneTunnelPerPortHolds == McpSpec => []OneTunnelPerPort
<1>1. McpInit => McpInv
  BY DEF McpInit, McpInv, McpTypeOK, Entries, AttemptOfCall, InFlightIsPending,
     SocketsHeld, OneAtATime
<1>2. McpInv /\ [McpNext]_mcpVars => McpInv'
  BY McpTypesStep, PendingStep, SocketsHeldStep, OneAtATimeStep DEF McpInv
<1>3. McpInv => OneTunnelPerPort
  BY DEF McpInv, McpTypeOK, OneAtATime, OneTunnelPerPort
<1>4. QED
  BY <1>1, <1>2, <1>3, PTL DEF McpSpec

-----------------------------------------------------------------------------
(* Subscriptions                                                           *)

(* What Stripe holds of a subscription, what an event tells, and what the  *)
(* record of a request may hold at each stage.                             *)
SubRec == [customer : Customers, status : SubStatuses, ending : BOOLEAN]

EventRec == [sub : Subs, status : SubStatuses, change : 1..MaxChanges]

AsksCustomer == {"retrieve", "store", "check", "make"}
ChangesSub == {"cancel now", "cancel later", "resume"}
HasAnswer == {"save", "saveStatus"}

RequestRec ==
  [at : {"idle", "create"} \cup AsksCustomer \cup ChangesSub \cup HasAnswer,
   customer : Customers \cup {NoneId}, sub : Subs \cup {NoneId},
   status : SubStatuses \cup {"none"}, change : 0..MaxChanges]

(* What a request may hold at its stage: a customer once it has asked for  *)
(* one, a subscription of Stripe's once it is about one, and the answer of *)
(* a change that was made.                                                 *)
StageOK(x, made, last) ==
  /\ x.at \in AsksCustomer => x.customer \in Customers
  /\ x.at \in ChangesSub \cup HasAnswer => x.sub \in made
  /\ x.at = "save" => x.status = "incomplete"
  /\ x.change <= last

SubTypes ==
  /\ rowCustomer \in Customers \cup {NoneId}
  /\ rowSub \in DOMAIN subs \cup {NoneId}
  /\ rowStatus \in SubStatuses \cup {"none"}
  /\ customers \in 0..MaxCustomers
  /\ \E n \in 0..MaxSubs : subs \in [1..n -> SubRec]
  /\ events \subseteq EventRec
  /\ \A e \in events : e.sub \in DOMAIN subs /\ e.change <= change
  /\ requests \in 0..MaxRequests
  /\ change \in 0..MaxChanges
  /\ rowChange \in 0..change
  /\ request \in [Requests -> RequestRec]
  /\ \A r \in Requests : StageOK(request[r], DOMAIN subs, change)
  /\ overtaken \in BOOLEAN /\ eventLost \in BOOLEAN
  /\ customerRaced \in BOOLEAN /\ retrieveFailed \in BOOLEAN

(* A change of a subscription, or a new one, numbers itself and posts its  *)
(* event; the other subscriptions stay as they were.                       *)
LEMMA ChangeEffect ==
  ASSUME SubTypes, NEW b, NEW new \in SubRec, Change(b, new),
         \/ b \in DOMAIN subs
         \/ Cardinality(DOMAIN subs) < MaxSubs /\ b = Cardinality(DOMAIN subs) + 1
  PROVE  /\ \E n \in 0..MaxSubs : subs' \in [1..n -> SubRec]
         /\ b \in DOMAIN subs' /\ DOMAIN subs' = DOMAIN subs \cup {b} /\ b \in Subs
         /\ subs'[b] = new
         /\ \A x \in DOMAIN subs \ {b} : subs'[x] = subs[x]
         /\ change' = change + 1 /\ change' \in 1..MaxChanges
         /\ events' = events \cup {[sub |-> b, status |-> new.status, change |-> change']}
         /\ [sub |-> b, status |-> new.status, change |-> change'] \in EventRec
<1> USE SubscriptionsAssumption
<1>1. PICK n \in 0..MaxSubs : subs \in [1..n -> SubRec]
  BY DEF SubTypes
<1>2. DOMAIN subs = 1..n
  BY <1>1
<1>3. Cardinality(1..n) = n
  BY FS_Interval
<1>4. PICK m \in 0..MaxSubs : 1..m = DOMAIN subs \cup {b} /\ b \in 1..m
  <2>1. CASE b \in DOMAIN subs
    BY <1>2, <2>1
  <2>2. CASE b \notin DOMAIN subs
    <3>1. b = n + 1 /\ n + 1 \in 0..MaxSubs
      BY <1>2, <1>3, <2>2
    <3>2. 1..(n + 1) = DOMAIN subs \cup {b}
      BY <1>2, <3>1
    <3>3. QED
      BY <3>1, <3>2
  <2>3. QED
    BY <2>1, <2>2
<1>5. b \in Subs
  BY <1>4 DEF Subs
<1>6. subs' = [x \in DOMAIN subs \cup {b} |-> IF x = b THEN new ELSE subs[x]]
  BY DEF Change
<1>7. subs' \in [1..m -> SubRec]
  BY <1>1, <1>2, <1>4, <1>6
<1>8. change' = change + 1 /\ change' \in 1..MaxChanges
  BY DEF Change, SubTypes
<1>9. events' = events \cup {[sub |-> b, status |-> new.status, change |-> change']}
  BY DEF Change
<1>10. new.status \in SubStatuses
  BY DEF SubRec
<1>11. [sub |-> b, status |-> new.status, change |-> change'] \in EventRec
  BY <1>5, <1>8, <1>10 DEF EventRec
<1>12. QED
  BY <1>4, <1>5, <1>6, <1>7, <1>8, <1>9, <1>11

(* What a step does to the requests: one of them goes on to a stage with   *)
(* what it may hold there, or none moves.                                  *)
LEMMA RequestMoves ==
  ASSUME SubTypes, NEW r \in Requests, NEW x \in RequestRec,
         request' = [request EXCEPT ![r] = x], StageOK(x, DOMAIN subs', change'),
         DOMAIN subs \subseteq DOMAIN subs', change' >= change, change' \in Nat
  PROVE  request' \in [Requests -> RequestRec] /\ \A q \in Requests : StageOK(request'[q], DOMAIN subs', change')
<1> USE SubscriptionsAssumption DEF SubTypes
<1>1. request' \in [Requests -> RequestRec]
  OBVIOUS
<1>2. ASSUME NEW q \in Requests PROVE StageOK(request'[q], DOMAIN subs', change')
  <2>1. CASE q = r
    BY <2>1
  <2>2. CASE q # r
    <3>1. request'[q] = request[q] /\ request[q].change \in Nat /\ change \in Nat
      BY <2>2 DEF RequestRec
    <3>2. StageOK(request[q], DOMAIN subs, change)
      OBVIOUS
    <3>3. QED
      BY <3>1, <3>2 DEF StageOK
  <2>3. QED
    BY <2>1, <2>2
<1>3. QED
  BY <1>1, <1>2

(* A new subscription takes the next number at Stripe.                     *)
LEMMA MakeChanges ==
  ASSUME SubTypes, NEW r \in Requests, MakeSubscription(r)
  PROVE  \E b \in Subs : \E new \in SubRec :
           /\ b \notin DOMAIN subs
           /\ new = [customer |-> request[r].customer, status |-> "incomplete", ending |-> FALSE]
           /\ Cardinality(DOMAIN subs) < MaxSubs /\ b = Cardinality(DOMAIN subs) + 1
           /\ Change(b, new)
           /\ UNCHANGED requests
           /\ request' = [request EXCEPT ![r] =
                [at |-> "save", customer |-> NoneId, sub |-> b,
                 status |-> "incomplete", change |-> change']]
<1> USE SubscriptionsAssumption
<1>1. PICK n \in 0..MaxSubs : subs \in [1..n -> SubRec]
  BY DEF SubTypes
<1>2. DOMAIN subs = 1..n /\ Cardinality(1..n) = n
  BY <1>1, FS_Interval
<1> DEFINE b == Cardinality(DOMAIN subs) + 1
           new == [customer |-> request[r].customer, status |-> "incomplete", ending |-> FALSE]
<1>3. b \in Subs /\ b \notin DOMAIN subs
  BY <1>2 DEF MakeSubscription, Subs
<1>4. request[r].customer \in Customers
  BY DEF SubTypes, StageOK, MakeSubscription, AsksCustomer
<1>5. new \in SubRec
  BY <1>4 DEF SubRec, SubStatuses
<1>6. QED
  BY <1>3, <1>5 DEF MakeSubscription, Continue

(* A request of the user changes the subscription it has read, which stays *)
(* the customer's.                                                         *)
LEMMA RequestChanges ==
  ASSUME SubTypes, NEW r \in Requests, ChangeSub(r)
  PROVE  \E b \in DOMAIN subs : \E new \in SubRec :
           /\ new.customer = subs[b].customer
           /\ Change(b, new)
           /\ UNCHANGED requests
           /\ request' = [request EXCEPT ![r] =
                [at |-> "saveStatus", customer |-> NoneId, sub |-> b,
                 status |-> new.status, change |-> change']]
<1> DEFINE b == request[r].sub
           new == CASE request[r].at = "cancel now" -> [subs[b] EXCEPT !.status = "canceled"]
                    [] request[r].at = "cancel later" -> [subs[b] EXCEPT !.ending = TRUE]
                    [] OTHER -> [subs[b] EXCEPT !.ending = FALSE]
<1>1. b \in DOMAIN subs
  BY DEF SubTypes, StageOK, ChangeSub, ChangesSub
<1>2. subs[b] \in SubRec
  BY <1>1 DEF SubTypes
<1>3. new \in SubRec /\ new.customer = subs[b].customer
  BY <1>2 DEF SubRec, SubStatuses
<1>4. /\ Change(b, new) /\ UNCHANGED requests
      /\ request' = [request EXCEPT ![r] =
           [at |-> "saveStatus", customer |-> NoneId, sub |-> b,
            status |-> new.status, change |-> change']]
  BY DEF ChangeSub, Continue
<1> HIDE DEF new
<1>5. QED
  BY <1>1, <1>3, <1>4

(* So does what happens at Stripe without a request.                       *)
LEMMA StripeChangesOne ==
  ASSUME SubTypes, NEW b \in DOMAIN subs, StripeChanges(b)
  PROVE  \E new \in SubRec : new.customer = subs[b].customer /\ Change(b, new)
<1>1. subs[b] \in SubRec
  BY DEF SubTypes
<1>2. \A status \in SubStatuses :
        [subs[b] EXCEPT !.status = status] \in SubRec
        /\ [subs[b] EXCEPT !.status = status].customer = subs[b].customer
  BY <1>1 DEF SubRec
<1>3. QED
  BY <1>2 DEF StripeChanges, SubStatuses

(* The types are inductive.                                                *)
LEMMA SubTypesStep ==
  ASSUME SubTypes, [SubscriptionsNext]_subVars
  PROVE  SubTypes'
<1> USE SubscriptionsAssumption
<1>0. change \in Nat /\ rowChange \in Nat /\ requests \in Nat /\ customers \in Nat
  BY DEF SubTypes
<1>1. \A r \in Requests : request[r] \in RequestRec /\ StageOK(request[r], DOMAIN subs, change)
  BY DEF SubTypes
<1>2. Idle \in RequestRec /\ StageOK(Idle, DOMAIN subs, change) /\ Idle.change = 0
  <2>1. Idle \in RequestRec /\ Idle.change = 0
    BY DEF Idle, RequestRec
  <2>2. StageOK(Idle, DOMAIN subs, change)
    BY <1>0 DEF Idle, StageOK, AsksCustomer, ChangesSub, HasAnswer
  <2>3. QED
    BY <2>1, <2>2
<1>3. ASSUME NEW r \in Requests, NEW x \in RequestRec, request' = [request EXCEPT ![r] = x], StageOK(x, DOMAIN subs, change),
             UNCHANGED stripeVars, requests' \in 0..MaxRequests,
             rowCustomer' \in Customers \cup {NoneId},
             rowSub' \in DOMAIN subs \cup {NoneId},
             rowStatus' \in SubStatuses \cup {"none"}, rowChange' \in 0..change,
             overtaken' \in BOOLEAN, eventLost' \in BOOLEAN,
             customerRaced' \in BOOLEAN, retrieveFailed' \in BOOLEAN
      PROVE  SubTypes'
  <2>1. UNCHANGED <<customers, subs, events, change>>
    BY <1>3 DEF stripeVars
  <2>2. StageOK(x, DOMAIN subs', change')
    BY <1>3, <2>1 DEF StageOK
  <2>3. request' \in [Requests -> RequestRec] /\ \A q \in Requests : StageOK(request'[q], DOMAIN subs', change')
    <3>1. DOMAIN subs \subseteq DOMAIN subs' /\ change' >= change /\ change' \in Nat
      BY <1>0, <2>1
    <3>2. QED
      BY <1>3, <2>2, <3>1, RequestMoves
  <2>4. QED
    BY <1>3, <2>1, <2>3 DEF SubTypes
<1>4. ASSUME request' \in [Requests -> RequestRec],
             \A q \in Requests : StageOK(request'[q], DOMAIN subs', change'),
             NEW b, NEW new \in SubRec, Change(b, new),
             \/ b \in DOMAIN subs
             \/ Cardinality(DOMAIN subs) < MaxSubs /\ b = Cardinality(DOMAIN subs) + 1,
             UNCHANGED <<rowVars, customers, tellVars, causeVars>>,
             UNCHANGED requests
      PROVE  SubTypes'
  <2>1. /\ \E n \in 0..MaxSubs : subs' \in [1..n -> SubRec]
        /\ DOMAIN subs' = DOMAIN subs \cup {b}
        /\ change' = change + 1 /\ change' \in 1..MaxChanges
        /\ events' = events \cup {[sub |-> b, status |-> new.status, change |-> change']}
        /\ [sub |-> b, status |-> new.status, change |-> change'] \in EventRec
    BY <1>4, ChangeEffect
  <2>2. events' \subseteq EventRec /\ \A e \in events' : e.sub \in DOMAIN subs' /\ e.change <= change'
    <3>1. \A e \in events : e.change \in Nat /\ e.change <= change /\ e.sub \in DOMAIN subs
      BY DEF SubTypes, EventRec
    <3>2. events \subseteq EventRec
      BY DEF SubTypes
    <3>3. QED
      BY <1>0, <2>1, <3>1, <3>2
  <2>3. UNCHANGED <<rowCustomer, rowSub, rowStatus, customers, rowChange, overtaken,
                    eventLost, customerRaced, retrieveFailed, requests>>
    BY <1>4 DEF rowVars, tellVars, causeVars
  <2>4. rowSub' \in DOMAIN subs' \cup {NoneId} /\ rowChange' \in 0..change'
    BY <1>0, <2>1, <2>3 DEF SubTypes
  <2>5. change' \in 0..MaxChanges
    BY <2>1
  <2>6. QED
    BY <1>4, <2>1, <2>2, <2>3, <2>4, <2>5 DEF SubTypes
<1>5. ASSUME NEW r \in Requests, NEW at \in {"idle", "create"} \cup AsksCustomer,
             at \in AsksCustomer => request[r].customer \in Customers
      PROVE  /\ [request[r] EXCEPT !.at = at] \in RequestRec
             /\ StageOK([request[r] EXCEPT !.at = at], DOMAIN subs, change)
  BY <1>1, <1>5 DEF RequestRec, StageOK, AsksCustomer, ChangesSub, HasAnswer
<1>6. ASSUME NEW r \in Requests, ReadCustomer(r) PROVE SubTypes'
  <2>1. PICK x \in {[Idle EXCEPT !.at = "create"],
                    [Idle EXCEPT !.at = "retrieve", !.customer = rowCustomer]} :
          /\ Begin(r, x)
          /\ x = [Idle EXCEPT !.at = "create"] \/ rowCustomer # NoneId
    BY <1>6 DEF ReadCustomer
  <2>2. x \in RequestRec /\ StageOK(x, DOMAIN subs, change)
    BY <1>0, <1>2, <2>1 DEF Idle, RequestRec, StageOK, NoneId, AsksCustomer, ChangesSub,
       HasAnswer, SubTypes
  <2>3. requests' \in 0..MaxRequests /\ request' = [request EXCEPT ![r] = x]
    BY <1>0, <2>1 DEF Begin, SubTypes
  <2>4. customerRaced' \in BOOLEAN
    BY <1>6 DEF ReadCustomer, SubTypes
  <2>5. QED
    BY <1>3, <1>6, <2>2, <2>3, <2>4 DEF ReadCustomer, SubTypes, rowVars, tellVars
<1>7. ASSUME NEW r \in Requests, RetrieveCustomer(r) PROVE SubTypes'
  <2>1. PICK at \in {"check", "create"} : GoTo(r, at)
    BY <1>7 DEF RetrieveCustomer
  <2>2. request[r].customer \in Customers
    BY <1>1, <1>7 DEF RetrieveCustomer, StageOK, AsksCustomer
  <2>3. /\ [request[r] EXCEPT !.at = at] \in RequestRec
        /\ StageOK([request[r] EXCEPT !.at = at], DOMAIN subs, change)
    BY <1>5, <2>2 DEF AsksCustomer
  <2>4. rowCustomer' \in Customers \cup {NoneId} /\ retrieveFailed' \in BOOLEAN
    BY <1>7 DEF RetrieveCustomer, SubTypes
  <2>5. QED
    BY <1>3, <1>7, <2>1, <2>3, <2>4 DEF RetrieveCustomer, GoTo, Continue, SubTypes, tellVars
<1>8. ASSUME NEW r \in Requests, CreateCustomer(r) PROVE SubTypes'
  <2> DEFINE x == [request[r] EXCEPT !.at = "store", !.customer = customers']
  <2>1. customers' \in Customers /\ customers' \in 0..MaxCustomers
    BY <1>0, <1>8 DEF CreateCustomer, Customers, SubTypes
  <2>2. UNCHANGED <<rowCustomer, rowSub, rowStatus, subs, events, change, requests,
                    rowChange, overtaken, eventLost, customerRaced, retrieveFailed>>
    BY <1>8 DEF CreateCustomer, Continue, rowVars, tellVars, causeVars
  <2>3. x \in RequestRec /\ StageOK(x, DOMAIN subs', change')
    BY <1>1, <2>1, <2>2 DEF RequestRec, StageOK, AsksCustomer, ChangesSub, HasAnswer
  <2>4. request' = [request EXCEPT ![r] = x]
    BY <1>8 DEF CreateCustomer, Continue
  <2> HIDE DEF x
  <2>5. request' \in [Requests -> RequestRec] /\ \A q \in Requests : StageOK(request'[q], DOMAIN subs', change')
    <3>1. DOMAIN subs \subseteq DOMAIN subs' /\ change' >= change /\ change' \in Nat
      BY <1>0, <2>2
    <3>2. QED
      BY <2>3, <2>4, <3>1, RequestMoves
  <2>6. QED
    BY <2>1, <2>2, <2>5 DEF SubTypes
<1>9. ASSUME NEW r \in Requests, StoreCustomer(r) PROVE SubTypes'
  <2>1. request[r].customer \in Customers
    BY <1>1, <1>9 DEF StoreCustomer, StageOK, AsksCustomer
  <2>2. /\ [request[r] EXCEPT !.at = "check"] \in RequestRec
        /\ StageOK([request[r] EXCEPT !.at = "check"], DOMAIN subs, change)
    BY <1>5, <2>1 DEF AsksCustomer
  <2>3. QED
    BY <1>3, <1>9, <2>1, <2>2 DEF StoreCustomer, GoTo, Continue, SubTypes, tellVars, causeVars
<1>10. ASSUME NEW r \in Requests, CheckActive(r) PROVE SubTypes'
  <2>1. request[r].customer \in Customers
    BY <1>1, <1>10 DEF CheckActive, StageOK, AsksCustomer
  <2>2. /\ [request[r] EXCEPT !.at = "make"] \in RequestRec
        /\ StageOK([request[r] EXCEPT !.at = "make"], DOMAIN subs, change)
    BY <1>5, <2>1 DEF AsksCustomer
  <2>3. QED
    BY <1>2, <1>3, <1>10, <2>2
    DEF CheckActive, GoTo, Finish, Continue, SubTypes, rowVars, tellVars, causeVars
<1>11. ASSUME NEW r \in Requests, MakeSubscription(r) PROVE SubTypes'
  <2>1. PICK b \in Subs, new \in SubRec :
           /\ new.status = "incomplete"
           /\ Cardinality(DOMAIN subs) < MaxSubs /\ b = Cardinality(DOMAIN subs) + 1
           /\ Change(b, new)
           /\ UNCHANGED requests
           /\ request' = [request EXCEPT ![r] =
                [at |-> "save", customer |-> NoneId, sub |-> b,
                        status |-> "incomplete", change |-> change']]
    BY <1>11, MakeChanges
  <2> DEFINE x == [at |-> "save", customer |-> NoneId, sub |-> b,
                   status |-> "incomplete", change |-> change']
  <2>2. change' \in 1..MaxChanges /\ b \in DOMAIN subs'
    BY <2>1, ChangeEffect
  <2>3. x \in RequestRec /\ StageOK(x, DOMAIN subs', change')
    BY <2>2 DEF RequestRec, StageOK, AsksCustomer, ChangesSub, HasAnswer, SubStatuses
  <2>4. UNCHANGED <<rowVars, customers, tellVars, causeVars>>
    BY <1>11 DEF MakeSubscription
  <2>5. request' = [request EXCEPT ![r] = x]
    BY <2>1
  <2>6. DOMAIN subs \subseteq DOMAIN subs' /\ change' >= change /\ change' \in Nat
    <3>1. DOMAIN subs' = DOMAIN subs \cup {b} /\ change' = change + 1
      BY <2>1, ChangeEffect
    <3>2. QED
      BY <1>0, <3>1
  <2> HIDE DEF x
  <2>7. request' \in [Requests -> RequestRec] /\ \A q \in Requests : StageOK(request'[q], DOMAIN subs', change')
    BY <2>3, <2>5, <2>6, RequestMoves
  <2>8. QED
    BY <1>4, <2>1, <2>4, <2>7
<1>12. ASSUME NEW r \in Requests, ChangeSub(r) PROVE SubTypes'
  <2>1. PICK b \in DOMAIN subs, new \in SubRec :
           /\ Change(b, new)
           /\ UNCHANGED requests
           /\ request' = [request EXCEPT ![r] =
                [at |-> "saveStatus", customer |-> NoneId, sub |-> b,
                        status |-> new.status, change |-> change']]
    BY <1>12, RequestChanges
  <2> DEFINE x == [at |-> "saveStatus", customer |-> NoneId, sub |-> b,
                   status |-> new.status, change |-> change']
  <2>2. change' \in 1..MaxChanges /\ b \in DOMAIN subs' /\ b \in Subs
    BY <2>1, ChangeEffect
  <2>3. new.status \in SubStatuses
    BY DEF SubRec
  <2>4. x \in RequestRec /\ StageOK(x, DOMAIN subs', change')
    BY <2>2, <2>3 DEF RequestRec, StageOK, AsksCustomer, ChangesSub, HasAnswer
  <2>5. UNCHANGED <<rowVars, customers, tellVars, causeVars>>
    BY <1>12 DEF ChangeSub
  <2>6. request' = [request EXCEPT ![r] = x]
    BY <2>1
  <2>7. DOMAIN subs \subseteq DOMAIN subs' /\ change' >= change /\ change' \in Nat
    <3>1. DOMAIN subs' = DOMAIN subs \cup {b} /\ change' = change + 1
      BY <2>1, ChangeEffect
    <3>2. QED
      BY <1>0, <3>1
  <2> HIDE DEF x
  <2>8. request' \in [Requests -> RequestRec] /\ \A q \in Requests : StageOK(request'[q], DOMAIN subs', change')
    BY <2>4, <2>6, <2>7, RequestMoves
  <2>9. QED
    BY <1>4, <2>1, <2>5, <2>8
<1>13. ASSUME NEW r \in Requests, SaveSubscription(r) \/ SaveStatus(r) PROVE SubTypes'
  <2>1. /\ request[r].sub \in DOMAIN subs /\ request[r].status \in SubStatuses \cup {"none"}
        /\ request[r].change \in 0..change
    BY <1>0, <1>1, <1>13 DEF SaveSubscription, SaveStatus, StageOK, HasAnswer, RequestRec
  <2>2. rowChange' \in 0..change /\ overtaken' \in BOOLEAN
    BY <1>0, <1>13, <2>1 DEF SaveSubscription, SaveStatus, Tell, SubTypes
  <2>3. QED
    BY <1>2, <1>3, <1>13, <2>1, <2>2
    DEF SaveSubscription, SaveStatus, Finish, Continue, SubTypes, causeVars
<1>14. ASSUME NEW r \in Requests, ReadSub(r) PROVE SubTypes'
  <2>1. PICK w \in ChangesSub : Begin(r, [Idle EXCEPT !.at = w, !.sub = rowSub])
    BY <1>14 DEF ReadSub, ChangesSub
  <2> DEFINE x == [Idle EXCEPT !.at = w, !.sub = rowSub]
  <2>2. rowSub \in DOMAIN subs /\ rowSub \in Subs
    <3>1. PICK n \in 0..MaxSubs : subs \in [1..n -> SubRec]
      BY DEF SubTypes
    <3>2. rowSub \in DOMAIN subs
      BY <1>14 DEF ReadSub, SubTypes
    <3>3. rowSub \in 1..n /\ 1..n \subseteq 1..MaxSubs
      BY <3>1, <3>2
    <3>4. QED
      BY <3>2, <3>3 DEF Subs
  <2>3. x \in RequestRec /\ StageOK(x, DOMAIN subs, change)
    BY <1>0, <1>2, <2>1, <2>2 DEF Idle, RequestRec, StageOK, AsksCustomer, ChangesSub,
       HasAnswer
  <2>4. requests' \in 0..MaxRequests /\ request' = [request EXCEPT ![r] = x]
    BY <1>0, <2>1 DEF Begin, SubTypes
  <2> HIDE DEF x
  <2>5. QED
    BY <1>3, <1>14, <2>3, <2>4 DEF ReadSub, SubTypes, rowVars, tellVars, causeVars
<1>15. ASSUME NEW r \in Requests, RequestFails(r) PROVE SubTypes'
  BY <1>2, <1>3, <1>15 DEF RequestFails, Finish, Continue, SubTypes, rowVars, tellVars, causeVars
<1>16. ASSUME NEW b \in DOMAIN subs, StripeChanges(b) PROVE SubTypes'
  <2>1. PICK new \in SubRec : Change(b, new)
    BY <1>16, StripeChangesOne
  <2>2. UNCHANGED <<rowVars, customers, requests, request, tellVars, causeVars>>
    BY <1>16 DEF StripeChanges
  <2>3. /\ \A q \in Requests : StageOK(request'[q], DOMAIN subs', change')
        /\ request' \in [Requests -> RequestRec]
    <3>1. request' = request /\ DOMAIN subs \subseteq DOMAIN subs' /\ change' = change + 1
      BY <2>1, <2>2, ChangeEffect
    <3>2. \A q \in Requests : request[q].change \in Nat
      BY <1>1 DEF RequestRec
    <3>3. \A q \in Requests : StageOK(request'[q], DOMAIN subs', change')
      BY <1>0, <1>1, <3>1, <3>2 DEF StageOK
    <3>4. QED
      BY <3>1, <3>3 DEF SubTypes
  <2>4. QED
    BY <1>4, <2>1, <2>2, <2>3
<1>17. ASSUME NEW e \in events, HandleEvent(e) PROVE SubTypes'
  <2>1. /\ e.sub \in DOMAIN subs /\ e.status \in SubStatuses
        /\ e.change \in Nat /\ e.change <= change
    BY DEF SubTypes, EventRec
  <2>2. UNCHANGED <<rowCustomer, customers, subs, change, requests, request,
                    customerRaced, retrieveFailed>> /\ events' = events \ {e}
    BY <1>17 DEF HandleEvent, rowVars
  <2>3. /\ rowSub' \in DOMAIN subs \cup {NoneId}
        /\ rowStatus' \in SubStatuses \cup {"none"}
    BY <1>17, <2>1 DEF HandleEvent, EventRow, rowVars, SubTypes
  <2>4. rowChange' \in 0..change /\ overtaken' \in BOOLEAN
    <3>1. CASE Tell(e.change)
      BY <1>0, <2>1, <3>1 DEF Tell, SubTypes
    <3>2. CASE UNCHANGED tellVars
      BY <1>0, <3>2 DEF tellVars, SubTypes
    <3>3. QED
      BY <1>17, <3>1, <3>2 DEF HandleEvent
  <2>5. eventLost' \in BOOLEAN
    BY <1>17 DEF HandleEvent, SubTypes
  <2>6. \A q \in Requests : StageOK(request'[q], DOMAIN subs', change')
    BY <1>1, <2>2 DEF StageOK
  <2>7. QED
    BY <2>2, <2>3, <2>4, <2>5, <2>6 DEF SubTypes
<1>18. CASE UNCHANGED subVars
  BY <1>18 DEF subVars, rowVars, stripeVars, tellVars, causeVars, SubTypes, StageOK
<1>19. QED
  BY <1>6, <1>7, <1>8, <1>9, <1>10, <1>11, <1>12, <1>13, <1>14, <1>15, <1>16, <1>17, <1>18
  DEF SubscriptionsNext

(* The types hold of the row and the empty account the user starts with.   *)
LEMMA SubTypesInit ==
  ASSUME SubscriptionsInit
  PROVE  SubTypes
<1> USE SubscriptionsAssumption
<1>1. subs \in [1..0 -> SubRec]
  BY DEF SubscriptionsInit
<1>2. Idle \in RequestRec /\ StageOK(Idle, DOMAIN subs, change)
  BY DEF Idle, RequestRec, StageOK, NoneId, AsksCustomer, ChangesSub, HasAnswer,
     SubscriptionsInit
<1>3. request \in [Requests -> RequestRec] /\ \A r \in Requests : StageOK(request[r], DOMAIN subs, change)
  BY <1>2 DEF SubscriptionsInit
<1>4. \E n \in 0..MaxSubs : subs \in [1..n -> SubRec]
  BY <1>1
<1>5. /\ events = {} /\ rowSub = NoneId /\ rowCustomer = NoneId /\ rowStatus = "none"
      /\ customers = 0 /\ change = 0 /\ rowChange = 0 /\ requests = 0
      /\ overtaken = FALSE /\ eventLost = FALSE /\ customerRaced = FALSE
      /\ retrieveFailed = FALSE
  BY DEF SubscriptionsInit
<1>6. /\ customers \in 0..MaxCustomers /\ change \in 0..MaxChanges
      /\ rowChange \in 0..change /\ requests \in 0..MaxRequests
  BY <1>5
<1>7. events \subseteq EventRec
      /\ \A e \in events : e.sub \in DOMAIN subs /\ e.change <= change
  BY <1>5
<1>8. QED
  BY <1>3, <1>4, <1>5, <1>6, <1>7 DEF SubTypes

(* Every column of the row, every event and every request has its declared *)
(* range; requests name subscriptions Stripe has made.                     *)
THEOREM SubscriptionsTypeCorrect == SubscriptionsSpec => []SubscriptionsTypeOK
<1> USE SubscriptionsAssumption
<1>1. SubTypes => SubscriptionsTypeOK
  <2> SUFFICES ASSUME SubTypes PROVE SubscriptionsTypeOK
    OBVIOUS
  <2>1. PICK n \in 0..MaxSubs : subs \in [1..n -> SubRec]
    BY DEF SubTypes
  <2>2. DOMAIN subs \in {1..m : m \in 0..MaxSubs} /\ DOMAIN subs \subseteq Subs
    BY <2>1 DEF Subs
  <2>3. \A r \in Requests : DOMAIN request[r] = DOMAIN Idle
    BY DEF SubTypes, RequestRec, Idle
  <2>4. \A b \in DOMAIN subs : subs[b] \in SubRec
    BY <2>1
  <2>5. QED
    BY <2>2, <2>3, <2>4 DEF SubTypes, SubscriptionsTypeOK, SubRec, EventRec
<1>2. QED
  BY <1>1, SubTypesInit, SubTypesStep, PTL DEF SubscriptionsSpec

(* The stages of a request between finding no customer and having stored   *)
(* its own, and those at which it has the row's.                           *)
Creating == {"create", "store"}
HasCustomer == {"retrieve", "check", "make"}

(* At most one request creates a customer, and only while the row has      *)
(* none; every other request, and every subscription, has the row's.       *)
OneCustomer ==
  /\ \A r, q \in Requests :
       request[r].at \in Creating /\ request[q].at \in Creating => r = q
  /\ \A r \in Requests : request[r].at \in Creating => rowCustomer = NoneId
  /\ \A r \in Requests : request[r].at \in HasCustomer =>
       request[r].customer = rowCustomer /\ rowCustomer # NoneId
  /\ \A b \in DOMAIN subs : subs[b].customer = rowCustomer

(* It stays so until two requests have created a customer at once or a     *)
(* retrieve has failed: only the first to store its customer finds no      *)
(* subscription, since each of them would have the row's, which is none.   *)
FindInv == ~customerRaced /\ ~retrieveFailed => OneCustomer

(* The two flags are never lowered, nor are those that tell of lost events *)
(* and of rows written out of order.                                       *)
LEMMA FlagsStay ==
  ASSUME SubTypes, [SubscriptionsNext]_subVars
  PROVE  /\ ~customerRaced' => ~customerRaced
         /\ ~retrieveFailed' => ~retrieveFailed
         /\ ~eventLost' => ~eventLost
         /\ ~overtaken' => ~overtaken
<1> DEFINE Stay == /\ ~customerRaced' => ~customerRaced
                   /\ ~retrieveFailed' => ~retrieveFailed
                   /\ ~eventLost' => ~eventLost
                   /\ ~overtaken' => ~overtaken
<1>1. ASSUME NEW r \in Requests, ReadCustomer(r) PROVE Stay
  BY <1>1, Zenon DEF ReadCustomer, tellVars
<1>2. ASSUME NEW r \in Requests, RetrieveCustomer(r) PROVE Stay
  <2>1. UNCHANGED <<customerRaced, eventLost, overtaken>>
    BY <1>2 DEF RetrieveCustomer, tellVars
  <2>2. ~retrieveFailed' => ~retrieveFailed
    <3>1. retrieveFailed' = retrieveFailed \/ retrieveFailed'
      BY <1>2 DEF RetrieveCustomer
    <3>2. CASE retrieveFailed' = retrieveFailed
      BY <3>2, Zenon
    <3>3. CASE retrieveFailed'
      BY <3>3, Zenon
    <3>4. QED
      BY <3>1, <3>2, <3>3, Zenon
  <2>3. QED
    BY <2>1, <2>2, Zenon
<1>3. ASSUME NEW r \in Requests,
             \/ CreateCustomer(r) \/ StoreCustomer(r) \/ CheckActive(r)
             \/ MakeSubscription(r) \/ ReadSub(r) \/ ChangeSub(r) \/ RequestFails(r)
      PROVE  Stay
  <2>1. UNCHANGED <<customerRaced, retrieveFailed, eventLost, overtaken>>
    BY <1>3 DEF CreateCustomer, StoreCustomer, CheckActive, MakeSubscription, ReadSub,
       ChangeSub, RequestFails, tellVars, causeVars
  <2>2. QED
    BY <2>1, Zenon
<1>4. ASSUME NEW r \in Requests, SaveSubscription(r) \/ SaveStatus(r) PROVE Stay
  <2>1. UNCHANGED <<customerRaced, retrieveFailed, eventLost>>
    BY <1>4 DEF SaveSubscription, SaveStatus, causeVars
  <2>2. Tell(request[r].change)
    BY <1>4 DEF SaveSubscription, SaveStatus
  <2>3. QED
    BY <2>1, <2>2, Zenon DEF Tell
<1>5. ASSUME NEW b \in DOMAIN subs, StripeChanges(b) PROVE Stay
  BY <1>5, Zenon DEF StripeChanges, tellVars, causeVars
<1>6. ASSUME NEW e \in events, HandleEvent(e) PROVE Stay
  <2>1. UNCHANGED <<customerRaced, retrieveFailed>>
    BY <1>6 DEF HandleEvent
  <2>2. ~eventLost' => ~eventLost
    <3>1. eventLost' = eventLost \/ eventLost'
      BY <1>6 DEF HandleEvent
    <3>2. CASE eventLost' = eventLost
      BY <3>2, Zenon
    <3>3. CASE eventLost'
      BY <3>3, Zenon
    <3>4. QED
      BY <3>1, <3>2, <3>3, Zenon
  <2>3. Tell(e.change) \/ overtaken' = overtaken
    BY <1>6 DEF HandleEvent, tellVars
  <2>4. ~overtaken' => ~overtaken
    <3>1. CASE Tell(e.change)
      BY <3>1, Zenon DEF Tell
    <3>2. CASE overtaken' = overtaken
      BY <3>2, Zenon
    <3>3. QED
      BY <2>3, <3>1, <3>2, Zenon
  <2>5. QED
    BY <2>1, <2>2, <2>4, Zenon
<1>7. CASE UNCHANGED subVars
  BY <1>7, Zenon DEF subVars, tellVars, causeVars
<1>8. QED
  BY <1>1, <1>2, <1>3, <1>4, <1>5, <1>6, <1>7 DEF SubscriptionsNext

(* A step that raises neither flag keeps all requests at one customer.     *)
LEMMA FindStep ==
  ASSUME SubTypes, FindInv, [SubscriptionsNext]_subVars
  PROVE  FindInv'
<1> SUFFICES ASSUME ~customerRaced', ~retrieveFailed' PROVE OneCustomer'
  BY DEF FindInv
<1>1. OneCustomer /\ ~customerRaced /\ ~retrieveFailed
  BY FlagsStay DEF FindInv
<1>2. \A r \in Requests : request[r] \in RequestRec
  BY DEF SubTypes
<1>3. request \in [Requests -> RequestRec]
  BY DEF SubTypes
<1>4. Idle.at \notin Creating \cup HasCustomer
  BY DEF Idle, Creating, HasCustomer
<1>5. ASSUME NEW r \in Requests, NEW x, request' = [request EXCEPT ![r] = x],
             x.at \in Creating => request[r].at \in Creating,
             x.at \in HasCustomer => x.customer = rowCustomer /\ rowCustomer # NoneId,
             UNCHANGED rowCustomer,
             \A b \in DOMAIN subs' : subs'[b].customer = rowCustomer
      PROVE  OneCustomer'
  <2>1. \A q \in Requests : q # r => request'[q] = request[q]
    BY <1>3, <1>5
  <2>2. request'[r] = x
    BY <1>3, <1>5
  <2>3. \A q \in Requests : request'[q].at \in Creating => request[q].at \in Creating
    BY <1>5, <2>1, <2>2
  <2>4. \A q \in Requests : request'[q].at \in HasCustomer =>
          request'[q].customer = rowCustomer /\ rowCustomer # NoneId
    BY <1>1, <1>5, <2>1, <2>2 DEF OneCustomer
  <2>5. QED
    BY <1>1, <1>5, <2>3, <2>4 DEF OneCustomer
<1>6. ASSUME NEW b, NEW new \in SubRec, Change(b, new),
             \/ b \in DOMAIN subs
             \/ Cardinality(DOMAIN subs) < MaxSubs /\ b = Cardinality(DOMAIN subs) + 1,
             new.customer = rowCustomer
      PROVE  \A x \in DOMAIN subs' : subs'[x].customer = rowCustomer
  <2>1. DOMAIN subs' = DOMAIN subs \cup {b} /\ subs'[b] = new
        /\ \A x \in DOMAIN subs \ {b} : subs'[x] = subs[x]
    BY <1>6, ChangeEffect
  <2>2. QED
    BY <1>1, <1>6, <2>1 DEF OneCustomer
<1>7. ASSUME NEW r \in Requests, ReadCustomer(r) PROVE OneCustomer'
  <2>1. UNCHANGED <<rowCustomer, subs>>
    BY <1>7 DEF ReadCustomer, rowVars, stripeVars
  <2>2. CASE rowCustomer = NoneId
    <3>1. request' = [request EXCEPT ![r] = [Idle EXCEPT !.at = "create"]]
      BY <1>7, <2>2 DEF ReadCustomer, Begin
    <3>2. \A q \in Requests : request[q].at \notin Creating
      BY <1>7, <2>2 DEF ReadCustomer, Creating
    <3>3. \A q \in Requests : q # r => request'[q] = request[q]
      BY <1>3, <3>1
    <3>4. request'[r].at = "create"
      BY <1>3, <3>1 DEF Idle
    <3>5. "create" \notin HasCustomer
      BY DEF HasCustomer
    <3>6. QED
      BY <1>1, <2>1, <2>2, <3>2, <3>3, <3>4, <3>5 DEF OneCustomer
  <2>3. CASE rowCustomer # NoneId
    <3> DEFINE x == [Idle EXCEPT !.at = "retrieve", !.customer = rowCustomer]
    <3>1. request' = [request EXCEPT ![r] = x]
      BY <1>7, <2>3 DEF ReadCustomer, Begin
    <3>2. x.at \notin Creating /\ x.customer = rowCustomer
      BY DEF Idle, Creating
    <3> HIDE DEF x
    <3>3. QED
      BY <1>1, <1>5, <2>1, <2>3, <3>1, <3>2 DEF OneCustomer
  <2>4. QED
    BY <2>2, <2>3
<1>8. ASSUME NEW r \in Requests, RetrieveCustomer(r) PROVE OneCustomer'
  <2> DEFINE x == [request[r] EXCEPT !.at = "check"]
  <2>1. GoTo(r, "check") /\ UNCHANGED rowCustomer
    BY <1>8 DEF RetrieveCustomer
  <2>2. request' = [request EXCEPT ![r] = x] /\ UNCHANGED <<rowCustomer, subs>>
    BY <1>8, <2>1 DEF RetrieveCustomer, GoTo, Continue, stripeVars
  <2>3. x.at = "check" /\ x.customer = request[r].customer
    BY <1>2 DEF RequestRec
  <2>4. request[r].customer = rowCustomer /\ rowCustomer # NoneId
    BY <1>1, <1>8 DEF RetrieveCustomer, OneCustomer, HasCustomer
  <2>5. x.at \notin Creating
    BY <2>3 DEF Creating
  <2> HIDE DEF x
  <2>6. QED
    BY <1>1, <1>5, <2>2, <2>3, <2>4, <2>5 DEF OneCustomer
<1>9. ASSUME NEW r \in Requests, CreateCustomer(r) PROVE OneCustomer'
  <2> DEFINE x == [request[r] EXCEPT !.at = "store", !.customer = customers']
  <2>1. request' = [request EXCEPT ![r] = x] /\ UNCHANGED <<rowCustomer, subs>>
    BY <1>9 DEF CreateCustomer, Continue, rowVars
  <2>2. x.at = "store" /\ request[r].at \in Creating
    BY <1>2, <1>9 DEF RequestRec, CreateCustomer, Creating
  <2>3. x.at \notin HasCustomer
    BY <2>2 DEF HasCustomer
  <2> HIDE DEF x
  <2>4. QED
    BY <1>1, <1>5, <2>1, <2>2, <2>3 DEF OneCustomer
<1>10. ASSUME NEW r \in Requests, StoreCustomer(r) PROVE OneCustomer'
  <2> DEFINE x == [request[r] EXCEPT !.at = "check"]
  <2>1. request' = [request EXCEPT ![r] = x]
    BY <1>10 DEF StoreCustomer, GoTo, Continue
  <2>2. x.at = "check" /\ x.customer = request[r].customer
    BY <1>2 DEF RequestRec
  <2>3. rowCustomer = NoneId /\ request[r].at \in Creating
    BY <1>1, <1>10 DEF StoreCustomer, OneCustomer, Creating
  <2>4. request[r].customer \in Customers /\ NoneId \notin Customers
    BY <1>10 DEF StoreCustomer, SubTypes, StageOK, AsksCustomer, Customers, NoneId
  <2>5. DOMAIN subs = {}
    <3>1. \A b \in DOMAIN subs : subs[b].customer \in Customers
      BY DEF SubTypes, SubRec
    <3>2. QED
      BY <1>1, <2>3, <2>4, <3>1 DEF OneCustomer
  <2>6. rowCustomer' = request[r].customer /\ UNCHANGED subs
    BY <1>10 DEF StoreCustomer, stripeVars
  <2> HIDE DEF x
  <2>7. \A q \in Requests : q # r => request'[q] = request[q] /\ request[q].at \notin Creating
    BY <1>1, <1>3, <2>1, <2>3 DEF OneCustomer
  <2>8. request'[r] = x
    BY <1>3, <2>1
  <2>9. "check" \notin Creating
    BY DEF Creating
  <2>10. \A q \in Requests : q # r => request[q].at \notin HasCustomer
    BY <1>1, <2>3 DEF OneCustomer
  <2>11. QED
    BY <2>2, <2>4, <2>5, <2>6, <2>7, <2>8, <2>9, <2>10 DEF OneCustomer
<1>11. ASSUME NEW r \in Requests, CheckActive(r) PROVE OneCustomer'
  <2>1. PICK x \in {Idle, [request[r] EXCEPT !.at = "make"]} : request' = [request EXCEPT ![r] = x]
    BY <1>11 DEF CheckActive, GoTo, Finish, Continue
  <2>2. UNCHANGED <<rowCustomer, subs>>
    BY <1>11 DEF CheckActive, rowVars, stripeVars
  <2>3. request[r].customer = rowCustomer /\ rowCustomer # NoneId
    BY <1>1, <1>11 DEF CheckActive, OneCustomer, HasCustomer
  <2>4. CASE x = Idle
    BY <1>1, <1>4, <1>5, <2>1, <2>2, <2>4 DEF OneCustomer
  <2>5. CASE x = [request[r] EXCEPT !.at = "make"]
    <3>1. x.at = "make" /\ x.customer = rowCustomer
      BY <1>2, <2>3, <2>5 DEF RequestRec
    <3>2. x.at \notin Creating
      BY <3>1 DEF Creating
    <3>3. QED
      BY <1>1, <1>5, <2>1, <2>2, <2>3, <3>1, <3>2 DEF OneCustomer
  <2>6. QED
    BY <2>1, <2>4, <2>5
<1>12. ASSUME NEW r \in Requests, MakeSubscription(r) PROVE OneCustomer'
  <2>1. PICK b \in Subs, new \in SubRec :
           /\ new = [customer |-> request[r].customer, status |-> "incomplete", ending |-> FALSE]
           /\ Cardinality(DOMAIN subs) < MaxSubs /\ b = Cardinality(DOMAIN subs) + 1
           /\ Change(b, new)
           /\ request' = [request EXCEPT ![r] =
                [at |-> "save", customer |-> NoneId, sub |-> b,
                 status |-> "incomplete", change |-> change']]
    BY <1>12, MakeChanges
  <2> DEFINE x == [at |-> "save", customer |-> NoneId, sub |-> b,
                   status |-> "incomplete", change |-> change']
  <2>2. request[r].customer = rowCustomer
    BY <1>1, <1>12 DEF MakeSubscription, OneCustomer, HasCustomer
  <2>3. new.customer = rowCustomer
    BY <2>1, <2>2
  <2>4. x.at \notin Creating \cup HasCustomer
    BY DEF Creating, HasCustomer
  <2>5. request' = [request EXCEPT ![r] = x] /\ UNCHANGED rowCustomer
    BY <1>12, <2>1 DEF MakeSubscription, rowVars
  <2> HIDE DEF x
  <2>6. \A y \in DOMAIN subs' : subs'[y].customer = rowCustomer
    BY <1>6, <2>1, <2>3
  <2>7. QED
    BY <1>5, <2>4, <2>5, <2>6
<1>13. ASSUME NEW r \in Requests, ChangeSub(r) PROVE OneCustomer'
  <2>1. PICK b \in DOMAIN subs, new \in SubRec :
           /\ new.customer = subs[b].customer
           /\ Change(b, new)
           /\ request' = [request EXCEPT ![r] =
                [at |-> "saveStatus", customer |-> NoneId, sub |-> b,
                 status |-> new.status, change |-> change']]
    BY <1>13, RequestChanges
  <2> DEFINE x == [at |-> "saveStatus", customer |-> NoneId, sub |-> b,
                   status |-> new.status, change |-> change']
  <2>2. new.customer = rowCustomer
    BY <1>1, <2>1 DEF OneCustomer
  <2>3. x.at \notin Creating \cup HasCustomer
    BY DEF Creating, HasCustomer
  <2>4. request' = [request EXCEPT ![r] = x] /\ UNCHANGED rowCustomer
    BY <1>13, <2>1 DEF ChangeSub, rowVars
  <2> HIDE DEF x
  <2>5. \A y \in DOMAIN subs' : subs'[y].customer = rowCustomer
    BY <1>6, <2>1, <2>2
  <2>6. QED
    BY <1>5, <2>3, <2>4, <2>5
<1>14. ASSUME NEW r \in Requests, SaveSubscription(r) \/ SaveStatus(r) \/ RequestFails(r)
       PROVE  OneCustomer'
  <2>1. request' = [request EXCEPT ![r] = Idle] /\ UNCHANGED <<rowCustomer, subs>>
    BY <1>14 DEF SaveSubscription, SaveStatus, RequestFails, Finish, Continue, rowVars, stripeVars
  <2>2. QED
    BY <1>1, <1>4, <1>5, <2>1 DEF OneCustomer
<1>15. ASSUME NEW r \in Requests, ReadSub(r) PROVE OneCustomer'
  <2>1. PICK w \in ChangesSub : Begin(r, [Idle EXCEPT !.at = w, !.sub = rowSub])
    BY <1>15 DEF ReadSub, ChangesSub
  <2> DEFINE x == [Idle EXCEPT !.at = w, !.sub = rowSub]
  <2>2. x.at = w /\ w \notin Creating \cup HasCustomer
    BY DEF Idle, ChangesSub, Creating, HasCustomer
  <2>3. request' = [request EXCEPT ![r] = x] /\ UNCHANGED <<rowCustomer, subs>>
    BY <1>15, <2>1 DEF ReadSub, Begin, rowVars, stripeVars
  <2> HIDE DEF x
  <2>4. QED
    BY <1>1, <1>5, <2>2, <2>3 DEF OneCustomer
<1>16. ASSUME NEW b \in DOMAIN subs, StripeChanges(b) PROVE OneCustomer'
  <2>1. PICK new \in SubRec : new.customer = subs[b].customer /\ Change(b, new)
    BY <1>16, StripeChangesOne
  <2>2. UNCHANGED <<rowCustomer, request>>
    BY <1>16 DEF StripeChanges, rowVars
  <2>3. \A y \in DOMAIN subs' : subs'[y].customer = rowCustomer
    BY <1>1, <1>6, <2>1 DEF OneCustomer
  <2>4. QED
    BY <1>1, <2>2, <2>3 DEF OneCustomer
<1>17. ASSUME (\E e \in events : HandleEvent(e)) \/ UNCHANGED subVars PROVE OneCustomer'
  <2>1. UNCHANGED <<rowCustomer, request, subs>>
    BY <1>17 DEF HandleEvent, subVars, rowVars, stripeVars
  <2>2. QED
    BY <1>1, <2>1 DEF OneCustomer
<1>18. QED
  BY <1>7, <1>8, <1>9, <1>10, <1>11, <1>12, <1>13, <1>14, <1>15, <1>16, <1>17
  DEF SubscriptionsNext

(* A user starts with no requests and no subscription.                     *)
LEMMA FindInit ==
  ASSUME SubscriptionsInit
  PROVE  FindInv
BY DEF SubscriptionsInit, FindInv, OneCustomer, Idle, Creating, HasCustomer

(* The events of every subscription find the row of its user, unless two   *)
(* requests created a customer at once or a retrieve failed.               *)
THEOREM EventsAlwaysFindRow == SubscriptionsSpec => []EventsFindRow
<1>1. SubscriptionsInit => SubTypes /\ FindInv
  BY SubTypesInit, FindInit
<1>2. SubTypes /\ FindInv /\ [SubscriptionsNext]_subVars => (SubTypes /\ FindInv)'
  BY SubTypesStep, FindStep
<1>3. FindInv => EventsFindRow
  BY DEF FindInv, OneCustomer, EventsFindRow
<1>4. QED
  BY <1>1, <1>2, <1>3, PTL DEF SubscriptionsSpec

(* The answer a request r has yet to write is of the newest change.        *)
Newest(r) == request[r].at \in HasAnswer /\ request[r].change = change

(* What is still under way about the newest change says what Stripe holds. *)
NewestAgree ==
  /\ \A e \in events : e.change = change => e.status = subs[e.sub].status
  /\ \A r \in Requests : Newest(r) => request[r].status = subs[request[r].sub].status
  /\ \A e \in events, r \in Requests :
       e.change = change /\ Newest(r) => e.sub = request[r].sub

(* The row shows the newest change: the status of its subscription, or     *)
(* that one was canceled.                                                  *)
RowIsCurrent ==
  /\ rowChange = change
  /\ IF rowSub = NoneId
       THEN rowStatus = "canceled" /\ \E b \in DOMAIN subs : subs[b].status = "canceled"
       ELSE rowStatus = subs[rowSub].status

(* An answer about the newest change that is still to be written says what *)
(* the row says already.                                                   *)
AnswersAgree ==
  \A r \in Requests : Newest(r) =>
    /\ request[r].status = rowStatus
    /\ request[r].at = "save" => request[r].sub = rowSub

(* None of the causes that are known to leave a row stale took place.      *)
Calm == ~customerRaced /\ ~retrieveFailed /\ ~eventLost /\ ~overtaken

(* From the handling of the event of the newest change the row is current, *)
(* and the answer of the request that made it, if it comes later, changes  *)
(* nothing in the row.                                                     *)
HandledIsCurrent ==
  Calm /\ change > 0 /\ (\A e \in events : e.change # change) =>
    RowIsCurrent /\ AnswersAgree

CurrentInv == NewestAgree /\ HandledIsCurrent

(* After a change its own event is the only one about the newest change,   *)
(* and nobody else has an answer about it.                                 *)
LEMMA ChangeIsNewest ==
  ASSUME SubTypes, NEW b, NEW new \in SubRec, Change(b, new),
         \/ b \in DOMAIN subs
         \/ Cardinality(DOMAIN subs) < MaxSubs /\ b = Cardinality(DOMAIN subs) + 1,
         \A r \in Requests : Newest(r)' =>
           request'[r].sub = b /\ request'[r].status = new.status
  PROVE  CurrentInv'
<1>0. change \in Nat
  BY DEF SubTypes
<1> DEFINE ev == [sub |-> b, status |-> new.status, change |-> change']
<1>1. /\ subs'[b] = new /\ change' = change + 1 /\ events' = events \cup {ev}
  BY ChangeEffect
<1>2. ev.sub = b /\ ev.status = new.status /\ ev.change = change'
  OBVIOUS
<1> HIDE DEF ev
<1>3. \A e \in events : e.change \in Nat /\ e.change <= change
  BY DEF SubTypes, EventRec
<1>4. \A e \in events' : e.change = change' => e = ev
  BY <1>0, <1>1, <1>3
<1>5. NewestAgree'
  BY <1>1, <1>2, <1>4 DEF NewestAgree
<1>6. \E e \in events' : e.change = change'
  BY <1>1, <1>2
<1>7. QED
  BY <1>5, <1>6 DEF CurrentInv, HandledIsCurrent

(* A step that changes nothing at Stripe and not the row, and gives no     *)
(* request an answer, keeps what is current.                               *)
LEMMA QuietStep ==
  ASSUME SubTypes, CurrentInv, UNCHANGED <<subs, events, change, rowSub, rowStatus, rowChange>>,
         Calm' => Calm,
         \A r \in Requests : request'[r].at \in HasAnswer => request'[r] = request[r]
  PROVE  CurrentInv'
<1>1. \A r \in Requests : Newest(r)' => Newest(r) /\ request'[r] = request[r]
  BY DEF Newest
<1>2. NewestAgree'
  BY <1>1 DEF CurrentInv, NewestAgree
<1>3. RowIsCurrent => RowIsCurrent'
  BY DEF RowIsCurrent
<1>4. AnswersAgree => AnswersAgree'
  BY <1>1 DEF AnswersAgree
<1>5. QED
  BY <1>2, <1>3, <1>4 DEF CurrentInv, HandledIsCurrent

(* What is current stays so, or a cause is on record, or an event is still *)
(* to come.                                                                *)
LEMMA CurrentStep ==
  ASSUME SubTypes, FindInv, CurrentInv, [SubscriptionsNext]_subVars
  PROVE  CurrentInv'
<1>0. change \in Nat /\ rowChange \in Nat /\ rowChange <= change
  BY DEF SubTypes
<1>1. Calm' => Calm
  BY FlagsStay, Zenon DEF Calm
<1>2. request \in [Requests -> RequestRec]
  BY DEF SubTypes
<1>3. Idle.at \notin HasAnswer
  BY DEF Idle, HasAnswer
<1>4. \A r \in Requests : request[r].at \in HasAnswer =>
        /\ request[r].sub \in DOMAIN subs /\ request[r].change \in Nat
        /\ request[r].change <= change
  BY DEF SubTypes, StageOK, RequestRec
<1>5. ASSUME NEW r \in Requests, NEW x, request' = [request EXCEPT ![r] = x],
             x.at \notin HasAnswer,
             UNCHANGED <<subs, events, change, rowSub, rowStatus, rowChange>>
      PROVE  CurrentInv'
  <2>1. \A q \in Requests : request'[q].at \in HasAnswer => request'[q] = request[q]
    BY <1>2, <1>5
  <2>2. QED
    BY <1>1, <1>5, <2>1, QuietStep
<1>6. ASSUME NEW r \in Requests, ReadCustomer(r) PROVE CurrentInv'
  <2>1. PICK x \in {[Idle EXCEPT !.at = "create"],
                    [Idle EXCEPT !.at = "retrieve", !.customer = rowCustomer]} :
          request' = [request EXCEPT ![r] = x]
    BY <1>6 DEF ReadCustomer, Begin
  <2>2. x.at \notin HasAnswer
    BY <2>1 DEF Idle, HasAnswer
  <2>3. UNCHANGED <<subs, events, change, rowSub, rowStatus, rowChange>>
    BY <1>6 DEF ReadCustomer, rowVars, stripeVars, tellVars
  <2>4. QED
    BY <1>5, <2>1, <2>2, <2>3
<1>7. ASSUME NEW r \in Requests, NEW at \in {"check", "create", "make"}, GoTo(r, at)
      PROVE  \E x : request' = [request EXCEPT ![r] = x] /\ x.at \notin HasAnswer
  <2> DEFINE x == [request[r] EXCEPT !.at = at]
  <2>1. request' = [request EXCEPT ![r] = x]
    BY <1>7 DEF GoTo, Continue
  <2>2. request[r] \in RequestRec
    BY <1>2
  <2>3. x.at = at
    BY <2>2 DEF RequestRec
  <2>4. x.at \notin HasAnswer
    BY <1>7, <2>3 DEF HasAnswer
  <2> HIDE DEF x
  <2>5. QED
    BY <2>1, <2>4
<1>8. ASSUME NEW r \in Requests,
             RetrieveCustomer(r) \/ StoreCustomer(r) \/ CheckActive(r) \/ RequestFails(r)
      PROVE  CurrentInv'
  <2>1. \/ \E at \in {"check", "create", "make"} : GoTo(r, at)
        \/ request' = [request EXCEPT ![r] = Idle]
    BY <1>8 DEF RetrieveCustomer, StoreCustomer, CheckActive, RequestFails, Finish, Continue
  <2>2. UNCHANGED <<subs, events, change, rowSub, rowStatus, rowChange>>
    BY <1>8 DEF RetrieveCustomer, StoreCustomer, CheckActive, RequestFails, rowVars,
       stripeVars, tellVars
  <2>3. \E x : request' = [request EXCEPT ![r] = x] /\ x.at \notin HasAnswer
    BY <1>3, <1>7, <2>1
  <2>4. QED
    BY <1>5, <2>2, <2>3
<1>9. ASSUME NEW r \in Requests, CreateCustomer(r) PROVE CurrentInv'
  <2> DEFINE x == [request[r] EXCEPT !.at = "store", !.customer = customers']
  <2>1. request' = [request EXCEPT ![r] = x]
    BY <1>9 DEF CreateCustomer, Continue
  <2>2. x.at = "store"
    BY <1>2 DEF RequestRec
  <2>3. x.at \notin HasAnswer
    BY <2>2 DEF HasAnswer
  <2>4. UNCHANGED <<subs, events, change, rowSub, rowStatus, rowChange>>
    BY <1>9 DEF CreateCustomer, rowVars, tellVars
  <2> HIDE DEF x
  <2>5. QED
    BY <1>5, <2>1, <2>3, <2>4
<1>10. ASSUME NEW r \in Requests, ReadSub(r) PROVE CurrentInv'
  <2>1. PICK w \in ChangesSub : Begin(r, [Idle EXCEPT !.at = w, !.sub = rowSub])
    BY <1>10 DEF ReadSub, ChangesSub
  <2> DEFINE x == [Idle EXCEPT !.at = w, !.sub = rowSub]
  <2>2. x.at \notin HasAnswer
    BY DEF Idle, ChangesSub, HasAnswer
  <2>3. request' = [request EXCEPT ![r] = x]
    BY <2>1 DEF Begin
  <2>4. UNCHANGED <<subs, events, change, rowSub, rowStatus, rowChange>>
    BY <1>10 DEF ReadSub, rowVars, stripeVars, tellVars
  <2> HIDE DEF x
  <2>5. QED
    BY <1>5, <2>2, <2>3, <2>4
<1>11. ASSUME NEW r \in Requests, NEW b, NEW new \in SubRec, Change(b, new),
              \/ b \in DOMAIN subs
              \/ Cardinality(DOMAIN subs) < MaxSubs /\ b = Cardinality(DOMAIN subs) + 1,
              \A q \in Requests \ {r} : request'[q] = request[q],
              request'[r].sub = b, request'[r].status = new.status
       PROVE  CurrentInv'
  <2>1. change' = change + 1
    BY <1>11, ChangeEffect
  <2>2. \A q \in Requests : Newest(q)' => q = r
    BY <1>0, <1>4, <1>11, <2>1 DEF Newest
  <2>3. \A q \in Requests : Newest(q)' =>
          request'[q].sub = b /\ request'[q].status = new.status
    BY <1>11, <2>2
  <2>4. QED
    BY <1>11, <2>3, ChangeIsNewest
<1>12. ASSUME NEW r \in Requests, MakeSubscription(r) PROVE CurrentInv'
  <2>1. PICK b \in Subs, new \in SubRec :
           /\ new.status = "incomplete"
           /\ Cardinality(DOMAIN subs) < MaxSubs /\ b = Cardinality(DOMAIN subs) + 1
           /\ Change(b, new)
           /\ request' = [request EXCEPT ![r] =
                [at |-> "save", customer |-> NoneId, sub |-> b,
                 status |-> "incomplete", change |-> change']]
    BY <1>12, MakeChanges
  <2> DEFINE x == [at |-> "save", customer |-> NoneId, sub |-> b,
                   status |-> "incomplete", change |-> change']
  <2>2. request' = [request EXCEPT ![r] = x] /\ x.sub = b /\ x.status = new.status
    BY <2>1
  <2>3. \A q \in Requests \ {r} : request'[q] = request[q]
    BY <1>2, <2>2
  <2>4. request'[r].sub = b /\ request'[r].status = new.status
    BY <1>2, <2>2
  <2>5. QED
    BY <1>11, <2>1, <2>3, <2>4
<1>13. ASSUME NEW r \in Requests, ChangeSub(r) PROVE CurrentInv'
  <2>1. PICK b \in DOMAIN subs, new \in SubRec :
           /\ Change(b, new)
           /\ request' = [request EXCEPT ![r] =
                [at |-> "saveStatus", customer |-> NoneId, sub |-> b,
                 status |-> new.status, change |-> change']]
    BY <1>13, RequestChanges
  <2> DEFINE x == [at |-> "saveStatus", customer |-> NoneId, sub |-> b,
                   status |-> new.status, change |-> change']
  <2>2. request' = [request EXCEPT ![r] = x] /\ x.sub = b /\ x.status = new.status
    BY <2>1
  <2>3. \A q \in Requests \ {r} : request'[q] = request[q]
    BY <1>2, <2>2
  <2>4. request'[r].sub = b /\ request'[r].status = new.status
    BY <1>2, <2>2
  <2>5. QED
    BY <1>11, <2>1, <2>3, <2>4
<1>14. ASSUME NEW b \in DOMAIN subs, StripeChanges(b) PROVE CurrentInv'
  <2>1. PICK new \in SubRec : Change(b, new)
    BY <1>14, StripeChangesOne
  <2>2. change' = change + 1 /\ request' = request
    BY <1>14, <2>1, ChangeEffect DEF StripeChanges
  <2>3. \A q \in Requests : ~ Newest(q)'
    BY <1>0, <1>4, <2>2 DEF Newest
  <2>4. QED
    BY <2>1, <2>3, ChangeIsNewest
<1>15. ASSUME NEW r \in Requests, SaveSubscription(r) \/ SaveStatus(r) PROVE CurrentInv'
  <2>1. /\ request' = [request EXCEPT ![r] = Idle]
        /\ UNCHANGED <<subs, events, change>>
        /\ Tell(request[r].change) /\ rowStatus' = request[r].status
        /\ \/ request[r].at = "save" /\ rowSub' = request[r].sub
           \/ request[r].at = "saveStatus" /\ rowSub' = rowSub
    BY <1>15 DEF SaveSubscription, SaveStatus, Finish, Continue, stripeVars
  <2>2. request[r].at \in HasAnswer
    BY <2>1 DEF HasAnswer
  <2>3. \A q \in Requests : request'[q].at \in HasAnswer => request'[q] = request[q]
    BY <1>2, <1>3, <2>1
  <2>4. \A q \in Requests : Newest(q)' => Newest(q) /\ request'[q] = request[q]
    BY <2>1, <2>3 DEF Newest
  <2>5. NewestAgree'
    BY <2>1, <2>4 DEF CurrentInv, NewestAgree
  <2>6. ASSUME Calm', change > 0, \A e \in events : e.change # change
        PROVE  RowIsCurrent' /\ AnswersAgree'
    <3>1. RowIsCurrent /\ AnswersAgree
      BY <1>1, <2>6 DEF CurrentInv, HandledIsCurrent
    <3>2. ~ (request[r].change < rowChange)
      BY <2>1, <2>6, Zenon DEF Tell, Calm
    <3>3. rowChange = change
      BY <3>1 DEF RowIsCurrent
    <3>4. request[r].change = change
      BY <1>0, <1>4, <2>2, <3>2, <3>3
    <3>5. Newest(r)
      BY <2>2, <3>4 DEF Newest
    <3>6. rowStatus' = rowStatus /\ rowSub' = rowSub
      BY <2>1, <3>1, <3>5 DEF AnswersAgree
    <3>7. rowChange' = rowChange
      BY <1>0, <2>1, <3>3, <3>4 DEF Tell
    <3>8. RowIsCurrent'
      BY <2>1, <3>1, <3>6, <3>7 DEF RowIsCurrent
    <3>9. AnswersAgree'
      BY <2>4, <3>1, <3>6 DEF AnswersAgree
    <3>10. QED
      BY <3>8, <3>9
  <2>7. HandledIsCurrent'
    BY <2>1, <2>6 DEF HandledIsCurrent
  <2>8. QED
    BY <2>5, <2>7 DEF CurrentInv
<1>16. ASSUME NEW e \in events, HandleEvent(e) PROVE CurrentInv'
  <2>1. UNCHANGED <<rowCustomer, subs, change, request>> /\ events' = events \ {e}
    BY <1>16 DEF HandleEvent, rowVars
  <2>2. \A q \in Requests : Newest(q)' => Newest(q)
    BY <2>1 DEF Newest
  <2>3. NewestAgree'
    BY <2>1, <2>2 DEF CurrentInv, NewestAgree
  <2>4. ASSUME Calm', change > 0, \A d \in events' : d.change # change
        PROVE  RowIsCurrent' /\ AnswersAgree'
    <3>1. e.sub \in DOMAIN subs /\ e.change \in Nat /\ e.change <= change
      BY DEF SubTypes, EventRec
    <3>2. rowCustomer = subs[e.sub].customer
      BY <1>1, <2>4, <3>1 DEF Calm, FindInv, OneCustomer
    <3>3. EventRow(e) /\ Tell(e.change)
      <4>1. ~ (eventLost' = TRUE)
        BY <2>4 DEF Calm
      <4>2. QED
        BY <1>16, <3>2, <4>1 DEF HandleEvent
    <3>4. ~ (e.change < rowChange)
      BY <2>4, <3>3, Zenon DEF Tell, Calm
    <3>5. e.change = change
      <4>1. CASE \A d \in events : d.change # change
        <5>1. rowChange = change
          BY <1>1, <2>4, <4>1 DEF CurrentInv, HandledIsCurrent, RowIsCurrent
        <5>2. QED
          BY <1>0, <3>1, <3>4, <5>1
      <4>2. CASE \E d \in events : d.change = change
        BY <2>1, <2>4, <4>2
      <4>3. QED
        BY <4>1, <4>2
    <3>6. e.status = subs[e.sub].status
      BY <3>5 DEF CurrentInv, NewestAgree
    <3>7. rowChange' = change
      BY <1>0, <3>3, <3>5 DEF Tell
    <3>8. /\ rowStatus' = e.status
          /\ e.status = "canceled" => rowSub' = NoneId
          /\ e.status # "canceled" => rowSub' = e.sub
      BY <3>3 DEF EventRow, Deletion
    <3>9. e.sub # NoneId
      BY DEF SubTypes, EventRec, Subs, NoneId
    <3>10. RowIsCurrent'
      BY <2>1, <3>1, <3>6, <3>7, <3>8, <3>9 DEF RowIsCurrent
    <3>11. ASSUME NEW r \in Requests, Newest(r)
           PROVE  request[r].status = e.status /\ request[r].sub = e.sub
      BY <3>5, <3>6, <3>11 DEF CurrentInv, NewestAgree
    <3>12. \A r \in Requests : request[r].at = "save" => request[r].status = "incomplete"
      BY DEF SubTypes, StageOK
    <3>13. AnswersAgree'
      BY <2>1, <2>2, <3>8, <3>11, <3>12 DEF AnswersAgree
    <3>14. QED
      BY <3>10, <3>13
  <2>5. HandledIsCurrent'
    BY <2>1, <2>4 DEF HandledIsCurrent
  <2>6. QED
    BY <2>3, <2>5 DEF CurrentInv
<1>17. ASSUME UNCHANGED subVars PROVE CurrentInv'
  <2>1. UNCHANGED <<subs, events, change, rowSub, rowStatus, rowChange, request>>
    BY <1>17 DEF subVars, rowVars, stripeVars, tellVars
  <2>2. QED
    BY <1>1, <2>1, QuietStep
<1>18. QED
  BY <1>6, <1>8, <1>9, <1>10, <1>12, <1>13, <1>14, <1>15, <1>16, <1>17 DEF SubscriptionsNext

(* With no request or event in progress the row shows what Stripe last     *)
(* said, unless one of the four causes that are known took place.          *)
THEOREM QuietRowAlwaysCurrent == SubscriptionsSpec => []QuietRowIsCurrent
<1>1. SubscriptionsInit => SubTypes /\ FindInv /\ CurrentInv
  <2>1. SubscriptionsInit => CurrentInv
    BY DEF SubscriptionsInit, CurrentInv, NewestAgree, HandledIsCurrent, Newest, Idle, HasAnswer
  <2>2. QED
    BY <2>1, SubTypesInit, FindInit
<1>2. SubTypes /\ FindInv /\ CurrentInv /\ [SubscriptionsNext]_subVars
        => (SubTypes /\ FindInv /\ CurrentInv)'
  BY SubTypesStep, FindStep, CurrentStep
<1>3. CurrentInv => QuietRowIsCurrent
  BY DEF CurrentInv, HandledIsCurrent, Calm, RowIsCurrent, QuietRowIsCurrent
<1>4. QED
  BY <1>1, <1>2, <1>3, PTL DEF SubscriptionsSpec

-----------------------------------------------------------------------------
(* Credits, gateway and public proxy                                       *)

(* Every step of Credits keeps every variable in its range.                *)
LEMMA CreditsTypesStep ==
  ASSUME CreditsTypeOK, [CreditsNext]_creditsVars
  PROVE  CreditsTypeOK'
<1> USE CreditsAssumption DEF CreditsTypeOK, MoveTo, Stages
<1>1. CASE CreditsCrash
  BY <1>1 DEF CreditsCrash
<1>2. ASSUME NEW s \in Sessions, Topup(s) \/ PayCheckout(s) PROVE CreditsTypeOK'
  BY <1>2 DEF Topup, PayCheckout
<1>3. ASSUME NEW s \in Sessions, VerifySession(s) PROVE CreditsTypeOK'
  BY <1>3 DEF VerifySession
<1>4. ASSUME NEW s \in Sessions, NEW d \in Deliveries, Deliver(s, d) PROVE CreditsTypeOK'
  BY <1>4 DEF Deliver, Post
<1>5. ASSUME NEW s \in Sessions, NEW d \in Deliveries,
             SkipDuplicate(s, d) \/ TakeAsNew(s, d)
      PROVE  CreditsTypeOK'
  <2>1. delivery' \in [Sessions -> [Deliveries -> Stages]]
    <3>1. MoveTo(s, d, "idle") \/ MoveTo(s, d, "insert")
      BY <1>5 DEF SkipDuplicate, TakeAsNew
    <3>2. CASE MoveTo(s, d, "idle")
      BY <3>2
    <3>3. CASE MoveTo(s, d, "insert")
      BY <3>3
    <3>4. QED
      BY <3>1, <3>2, <3>3
  <2>2. answered' \subseteq Sessions
    BY <1>5 DEF SkipDuplicate, TakeAsNew
  <2>3. UNCHANGED <<repeats, checkout, recorded, lastSession, hookCredits, verifyCredits,
                    failures, lostCredit>>
    BY <1>5 DEF SkipDuplicate, TakeAsNew
  <2>4. QED
    BY <2>1, <2>2, <2>3
<1>6. ASSUME NEW s \in Sessions, NEW d \in Deliveries, RecordEvent(s, d) PROVE CreditsTypeOK'
  BY <1>6 DEF RecordEvent
<1>7. ASSUME NEW s \in Sessions, NEW d \in Deliveries, HookCredit(s, d) PROVE CreditsTypeOK'
  BY <1>7 DEF HookCredit
<1>8. ASSUME NEW s \in Sessions, NEW d \in Deliveries, HookCreditFails(s, d)
      PROVE  CreditsTypeOK'
  BY <1>8 DEF HookCreditFails
<1>9. CASE UNCHANGED creditsVars
  BY <1>9 DEF creditsVars
<1>10. QED
  BY <1>1, <1>2, <1>3, <1>4, <1>5, <1>6, <1>7, <1>8, <1>9 DEF CreditsNext, Handle

(* A session the success page credited last may be ahead of the others by  *)
(* one; every other session is not ahead of them.                          *)
Others(s) == Sum(verifyCredits, Sessions \ {s})

NotAhead ==
  \A s \in Sessions :
    /\ verifyCredits[s] <= 1 + Others(s)
    /\ lastSession # s => verifyCredits[s] <= Others(s)

(* A credit of one session is one more among the others of every other     *)
(* session, and it is given only to a session that is not ahead.           *)
LEMMA NotAheadStep ==
  ASSUME CreditsTypeOK, NotAhead, [CreditsNext]_creditsVars
  PROVE  NotAhead'
<1> USE CreditsAssumption
<1>0. \A s \in Sessions : Sessions \ {s} \in SUBSET Sessions /\ IsFiniteSet(Sessions \ {s})
  BY FS_Subset
<1>1. \A s \in Sessions : verifyCredits[s] \in Nat /\ Others(s) \in Nat
  BY <1>0, SumUnfolds DEF CreditsTypeOK, Others
<1>2. ASSUME NEW s \in Sessions, VerifySession(s) PROVE NotAhead'
  <2>1. verifyCredits \in [Sessions -> Nat]
    BY DEF CreditsTypeOK
  <2>2. /\ verifyCredits' = [verifyCredits EXCEPT ![s] = verifyCredits[s] + 1]
        /\ lastSession # s /\ lastSession' = s
    BY <1>2 DEF VerifySession, VerifyAllowed
  <2>3. /\ verifyCredits'[s] = verifyCredits[s] + 1
        /\ \A r \in Sessions \ {s} : verifyCredits'[r] = verifyCredits[r]
    BY <2>1, <2>2
  <2>4. Others(s)' = Others(s)
    BY <1>0, <2>1, <2>3, SumSame DEF Others
  <2>5. ASSUME NEW r \in Sessions \ {s} PROVE Others(r)' = Others(r) + 1
    BY <1>0, <2>1, <2>3, SumGrows DEF Others
  <2>6. ASSUME NEW r \in Sessions \ {s}
        PROVE  verifyCredits'[r] <= Others(r)' /\ verifyCredits'[r] <= 1 + Others(r)'
    BY <1>1, <2>3, <2>5 DEF NotAhead
  <2>7. verifyCredits'[s] <= 1 + Others(s)'
    BY <1>1, <2>2, <2>3, <2>4 DEF NotAhead
  <2>8. QED
    BY <2>2, <2>6, <2>7 DEF NotAhead
<1>3. CASE UNCHANGED <<verifyCredits, lastSession>>
  BY <1>3 DEF NotAhead, Others
<1>4. (\E s \in Sessions : VerifySession(s)) \/ UNCHANGED <<verifyCredits, lastSession>>
  BY DEF CreditsNext, CreditsCrash, Topup, PayCheckout, Deliver, Handle, SkipDuplicate,
     TakeAsNew, RecordEvent, HookCredit, HookCreditFails, creditsVars
<1>5. QED
  BY <1>2, <1>3, <1>4

(* Credits keeps its types.                                                *)
LEMMA CreditsTypes == CreditsSpec => []CreditsTypeOK
<1>1. CreditsInit => CreditsTypeOK
  BY CreditsAssumption DEF CreditsInit, CreditsTypeOK, Stages
<1>2. QED
  BY <1>1, CreditsTypesStep, PTL DEF CreditsSpec

(* The success page credits a session again only after it has credited     *)
(* another one: last_payment_session_id remembers one session, and that is *)
(* all it prevents.                                                        *)
THEOREM VerifyCreditsAlwaysAlternate == CreditsSpec => []VerifyCreditsAlternate
<1>1. CreditsInit => NotAhead
  <2> SUFFICES ASSUME CreditsInit, NEW s \in Sessions
               PROVE  verifyCredits[s] <= 1 + Others(s) /\ verifyCredits[s] <= Others(s)
    BY DEF NotAhead
  <2>1. \A r \in Sessions : verifyCredits[r] = 0
    BY DEF CreditsInit
  <2>2. IsFiniteSet(Sessions \ {s})
    BY CreditsAssumption, FS_Subset
  <2>3. Others(s) = 0
    BY <2>1, <2>2, SumOfNothing DEF Others
  <2>4. QED
    BY <2>1, <2>3
<1>2. NotAhead => VerifyCreditsAlternate
  BY DEF NotAhead, Others, Sum, VerifyCreditsAlternate
<1>3. CreditsTypeOK /\ NotAhead /\ [CreditsNext]_creditsVars => NotAhead'
  BY NotAheadStep
<1>4. QED
  BY <1>1, <1>2, <1>3, CreditsTypes, PTL DEF CreditsSpec

(* The status lines a client may have at each stage: the handlers write    *)
(* the second one, if ever, only when a stream of CONNECT fails.           *)
RepliesByStage ==
  /\ stage \in {"idle", "auth", "opening", "connected"} => replies = 0
  /\ stage = "streaming" => replies <= 1

(* The gateway's types, flag by flag.                                      *)
GatewayTypes ==
  /\ kind \in {"http", "connect"}
  /\ stage \in {"idle", "auth", "refused", "opening", "connected", "streaming",
                "over", "crashed"}
  /\ peer \in {"open", "ended", "closed"} /\ upstream \in {"none", "open", "closed"}
  /\ replies \in 0..2
  /\ missed \in BOOLEAN /\ timer \in BOOLEAN
  /\ usageRecorded \in BOOLEAN /\ mute \in BOOLEAN

GatewayInv == GatewayTypes /\ RepliesByStage

(* Every step of the gateway keeps the ranges, and what may have been      *)
(* answered at each stage.                                                 *)
LEMMA GatewayStep ==
  ASSUME GatewayInv, [GatewayNext]_gatewayVars
  PROVE  GatewayInv'
<1> USE DEF GatewayInv, GatewayTypes, RepliesByStage, Before
<1>1. ASSUME NEW k \in {"http", "connect"}, GatewayRequest(k)
      PROVE  GatewayInv'
  BY <1>1 DEF GatewayRequest
<1>2. CASE AuthRefuses
  BY <1>2 DEF AuthRefuses
<1>3. CASE AuthAccepts
  BY <1>3 DEF AuthAccepts
<1>4. CASE UpstreamConnects
  BY <1>4 DEF UpstreamConnects
<1>5. CASE UpstreamReplies
  BY <1>5 DEF UpstreamReplies
<1>6. CASE UpstreamDeclines
  <2>1. replies = 0 /\ replies' = 1 /\ stage' = "over"
    BY <1>6 DEF UpstreamDeclines
  <2>2. /\ kind' = kind /\ upstream' = "closed" /\ peer' = "closed"
        /\ usageRecorded' = TRUE /\ timer' = FALSE /\ missed' = missed /\ mute' = mute
    BY <1>6 DEF UpstreamDeclines
  <2>3. RepliesByStage' /\ replies' \in 0..2
    BY <2>1
  <2>4. stage' \in {"idle", "auth", "refused", "opening", "connected", "streaming",
                    "over", "crashed"}
    BY <2>1
  <2>5. QED
    BY <2>2, <2>3, <2>4
<1>7. CASE UpstreamFails \/ GatewayTimeout
  <2>1. UpstreamFails
    BY <1>7 DEF GatewayTimeout
  <2>2. replies \in 0..1 /\ replies' \in {replies, replies + 1}
    BY <2>1 DEF UpstreamFails
  <2>3. replies' \in 0..2
    BY <2>2
  <2>4. stage' = "over"
    BY <2>1 DEF UpstreamFails
  <2>5. RepliesByStage'
    BY <2>4
  <2>6. /\ kind' = kind /\ upstream' = "closed" /\ peer' \in {"closed", peer}
        /\ usageRecorded' = TRUE /\ timer' = FALSE /\ missed' = missed /\ mute' = mute
    BY <2>1 DEF UpstreamFails
  <2>7. QED
    BY <2>3, <2>4, <2>5, <2>6
<1>8. CASE UpstreamEnds
  BY <1>8 DEF UpstreamEnds
<1>9. CASE UpstreamCuts
  BY <1>9 DEF UpstreamCuts
<1>10. CASE PeerEnds \/ PeerCloses \/ ResetDuringAuth
  BY <1>10 DEF PeerEnds, PeerCloses, PeerMayClose, ResetDuringAuth
<1>11. CASE UNCHANGED gatewayVars
  BY <1>11 DEF gatewayVars
<1>12. QED
  BY <1>1, <1>2, <1>3, <1>4, <1>5, <1>6, <1>7, <1>8, <1>9, <1>10, <1>11 DEF GatewayNext

(* The head is written with the first step of the response and no other:   *)
(* an error finds the response started or ended and leaves it.             *)
HeadWithReply ==
  /\ reply = "none" <=> heads = 0
  /\ backend \in {"none", "waiting"} => reply = "none"
  /\ backend = "streaming" => reply = "started"

(* No step of the outer proxy writes a second head.                        *)
LEMMA ProxyStep ==
  ASSUME ProxyTypeOK, HeadWithReply, [ProxyNext]_proxyVars
  PROVE  ProxyTypeOK' /\ HeadWithReply'
<1> USE DEF ProxyTypeOK, HeadWithReply
<1>1. CASE PublicRequest \/ BackendResponds
  BY <1>1 DEF PublicRequest, BackendResponds
<1>2. CASE BackendEnds \/ BackendCuts
  BY <1>2 DEF BackendEnds, BackendCuts
<1>3. CASE InnerTimeout
  BY <1>3 DEF InnerTimeout, AnswerError
<1>4. CASE BackendFails
  <2>1. backend' = "over" /\ hangup' \in BOOLEAN /\ cut' = cut
    BY <1>4 DEF BackendFails
  <2>2. \/ reply = "none" /\ reply' = "ended" /\ heads' = heads + 1
        \/ reply # "none" /\ reply' = reply /\ heads' = heads
    BY <1>4 DEF BackendFails, AnswerError
  <2>3. heads' \in 0..1 /\ (reply' = "none" <=> heads' = 0)
        /\ reply' \in {"none", "started", "ended"}
    BY <2>2
  <2>4. QED
    BY <2>1, <2>3
<1>5. CASE UNCHANGED proxyVars
  BY <1>5 DEF proxyVars
<1>6. QED
  BY <1>1, <1>2, <1>3, <1>4, <1>5 DEF ProxyNext

-----------------------------------------------------------------------------
(* The parts together                                                      *)

(* A step of the services is a step of one part and leaves the others      *)
(* alone.                                                                  *)
LEMMA PartSteps ==
  ASSUME [ServicesNext]_servicesVars
  PROVE  /\ [CreditsNext]_creditsVars /\ [SubscriptionsNext]_subVars
         /\ [McpNext]_mcpVars /\ [RateNext]_rateVars /\ [GatewayNext]_gatewayVars
         /\ [ProxyNext]_proxyVars /\ [ShutdownNext]_shutdownVars
BY DEF ServicesNext, servicesVars

(* What is proved of a part by itself holds of the services: their         *)
(* behaviours are behaviours of every part, its fairness included.         *)
THEOREM ServicesRunTheParts ==
  ServicesSpec => /\ CreditsSpec /\ SubscriptionsSpec /\ McpSpec /\ RateSpec
                  /\ GatewaySpec /\ ProxySpec /\ ShutdownSpec
<1>1. ServicesInit => /\ CreditsInit /\ SubscriptionsInit /\ McpInit /\ RateInit
                      /\ GatewayInit /\ ProxyInit /\ ShutdownInit
  BY DEF ServicesInit
<1>2. QED
  BY <1>1, PartSteps, PTL
  DEF ServicesSpec, CreditsSpec, SubscriptionsSpec, McpSpec, RateSpec, GatewaySpec,
      ProxySpec, ShutdownSpec

(* Every variable of every part keeps its declared range; among them the   *)
(* heads of a public response, of which there is never a second one.       *)
THEOREM ServicesTypeCorrect == ServicesSpec => []ServicesTypeOK
<1>1. CreditsSpec => []CreditsTypeOK
  BY CreditsTypes
<1>2. RateSpec => []RateTypeOK
  BY RateTypesInit, RateTypesStep, PTL DEF RateSpec
<1>3. GatewaySpec => []GatewayTypeOK
  <2>1. GatewayInit => GatewayInv
    <3> SUFFICES ASSUME GatewayInit PROVE GatewayInv
      OBVIOUS
    <3>1. kind = "http" /\ stage = "idle" /\ peer = "open" /\ upstream = "none" /\ replies = 0
      BY DEF GatewayInit
    <3>2. /\ missed \in BOOLEAN /\ timer \in BOOLEAN
          /\ usageRecorded \in BOOLEAN /\ mute \in BOOLEAN
      BY DEF GatewayInit
    <3>3. QED
      BY <3>1, <3>2 DEF GatewayInv, GatewayTypes, RepliesByStage
  <2>2. GatewayInv => GatewayTypeOK
    BY DEF GatewayInv, GatewayTypes, GatewayTypeOK
  <2>3. QED
    BY <2>1, <2>2, GatewayStep, PTL DEF GatewaySpec
<1>4. ProxySpec => []ProxyTypeOK
  <2>1. ProxyInit => ProxyTypeOK /\ HeadWithReply
    <3> SUFFICES ASSUME ProxyInit PROVE ProxyTypeOK /\ HeadWithReply
      OBVIOUS
    <3>1. backend = "none" /\ reply = "none" /\ heads = 0
      BY DEF ProxyInit
    <3>2. hangup \in BOOLEAN /\ cut \in BOOLEAN
      BY DEF ProxyInit
    <3>3. QED
      BY <3>1, <3>2 DEF ProxyTypeOK, HeadWithReply
  <2>2. ProxyTypeOK /\ HeadWithReply /\ [ProxyNext]_proxyVars
          => ProxyTypeOK' /\ HeadWithReply'
    BY ProxyStep
  <2>3. QED
    BY <2>1, <2>2, PTL DEF ProxySpec
<1>5. ShutdownInv => ShutdownTypeOK
  BY DEF ShutdownInv
<1>6. QED
  BY <1>1, <1>2, <1>3, <1>4, <1>5, ServicesRunTheParts, SubscriptionsTypeCorrect, McpPending,
     ShutdownInvariant, PTL DEF ServicesTypeOK
=============================================================================

--------------------------- MODULE WsRelay_proof ---------------------------
(***************************************************************************)
(* Proofs about WsRelay, for every finite set of tunnels, names and public *)
(* WebSockets, every set of keys and all values of the limits: the         *)
(* registry of proxied WebSockets agrees with its count index and with the *)
(* maps of tunnels, and the messages relayed either way arrive in order    *)
(* and without a gap.                                                      *)
(***************************************************************************)
EXTENDS WsRelay, TunnelLife_proof, FiniteSetTheorems, SequenceTheorems, Sums

-----------------------------------------------------------------------------
(* The tunnels of the relay are tunnels                                    *)

(* A step of the relay is a step of TunnelLife or leaves the tunnels alone.*)
LEMMA WsLifeStep ==
  ASSUME [WsNext]_wsVars
  PROVE  [LifeNext]_lifeVars
<1>1. ASSUME NEW w \in Ws,
             \/ \E s \in Subdomain : PublicConnect(w, s)
             \/ UpgradeTimesOut(w) \/ PublicSends(w) \/ PublicCloses(w)
             \/ LocalAnswers(w) \/ LocalSends(w) \/ LocalCloses(w)
      PROVE  UNCHANGED lifeVars
  BY <1>1 DEF PublicConnect, UpgradeTimesOut, PublicSends, PublicCloses,
     LocalAnswers, LocalSends, LocalCloses
<1>2. CASE CliReads \/ CliLosesTunnel \/ \E c \in Conn : ServerReads(c)
  BY <1>2 DEF CliReads, CliLosesTunnel, ServerReads
<1>3. ASSUME NEW c \in Conn,
             Register(c) \/ CloseTunnel(c) \/ SocketCloses(c) \/ Finalized(c)
      PROVE  LifeNext
  BY <1>3 DEF Register, CloseTunnel, SocketCloses, Finalized, LifeNext
<1>4. CASE ExpirySweep \/ Crash
  BY <1>4 DEF ExpirySweep, Crash, LifeNext
<1>5. CASE UNCHANGED wsVars
  BY <1>5 DEF wsVars
<1>6. QED
  BY <1>1, <1>2, <1>3, <1>4, <1>5 DEF WsNext

(* The WebSockets relayed through a tunnel do not interfere with its life. *)
THEOREM WsImplementsLife == WsSpec => LifeSpec
<1>1. WsInit => LifeInit
  BY DEF WsInit
<1>2. [WsNext]_wsVars => [LifeNext]_lifeVars
  BY WsLifeStep
<1>3. QED
  BY <1>1, <1>2, PTL DEF WsSpec, LifeSpec

-----------------------------------------------------------------------------
(* Type correctness                                                        *)

(* The first message of one of several queues is taken off it.             *)
LEMMA TailTypes ==
  ASSUME NEW S, NEW T, NEW q \in [S -> Seq(T)], NEW c \in S, q[c] # <<>>
  PROVE  Head(q[c]) \in T /\ [q EXCEPT ![c] = Tail(@)] \in [S -> Seq(T)]
OBVIOUS

(* A message joins one of several queues.                                  *)
LEMMA AppendTypes ==
  ASSUME NEW S, NEW T, NEW q \in [S -> Seq(T)], NEW c \in S, NEW m \in T
  PROVE  [q EXCEPT ![c] = Append(@, m)] \in [S -> Seq(T)]
OBVIOUS

(* A number is appended to what end e has received on w.                   *)
LEMMA GotTypes ==
  ASSUME WsTypeOK, NEW e \in End, NEW w \in Ws, NEW n \in Nat,
         got' = [got EXCEPT ![e][w] = Append(@, n)]
  PROVE  got' \in [End -> [Ws -> Seq(Nat)]]
<1>1. got[e] \in [Ws -> Seq(Nat)]
  BY DEF WsTypeOK
<1>2. [got[e] EXCEPT ![w] = Append(@, n)] \in [Ws -> Seq(Nat)]
  BY <1>1, AppendTypes
<1>3. QED
  BY <1>2 DEF WsTypeOK

(* Sending leaves queues of messages, whether the message is sent or       *)
(* dropped.                                                                *)
LEMMA SendTypes ==
  ASSUME WsTypeOK, NEW m \in Message
  PROVE  /\ \A c \in Conn \cup {None} :
              SendToCli(c, m) => toCli' \in [Conn -> Seq(Message)]
         /\ SendToServer(m) => toServer' \in [Conn -> Seq(Message)]
<1> USE DEF WsTypeOK
<1>1. ASSUME NEW c \in Conn \cup {None}, SendToCli(c, m)
      PROVE  toCli' \in [Conn -> Seq(Message)]
  <2>1. CASE c # None /\ c = cliSocket /\ sock[c] = "OPEN"
    BY <1>1, <2>1, AppendTypes DEF SendToCli
  <2>2. CASE ~ (c # None /\ c = cliSocket /\ sock[c] = "OPEN")
    BY <1>1, <2>2 DEF SendToCli
  <2>3. QED
    BY <2>1, <2>2
<1>2. ASSUME SendToServer(m)
      PROVE  toServer' \in [Conn -> Seq(Message)]
  <2>1. CASE cliSocket # None /\ sock[cliSocket] # "CLOSED"
    BY <1>2, <2>1, AppendTypes DEF SendToServer
  <2>2. CASE ~ (cliSocket # None /\ sock[cliSocket] # "CLOSED")
    BY <1>2, <2>2 DEF SendToServer
  <2>3. QED
    BY <2>1, <2>2
<1>3. QED
  BY <1>1, <1>2

(* The messages there are.                                                 *)
LEMMA Messages ==
  /\ \A w \in Ws : \A t \in {"upgrade", "accept", "reject", "close"} :
       [type |-> t, ws |-> w] \in Message
  /\ \A w \in Ws, n \in Nat : [type |-> "data", ws |-> w, n |-> n] \in Message
  /\ \A m \in Message : m.ws \in Ws /\ (m.type = "data" => m.n \in Nat)
BY DEF Message

(* Sets of WebSockets are finite.                                          *)
LEMMA WsFinite ==
  ASSUME NEW W \in SUBSET Ws
  PROVE  IsFiniteSet(W) /\ Cardinality(W) \in Nat
BY WsAssumption, FS_Subset, FS_CardinalityType

(* The registry keeps its type.                                            *)
LEMMA RegistryTypes ==
  ASSUME WsTypeOK
  PROVE  /\ \A w \in Ws, s \in Subdomain : registerProxiedWebSocket(w, s) =>
              proxiedWebSockets' \subseteq Ws /\ wsCountBySubdomain' \in [Subdomain -> Nat]
         /\ \A W \in SUBSET Ws : unregisterProxiedWebSocket(W) =>
              proxiedWebSockets' \subseteq Ws /\ wsCountBySubdomain' \in [Subdomain -> Nat]
         /\ \A W \in SUBSET Ws : ClosePublic(W) =>
              publicSocket' \in [Ws -> {"NONE", "OPEN", "CLOSING", "CLOSED"}]
<1> USE DEF WsTypeOK
<1>1. ASSUME NEW w \in Ws, NEW s \in Subdomain, registerProxiedWebSocket(w, s)
      PROVE  proxiedWebSockets' \subseteq Ws /\ wsCountBySubdomain' \in [Subdomain -> Nat]
  BY <1>1 DEF registerProxiedWebSocket
<1>2. ASSUME NEW W \in SUBSET Ws, unregisterProxiedWebSocket(W)
      PROVE  proxiedWebSockets' \subseteq Ws /\ wsCountBySubdomain' \in [Subdomain -> Nat]
  <2>1. ASSUME NEW m \in Nat, NEW n \in Nat PROVE Minus(m, n) \in Nat
    BY DEF Minus
  <2>2. ASSUME NEW s \in Subdomain
        PROVE  Cardinality({w \in W \cap proxiedWebSockets : host[w] = s}) \in Nat
    BY WsFinite
  <2>3. QED
    BY <1>2, <2>1, <2>2 DEF unregisterProxiedWebSocket
<1>3. ASSUME NEW W \in SUBSET Ws, ClosePublic(W)
      PROVE  publicSocket' \in [Ws -> {"NONE", "OPEN", "CLOSING", "CLOSED"}]
  BY <1>3 DEF ClosePublic
<1>4. QED
  BY <1>1, <1>2, <1>3

(* What happens to the local ends when one of them is answered or closed.  *)
LEMMA LocalEffect ==
  ASSUME NEW w \in Ws, LocalAnswers(w) \/ LocalCloses(w)
  PROVE  /\ UNCHANGED <<lifeVars, publicVars, proxiedVars, cliSocket, toCli, got>>
         /\ localWs[w] \in {"connecting", "open", "closing"}
         /\ \E x \in {"open", "closed"} :
              /\ localWs' = [localWs EXCEPT ![w] = x]
              /\ x = "open" => localWs[w] = "connecting"
<1>1. CASE LocalAnswers(w)
  BY <1>1 DEF LocalAnswers
<1>2. CASE LocalCloses(w)
  BY <1>2 DEF LocalCloses, connections, dataVars
<1>3. QED
  BY <1>1, <1>2

(* What happens to them when the CLI reads a message.                      *)
LEMMA CliReadsLocal ==
  ASSUME WsTypeOK, CliReads
  PROVE  LET m == Head(toCli[cliSocket]) IN
         \/ /\ m.type = "upgrade" /\ UNCHANGED got
            /\ localWs' = [localWs EXCEPT ![m.ws] = "connecting"]
         \/ m.type = "data" /\ UNCHANGED localWs
         \/ /\ m.type = "close" /\ UNCHANGED got
            /\ \/ UNCHANGED localWs
               \/ /\ localWs[m.ws] \in {"open", "closing"}
                  /\ \E x \in {"closing", "closed"} : localWs' = [localWs EXCEPT ![m.ws] = x]
<1> DEFINE m == Head(toCli[cliSocket])
<1>1. CASE m.type # "close"
  BY <1>1 DEF CliReads
<1>2. CASE m.type = "close"
  <2>1. UNCHANGED got
        /\ \/ localWs' = [localWs EXCEPT ![m.ws] = IF m.ws \in connections THEN "closed" ELSE @]
           \/ localWs[m.ws] = "open" /\ localWs' = [localWs EXCEPT ![m.ws] = "closing"]
    BY <1>2 DEF CliReads
  <2>2. m.ws \notin connections =>
          [localWs EXCEPT ![m.ws] = IF m.ws \in connections THEN "closed" ELSE @] = localWs
    BY DEF WsTypeOK
  <2> HIDE DEF m
  <2>3. m.ws \in connections => localWs[m.ws] \in {"open", "closing"}
    BY DEF connections
  <2>4. QED
    BY <1>2, <2>1, <2>2, <2>3 DEF m
<1>3. QED
  BY <1>1, <1>2

(* The variables of the public side keep their types when the registry and *)
(* the upgrades change as they do.                                         *)
LEMMA WsTypesStep ==
  ASSUME WsTypeOK, [WsNext]_wsVars
  PROVE  WsTypeOK'
<1> USE DEF WsTypeOK
<1>0. LifeTypeOK'
  BY WsLifeStep, LifeTypesStep
<1>1. ASSUME NEW w \in Ws, NEW s \in Subdomain, PublicConnect(w, s)
      PROVE  WsTypeOK'
  <2> DEFINE c == findBySubdomain(s)
  <2>1. c \in Conn \cup {None} /\ [type |-> "upgrade", ws |-> w] \in Message
    BY Messages DEF findBySubdomain, LifeTypeOK, MapTypeOK
  <2>2. toCli' \in [Conn -> Seq(Message)]
    BY <1>1, <2>1, SendTypes DEF PublicConnect
  <2>3. proxiedWebSockets' \subseteq Ws /\ wsCountBySubdomain' \in [Subdomain -> Nat]
    BY <1>1, RegistryTypes DEF PublicConnect, proxiedVars
  <2>4. /\ host' \in [Ws -> Subdomain \cup {None}] /\ via' \in [Ws -> Conn \cup {None}]
        /\ upgrade' \in [Ws -> {"none", "pending", "relaying", "ended"}]
        /\ publicSocket' \in [Ws -> {"NONE", "OPEN", "CLOSING", "CLOSED"}]
    <3>1. \/ UNCHANGED <<host, via>>
          \/ host' = [host EXCEPT ![w] = s] /\ via' = [via EXCEPT ![w] = c]
      BY <1>1 DEF PublicConnect
    <3>2. \E x \in {"pending", "ended"} : upgrade' = [upgrade EXCEPT ![w] = x]
      BY <1>1 DEF PublicConnect
    <3>3. \E x \in {"OPEN", "CLOSING", "CLOSED"} :
            publicSocket' = [publicSocket EXCEPT ![w] = x]
      BY <1>1 DEF PublicConnect
    <3> HIDE DEF c
    <3>4. host' \in [Ws -> Subdomain \cup {None}] /\ via' \in [Ws -> Conn \cup {None}]
      <4>1. host \in [Ws -> Subdomain \cup {None}] /\ via \in [Ws -> Conn \cup {None}]
        BY <1>0 DEF WsTypeOK
      <4> HIDE DEF WsTypeOK
      <4>2. CASE UNCHANGED <<host, via>>
        BY <4>1, <4>2
      <4>3. CASE host' = [host EXCEPT ![w] = s] /\ via' = [via EXCEPT ![w] = c]
        <5>1. c \in Conn \cup {None}
          BY <2>1
        <5>2. QED
          BY <4>1, <4>3, <5>1
      <4>4. QED
        BY <3>1, <4>2, <4>3
    <3>5. upgrade' \in [Ws -> {"none", "pending", "relaying", "ended"}]
      BY <3>2
    <3>6. publicSocket' \in [Ws -> {"NONE", "OPEN", "CLOSING", "CLOSED"}]
      BY <3>3
    <3>7. QED
      BY <3>4, <3>5, <3>6
  <2>5. QED
    BY <1>0, <1>1, <2>2, <2>3, <2>4 DEF PublicConnect, cliVars, dataVars
<1>2. ASSUME NEW w \in Ws, UpgradeTimesOut(w)
      PROVE  WsTypeOK'
  <2>1. {w} \in SUBSET Ws
    OBVIOUS
  <2>2. QED
    BY <1>0, <1>2, <2>1, RegistryTypes DEF UpgradeTimesOut, cliVars, dataVars
<1>3. ASSUME NEW w \in Ws, PublicSends(w)
      PROVE  WsTypeOK'
  <2> DEFINE n == sent["public"][w] + 1
  <2>1. n \in Nat /\ [type |-> "data", ws |-> w, n |-> n] \in Message
    <3>1. sent["public"] \in [Ws -> Nat]
      BY DEF End
    <3>2. n \in Nat
      BY <3>1
    <3>3. QED
      BY <3>2, Messages
  <2>2. toCli' \in [Conn -> Seq(Message)]
    <3>1. via[w] \in Conn \cup {None}
      OBVIOUS
    <3>2. QED
      BY <1>3, <2>1, <3>1, SendTypes DEF PublicSends
  <2>3. sent' \in [End -> [Ws -> Nat]]
    BY <1>3, <2>1 DEF PublicSends
  <2>4. QED
    BY <1>0, <1>3, <2>2, <2>3 DEF PublicSends, publicVars, proxiedVars, cliVars
<1>4. ASSUME NEW w \in Ws, PublicCloses(w)
      PROVE  WsTypeOK'
  <2>1. {w} \in SUBSET Ws /\ [type |-> "close", ws |-> w] \in Message
        /\ findBySubdomain(host[w]) \in Conn \cup {None}
    BY Messages DEF findBySubdomain, LifeTypeOK, MapTypeOK
  <2>2. toCli' \in [Conn -> Seq(Message)]
    BY <1>4, <2>1, SendTypes DEF PublicCloses
  <2>3. proxiedWebSockets' \subseteq Ws /\ wsCountBySubdomain' \in [Subdomain -> Nat]
    BY <1>4, <2>1, RegistryTypes DEF PublicCloses, proxiedVars
  <2>4. QED
    BY <1>0, <1>4, <2>2, <2>3 DEF PublicCloses, cliVars, dataVars
<1>5. ASSUME NEW w \in Ws, LocalAnswers(w)
      PROVE  WsTypeOK'
  <2>1. toServer' \in [Conn -> Seq(Message)]
    BY <1>5, Messages, SendTypes DEF LocalAnswers
  <2>2. localWs' \in [Ws -> {"none", "connecting", "open", "closing", "closed"}]
    BY <1>5, LocalEffect
  <2>3. sent' \in [End -> [Ws -> Nat]] /\ early' \in [Ws -> Nat]
    <3>1. CASE UNCHANGED <<sent, early>>
      BY <3>1
    <3>2. CASE \E n \in Nat : /\ sent' = [sent EXCEPT !["local"][w] = n]
                              /\ early' = [early EXCEPT ![w] = n]
      <4>1. sent \in [End -> [Ws -> Nat]] /\ early \in [Ws -> Nat] /\ "local" \in End
        BY <1>0 DEF WsTypeOK, End
      <4>2. QED
        BY <3>2, <4>1
    <3>3. \A n \in 0 .. MaxData[Used] - Sent : n \in Nat
      OBVIOUS
    <3>4. QED
      BY <1>5, <3>1, <3>2, <3>3 DEF LocalAnswers
  <2>4. QED
    BY <1>0, <1>5, <2>1, <2>2, <2>3 DEF LocalAnswers, publicVars, proxiedVars
<1>6. ASSUME NEW w \in Ws, LocalSends(w)
      PROVE  WsTypeOK'
  <2> DEFINE n == sent["local"][w] + 1
  <2>1. n \in Nat /\ [type |-> "data", ws |-> w, n |-> n] \in Message
    <3>1. sent["local"] \in [Ws -> Nat]
      BY DEF End
    <3>2. n \in Nat
      BY <3>1
    <3>3. QED
      BY <3>2, Messages
  <2>2. toServer' \in [Conn -> Seq(Message)]
    BY <1>6, <2>1, SendTypes DEF LocalSends
  <2>3. sent' \in [End -> [Ws -> Nat]]
    BY <1>6, <2>1 DEF LocalSends
  <2>4. QED
    BY <1>0, <1>6, <2>2, <2>3 DEF LocalSends, publicVars, proxiedVars, cliVars
<1>7. ASSUME NEW w \in Ws, LocalCloses(w)
      PROVE  WsTypeOK'
  <2>1. toServer' \in [Conn -> Seq(Message)]
    BY <1>7, Messages, SendTypes DEF LocalCloses
  <2>2. QED
    BY <1>0, <1>7, <2>1 DEF LocalCloses, publicVars, proxiedVars, dataVars
<1>8. CASE CliReads
  <2> DEFINE m == Head(toCli[cliSocket])
  <2>1. m \in Message /\ toCli' \in [Conn -> Seq(Message)]
    BY <1>8, TailTypes DEF CliReads
  <2>2. m.ws \in Ws /\ (m.type = "data" => m.n \in Nat)
    BY <2>1, Messages
  <2>3. got' \in [End -> [Ws -> Seq(Nat)]]
    <3>1. CASE UNCHANGED got
      BY <3>1
    <3>2. CASE m.type = "data" /\ got' = [got EXCEPT !["local"][m.ws] = Append(@, m.n)]
      BY <2>2, <3>2, GotTypes DEF End
    <3>3. QED
      BY <1>8, <3>1, <3>2 DEF CliReads
  <2>4. localWs' \in [Ws -> {"none", "connecting", "open", "closing", "closed"}]
    <3>1. \/ UNCHANGED localWs
          \/ \E x \in {"connecting", "closing", "closed"} :
               localWs' = [localWs EXCEPT ![m.ws] = x]
      BY <1>8, CliReadsLocal
    <3> HIDE DEF m
    <3>2. QED
      BY <2>2, <3>1
  <2>5. QED
    BY <1>0, <1>8, <2>1, <2>3, <2>4 DEF CliReads, publicVars, proxiedVars
<1>9. CASE CliLosesTunnel
  <2>1. toCli' \in [Conn -> Seq(Message)]
    BY <1>9 DEF CliLosesTunnel
  <2>2. QED
    BY <1>0, <1>9, <2>1 DEF CliLosesTunnel, publicVars, proxiedVars, dataVars
<1>10. ASSUME NEW c \in Conn, ServerReads(c)
       PROVE  WsTypeOK'
  <2> DEFINE m == Head(toServer[c])
  <2>1. m \in Message /\ toServer' \in [Conn -> Seq(Message)]
    BY <1>10, TailTypes DEF ServerReads
  <2>2. m.ws \in Ws /\ {m.ws} \in SUBSET Ws /\ (m.type = "data" => m.n \in Nat)
    BY <2>1, Messages
  <2>3. got' \in [End -> [Ws -> Seq(Nat)]]
    <3>1. CASE UNCHANGED got
      BY <3>1
    <3>2. CASE m.type = "data" /\ got' = [got EXCEPT !["public"][m.ws] = Append(@, m.n)]
      BY <2>2, <3>2, GotTypes DEF End
    <3>3. QED
      BY <1>10, <3>1, <3>2 DEF ServerReads, Accepted, Rejected, DataForPublic, ClosedByLocal
  <2>4. /\ proxiedWebSockets' \subseteq Ws /\ wsCountBySubdomain' \in [Subdomain -> Nat]
        /\ publicSocket' \in [Ws -> {"NONE", "OPEN", "CLOSING", "CLOSED"}]
    BY <1>10, <2>2, RegistryTypes
    DEF ServerReads, Accepted, Rejected, DataForPublic, ClosedByLocal, proxiedVars
  <2>5. upgrade' \in [Ws -> {"none", "pending", "relaying", "ended"}]
    BY <1>10, <2>2 DEF ServerReads, Accepted, Rejected, DataForPublic, ClosedByLocal
  <2>6. QED
    BY <1>0, <1>10, <2>1, <2>3, <2>4, <2>5 DEF ServerReads, cliVars
<1>11. ASSUME NEW c \in Conn, Register(c) \/ CloseTunnel(c)
       PROVE  WsTypeOK'
  BY <1>0, <1>11 DEF Register, CloseTunnel, publicVars, proxiedVars, cliVars, dataVars
<1>12. ASSUME NEW c \in Conn, SocketCloses(c)
       PROVE  WsTypeOK'
  <2>1. toServer' \in [Conn -> Seq(Message)]
    BY <1>12 DEF SocketCloses
  <2>2. QED
    BY <1>0, <1>12, <2>1 DEF SocketCloses, publicVars, proxiedVars, cliVars, dataVars
<1>13. ASSUME NEW N, DropWebSockets(N),
              UNCHANGED <<host, via, cliVars, toCli, toServer, dataVars>>
       PROVE  WsTypeOK'
  <2>1. PICK W \in SUBSET Ws : ClosePublic(W) /\ unregisterProxiedWebSocket(W)
    BY <1>13 DEF DropWebSockets
  <2>2. upgrade' \in [Ws -> {"none", "pending", "relaying", "ended"}]
    BY <1>13 DEF DropWebSockets
  <2>3. QED
    BY <1>0, <1>13, <2>1, <2>2, RegistryTypes DEF cliVars, dataVars
<1>14. CASE Crash
  <2>1. toServer' \in [Conn -> Seq(Message)]
    BY <1>14 DEF Crash
  <2>2. QED
    BY <1>0, <1>14, <2>1 DEF Crash, cliVars, dataVars
<1>15. CASE UNCHANGED wsVars
  BY <1>0, <1>15 DEF wsVars, publicVars, proxiedVars, cliVars, dataVars
<1>16. QED
  BY <1>1, <1>2, <1>3, <1>4, <1>5, <1>6, <1>7, <1>8, <1>9, <1>10, <1>11, <1>12,
     <1>13, <1>14, <1>15 DEF WsNext, Finalized, ExpirySweep

(* Every variable keeps its range: what an end reads off a tunnel is a     *)
(* message some end put there.                                             *)
THEOREM WsTypeCorrect == WsSpec => []WsTypeOK
<1>1. WsInit => WsTypeOK
  BY LifeTypesInit DEF WsInit, WsTypeOK
<1>2. WsTypeOK /\ [WsNext]_wsVars => WsTypeOK'
  BY WsTypesStep
<1>3. QED
  BY <1>1, <1>2, PTL DEF WsSpec

-----------------------------------------------------------------------------
(* The count index                                                         *)

(* The proxied WebSockets of a subdomain.                                  *)
Proxied(s) == {w \in proxiedWebSockets : host[w] = s}

(* A proxied WebSocket has been addressed to a tunnel and was found one.   *)
ProxiedIsAddressed ==
  \A w \in proxiedWebSockets :
    publicSocket[w] # "NONE" /\ via[w] \in Conn /\ host[w] \in Subdomain

(* Unregistering any set of WebSockets, registered or not, lowers each     *)
(* count by as many as leave.                                              *)
LEMMA UnregisterCounts ==
  ASSUME WsTypeOK, CountAgrees, UNCHANGED host,
         NEW W \in SUBSET Ws, unregisterProxiedWebSocket(W)
  PROVE  CountAgrees'
<1> SUFFICES ASSUME NEW s \in Subdomain
             PROVE  wsCountBySubdomain'[s] = Cardinality(Proxied(s)')
  BY DEF CountAgrees, Proxied
<1> DEFINE leaving == {w \in W \cap proxiedWebSockets : host[w] = s}
<1>1. Proxied(s)' = Proxied(s) \ leaving /\ Proxied(s) \cap leaving = leaving
  BY DEF Proxied, unregisterProxiedWebSocket
<1>2. /\ Proxied(s) \in SUBSET Ws
      /\ leaving \in SUBSET Proxied(s)
  BY DEF WsTypeOK, Proxied
<1>3. IsFiniteSet(Proxied(s)) /\ Cardinality(Proxied(s)) \in Nat
  BY <1>2, WsFinite
<1>4. Cardinality(leaving) <= Cardinality(Proxied(s)) /\ Cardinality(leaving) \in Nat
  BY <1>2, <1>3, FS_Subset, FS_CardinalityType
<1>5. Cardinality(Proxied(s) \ leaving) = Cardinality(Proxied(s)) - Cardinality(leaving)
  BY <1>1, <1>3, FS_Difference
<1>6. wsCountBySubdomain[s] = Cardinality(Proxied(s))
  BY DEF CountAgrees, Proxied
<1>7. wsCountBySubdomain'[s] = Minus(wsCountBySubdomain[s], Cardinality(leaving))
  BY DEF unregisterProxiedWebSocket
<1> HIDE DEF leaving
<1>8. QED
  BY <1>1, <1>3, <1>4, <1>5, <1>6, <1>7 DEF Minus

(* Registering one that was not registered raises its tunnel's count.      *)
LEMMA RegisterCounts ==
  ASSUME WsTypeOK, CountAgrees, NEW w \in Ws, NEW s \in Subdomain,
         w \notin proxiedWebSockets, registerProxiedWebSocket(w, s),
         host' = [host EXCEPT ![w] = s]
  PROVE  CountAgrees'
<1> SUFFICES ASSUME NEW t \in Subdomain
             PROVE  wsCountBySubdomain'[t] = Cardinality(Proxied(t)')
  BY DEF CountAgrees, Proxied
<1>1. Proxied(t)' = IF t = s THEN Proxied(t) \cup {w} ELSE Proxied(t)
  BY DEF WsTypeOK, Proxied, registerProxiedWebSocket
<1>2. IsFiniteSet(Proxied(t)) /\ w \notin Proxied(t)
  BY WsFinite DEF WsTypeOK, Proxied
<1>3. Cardinality(Proxied(t) \cup {w}) = Cardinality(Proxied(t)) + 1
  BY <1>2, FS_AddElement
<1>4. wsCountBySubdomain[t] = Cardinality(Proxied(t))
  BY DEF CountAgrees, Proxied
<1>5. wsCountBySubdomain'[t] =
        IF t = s THEN wsCountBySubdomain[t] + 1 ELSE wsCountBySubdomain[t]
  BY DEF WsTypeOK, registerProxiedWebSocket
<1>6. QED
  BY <1>1, <1>3, <1>4, <1>5

(* What a step does to the registry: it registers a WebSocket that was not *)
(* there, at the tunnel found under the name; it unregisters some; or the  *)
(* server dies.  Nothing is re-addressed while it is registered.           *)
RegistryStep ==
  \/ \E w \in Ws \ proxiedWebSockets, s \in Subdomain :
       /\ registerProxiedWebSocket(w, s)
       /\ findBySubdomain(s) # None
       /\ host' = [host EXCEPT ![w] = s]
       /\ via' = [via EXCEPT ![w] = findBySubdomain(s)]
       /\ publicSocket' = [publicSocket EXCEPT ![w] = "OPEN"]
       /\ UNCHANGED lifeVars
  \/ \E W \in SUBSET Ws :
       /\ unregisterProxiedWebSocket(W)
       /\ UNCHANGED <<host, via>>
  \/ /\ UNCHANGED proxiedVars
     /\ \A w \in proxiedWebSockets : host'[w] = host[w] /\ via'[w] = via[w]
  \/ Crash

(* Every step of the relay is one of these as far as the registry goes.    *)
LEMMA RegistryStepTaken ==
  ASSUME WsTypeOK, ProxiedIsAddressed, [WsNext]_wsVars
  PROVE  RegistryStep /\ (Crash \/ \A w \in Ws :
           publicSocket[w] # "NONE" => publicSocket'[w] # "NONE")
<1> DEFINE Goal == RegistryStep /\ (Crash \/ \A w \in Ws :
             publicSocket[w] # "NONE" => publicSocket'[w] # "NONE")
<1>1. ASSUME NEW w \in Ws, NEW s \in Subdomain, PublicConnect(w, s)
      PROVE  Goal
  <2>1. w \notin proxiedWebSockets
    BY <1>1 DEF PublicConnect, ProxiedIsAddressed
  <2>2. \A v \in Ws : publicSocket[v] # "NONE" => publicSocket'[v] # "NONE"
    BY <1>1 DEF PublicConnect, WsTypeOK
  <2>3. CASE registerProxiedWebSocket(w, s) /\ ~ UNCHANGED proxiedVars
    BY <1>1, <2>1, <2>2, <2>3 DEF PublicConnect, RegistryStep
  <2>4. CASE UNCHANGED proxiedVars
    <3>1. \A v \in proxiedWebSockets : host'[v] = host[v] /\ via'[v] = via[v]
      BY <1>1, <2>1 DEF PublicConnect, WsTypeOK
    <3>2. QED
      BY <2>2, <2>4, <3>1 DEF RegistryStep
  <2>5. QED
    BY <1>1, <2>3, <2>4 DEF PublicConnect
<1>2. ASSUME NEW W \in SUBSET Ws, unregisterProxiedWebSocket(W),
             ClosePublic(W), UNCHANGED <<host, via>>
      PROVE  Goal
  BY <1>2 DEF RegistryStep, ClosePublic
<1>3. ASSUME UNCHANGED proxiedVars, UNCHANGED <<host, via>>,
             UNCHANGED publicSocket \/ \E W : ClosePublic(W)
      PROVE  Goal
  BY <1>3 DEF RegistryStep, ClosePublic
<1>4. ASSUME NEW w \in Ws, PublicCloses(w)
      PROVE  Goal
  <2>1. \A v \in Ws : publicSocket[v] # "NONE" => publicSocket'[v] # "NONE"
    BY <1>4 DEF PublicCloses, WsTypeOK
  <2>2. unregisterProxiedWebSocket({w}) \/ UNCHANGED proxiedVars
    BY <1>4 DEF PublicCloses
  <2>3. UNCHANGED <<host, via>>
    BY <1>4 DEF PublicCloses
  <2>4. QED
    BY <2>1, <2>2, <2>3 DEF RegistryStep
<1>5. ASSUME NEW w \in Ws, UpgradeTimesOut(w)
      PROVE  Goal
  BY <1>2, <1>5 DEF UpgradeTimesOut
<1>6. ASSUME NEW w \in Ws,
             PublicSends(w) \/ LocalAnswers(w) \/ LocalSends(w) \/ LocalCloses(w)
      PROVE  Goal
  BY <1>3, <1>6 DEF PublicSends, LocalAnswers, LocalSends, LocalCloses, publicVars
<1>7. CASE CliReads \/ CliLosesTunnel
  BY <1>3, <1>7 DEF CliReads, CliLosesTunnel, publicVars
<1>8. ASSUME NEW c \in Conn, ServerReads(c)
      PROVE  Goal
  <2> DEFINE m == Head(toServer[c])
  <2>1. {m.ws} \in SUBSET Ws
    BY <1>8, TailTypes, Messages DEF ServerReads, WsTypeOK
  <2>2. UNCHANGED <<host, via>>
    BY <1>8 DEF ServerReads
  <2>3. \/ unregisterProxiedWebSocket({m.ws}) /\ ClosePublic({m.ws})
        \/ UNCHANGED proxiedVars /\ (UNCHANGED publicSocket \/ ClosePublic({m.ws}))
    BY <1>8 DEF ServerReads, Accepted, Rejected, DataForPublic, ClosedByLocal, proxiedVars
  <2>4. QED
    BY <1>2, <1>3, <2>1, <2>2, <2>3
<1>9. ASSUME NEW c \in Conn, Register(c) \/ CloseTunnel(c) \/ SocketCloses(c)
      PROVE  Goal
  BY <1>3, <1>9 DEF Register, CloseTunnel, SocketCloses, publicVars
<1>10. ASSUME NEW N, DropWebSockets(N), UNCHANGED <<host, via>>
       PROVE  Goal
  <2>1. PICK W \in SUBSET Ws : ClosePublic(W) /\ unregisterProxiedWebSocket(W)
    BY <1>10 DEF DropWebSockets, WsTypeOK
  <2>2. QED
    BY <1>2, <1>10, <2>1
<1>11. CASE Crash
  BY <1>11 DEF RegistryStep
<1>12. CASE UNCHANGED wsVars
  BY <1>3, <1>12 DEF wsVars, publicVars
<1>13. QED
  BY <1>1, <1>4, <1>5, <1>6, <1>7, <1>8, <1>9, <1>10, <1>11, <1>12
  DEF WsNext, Finalized, ExpirySweep

(* Where a proxied WebSocket goes is set when it is registered and stays.  *)
LEMMA AddressedStep ==
  ASSUME WsTypeOK, ProxiedIsAddressed, [WsNext]_wsVars
  PROVE  ProxiedIsAddressed'
<1> USE RegistryStepTaken DEF ProxiedIsAddressed, WsTypeOK
<1>1. ASSUME NEW w \in Ws \ proxiedWebSockets, NEW s \in Subdomain,
             registerProxiedWebSocket(w, s), findBySubdomain(s) # None,
             host' = [host EXCEPT ![w] = s],
             via' = [via EXCEPT ![w] = findBySubdomain(s)],
             publicSocket' = [publicSocket EXCEPT ![w] = "OPEN"]
      PROVE  ProxiedIsAddressed'
  <2>1. findBySubdomain(s) \in Conn
    BY <1>1 DEF findBySubdomain, LifeTypeOK, MapTypeOK
  <2>2. QED
    BY <1>1, <2>1 DEF registerProxiedWebSocket
<1>2. ASSUME NEW W \in SUBSET Ws, unregisterProxiedWebSocket(W), UNCHANGED <<host, via>>,
             ~ Crash
      PROVE  ProxiedIsAddressed'
  BY <1>2 DEF unregisterProxiedWebSocket
<1>3. ASSUME UNCHANGED proxiedVars, ~ Crash,
             \A w \in proxiedWebSockets : host'[w] = host[w] /\ via'[w] = via[w]
      PROVE  ProxiedIsAddressed'
  BY <1>3 DEF proxiedVars
<1>4. CASE Crash
  BY <1>4 DEF Crash
<1>5. QED
  BY <1>1, <1>2, <1>3, <1>4 DEF RegistryStep

(* The count index follows the map of proxied WebSockets.                  *)
LEMMA CountStep ==
  ASSUME WsTypeOK, ProxiedIsAddressed, CountAgrees, [WsNext]_wsVars
  PROVE  CountAgrees'
<1>1. CASE \E w \in Ws \ proxiedWebSockets, s \in Subdomain :
             registerProxiedWebSocket(w, s) /\ host' = [host EXCEPT ![w] = s]
  BY <1>1, RegisterCounts
<1>2. CASE \E W \in SUBSET Ws : unregisterProxiedWebSocket(W) /\ UNCHANGED <<host, via>>
  BY <1>2, UnregisterCounts
<1>3. CASE /\ UNCHANGED proxiedVars
           /\ \A w \in proxiedWebSockets : host'[w] = host[w] /\ via'[w] = via[w]
  <2>1. \A s \in Subdomain : Proxied(s)' = Proxied(s)
    BY <1>3 DEF Proxied, proxiedVars
  <2>2. QED
    BY <1>3, <2>1 DEF CountAgrees, Proxied, proxiedVars
<1>4. CASE Crash
  <2>1. \A s \in Subdomain : Proxied(s)' = {}
    BY <1>4 DEF Crash, Proxied
  <2>2. \A s \in Subdomain : wsCountBySubdomain'[s] = 0
    BY <1>4 DEF Crash
  <2>3. QED
    BY <2>1, <2>2, FS_EmptySet DEF CountAgrees, Proxied
<1>5. QED
  BY <1>1, <1>2, <1>3, <1>4, RegistryStepTaken DEF RegistryStep

(* The number the limit of WebSockets per tunnel is checked against is the *)
(* number there is: the public client, the CLI, the timeout and the end of *)
(* the tunnel may all unregister the same WebSocket, and none is counted   *)
(* down twice or left in the count.                                        *)
THEOREM CountAlwaysAgrees == WsSpec => []CountAgrees
<1>1. WsInit => ProxiedIsAddressed /\ CountAgrees
  <2>1. WsInit => ProxiedIsAddressed
    BY DEF WsInit, ProxiedIsAddressed
  <2>2. ASSUME WsInit PROVE CountAgrees
    <3>1. \A s \in Subdomain : Proxied(s) = {} /\ wsCountBySubdomain[s] = 0
      BY <2>2 DEF WsInit, Proxied
    <3>2. QED
      BY <3>1, FS_EmptySet DEF CountAgrees, Proxied
  <2>3. QED
    BY <2>1, <2>2
<1>2. /\ WsTypeOK /\ ProxiedIsAddressed /\ CountAgrees /\ [WsNext]_wsVars
      => ProxiedIsAddressed' /\ CountAgrees'
  BY AddressedStep, CountStep
<1>3. QED
  BY <1>1, <1>2, WsTypeCorrect, PTL DEF WsSpec

-----------------------------------------------------------------------------
(* Proxied WebSockets and tunnels                                          *)

(* ProxiedHasTunnel needs the maps to agree: unregister finds the proxied  *)
(* WebSockets by the name and asks the map of names whether there is a     *)
(* tunnel, while the property is about the tunnel they were opened through.*)
WsInv == WsTypeOK /\ LifeInv /\ ProxiedIsAddressed /\ ProxiedHasTunnel

(* Unregistering names drops the WebSockets of the tunnels that had them.  *)
LEMMA DropKeepsOthers ==
  ASSUME WsInv, NEW N \in SUBSET Subdomain, DropWebSockets(N), UNCHANGED <<host, via>>,
         \A c \in Conn : tunnelsById'[c] =
           IF tunnelsById[c] \in N THEN None ELSE tunnelsById[c]
  PROVE  ProxiedHasTunnel'
<1> SUFFICES ASSUME NEW w \in proxiedWebSockets'
             PROVE  tunnelsById'[via[w]] = host[w]
  BY DEF ProxiedHasTunnel
<1>1. w \in proxiedWebSockets
  BY DEF DropWebSockets, unregisterProxiedWebSocket
<1>2. via[w] \in Conn /\ host[w] \in Subdomain /\ tunnelsById[via[w]] = host[w]
  BY <1>1 DEF WsInv, ProxiedIsAddressed, ProxiedHasTunnel
<1>3. findBySubdomain(host[w]) # None
  BY <1>2, MapAssumption DEF findBySubdomain, WsInv, LifeInv, IndexesAgree
<1>4. host[w] \notin N
  BY <1>1, <1>3 DEF DropWebSockets, unregisterProxiedWebSocket
<1>5. QED
  BY <1>2, <1>4

(* A proxied WebSocket keeps its tunnel, or leaves with it.                *)
LEMMA ProxiedStep ==
  ASSUME WsInv, [WsNext]_wsVars
  PROVE  ProxiedHasTunnel'
<1> USE DEF WsInv
<1>1. ASSUME UNCHANGED lifeVars
      PROVE  ProxiedHasTunnel'
  <2>1. tunnelsById' = tunnelsById
    BY <1>1 DEF lifeVars, mapVars
  <2>2. ASSUME NEW w \in Ws \ proxiedWebSockets, NEW s \in Subdomain,
               registerProxiedWebSocket(w, s), findBySubdomain(s) # None,
               host' = [host EXCEPT ![w] = s],
               via' = [via EXCEPT ![w] = findBySubdomain(s)]
        PROVE  ProxiedHasTunnel'
    <3>1. findBySubdomain(s) \in Conn /\ tunnelsById[findBySubdomain(s)] = s
      BY <2>2 DEF findBySubdomain, LifeInv, LifeTypeOK, MapTypeOK, IndexesAgree
    <3>2. QED
      BY <2>1, <2>2, <3>1 DEF registerProxiedWebSocket, ProxiedHasTunnel, WsTypeOK
  <2>3. CASE \E W \in SUBSET Ws :
               unregisterProxiedWebSocket(W) /\ UNCHANGED <<host, via>>
    BY <2>1, <2>3 DEF unregisterProxiedWebSocket, ProxiedHasTunnel
  <2>4. CASE /\ UNCHANGED proxiedVars
             /\ \A w \in proxiedWebSockets : host'[w] = host[w] /\ via'[w] = via[w]
    BY <2>1, <2>4 DEF proxiedVars, ProxiedHasTunnel
  <2>5. CASE Crash
    BY <2>5 DEF Crash, ProxiedHasTunnel
  <2>6. QED
    BY <2>2, <2>3, <2>4, <2>5, RegistryStepTaken DEF RegistryStep
<1>2. ASSUME NEW w \in Ws,
             \/ \E s \in Subdomain : PublicConnect(w, s)
             \/ UpgradeTimesOut(w) \/ PublicSends(w) \/ PublicCloses(w)
             \/ LocalAnswers(w) \/ LocalSends(w) \/ LocalCloses(w)
      PROVE  UNCHANGED lifeVars
  BY <1>2 DEF PublicConnect, UpgradeTimesOut, PublicSends, PublicCloses,
     LocalAnswers, LocalSends, LocalCloses
<1>3. ASSUME CliReads \/ CliLosesTunnel \/ \E c \in Conn : ServerReads(c)
      PROVE  UNCHANGED lifeVars
  BY <1>3 DEF CliReads, CliLosesTunnel, ServerReads
<1>4. ASSUME NEW c \in Conn, Register(c)
      PROVE  ProxiedHasTunnel'
  <2>1. PICK s \in Subdomain :
          tunnelsById[c] = None /\ tunnelsById' = [tunnelsById EXCEPT ![c] = s]
    BY <1>4, OpenEffect DEF Register
  <2>2. \A w \in proxiedWebSockets : via[w] \in Conn \ {c}
    BY <2>1, MapAssumption DEF ProxiedIsAddressed, ProxiedHasTunnel
  <2>3. QED
    BY <1>4, <2>1, <2>2 DEF Register, publicVars, proxiedVars, ProxiedHasTunnel
<1>5. ASSUME NEW c \in Conn, CloseTunnel(c) \/ SocketCloses(c)
      PROVE  ProxiedHasTunnel'
  BY <1>5 DEF CloseTunnel, SocketCloses, CloseSocket, Expire, SocketGone, mapVars,
     publicVars, proxiedVars, ProxiedHasTunnel
<1>6. ASSUME NEW c \in Conn, Finalized(c)
      PROVE  ProxiedHasTunnel'
  <2>1. Unregister(c) /\ DropWebSockets({name[c]}) /\ UNCHANGED <<host, via>>
    BY <1>6 DEF Finalized
  <2>2. {name[c]} \in SUBSET Subdomain
        /\ \A d \in Conn : tunnelsById'[d] =
             IF tunnelsById[d] \in {name[c]} THEN None ELSE tunnelsById[d]
    BY <2>1, UnregisterOwn
  <2>3. QED
    BY <2>1, <2>2, DropKeepsOthers
<1>7. CASE ExpirySweep
  <2>1. Sweep /\ DropWebSockets(SweptNames) /\ UNCHANGED <<host, via>>
    BY <1>7 DEF ExpirySweep
  <2>2. SweptNames \in SUBSET Subdomain
    BY DEF SweptNames, Overdue, LifeInv, LifeTypeOK, MapTypeOK
  <2>3. \A d \in Conn : tunnelsById'[d] =
          IF tunnelsById[d] \in SweptNames THEN None ELSE tunnelsById[d]
    BY <2>1, SweepEffect
  <2>4. QED
    BY <2>1, <2>2, <2>3, DropKeepsOthers
<1>8. CASE Crash
  BY <1>8 DEF Crash, ProxiedHasTunnel
<1>9. CASE UNCHANGED wsVars
  BY <1>1, <1>9 DEF wsVars
<1>10. QED
  BY <1>1, <1>2, <1>3, <1>4, <1>5, <1>6, <1>7, <1>8, <1>9 DEF WsNext

(* A proxied WebSocket belongs to a tunnel that is in the maps, the one it *)
(* was opened through: every way a tunnel leaves the maps closes its       *)
(* WebSockets, and none turns up on the next tunnel of the same name.      *)
THEOREM ProxiedAlwaysHasTunnel == WsSpec => []ProxiedHasTunnel
<1>1. WsInit => WsInv
  BY LifeInvInit, LifeTypesInit
  DEF WsInit, WsInv, WsTypeOK, ProxiedIsAddressed, ProxiedHasTunnel
<1>2. WsInv /\ [WsNext]_wsVars => WsInv'
  BY WsTypesStep, WsLifeStep, LifeInvStep, AddressedStep, ProxiedStep DEF WsInv
<1>3. QED
  BY <1>1, <1>2, PTL DEF WsSpec, WsInv

-----------------------------------------------------------------------------
(* The numbers in a queue                                                  *)

(* The recursion's equation.                                               *)
Collected(t, q, w) ==
  [i \in 0 .. Len(q) |->
     IF i = 0 THEN <<>>
     ELSE IF IsData(q[i], w) THEN Append(t[i - 1], q[i].n) ELSE t[i - 1]]

Collects(t, q, w) == t = Collected(t, q, w)

LEMMA NumbersAreCollected ==
  ASSUME NEW q, NEW w
  PROVE  Numbers(q, w) = (CHOOSE t : Collects(t, q, w))[Len(q)]
BY DEF Numbers, Collects, Collected

LEMMA DataHasNumber ==
  ASSUME NEW q \in Seq(Message), NEW w, NEW i \in 1 .. Len(q), IsData(q[i], w)
  PROVE  q[i].n \in Nat
BY DEF Message, IsData

(* The function exists.                                                    *)
LEMMA CollectsExists ==
  ASSUME NEW q \in Seq(Message), NEW w
  PROVE  \E t \in [0 .. Len(q) -> Seq(Nat)] : Collects(t, q, w)
<1> DEFINE I == 0 .. Len(q)
           Right(t, n) == \A i \in I : i <= n => t[i] = Collected(t, q, w)[i]
           Good(n) == \E t \in [I -> Seq(Nat)] : Right(t, n)
           T == {n \in Nat : ~ Good(n)}
<1>0. Len(q) \in Nat
  OBVIOUS
<1>1. \A t \in [I -> Seq(Nat)] : Collected(t, q, w) \in [I -> Seq(Nat)]
  <2> TAKE t \in [I -> Seq(Nat)]
  <2> DEFINE V(i) == IF i = 0 THEN <<>>
                     ELSE IF IsData(q[i], w) THEN Append(t[i - 1], q[i].n) ELSE t[i - 1]
  <2>1. ASSUME NEW i \in I PROVE V(i) \in Seq(Nat)
    <3>1. CASE i = 0
      BY <3>1
    <3>2. CASE i # 0
      <4>1. i \in 1 .. Len(q) /\ i - 1 \in I
        BY <1>0, <3>2
      <4>2. t[i - 1] \in Seq(Nat) /\ (IsData(q[i], w) => q[i].n \in Nat)
        BY <4>1, DataHasNumber
      <4>3. QED
        BY <3>2, <4>2
    <3>3. QED
      BY <3>1, <3>2
  <2>2. Collected(t, q, w) = [i \in I |-> V(i)]
    BY DEF Collected
  <2> HIDE DEF V
  <2>3. QED
    BY <2>1, <2>2
<1>2. Good(0)
  <2> DEFINE z == [i \in I |-> <<>>]
  <2>1. z \in [I -> Seq(Nat)]
    OBVIOUS
  <2>2. Right(z, 0)
    BY <1>0 DEF Collected
  <2>3. QED
    BY <2>1, <2>2
<1>3. ASSUME NEW n \in Nat, Good(n) PROVE Good(n + 1)
  <2>1. PICK t \in [I -> Seq(Nat)] : Right(t, n)
    BY <1>3
  <2> DEFINE u == Collected(t, q, w)
  <2>2. ASSUME NEW i \in I, i <= n + 1
        PROVE  u[i] = Collected(u, q, w)[i]
    <3>1. CASE i = 0
      BY <1>0, <3>1 DEF Collected
    <3>2. CASE i # 0
      <4>1. i - 1 \in I /\ i - 1 <= n
        BY <1>0, <2>2, <3>2
      <4>2. t[i - 1] = u[i - 1]
        BY <2>1, <4>1
      <4>3. u[i] = IF IsData(q[i], w) THEN Append(t[i - 1], q[i].n) ELSE t[i - 1]
        BY <3>2 DEF Collected
      <4>4. Collected(u, q, w)[i]
              = IF IsData(q[i], w) THEN Append(u[i - 1], q[i].n) ELSE u[i - 1]
        BY <3>2 DEF Collected
      <4>5. QED
        BY <4>2, <4>3, <4>4
    <3>3. QED
      BY <3>1, <3>2
  <2>3. u \in [I -> Seq(Nat)]
    BY <1>1
  <2>4. QED
    BY <2>2, <2>3
<1>4. T = {}
  <2> SUFFICES ASSUME T # {} PROVE FALSE
    OBVIOUS
  <2>1. PICK n \in T : \A m \in T : n <= m
    BY Least
  <2>2. n # 0
    BY <1>2
  <2>3. n \in Nat /\ ~ Good(n)
    OBVIOUS
  <2> HIDE DEF Good
  <2>4. n - 1 \in Nat /\ ~ (n <= n - 1) /\ (n - 1) + 1 = n
    BY <2>2, <2>3
  <2>5. Good(n - 1)
    BY <2>1, <2>4
  <2>6. Good((n - 1) + 1)
    BY <1>3, <2>4, <2>5
  <2>7. QED
    BY <2>3, <2>4, <2>6
<1>5. PICK t \in [I -> Seq(Nat)] : Right(t, Len(q))
  BY <1>0, <1>4
<1>6. t = Collected(t, q, w)
  <2> DEFINE u == Collected(t, q, w)
  <2>1. u \in [I -> Seq(Nat)] /\ \A i \in I : t[i] = u[i]
    BY <1>0, <1>1, <1>5
  <2> HIDE DEF u
  <2>2. t = u
    BY <2>1
  <2>3. QED
    BY <2>2 DEF u
<1>7. QED
  BY <1>6 DEF Collects

(* Two such functions agree as far as their queues do.                     *)
LEMMA CollectAgree ==
  ASSUME NEW q \in Seq(Message), NEW p \in Seq(Message), NEW w,
         Len(p) <= Len(q), \A i \in 1 .. Len(p) : p[i] = q[i],
         NEW t, Collects(t, q, w), NEW u, Collects(u, p, w)
  PROVE  \A i \in 0 .. Len(p) : t[i] = u[i]
<1> DEFINE T == {i \in 0 .. Len(p) : t[i] # u[i]}
<1>0. Len(p) \in Nat /\ Len(q) \in Nat
  OBVIOUS
<1>1. t = Collected(t, q, w) /\ u = Collected(u, p, w)
  BY DEF Collects
<1> SUFFICES ASSUME T # {} PROVE FALSE
  OBVIOUS
<1>2. PICK n \in T : \A m \in T : n <= m
  <2>1. T \subseteq Nat
    BY <1>0
  <2>2. QED
    BY <2>1, Least
<1>3. n \in 0 .. Len(p) /\ n \in 0 .. Len(q) /\ t[n] # u[n]
  BY <1>0
<1>4. t[0] = <<>> /\ u[0] = <<>>
  BY <1>0, <1>1 DEF Collected
<1>5. n # 0 /\ n - 1 \in 0 .. Len(p) /\ ~ (n <= n - 1) /\ n \in 1 .. Len(p)
  BY <1>0, <1>3, <1>4
<1>6. t[n - 1] = u[n - 1] /\ p[n] = q[n]
  BY <1>2, <1>5
<1>7. t[n] = IF IsData(q[n], w) THEN Append(t[n - 1], q[n].n) ELSE t[n - 1]
  BY <1>1, <1>3, <1>5 DEF Collected
<1>8. u[n] = IF IsData(p[n], w) THEN Append(u[n - 1], p[n].n) ELSE u[n - 1]
  BY <1>1, <1>3, <1>5 DEF Collected
<1>9. QED
  BY <1>3, <1>6, <1>7, <1>8

(* The numbers are those of some table that collects them.                 *)
LEMMA NumbersBy ==
  ASSUME NEW q \in Seq(Message), NEW w
  PROVE  \E t \in [0 .. Len(q) -> Seq(Nat)] :
           Collects(t, q, w) /\ Numbers(q, w) = t[Len(q)]
<1> DEFINE u == CHOOSE t : Collects(t, q, w)
<1>1. PICK t \in [0 .. Len(q) -> Seq(Nat)] : Collects(t, q, w)
  BY CollectsExists
<1>2. Collects(u, q, w)
  BY <1>1
<1>3. Len(q) \in 0 .. Len(q)
  OBVIOUS
<1>4. t[Len(q)] = u[Len(q)]
  <2> HIDE DEF u
  <2>1. Len(q) <= Len(q) /\ \A i \in 1 .. Len(q) : q[i] = q[i]
    OBVIOUS
  <2>2. \A i \in 0 .. Len(q) : t[i] = u[i]
    BY <1>1, <1>2, <2>1, CollectAgree
  <2>3. QED
    BY <1>3, <2>2
<1>5. QED
  BY <1>1, <1>4, NumbersAreCollected

(* An empty queue has no numbers.                                          *)
LEMMA NumbersOfNone == ASSUME NEW w PROVE Numbers(<<>>, w) = <<>>
<1>1. <<>> \in Seq(Message) /\ Len(<<>>) = 0
  OBVIOUS
<1>2. PICK t \in [0 .. Len(<<>>) -> Seq(Nat)] :
        Collects(t, <<>>, w) /\ Numbers(<<>>, w) = t[Len(<<>>)]
  BY <1>1, NumbersBy
<1>3. t = Collected(t, <<>>, w)
  BY <1>2 DEF Collects
<1>4. QED
  BY <1>1, <1>2, <1>3 DEF Collected

(* A message at the end of a queue adds its number, if it has one for w.   *)
LEMMA NumbersAppend ==
  ASSUME NEW q \in Seq(Message), NEW w, NEW m \in Message
  PROVE  /\ Numbers(q, w) \in Seq(Nat)
         /\ IsData(m, w) => Numbers(Append(q, m), w) = Append(Numbers(q, w), m.n)
         /\ ~ IsData(m, w) => Numbers(Append(q, m), w) = Numbers(q, w)
<1> DEFINE p == Append(q, m)
<1>1. /\ p \in Seq(Message) /\ Len(p) = Len(q) + 1 /\ Len(q) \in Nat
      /\ \A i \in 1 .. Len(q) : q[i] = p[i]
      /\ p[Len(p)] = m
  OBVIOUS
<1> HIDE DEF p
<1>2. PICK t \in [0 .. Len(q) -> Seq(Nat)] : Collects(t, q, w) /\ Numbers(q, w) = t[Len(q)]
  BY NumbersBy
<1>3. PICK u \in [0 .. Len(p) -> Seq(Nat)] : Collects(u, p, w) /\ Numbers(p, w) = u[Len(p)]
  BY <1>1, NumbersBy
<1>4. u[Len(q)] = t[Len(q)]
  <2>1. \A i \in 0 .. Len(q) : u[i] = t[i]
    BY <1>1, <1>2, <1>3, CollectAgree
  <2>2. QED
    BY <1>1, <2>1
<1>5. u = Collected(u, p, w)
  BY <1>3 DEF Collects
<1>6. u[Len(p)] = IF IsData(m, w) THEN Append(u[Len(q)], m.n) ELSE u[Len(q)]
  <2>1. Len(p) \in 0 .. Len(p) /\ Len(p) # 0 /\ Len(p) - 1 = Len(q)
    BY <1>1
  <2>2. u[Len(p)] = IF IsData(p[Len(p)], w) THEN Append(u[Len(p) - 1], p[Len(p)].n)
                    ELSE u[Len(p) - 1]
    BY <1>5, <2>1 DEF Collected
  <2>3. QED
    BY <1>1, <2>1, <2>2
<1>7. Numbers(q, w) \in Seq(Nat)
  BY <1>1, <1>2
<1>8. QED
  BY <1>2, <1>3, <1>4, <1>6, <1>7 DEF p

(* So does the message at the head of one, in front.                       *)
LEMMA NumbersTail ==
  ASSUME NEW q \in Seq(Message), NEW w, q # <<>>
  PROVE  /\ IsData(Head(q), w) => Numbers(q, w) = <<Head(q).n>> \o Numbers(Tail(q), w)
         /\ ~ IsData(Head(q), w) => Numbers(q, w) = Numbers(Tail(q), w)
<1> DEFINE p == Tail(q)
           first == IF IsData(Head(q), w) THEN <<Head(q).n>> ELSE <<>>
<1>1. /\ p \in Seq(Message) /\ Len(q) = Len(p) + 1 /\ Len(p) \in Nat
      /\ \A i \in 1 .. Len(p) : p[i] = q[i + 1]
      /\ Head(q) = q[1]
  OBVIOUS
<1>2. first \in Seq(Nat)
  <2>1. 1 \in 1 .. Len(q)
    BY <1>1
  <2>2. IsData(q[1], w) => q[1].n \in Nat
    BY <2>1, DataHasNumber
  <2>3. QED
    BY <1>1, <2>2
<1> HIDE DEF p, first
<1>3. PICK t \in [0 .. Len(q) -> Seq(Nat)] : Collects(t, q, w) /\ Numbers(q, w) = t[Len(q)]
  BY NumbersBy
<1>4. PICK u \in [0 .. Len(p) -> Seq(Nat)] : Collects(u, p, w) /\ Numbers(p, w) = u[Len(p)]
  BY <1>1, NumbersBy
<1>5. t = Collected(t, q, w) /\ u = Collected(u, p, w)
  BY <1>3, <1>4 DEF Collects
<1>6. u[0] = <<>> /\ t[0] = <<>>
  BY <1>1, <1>5 DEF Collected
<1>7. t[1] = first
  <2>1. 1 \in 0 .. Len(q)
    BY <1>1
  <2>2. t[1] = IF IsData(q[1], w) THEN Append(t[1 - 1], q[1].n) ELSE t[1 - 1]
    BY <1>5, <2>1 DEF Collected
  <2>3. Append(<<>>, q[1].n) = <<q[1].n>> /\ 1 - 1 = 0
    OBVIOUS
  <2>4. QED
    BY <1>1, <1>6, <2>2, <2>3 DEF first
<1> DEFINE T == {i \in 0 .. Len(p) : t[i + 1] # first \o u[i]}
<1>8. T = {}
  <2> SUFFICES ASSUME T # {} PROVE FALSE
    OBVIOUS
  <2>0. T \subseteq Nat
    BY <1>1
  <2>1. PICK n \in T : \A k \in T : n <= k
    BY <2>0, Least
  <2>2. n \in 0 .. Len(p) /\ t[n + 1] # first \o u[n]
    OBVIOUS
  <2>3. n # 0
    BY <1>2, <1>6, <1>7, <2>2
  <2>4. /\ n \in 1 .. Len(p) /\ n - 1 \in 0 .. Len(p) /\ ~ (n <= n - 1) /\ (n - 1) + 1 = n
        /\ n + 1 \in 0 .. Len(q) /\ n + 1 # 0 /\ (n + 1) - 1 = n
    <3> DEFINE lp == Len(p)
               lq == Len(q)
    <3>1. lp \in Nat /\ lq = lp + 1 /\ n \in 0 .. lp /\ n # 0
      BY <1>1, <2>2, <2>3
    <3> HIDE DEF T, lp, lq
    <3>2. /\ n \in 1 .. lp /\ n - 1 \in 0 .. lp /\ ~ (n <= n - 1) /\ (n - 1) + 1 = n
          /\ n + 1 \in 0 .. lq /\ n + 1 # 0 /\ (n + 1) - 1 = n
      BY <3>1
    <3>3. QED
      BY <3>2 DEF lp, lq
  <2>5. t[n] = first \o u[n - 1]
    BY <2>1, <2>4
  <2>6. t[n + 1] = IF IsData(q[n + 1], w) THEN Append(t[n], q[n + 1].n) ELSE t[n]
    BY <1>5, <2>4 DEF Collected
  <2>7. u[n] = IF IsData(p[n], w) THEN Append(u[n - 1], p[n].n) ELSE u[n - 1]
    <3>1. n \in 0 .. Len(p) /\ n # 0
      BY <2>2, <2>3
    <3> HIDE DEF T
    <3>2. QED
      BY <1>5, <3>1 DEF Collected
  <2>8. p[n] = q[n + 1] /\ u[n - 1] \in Seq(Nat)
    BY <1>1, <2>4
  <2>9. IsData(p[n], w) => p[n].n \in Nat
    BY <1>1, <2>4, DataHasNumber
  <2>10. ASSUME NEW x \in Nat
         PROVE  Append(first \o u[n - 1], x) = first \o Append(u[n - 1], x)
    <3> DEFINE v == u[n - 1]
    <3>1. v \in Seq(Nat) /\ <<x>> \in Seq(Nat) /\ first \o v \in Seq(Nat)
      BY <1>2, <2>8
    <3> HIDE DEF v, T
    <3>2. Append(first \o v, x) = (first \o v) \o <<x>> /\ Append(v, x) = v \o <<x>>
      BY <3>1, AppendIsConcat
    <3>3. (first \o v) \o <<x>> = first \o (v \o <<x>>)
      BY <1>2, <3>1, ConcatAssociative
    <3>4. QED
      BY <3>2, <3>3 DEF v
  <2>11. QED
    BY <2>2, <2>5, <2>6, <2>7, <2>8, <2>9, <2>10
<1>9. t[Len(q)] = first \o u[Len(p)]
  <2>1. \A i \in 0 .. Len(p) : t[i + 1] = first \o u[i]
    BY <1>8
  <2>2. QED
    BY <1>1, <2>1
<1>10. first = <<>> => first \o u[Len(p)] = u[Len(p)]
  BY <1>1
<1>11. QED
  BY <1>3, <1>4, <1>9, <1>10 DEF p, first

-----------------------------------------------------------------------------
(* The order of the handshake                                              *)

(* The CLI has not opened a local WebSocket for w yet.                     *)
Early(w) == localWs[w] \in {"none", "connecting"}

(* The i-th message of q is one of type t for w.                           *)
Is(q, t, w, i) == i \in 1 .. Len(q) /\ q[i].type = t /\ q[i].ws = w

(* How far the two ends of w are: a WebSocket that has not come yet has no *)
(* tunnel, one without a tunnel has no local end, its tunnel is registered,*)
(* and the server relays only after the CLI has opened the local end.      *)
Staged(w) ==
  /\ publicSocket[w] = "NONE" => upgrade[w] = "none" /\ via[w] = None
  /\ via[w] = None => localWs[w] = "none"
  /\ via[w] # None => life[via[w]] # "new"
  /\ upgrade[w] = "relaying" => ~ Early(w)

(* The CLI is asked once for w, over w's tunnel, before it does anything.  *)
AskedOnce(w) ==
  \A c \in Conn : \A i \in 1 .. Len(toCli[c]) :
    Is(toCli[c], "upgrade", w, i) =>
      /\ via[w] = c
      /\ localWs[w] = "none"
      /\ \A j \in 1 .. Len(toCli[c]) : Is(toCli[c], "upgrade", w, j) => i = j

(* The CLI's answer is under way only after it has opened the local end.   *)
TakenLate(w) ==
  \A c \in Conn : \A i \in 1 .. Len(toServer[c]) :
    Is(toServer[c], "accept", w, i) => ~ Early(w)

StageInv ==
  /\ WsInv
  /\ cliSocket # None => life[cliSocket] # "new"
  /\ \A w \in Ws : Staged(w) /\ AskedOnce(w) /\ TakenLate(w)

-----------------------------------------------------------------------------
(* What a message is to a queue                                            *)

(* A message appended is the only new one.                                 *)
LEMMA IsAppend ==
  ASSUME NEW q \in Seq(Message), NEW m \in Message, NEW t, NEW w, NEW i,
         Is(Append(q, m), t, w, i)
  PROVE  Is(q, t, w, i) \/ (i = Len(q) + 1 /\ m.type = t /\ m.ws = w)
<1> DEFINE p == Append(q, m)
           n == Len(q)
<1>1. /\ n \in Nat /\ Len(p) = n + 1 /\ p[n + 1] = m
      /\ \A k \in 1 .. n : p[k] = q[k]
  OBVIOUS
<1>2. i \in 1 .. Len(p) /\ p[i].type = t /\ p[i].ws = w
  BY DEF Is
<1> HIDE DEF p, n
<1>3. i = n + 1 \/ i \in 1 .. n
  BY <1>1, <1>2
<1>4. QED
  BY <1>1, <1>2, <1>3 DEF Is, n

(* What is left when the first message is taken was there, one place up.   *)
LEMMA IsTail ==
  ASSUME NEW q \in Seq(Message), q # <<>>, NEW t, NEW w
  PROVE  /\ \A i : Is(Tail(q), t, w, i) => Is(q, t, w, i + 1) /\ i + 1 # 1 /\ i \in Nat
         /\ Head(q).type = t /\ Head(q).ws = w => Is(q, t, w, 1)
<1> DEFINE p == Tail(q)
           n == Len(p)
<1>1. /\ n \in Nat /\ Len(q) = n + 1 /\ Head(q) = q[1]
      /\ \A k \in 1 .. n : p[k] = q[k + 1]
  OBVIOUS
<1>2. ASSUME NEW i, Is(p, t, w, i)
      PROVE  Is(q, t, w, i + 1) /\ i + 1 # 1 /\ i \in Nat
  <2>1. i \in 1 .. n /\ p[i].type = t /\ p[i].ws = w
    BY <1>2 DEF Is
  <2> HIDE DEF p, n
  <2>2. i + 1 \in 1 .. Len(q) /\ i + 1 # 1 /\ i \in Nat
    BY <1>1, <2>1
  <2>3. QED
    BY <1>1, <2>1, <2>2 DEF Is
<1>3. 1 \in 1 .. Len(q)
  BY <1>1
<1>4. QED
  BY <1>1, <1>2, <1>3 DEF Is

(* What a send does to the tunnel it goes into, and to the others.         *)
LEMMA SendEffect ==
  ASSUME WsTypeOK, NEW m
  PROVE  /\ \A c \in Conn \cup {None} : SendToCli(c, m) =>
              \A d \in Conn : toCli'[d] =
                IF d = c /\ c = cliSocket /\ sock[c] = "OPEN"
                THEN Append(toCli[d], m) ELSE toCli[d]
         /\ SendToServer(m) =>
              \A d \in Conn : toServer'[d] =
                IF d = cliSocket /\ sock[cliSocket] # "CLOSED"
                THEN Append(toServer[d], m) ELSE toServer[d]
BY MapAssumption DEF SendToCli, SendToServer, WsTypeOK

(* A tunnel that is registered stays so, and its socket never opens again. *)
LEMMA SocketsClose ==
  ASSUME LifeTypeOK, [LifeNext]_lifeVars, NEW c \in Conn, life[c] # "new"
  PROVE  /\ life'[c] # "new"
         /\ sock'[c] = "OPEN" => sock[c] = "OPEN"
         /\ sock'[c] # "CLOSED" => sock[c] # "CLOSED"
<1> USE DEF LifeTypeOK
<1>1. ASSUME NEW d \in Conn,
             \/ Abandon(d) \/ Open(d) \/ CloseSocket(d) \/ SocketGone(d)
             \/ Unregister(d) \/ Expire(d)
      PROVE  /\ life'[c] # "new"
             /\ sock'[c] = "OPEN" => sock[c] = "OPEN"
             /\ sock'[c] # "CLOSED" => sock[c] # "CLOSED"
  BY <1>1 DEF Abandon, Open, CloseSocket, SocketGone, Unregister, Expire
<1>2. CASE Sweep
  BY <1>2 DEF Sweep
<1>3. CASE ServerDies
  BY <1>3 DEF ServerDies
<1>4. CASE UNCHANGED lifeVars
  BY <1>4 DEF lifeVars
<1>5. QED
  BY <1>1, <1>2, <1>3, <1>4 DEF LifeNext

(* The CLI sends on a tunnel that is registered.                           *)
LEMMA CliSocketStep ==
  ASSUME StageInv, [WsNext]_wsVars, cliSocket' # None
  PROVE  life'[cliSocket'] # "new"
<1>0. WsTypeOK /\ LifeTypeOK /\ (cliSocket # None => life[cliSocket] # "new")
  BY DEF StageInv, WsInv, LifeInv
<1>1. ASSUME NEW c \in Conn, Register(c)
      PROVE  life'[cliSocket'] # "new"
  BY <1>0, <1>1 DEF Register, Open, LifeTypeOK
<1>2. ASSUME cliSocket' = cliSocket
      PROVE  life'[cliSocket'] # "new"
  <2>1. cliSocket \in Conn /\ life[cliSocket] # "new"
    BY <1>0, <1>2 DEF WsTypeOK
  <2>2. QED
    BY <1>0, <1>2, <2>1, WsLifeStep, SocketsClose
<1>3. ASSUME \/ \E v \in Ws : \/ \E s \in Subdomain : PublicConnect(v, s)
                              \/ UpgradeTimesOut(v) \/ PublicSends(v) \/ PublicCloses(v)
                              \/ LocalAnswers(v) \/ LocalSends(v) \/ LocalCloses(v)
             \/ \E c \in Conn : \/ ServerReads(c) \/ CloseTunnel(c)
                                \/ SocketCloses(c) \/ Finalized(c)
             \/ CliReads \/ ExpirySweep \/ Crash \/ UNCHANGED wsVars
      PROVE  cliSocket' = cliSocket
  BY <1>3 DEF PublicConnect, UpgradeTimesOut, PublicSends, PublicCloses, LocalAnswers,
     LocalSends, LocalCloses, ServerReads, CloseTunnel, SocketCloses, Finalized, CliReads,
     ExpirySweep, Crash, wsVars, cliVars
<1>4. ~ CliLosesTunnel
  BY DEF CliLosesTunnel
<1>5. QED
  BY <1>1, <1>2, <1>3, <1>4 DEF WsNext

(* No step takes an end of w back.                                         *)
LEMMA StagedStep ==
  ASSUME StageInv, [WsNext]_wsVars, NEW w \in Ws
  PROVE  Staged(w)'
<1> DEFINE Goal == Staged(w)'
<1> USE DEF Staged, Early
<1>0. WsTypeOK /\ LifeInv /\ LifeTypeOK /\ Staged(w)
  BY DEF StageInv, WsInv, LifeInv
<1>a. via[w] \in Conn \cup {None}
  BY <1>0 DEF WsTypeOK
<1>b. \A c \in Conn : life[c] # "new" => life'[c] # "new"
  BY <1>0, WsLifeStep, SocketsClose
<1>c. ASSUME UNCHANGED <<via, localWs, upgrade, publicSocket>>
      PROVE  Goal
  BY <1>0, <1>a, <1>b, <1>c
<1>1. ASSUME NEW v \in Ws, NEW s \in Subdomain, PublicConnect(v, s)
      PROVE  Goal
  <2> DEFINE c == findBySubdomain(s)
  <2>1. c # None => c \in Conn /\ life[c] # "new"
    BY <1>0, MapAssumption
    DEF findBySubdomain, LifeInv, LifeTypeOK, MapTypeOK, NamesHeld, IndexesAgree
  <2>2. UNCHANGED <<lifeVars, cliVars>>
    BY <1>1 DEF PublicConnect
  <2>3. /\ publicSocket[v] = "NONE"
        /\ \E x \in {"OPEN", "CLOSING", "CLOSED"} : publicSocket' = [publicSocket EXCEPT ![v] = x]
        /\ \E x \in {"pending", "ended"} : upgrade' = [upgrade EXCEPT ![v] = x]
        /\ \/ UNCHANGED via
           \/ c # None /\ via' = [via EXCEPT ![v] = c]
    BY <1>1 DEF PublicConnect
  <2> HIDE DEF c
  <2>4. QED
    BY <1>0, <1>a, <2>1, <2>2, <2>3 DEF cliVars, lifeVars, WsTypeOK
<1>2. ASSUME \/ UNCHANGED publicSocket
             \/ \E W : ClosePublic(W)
             \/ \E v \in Ws : /\ publicSocket[v] # "NONE"
                              /\ publicSocket' = [publicSocket EXCEPT ![v] = "CLOSED"],
             upgrade'[w] \in {upgrade[w], "ended"},
             publicSocket[w] = "NONE" => upgrade'[w] = upgrade[w],
             UNCHANGED <<via, cliVars>>
      PROVE  Goal
  <2>1. publicSocket'[w] = "NONE" => publicSocket[w] = "NONE"
    BY <1>0, <1>2 DEF ClosePublic, WsTypeOK
  <2>2. QED
    BY <1>0, <1>2, <1>a, <1>b, <2>1 DEF cliVars
<1>3. ASSUME NEW v \in Ws, UpgradeTimesOut(v) \/ PublicCloses(v)
      PROVE  Goal
  <2>1. publicSocket[v] # "NONE"
    BY <1>3 DEF UpgradeTimesOut, PublicCloses, StageInv
  <2>2. /\ \/ \E W : ClosePublic(W)
           \/ publicSocket' = [publicSocket EXCEPT ![v] = "CLOSED"]
        /\ upgrade' = [upgrade EXCEPT ![v] = "ended"] \/ upgrade' = upgrade
        /\ UNCHANGED <<via, cliVars>>
    BY <1>3 DEF UpgradeTimesOut, PublicCloses
  <2>3. QED
    BY <1>0, <1>2, <2>1, <2>2 DEF WsTypeOK
<1>4. ASSUME NEW N, DropWebSockets(N), UNCHANGED <<via, cliVars>>
      PROVE  Goal
  <2>1. \E W : ClosePublic(W)
    BY <1>4 DEF DropWebSockets
  <2>2. /\ upgrade'[w] \in {upgrade[w], "ended"}
        /\ publicSocket[w] = "NONE" => upgrade'[w] = upgrade[w]
    BY <1>0, <1>4 DEF DropWebSockets
  <2>3. QED
    BY <1>2, <1>4, <2>1, <2>2
<1>5. ASSUME NEW v \in Ws, PublicSends(v) \/ LocalSends(v)
      PROVE  Goal
  BY <1>5, <1>c DEF PublicSends, LocalSends, publicVars, cliVars
<1>6. ASSUME NEW v \in Ws, LocalAnswers(v) \/ LocalCloses(v)
      PROVE  Goal
  <2>1. /\ UNCHANGED <<via, upgrade, publicSocket, cliSocket, life>>
        /\ localWs[v] # "none"
        /\ \E x \in {"open", "closed"} : localWs' = [localWs EXCEPT ![v] = x]
    BY <1>6, LocalEffect DEF publicVars, lifeVars
  <2>2. QED
    BY <1>0, <2>1 DEF WsTypeOK
<1>7. CASE CliReads
  <2> DEFINE c == cliSocket
             m == Head(toCli[c])
  <2>1. c \in Conn /\ toCli[c] \in Seq(Message) /\ toCli[c] # <<>> /\ m \in Message
    BY <1>0, <1>7, <1>a, TailTypes DEF CliReads, WsTypeOK
  <2>2. m.ws \in Ws
    BY <2>1, Messages
  <2>3. m.type = "upgrade" => via[m.ws] = c /\ localWs[m.ws] = "none"
    <3>1. m.type = "upgrade" => Is(toCli[c], "upgrade", m.ws, 1)
      BY <2>1, IsTail
    <3>2. 1 \in 1 .. Len(toCli[c])
      BY <2>1
    <3>3. AskedOnce(m.ws)
      BY <2>2 DEF StageInv
    <3>4. QED
      BY <2>1, <3>1, <3>2, <3>3 DEF AskedOnce
  <2>4. /\ UNCHANGED <<via, upgrade, publicSocket, cliSocket, life>>
        /\ \/ m.type = "upgrade" /\ localWs' = [localWs EXCEPT ![m.ws] = "connecting"]
           \/ UNCHANGED localWs
           \/ /\ localWs[m.ws] \in {"open", "closing"}
              /\ \E x \in {"closing", "closed"} : localWs' = [localWs EXCEPT ![m.ws] = x]
    <3>1. UNCHANGED <<via, upgrade, publicSocket, cliSocket, life>>
      BY <1>7 DEF CliReads, publicVars, lifeVars
    <3>2. QED
      BY <1>0, <1>7, <3>1, CliReadsLocal
  <2> HIDE DEF m, c
  <2>5. localWs'[w] = localWs[w] \/ via[w] # None
    BY <1>0, <2>1, <2>2, <2>3, <2>4, MapAssumption DEF WsTypeOK
  <2>6. localWs'[w] \in {localWs[w], "closing", "closed"} \/ upgrade[w] # "relaying"
    BY <1>0, <2>2, <2>3, <2>4 DEF WsTypeOK
  <2>7. QED
    BY <1>0, <2>4, <2>5, <2>6
<1>8. CASE CliLosesTunnel
  <2>1. UNCHANGED <<via, upgrade, publicSocket, life>> /\ cliSocket' = None
    BY <1>8 DEF CliLosesTunnel, publicVars, lifeVars
  <2>2. localWs'[w] = localWs[w] \/ (localWs[w] # "none" /\ localWs'[w] = "closed")
        \/ (localWs[w] = "none" /\ localWs'[w] = "none")
    BY <1>8 DEF CliLosesTunnel
  <2>3. QED
    BY <1>0, <2>1, <2>2
<1>9. ASSUME NEW c \in Conn, ServerReads(c)
      PROVE  Goal
  <2> DEFINE m == Head(toServer[c])
  <2>1. toServer[c] \in Seq(Message) /\ toServer[c] # <<>> /\ m \in Message
    BY <1>0, <1>9, TailTypes DEF ServerReads, WsTypeOK
  <2>2. m.ws \in Ws
    BY <2>1, Messages
  <2>3. m.type = "accept" => ~ Early(m.ws)
    <3>1. m.type = "accept" => Is(toServer[c], "accept", m.ws, 1)
      BY <2>1, IsTail
    <3>2. 1 \in 1 .. Len(toServer[c])
      BY <2>1
    <3>3. TakenLate(m.ws)
      BY <2>2 DEF StageInv
    <3>4. QED
      BY <3>1, <3>2, <3>3 DEF TakenLate
  <2>4. UNCHANGED <<via, cliVars, life>>
    BY <1>9 DEF ServerReads, lifeVars
  <2>5. CASE m.type = "accept" /\ Accepted(m.ws)
    <3> HIDE DEF m
    <3>1. /\ UNCHANGED <<publicSocket, localWs, cliSocket>>
          /\ upgrade' = [upgrade EXCEPT ![m.ws] = IF @ = "pending" THEN "relaying" ELSE @]
      BY <2>4, <2>5 DEF Accepted, cliVars
    <3>2. QED
      BY <1>0, <2>2, <2>3, <2>4, <2>5, <3>1 DEF WsTypeOK
  <2>6. CASE Rejected(m.ws) \/ ClosedByLocal(m.ws) \/ UNCHANGED <<upgrade, publicSocket>>
    <3> HIDE DEF m
    <3>1. /\ UNCHANGED publicSocket \/ \E W : ClosePublic(W)
          /\ \/ UNCHANGED upgrade
             \/ upgrade[m.ws] = "pending" /\ upgrade' = [upgrade EXCEPT ![m.ws] = "ended"]
      BY <2>6 DEF Rejected, ClosedByLocal
    <3>2. /\ upgrade'[w] \in {upgrade[w], "ended"}
          /\ publicSocket[w] = "NONE" => upgrade'[w] = upgrade[w]
      BY <1>0, <2>2, <3>1 DEF WsTypeOK
    <3>3. QED
      BY <1>2, <2>4, <3>1, <3>2
  <2>7. QED
    BY <1>9, <2>5, <2>6 DEF ServerReads, DataForPublic
<1>10. ASSUME NEW c \in Conn, Register(c)
       PROVE  Goal
  <2>1. UNCHANGED <<publicVars, localWs>>
    BY <1>10 DEF Register
  <2>2. QED
    BY <1>0, <1>a, <1>b, <2>1 DEF publicVars
<1>11. ASSUME NEW c \in Conn, CloseTunnel(c) \/ SocketCloses(c)
       PROVE  Goal
  BY <1>11, <1>c DEF CloseTunnel, SocketCloses, publicVars, cliVars
<1>12. CASE Crash
  <2>1. /\ UNCHANGED <<via, cliVars>>
        /\ publicSocket'[w] = "NONE" => publicSocket[w] = "NONE" /\ upgrade'[w] = "none"
        /\ upgrade'[w] # "relaying"
    BY <1>12 DEF Crash
  <2>2. QED
    BY <1>0, <1>a, <1>b, <2>1 DEF cliVars
<1>13. CASE UNCHANGED wsVars
  BY <1>13, <1>c DEF wsVars, publicVars, cliVars
<1>14. QED
  BY <1>1, <1>3, <1>4, <1>5, <1>6, <1>7, <1>8, <1>9, <1>10, <1>11, <1>12, <1>13
  DEF WsNext, Finalized, ExpirySweep

(* AskedOnce and TakenLate without the bounds of their quantifiers.        *)
LEMMA AskedMeans ==
  ASSUME NEW w
  PROVE  /\ AskedOnce(w) <=>
              \A c \in Conn : \A i :
                Is(toCli[c], "upgrade", w, i) =>
                  /\ via[w] = c
                  /\ localWs[w] = "none"
                  /\ \A j : Is(toCli[c], "upgrade", w, j) => i = j
         /\ TakenLate(w) <=>
              \A c \in Conn : \A i : Is(toServer[c], "accept", w, i) => ~ Early(w)
BY DEF AskedOnce, TakenLate, Is

(* The same after the step.                                                *)
LEMMA AskedMeansNext ==
  ASSUME NEW w
  PROVE  /\ AskedOnce(w)' <=>
              \A c \in Conn : \A i :
                Is(toCli'[c], "upgrade", w, i) =>
                  /\ via'[w] = c
                  /\ localWs'[w] = "none"
                  /\ \A j : Is(toCli'[c], "upgrade", w, j) => i = j
         /\ TakenLate(w)' <=>
              \A c \in Conn : \A i : Is(toServer'[c], "accept", w, i) => ~ Early(w)'
BY DEF AskedOnce, TakenLate, Is

(* No step asks the CLI a second time.                                     *)
LEMMA AskedStep ==
  ASSUME StageInv, [WsNext]_wsVars, NEW w \in Ws
  PROVE  AskedOnce(w)'
<1>0. WsTypeOK /\ AskedOnce(w) /\ Staged(w) /\ None \notin Conn
  BY MapAssumption DEF StageInv, WsInv
<1> DEFINE Asked(c, i) == Is(toCli[c], "upgrade", w, i)
           AskedNext(c, i) == Is(toCli'[c], "upgrade", w, i)
<1>a. \A c \in Conn : \A i : Asked(c, i) =>
        via[w] = c /\ localWs[w] = "none" /\ \A j : Asked(c, j) => i = j
  BY <1>0, AskedMeans
<1>b. ASSUME \A c \in Conn : \A i : AskedNext(c, i) => Asked(c, i),
             via[w] # None => via'[w] = via[w],
             localWs[w] = "none" => localWs'[w] = "none"
      PROVE  AskedOnce(w)'
  <2>1. ASSUME NEW c \in Conn, NEW i, AskedNext(c, i)
        PROVE  /\ via'[w] = c
               /\ localWs'[w] = "none"
               /\ \A j : AskedNext(c, j) => i = j
    <3> HIDE DEF Asked, AskedNext
    <3>1. QED
      BY <1>0, <1>a, <1>b, <2>1
  <2>2. QED
    BY <2>1, AskedMeansNext
<1>c. ASSUME NEW c \in Conn \cup {None}, NEW m \in Message, SendToCli(c, m),
             m.type # "upgrade" \/ m.ws # w
      PROVE  \A d \in Conn : \A i : AskedNext(d, i) => Asked(d, i)
  <2> SUFFICES ASSUME NEW d \in Conn, NEW i, Is(toCli'[d], "upgrade", w, i)
               PROVE  Is(toCli[d], "upgrade", w, i)
    OBVIOUS
  <2>1. toCli[d] \in Seq(Message)
    BY <1>0 DEF WsTypeOK
  <2>2. CASE toCli'[d] = Append(toCli[d], m)
    BY <1>c, <2>1, <2>2, IsAppend
  <2>3. CASE toCli'[d] = toCli[d]
    BY <2>3
  <2>4. QED
    BY <1>0, <1>c, <2>2, <2>3, SendEffect
<1>1. ASSUME NEW v \in Ws, NEW s \in Subdomain, PublicConnect(v, s)
      PROVE  AskedOnce(w)'
  <2> DEFINE c == findBySubdomain(s)
             m == [type |-> "upgrade", ws |-> v]
  <2>1. c \in Conn \cup {None} /\ m \in Message /\ m.ws = v
    BY <1>0, Messages DEF findBySubdomain, WsTypeOK, LifeTypeOK, MapTypeOK
  <2>2. UNCHANGED localWs
    BY <1>1 DEF PublicConnect, cliVars
  <2>3. \/ UNCHANGED <<via, toCli>>
        \/ via' = [via EXCEPT ![v] = c] /\ SendToCli(c, m)
    BY <1>1 DEF PublicConnect
  <2>4. publicSocket[v] = "NONE" /\ Staged(v)
    BY <1>1 DEF PublicConnect, StageInv
  <2>5. CASE v # w \/ UNCHANGED <<via, toCli>>
    <3>1. via'[w] = via[w]
      BY <1>0, <2>3, <2>5 DEF WsTypeOK
    <3>2. \A d \in Conn : \A i : AskedNext(d, i) => Asked(d, i)
      BY <1>c, <2>1, <2>3, <2>5
    <3>3. QED
      BY <1>b, <2>2, <3>1, <3>2
  <2>6. CASE v = w /\ via' = [via EXCEPT ![w] = c] /\ SendToCli(c, m)
    <3>1. via[w] = None /\ localWs[w] = "none"
      BY <2>4, <2>6 DEF Staged
    <3>2. \A d \in Conn : \A i : ~ Asked(d, i)
      BY <1>0, <1>a, <3>1
    <3>3. ASSUME NEW d \in Conn, NEW i, AskedNext(d, i)
          PROVE  d = c /\ i = Len(toCli[c]) + 1
      <4>1. toCli'[d] = IF d = c /\ c = cliSocket /\ sock[c] = "OPEN"
                        THEN Append(toCli[d], m) ELSE toCli[d]
        BY <1>0, <2>1, <2>6, SendEffect
      <4>2. toCli[d] \in Seq(Message)
        BY <1>0 DEF WsTypeOK
      <4> HIDE DEF c, m
      <4>3. d = c /\ toCli'[d] = Append(toCli[d], m)
        BY <3>2, <3>3, <4>1
      <4>4. Is(Append(toCli[d], m), "upgrade", w, i) /\ ~ Is(toCli[d], "upgrade", w, i)
        BY <3>2, <3>3, <4>3
      <4>5. i = Len(toCli[d]) + 1
        BY <2>1, <4>2, <4>4, IsAppend
      <4>6. QED
        BY <4>3, <4>5
    <3>4. via'[w] = c
      BY <1>0, <2>6 DEF WsTypeOK
    <3> HIDE DEF c, m
    <3>5. ASSUME NEW d \in Conn, NEW i, Is(toCli'[d], "upgrade", w, i)
          PROVE  /\ via'[w] = d
                 /\ localWs'[w] = "none"
                 /\ \A j : Is(toCli'[d], "upgrade", w, j) => i = j
      <4>1. d = c /\ i = Len(toCli[c]) + 1
        BY <3>3, <3>5
      <4>2. \A j : Is(toCli'[d], "upgrade", w, j) => j = Len(toCli[c]) + 1
        BY <3>3
      <4>3. QED
        BY <2>2, <3>1, <3>4, <4>1, <4>2
    <3>6. QED
      BY <3>5, AskedMeansNext
  <2>7. QED
    BY <2>3, <2>5, <2>6
<1>2. ASSUME UNCHANGED <<via, localWs, toCli>>
      PROVE  AskedOnce(w)'
  BY <1>2, <1>b
<1>3. ASSUME NEW v \in Ws, PublicSends(v)
      PROVE  AskedOnce(w)'
  <2> DEFINE m == [type |-> "data", ws |-> v, n |-> sent["public"][v] + 1]
  <2>1. m \in Message /\ m.type # "upgrade" /\ via[v] \in Conn \cup {None}
    <3>1. sent["public"][v] + 1 \in Nat
      BY <1>0 DEF WsTypeOK, End
    <3>2. via[v] \in Conn \cup {None}
      BY <1>0 DEF WsTypeOK
    <3>3. QED
      BY <3>1, <3>2, Messages
  <2>2. UNCHANGED <<via, localWs>> /\ (UNCHANGED toCli \/ SendToCli(via[v], m))
    BY <1>3 DEF PublicSends, publicVars, cliVars
  <2>3. QED
    BY <1>b, <1>c, <2>1, <2>2
<1>4. ASSUME NEW v \in Ws, PublicCloses(v)
      PROVE  AskedOnce(w)'
  <2> DEFINE m == [type |-> "close", ws |-> v]
             c == findBySubdomain(host[v])
  <2>1. m \in Message /\ m.type # "upgrade" /\ c \in Conn \cup {None}
    BY <1>0, Messages DEF findBySubdomain, WsTypeOK, LifeTypeOK, MapTypeOK
  <2>2. UNCHANGED <<via, localWs>> /\ (UNCHANGED toCli \/ SendToCli(c, m))
    BY <1>4 DEF PublicCloses, cliVars
  <2>3. QED
    BY <1>b, <1>c, <2>1, <2>2
<1>5. ASSUME NEW v \in Ws, LocalAnswers(v) \/ LocalCloses(v)
      PROVE  AskedOnce(w)'
  <2>1. UNCHANGED <<via, toCli>> /\ localWs[v] # "none"
        /\ \E x \in {"open", "closed"} : localWs' = [localWs EXCEPT ![v] = x]
    BY <1>5, LocalEffect DEF publicVars
  <2>2. localWs[w] = "none" => localWs'[w] = "none"
    BY <1>0, <2>1 DEF WsTypeOK
  <2>3. QED
    BY <1>b, <2>1, <2>2
<1>6. CASE CliReads
  <2> DEFINE c == cliSocket
             q == toCli[c]
             m == Head(q)
  <2>1. c \in Conn /\ q \in Seq(Message) /\ q # <<>>
    BY <1>0, <1>6 DEF CliReads, WsTypeOK
  <2>2. UNCHANGED via /\ \A d \in Conn : toCli'[d] = IF d = c THEN Tail(q) ELSE toCli[d]
    BY <1>0, <1>6 DEF CliReads, publicVars, WsTypeOK
  <2>3. m.ws \in Ws
    BY <1>0, <2>1, TailTypes, Messages DEF WsTypeOK
  <2>4. localWs[w] = "none" =>
          localWs'[w] = "none" \/ (m.type = "upgrade" /\ m.ws = w)
    <3>1. \/ m.type = "upgrade" /\ localWs' = [localWs EXCEPT ![m.ws] = "connecting"]
          \/ UNCHANGED localWs
          \/ /\ localWs[m.ws] \in {"open", "closing"}
             /\ \E x \in {"closing", "closed"} : localWs' = [localWs EXCEPT ![m.ws] = x]
      BY <1>0, <1>6, CliReadsLocal
    <3> HIDE DEF m
    <3>2. QED
      BY <1>0, <2>3, <3>1 DEF WsTypeOK
  <2>5. \A i : AskedNext(c, i) => Asked(c, i + 1) /\ i + 1 # 1 /\ i \in Nat
    BY <2>1, <2>2, IsTail
  <2>6. m.type = "upgrade" /\ m.ws = w => Asked(c, 1)
    BY <2>1, IsTail
  <2>7. \A d \in Conn : \A i : AskedNext(d, i) => d = c \/ Asked(d, i)
    BY <2>2
  <2> HIDE DEF m, q, c, Asked, AskedNext
  <2>8. ASSUME NEW d \in Conn, NEW i, AskedNext(d, i)
        PROVE  /\ via'[w] = d
               /\ localWs'[w] = "none"
               /\ \A j : AskedNext(d, j) => i = j
    <3>1. via[w] = d /\ localWs[w] = "none"
      BY <1>a, <2>1, <2>5, <2>7, <2>8
    <3>2. ~ (m.type = "upgrade" /\ m.ws = w)
      <4>1. CASE d = c
        BY <1>a, <2>1, <2>5, <2>6, <2>8, <4>1
      <4>2. CASE d # c
        BY <1>a, <2>1, <2>6, <3>1, <4>2
      <4>3. QED
        BY <4>1, <4>2
    <3>3. ASSUME NEW j, AskedNext(d, j) PROVE i = j
      <4>1. CASE d = c
        <5>1. i + 1 = j + 1 /\ i \in Nat /\ j \in Nat
          BY <1>a, <2>1, <2>5, <2>8, <3>3, <4>1
        <5>2. QED
          BY <5>1
      <4>2. CASE d # c
        BY <1>a, <2>7, <2>8, <3>3, <4>2
      <4>3. QED
        BY <4>1, <4>2
    <3>4. QED
      BY <2>2, <2>4, <3>1, <3>2, <3>3
  <2>9. QED
    BY <2>8, AskedMeansNext DEF AskedNext
<1>7. CASE CliLosesTunnel
  <2>1. UNCHANGED via /\ (localWs[w] = "none" => localWs'[w] = "none")
    BY <1>7 DEF CliLosesTunnel, publicVars
  <2>2. \A d \in Conn : toCli'[d] \in {<<>>, toCli[d]}
    BY <1>0, <1>7 DEF CliLosesTunnel, WsTypeOK
  <2>3. \A i : ~ Is(<<>>, "upgrade", w, i)
    BY DEF Is
  <2>4. QED
    BY <1>b, <2>1, <2>2, <2>3
<1>8. ASSUME \/ \E v \in Ws : UpgradeTimesOut(v) \/ LocalSends(v)
             \/ \E c \in Conn : \/ ServerReads(c) \/ Register(c) \/ CloseTunnel(c)
                                \/ SocketCloses(c) \/ Finalized(c)
             \/ ExpirySweep \/ Crash \/ UNCHANGED wsVars
      PROVE  UNCHANGED <<via, localWs, toCli>>
  BY <1>8 DEF UpgradeTimesOut, LocalSends, ServerReads, Register, CloseTunnel, SocketCloses,
     Finalized, ExpirySweep, Crash, wsVars, publicVars, cliVars
<1>9. QED
  BY <1>1, <1>2, <1>3, <1>4, <1>5, <1>6, <1>7, <1>8 DEF WsNext

(* The message the CLI reads, and what it does to the local ends.          *)
LEMMA CliReadsEffect ==
  ASSUME StageInv, CliReads
  PROVE  LET q == toCli[cliSocket]
             m == Head(q) IN
         /\ cliSocket \in Conn /\ q \in Seq(Message) /\ q # <<>>
         /\ m \in Message /\ m.ws \in Ws
         /\ \A d \in Conn : toCli'[d] = IF d = cliSocket THEN Tail(q) ELSE toCli[d]
         /\ \A w \in Ws : localWs'[w] = localWs[w]
              \/ (localWs[w] = "none" /\ localWs'[w] = "connecting")
              \/ (~ Early(w) /\ localWs'[w] \in {"closing", "closed"})
         /\ m.type = "data" => UNCHANGED localWs
         /\ m.type # "data" => UNCHANGED got
<1> DEFINE q == toCli[cliSocket]
           m == Head(q)
<1>0. WsTypeOK /\ None \notin Conn
  BY MapAssumption DEF StageInv, WsInv
<1>1. cliSocket \in Conn /\ q \in Seq(Message) /\ q # <<>>
  BY <1>0 DEF CliReads, WsTypeOK
<1>2. m \in Message /\ m.ws \in Ws
  BY <1>0, <1>1, TailTypes, Messages DEF WsTypeOK
<1>3. \A d \in Conn : toCli'[d] = IF d = cliSocket THEN Tail(q) ELSE toCli[d]
  BY <1>0 DEF CliReads, WsTypeOK
<1>4. m.type = "upgrade" => localWs[m.ws] = "none"
  <2>1. m.type = "upgrade" => Is(q, "upgrade", m.ws, 1)
    BY <1>1, IsTail
  <2>2. AskedOnce(m.ws)
    BY <1>2 DEF StageInv
  <2>3. QED
    BY <1>1, <2>1, <2>2, AskedMeans
<1>5. \/ m.type = "upgrade" /\ localWs' = [localWs EXCEPT ![m.ws] = "connecting"] /\ UNCHANGED got
      \/ m.type = "data" /\ UNCHANGED localWs
      \/ /\ m.type = "close" /\ UNCHANGED got
         /\ \/ UNCHANGED localWs
            \/ /\ localWs[m.ws] \in {"open", "closing"}
               /\ \E x \in {"closing", "closed"} : localWs' = [localWs EXCEPT ![m.ws] = x]
  BY <1>0, CliReadsLocal
<1> HIDE DEF m, q
<1>6. \A w \in Ws : localWs'[w] = localWs[w]
        \/ (localWs[w] = "none" /\ localWs'[w] = "connecting")
        \/ (~ Early(w) /\ localWs'[w] \in {"closing", "closed"})
  BY <1>0, <1>2, <1>4, <1>5 DEF WsTypeOK, Early
<1>7. /\ m.type = "data" => UNCHANGED localWs
      /\ m.type # "data" => UNCHANGED got
  BY <1>5
<1>8. QED
  BY <1>1, <1>2, <1>3, <1>6, <1>7 DEF m, q

(* A local end that has been opened is not opened again.                   *)
LEMMA LateStays ==
  ASSUME StageInv, [WsNext]_wsVars, NEW w \in Ws
  PROVE  ~ Early(w) => ~ Early(w)'
<1>0. WsTypeOK
  BY DEF StageInv, WsInv
<1>1. ASSUME NEW v \in Ws, LocalAnswers(v) \/ LocalCloses(v)
      PROVE  ~ Early(w) => ~ Early(w)'
  <2>1. \E x \in {"open", "closed"} : localWs' = [localWs EXCEPT ![v] = x]
    BY <1>1, LocalEffect
  <2>2. QED
    BY <1>0, <2>1 DEF Early, WsTypeOK
<1>2. CASE CliReads
  BY <1>2, CliReadsEffect DEF Early
<1>3. CASE CliLosesTunnel
  BY <1>3 DEF CliLosesTunnel, Early
<1>4. CASE UNCHANGED localWs
  BY <1>4 DEF Early
<1>5. ASSUME \/ \E v \in Ws : \/ \E s \in Subdomain : PublicConnect(v, s)
                              \/ UpgradeTimesOut(v) \/ PublicSends(v) \/ PublicCloses(v)
                              \/ LocalSends(v)
             \/ \E c \in Conn : \/ ServerReads(c) \/ Register(c) \/ CloseTunnel(c)
                                \/ SocketCloses(c) \/ Finalized(c)
             \/ ExpirySweep \/ Crash \/ UNCHANGED wsVars
      PROVE  UNCHANGED localWs
  BY <1>5 DEF PublicConnect, UpgradeTimesOut, PublicSends, PublicCloses, LocalSends,
     ServerReads, Register, CloseTunnel, SocketCloses, Finalized, ExpirySweep, Crash,
     wsVars, cliVars
<1>6. QED
  BY <1>1, <1>2, <1>3, <1>4, <1>5 DEF WsNext

(* The CLI accepts when it has opened the local end.                       *)
LEMMA TakenStep ==
  ASSUME StageInv, [WsNext]_wsVars, NEW w \in Ws
  PROVE  TakenLate(w)'
<1>0. WsTypeOK /\ TakenLate(w) /\ None \notin Conn
  BY MapAssumption DEF StageInv, WsInv
<1>a. \A c \in Conn : \A i : Is(toServer[c], "accept", w, i) => ~ Early(w)
  BY <1>0, AskedMeans
<1>b. ASSUME \A c \in Conn : \A i : Is(toServer'[c], "accept", w, i) =>
               ~ Early(w)' \/ \E j : Is(toServer[c], "accept", w, j)
      PROVE  TakenLate(w)'
  BY <1>a, <1>b, LateStays, AskedMeansNext
<1>c. ASSUME NEW m \in Message, SendToServer(m),
             m.type = "accept" /\ m.ws = w => ~ Early(w)'
      PROVE  TakenLate(w)'
  <2> SUFFICES ASSUME NEW c \in Conn, NEW i, Is(toServer'[c], "accept", w, i)
               PROVE  ~ Early(w)' \/ \E j : Is(toServer[c], "accept", w, j)
    BY <1>b
  <2>1. toServer[c] \in Seq(Message)
    BY <1>0 DEF WsTypeOK
  <2>2. CASE toServer'[c] = Append(toServer[c], m)
    BY <1>c, <2>1, <2>2, IsAppend
  <2>3. CASE toServer'[c] = toServer[c]
    BY <2>3
  <2>4. QED
    BY <1>0, <1>c, <2>2, <2>3, SendEffect
<1>d. ASSUME UNCHANGED toServer
      PROVE  TakenLate(w)'
  BY <1>b, <1>d
<1>1. ASSUME NEW v \in Ws, LocalAnswers(v)
      PROVE  TakenLate(w)'
  <2>1. CASE localWs' = [localWs EXCEPT ![v] = "open"]
             /\ SendToServer([type |-> "accept", ws |-> v])
    <3>1. v = w => ~ Early(w)'
      BY <1>0, <2>1 DEF Early, WsTypeOK
    <3>2. QED
      BY <1>c, <2>1, <3>1, Messages
  <2>2. CASE SendToServer([type |-> "reject", ws |-> v])
    BY <1>c, <2>2, Messages
  <2>3. QED
    BY <1>1, <2>1, <2>2 DEF LocalAnswers
<1>2. ASSUME NEW v \in Ws, LocalSends(v)
      PROVE  TakenLate(w)'
  <2> DEFINE m == [type |-> "data", ws |-> v, n |-> sent["local"][v] + 1]
  <2>1. m \in Message /\ m.type # "accept"
    <3>1. sent["local"][v] + 1 \in Nat
      BY <1>0 DEF WsTypeOK, End
    <3>2. QED
      BY <3>1, Messages
  <2>2. SendToServer(m)
    BY <1>2 DEF LocalSends
  <2>3. QED
    BY <1>c, <2>1, <2>2
<1>3. ASSUME NEW v \in Ws, LocalCloses(v)
      PROVE  TakenLate(w)'
  BY <1>3, <1>c, <1>d, Messages DEF LocalCloses
<1>4. ASSUME NEW c \in Conn, ServerReads(c)
      PROVE  TakenLate(w)'
  <2>1. /\ toServer[c] \in Seq(Message) /\ toServer[c] # <<>>
        /\ \A d \in Conn : toServer'[d] = IF d = c THEN Tail(toServer[d]) ELSE toServer[d]
    BY <1>0, <1>4 DEF ServerReads, WsTypeOK
  <2>2. \A i : Is(Tail(toServer[c]), "accept", w, i) => Is(toServer[c], "accept", w, i + 1)
    BY <2>1, IsTail
  <2>3. QED
    BY <1>b, <2>1, <2>2
<1>5. ASSUME \A d \in Conn : toServer'[d] \in {<<>>, toServer[d]}
      PROVE  TakenLate(w)'
  <2>1. \A i : ~ Is(<<>>, "accept", w, i)
    BY DEF Is
  <2>2. QED
    BY <1>5, <1>b, <2>1
<1>6. ASSUME Crash \/ \E c \in Conn : SocketCloses(c)
      PROVE  TakenLate(w)'
  <2>1. \A d \in Conn : toServer'[d] \in {<<>>, toServer[d]}
    BY <1>0, <1>6 DEF Crash, SocketCloses, WsTypeOK
  <2>2. QED
    BY <1>5, <2>1
<1>7. ASSUME \/ \E v \in Ws : \/ \E s \in Subdomain : PublicConnect(v, s)
                              \/ UpgradeTimesOut(v) \/ PublicSends(v) \/ PublicCloses(v)
             \/ \E c \in Conn : Register(c) \/ CloseTunnel(c) \/ Finalized(c)
             \/ CliReads \/ CliLosesTunnel \/ ExpirySweep \/ UNCHANGED wsVars
      PROVE  TakenLate(w)'
  <2>1. UNCHANGED toServer
    BY <1>7 DEF PublicConnect, UpgradeTimesOut, PublicSends, PublicCloses, Register,
       CloseTunnel, Finalized, CliReads, CliLosesTunnel, ExpirySweep, wsVars
  <2>2. QED
    BY <1>d, <2>1
<1>8. QED
  BY <1>1, <1>2, <1>3, <1>4, <1>6, <1>7 DEF WsNext

(* The order of the handshake is kept.                                     *)
LEMMA StageStep == StageInv /\ [WsNext]_wsVars => StageInv'
<1> SUFFICES ASSUME StageInv, [WsNext]_wsVars PROVE StageInv'
  OBVIOUS
<1>1. WsInv'
  BY WsTypesStep, WsLifeStep, LifeInvStep, AddressedStep, ProxiedStep DEF StageInv, WsInv
<1>2. cliSocket' # None => life'[cliSocket'] # "new"
  BY CliSocketStep
<1>3. \A w \in Ws : Staged(w)' /\ AskedOnce(w)' /\ TakenLate(w)'
  BY StagedStep, AskedStep, TakenStep
<1>4. QED
  BY <1>1, <1>2, <1>3 DEF StageInv

(* What a step leaves alone between the two ends of w: w keeps its tunnel, *)
(* a local end that was not open is not open now, and a tunnel the CLI has *)
(* lost is not the one it has now; or w's local end had not been opened.   *)
LEMMA EndsKept ==
  ASSUME StageInv, [WsNext]_wsVars, NEW w \in Ws
  PROVE  \/ Early(w)
         \/ /\ via'[w] = via[w]
            /\ localWs'[w] = "open" => localWs[w] = "open"
            /\ via[w] = cliSocket' => cliSocket' = cliSocket
<1>0. WsTypeOK /\ Staged(w) /\ None \notin Conn
  BY MapAssumption DEF StageInv, WsInv
<1> SUFFICES ASSUME ~ Early(w)
             PROVE  /\ via'[w] = via[w]
                    /\ localWs'[w] = "open" => localWs[w] = "open"
                    /\ via[w] = cliSocket' => cliSocket' = cliSocket
  OBVIOUS
<1>a. via[w] \in Conn /\ life[via[w]] # "new" /\ publicSocket[w] # "NONE"
  BY <1>0 DEF Staged, Early, WsTypeOK
<1>1. ASSUME NEW v \in Ws, NEW s \in Subdomain, PublicConnect(v, s)
      PROVE  via'[w] = via[w] /\ UNCHANGED cliVars
  BY <1>0, <1>1, <1>a DEF PublicConnect, WsTypeOK
<1>2. ASSUME NEW v \in Ws, LocalAnswers(v) \/ LocalCloses(v)
      PROVE  /\ via'[w] = via[w]
             /\ localWs'[w] = "open" => localWs[w] = "open"
             /\ cliSocket' = cliSocket
  <2>1. UNCHANGED <<via, cliSocket>>
    BY <1>2, LocalEffect DEF publicVars
  <2>2. \E x \in {"open", "closed"} : localWs' = [localWs EXCEPT ![v] = x]
        /\ (x = "open" => Early(v))
    BY <1>2, LocalEffect DEF Early
  <2>3. QED
    BY <1>0, <2>1, <2>2 DEF WsTypeOK
<1>3. CASE CliReads
  <2>1. UNCHANGED <<via, cliSocket>>
    BY <1>3 DEF CliReads, publicVars
  <2>2. QED
    BY <1>3, <2>1, CliReadsEffect DEF Early
<1>4. CASE CliLosesTunnel
  BY <1>0, <1>4, <1>a DEF CliLosesTunnel, publicVars
<1>5. ASSUME NEW c \in Conn, Register(c)
      PROVE  UNCHANGED <<via, localWs>> /\ via[w] # cliSocket'
  <2>1. life[c] = "new"
    BY <1>5 DEF Register, Open
  <2>2. cliSocket' \in {c, None} /\ UNCHANGED <<via, localWs>>
    BY <1>5 DEF Register, publicVars
  <2>3. QED
    BY <1>0, <1>a, <2>1, <2>2
<1>6. ASSUME \/ \E v \in Ws : UpgradeTimesOut(v) \/ PublicSends(v) \/ PublicCloses(v)
                              \/ LocalSends(v)
             \/ \E c \in Conn : \/ ServerReads(c) \/ CloseTunnel(c)
                                \/ SocketCloses(c) \/ Finalized(c)
             \/ ExpirySweep \/ Crash \/ UNCHANGED wsVars
      PROVE  UNCHANGED <<via, localWs, cliSocket>>
  BY <1>6 DEF UpgradeTimesOut, PublicSends, PublicCloses, LocalSends,
     ServerReads, CloseTunnel, SocketCloses, Finalized, ExpirySweep, Crash,
     wsVars, publicVars, cliVars
<1>7. QED
  BY <1>1, <1>2, <1>3, <1>4, <1>5, <1>6 DEF WsNext, cliVars

(* No message of w's public client has been relayed yet.                   *)
Unsent(w) ==
  Early(w) \/ (upgrade[w] # "relaying" /\ publicSocket[w] # "CLOSED")

(* Once they may be relayed, a public socket is open to that or closed.    *)
LEMMA SentStays ==
  ASSUME StageInv, [WsNext]_wsVars, NEW w \in Ws, ~ Unsent(w)
  PROVE  ~ Unsent(w)'
<1> DEFINE Now == upgrade[w] = "relaying" \/ publicSocket[w] = "CLOSED"
<1>0. WsTypeOK /\ Staged(w) /\ Now
  BY DEF StageInv, WsInv, Unsent
<1>a. SUFFICES Now'
  BY LateStays DEF Unsent
<1>1. ASSUME NEW v \in Ws, NEW s \in Subdomain, PublicConnect(v, s)
      PROVE  Now'
  <2>1. publicSocket[v] = "NONE" /\ v # w
    BY <1>0, <1>1 DEF PublicConnect, Staged
  <2>2. QED
    BY <1>0, <1>1, <2>1 DEF PublicConnect, WsTypeOK
<1>2. ASSUME UNCHANGED publicSocket \/ \E W : ClosePublic(W),
             upgrade[w] = "relaying" => upgrade'[w] = "relaying"
      PROVE  Now'
  BY <1>0, <1>2 DEF ClosePublic
<1>3. ASSUME NEW v \in Ws, UpgradeTimesOut(v)
      PROVE  Now'
  <2>1. \E W : ClosePublic(W)
    BY <1>3 DEF UpgradeTimesOut
  <2>2. upgrade[w] = "relaying" => upgrade'[w] = "relaying"
    BY <1>0, <1>3 DEF UpgradeTimesOut, WsTypeOK
  <2>3. QED
    BY <1>2, <2>1, <2>2
<1>4. ASSUME NEW v \in Ws, PublicCloses(v)
      PROVE  Now'
  BY <1>0, <1>4 DEF PublicCloses, WsTypeOK
<1>5. ASSUME NEW c \in Conn, ServerReads(c)
      PROVE  Now'
  <2> DEFINE m == Head(toServer[c])
  <2>1. m.ws \in Ws
    BY <1>0, <1>5, TailTypes, Messages DEF ServerReads, WsTypeOK
  <2>2. /\ UNCHANGED publicSocket \/ ClosePublic({m.ws})
        /\ \/ UNCHANGED upgrade
           \/ upgrade[m.ws] = "pending" /\ upgrade' = [upgrade EXCEPT ![m.ws] = "ended"]
           \/ upgrade' = [upgrade EXCEPT ![m.ws] = IF @ = "pending" THEN "relaying" ELSE @]
    BY <1>5 DEF ServerReads, Accepted, Rejected, DataForPublic, ClosedByLocal
  <2> HIDE DEF m
  <2>3. upgrade[w] = "relaying" => upgrade'[w] = "relaying"
    BY <1>0, <2>1, <2>2 DEF WsTypeOK
  <2>4. QED
    BY <1>2, <2>2, <2>3
<1>6. ASSUME NEW N, DropWebSockets(N)
      PROVE  Now'
  <2>1. \E W : ClosePublic(W)
    BY <1>6 DEF DropWebSockets
  <2>2. upgrade[w] = "relaying" => upgrade'[w] = "relaying"
    BY <1>0, <1>6 DEF DropWebSockets
  <2>3. QED
    BY <1>2, <2>1, <2>2
<1>7. CASE Crash
  BY <1>0, <1>7 DEF Crash, Staged
<1>8. ASSUME \/ \E v \in Ws : \/ PublicSends(v) \/ LocalAnswers(v) \/ LocalSends(v)
                              \/ LocalCloses(v)
             \/ \E c \in Conn : Register(c) \/ CloseTunnel(c) \/ SocketCloses(c)
             \/ CliReads \/ CliLosesTunnel \/ UNCHANGED wsVars
      PROVE  UNCHANGED <<publicSocket, upgrade>>
  BY <1>8 DEF PublicSends, LocalAnswers, LocalSends, LocalCloses, Register, CloseTunnel,
     SocketCloses, CliReads, CliLosesTunnel, wsVars, publicVars
<1>9. QED
  BY <1>0, <1>1, <1>3, <1>4, <1>5, <1>6, <1>7, <1>8 DEF WsNext, Finalized, ExpirySweep

-----------------------------------------------------------------------------
(* Runs of numbers                                                         *)

(* The last number of a sequence of them.                                  *)
LastOf(q) == q[Len(q)]

(* The next number continues a run.                                        *)
LEMMA RunGoesOn ==
  ASSUME NEW q \in Seq(Nat), Run(q), NEW n \in Nat, q # <<>> => LastOf(q) = n
  PROVE  Run(Append(q, n + 1)) /\ LastOf(Append(q, n + 1)) = n + 1
<1> DEFINE p == Append(q, n + 1)
           l == Len(q)
<1>1. /\ l \in Nat /\ Len(p) = l + 1 /\ p[l + 1] = n + 1
      /\ \A k \in 1 .. l : p[k] = q[k]
      /\ l # 0 => q[l] = n
  BY DEF LastOf
<1>2. \A i \in 1 .. l - 1 : q[i + 1] = q[i] + 1
  BY DEF Run
<1> HIDE DEF p, l
<1>3. ASSUME NEW i \in 1 .. Len(p) - 1 PROVE p[i + 1] = p[i] + 1
  <2>1. CASE i = l
    BY <1>1, <2>1, <1>3
  <2>2. CASE i # l
    <3>1. i \in 1 .. l - 1 /\ i \in 1 .. l /\ i + 1 \in 1 .. l
      BY <1>1, <1>3, <2>2
    <3>2. QED
      BY <1>1, <1>2, <3>1
  <2>3. QED
    BY <2>1, <2>2
<1>4. QED
  BY <1>1, <1>3 DEF Run, LastOf, p

(* The beginning of a run is a run.                                        *)
LEMMA RunBegins ==
  ASSUME NEW a \in Seq(Nat), NEW b \in Seq(Nat), Run(a \o b)
  PROVE  Run(a)
<1> DEFINE q == a \o b
           l == Len(a)
<1>1. /\ l \in Nat /\ Len(b) \in Nat /\ Len(q) = l + Len(b)
      /\ \A k \in 1 .. l : q[k] = a[k]
  OBVIOUS
<1>2. \A i \in 1 .. Len(q) - 1 : q[i + 1] = q[i] + 1
  BY DEF Run
<1> HIDE DEF q, l
<1>3. ASSUME NEW i \in 1 .. l - 1 PROVE a[i + 1] = a[i] + 1
  <2>1. i \in 1 .. l /\ i + 1 \in 1 .. l /\ i \in 1 .. Len(q) - 1
    BY <1>1, <1>3
  <2>2. QED
    BY <1>1, <1>2, <2>1
<1>4. QED
  BY <1>3 DEF Run, l

(* One number moves from the head of a queue to the end of what has been   *)
(* received; one joins the end of the queue.                               *)
LEMMA RunsMove ==
  ASSUME NEW a \in Seq(Nat), NEW b \in Seq(Nat), NEW n \in Nat
  PROVE  /\ Append(a, n) \o b = a \o (<<n>> \o b)
         /\ a \o Append(b, n) = Append(a \o b, n)
<1>1. <<n>> \in Seq(Nat) /\ a \o b \in Seq(Nat)
  OBVIOUS
<1>2. /\ Append(a, n) = a \o <<n>> /\ Append(b, n) = b \o <<n>>
      /\ Append(a \o b, n) = (a \o b) \o <<n>>
  BY <1>1, AppendIsConcat
<1>3. (a \o <<n>>) \o b = a \o (<<n>> \o b) /\ (a \o b) \o <<n>> = a \o (b \o <<n>>)
  BY <1>1, ConcatAssociative
<1>4. QED
  BY <1>2, <1>3

-----------------------------------------------------------------------------
(* From the public client to the local server                              *)

(* Messages for w are on w's tunnel only, and there are none before they   *)
(* are relayed.                                                            *)
Downward(w) ==
  /\ \A c \in Conn : Numbers(toCli[c], w) # <<>> => via[w] = c
  /\ Unsent(w) => got["local"][w] = <<>> /\ \A c \in Conn : Numbers(toCli[c], w) = <<>>

(* RunToLocal of one WebSocket.                                            *)
LocalRun(w) ==
  /\ Run(got["local"][w])
  /\ localWs[w] = "open" /\ via[w] = cliSocket =>
       LET all == got["local"][w] \o Numbers(toCli[cliSocket], w) IN
       /\ Run(all)
       /\ all # <<>> /\ sock[cliSocket] = "OPEN" => all[Len(all)] = sent["public"][w]

DownInv == StageInv /\ \A w \in Ws : Downward(w) /\ LocalRun(w)

(* What the numbers are numbers of.                                        *)
LEMMA DownTypes ==
  ASSUME WsTypeOK, NEW w \in Ws
  PROVE  /\ \A c \in Conn : toCli[c] \in Seq(Message) /\ Numbers(toCli[c], w) \in Seq(Nat)
         /\ \A c \in Conn : toServer[c] \in Seq(Message) /\ Numbers(toServer[c], w) \in Seq(Nat)
         /\ \A e \in End : got[e][w] \in Seq(Nat) /\ sent[e][w] \in Nat
         /\ via[w] \in Conn \cup {None} /\ cliSocket \in Conn \cup {None}
<1>1. \A c \in Conn : toCli[c] \in Seq(Message) /\ toServer[c] \in Seq(Message)
  BY DEF WsTypeOK
<1>2. \A q \in Seq(Message) : Numbers(q, w) \in Seq(Nat)
  <2>1. [type |-> "close", ws |-> w] \in Message
    BY Messages
  <2>2. QED
    BY <2>1, NumbersAppend
<1>3. \A e \in End : got[e][w] \in Seq(Nat) /\ sent[e][w] \in Nat
  BY DEF WsTypeOK
<1>4. via[w] \in Conn \cup {None} /\ cliSocket \in Conn \cup {None}
  BY DEF WsTypeOK
<1>5. QED
  BY <1>1, <1>2, <1>3, <1>4

(* What a send adds to the numbers on their way.                           *)
LEMMA NumbersSent ==
  ASSUME WsTypeOK, NEW m \in Message, NEW w \in Ws
  PROVE  /\ \A c \in Conn \cup {None} : SendToCli(c, m) =>
              \A d \in Conn : Numbers(toCli'[d], w) =
                IF d = c /\ c = cliSocket /\ sock[c] = "OPEN" /\ IsData(m, w)
                THEN Append(Numbers(toCli[d], w), m.n) ELSE Numbers(toCli[d], w)
         /\ SendToServer(m) =>
              \A d \in Conn : Numbers(toServer'[d], w) =
                IF d = cliSocket /\ sock[cliSocket] # "CLOSED" /\ IsData(m, w)
                THEN Append(Numbers(toServer[d], w), m.n) ELSE Numbers(toServer[d], w)
<1>1. \A q \in Seq(Message) :
        Numbers(Append(q, m), w) =
          IF IsData(m, w) THEN Append(Numbers(q, w), m.n) ELSE Numbers(q, w)
  BY NumbersAppend
<1>2. ASSUME NEW c \in Conn \cup {None}, SendToCli(c, m), NEW d \in Conn
      PROVE  Numbers(toCli'[d], w) =
               IF d = c /\ c = cliSocket /\ sock[c] = "OPEN" /\ IsData(m, w)
               THEN Append(Numbers(toCli[d], w), m.n) ELSE Numbers(toCli[d], w)
  <2>1. toCli'[d] = IF d = c /\ c = cliSocket /\ sock[c] = "OPEN"
                    THEN Append(toCli[d], m) ELSE toCli[d]
    BY <1>2, SendEffect
  <2>2. QED
    BY <1>1, <2>1, DownTypes
<1>3. ASSUME SendToServer(m), NEW d \in Conn
      PROVE  Numbers(toServer'[d], w) =
               IF d = cliSocket /\ sock[cliSocket] # "CLOSED" /\ IsData(m, w)
               THEN Append(Numbers(toServer[d], w), m.n) ELSE Numbers(toServer[d], w)
  <2>1. toServer'[d] = IF d = cliSocket /\ sock[cliSocket] # "CLOSED"
                       THEN Append(toServer[d], m) ELSE toServer[d]
    BY <1>3, SendEffect
  <2>2. QED
    BY <1>1, <2>1, DownTypes
<1>4. QED
  BY <1>2, <1>3

(* Before anything is relayed there is nothing to be in order.             *)
LEMMA NothingDown ==
  ASSUME WsTypeOK, NEW w \in Ws, got'["local"][w] = <<>>,
         \A c \in Conn : Numbers(toCli'[c], w) = <<>>,
         cliSocket' \in Conn \cup {None}, localWs'[w] = "open" => via'[w] # None
  PROVE  Downward(w)' /\ LocalRun(w)'
<1>1. Run(<<>>) /\ <<>> \o <<>> = <<>>
  BY DEF Run
<1>2. Downward(w)'
  BY DEF Downward
<1>3. LocalRun(w)'
  <2>1. localWs'[w] = "open" /\ via'[w] = cliSocket' => Numbers(toCli'[cliSocket'], w) = <<>>
    OBVIOUS
  <2>2. QED
    BY <1>1, <2>1 DEF LocalRun
<1>4. QED
  BY <1>2, <1>3

(* A step that neither sends nor delivers anything for w keeps the run.    *)
LEMMA DownKept ==
  ASSUME DownInv, [WsNext]_wsVars, NEW w \in Ws,
         got'["local"][w] = got["local"][w], sent'["public"][w] = sent["public"][w],
         \A c \in Conn : Numbers(toCli'[c], w) = Numbers(toCli[c], w)
  PROVE  Downward(w)' /\ LocalRun(w)'
<1>0. /\ WsTypeOK /\ LifeTypeOK /\ StageInv /\ Staged(w) /\ Downward(w) /\ LocalRun(w)
      /\ None \notin Conn
  BY MapAssumption DEF DownInv, StageInv, WsInv, LifeInv
<1>1. CASE Unsent(w)
  <2>1. WsTypeOK' /\ Staged(w)'
    BY <1>0, WsTypesStep, StagedStep
  <2>2. cliSocket' \in Conn \cup {None} /\ (localWs'[w] = "open" => via'[w] # None)
    BY <2>1 DEF WsTypeOK, Staged
  <2>3. QED
    BY <1>0, <1>1, <2>2, NothingDown DEF Downward
<1>2. CASE ~ Unsent(w)
  <2>1. /\ via'[w] = via[w]
        /\ localWs'[w] = "open" => localWs[w] = "open"
        /\ via[w] = cliSocket' => cliSocket' = cliSocket
    BY <1>0, <1>2, EndsKept DEF Unsent
  <2>2. ~ Unsent(w)'
    BY <1>0, <1>2, SentStays
  <2>3. Downward(w)'
    BY <1>0, <2>1, <2>2 DEF Downward
  <2>4. ASSUME localWs'[w] = "open", via'[w] = cliSocket'
        PROVE  /\ cliSocket' = cliSocket /\ localWs[w] = "open" /\ via[w] = cliSocket
               /\ cliSocket \in Conn
               /\ sock'[cliSocket] = "OPEN" => sock[cliSocket] = "OPEN"
    <3>1. cliSocket' = cliSocket /\ localWs[w] = "open" /\ via[w] = cliSocket
      BY <2>1, <2>4
    <3>2. cliSocket \in Conn /\ life[cliSocket] # "new"
      BY <1>0, <3>1 DEF Staged, WsTypeOK
    <3>3. QED
      BY <1>0, <3>1, <3>2, WsLifeStep, SocketsClose
  <2>5. LocalRun(w)'
    BY <1>0, <2>4 DEF LocalRun
  <2>6. QED
    BY <2>3, <2>5
<1>3. QED
  BY <1>1, <1>2

(* A public message is numbered one more than the last, and joins the run  *)
(* when it is relayed.                                                     *)
LEMMA PublicSendsDown ==
  ASSUME DownInv, NEW w \in Ws, PublicSends(w)
  PROVE  Downward(w)' /\ LocalRun(w)'
<1> DEFINE n == sent["public"][w]
           m == [type |-> "data", ws |-> w, n |-> n + 1]
           N(c) == Numbers(toCli[c], w)
           g == got["local"][w]
<1>0. WsTypeOK /\ Staged(w) /\ Downward(w) /\ LocalRun(w) /\ None \notin Conn
  BY MapAssumption DEF DownInv, StageInv, WsInv
<1>1. /\ publicSocket[w] \in {"OPEN", "CLOSING"} /\ sent'["public"][w] = n + 1
      /\ UNCHANGED <<sock, via, upgrade, publicSocket, localWs, cliSocket, got>>
      /\ IF upgrade[w] = "relaying" THEN SendToCli(via[w], m) ELSE UNCHANGED toCli
  BY <1>0 DEF PublicSends, WsTypeOK, lifeVars, publicVars, cliVars, End
<1>2. n \in Nat /\ m \in Message /\ IsData(m, w) /\ m.n = n + 1 /\ via[w] \in Conn \cup {None}
  <2>1. n \in Nat /\ via[w] \in Conn \cup {None}
    BY <1>0, DownTypes DEF End
  <2>2. QED
    BY <2>1, Messages DEF IsData
<1>3. \A c \in Conn : N(c) \in Seq(Nat) /\ g \in Seq(Nat)
  BY <1>0, DownTypes DEF End
<1> HIDE DEF n, m
<1>4. CASE /\ upgrade[w] = "relaying" /\ via[w] = cliSocket /\ cliSocket \in Conn
           /\ sock[cliSocket] = "OPEN"
  <2>1. \A d \in Conn : Numbers(toCli'[d], w) =
          IF d = cliSocket THEN Append(N(d), n + 1) ELSE N(d)
    BY <1>0, <1>1, <1>2, <1>4, NumbersSent
  <2>2. ~ Unsent(w)'
    BY <1>0, <1>1, <1>4 DEF Unsent, Staged, Early
  <2>3. Downward(w)'
    BY <1>0, <1>1, <1>4, <2>1, <2>2 DEF Downward
  <2>4. ASSUME localWs[w] = "open"
        PROVE  /\ Run(g \o Append(N(cliSocket), n + 1))
               /\ LastOf(g \o Append(N(cliSocket), n + 1)) = n + 1
    <3> DEFINE b == N(cliSocket)
               all == g \o b
    <3>1. Run(all) /\ (all # <<>> => LastOf(all) = n)
      BY <1>0, <1>4, <2>4 DEF LocalRun, LastOf, n
    <3>2. b \in Seq(Nat) /\ g \in Seq(Nat) /\ n + 1 \in Nat
      BY <1>2, <1>3, <1>4
    <3> HIDE DEF b, g, N
    <3>3. g \o Append(b, n + 1) = Append(all, n + 1) /\ all \in Seq(Nat)
      BY <3>2, RunsMove
    <3> HIDE DEF all
    <3>4. Run(g \o Append(b, n + 1)) /\ LastOf(g \o Append(b, n + 1)) = n + 1
      BY <1>2, <3>1, <3>3, RunGoesOn
    <3>5. QED
      BY <3>4 DEF b
  <2>5. Run(g)
    BY <1>0 DEF LocalRun
  <2>6. LocalRun(w)'
    BY <1>1, <1>4, <2>1, <2>4, <2>5 DEF LocalRun, LastOf
  <2>7. QED
    BY <2>3, <2>6
<1>5. CASE ~ (/\ upgrade[w] = "relaying" /\ via[w] = cliSocket /\ cliSocket \in Conn
              /\ sock[cliSocket] = "OPEN")
  <2>1. \A d \in Conn : Numbers(toCli'[d], w) = N(d)
    BY <1>0, <1>1, <1>2, <1>5, NumbersSent
  <2>2. Downward(w)'
    BY <1>0, <1>1, <2>1 DEF Downward, Unsent, Early
  <2>3. Run(g)
    BY <1>0 DEF LocalRun
  <2>4. ASSUME localWs[w] = "open", via[w] = cliSocket
        PROVE  /\ cliSocket \in Conn /\ Run(g \o N(cliSocket))
               /\ g \o N(cliSocket) # <<>> => sock[cliSocket] # "OPEN"
    <3>1. cliSocket \in Conn
      BY <1>0, <1>2, <2>4 DEF Staged
    <3>2. Run(g \o N(cliSocket))
      BY <1>0, <2>4 DEF LocalRun
    <3>3. upgrade[w] # "relaying" => g = <<>> /\ N(cliSocket) = <<>>
      BY <1>0, <1>1, <3>1 DEF Downward, Unsent
    <3>4. <<>> \o <<>> = <<>>
      OBVIOUS
    <3>5. QED
      BY <1>5, <2>4, <3>1, <3>2, <3>3, <3>4
  <2>5. LocalRun(w)'
    BY <1>1, <2>1, <2>3, <2>4 DEF LocalRun
  <2>6. QED
    BY <2>2, <2>5
<1>6. QED
  BY <1>4, <1>5

(* What the CLI reads moves from the tunnel to the local server, or is lost*)
(* when the local end is not open.                                         *)
LEMMA CliReadsDown ==
  ASSUME DownInv, NEW w \in Ws, CliReads
  PROVE  Downward(w)' /\ LocalRun(w)'
<1> DEFINE k == cliSocket
           q == toCli[k]
           m == Head(q)
           N(c) == Numbers(toCli[c], w)
           g == got["local"][w]
<1>0. /\ WsTypeOK /\ StageInv /\ Staged(w) /\ Downward(w) /\ LocalRun(w) /\ [WsNext]_wsVars
      /\ None \notin Conn
  BY MapAssumption DEF DownInv, StageInv, WsInv, WsNext
<1>1. /\ k \in Conn /\ q \in Seq(Message) /\ q # <<>> /\ m \in Message /\ m.ws \in Ws
      /\ \A d \in Conn : toCli'[d] = IF d = k THEN Tail(q) ELSE toCli[d]
      /\ m.type = "data" => UNCHANGED localWs
      /\ m.type # "data" => UNCHANGED got
  BY <1>0, CliReadsEffect
<1>2. UNCHANGED <<sock, via, upgrade, publicSocket, cliSocket, sent>>
  BY DEF CliReads, lifeVars, publicVars
<1>3. m.type = "data" => m.n \in Nat /\
        got' = IF localWs[m.ws] = "open"
               THEN [got EXCEPT !["local"][m.ws] = Append(@, m.n)] ELSE got
  <2>1. m.type = "data" => m.n \in Nat
    BY <1>1, Messages
  <2>2. QED
    BY <2>1 DEF CliReads
<1>4. CASE ~ IsData(m, w)
  <2>1. \A d \in Conn : Numbers(toCli'[d], w) = N(d)
    BY <1>1, <1>4, NumbersTail
  <2>2. got'["local"][w] = g
    <3>1. CASE m.type # "data"
      BY <1>1, <3>1
    <3>2. CASE m.type = "data"
      <4>1. m.ws # w
        BY <1>4, <3>2 DEF IsData
      <4>2. got \in [End -> [Ws -> Seq(Nat)]]
        BY <1>0 DEF WsTypeOK
      <4> HIDE DEF m, q, k
      <4>3. QED
        BY <1>1, <1>3, <3>2, <4>1, <4>2 DEF End
    <3>3. QED
      BY <3>1, <3>2
  <2>3. QED
    BY <1>0, <1>2, <2>1, <2>2, DownKept
<1>5. CASE IsData(m, w)
  <2> DEFINE rest == Numbers(Tail(q), w)
  <2>1. N(k) = <<m.n>> \o rest /\ rest \in Seq(Nat) /\ m.n \in Nat /\ g \in Seq(Nat)
    <3>1. N(k) = <<m.n>> \o rest /\ Tail(q) \in Seq(Message)
      BY <1>1, <1>5, NumbersTail
    <3>2. rest \in Seq(Nat)
      BY <3>1, <1>1, NumbersAppend
    <3>3. QED
      BY <1>0, <1>3, <1>5, <3>1, <3>2, DownTypes DEF IsData, End
  <2>2. \A d \in Conn : Numbers(toCli'[d], w) = IF d = k THEN rest ELSE N(d)
    BY <1>1
  <2>3. via[w] = k /\ ~ Unsent(w) /\ \A d \in Conn \ {k} : N(d) = <<>>
    <3>1. N(k) # <<>>
      BY <2>1
    <3> HIDE DEF N, k, rest
    <3>2. QED
      BY <1>0, <1>1, <3>1 DEF Downward, N, k
  <2>4. UNCHANGED localWs /\ m.ws = w
    BY <1>1, <1>5 DEF IsData
  <2>5. Downward(w)'
    <3>1. ~ Unsent(w)'
      BY <1>2, <2>3, <2>4 DEF Unsent, Early
    <3> HIDE DEF N, k, rest
    <3>2. QED
      BY <1>2, <2>2, <2>3, <3>1 DEF Downward
  <2>6. CASE localWs[w] = "open"
    <3>1. got'["local"][w] = Append(g, m.n)
      <4> HIDE DEF m, q, k
      <4>1. QED
        BY <1>0, <1>3, <1>5, <2>4, <2>6 DEF WsTypeOK, IsData, End
    <3>2. Append(g, m.n) \o rest = g \o N(k)
      <4> HIDE DEF g, rest, N, m
      <4>1. Append(g, m.n) \o rest = g \o (<<m.n>> \o rest)
        BY <2>1, RunsMove
      <4>2. QED
        BY <2>1, <4>1
    <3>3. /\ Run(g \o N(k))
          /\ g \o N(k) # <<>> /\ sock[k] = "OPEN" => LastOf(g \o N(k)) = sent["public"][w]
      BY <1>0, <2>3, <2>6 DEF LocalRun, LastOf
    <3>4. Run(Append(g, m.n))
      <4>1. Append(g, m.n) \in Seq(Nat)
        BY <2>1
      <4> HIDE DEF N, k, rest, m
      <4>2. QED
        BY <2>1, <3>2, <3>3, <4>1, RunBegins
    <3>5. Numbers(toCli'[k], w) = rest
      BY <1>1, <2>2
    <3> HIDE DEF N, rest, m, g
    <3>6. QED
      BY <1>2, <2>5, <3>1, <3>2, <3>3, <3>4, <3>5 DEF LocalRun, LastOf
  <2>7. CASE localWs[w] # "open"
    <3>1. got' = got
      <4> HIDE DEF m
      <4>1. QED
        BY <1>3, <1>5, <2>4, <2>7 DEF IsData
    <3>2. LocalRun(w)'
      BY <1>0, <2>4, <2>7, <3>1 DEF LocalRun
    <3>3. QED
      BY <2>5, <3>2
  <2>8. QED
    BY <2>6, <2>7
<1>6. QED
  BY <1>4, <1>5

(* What is on its way to the CLI is lost with its end of the tunnel.       *)
LEMMA LosesTunnelDown ==
  ASSUME DownInv, NEW w \in Ws, CliLosesTunnel
  PROVE  Downward(w)' /\ LocalRun(w)'
<1>0. /\ WsTypeOK /\ StageInv /\ Staged(w) /\ Downward(w) /\ LocalRun(w) /\ [WsNext]_wsVars
  BY DEF DownInv, StageInv, WsInv, WsNext
<1>1. /\ UNCHANGED <<via, upgrade, publicSocket, got>> /\ cliSocket' = None
      /\ localWs[w] = "none" => localWs'[w] = "none"
      /\ localWs'[w] \in {localWs[w], "none", "closed"}
  BY DEF CliLosesTunnel, publicVars, dataVars
<1>2. \A d \in Conn : toCli'[d] \in {<<>>, toCli[d]}
  BY <1>0 DEF CliLosesTunnel, WsTypeOK
<1>3. \A d \in Conn : Numbers(toCli'[d], w) \in {<<>>, Numbers(toCli[d], w)}
  BY <1>2, NumbersOfNone
<1>4. Unsent(w)' => Unsent(w)
  BY <1>0, SentStays
<1>5. Downward(w)'
  BY <1>0, <1>1, <1>3, <1>4 DEF Downward
<1>6. ~ (localWs'[w] = "open" /\ via'[w] = cliSocket')
  BY <1>0, <1>1 DEF Staged
<1>7. LocalRun(w)'
  BY <1>0, <1>1, <1>6 DEF LocalRun
<1>8. QED
  BY <1>5, <1>7

(* No step breaks the run towards the local server.                        *)
LEMMA DownStep ==
  ASSUME DownInv, [WsNext]_wsVars, NEW w \in Ws
  PROVE  Downward(w)' /\ LocalRun(w)'
<1> DEFINE Goal == Downward(w)' /\ LocalRun(w)'
           Quiet == \A c \in Conn : Numbers(toCli'[c], w) = Numbers(toCli[c], w)
<1>0. WsTypeOK
  BY DEF DownInv, StageInv, WsInv
<1>a. ASSUME NEW c \in Conn \cup {None}, NEW m \in Message, SendToCli(c, m), ~ IsData(m, w)
      PROVE  Quiet
  BY <1>0, <1>a, NumbersSent
<1>1. ASSUME NEW v \in Ws, NEW s \in Subdomain, PublicConnect(v, s)
      PROVE  Goal
  <2> DEFINE m == [type |-> "upgrade", ws |-> v]
  <2>1. UNCHANGED dataVars /\ (UNCHANGED toCli \/ SendToCli(findBySubdomain(s), m))
    BY <1>1 DEF PublicConnect
  <2>2. /\ m \in Message /\ ~ IsData(m, w)
        /\ findBySubdomain(s) \in Conn \cup {None}
    BY <1>0, Messages DEF IsData, findBySubdomain, WsTypeOK, LifeTypeOK, MapTypeOK
  <2> HIDE DEF m
  <2>3. Quiet
    BY <1>a, <2>1, <2>2
  <2>4. QED
    BY <2>1, <2>3, DownKept DEF dataVars
<1>2. ASSUME NEW v \in Ws, PublicCloses(v)
      PROVE  Goal
  <2> DEFINE m == [type |-> "close", ws |-> v]
  <2>1. UNCHANGED dataVars /\ (UNCHANGED toCli \/ SendToCli(findBySubdomain(host[v]), m))
    BY <1>2 DEF PublicCloses
  <2>2. /\ m \in Message /\ ~ IsData(m, w)
        /\ findBySubdomain(host[v]) \in Conn \cup {None}
    BY <1>0, Messages DEF IsData, findBySubdomain, WsTypeOK, LifeTypeOK, MapTypeOK
  <2> HIDE DEF m
  <2>3. Quiet
    BY <1>a, <2>1, <2>2
  <2>4. QED
    BY <2>1, <2>3, DownKept DEF dataVars
<1>3. ASSUME NEW v \in Ws, PublicSends(v), v # w
      PROVE  Goal
  <2> DEFINE m == [type |-> "data", ws |-> v, n |-> sent["public"][v] + 1]
  <2>1. /\ got' = got /\ sent'["public"][w] = sent["public"][w]
        /\ UNCHANGED toCli \/ SendToCli(via[v], m)
    BY <1>0, <1>3 DEF PublicSends, WsTypeOK, End
  <2>2. m \in Message /\ ~ IsData(m, w) /\ via[v] \in Conn \cup {None}
    <3>1. sent["public"][v] + 1 \in Nat /\ via[v] \in Conn \cup {None}
      BY <1>0, DownTypes DEF End
    <3>2. QED
      BY <1>3, <3>1, Messages DEF IsData
  <2> HIDE DEF m
  <2>3. Quiet
    BY <1>a, <2>1, <2>2
  <2>4. QED
    BY <2>1, <2>3, DownKept
<1>4. ASSUME NEW c \in Conn, ServerReads(c)
      PROVE  Goal
  <2>1. UNCHANGED <<toCli, sent>>
        /\ \/ UNCHANGED got
           \/ \E v, n : got' = [got EXCEPT !["public"][v] = Append(@, n)]
    BY <1>4 DEF ServerReads, Accepted, Rejected, DataForPublic, ClosedByLocal
  <2>2. got'["local"][w] = got["local"][w]
    BY <1>0, <2>1 DEF WsTypeOK, End
  <2>3. QED
    BY <2>1, <2>2, DownKept
<1>5. ASSUME NEW v \in Ws, LocalSends(v)
      PROVE  Goal
  <2>1. UNCHANGED <<toCli, got>> /\ sent'["public"][w] = sent["public"][w]
    BY <1>0, <1>5 DEF LocalSends, WsTypeOK, End
  <2>2. QED
    BY <2>1, DownKept
<1>6. ASSUME UNCHANGED <<toCli, got>>, UNCHANGED sent \/ \E v \in Ws : LocalAnswers(v)
      PROVE  Goal
  <2>1. sent'["public"][w] = sent["public"][w]
    BY <1>0, <1>6 DEF LocalAnswers, WsTypeOK, End
  <2>2. QED
    BY <1>6, <2>1, DownKept
<1>7. ASSUME NEW v \in Ws, LocalAnswers(v)
      PROVE  Goal
  BY <1>6, <1>7, LocalEffect
<1>8. ASSUME \/ \E v \in Ws : UpgradeTimesOut(v) \/ LocalCloses(v)
             \/ \E c \in Conn : Register(c) \/ CloseTunnel(c) \/ SocketCloses(c) \/ Finalized(c)
             \/ ExpirySweep \/ Crash \/ UNCHANGED wsVars
      PROVE  UNCHANGED <<toCli, got, sent>>
  BY <1>8 DEF UpgradeTimesOut, LocalCloses, Register, CloseTunnel, SocketCloses,
     Finalized, ExpirySweep, Crash, wsVars, dataVars
<1>9. QED
  BY <1>1, <1>2, <1>3, <1>4, <1>5, <1>6, <1>7, <1>8, PublicSendsDown, CliReadsDown, LosesTunnelDown
  DEF WsNext

-----------------------------------------------------------------------------
(* From the local server to the public client                              *)

(* Before the local end is open nothing has come from it, and no more is   *)
(* lost then than it has sent; what is on its way on the CLI's tunnel, when*)
(* that is w's, is on no other.                                            *)
Upward(w) ==
  /\ early[w] <= sent["local"][w]
  /\ Early(w) => /\ sent["local"][w] = 0
                 /\ got["public"][w] = <<>>
                 /\ \A c \in Conn : Numbers(toServer[c], w) = <<>>
  /\ via[w] = cliSocket =>
       \A c \in Conn \ {cliSocket} : Numbers(toServer[c], w) = <<>>

(* RunToPublic of one WebSocket.                                           *)
PublicRun(w) ==
  /\ w \in proxiedWebSockets
  /\ publicSocket[w] = "OPEN" /\ localWs[w] = "open"
  /\ via[w] = cliSocket /\ sock[cliSocket] # "CLOSED"
  => got["public"][w] \o Numbers(toServer[cliSocket], w)
       = [i \in 1 .. sent["local"][w] - early[w] |-> early[w] + i]

UpInv == StageInv /\ \A w \in Ws : Upward(w) /\ PublicRun(w)

(* The numbers from e to n, and the next.                                  *)
LEMMA UpTo ==
  /\ \A e \in Nat : <<>> = [i \in 1 .. e - e |-> e + i]
  /\ \A e, n \in Nat : e <= n =>
       Append([i \in 1 .. n - e |-> e + i], n + 1) = [i \in 1 .. (n + 1) - e |-> e + i]
<1>1. ASSUME NEW e \in Nat PROVE <<>> = [i \in 1 .. e - e |-> e + i]
  OBVIOUS
<1>2. ASSUME NEW e \in Nat, NEW n \in Nat, e <= n
      PROVE  Append([i \in 1 .. n - e |-> e + i], n + 1) = [i \in 1 .. (n + 1) - e |-> e + i]
  <2>1. PICK k \in Nat : n = e + k
    <3>1. n - e \in Nat /\ n = e + (n - e)
      BY <1>2
    <3>2. QED
      BY <3>1
  <2>2. n - e = k /\ (n + 1) - e = k + 1 /\ n + 1 = e + (k + 1)
    BY <2>1
  <2>3. Append([i \in 1 .. k |-> e + i], e + (k + 1)) = [i \in 1 .. k + 1 |-> e + i]
    OBVIOUS
  <2>4. QED
    BY <2>2, <2>3
<1>3. QED
  BY <1>1, <1>2

(* A public end is registered and opened before the local end is.          *)
LEMMA PublicEndKept ==
  ASSUME StageInv, [WsNext]_wsVars, NEW w \in Ws, ~ Early(w)
  PROVE  /\ w \in proxiedWebSockets' => w \in proxiedWebSockets
         /\ publicSocket'[w] = "OPEN" => publicSocket[w] = "OPEN"
<1> DEFINE Goal == /\ w \in proxiedWebSockets' => w \in proxiedWebSockets
                   /\ publicSocket'[w] = "OPEN" => publicSocket[w] = "OPEN"
<1>0. WsTypeOK /\ Staged(w)
  BY DEF StageInv, WsInv
<1>1. ASSUME NEW v \in Ws, NEW s \in Subdomain, PublicConnect(v, s)
      PROVE  Goal
  <2>1. v # w
    BY <1>0, <1>1 DEF PublicConnect, Staged, Early
  <2>2. \/ UNCHANGED proxiedVars
        \/ registerProxiedWebSocket(v, s)
    BY <1>1 DEF PublicConnect
  <2>3. publicSocket'[w] = publicSocket[w]
    BY <1>0, <1>1, <2>1 DEF PublicConnect, WsTypeOK
  <2>4. QED
    BY <2>1, <2>2, <2>3 DEF registerProxiedWebSocket, proxiedVars
<1>2. ASSUME UNCHANGED proxiedVars \/ \E W : unregisterProxiedWebSocket(W),
             UNCHANGED publicSocket \/ \E W : ClosePublic(W)
      PROVE  Goal
  BY <1>0, <1>2 DEF unregisterProxiedWebSocket, ClosePublic, proxiedVars
<1>3. ASSUME NEW v \in Ws, UpgradeTimesOut(v)
      PROVE  Goal
  BY <1>2, <1>3 DEF UpgradeTimesOut
<1>4. ASSUME NEW v \in Ws, PublicCloses(v)
      PROVE  Goal
  <2>1. UNCHANGED proxiedVars \/ unregisterProxiedWebSocket({v})
    BY <1>4 DEF PublicCloses
  <2>2. publicSocket' = [publicSocket EXCEPT ![v] = "CLOSED"]
    BY <1>4 DEF PublicCloses
  <2>3. QED
    BY <1>0, <2>1, <2>2 DEF unregisterProxiedWebSocket, proxiedVars, WsTypeOK
<1>5. ASSUME NEW c \in Conn, ServerReads(c)
      PROVE  Goal
  <2>1. UNCHANGED proxiedVars \/ \E W : unregisterProxiedWebSocket(W)
    BY <1>5 DEF ServerReads, Accepted, Rejected, DataForPublic, ClosedByLocal
  <2>2. UNCHANGED publicSocket \/ \E W : ClosePublic(W)
    BY <1>5 DEF ServerReads, Accepted, Rejected, DataForPublic, ClosedByLocal
  <2>3. QED
    BY <1>2, <2>1, <2>2
<1>6. ASSUME NEW N, DropWebSockets(N)
      PROVE  Goal
  <2>1. (\E W : unregisterProxiedWebSocket(W)) /\ (\E W : ClosePublic(W))
    BY <1>6 DEF DropWebSockets
  <2>2. QED
    BY <1>2, <2>1
<1>7. CASE Crash
  BY <1>7 DEF Crash
<1>8. ASSUME \/ \E v \in Ws : \/ PublicSends(v) \/ LocalAnswers(v) \/ LocalSends(v)
                              \/ LocalCloses(v)
             \/ \E c \in Conn : Register(c) \/ CloseTunnel(c) \/ SocketCloses(c)
             \/ CliReads \/ CliLosesTunnel \/ UNCHANGED wsVars
      PROVE  UNCHANGED <<publicSocket, proxiedVars>>
  BY <1>8 DEF PublicSends, LocalAnswers, LocalSends, LocalCloses, Register, CloseTunnel,
     SocketCloses, CliReads, CliLosesTunnel, wsVars, publicVars
<1>9. QED
  BY <1>1, <1>2, <1>3, <1>4, <1>5, <1>6, <1>7, <1>8 DEF WsNext, Finalized, ExpirySweep

(* A step that neither sends nor delivers anything for w keeps the run; so *)
(* does one that loses what is on its way, which ends the run's conditions.*)
LEMMA UpKept ==
  ASSUME UpInv, [WsNext]_wsVars, NEW w \in Ws,
         got'["public"][w] = got["public"][w], sent'["local"][w] = sent["local"][w],
         early'[w] = early[w],
         \A c \in Conn :
           \/ Numbers(toServer'[c], w) = Numbers(toServer[c], w)
           \/ /\ Numbers(toServer'[c], w) = <<>>
              /\ c = cliSocket => w \notin proxiedWebSockets' \/ sock'[c] = "CLOSED"
  PROVE  Upward(w)' /\ PublicRun(w)'
<1>0. /\ WsTypeOK /\ LifeTypeOK /\ StageInv /\ Staged(w) /\ Upward(w) /\ PublicRun(w)
      /\ None \notin Conn
  BY MapAssumption DEF UpInv, StageInv, WsInv, LifeInv
<1>1. CASE Early(w)
  <2>1. WsTypeOK' /\ Staged(w)'
    BY <1>0, WsTypesStep, StagedStep
  <2>2. cliSocket' \in Conn \cup {None} /\ (localWs'[w] = "open" => via'[w] # None)
    BY <2>1 DEF WsTypeOK, Staged
  <2>3. /\ sent'["local"][w] = 0 /\ early'[w] = 0 /\ got'["public"][w] = <<>>
        /\ \A c \in Conn : Numbers(toServer'[c], w) = <<>>
    <3>1. early[w] \in Nat
      BY <1>0 DEF WsTypeOK
    <3>2. QED
      BY <1>0, <1>1, <3>1 DEF Upward
  <2>4. Upward(w)'
    BY <2>3 DEF Upward
  <2>5. <<>> \o <<>> = <<>>
    OBVIOUS
  <2>6. PublicRun(w)'
    BY <2>2, <2>3, <2>5, UpTo DEF PublicRun
  <2>7. QED
    BY <2>4, <2>6
<1>2. CASE ~ Early(w)
  <2>1. /\ via'[w] = via[w]
        /\ localWs'[w] = "open" => localWs[w] = "open"
        /\ via[w] = cliSocket' => cliSocket' = cliSocket
    BY <1>0, <1>2, EndsKept
  <2>2. ~ Early(w)'
    BY <1>0, <1>2, LateStays
  <2>3. Upward(w)'
    BY <1>0, <2>1, <2>2 DEF Upward
  <2>4. ASSUME w \in proxiedWebSockets', publicSocket'[w] = "OPEN", localWs'[w] = "open",
               via'[w] = cliSocket', sock'[cliSocket'] # "CLOSED"
        PROVE  /\ cliSocket' = cliSocket /\ localWs[w] = "open" /\ via[w] = cliSocket
               /\ w \in proxiedWebSockets /\ publicSocket[w] = "OPEN"
               /\ sock[cliSocket] # "CLOSED"
               /\ Numbers(toServer'[cliSocket], w) = Numbers(toServer[cliSocket], w)
    <3>1. cliSocket' = cliSocket /\ localWs[w] = "open" /\ via[w] = cliSocket
      BY <2>1, <2>4
    <3>2. cliSocket \in Conn /\ life[cliSocket] # "new"
      BY <1>0, <3>1 DEF Staged, WsTypeOK
    <3>3. sock[cliSocket] # "CLOSED"
      BY <1>0, <2>4, <3>1, <3>2, WsLifeStep, SocketsClose
    <3>4. w \in proxiedWebSockets /\ publicSocket[w] = "OPEN"
      BY <1>0, <1>2, <2>4, PublicEndKept
    <3>5. QED
      BY <2>4, <3>1, <3>2, <3>3, <3>4
  <2>5. PublicRun(w)'
    BY <1>0, <2>4 DEF PublicRun
  <2>6. QED
    BY <2>3, <2>5
<1>3. QED
  BY <1>1, <1>2

(* A message of the local server is numbered one more than the last, and   *)
(* joins the run when it is sent.                                          *)
LEMMA LocalSendsUp ==
  ASSUME UpInv, NEW w \in Ws, LocalSends(w)
  PROVE  Upward(w)' /\ PublicRun(w)'
<1> DEFINE n == sent["local"][w]
           m == [type |-> "data", ws |-> w, n |-> n + 1]
           M(c) == Numbers(toServer[c], w)
           g == got["public"][w]
<1>0. WsTypeOK /\ Staged(w) /\ Upward(w) /\ PublicRun(w) /\ None \notin Conn
  BY MapAssumption DEF UpInv, StageInv, WsInv
<1>1. /\ ~ Early(w) /\ sent'["local"][w] = n + 1 /\ SendToServer(m)
      /\ UNCHANGED <<sock, via, publicSocket, proxiedWebSockets, localWs, cliSocket, early, got>>
  BY <1>0 DEF LocalSends, connections, Early, WsTypeOK, lifeVars, publicVars, proxiedVars,
     cliVars, End
<1>2. /\ n \in Nat /\ m \in Message /\ IsData(m, w) /\ m.n = n + 1
      /\ early[w] \in Nat /\ early[w] <= n
  <2>1. n \in Nat /\ early[w] \in Nat /\ early[w] <= n
    BY <1>0, DownTypes DEF End, WsTypeOK, Upward
  <2>2. QED
    BY <2>1, Messages DEF IsData
<1>3. g \in Seq(Nat) /\ \A c \in Conn : M(c) \in Seq(Nat)
  BY <1>0, DownTypes DEF End
<1> HIDE DEF n, m
<1>4. \A d \in Conn : Numbers(toServer'[d], w) =
        IF d = cliSocket /\ sock[cliSocket] # "CLOSED" THEN Append(M(d), n + 1) ELSE M(d)
  BY <1>0, <1>1, <1>2, NumbersSent
<1>5. Upward(w)'
  BY <1>0, <1>1, <1>2, <1>4 DEF Upward, Early
<1>6. ASSUME w \in proxiedWebSockets, publicSocket[w] = "OPEN", localWs[w] = "open",
             via[w] = cliSocket, sock[cliSocket] # "CLOSED"
      PROVE  g \o Numbers(toServer'[cliSocket], w)
               = [i \in 1 .. (n + 1) - early[w] |-> early[w] + i]
  <2>1. cliSocket \in Conn
    BY <1>0, <1>1, <1>6 DEF Staged, WsTypeOK
  <2> DEFINE b == M(cliSocket)
  <2>2. Numbers(toServer'[cliSocket], w) = Append(b, n + 1)
    BY <1>4, <1>6, <2>1
  <2>3. g \o b = [i \in 1 .. n - early[w] |-> early[w] + i]
    BY <1>0, <1>1, <1>6 DEF PublicRun, n
  <2>4. b \in Seq(Nat) /\ g \in Seq(Nat) /\ n + 1 \in Nat
    BY <1>2, <1>3, <2>1
  <2> HIDE DEF b, g, M
  <2>5. g \o Append(b, n + 1) = Append(g \o b, n + 1)
    BY <2>4, RunsMove
  <2>6. Append(g \o b, n + 1) = [i \in 1 .. (n + 1) - early[w] |-> early[w] + i]
    BY <1>2, <2>3, UpTo
  <2>7. QED
    BY <2>2, <2>5, <2>6 DEF g
<1>7. PublicRun(w)'
  BY <1>1, <1>6 DEF PublicRun
<1>8. QED
  BY <1>5, <1>7

(* What the server reads moves from the tunnel to the public client.       *)
LEMMA ServerReadsUp ==
  ASSUME UpInv, NEW w \in Ws, NEW c \in Conn, ServerReads(c)
  PROVE  Upward(w)' /\ PublicRun(w)'
<1> DEFINE q == toServer[c]
           m == Head(q)
           M(d) == Numbers(toServer[d], w)
           g == got["public"][w]
<1>0. /\ WsTypeOK /\ StageInv /\ Staged(w) /\ Upward(w) /\ PublicRun(w) /\ [WsNext]_wsVars
      /\ None \notin Conn
  BY MapAssumption DEF UpInv, StageInv, WsInv, WsNext
<1>1. /\ q \in Seq(Message) /\ q # <<>>
      /\ \A d \in Conn : toServer'[d] = IF d = c THEN Tail(q) ELSE toServer[d]
  BY <1>0 DEF ServerReads, WsTypeOK
<1>2. m \in Message /\ m.ws \in Ws /\ (m.type = "data" => m.n \in Nat)
  BY <1>0, <1>1, TailTypes, Messages DEF WsTypeOK
<1>3. UNCHANGED <<sock, via, localWs, cliSocket, sent, early>>
  BY DEF ServerReads, lifeVars, cliVars
<1>4. m.type # "data" => UNCHANGED got
  BY DEF ServerReads, Accepted, Rejected, ClosedByLocal
<1>5. m.type = "data" =>
        /\ UNCHANGED <<publicSocket, proxiedWebSockets>>
        /\ got' = IF m.ws \in proxiedWebSockets /\ publicSocket[m.ws] = "OPEN"
                  THEN [got EXCEPT !["public"][m.ws] = Append(@, m.n)] ELSE got
  BY DEF ServerReads, DataForPublic, proxiedVars
<1>6. CASE ~ IsData(m, w)
  <2>1. \A d \in Conn : Numbers(toServer'[d], w) = M(d)
    BY <1>1, <1>6, NumbersTail
  <2>2. got'["public"][w] = g
    <3> HIDE DEF m, q
    <3>1. QED
      BY <1>0, <1>2, <1>4, <1>5, <1>6 DEF WsTypeOK, IsData, End
  <2>3. QED
    BY <1>0, <1>3, <2>1, <2>2, UpKept
<1>7. CASE IsData(m, w)
  <2> DEFINE rest == Numbers(Tail(q), w)
  <2>1. M(c) = <<m.n>> \o rest /\ rest \in Seq(Nat) /\ m.n \in Nat /\ g \in Seq(Nat)
    <3>1. M(c) = <<m.n>> \o rest /\ Tail(q) \in Seq(Message)
      BY <1>1, <1>7, NumbersTail
    <3>2. rest \in Seq(Nat)
      BY <3>1, <1>2, NumbersAppend
    <3>3. QED
      BY <1>0, <1>2, <1>7, <3>1, <3>2, DownTypes DEF IsData, End
  <2>2. \A d \in Conn : Numbers(toServer'[d], w) = IF d = c THEN rest ELSE M(d)
    BY <1>1
  <2>3. ~ Early(w) /\ (via[w] = cliSocket => c = cliSocket)
    <3>1. M(c) # <<>>
      BY <2>1
    <3> HIDE DEF rest
    <3>2. QED
      BY <1>0, <3>1 DEF Upward
  <2>4. Upward(w)'
    <3> HIDE DEF M, rest
    <3>1. ~ Early(w)'
      BY <1>3, <2>3 DEF Early
    <3>2. via[w] = cliSocket => \A d \in Conn \ {cliSocket} : M(d) = <<>>
      BY <1>0 DEF Upward, M
    <3>3. (early[w] <= sent["local"][w])'
      BY <1>0, <1>3 DEF Upward
    <3>4. QED
      BY <1>3, <2>2, <2>3, <3>1, <3>2, <3>3 DEF Upward
  <2>5. ASSUME w \in proxiedWebSockets, publicSocket[w] = "OPEN", localWs[w] = "open",
               via[w] = cliSocket, sock[cliSocket] # "CLOSED"
        PROVE  got'["public"][w] \o Numbers(toServer'[cliSocket], w)
                 = [i \in 1 .. sent["local"][w] - early[w] |-> early[w] + i]
    <3>1. /\ g \o M(c) = [i \in 1 .. sent["local"][w] - early[w] |-> early[w] + i]
          /\ c = cliSocket
      BY <1>0, <2>3, <2>5 DEF PublicRun
    <3>2. Numbers(toServer'[cliSocket], w) = rest
      BY <2>2, <3>1
    <3>3. got'["public"][w] = Append(g, m.n)
      <4> HIDE DEF m, q
      <4>1. QED
        BY <1>0, <1>5, <1>7, <2>5 DEF WsTypeOK, IsData, End
    <3>4. Append(g, m.n) \o rest = g \o M(c)
      <4> HIDE DEF g, rest, M, m
      <4>1. Append(g, m.n) \o rest = g \o (<<m.n>> \o rest)
        BY <2>1, RunsMove
      <4>2. QED
        BY <2>1, <4>1
    <3>5. QED
      BY <3>1, <3>2, <3>3, <3>4
  <2>6. PublicRun(w)'
    <3>1. UNCHANGED <<publicSocket, proxiedWebSockets>>
      BY <1>5, <1>7 DEF IsData
    <3>2. QED
      BY <1>3, <2>5, <3>1 DEF PublicRun
  <2>7. QED
    BY <2>4, <2>6
<1>8. QED
  BY <1>6, <1>7

(* No step breaks the run towards the public client.                       *)
LEMMA UpStep ==
  ASSUME UpInv, [WsNext]_wsVars, NEW w \in Ws
  PROVE  Upward(w)' /\ PublicRun(w)'
<1> DEFINE Goal == Upward(w)' /\ PublicRun(w)'
           Quiet == \A c \in Conn : Numbers(toServer'[c], w) = Numbers(toServer[c], w)
<1>0. WsTypeOK
  BY DEF UpInv, StageInv, WsInv
<1>a. ASSUME NEW m \in Message, SendToServer(m), ~ IsData(m, w)
      PROVE  Quiet
  BY <1>0, <1>a, NumbersSent
<1>1. ASSUME NEW v \in Ws, LocalAnswers(v) \/ LocalCloses(v)
      PROVE  Goal
  <2>1. \A t \in {"accept", "reject", "close"} :
          [type |-> t, ws |-> v] \in Message /\ ~ IsData([type |-> t, ws |-> v], w)
    BY Messages DEF IsData
  <2>2. \/ UNCHANGED toServer
        \/ \E t \in {"accept", "reject", "close"} : SendToServer([type |-> t, ws |-> v])
    BY <1>1 DEF LocalAnswers, LocalCloses
  <2>3. Quiet
    BY <1>a, <2>1, <2>2
  <2>4. CASE UNCHANGED <<sent, early>>
    BY <1>1, <2>3, <2>4, LocalEffect, UpKept
  <2>5. ASSUME NEW n \in Nat, sent' = [sent EXCEPT !["local"][v] = n],
               early' = [early EXCEPT ![v] = n], LocalAnswers(v)
        PROVE  Goal
    <3>1. CASE v # w
      <4>1. sent'["local"][w] = sent["local"][w] /\ early'[w] = early[w]
        BY <1>0, <2>5, <3>1 DEF WsTypeOK, End
      <4>2. QED
        BY <1>1, <2>3, <4>1, LocalEffect, UpKept
    <3>2. CASE v = w
      <4>1. Early(w) /\ Upward(w) /\ Staged(w) /\ None \notin Conn
        BY <2>5, <3>2, MapAssumption DEF LocalAnswers, Early, UpInv, StageInv
      <4>2. /\ sent'["local"][w] = n /\ early'[w] = n /\ got'["public"][w] = <<>>
            /\ \A c \in Conn : Numbers(toServer'[c], w) = <<>>
            /\ ~ Early(w)'
        <5>1. sent'["local"][w] = n /\ early'[w] = n
          BY <1>0, <2>5, <3>2 DEF WsTypeOK, End
        <5>2. got' = got /\ ~ Early(w)'
          BY <1>0, <1>1, <3>2, LocalEffect DEF WsTypeOK, Early
        <5>3. QED
          BY <2>3, <4>1, <5>1, <5>2 DEF Upward
      <4>3. Upward(w)'
        BY <4>2 DEF Upward
      <4>4. PublicRun(w)'
        <5>1. via'[w] = via[w] /\ via[w] # None /\ via[w] \in Conn \cup {None}
          BY <1>0, <1>1, <2>5, <3>2, <4>1, LocalEffect
          DEF LocalAnswers, Staged, publicVars, WsTypeOK
        <5>2. <<>> \o <<>> = <<>>
          OBVIOUS
        <5>3. QED
          BY <4>2, <5>1, <5>2, UpTo DEF PublicRun
      <4>5. QED
        BY <4>3, <4>4
    <3>3. QED
      BY <3>1, <3>2
  <2>6. \A n \in 0 .. MaxData[Used] - Sent : n \in Nat
    OBVIOUS
  <2>7. QED
    BY <1>1, <2>4, <2>5, <2>6 DEF LocalAnswers, LocalCloses, dataVars
<1>2. ASSUME NEW v \in Ws, LocalSends(v), v # w
      PROVE  Goal
  <2> DEFINE m == [type |-> "data", ws |-> v, n |-> sent["local"][v] + 1]
  <2>1. /\ got' = got /\ early' = early /\ sent'["local"][w] = sent["local"][w]
        /\ SendToServer(m)
    BY <1>0, <1>2 DEF LocalSends, WsTypeOK, End
  <2>2. m \in Message /\ ~ IsData(m, w)
    <3>1. sent["local"][v] + 1 \in Nat
      BY <1>0, DownTypes DEF End
    <3>2. QED
      BY <1>2, <3>1, Messages DEF IsData
  <2> HIDE DEF m
  <2>3. Quiet
    BY <1>a, <2>1, <2>2
  <2>4. QED
    BY <2>1, <2>3, UpKept
<1>3. CASE CliReads
  <2>1. UNCHANGED <<toServer, sent, early>>
        /\ \/ UNCHANGED got
           \/ \E v, n : got' = [got EXCEPT !["local"][v] = Append(@, n)]
    BY <1>3 DEF CliReads
  <2>2. got'["public"][w] = got["public"][w]
    BY <1>0, <2>1 DEF WsTypeOK, End
  <2>3. QED
    BY <2>1, <2>2, UpKept
<1>4. ASSUME NEW v \in Ws, PublicSends(v)
      PROVE  Goal
  <2>1. UNCHANGED <<toServer, early, got>> /\ sent'["local"][w] = sent["local"][w]
    BY <1>0, <1>4 DEF PublicSends, WsTypeOK, End
  <2>2. QED
    BY <2>1, UpKept
<1>5. ASSUME NEW c \in Conn, SocketCloses(c)
      PROVE  Goal
  <2>1. /\ UNCHANGED <<got, sent, early>> /\ sock'[c] = "CLOSED"
        /\ \A d \in Conn : toServer'[d] = IF d = c THEN <<>> ELSE toServer[d]
    BY <1>0, <1>5 DEF SocketCloses, SocketGone, dataVars, WsTypeOK, LifeTypeOK
  <2>2. QED
    BY <2>1, NumbersOfNone, UpKept
<1>6. CASE Crash
  <2>1. /\ UNCHANGED <<got, sent, early>> /\ proxiedWebSockets' = {}
        /\ \A d \in Conn : toServer'[d] = <<>>
    BY <1>6 DEF Crash, dataVars
  <2>2. QED
    BY <2>1, NumbersOfNone, UpKept
<1>7. ASSUME \/ \E v \in Ws : \/ \E s \in Subdomain : PublicConnect(v, s)
                              \/ UpgradeTimesOut(v) \/ PublicCloses(v)
             \/ \E c \in Conn : Register(c) \/ CloseTunnel(c) \/ Finalized(c)
             \/ CliLosesTunnel \/ ExpirySweep \/ UNCHANGED wsVars
      PROVE  Goal
  <2>1. UNCHANGED <<toServer, got, sent, early>>
    BY <1>7 DEF PublicConnect, UpgradeTimesOut, PublicCloses, Register, CloseTunnel,
       Finalized, CliLosesTunnel, ExpirySweep, wsVars, dataVars
  <2>2. QED
    BY <2>1, UpKept
<1>8. QED
  BY <1>1, <1>2, <1>3, <1>4, <1>5, <1>6, <1>7, LocalSendsUp, ServerReadsUp DEF WsNext

-----------------------------------------------------------------------------
(* Both runs                                                               *)

(* At first there is no WebSocket and no message.                          *)
LEMMA RunsInit == WsInit => DownInv /\ UpInv
<1> SUFFICES ASSUME WsInit PROVE DownInv /\ UpInv
  OBVIOUS
<1>1. WsInv
  BY LifeInvInit, LifeTypesInit
  DEF WsInit, WsInv, WsTypeOK, ProxiedIsAddressed, ProxiedHasTunnel
<1>2. /\ \A w \in Ws : /\ publicSocket[w] = "NONE" /\ upgrade[w] = "none" /\ via[w] = None
                       /\ localWs[w] = "none" /\ \A e \in End : got[e][w] = <<>> /\ sent[e][w] = 0
                       /\ early[w] = 0
      /\ \A c \in Conn : toCli[c] = <<>> /\ toServer[c] = <<>>
      /\ cliSocket = None /\ proxiedWebSockets = {}
  BY DEF WsInit
<1>3. Len(<<>>) = 0 /\ \A i : i \notin 1 .. 0
  OBVIOUS
<1>4. \A w \in Ws : Staged(w) /\ AskedOnce(w) /\ TakenLate(w)
  BY <1>2, <1>3 DEF Staged, AskedOnce, TakenLate
<1>5. StageInv
  BY <1>1, <1>2, <1>4 DEF StageInv
<1>6. \A w \in Ws : Downward(w) /\ Upward(w)
  BY <1>2, NumbersOfNone DEF Downward, Upward, End
<1>7. \A w \in Ws : LocalRun(w) /\ PublicRun(w)
  <2>1. Run(<<>>)
    BY DEF Run
  <2>2. QED
    BY <1>2, <2>1 DEF LocalRun, PublicRun, End
<1>8. QED
  BY <1>5, <1>6, <1>7 DEF DownInv, UpInv

(* What the local server receives of a public client's messages is in      *)
(* order, without repetition and without a gap, and what is on its way on  *)
(* the tunnel continues it to the last message sent: the CLI's end may be  *)
(* lost and regained, the server may close, forget or restart meanwhile.   *)
THEOREM LocalAlwaysGetsARun == WsSpec => []RunToLocal
<1>1. WsInit => DownInv
  BY RunsInit
<1>2. DownInv /\ [WsNext]_wsVars => DownInv'
  BY StageStep, DownStep DEF DownInv
<1>3. DownInv => RunToLocal
  BY DEF DownInv, LocalRun, RunToLocal
<1>4. QED
  BY <1>1, <1>2, <1>3, PTL DEF WsSpec

(* While both ends are open on the tunnel of the WebSocket, what the public*)
(* client has received and what is on its way are all the local server has *)
(* sent: nothing is lost between the answer to the upgrade and the first   *)
(* message, nor when other WebSockets come and go.                         *)
THEOREM PublicAlwaysGetsARun == WsSpec => []RunToPublic
<1>1. WsInit => UpInv
  BY RunsInit
<1>2. UpInv /\ [WsNext]_wsVars => UpInv'
  BY StageStep, UpStep DEF UpInv
<1>3. UpInv => RunToPublic
  BY DEF UpInv, PublicRun, RunToPublic, StageInv, WsInv, WsTypeOK
<1>4. QED
  BY <1>1, <1>2, <1>3, PTL DEF WsSpec
=============================================================================

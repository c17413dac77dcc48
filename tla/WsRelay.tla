------------------------------ MODULE WsRelay ------------------------------
(***************************************************************************)
(* Public WebSockets relayed through tunnels: websocket-proxy.ts, the      *)
(* proxied WebSockets of connection-manager.ts and the websocket_ messages *)
(* of websocket-handler.ts on the server; websocket-handler.ts of the CLI  *)
(* at the other end, with the local WebSocket it opens for each.           *)
(*                                                                         *)
(* upgrade[w] is where the server stands with public socket w:             *)
(*   none      not there yet                                               *)
(*   pending   in wsUpgradePending, waiting for the CLI                    *)
(*   relaying  accepted, listeners on the public socket in place           *)
(*   ended     refused, rejected, timed out, or its close event handled    *)
(*                                                                         *)
(* localWs[w] is the CLI's WebSocket to the local server:                  *)
(*   connecting  handleUpgrade awaits its open event                       *)
(*   open        in connections, listeners in place                        *)
(*   closing     in connections still, but close() has begun and failed    *)
(*   closed      refused, or out of connections                            *)
(*                                                                         *)
(* ws's close(code) throws when the code may not be sent (1005: the peer   *)
(* gave none, 1006: it vanished), and by then the socket is CLOSING, with  *)
(* no close frame sent and no timer; the callers of both ends catch it and *)
(* log.  Which code a close message carries is chosen where it is read.    *)
(*                                                                         *)
(* Ids are fresh (nanoid).  All tunnels belong to one CLI, one after the   *)
(* other: it opens the next when its own end of the last is gone, which    *)
(* the server may not know yet.  A message is a number, the numbers of a   *)
(* sender count up.  The deprecated websocket_frame that nobody sends, and  *)
(* the counting of bytes are left out.                                     *)
(***************************************************************************)
EXTENDS TunnelLife, Sequences, FiniteSetsExt

CONSTANTS
  Ws,                  \* public WebSocket connections
  MaxWebSockets,       \* MAX_WEBSOCKETS_PER_TUNNEL
  MaxPendingUpgrades,  \* MAX_PENDING_UPGRADES
  MaxData              \* bound: messages sent when n WebSockets have been used

ASSUME WsAssumption ==
  /\ IsFiniteSet(Ws)
  /\ MaxWebSockets \in Nat \ {0}
  /\ MaxPendingUpgrades \in Nat \ {0}
  /\ MaxData \in [1 .. Cardinality(Ws) -> Nat]

VARIABLES
  publicSocket,        \* publicSocket[w]: readyState at the server
  host,                \* host[w]: the subdomain w was addressed to
  via,                 \* via[w]: the connection object found there
  upgrade,             \* upgrade[w]: see above
  proxiedWebSockets,   \* keys of the map of the same name
  wsCountBySubdomain,  \* the count index
  cliSocket,           \* the tunnel the CLI sends on, or None
  localWs,             \* localWs[w]: see above
  toCli, toServer,     \* messages on their way, per tunnel
  sent,                \* sent[e][w]: messages end e has sent
  early,               \* early[w]: messages that came before the CLI listened
  got                  \* got[e][w]: messages end e has received

publicVars == <<publicSocket, host, via, upgrade>>
proxiedVars == <<proxiedWebSockets, wsCountBySubdomain>>
cliVars == <<cliSocket, localWs>>
dataVars == <<sent, early, got>>
wsVars == <<lifeVars, publicVars, proxiedVars, cliVars, toCli, toServer, dataVars>>

End == {"public", "local"}
Message ==
  [type : {"upgrade", "accept", "reject", "close"}, ws : Ws]
    \cup [type : {"data"}, ws : Ws, n : Nat]

(* Every variable has its declared range.                                  *)
WsTypeOK ==
  /\ LifeTypeOK
  /\ publicSocket \in [Ws -> {"NONE", "OPEN", "CLOSING", "CLOSED"}]
  /\ host \in [Ws -> Subdomain \cup {None}]
  /\ via \in [Ws -> Conn \cup {None}]
  /\ upgrade \in [Ws -> {"none", "pending", "relaying", "ended"}]
  /\ proxiedWebSockets \subseteq Ws
  /\ wsCountBySubdomain \in [Subdomain -> Nat]
  /\ cliSocket \in Conn \cup {None}
  /\ localWs \in [Ws -> {"none", "connecting", "open", "closing", "closed"}]
  /\ toCli \in [Conn -> Seq(Message)]
  /\ toServer \in [Conn -> Seq(Message)]
  /\ sent \in [End -> [Ws -> Nat]]
  /\ early \in [Ws -> Nat]
  /\ got \in [End -> [Ws -> Seq(Nat)]]

WsInit ==
  /\ LifeInit
  /\ publicSocket = [w \in Ws |-> "NONE"]
  /\ host = [w \in Ws |-> None]
  /\ via = [w \in Ws |-> None]
  /\ upgrade = [w \in Ws |-> "none"]
  /\ proxiedWebSockets = {}
  /\ wsCountBySubdomain = [s \in Subdomain |-> 0]
  /\ cliSocket = None
  /\ localWs = [w \in Ws |-> "none"]
  /\ toCli = [c \in Conn |-> <<>>]
  /\ toServer = [c \in Conn |-> <<>>]
  /\ sent = [e \in End |-> [w \in Ws |-> 0]]
  /\ early = [w \in Ws |-> 0]
  /\ got = [e \in End |-> [w \in Ws |-> <<>>]]

-----------------------------------------------------------------------------
(* Registry of proxied WebSockets, and sending                             *)

registerProxiedWebSocket(w, s) ==
  /\ proxiedWebSockets' = proxiedWebSockets \cup {w}
  /\ wsCountBySubdomain' = [wsCountBySubdomain EXCEPT ![s] = @ + 1]

Minus(m, n) == IF m > n THEN m - n ELSE 0

(* The count lowered also for a WebSocket that is not in the map any more. *)
UnregisterTwice(W) ==
  /\ proxiedWebSockets' = proxiedWebSockets \ W
  /\ wsCountBySubdomain' =
       [s \in Subdomain |->
          Minus(wsCountBySubdomain[s], Cardinality({w \in W : host[w] = s}))]

(* unregisterProxiedWebSocket, for every w of W.                           *)
unregisterProxiedWebSocket(W) ==
  /\ proxiedWebSockets' = proxiedWebSockets \ W
  /\ wsCountBySubdomain' =
       [s \in Subdomain |->
          Minus(wsCountBySubdomain[s],
                Cardinality({w \in W \cap proxiedWebSockets : host[w] = s}))]

(* publicSocket.close()                                                    *)
ClosePublic(W) ==
  publicSocket' = [w \in Ws |-> IF w \in W /\ publicSocket[w] = "OPEN"
                                THEN "CLOSING" ELSE publicSocket[w]]

(* socket.send(): a socket that is not open drops the message silently.    *)
(* One that the CLI has left carries it to nobody.                         *)
SendToCli(c, m) ==
  toCli' = IF c # None /\ c = cliSocket /\ sock[c] = "OPEN"
           THEN [toCli EXCEPT ![c] = Append(@, m)] ELSE toCli

(* A message is dropped when another one is still on its way.              *)
SendUnlessBusy(m) ==
  toServer' = IF cliSocket # None /\ sock[cliSocket] # "CLOSED" /\ toServer[cliSocket] = <<>>
              THEN [toServer EXCEPT ![cliSocket] = Append(@, m)] ELSE toServer

(* sendToTunnel of the CLI, on the socket it has now.                      *)
SendToServer(m) ==
  toServer' = IF cliSocket # None /\ sock[cliSocket] # "CLOSED"
              THEN [toServer EXCEPT ![cliSocket] = Append(@, m)] ELSE toServer

-----------------------------------------------------------------------------
(* The public client and its socket on the server                          *)

(* How much the instance has been used, against MaxData.                   *)
Used == Cardinality({w \in Ws : publicSocket[w] # "NONE"})
Sent == MapThenSumSet(LAMBDA p : sent[p[1]][p[2]], End \X Ws)

(* handleWebSocketUpgradeEvent.  No tunnel, a tunnel that is not active, a *)
(* missing token or a full tunnel: refused.  Otherwise the WebSocket is    *)
(* registered, the CLI is told, and the wait for its answer begins, unless *)
(* there are too many such waits.                                          *)
PublicConnect(w, s) ==
  LET c == findBySubdomain(s)
      full == Cardinality({v \in Ws : upgrade[v] = "pending"}) >= MaxPendingUpgrades
  IN
  /\ publicSocket[w] = "NONE"
  /\ Sent <= MaxData[Used + 1]
  /\ \/ /\ publicSocket' = [publicSocket EXCEPT ![w] = "CLOSED"]
        /\ upgrade' = [upgrade EXCEPT ![w] = "ended"]
        /\ UNCHANGED <<host, via, proxiedVars, toCli>>
     \/ /\ c # None
        /\ wsCountBySubdomain[s] < MaxWebSockets
        /\ host' = [host EXCEPT ![w] = s]
        /\ via' = [via EXCEPT ![w] = c]
        /\ SendToCli(c, [type |-> "upgrade", ws |-> w])
        /\ \/ /\ ~ full
              /\ publicSocket' = [publicSocket EXCEPT ![w] = "OPEN"]
              /\ upgrade' = [upgrade EXCEPT ![w] = "pending"]
              /\ registerProxiedWebSocket(w, s)
           \/ /\ full
              /\ publicSocket' = [publicSocket EXCEPT ![w] = "CLOSING"]
              /\ upgrade' = [upgrade EXCEPT ![w] = "ended"]
              /\ UNCHANGED proxiedVars
  /\ UNCHANGED <<lifeVars, cliVars, toServer, dataVars>>

UpgradeTimesOut(w) ==
  /\ upgrade[w] = "pending"
  /\ upgrade' = [upgrade EXCEPT ![w] = "ended"]
  /\ ClosePublic({w})
  /\ unregisterProxiedWebSocket({w})
  /\ UNCHANGED <<lifeVars, host, via, cliVars, toCli, toServer, dataVars>>

(* A message is dropped when another one is still on its way.              *)
PublicSendsUnlessBusy(w) ==
  LET n == sent["public"][w] + 1 IN
  /\ publicSocket[w] \in {"OPEN", "CLOSING"}
  /\ Sent < MaxData[Used]
  /\ sent' = [sent EXCEPT !["public"][w] = n]
  /\ IF upgrade[w] = "relaying" /\ toCli[via[w]] = <<>>
     THEN SendToCli(via[w], [type |-> "data", ws |-> w, n |-> n])
     ELSE UNCHANGED toCli
  /\ UNCHANGED <<lifeVars, publicVars, proxiedVars, cliVars, toServer, early, got>>

(* Relayed over the connection found at the upgrade; before the listener   *)
(* is in place the message is lost.                                        *)
PublicSends(w) ==
  LET n == sent["public"][w] + 1 IN
  /\ publicSocket[w] \in {"OPEN", "CLOSING"}
  /\ Sent < MaxData[Used]
  /\ sent' = [sent EXCEPT !["public"][w] = n]
  /\ IF upgrade[w] = "relaying"
     THEN SendToCli(via[w], [type |-> "data", ws |-> w, n |-> n])
     ELSE UNCHANGED toCli
  /\ UNCHANGED <<lifeVars, publicVars, proxiedVars, cliVars, toServer, early, got>>

(* The public socket closes, by its client or after publicSocket.close().  *)
(* The listener, if it is in place, tells whatever tunnel has the          *)
(* subdomain now.                                                          *)
PublicCloses(w) ==
  /\ publicSocket[w] \in {"OPEN", "CLOSING"}
  /\ publicSocket' = [publicSocket EXCEPT ![w] = "CLOSED"]
  /\ \/ /\ upgrade[w] = "relaying"
        /\ upgrade' = [upgrade EXCEPT ![w] = "ended"]
        /\ SendToCli(findBySubdomain(host[w]), [type |-> "close", ws |-> w])
        /\ unregisterProxiedWebSocket({w})
     \/ /\ upgrade[w] # "relaying"
        /\ UNCHANGED <<upgrade, toCli, proxiedVars>>
  /\ UNCHANGED <<lifeVars, host, via, cliVars, toServer, dataVars>>

-----------------------------------------------------------------------------
(* handleMessage: the server reads the next message of tunnel c            *)

Accepted(w) ==
  /\ upgrade' = [upgrade EXCEPT ![w] = IF @ = "pending" THEN "relaying" ELSE @]
  /\ UNCHANGED <<publicSocket, proxiedVars, got>>

Rejected(w) ==
  \/ /\ upgrade[w] = "pending"
     /\ upgrade' = [upgrade EXCEPT ![w] = "ended"]
     /\ ClosePublic({w})
     /\ unregisterProxiedWebSocket({w})
     /\ UNCHANGED got
  \/ /\ upgrade[w] # "pending"
     /\ UNCHANGED <<upgrade, publicSocket, proxiedVars, got>>

DataForPublic(w, n) ==
  /\ got' = IF w \in proxiedWebSockets /\ publicSocket[w] = "OPEN"
            THEN [got EXCEPT !["public"][w] = Append(@, n)] ELSE got
  /\ UNCHANGED <<upgrade, publicSocket, proxiedVars>>

(* When close() throws, the WebSocket stays registered.                    *)
ClosedByLocal(w) ==
  \/ /\ w \in proxiedWebSockets
     /\ ClosePublic({w})
     /\ \/ unregisterProxiedWebSocket({w})
        \/ publicSocket[w] = "OPEN" /\ UNCHANGED proxiedVars
     /\ UNCHANGED <<upgrade, got>>
  \/ /\ w \notin proxiedWebSockets
     /\ UNCHANGED <<upgrade, publicSocket, proxiedVars, got>>

ServerReads(c) ==
  LET m == Head(toServer[c]) IN
  /\ life[c] = "open" /\ sock[c] \in {"OPEN", "CLOSING"}
  /\ toServer[c] # <<>>
  /\ toServer' = [toServer EXCEPT ![c] = Tail(@)]
  /\ \/ m.type = "accept" /\ Accepted(m.ws)
     \/ m.type = "reject" /\ Rejected(m.ws)
     \/ m.type = "data" /\ DataForPublic(m.ws, m.n)
     \/ m.type = "close" /\ ClosedByLocal(m.ws)
  /\ UNCHANGED <<lifeVars, host, via, cliVars, toCli, sent, early>>

-----------------------------------------------------------------------------
(* The CLI                                                                 *)

(* The ids in connections.                                                 *)
connections == {w \in Ws : localWs[w] \in {"open", "closing"}}

(* The CLI reads the next message.  Data and close for a WebSocket that is *)
(* still connecting are dropped.  When close() throws, the entry stays.    *)
CliReads ==
  LET c == cliSocket
      m == Head(toCli[c]) IN
  /\ c # None
  /\ toCli[c] # <<>>
  /\ toCli' = [toCli EXCEPT ![c] = Tail(@)]
  /\ \/ /\ m.type = "upgrade"
        /\ localWs' = [localWs EXCEPT ![m.ws] = "connecting"]
        /\ UNCHANGED got
     \/ /\ m.type = "data"
        /\ got' = IF localWs[m.ws] = "open"
                  THEN [got EXCEPT !["local"][m.ws] = Append(@, m.n)] ELSE got
        /\ UNCHANGED localWs
     \/ /\ m.type = "close"
        /\ \/ localWs' = [localWs EXCEPT ![m.ws] = IF m.ws \in connections THEN "closed" ELSE @]
           \/ localWs[m.ws] = "open" /\ localWs' = [localWs EXCEPT ![m.ws] = "closing"]
        /\ UNCHANGED got
  /\ UNCHANGED <<lifeVars, publicVars, proxiedVars, cliSocket, toServer, sent, early>>

(* handleUpgrade goes on: the local server took the connection, or did not *)
(* within 5 s.  The listeners are installed after the await: the n messages *)
(* that the local server sent with its answer have gone by unheard.        *)
LocalAnswers(w) ==
  /\ localWs[w] = "connecting"
  /\ \/ /\ localWs' = [localWs EXCEPT ![w] = "open"]
        /\ SendToServer([type |-> "accept", ws |-> w])
        /\ \E n \in 0 .. MaxData[Used] - Sent :
             /\ sent' = [sent EXCEPT !["local"][w] = n]
             /\ early' = [early EXCEPT ![w] = n]
     \/ /\ localWs' = [localWs EXCEPT ![w] = "closed"]
        /\ SendToServer([type |-> "reject", ws |-> w])
        /\ UNCHANGED <<sent, early>>
  /\ UNCHANGED <<lifeVars, publicVars, proxiedVars, cliSocket, toCli, got>>

LocalSends(w) ==
  LET n == sent["local"][w] + 1 IN
  /\ w \in connections
  /\ Sent < MaxData[Used]
  /\ sent' = [sent EXCEPT !["local"][w] = n]
  /\ SendToServer([type |-> "data", ws |-> w, n |-> n])
  /\ UNCHANGED <<lifeVars, publicVars, proxiedVars, cliVars, toCli, early, got>>

(* handleLocalClose; or a message from the local server is over 10 MB: the *)
(* entry is deleted before the close event, so nobody tells the server.    *)
LocalCloses(w) ==
  /\ w \in connections
  /\ localWs' = [localWs EXCEPT ![w] = "closed"]
  /\ \/ SendToServer([type |-> "close", ws |-> w])
     \/ UNCHANGED toServer
  /\ UNCHANGED <<lifeVars, publicVars, proxiedVars, cliSocket, toCli, dataVars>>

(* The CLI's end of the tunnel is gone.  The client reconnects with its    *)
(* local WebSockets as they were, or it has been stopped: disconnect()     *)
(* closes them all, and the next tunnel is another process's.              *)
CliLosesTunnel ==
  /\ cliSocket # None
  /\ toCli' = [toCli EXCEPT ![cliSocket] = <<>>]
  /\ cliSocket' = None
  /\ \/ UNCHANGED localWs
     \/ localWs' = [w \in Ws |-> IF localWs[w] = "none" THEN "none" ELSE "closed"]
  /\ UNCHANGED <<lifeVars, publicVars, proxiedVars, toServer, dataVars>>

-----------------------------------------------------------------------------
(* The tunnel                                                              *)

(* Only the WebSockets that are already being relayed are closed.          *)
DropRelaying(N) ==
  LET hit == {s \in N : findBySubdomain(s) # None}
      gone == {w \in proxiedWebSockets : host[w] \in hit /\ upgrade[w] = "relaying"}
  IN  /\ ClosePublic(gone)
      /\ unregisterProxiedWebSocket(gone)
      /\ UNCHANGED upgrade

(* The first half of unregister, for the names of N that have a tunnel:    *)
(* closeWebSocketsForTunnel, then reject the pending upgrades.             *)
DropWebSockets(N) ==
  LET hit == {s \in N : findBySubdomain(s) # None}
      waiting == {w \in Ws : upgrade[w] = "pending" /\ host[w] \in hit}
      gone == {w \in proxiedWebSockets : host[w] \in hit} \cup waiting
  IN  /\ ClosePublic(gone)
      /\ unregisterProxiedWebSocket(gone)
      /\ upgrade' = [w \in Ws |-> IF w \in waiting THEN "ended" ELSE upgrade[w]]

Register(c) ==
  /\ cliSocket = None
  /\ Open(c)
  /\ cliSocket' = IF sock'[c] = "OPEN" THEN c ELSE None
  /\ UNCHANGED <<publicVars, proxiedVars, localWs, toCli, toServer, dataVars>>

CloseTunnel(c) ==
  /\ CloseSocket(c) \/ Expire(c)
  /\ UNCHANGED <<publicVars, proxiedVars, cliVars, toCli, toServer, dataVars>>

SocketCloses(c) ==
  /\ SocketGone(c)
  /\ toServer' = [toServer EXCEPT ![c] = <<>>]
  /\ UNCHANGED <<publicVars, proxiedVars, cliVars, toCli, dataVars>>

Finalized(c) ==
  /\ DropWebSockets({name[c]})
  /\ Unregister(c)
  /\ UNCHANGED <<host, via, cliVars, toCli, toServer, dataVars>>

ExpirySweep ==
  /\ DropWebSockets(SweptNames)
  /\ Sweep
  /\ UNCHANGED <<host, via, cliVars, toCli, toServer, dataVars>>

Crash ==
  /\ ServerDies
  /\ publicSocket' = [w \in Ws |-> IF publicSocket[w] = "NONE" THEN "NONE" ELSE "CLOSED"]
  /\ upgrade' = [w \in Ws |-> IF publicSocket[w] = "NONE" THEN "none" ELSE "ended"]
  /\ proxiedWebSockets' = {}
  /\ wsCountBySubdomain' = [s \in Subdomain |-> 0]
  /\ toServer' = [c \in Conn |-> <<>>]
  /\ UNCHANGED <<host, via, cliVars, toCli, dataVars>>

WsNext ==
  \/ \E w \in Ws :
       \/ \E s \in Subdomain : PublicConnect(w, s)
       \/ UpgradeTimesOut(w) \/ PublicSends(w) \/ PublicCloses(w)
       \/ LocalAnswers(w) \/ LocalSends(w) \/ LocalCloses(w)
  \/ CliReads
  \/ CliLosesTunnel
  \/ \E c \in Conn :
       ServerReads(c) \/ Register(c) \/ CloseTunnel(c) \/ SocketCloses(c) \/ Finalized(c)
  \/ ExpirySweep
  \/ Crash

WsSpec == WsInit /\ [][WsNext]_wsVars

-----------------------------------------------------------------------------
(* Properties                                                              *)

(* The count that the limit is checked against is the number of proxied    *)
(* WebSockets of the subdomain, although up to three different events may  *)
(* unregister the same one.                                                *)
CountAgrees ==
  \A s \in Subdomain :
    wsCountBySubdomain[s] = Cardinality({w \in proxiedWebSockets : host[w] = s})

(* A proxied WebSocket belongs to a tunnel that is in the maps, and that   *)
(* is the one it was opened through: none outlives its tunnel and turns up *)
(* on the next tunnel of the same name.                                    *)
ProxiedHasTunnel ==
  \A w \in proxiedWebSockets : tunnelsById[via[w]] = host[w]

Run(q) == \A i \in 1 .. Len(q) - 1 : q[i + 1] = q[i] + 1

(* The numbers of the messages for w on their way in q.                    *)
IsData(m, w) == m.type = "data" /\ m.ws = w
Numbers(q, w) ==
  LET upTo[i \in 0 .. Len(q)] ==
        IF i = 0 THEN <<>>
        ELSE IF IsData(q[i], w) THEN Append(upTo[i - 1], q[i].n) ELSE upTo[i - 1]
  IN  upTo[Len(q)]

(* What the local server receives of a public client's messages is in      *)
(* order, without repetition and without a gap; and while both ends are    *)
(* open on the same tunnel, what is on its way continues it to the last    *)
(* message sent.                                                           *)
RunToLocal ==
  \A w \in Ws :
    /\ Run(got["local"][w])
    /\ localWs[w] = "open" /\ via[w] = cliSocket =>
         LET all == got["local"][w] \o Numbers(toCli[cliSocket], w) IN
         /\ Run(all)
         /\ all # <<>> /\ sock[cliSocket] = "OPEN" => all[Len(all)] = sent["public"][w]

(* While both ends are open on the tunnel through which the WebSocket was  *)
(* opened, what the public client has received and what is on its way are  *)
(* all the messages the local server has sent, but for those that came     *)
(* before the CLI listened.  (When the CLI reconnects and the server still *)
(* holds the old tunnel, messages sent in between are lost and the later   *)
(* ones arrive.)                                                           *)
RunToPublic ==
  \A w \in proxiedWebSockets :
    /\ publicSocket[w] = "OPEN" /\ localWs[w] = "open"
    /\ via[w] = cliSocket /\ sock[cliSocket] # "CLOSED"
    => got["public"][w] \o Numbers(toServer[cliSocket], w)
         = [i \in 1 .. sent["local"][w] - early[w] |-> early[w] + i]

(* The server forgets a WebSocket whose public socket is closed, as soon   *)
(* as its upgrade is not pending any more.                                 *)
ClosedIsForgotten ==
  \A w \in proxiedWebSockets : publicSocket[w] = "CLOSED" => upgrade[w] = "pending"
=============================================================================

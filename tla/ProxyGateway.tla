----------------------------- MODULE ProxyGateway -----------------------------
(***************************************************************************)
(* One connection of the proxy gateway: an absolute-URL request ("http")   *)
(* or a CONNECT ("connect") that an agent sends to an API through a proxy  *)
(* provider.  Connections share nothing but the key validator, which only  *)
(* reads for them, and the environment.  index.ts makes the handlers of    *)
(* both kinds and installs the one of CONNECT only.                        *)
(*                                                                         *)
(* The sockets of the server are half-open: the FIN of a client that has   *)
(* sent CONNECT ends its side only.  Listeners on the client are installed *)
(* after the awaited authentication: until then the close of a request is  *)
(* missed, and the reset of a CONNECT is an error that nobody handles.     *)
(***************************************************************************)
EXTENDS Naturals

VARIABLES
  kind,      \* "http" or "connect"
  stage,     \* "idle", "auth", "refused", "opening", "connected", "streaming",
             \* "over", or "crashed": the server's process is gone
  peer,      \* the client's connection: "open", "ended" by a FIN, or "closed"
  missed,    \* history: the client of a request closed during the authentication
  upstream,  \* connection to the provider: "none", "open" or "closed"
  timer,     \* the request timeout is armed
  replies,   \* status lines written to the client (bounded by the stages)
  usageRecorded, \* usage.finalize has run
  mute       \* history: the provider ended without an error and without the rest

gatewayVars == <<kind, stage, peer, missed, upstream, timer, replies, usageRecorded, mute>>

GatewayTypeOK ==
  /\ kind \in {"http", "connect"}
  /\ stage \in {"idle", "auth", "refused", "opening", "connected", "streaming",
                "over", "crashed"}
  /\ peer \in {"open", "ended", "closed"} /\ upstream \in {"none", "open", "closed"}
  /\ replies \in 0..2
  /\ <<missed, timer, usageRecorded, mute>> \in BOOLEAN \X BOOLEAN \X BOOLEAN \X BOOLEAN

GatewayInit ==
  /\ kind = "http" /\ stage = "idle" /\ peer = "open" /\ upstream = "none" /\ replies = 0
  /\ missed = FALSE /\ timer = FALSE /\ usageRecorded = FALSE /\ mute = FALSE

Before(stages) == stage \in stages /\ upstream = "open"

-----------------------------------------------------------------------------
\* The interceptor or the CONNECT handler is called, and awaits authenticate().
GatewayRequest(k) ==
  /\ stage = "idle"
  /\ stage' = "auth" /\ kind' = k
  /\ UNCHANGED <<peer, missed, upstream, timer, replies, usageRecorded, mute>>

\* The key, the token or the target is refused.  CONNECT closes the connection.
AuthRefuses ==
  /\ stage = "auth"
  /\ stage' = "refused" /\ replies' = replies + 1
  /\ peer' = IF kind = "connect" THEN "closed" ELSE peer
  /\ UNCHANGED <<kind, missed, upstream, timer, usageRecorded, mute>>

\* The provider is dialled, with a timeout, and the listeners are installed.
AuthAccepts ==
  /\ stage = "auth"
  /\ stage' = "opening" /\ upstream' = "open" /\ timer' = TRUE
  /\ missed' = (peer = "closed")
  /\ UNCHANGED <<kind, peer, replies, usageRecorded, mute>>

\* The timer cleared as soon as the provider is reached.
ConnectsClearingTimer ==
  /\ kind = "connect" /\ Before({"opening"})
  /\ stage' = "connected" /\ timer' = FALSE
  /\ UNCHANGED <<kind, peer, missed, upstream, replies, usageRecorded, mute>>

\* CONNECT: the provider is reached and asked for the target.
UpstreamConnects ==
  /\ kind = "connect" /\ Before({"opening"})
  /\ stage' = "connected"
  /\ UNCHANGED <<kind, peer, missed, upstream, timer, replies, usageRecorded, mute>>

\* The provider's status line: 200 for CONNECT, any for a request.  A CONNECT
\* has no timeout from here on; a request keeps that of its idle socket.
UpstreamReplies ==
  /\ Before(IF kind = "connect" THEN {"connected"} ELSE {"opening"})
  /\ stage' = "streaming" /\ replies' = replies + 1
  /\ timer' = (kind = "http")
  /\ UNCHANGED <<kind, peer, missed, upstream, usageRecorded, mute>>

\* CONNECT is declined: the answer is passed on and both sides are closed.
UpstreamDeclines ==
  /\ kind = "connect" /\ Before({"connected"})
  /\ stage' = "over" /\ replies' = replies + 1 /\ timer' = FALSE
  /\ peer' = "closed" /\ upstream' = "closed" /\ usageRecorded' = TRUE
  /\ UNCHANGED <<kind, missed, mute>>

\* The connection to the provider fails.  A request has its 502 unless headers
\* were sent; CONNECT writes a 502 whatever it has written before.
UpstreamFails ==
  /\ Before({"opening", "connected", "streaming"})
  /\ stage' = "over" /\ upstream' = "closed" /\ usageRecorded' = TRUE /\ timer' = FALSE
  /\ replies' = IF kind = "connect" \/ replies = 0 THEN replies + 1 ELSE replies
  /\ peer' = IF kind = "connect" THEN "closed" ELSE peer
  /\ UNCHANGED <<kind, missed, mute>>

\* The timeout destroys the connection to the provider with an error.
GatewayTimeout == timer /\ UpstreamFails

\* The provider ends its side.  A response ends; a stream is ended for the client
\* too, whose connection closes when both sides have ended.
UpstreamEnds ==
  /\ Before({"streaming"})
  /\ stage' = "over" /\ upstream' = "closed" /\ usageRecorded' = TRUE /\ timer' = FALSE
  /\ peer' = IF peer = "ended" THEN "closed" ELSE peer
  /\ UNCHANGED <<kind, missed, replies, mute>>

\* It ends too early: in the middle of a response, where nothing listens, or
\* before the status line of CONNECT, where only the usage is recorded.
UpstreamCuts ==
  /\ Before(IF kind = "connect" THEN {"opening", "connected"} ELSE {"streaming"})
  /\ upstream' = "closed" /\ mute' = TRUE
  /\ usageRecorded' = (usageRecorded \/ kind = "connect")
  /\ UNCHANGED <<kind, stage, peer, missed, timer, replies>>

\* The client of a CONNECT ends its side.  The pipe passes that on to the
\* provider, once there is one, and closes nothing.
PeerEnds ==
  /\ kind = "connect" /\ stage # "idle" /\ peer = "open"
  /\ peer' = IF stage = "over" THEN "closed" ELSE "ended"
  /\ UNCHANGED <<kind, stage, missed, upstream, timer, replies, usageRecorded, mute>>

\* The client's connection closes: that of a request, or by a reset, or because
\* the client is not there any more for what is written to it.
PeerMayClose == stage # "idle" /\ peer # "closed" /\ ~(kind = "connect" /\ stage = "auth")

\* A close of the client that only records the usage.
ClosesRecordingOnly ==
  /\ PeerMayClose /\ peer' = "closed"
  /\ usageRecorded' = (usageRecorded \/ upstream # "none")
  /\ UNCHANGED <<kind, stage, missed, upstream, timer, replies, mute>>

\* The usage is recorded and the provider let go, if there are listeners yet.
PeerCloses ==
  /\ PeerMayClose /\ peer' = "closed"
  /\ usageRecorded' = (usageRecorded \/ upstream # "none")
  /\ upstream' = IF upstream = "open" THEN "closed" ELSE upstream
  /\ timer' = FALSE
  /\ UNCHANGED <<kind, stage, missed, replies, mute>>

\* A reset while a CONNECT awaits the authentication: the socket has no 'error'
\* listener, and the exception ends the process.
ResetDuringAuth ==
  /\ kind = "connect" /\ stage = "auth" /\ peer # "closed"
  /\ peer' = "closed" /\ stage' = "crashed"
  /\ UNCHANGED <<kind, missed, upstream, timer, replies, usageRecorded, mute>>

GatewayNext ==
  \/ \E k \in {"http", "connect"} : GatewayRequest(k)
  \/ AuthRefuses \/ AuthAccepts \/ UpstreamConnects \/ UpstreamReplies
  \/ UpstreamDeclines \/ UpstreamFails \/ GatewayTimeout
  \/ UpstreamEnds \/ UpstreamCuts \/ PeerEnds \/ PeerCloses \/ ResetDuringAuth

\* The database answers and timers fire.
GatewayFairness ==
  /\ WF_gatewayVars(AuthRefuses \/ AuthAccepts)
  /\ WF_gatewayVars(GatewayTimeout)

GatewaySpec == GatewayInit /\ [][GatewayNext]_gatewayVars /\ GatewayFairness

-----------------------------------------------------------------------------
\* When the client has gone, by a FIN, a close or a reset, the provider's connection
\* goes too and its usage is recorded, in whatever stage that finds the handler.  Not
\* so for a stream whose client has only ended its side, which the provider may keep
\* as long as it likes, and for the usage of a response that breaks off when the
\* client had closed during the authentication.
ClosedClientIsReleased ==
  (peer # "open" /\ upstream = "open") ~>
    \/ upstream = "closed" /\ (usageRecorded \/ (missed /\ mute))
    \/ peer = "ended" /\ stage = "streaming"

\* Every client gets a status line while it stays, except when the provider ends
\* a CONNECT without one: its close is recorded and the client left waiting.
ClientIsAnswered ==
  stage = "auth" ~> (replies > 0 \/ peer = "closed" \/ (kind = "connect" /\ mute))
=============================================================================

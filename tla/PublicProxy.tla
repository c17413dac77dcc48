------------------------------ MODULE PublicProxy ------------------------------
(***************************************************************************)
(* One public HTTP request on the server's outer port, which index.ts      *)
(* sends on to the relay on the inner port with a timeout of 30 seconds of *)
(* silence.  The relay is HttpRelay; here it answers, stays silent, or its *)
(* connection fails.                                                       *)
(***************************************************************************)
EXTENDS Naturals

VARIABLES
  backend,  \* the inner request: "none", "waiting", "streaming", "destroyed" or "over"
  reply,    \* the public response: "none", "started" or "ended"
  heads,    \* calls of writeHead: a second one would throw
  hangup,   \* the error event of a destroyed request is still to come
  cut       \* history: the inner response broke off after its headers

proxyVars == <<backend, reply, heads, hangup, cut>>

ProxyTypeOK ==
  /\ backend \in {"none", "waiting", "streaming", "destroyed", "over"}
  /\ reply \in {"none", "started", "ended"}
  /\ heads \in 0..1 /\ hangup \in BOOLEAN /\ cut \in BOOLEAN

ProxyInit ==
  /\ backend = "none" /\ reply = "none" /\ heads = 0
  /\ hangup = FALSE /\ cut = FALSE

-----------------------------------------------------------------------------
\* A public request is sent on to the inner port.
PublicRequest ==
  /\ backend = "none" /\ backend' = "waiting"
  /\ UNCHANGED <<reply, heads, hangup, cut>>

BackendResponds ==
  /\ backend = "waiting" /\ backend' = "streaming"
  /\ heads' = heads + 1 /\ reply' = "started"
  /\ UNCHANGED <<hangup, cut>>

BackendEnds ==
  /\ backend = "streaming" /\ backend' = "over"
  /\ reply' = "ended"
  /\ UNCHANGED <<heads, hangup, cut>>

\* A break after the headers is logged: the public response is left as it is.
BackendCuts ==
  /\ backend = "streaming" /\ backend' = "over"
  /\ cut' = TRUE
  /\ UNCHANGED <<reply, heads, hangup>>

\* A gateway error answered whatever was sent.
AnswerErrorAlways == reply' = "ended" /\ heads' = heads + 1

\* A gateway error is answered only if no headers were sent.
AnswerError ==
  IF reply = "none" THEN reply' = "ended" /\ heads' = heads + 1
                    ELSE UNCHANGED <<reply, heads>>

\* Silence: the inner request is destroyed, and answered with 504.
InnerTimeout ==
  /\ backend \in {"waiting", "streaming"} /\ backend' = "destroyed"
  /\ hangup' = (backend = "waiting")
  /\ cut' = (cut \/ backend = "streaming")
  /\ AnswerError

\* The error only logged.
ErrorOnlyLogged ==
  /\ backend = "waiting" \/ hangup
  /\ backend' = "over" /\ hangup' = FALSE
  /\ UNCHANGED <<reply, heads, cut>>

\* An error: the relay is not there, or the request was destroyed.
BackendFails ==
  /\ backend = "waiting" \/ hangup
  /\ backend' = "over" /\ hangup' = FALSE
  /\ AnswerError
  /\ UNCHANGED cut

ProxyNext ==
  \/ PublicRequest \/ BackendResponds \/ BackendEnds
  \/ BackendCuts \/ InnerTimeout \/ BackendFails

\* The timer fires; the relay need not answer.
ProxyFairness == WF_proxyVars(InnerTimeout)

ProxySpec == ProxyInit /\ [][ProxyNext]_proxyVars /\ ProxyFairness

-----------------------------------------------------------------------------
\* A public request is answered once and its response ends, although the relay
\* never answers, unless the relay breaks off or stops after its headers: then
\* nothing ends the response (index.ts, the handlers with headersSent).
EveryReplyEnds == backend = "waiting" ~> ((reply = "ended" /\ heads = 1) \/ cut)
=============================================================================

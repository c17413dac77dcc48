# LivePort in TLA+

LivePort gives a server on `localhost` a public address. A CLI (or an agent)
opens a control WebSocket to the tunnel server and presents a *bridge key*;
the server gives the tunnel a subdomain, relays public HTTP requests and
WebSockets through it, meters the traffic, and writes it to the table that
billing reads. This directory holds TLA+ modules for the parts of that program
that have a protocol, the TLC configurations that check them, and theorems with
proofs for TLAPS.

All paths below are relative to the repository.

## The system

| Component | State | Operations | Talks to |
| --- | --- | --- | --- |
| Tunnel registry, `apps/tunnel-server/src/connection-manager.ts` | maps name -> tunnel, id -> name, key -> names; pending requests; proxied WebSockets and their count; pending upgrades | register, unregister, counters, pending requests, expiry checker | everything in the tunnel server, in one event loop |
| Handshake and close, `websocket-handler.ts`, `key-validator.ts`, `ttl.ts`, `subdomain.ts` | locals of handlers suspended in an await; heartbeat timers | handleConnection, handleMessage, the close listener | registry, database, CLI |
| HTTP relay, `http-handler.ts` | locals of handlers waiting for a body or an answer | forwardToTunnel | registry, CLI |
| Public WebSocket proxy, `websocket-proxy.ts` | listeners of public sockets | upgrade, relay, close | registry, CLI |
| Metering, `metering.ts` | a timer; rows of `tunnels` | syncMetrics, finalizeTunnelMetrics | registry, database |
| Entry point, `index.ts` | servers, timers | wiring, outer proxy, shutdown | all of the above |
| Proxy gateway, `proxy-*.ts` | per connection: timer, usage recorder | requests and CONNECT to AI providers | dashboard's keys and tokens, providers |
| CLI client, `packages/cli/src/tunnel-client.ts`, `websocket-handler.ts`, `commands/` | connection state, two timers, local WebSockets | connect, disconnect, reconnect, relay | tunnel server, local server |
| Agent SDK and MCP server, `packages/agent-sdk`, `packages/mcp` | active and in-flight connects | connect, disconnect, list | tunnel server, dashboard |
| Bridge keys, `packages/shared/src/db/repositories.ts` | rows `bridge_keys` | conditional increment, decrement, revoke, expire | database |
| Redis helpers, `packages/shared/src/redis/` | cache, rate limits, active set | cache-aside, counters, cleanup | redis |
| Dashboard, `apps/dashboard/src` | rows of users, keys, Stripe events | key routes, agent routes, top-ups, webhooks, usage | database, Stripe |

The tunnel server is one Node.js event loop: code between two awaits is atomic,
and everything hard comes from what may run *during* an await. The hard parts
are the following (PROJECT.json lists each hazard at its line):

* A connection attempt awaits the rate limiter, the key's row, bcrypt, the usage
  update and the user's tier, and installs its socket listeners only after all
  of them. Sockets close, keys are revoked and other attempts register meanwhile.
* The close listener awaits the final metrics with the tunnel still in the maps
  and then unregisters *by name*; the expiry checker may have freed the name.
* A request handler holds a connection object across the await of its body, and
  a pending entry across the await of its answer, against a timer, `unregister`
  and answers that arrive on another tunnel.
* Periodic and final metric writes overtake one another on their way to the
  database, and any of them may be lost.
* The CLI's callbacks belong to socket objects the client may have forgotten.
* Stripe delivers events late, out of order and more than once, while requests
  of the same user write the same row from Stripe's answers.
* Several calls of the MCP server share one connection attempt, which may fail,
  be disconnected, or succeed after it was given up.
* Proxied connections end on either side, before or after the handlers have
  their listeners; a process that was told to stop is still serving.

What makes each component correct: the maps agree and never hold more than the
limits allow; every tunnel is removed; every waiting request has an entry, a
tunnel and, in the end, a reply; a row never bills more than was carried and a
closed row does not change; the client stops when told to and retries otherwise;
a payment is credited, and once; the user's row tells what Stripe knows; a port of
an agent has one tunnel; a client that is proxied gets an answer, and nothing
stays open for a client that left; a signal ends the process, with what was
carried saved.

## Modules

| Module | Models | Built on |
| --- | --- | --- |
| `KeySlots` | abstract: keys hold names, at most `Limit` each, a name at most once | |
| `ConnectionManager` | the tunnel maps, `register`, `unregister`, `generateUniqueSubdomain` | |
| `TunnelServer` | the whole life of a connection attempt | `ConnectionManager` |
| `TunnelLife` | abstract: that life as traffic sees it | `ConnectionManager` |
| `HttpRelay` | relayed requests, over tunnels that live as `TunnelLife` says | `TunnelLife` |
| `WsRelay` | public WebSockets relayed to local ones, both ends, over the same tunnels | `TunnelLife` |
| `Metering` | the billed rows, on top of the traffic | `HttpRelay` |
| `TunnelClient` | the CLI's connection state machine | |
| `Credits` | prepaid credits: checkout, Stripe webhook, success page | |
| `Subscriptions` | customer, subscription and status of a user's row against Stripe | |
| `McpServer` | the MCP server's tools over the SDK's `connect` and `disconnect` | |
| `RateLimiter` | `increment()` of the Redis limiter, with the expiry of its counters | |
| `ProxyGateway` | one proxied connection to a provider | |
| `PublicProxy` | one public request through the outer port of `index.ts` | |
| `Shutdown` | the handlers of SIGTERM and SIGINT | |
| `MCServices` | small instances of the seven modules above, one at a time | all seven |
| `MCTunnelServer`, `MCWsRelay` | small instances of `TunnelServer` and `WsRelay` | |
| `ConnectionManager_proof` | lemmas about `register` and `unregister` | `ConnectionManager` |
| `TunnelServer_proof` | theorems about `TunnelServer`, both refinements among them | `ConnectionManager_proof` |
| `TunnelLife_proof` | invariant of the tunnels that traffic sees | `ConnectionManager_proof` |
| `Sums` | lemmas about sums over finite sets | |
| `Traffic_proof` | theorems about `HttpRelay` and the billed rows of `Metering` | `Metering`, `TunnelLife_proof`, `Sums` |
| `WsRelay_proof` | theorems about the relay of WebSockets | `WsRelay`, `TunnelLife_proof`, `Sums` |
| `TunnelClient_proof` | theorems about the CLI's client | `TunnelClient` |
| `Services_proof` | theorems about the parts around the server and about `MCServices` | `MCServices`, `Sums` |

`TunnelServer` implements two abstract specifications, and both refinements are
checked: `KeySlots` (what is promised about names and keys) and `TunnelLife`.
The second one is what composes the project: `HttpRelay`, `WsRelay` and `Metering` do
not repeat the handshake, they extend `TunnelLife`, so everything they rely on about
when a tunnel is in the maps and when its socket carries messages has been shown
of the server. `HttpRelay` makes one assumption beyond it, stated at the top of
the module: a name is not drawn again while an old close handler still holds it.

### How state and actions correspond to the code

*Attempts and tunnels.* The server gives each attempt a fresh UUID, so an element
of `Conn` is both the attempt and its `tunnelId`. `pc[c]` is the await at which
its handler stands. `ReadKey`, `CheckKey`, `Charge`, `TierLookupFails` and
`Admit` are the stretches of `handleConnection` and `KeyValidator.validate`
between awaits. `SocketCloses` is the socket's last event together with the part
of the close listener that runs before it awaits, `Finalized` the part after.
`ExpirySweep` is a whole timer tick over all expired tunnels. `Crash` empties
what lives in memory and keeps the rows.

*Sockets.* `sock[c]` is the `readyState` seen by the server. `close()` moves an
open socket to CLOSING; the event of a socket that reaches CLOSED is delivered
only if the listener is installed.

*Time* is not counted (except in `RateLimiter`): an expiry, a heartbeat timeout or a request timer may
happen at any point, which covers every setting of the intervals.

*Requests.* `Arrive`, `Send` and `Answer`/`Timeout`/`RejectPending` are the
stretches of `forwardToTunnel`. `resolvePendingRequest` and the rest of the
handler are one action because nothing but the promise's own continuation can
run in between. One unit of traffic stands for the bytes of a response. All
tunnels of `HttpRelay` belong to one CLI process, which answers on whichever
socket it has.

*WebSockets.* `early[w]` counts the messages that the local server sends along with
its 101, before the CLI has a listener for them (`LocalAnswers`). A close code of
1005 or 1006, which is what a broken or unexplained close reports, may not be sent:
`close()` of the `ws` library throws after it has set `readyState` to CLOSING. On
the server that skips `unregisterProxiedWebSocket` (`ClosedByLocal`), in the CLI
the removal of the entry (`CliReads`, `connections`); the message listeners of both
catch the error and go on.

`upgrade[w]` says where `handleWebSocketUpgradeEvent` stands with a
public socket; `via[w]` is the connection object it captured, `host[w]` the name,
which its close listener looks up again. `toCli` and `toServer` are the messages
in flight on a tunnel, in order. The CLI may lose a tunnel and open the next
with its local WebSockets still open (it does not close them when the connection
breaks), or be stopped, which closes them. A message is its number.

*Rows.* `writes` are statements that were issued and have not reached the
database; `WriteApplied` takes any of them, `WriteFails` loses it. `Upsert` is
the `ON CONFLICT (id)` clause. `NameIsFree` is the other constraint of the table,
`subdomain TEXT UNIQUE`: no row is ever deleted, so when a name is drawn a second
time the INSERT of its second tunnel can only fail. `unbilled` remembers which
tunnels lost their final write or were cut off by a crash.

*Keys.* `Revoke` and `Delete` change rows and tell the tunnel server nothing. A
row that is gone updates nothing: that rejects an attempt on a key with a
`max_uses` and is ignored for the others, which `swallowed` counts.

*Client.* An element of `Sock` is a WebSocket object; `socket` is the one
`this.socket` points at. The callbacks of the others keep running, as they do
in the code. The command around the client is part of the model: the process
exits on "disconnected" and when the first `connect()` is rejected.

*Credits.* A slot of `delivery` is one run of the webhook's handler and names the
statement it awaits (SELECT of the event id, INSERT of it, UPDATE of the
balance). `VerifySession` is one action because its UPDATE is one statement and
what it reads at Stripe before is settled once a session is paid.

*Subscriptions.* A record of `request` is the stage and the locals of a handler
of `lib/billing.ts`. `subs` and `events` are Stripe's side; changes are numbered
so that the properties can tell when an older one overwrote a newer one. The
code has no such number, and the history variables only record causes.

*MCP server.* A connect call makes at most one agent, so a call also names its
agent, socket and promise. `active` and `inFlight` are the entries of one port.

*Rate limiter.* Here time is counted, in seconds: a window is a division of the
clock. The clock is read when a call begins, and Redis runs its transaction at any
time after that, once or, when the connection breaks before the answer, more than
once (`AnswerIsLost`): the client sets no `commandTimeout`, queues commands while it is
not connected and sends them again. `late[w]` remembers how many attempts of a
window were allowed after the buffer that follows it.

*Gateway and outer proxy.* One connection; `stage`, `peer` and `upstream` say how
far the handler is and which sides are open. Both kinds of gateway connection,
a plain request and a CONNECT, are in one module because they share their
authentication and usage recorder and differ in what each event does. `index.ts`
makes the handlers of both and installs that of CONNECT only (`index.ts:124`). The
sockets of node's HTTP server are half-open, so a client that has sent CONNECT may end
its side (`PeerEnds`) without closing: only the pipe hears of it, once there is
one, and ends the provider's side. A reset while CONNECT awaits `authenticate()`
meets no 'error' listener, and nothing handles the exception (`ResetDuringAuth`).

*Shutdown.* `snapshot[s]` is what `getAll()` gave the handler of signal `s`, and
`toWrite[s]` what its sync has not written. A tunnel whose socket has closed stays
in the maps, and in `getAll()`, while its final write is awaited (`finalizing`), and may
still be counted traffic; its closed row then refuses the sync. Periodic writes
that were issued before the signal may take effect after it. Both signals run the
same handler. The one that closes the server first (`closer`) is called back first
when the server has drained, and exits; the callback of a second `close()` is
behind it in the same event.

*One at a time.* The seven modules around the tunnel server share no state with
it or with one another, so `MCServices` starts one of them and leaves the others
at rest. This is the disjoint union of seven systems, not a product: interleaving
parts that have nothing in common would add states and show nothing.

## Runs

| Run | Instance | What it shows |
| --- | --- | --- |
| `tunnel_server` | 2 attempts, each on a free key or on a paid key with `max_uses` = 1; 2 names; 1 failed usage write; 1 crash | typing, agreement of the maps, `UseLimit`, both refinements, no tunnel for an attempt begun after its key was revoked or deleted, every tunnel leaves the maps |
| `http_relay` | 2 tunnels, 2 names, 2 requests | pending map = waiting handlers, a waiting request has a registered tunnel, traffic counted once, every request settles |
| `metering` | 2 tunnels, 2 names, 1 request, 2 syncs | no overbilling under any order of writes, closed rows final, a tunnel that is gone has a closed row unless its final write was lost |
| `tunnel_client` | 3 socket objects, 2 reconnect attempts | heartbeat, one socket at a time, no attempt after a stop, a stop ends, a lost tunnel is retried |
| `ws_relay` | 2 tunnels, 2 names; 1 WebSocket with 3 messages or 2 without (`MaxData`) | the count agrees with the map of proxied WebSockets, none outlives its tunnel, messages reach the other end in order and without a gap from the first one relayed |
| `ws_close` | the same | a disagreement with the documents: below |
| `services` | `Credits`: 2 sessions, 2 overlapping deliveries, 1 repeat, 1 failure. `Subscriptions`: 2 requests, 2 customers, 2 subscriptions, 3 changes. `McpServer`: 3 calls. `RateLimiter`: windows of 2 s, 1 s of buffer, limit 2, 3 s. `Shutdown`: 2 signals, 1 tunnel, 2 units of traffic. `ProxyGateway`, `PublicProxy`: one connection | what each of the seven parts promises, below |
| `credit_once` | `Credits`: 1 session, no failure | a disagreement with a comment: below |
| `total_uses`, `double_unregister`, `metering_final`, `client_retry` | as above | one disagreement each between the code and what its docs or comments say: see below |

What the seven parts of `services` promise:

* *Credits*: every paid session is credited, whatever fails around the event,
  unless a delivery failed between recording the event and the UPDATE (Stripe's
  retry is then taken for a duplicate); the success page credits a session again
  only after it has credited another one.
* *Subscriptions*: the customer of every subscription stays in the row, unless two
  requests created one at once or Stripe could not be asked; and when nothing is
  in progress the row shows the latest change at Stripe, unless an event was lost
  or an older change was written over a newer one. The exceptions are what the
  code does not handle, each a history variable set by the step that causes it:
  without any one of them TLC finds the property violated.
* *MCP server*: only pending attempts are in the in-flight map; a port has one
  tunnel, unless several calls shared an attempt that failed or a pending attempt
  was disconnected; every connect call returns.
* *Rate limiter*: of the transactions that Redis runs until the buffer after their
  window is over, no more than the limit are allowed, whatever comes later and
  however often a transaction is repeated. Those that do come later may find
  the counter expired and are allowed beyond the limit, which `late` counts.
* *Gateway*: a client gets an answer while it stays, unless a provider ends a CONNECT
  without a status line. When the client ends, closes or resets its connection, the
  provider's goes too in the end, and its usage is recorded, with two exceptions
  the property names: a CONNECT stream whose client has only sent its FIN lasts as
  long as the provider likes, and a response that breaks off after its client
  closed unnoticed during the authentication leaves no record.
* *Outer proxy*: a request is answered once, and its response ends, unless the inner
  response breaks off after its headers.
* *Shutdown*: what a tunnel carried before the first signal and until its socket
  closed is in its row when the process exits, if the handler that exits found the
  tunnel, its own write did not fail, and no periodic write that was on its way set
  the row back; and the process exits, whatever connections stay open. (What is
  counted after the socket closed is in no final write: `metering_final`.)

Why the bounds are enough. Two attempts are what it takes for the races of the
handshake (both checked before either registers) and of the name (freed by the
expiry checker, drawn by the second, removed by the first); two names let a name
be free and in use at once, and five failed draws return null only if one is in
use. One failed write and one crash each suffice to separate the row from the
tunnels it counts. Two requests let one be late while the other waits. Two syncs
overlap with one another and with the final write; one request is enough to
make their figures differ, and the answer that arrives over the second tunnel
needs the second tunnel and no more. Three socket objects allow a forgotten
socket, the current one, and the next attempt; an object that closed is reused,
so the number of reconnects is not bounded by it.

Two WebSockets are what the count of a name needs to be wrong for one of them,
and one with three messages is what a gap, a swap or a repetition needs; tunnels,
names and WebSockets are each interchangeable, so that run uses symmetry (it
checks safety only).

In `services`, two deliveries of an event overlap and one repeat comes after the
answer; two sessions are what it takes to credit one a second time. Two requests
race for one customer, and three changes let an event of the first arrive after
the answer of the second with one more behind it. Of three connect calls two wait
for the attempt of the third. The clock runs to the end of the second of two
windows, so that a counter of the first without its buffer would have expired and
with it just expires, while increments of its window are still possible. Two
signals run the shutdown twice; tunnels share nothing in it but the handlers, so
one tunnel, which either snapshot may hold, is enough, and two requests make the
figures of the final, the periodic and the shutdown's write differ.

Deadlock is not checked: each of these systems may come to rest, when all its
attempts, requests or processes are done.

### Fairness

* `TunnelServer`: the expiry checker ticks and expiries pass (timers of a running
  process, `computeEffectiveExpiry` always returns a date), a socket that is
  being closed reaches CLOSED (`ws` destroys it after 30 s), an awaited
  `finalizeTunnelMetrics` returns. Nothing is assumed of clients, of the
  database's success, or of sockets that merely stay open.
* `HttpRelay`: the timer of a pending request fires. No answer is assumed.
* `TunnelClient`: timers fire; a socket being closed closes; so does a socket the
  client has forgotten, because no heartbeat is sent on it (`send` looks at
  `this.socket`) and the server closes it after `heartbeatTimeout`, or its
  connection attempt ends. A socket in use is not assumed to close or to open.
* `Credits`: Stripe delivers an event until it is answered with 2xx, and a handler
  that runs ends, well or badly. Nothing is assumed of the success page.
* `McpServer`: the timer of a connect attempt fires. Nothing is assumed of the
  tunnel server or of the socket.
* `ProxyGateway`: the database behind `authenticate()` answers, and the timeout of a
  connection to a provider fires while it is armed. Nothing is assumed of
  providers or clients.
* `PublicProxy`: the 30 s timer fires. The relay need not answer.
* `Shutdown`: the database answers the writes of the sync, well or badly, and the
  force-exit timer fires. The first is needed: the timer is armed only after the
  sync was awaited, so a database that never answers keeps the process alive.
* `Metering`, `WsRelay`, `Subscriptions` and `RateLimiter` have no liveness property
  and no fairness.

### Disagreements found

Each is a run that expects a violation of one property which states what a doc or
a comment says.

1. `total_uses`: `max_uses` limits tunnels open *at a time*; closing one returns
   its use (`key-validator.ts:321`), while `docs/UNLIMITED_KEYS.md` describes a
   limit on the total number of connections and one-time keys.
2. `double_unregister`: the expiry checker treats a CLOSED socket as one with no
   close event pending, but the close listener may be suspended in its await;
   the tunnel is then unregistered twice, by name.
3. `metering_final`: the final figures are read before an await during which the
   tunnel is still registered and its requests can still be answered over the
   CLI's next connection; what is counted then is not in the closed row.
4. `client_retry`: a reconnect that fails is not retried, although a comment and
   `docs/CLI.md` promise up to five attempts.
5. `ws_close`: a public client that closes before the CLI has accepted is never
   noticed, because its listeners are installed after that; the entry, its count
   and the local WebSocket stay until the tunnel goes. The requirements ask for
   cleanup on client close.
6. `credit_once`: an ordinary top-up, without any failure, is credited by the
   webhook and again by the success page: the webhook's UPDATE leaves
   `last_payment_session_id` alone, so the condition of the page's UPDATE holds,
   while the comment above it calls it idempotent.

Seen while modelling and not run:

* A local server that crashes makes the CLI report code 1006, and the server's
  `publicWs.close(1006)` throws (`websocket-handler.ts:514`): the WebSocket stays
  registered, its close frame unsent (`ClosedByLocal`). The requirements
  (`tasks/004-prd-websocket-proxying.md:272-277`) ask for a close frame with code 1011
  and for cleanup.
* A transaction that Redis runs after the counter of its window has expired starts
  the counter again at one, so a window may admit more than `maxRequests`, the
  "maximum number of requests allowed in the window" (`rate-limiter.ts:9`).
* A local message over 10 MB terminates the local WebSocket without telling the
  server, so the public one stays open (`LocalCloses` has that branch), while
  `docs/WEBSOCKET_GUIDE.md` speaks of a close with code 1009.
* The SDK never sends "heartbeat" (`agent-sdk/src/index.ts:418` only answers one), and
  the server closes a tunnel that sends none after 30 to 45 s, while
  `docs/AGENT-GUIDE.md:68` says the SDK handles heartbeats. The MCP server goes on
  returning the dead tunnel as active until its `expiresAt`
  (`mcp/src/index.ts:93`).
* `disconnect()` of the SDK sets `abortController` to null; a `waitForTunnel` that
  sleeps between two polls then fails to read its `signal`, takes the TypeError
  for a network error and sleeps on until its timeout. The doc comment
  (`agent-sdk/src/index.ts:372`) says that pending waits are cancelled.
* A tunnel whose name has a row already is never billed (`NameIsFree` above). So is
  a tunnel whose key is deleted before its first sync: the INSERT names a key
  that is not there any more.
* `bridge-key-auth.ts:110` refuses the agent routes, and so `liveport share`, to a
  key with `max_uses` = 1 while its tunnel is open; and a reconnect of such a key
  races the return of its use.
* `withRateLimit` of the dashboard asks the memory store even where Redis is
  configured, and `checkRateLimitAsync` falls back to it when Redis fails.

## Proofs

TLC finds out on the small instances above whether a property holds; the theorems
below hold for all values of the constants that satisfy the named assumptions
of the modules, which TLC evaluates in every run: any finite sets of attempts,
names, WebSockets and calls, any set of keys, requests, signals and sessions,
and any bounds on failures, syncs, attempts and time.

| Theorem | States |
| --- | --- |
| *`TunnelServer_proof`* | |
| `TypeCorrect`, `IndexesAlwaysAgree` | `TypeOK`, `IndexesAgree` |
| `UseLimitHolds` | `UseLimit` |
| `RevokedKeyNeverGetsTunnel` | `RevokedKeyGetsNoTunnel` |
| `ServerImplementsKeySlots` | the refinement `ImplementsKeySlots` |
| `ServerImplementsTunnelLife` | the refinement `ImplementsTunnelLife` |
| *`TunnelLife_proof`*: `LifeIndexesAgree` | `IndexesAgree` of the abstract life |
| *`Traffic_proof`*, of `HttpRelay` | |
| `RelayImplementsLife` | the relay is a `TunnelLife` |
| `RelayTypeCorrect` | `RelayTypeOK` |
| `PendingIsAlwaysWaiting`, `WaitingAlwaysHasTunnel` | `PendingIsWaiting`, `WaitingHasTunnel` |
| `TrafficCountedWithReply` | the step of which `TrafficCountedOnce` is the sum |
| `TrafficAlwaysCountedOnce` | `TrafficCountedOnce` |
| *`Traffic_proof`*, of `Metering` | |
| `MeteringTypeCorrect` | `TypeOK` |
| `RowsNeverOverbillHolds`, `GoneIsAlwaysBilled` | `RowsNeverOverbill`, `GoneIsBilled` |
| `DisconnectedRowAlwaysStays` | the action property `DisconnectedRowStays` |
| *`WsRelay_proof`* | |
| `WsImplementsLife` | the relay is a `TunnelLife` |
| `WsTypeCorrect` | `WsTypeOK` |
| `CountAlwaysAgrees`, `ProxiedAlwaysHasTunnel` | `CountAgrees`, `ProxiedHasTunnel` |
| `LocalAlwaysGetsARun`, `PublicAlwaysGetsARun` | `RunToLocal`, `RunToPublic` |
| *`TunnelClient_proof`* | |
| `ClientTypeCorrect` | `TypeOK` |
| `HeartbeatExactlyWhileConnected`, `OneSocketAtATime` | `HeartbeatWhileConnected`, `OneSocket` |
| `NoAttemptOnceStopped` | the action property `NoAttemptAfterStop` |
| *`Services_proof`* | |
| `SnapshotAlwaysSaved` | `SnapshotIsSaved` of `Shutdown` |
| `WindowLimitHolds` | `WindowLimit` of `RateLimiter` |
| `InFlightAlwaysPending`, `OneTunnelPerPortHolds` | `InFlightIsPending`, `OneTunnelPerPort` of `McpServer` |
| `VerifyCreditsAlwaysAlternate` | `VerifyCreditsAlternate` of `Credits` |
| `SubscriptionsTypeCorrect` | `SubscriptionsTypeOK` |
| `EventsAlwaysFindRow`, `QuietRowAlwaysCurrent` | `EventsFindRow`, `QuietRowIsCurrent` |
| `ServicesRunTheParts` | a behaviour of `MCServices` is one of each part |
| `ServicesTypeCorrect` | `ServicesTypeOK` |

Together, `ServerImplementsTunnelLife` and the theorems over `TunnelLife` compose:
what is proved of the relays and of metering rests on tunnels that live as the
server makes them live, up to the assumption on names stated in `HttpRelay`.
`ServicesRunTheParts` does the same for the parts around the server, so that a
theorem about a part is one about the run that checks it.

### Assumptions

`MapAssumption`, `ServerAssumption`, `WsAssumption`, `ClientAssumption`,
`CreditsAssumption`, `RateLimiterAssumption`, `McpAssumption`,
`SubscriptionsAssumption`, `ShutdownAssumption` and `MeteringAssumption` say that
attempts, names, WebSockets, calls and checkout sessions are finite sets, that limits are numbers,
and that the value for "none" is none of the others (for `Metering`, not a row
either). No theorem has a hypothesis beside these.

### Arguments

*Maps.* `IndexesAgree` is inductive with `TypeOK`, which is why `unregister` may be
called for any name by anyone without harm to the maps. `RegisterKeepsIndexes`,
`UnregisterKeepsIndexes` and `UnregisterEffect` say so once, for the server and
for `TunnelLife` alike. The refinement of `KeySlots` needs it as well: a new name
is free of all keys because it is free in the primary index.

*Uses.* `UseLimit` is not inductive. What is, is `UsesCover`: the attempts past the
usage check are covered by `current_uses` plus the swallowed increments, and
`current_uses` is within `max_uses`. With `HandlersAgree` (a tunnel in the maps
has a handler in state open or finalizing), every step that lowers `current_uses`
belongs to an attempt that leaves the covered set, and each tunnel in the maps
belongs to an attempt in it. Deleting a key's row needs no other argument: the
row is frozen, and an attempt that goes on without it is counted in `swallowed`.

*Revocation.* No step ends `Barred(c)`: the key is revoked, and the attempt has not
read its row yet, or has read the revoked one, or is over.

*The server's life of a tunnel.* `TunnelLife` sees a tunnel once it is registered and
its socket until the handler is through. `SocketsAgree` (a handler past `idle` has
a socket, a finalizing one a closed socket) makes the two views of a socket
agree. Each action is then one of `LifeOpen`, `LifeCloseSocket`, `LifeSocketGone`,
`LifeUnregister`, `LifeSweep`, `LifeServerDies`, `LifeAbandon` or a stutter.

*HTTP relay.* A request is safe because its tunnel is: `HandlersHold` says that a
waiting handler's tunnel is in the maps, `OpenIsRegistered` that a tunnel with an
open socket still is when the body has arrived, and `NamesDistinct`, which is
where the assumption on names enters, that a close handler removes no other
tunnel than its own.

*Metering.* Every write on its way carries no more than its tunnel's counter
(`WritesNeverOverbill`), and counters only grow. For the closed row: a tunnel gets
one final write, while its row is open (`OneFinalWrite`), and a handler that
waits has one coming (`FinalIsComing`), so that nothing is left to reopen the row
or to arrive after the handler is through.

*Sums.* `MapThenSumSet` is a recursive function on the subsets of its set, and the
library has no theorem about it that these provers can instantiate. `Sums` shows
by least counterexample that the function exists (a table that is right up to
one cardinality gives one that is right up to the next), that a sum may take its
elements in any order, and that it grows with each term. `TrafficCountedOnce` is
then inductive with the relay's invariant. `VerifyCreditsAlternate` is inductive
as `NotAhead`: only the session credited last may be one ahead of the others.

*WebSockets.* `ProxiedIsAddressed` says that a registered WebSocket keeps the name
it was counted under; every step does one of four things to the registry
(`RegistryStep`), and the count is a cardinality that each changes by as many as
it adds or removes. A name is drawn again only when its WebSockets were dropped
with the tunnel that had it.

*Order of relayed messages.* The numbers of a WebSocket in a queue are a recursive
function of the queue (`Numbers`); it exists, and appending a message or taking
the first changes it by that message's number, again by least counterexample
(`NumbersAppend`, `NumbersTail`). The runs rest on the order of the handshake,
`StageInv`: the CLI is asked once for a WebSocket, over its own tunnel, before it has done
anything (`AskedOnce`), its answer is under way only when the local end is open
(`TakenLate`), and only then does the server relay. So both ends start with
nothing on its way and nothing sent but what is in `early` (`Downward`, `Upward`).
After that a send
extends the run, a delivery moves its first number, and whatever else happens
either leaves the run alone or ends the condition under which it is claimed:
a lost tunnel is never the CLI's tunnel again (`EndsKept`), and a closed socket or a
forgotten WebSocket never comes back (`SocketsClose`, `PublicEndKept`).

*Client.* `OneInUse` says of the sockets in use what `OneSocket` says of the open
ones, and that there is none while a reconnect is due; a stopped client never sets
`shouldReconnect` again (`StoppedForGood`).

*Limiter.* A transaction runs no earlier than its window begins, and a counter that
counts anything expires no earlier than `Buffer` after its window
(`CounterOutlives`). Until then it shows every attempt its window allowed, and every
attempt it allows afterwards is a late one (`AllowedIsCounted`). Nothing is assumed
of Redis' latency.

*MCP server.* While no shared attempt failed and none was disconnected, a pending
attempt is the one in the in-flight map, and while there is one no tunnel is
open (`OneAtATime`); disconnect closes whatever socket an agent still refers to
(`SocketsHeld`).

*Subscriptions.* `FindInv`: at most one request is creating a customer, and only
while the row has none. `CurrentInv` follows the newest change from Stripe to the
row: whatever is under way about it says what Stripe holds (`NewestAgree`), and
once its event has been handled the row is current and the answer of the request
that made it changes nothing (`HandledIsCurrent`).

*Shutdown.* `Saved(c)` is that the row holds what the tunnel carried until its socket
closed, or that one of the two causes the property names took place. A closed row
holds what its close handler read (`ClosedRowIsFinal`), so that once a tunnel is
saved no step unsaves it, whether its row is open or closed. What of a handler's
snapshot is not saved is in its list (`HandlerOwes`), and the handler goes on only
with an empty list.

### Only model-checked

* Liveness (`EveryTunnelIsRemoved`, `EveryRequestSettles`, `StopEnds`,
  `LostTunnelIsRetried`, `PaidIsCredited`, `EveryCallReturns`,
  `ClosedClientIsReleased`, `ClientIsAnswered`, `EveryReplyEnds`, `ShutdownEnds`)
  needs fairness and ENABLED, which the prover does not handle.
* The runs that expect a violation: each is a counterexample, not a theorem.

## Not modelled, and the plan

Not modelled, and why:

* the `request_count` column and counter: heartbeats overwrite it and only displays
  read it; formats, headers, logging;
* the development mode of the key validator; several server processes at once (the
  maps are per process and nothing is shared but the rows);
* the checks of `index.ts` on the headers of a control connection, the tokens and
  the table of providers of the gateway, `computeEffectiveExpiry`: pure functions
  before a step that is modelled;
* `handleWebSocketUpgrade` of `http-handler.ts`, which only tests reach;
* the Redis cache and tunnel state (`redis/cache.ts`, `redis/tunnel-state.ts`), which
  no component calls, and `check()` and `reset()` of the limiter;
* the dashboard's own limiter, usage periods, invoices, payment methods, the Stripe
  portal and the creation of keys: a read, or one statement on a fresh row;
* the SDK's `waitForTunnel`, `waitForReady` and `listTunnels` and the routes they
  poll: loops that keep nothing but what is said of them above;
* React pages, the schema and its migrations, authentication and e-mail adapters,
  scripts, examples: declarations, markup and calls of external services. They
  are most of the repository's lines, which is why the modules stand for a small
  share of them although they cover the code that has a protocol.

In this order:

1. *done*: registry, handshake, their proofs; relay of requests and of WebSockets;
   metering; client; credits and subscriptions; MCP server; limiter; gateway;
   outer proxy; shutdown.
2. *done*: the proofs above: every invariant and action property that a passing run
   checks is stated by a theorem. Left: invariants of the gateway and the outer proxy
   beside their types, for a run to check first.
3. *later*: `AgentWait`: the SDK's wait over the dashboard's wait route, with `disconnect()`;
   the dashboard's limiter with its fallback to memory.

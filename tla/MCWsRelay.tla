----------------------------- MODULE MCWsRelay -----------------------------
(* An instance of WsRelay: one WebSocket that carries data, or two that    *)
(* carry none.                                                             *)
EXTENDS WsRelay, TLC

MCMaxData == <<3, 0>>

(* Tunnels are alike, names are alike, and so are WebSockets.              *)
Alike == Permutations(Conn) \cup Permutations(Subdomain) \cup Permutations(Ws)
=============================================================================

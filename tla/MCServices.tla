----------------------------- MODULE MCServices -----------------------------
(***************************************************************************)
(* The parts around the tunnel server that share no state with it or with  *)
(* one another, in one instance for TLC.  A behaviour is one of a single   *)
(* part, chosen at the start, with the others at rest: interleaving parts  *)
(* that have nothing in common would add states and show nothing more.     *)
(***************************************************************************)
EXTENDS Credits, Subscriptions, McpServer, RateLimiter, ProxyGateway,
        PublicProxy, Shutdown

VARIABLE part   \* the part that runs

servicesVars == <<part, creditsVars, subVars, mcpVars, rateVars, gatewayVars,
                  proxyVars, shutdownVars>>

ServicesInit ==
  /\ part \in {"credits", "subscriptions", "mcp", "rate", "gateway", "proxy", "shutdown"}
  /\ CreditsInit /\ SubscriptionsInit /\ McpInit /\ RateInit
  /\ GatewayInit /\ ProxyInit /\ ShutdownInit

ServicesNext ==
  \/ /\ part = "credits" /\ CreditsNext
     /\ UNCHANGED <<part, subVars, mcpVars, rateVars, gatewayVars, proxyVars, shutdownVars>>
  \/ /\ part = "subscriptions" /\ SubscriptionsNext
     /\ UNCHANGED <<part, creditsVars, mcpVars, rateVars, gatewayVars, proxyVars, shutdownVars>>
  \/ /\ part = "mcp" /\ McpNext
     /\ UNCHANGED <<part, creditsVars, subVars, rateVars, gatewayVars, proxyVars, shutdownVars>>
  \/ /\ part = "rate" /\ RateNext
     /\ UNCHANGED <<part, creditsVars, subVars, mcpVars, gatewayVars, proxyVars, shutdownVars>>
  \/ /\ part = "gateway" /\ GatewayNext
     /\ UNCHANGED <<part, creditsVars, subVars, mcpVars, rateVars, proxyVars, shutdownVars>>
  \/ /\ part = "proxy" /\ ProxyNext
     /\ UNCHANGED <<part, creditsVars, subVars, mcpVars, rateVars, gatewayVars, shutdownVars>>
  \/ /\ part = "shutdown" /\ ShutdownNext
     /\ UNCHANGED <<part, creditsVars, subVars, mcpVars, rateVars, gatewayVars, proxyVars>>

\* Nothing that must happen is enabled in a part at rest, so the fairness of each
\* part constrains the behaviours of that part only.
ServicesSpec ==
  /\ ServicesInit /\ [][ServicesNext]_servicesVars
  /\ CreditsFairness /\ McpFairness /\ GatewayFairness /\ ProxyFairness
  /\ ShutdownFairness

\* Every variable of every part has its declared range.
ServicesTypeOK ==
  /\ CreditsTypeOK /\ SubscriptionsTypeOK /\ McpTypeOK /\ RateTypeOK
  /\ GatewayTypeOK /\ ProxyTypeOK /\ ShutdownTypeOK
=============================================================================

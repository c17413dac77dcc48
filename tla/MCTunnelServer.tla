--------------------------- MODULE MCTunnelServer ---------------------------
(* Two attempts, each on a free key without max_uses or on a paid key with *)
(* max_uses = 1; two names, so that a name can be drawn again.             *)
EXTENDS TunnelServer

CONSTANTS freeKey, paidKey

MCKey == {freeKey, paidKey}
MCFreeKey == {freeKey}
MCLimitedKey == {paidKey}
MCMaxUses == [k \in MCLimitedKey |-> 1]
=============================================================================

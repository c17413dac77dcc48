SPECIFICATION WsSpec
CONSTANTS
  None = None
  Conn = {c1, c2}
  Subdomain = {s1, s2}
  Key = {k1}
  Ws = {w1, w2}
  MaxWebSockets = 2
  MaxPendingUpgrades = 1
  MaxData <- MCMaxData
SYMMETRY Alike
INVARIANT ClosedIsForgotten
CHECK_DEADLOCK FALSE

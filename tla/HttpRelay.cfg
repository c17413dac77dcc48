SPECIFICATION RelaySpec
CONSTANTS
  None = None
  Conn = {c1, c2}
  Subdomain = {s1, s2}
  Key = {k1}
  Req = {r1, r2}
INVARIANTS
  PendingIsWaiting
  WaitingHasTunnel
  TrafficCountedOnce
PROPERTIES
  EveryRequestSettles
CHECK_DEADLOCK FALSE

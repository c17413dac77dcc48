SPECIFICATION Spec
CONSTANTS
  None = None
  freeKey = freeKey
  paidKey = paidKey
  Conn = {c1, c2}
  Subdomain = {s1, s2}
  Key <- MCKey
  FreeKey <- MCFreeKey
  LimitedKey <- MCLimitedKey
  MaxUses <- MCMaxUses
  MaxConnectionsPerKey = 2
  MaxFaults = 0
  MaxCrashes = 0
PROPERTIES
  OneTimeKey
CHECK_DEADLOCK FALSE

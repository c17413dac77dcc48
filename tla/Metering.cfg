SPECIFICATION Spec
CONSTANTS
  None = None
  Conn = {c1, c2}
  Subdomain = {s1, s2}
  Key = {k1}
  Req = {r1}
  MaxSyncs = 2
INVARIANTS
  TypeOK
  RowsNeverOverbill
  GoneIsBilled
PROPERTIES
  DisconnectedRowStays
CHECK_DEADLOCK FALSE

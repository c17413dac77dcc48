SPECIFICATION Spec
CONSTANTS
  None = None
  Sock = {w1, w2, w3}
  MaxAttempts = 2
INVARIANTS
  TypeOK
  HeartbeatWhileConnected
  OneSocket
PROPERTIES
  NoAttemptAfterStop
  StopEnds
  LostTunnelIsRetried
CHECK_DEADLOCK FALSE

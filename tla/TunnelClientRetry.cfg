SPECIFICATION Spec
CONSTANTS
  None = None
  Sock = {w1, w2, w3}
  MaxAttempts = 2
INVARIANTS
  RetriesUntilMax
CHECK_DEADLOCK FALSE

SPECIFICATION ServicesSpec
CONSTANTS
  Sessions = {S1, S2}
  Deliveries = {D1, D2}
  NoSession = NoSession
  MaxCredits = 2
  MaxRepeats = 1
  MaxFailures = 1
  Requests = {R1, R2}
  MaxRequests = 2
  MaxCustomers = 2
  MaxSubs = 2
  MaxChanges = 3
  Calls = {A1, A2, A3}
  NoCall = NoCall
  Attempts = {I1, I2}
  Window = 2
  Buffer = 1
  MaxAttempts = 2
  MaxTime = 3
  MaxCount = 3
  Signals = {T1, T2}
  Clients = {L1}
  NoSignal = NoSignal
  MaxTraffic = 2
INVARIANTS
  ServicesTypeOK
  VerifyCreditsAlternate
  EventsFindRow
  QuietRowIsCurrent
  InFlightIsPending
  OneTunnelPerPort
  WindowLimit
  SnapshotIsSaved
PROPERTIES
  PaidIsCredited
  EveryCallReturns
  ClosedClientIsReleased
  ClientIsAnswered
  EveryReplyEnds
  ShutdownEnds
CHECK_DEADLOCK FALSE

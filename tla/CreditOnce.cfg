SPECIFICATION CreditsSpec
CONSTANTS
  Sessions = {S1}
  Deliveries = {D1}
  NoSession = NoSession
  MaxCredits = 2
  MaxRepeats = 0
  MaxFailures = 0
INVARIANT SessionCreditedOnce
CHECK_DEADLOCK FALSE

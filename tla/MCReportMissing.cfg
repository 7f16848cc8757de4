SPECIFICATION Spec
CONSTANTS
  N = 2
  Items <- SomeItems
  IncidentRank <- ReverseOrder
  MaxItems = 2
  MaxAttempts = 2
  Backoff = 1
  ClaimTimeout = 1
  Shared = FALSE
  SmtpTries = 2
  MaxCrashes = 0
  MaxCommands = 0
INVARIANTS
  ClaimedHasReport

SPECIFICATION EagerSpec
CONSTANTS
  N = 1
  Items <- SomeItems
  IncidentRank <- SameOrder
  MaxItems = 1
  MaxAttempts = 2
  Backoff = 1
  ClaimTimeout = 1
  Shared = FALSE
  SmtpTries = 2
  MaxCrashes = 1
  MaxCommands = 0
PROPERTIES
  ClaimIsRecovered

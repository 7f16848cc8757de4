SPECIFICATION FairSpec
CONSTANTS
  N = 3
  Items <- SomeItems
  IncidentRank <- ReverseOrder
  MaxItems = 2
  MaxAttempts = 2
  Backoff = 1
  ClaimTimeout = 1
  Shared = FALSE
  SmtpTries = 2
  MaxCrashes = 1
  MaxCommands = 1
INVARIANTS
  TypeOK
  SentWasAccepted
  DeliveriesAccounted
  RetriesBounded
PROPERTIES
  TerminalIsFinal
  PendingIsTried

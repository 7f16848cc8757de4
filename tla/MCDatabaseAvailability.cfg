SPECIFICATION FairSpec
CONSTANTS
  ServiceCount = 2
  RecipientCount = 2
  SmtpTries = 2
  MaxEvents = 3
  MaxMailErrors = 1
  MaxStoreErrors = 1
  MaxCrashes = 1
INVARIANTS
  TypeOK
  EventsTellState
  DeliveredReachedAll
  CopiesAccounted
  NoticesInOrder
PROPERTY
  EveryEventIsDelivered

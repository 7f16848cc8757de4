SPECIFICATION Spec
CONSTANTS
  MinConsecutive = 1
  MinDuration = 1
  SmtpTries = 2
  None = None
  MaxMeasurements = 3
  MaxMissing = 1
  MaxRebuilds = 1
  MaxFailures = 2
INVARIANTS
  TypeOK
  StateMatchesEvents
  EventsAreRuns
  ScoredOnce
  NoMailTwice
  LongEventsReported
PROPERTY
  EverythingJudged

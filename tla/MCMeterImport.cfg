SPECIFICATION Spec
CONSTANTS
  Date = {1, 2, 4, 5}
  Objem = {0, 49, 54, 120}
  Interval = 1
  MaxGap = 3
  ResetDiff = 9
  ReturnDuration = 3
  ReturnDelta = 10
  SpikeDelta = 30
  OutlierDelta = 70
  MinHistory = 0
  None = None
  MaxReadings = 4
  MaxLate = 1
  MaxReviews = 2
  MaxAborts = 1
INVARIANTS
  TypeOK
  ConsumptionAccounted
  DeltasCount
  NothingLost
  OneRowPerDate
  InvalidHasReview
  DeltaBound
  RebuildFits
PROPERTY
  EverythingImported
CHECK_DEADLOCK FALSE

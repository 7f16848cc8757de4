SPECIFICATION Spec
CONSTANTS
  Date = {1, 2, 3, 4}
  Objem = {49, 54, 120}
  Interval = 1
  MaxGap = 2
  ResetDiff = 9
  ReturnDuration = 3
  ReturnDelta = 10
  SpikeDelta = 30
  OutlierDelta = 30
  MinHistory = 1
  None = None
  MaxReadings = 3
  MaxLate = 0
  MaxReviews = 1
  MaxAborts = 0
INVARIANT
  ConfirmedConsumptionIsValid
CHECK_DEADLOCK FALSE

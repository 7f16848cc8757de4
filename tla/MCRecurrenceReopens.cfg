SPECIFICATION Spec
CONSTANTS
  f1 = f1
  f2 = f2
  f3 = f3
  web = web
  Facade = {f1, f2, f3}
  External = {web}
  Observations <- TypicalObservations
  OpenCycles <- DefaultOpen
  RecoveryCycles <- DefaultRecovery
  Cooldown = 1
  MaxStates = 4
  MaxCycle = 5
  MaxStarts = 2
  StreakCap = 3
INVARIANTS
  RecurrenceReopensAfterCooldown
CHECK_DEADLOCK FALSE

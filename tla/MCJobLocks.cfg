SPECIFICATION Spec
CONSTANTS
  runner1 = runner1
  runner2 = runner2
  api = api
  Runner = {runner1, runner2}
  Server = {api}
  Task <- SomeTasks
  ProcessOf <- TheProcess
  Job = {"quarter_hour", "monthly", "wide"}
  Scheduled = {"quarter_hour", "wide"}
  NameCount = 2
  LockNames <- SomeLockNames
  Free = Free
  NoJob = NoJob
  Nobody = Nobody
  MaxCrashes = 1
  MaxErrors = 1
INVARIANTS
  TypeOK
  MutualExclusion
  NoLockIsLeft
  SomeoneGetsThrough
PROPERTIES
  ImplementsExclusion

SPECIFICATION ProgressSpec
CONSTANTS
  Parts = {"gc", "admission", "ops", "scheduler", "stream", "runs", "usage"}
  d1 = d1
  d2 = d2
  k1 = k1
  k2 = k2
  s1 = s1
  N = 2
  Drivers <- TwoDrivers
  MaxFailures = 1
  MaxCrashes = 1
  Scopes = {s1}
  Keys = {k1, k2}
  Limits = {1}
  Ceilings = {1}
  JobsPerPeriod = 2
  NoRow = NoRow
  MaxVersion = 2
  Admitters = {a1, a2}
  Requests <- MCRequests
  MaxCalls = 2
  MaxJobs = 1
  Items = {i1, i2}
  Unhandled = {}
  OpsWorkers = {w1, w2}
  MaxAttempts = 2
  NoItem = NoItem
  MaxBreaks = 1
  MaxStalls = 1
  MaxFaults = 1
  Schedules = {s1}
  SchedulerProcs = {p1, p2}
  ScheduleVersions <- MCVersions
  Sub = 1
  LookBack = 3
  MaxPerTick = 2
  MaxDue = 2
  RunScan = 60
  StartTime = 2
  MaxTime = 5
  MaxChanges = 0
  MaxSchedFaults = 1
  MaxStreamEvents = 3
  RunWriters = {w1, w2}
  StepLog <- MCStepLog
  AfterSeqs = {0, 1}
  MaxRunSeq = 4
  MaxRunWrites = 2
  UsageInputs <- MCUsageInputs
  UsageQueries <- MCUsageQueries
  Recorders = {w1, w2}
  UsageReaders = {d1}
  MaxQueryLimit = 2
  DefaultLimit = 1
  MaxPages = 2
  MaxRange = 1
  MaxUsageRows = 3
  MaxUsageTime = 2
INVARIANTS
  ProgressTypeOK
  SnapshotsSafe
  FollowersSeeAll
  UsageReadsRight
PROPERTIES
  ResourcesReturn
  WorkFinishes
  LatestMissedIsRecorded
  FollowersReleased
CHECK_DEADLOCK FALSE

SPECIFICATION TenantsSpec
CONSTANTS
  Parts = {"ops", "scheduler", "gateway", "fanout", "dispatch", "repairs", "timeouts", "definitions", "runs", "artifacts", "deliveries", "connections", "members", "keys", "identities", "sessions"}
  e1 = e1
  t1 = t1
  s1 = s1
  s2 = s2
  q1 = q1
  q2 = q2
  u1 = u1
  u2 = u2
  v1 = v1
  v2 = v2
  Items = {i1, i2}
  Unhandled = {i2}
  OpsWorkers = {u1, u2}
  MaxAttempts = 2
  NoItem = NoItem
  MaxBreaks = 2
  MaxStalls = 1
  MaxFaults = 1
  Schedules = {s1}
  SchedulerProcs = {u1, u2}
  ScheduleVersions <- MCVersions
  Sub = 2
  LookBack = 2
  MaxPerTick = 2
  MaxDue = 2
  RunScan = 4
  StartTime = 2
  MaxTime = 4
  MaxChanges = 1
  MaxSchedFaults = 1
  Inbound = {e1}
  Subscriptions = {s1, s2}
  Interested <- MCInterested
  Ingests = {u1, u2}
  FanOuts = {u1, u2}
  NoRow = NoRow
  MaxDeliveries = 3
  MaxFanOuts = 3
  MaxSubVersion = 2
  MaxIntakeFaults = 2
  Events = {e1}
  Triggers = {t1}
  Matching <- MCMatching
  Dispatchers = {u1, u2}
  PassNames = {v1, v2}
  MaxDispatchAttempts = 3
  NoDispatch = NoDispatch
  MaxRevisions = 2
  MaxArrivals = 3
  MaxDispatchFaults = 2
  Publishers = {q1, q2}
  Offers <- MCOffers
  Steps <- MCSteps
  ApprovalGates = {TRUE, FALSE}
  Hands = {u1, u2}
  MaxRunCalls = 4
  MaxRunFaults = 2
  ArtKeys = {k1, k2}
  BinaryKeys = {k2}
  ArtCalls = {u1, u2}
  MaxArtCalls = 3
  MaxArtFaults = 2
  DeliveryKeys = {k1}
  DeliveryUrls <- MCUrls
  DeliveryCalls = {u1, u2}
  MaxRedirects = 1
  MaxDeliveryAttempts = 3
  BaseMs = 1
  MaxMs = 3
  Multiplier = 2
  MaxDeliveryFaults = 2
  RelItems = {1, 2}
  RelRuns = {r1}
  RelDispatches = {d1}
  BatchSize = 1
  MaxBatches = 3
  StaleAfter = 0
  MaxRelTime = 1
  MaxRelMoves = 1
  Attempts = {v1, v2}
  Callers = {u1, u2}
  MaxSecrets = 3
  MaxConnCalls = 3
  MaxConnFaults = 1
  People = {m1, m2}
  Founder = m1
  Invitations = {v1, v2}
  OfferedRoles = {"viewer"}
  InviteKeys = {x1}
  NoKey = NoKey
  MemberRequests = {u1, u2}
  MaxRequests = 3
  ApiKeys = {v1, v2}
  Credentials = {c1, c2}
  Sessions = {z1, z2}
  Tenants = {n1, n2}
  NoTenant = NoTenant
  NoKeyId = NoKeyId
  AuthOps = {u1, u2}
  MaxAuthOps = 3
SYMMETRY Interchangeable
INVARIANTS
  TenantsTypeOK
  QueueSafe
  OneAdmissionPerOccurrence
  InboundSafe
  AutomationSafe
  OutputsSafe
  AccessSafe
PROPERTIES
  DecisionsStand
  ConnectionsSafe
CHECK_DEADLOCK FALSE

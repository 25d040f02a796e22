SPECIFICATION JobPlaneSpec
CONSTANTS
  Parts = {"store", "pgstore", "pgdispatch", "quota", "admission", "ledger", "settlement", "posts", "http"}
  d1 = d1
  k1 = k1
  k2 = k2
  s1 = s1
  s2 = s2
  j1 = j1
  j2 = j2
  n1 = n1
  n2 = n2
  o1 = o1
  o2 = o2
  p1 = p1
  x1 = x1
  w1 = w1
  w2 = w2
  MaxAttempt = 2
  MaxEvents = 2
  Event = {"a", "b"}
  Body = {"x", "y"}
  Scopes = {s1, s2}
  Keys = {k1, k2}
  Limits = {1}
  Ceilings = {0, 1}
  JobsPerPeriod = 1
  NoRow = NoRow
  MaxVersion = 2
  Admitters = {a1, a2}
  Requests <- MCRequests
  MaxCalls = 3
  MaxJobs = 2
  BilledJobs <- OneJob
  AccountOf <- MCAccountOf
  Reconcilers = {r1, r2}
  ClientKeys = {c1, c2}
  MaxLog = 1
  MaxPricing = 2
  MaxRuns = 2
  MaxScan = 1
  Bodies = {b1, b2}
  Posts = {p1, p2, p3}
  NoBody = NoBody
  MaxPostFaults = 2
  PgClients = {c1, c2}
  MaxPgTx = 4
  MaxPgAttempt = 2
  PgWorkers = {w1, w2}
  HttpTenants = {n1, n2}
  Orgs = {o1, o2}
  Projects = {p1}
  Tools = {x1}
  HttpCallers <- MCCallers
  HttpRequests <- MCHttp
  HttpCalls = {u1}
  Nobody = Nobody
  MaxHttp = 2
  MaxPolicies = 2
  MaxAdmitted = 1
INVARIANTS
  JobPlaneTypeOK
  LeaseIsCurrent
  CheckpointBehindLog
  CountersFit
  AnswersAgree
  LedgerRight
  RequestsSafe
PROPERTIES
  StoreOnlyForward
  ReservationsStand
  BooksClosed
  PgServes
CHECK_DEADLOCK FALSE

SPECIFICATION HostsSpec
CONSTANTS
  Parts = {"fleet", "files", "environments"}
  p1 = p1
  p2 = p2
  Procs <- TwoProcs
  Starters <- TwoProcs
  Calls = {}
  Idempotent = {}
  Allowed = {}
  Turns <- NoTools
  OnUncertainToolCall = "mark_uncertain"
  MaxSteps = 1
  MaxTokens = 0
  DurationBudget = FALSE
  HeartbeatLoss = FALSE
  MaxAttempt = 2
  MaxEvents = 40
  MaxCrashes = 1
  MaxCancels = 0
  MaxSuspends = 1
  MaxInputs = 0
  MaxEnvFailures = 0
  MaxClaims = 2
  FileCalls = {u1, u2}
  MaxFileAttempt = 2
  MaxFileEvents = 3
  MaxFileCrashes = 1
  Places <- MCPlaces
  EnvProcs = {h1, h2}
  MaxWrites = 2
  MaxImages = 2
  MaxEnvAttempt = 2
  MaxEnvFaults = 1
  MaxEnvCalls = 3
  CheapFloor = 1
  SnapThreshold = 2
  EvictionThreshold = 1
  MinSteps = 1
INVARIANTS
  HostsTypeOK
  FileStoreSafe
PROPERTIES
  AssignedToOne
  WorkspaceKept
SYMMETRY ProcsSymmetry
CHECK_DEADLOCK FALSE

SPECIFICATION Spec
CONSTANTS
  p1 = p1
  p2 = p2
  Procs <- TwoProcs
  Starters <- OneProc
  Calls = {"w", "r"}
  Idempotent = {"r"}
  Allowed = {"w", "r"}
  Turns <- ReadWrite
  OnUncertainToolCall = "mark_uncertain"
  MaxSteps = 1
  MaxTokens = 0
  DurationBudget = FALSE
  HeartbeatLoss = TRUE
  MaxAttempt = 2
  MaxEvents = 40
  MaxCrashes = 1
  MaxCancels = 0
  MaxSuspends = 0
  MaxInputs = 0
  MaxEnvFailures = 0
INVARIANTS
  NonIdempotentAtMostOnce
  CheckpointIsEnough
PROPERTIES
  CommittedProgressKept
  ImplementsOwnership
CHECK_DEADLOCK FALSE

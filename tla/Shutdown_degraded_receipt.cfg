CONSTANTS
  Restarters = {r1, r2}
  Stoppers = {}
  LastPid = 1
  Versions = {v1}
  CliVersion = v1
  MaxLoad = 0
  StreakLimit = 1
  DegradedBudget = 1
  MaxAttempts = 0
  None = None
CHECK_DEADLOCK FALSE
SPECIFICATION Spec
INVARIANT ReceiptMeansDrained

CONSTANTS
  Restarters = {r1}
  Stoppers = {s1}
  LastPid = 2
  Versions = {v1}
  CliVersion = v1
  MaxLoad = 1
  StreakLimit = 1
  DegradedBudget = 2
  MaxAttempts = 0
  None = None
CHECK_DEADLOCK FALSE
SPECIFICATION RaceSpec
INVARIANTS StoppedIsDrained ReservationIsHeld
PROPERTIES CommittedDrainEnds CommittedIsIrreversible

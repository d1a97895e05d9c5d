\* Only the delta of the source is carried over (REQUIREMENTS_RU.md 1.2).
CONSTANTS
  MaxJobs = 3
  MaxCommits = 2
  MaxPulls = 2
  Threads <- SmallThreads
  MaxRunning = 2
  MaxFaults = 1
  MaxRuns = 2
  MaxHeads = 2
  MaxTroubles = 1
  Limit = 4
  Bound <- SmallBound
  Bill <- SmallBill
  DraftLines = 2
  MaxTurns = 3
  MaxLines = 3
  MaxPatchHunks = 2
CHECK_DEADLOCK FALSE
SPECIFICATION PartsSpec
INVARIANT UntouchedSurvives

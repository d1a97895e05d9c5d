\* Two jobs at a time, one fault anywhere.
CONSTANTS
  MaxJobs = 3
  MaxCommits = 0
  Modes <- Retries
  MixedPairs = FALSE
  Outside = {}
  MaxRunning = 2
  MaxFaults = 1
CHECK_DEADLOCK FALSE
SPECIFICATION Spec
INVARIANTS
  OneSuccessPerCheckpoint
PROPERTIES
  ClosedStaysClosed
  LineageKept

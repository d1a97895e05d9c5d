\* One job after another, asked for on the source pull request, one fault; checkpoints grow old.
CONSTANTS
  MaxJobs = 3
  MaxCommits = 1
  Modes <- FromSource
  MixedPairs = FALSE
  Outside = {"expiry"}
  MaxRunning = 1
  MaxFaults = 1
CHECK_DEADLOCK FALSE
SPECIFICATION Spec
INVARIANTS
  TypeOK
  SuccessSeals
  StopStaysResumable
PROPERTIES
  NoneOutlivesOrigin

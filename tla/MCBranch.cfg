\* Two fair jobs and a maintainer push to one branch; nothing fails.
CONSTANTS
  MaxJobs = 2
  MaxCommits = 3
  Modes <- AllModes
  MixedPairs = TRUE
  Outside = {"push"}
  MaxRunning = 2
  MaxFaults = 0
CHECK_DEADLOCK FALSE
SPECIFICATION FairSpec
PROPERTIES
  UpdatesFollowHead
  AuditCloses

\* Two translations of one source pull request push at the same time; nothing fails.
CONSTANTS
  MaxJobs = 2
  MaxCommits = 3
  Modes <- Updates
  MixedPairs = FALSE
  Outside = {}
  MaxRunning = 2
  MaxFaults = 0
CHECK_DEADLOCK FALSE
SPECIFICATION Spec
PROPERTIES
  TranslationReplacesCapturedHead

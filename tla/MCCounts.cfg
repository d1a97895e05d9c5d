\* No group of articles is larger than the scope (scope.py).
CONSTANTS
  Page <- Pages
  Kind <- Kinds
  Ways <- AllWays
  Include <- Includes
  Change <- Changes
  MaxHunks = 2
  MaxJobs = 2
  Runner = {1, 2}
  ModeOf <- Modes
  DailyLimit = 1
  Price = {1}
  MaxTalks = 1
  MaxCalls = 5
  Article = {1, 2, 3}
  Diffs <- SmallDiffs
  Links <- SmallGraphs
  Redirects <- SmallRedirects
  MaxFiles = 2
CHECK_DEADLOCK FALSE
SPECIFICATION ContentSpec
INVARIANT CountsWithinScope

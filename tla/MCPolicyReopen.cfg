\* The pull request is closed and reopened, without faults.
CONSTANTS
  p1 = p1
  h1 = h1
  h2 = h2
  r1 = r1
  r2 = r2
  o1 = o1
  o2 = o2
  None = None
  PR = {p1}
  Head = {h1, h2}
  Request = {r1, r2}
  Owner = {o1, o2}
  Attempt = {1, 2}
  PrOf <- MCPrOf
  HeadOf <- SameHeadOf
  RequestOf <- SameRequestOf
  EventOf <- RerunEventOf
  FirstHead <- MCFirstHead
  Collaborators = {p1}
  Closable = {p1}
  MaxFaults = 0
  Orphans = {}
CHECK_DEADLOCK FALSE
SPECIFICATION Spec
PROPERTIES
  RefusedOnlyAfterReview

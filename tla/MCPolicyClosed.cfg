\* A pull request closed, and perhaps reopened, during its review; one call may fail.
CONSTANTS
  p1 = p1
  h1 = h1
  h2 = h2
  r1 = r1
  r2 = r2
  o1 = o1
  o2 = o2
  None = None
  PR = {p1}
  Head = {h1, h2}
  Request = {r1, r2}
  Owner = {o1, o2}
  Attempt = {1, 2}
  PrOf <- MCPrOf
  HeadOf <- SameHeadOf
  RequestOf <- SameRequestOf
  EventOf <- ClosedEventOf
  FirstHead <- MCFirstHead
  Collaborators = {p1}
  Closable = {p1}
  MaxFaults = 1
  Orphans = {}
CHECK_DEADLOCK FALSE
SPECIFICATION FairSpec
PROPERTIES
  LeaseReturned
  TicketResolved

\* Three stories of two review runs.
CONSTANTS
  h1 = h1
  h2 = h2
  r1 = r1
  r2 = r2
  None = None
  PR <- Authors
  Head = {h1, h2}
  Request = {r1, r2}
  Owner <- Runs
  Attempt = {1, 2}
  PrOf <- MCPrOf
  HeadOf <- MCHeadOf
  RequestOf <- MCRequestOf
  EventOf <- MCEventOf
  FirstHead <- MCFirstHead
  Collaborators = {"insider"}
  Closable = {}
  MaxFaults = 2
  Orphans <- MCOrphans
CHECK_DEADLOCK FALSE
SPECIFICATION ReviewsSpec
INVARIANTS
  SystemTypeOK
  NoCallForgotten
  OneCallInFlight
  AtMostOneLateCall
  StoredCostIsTrue
  PaidHeadAdmitted
PROPERTIES
  DuplicateIsHarmless

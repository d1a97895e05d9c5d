\* The ledger under callers that may issue any query at any time.
CONSTANTS
  p1 = p1
  h1 = h1
  h2 = h2
  r1 = r1
  r2 = r2
  o1 = o1
  o2 = o2
  o3 = o3
  None = None
  PR = {p1}
  Head = {h1, h2}
  Request = {r1, r2}
  Owner = {o1, o2, o3}
  Attempt = {1, 2}
  PrOf <- MCPrOf
  HeadOf <- MCHeadOf
  RequestOf <- MCRequestOf
SPECIFICATION StoreSpec
INVARIANTS
  StoreTypeOK
  PendingHoldsLease
  OnePaidReview
  PaidByClaimant
PROPERTIES
  LedgerAdvances
  PaidLeaseSpec

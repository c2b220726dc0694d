SPECIFICATION Spec
CONSTANTS
  e1 = e1
  e2 = e2
  e3 = e3
  p1 = p1
  p2 = p2
  Documents = {d1}
  Entities = {e1, e2, e3}
  Properties = {p1, p2}
  Workers = {w1}
  None = None
  PropertyOf <- Mixed
  MaxRuns = 2
  MaxAttempts = 1
  MaxRequests = 1
  MaxCrashes = 0
INVARIANTS OneActivePerReport
PROPERTIES NothingDetached PublishedStays

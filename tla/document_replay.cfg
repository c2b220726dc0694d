SPECIFICATION Spec
CONSTANTS
  e1 = e1
  e2 = e2
  e3 = e3
  p1 = p1
  p2 = p2
  Documents = {d1}
  Entities = {e1}
  Properties = {p1}
  Workers = {w1}
  None = None
  PropertyOf <- OneProperty
  MaxRuns = 2
  MaxAttempts = 2
  MaxRequests = 2
  MaxCrashes = 1
PROPERTY ReplayIsSafe

SPECIFICATION Spec
CONSTANTS
  e1 = e1
  e2 = e2
  e3 = e3
  p1 = p1
  p2 = p2
  Documents = {d1, d2}
  Entities = {e1}
  Properties = {p1}
  Workers = {w1, w2}
  None = None
  PropertyOf <- OneProperty
  MaxRuns = 2
  MaxAttempts = 1
  MaxRequests = 1
  MaxCrashes = 0
SYMMETRY Symmetry
INVARIANTS TypeOK CompleteBatchIsDone ResultsMatchEvidence

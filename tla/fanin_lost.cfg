SPECIFICATION Spec
CONSTANTS
  u1 = u1
  u2 = u2
  u3 = u3
  r1 = r1
  r2 = r2
  p1 = p1
  p2 = p2
  Units = {u1, u2, u3}
  Reports = {r1, r2}
  Properties = {p1}
  Workers = {w1, w2}
  None = None
  ReportOf <- TheReports
  PropertyOf <- OneProperty
  Locating = {u1, u3}
  Attached = {}
  Price <- Nothing
  Limits = {3}
  MaxAttempts = 2
  MaxCrashes = 0
  MaxEstimates = 1
  RecomputeMayFail = FALSE
SYMMETRY Symmetry
INVARIANTS NothingLeftBehind

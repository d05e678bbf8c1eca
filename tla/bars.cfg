SPECIFICATION Spec
CONSTANTS
  Requests = {a, b}
  Ids = {i1, i2}
  exp1 = exp1
  exp2 = exp2
  k1 = k1
  Codes <- MCCodes
  Keys <- MCKeys
  BodyOf <- MCBodyOf
  None = None
SYMMETRY Symmetry
INVARIANT ReplayIsTrue
PROPERTIES RetryCreatesNothing ConflictsAreExplained ReturnNeedsOverlap

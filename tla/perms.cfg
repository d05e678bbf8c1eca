SPECIFICATION Spec
CONSTANTS
  Logins = {a, b}
  Checks = {c}
  DelFails = TRUE
  MaxVersion = 1
  None = None
SYMMETRY Symmetry
INVARIANTS CacheNoOlderThanQuiet AnswersNoOlderThanQuiet

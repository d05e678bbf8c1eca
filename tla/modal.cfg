SPECIFICATION Spec
CONSTANTS
  Tickets = {x, y}
  Actionable = {x}
  Loads = {l1, l2}
  Posts = {p1, p2}
  ExecIds = {e1, e2}
  None = None
  Done = Done
SYMMETRY Symmetry
INVARIANTS MixedOnlyByLateAnswer OneSubmissionPerOpening
PROPERTIES DuplicatesAreExplained

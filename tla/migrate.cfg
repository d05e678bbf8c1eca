SPECIFICATION MCSpec
CONSTANTS
  Runners = {a, b}
  users = users
  authFields = authFields
  sessions = sessions
  roles = roles
  Files <- MCFiles
  Id <- MCId
  Refs <- MCRefs
  Alters <- MCAlters
  None = None
  MaxLines = 4
SYMMETRY Symmetry
INVARIANTS StatusIsTrue StatementsAreWhole
PROPERTIES AppliesInOrder RollsBackTheLast

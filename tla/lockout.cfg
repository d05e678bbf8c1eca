SPECIFICATION Spec
CONSTANTS
  Logins = {a, b}
  MaxAttempts = 2
  LockDuration = 2
  MaxClock = 5
  MaxCount = 7
  MaxFaults = 2
  None = None
SYMMETRY Symmetry
INVARIANTS GuessesAreBounded EveryGuessCounts
CHECK_DEADLOCK FALSE

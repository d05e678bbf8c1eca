SPECIFICATION SummarySpec
CONSTANTS
  Issues = {i, j, k}
  Parent = i
  Subtasks <- SubtasksOfParent
  PageSize = 2
  MaxEdits = 2
INVARIANTS NobodyWritesAfterReturn UndisturbedSummaryIsExact PagesDriftOnlyByEdits EmptyPageErrsOnlyByFaults
PROPERTY EveryRequestEnds
CHECK_DEADLOCK FALSE

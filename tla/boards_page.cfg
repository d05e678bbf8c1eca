SPECIFICATION Spec
CONSTANTS
  Boards <- MCBoards
  Type <- MCType
  EndsIn <- MCEndsIn
  IssueCount <- MCIssueCount
  Queries <- MCQueries
  Matches <- MCMatches
  Sizes = {1, 3}
  PerPage = 2
  MaxOpenings = 2
  Nil = Nil
INVARIANTS ListShowsItsFilters EverythingCanBeReached PanelIsMixedOnlyByLateAnswer
PROPERTY PanelStopsWaiting

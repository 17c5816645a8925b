SPECIFICATION Spec
CONSTANTS
  Ids = {1, 2, 3, 4}
  Rows <- MCRows
  Terms <- MCTerms
  Sizes = {1, 2}
  MaxPage = 3
  MaxWrites = 2
  None = None
INVARIANTS TypeOK TotalFitsPage PagesAnnounced QuietWalkIsComplete NoRepeatWithoutEntry NoSkipWithoutLeave

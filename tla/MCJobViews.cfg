CONSTANTS
  Jobs = {j1, j2, j3, j4, j5}
  JobRetentionLimit = 3
  PageQueries = {0, 1, 2, 9}
  PerPageQueries = {0, 1, 2, 9}
  MaxPerPage = 3
  MaxChanges = 3
  Pages <- MCPages
  TableRowsMeant <- MCTableRows
  Damages <- MCDamages
  CellTexts <- MCCellTexts
SPECIFICATION ViewsSpec
INVARIANTS
  ListPagesCorrect
  PageShownAsMeant
  CutOffKeepsPrefix
  DamageContained
  CellTextFaithful
PROPERTIES
  WalkEnds
CHECK_DEADLOCK FALSE

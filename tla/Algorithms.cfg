CONSTANTS None = None  a = a  b = b
CONSTANTS Raw = {"5x5", "6x6"}  Covered = {"lay"}  Close = {{"pipelines", "pipelined"}}  Letters <- CorpusLetters
CONSTANTS Expected <- CardUnits  PowerCable = "p"  Version = 2  Distinctive = 2  Unreadable = {"broken"}
SPECIFICATION Spec
INVARIANTS RowsReconcile GroupsAreSafe SheetsAreRead PeriodsInsert
INVARIANTS PatternsStand ReviewsStand CardsStand

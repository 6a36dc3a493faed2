SPECIFICATION Spec
CONSTANTS
  Null = Null
  NoRow = NoRow
  NoAnswer = NoAnswer
  Table <- MCTable
  ColumnsOf <- MCColumnsOf
  Statements <- MCStatements
  Contents <- ContentsFor
INVARIANTS TypeOK SelectionUnchanged AnswerCorrect
CHECK_DEADLOCK FALSE

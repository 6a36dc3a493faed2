SPECIFICATION Spec
CONSTANTS
  Null = Null
  NoRow = NoRow
  NoAnswer = NoAnswer
  Table <- MCTable
  ColumnsOf <- MCColumnsOf
  Statements <- MCLimitBesideConjunct
  Contents <- ContentsFor
INVARIANTS AnswerCorrect
CHECK_DEADLOCK FALSE

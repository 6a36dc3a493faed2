SPECIFICATION Spec
CONSTANTS
  Null = Null
  Unread = Unread
  Matches <- MCMatches
  Found = {1, 2}
  Collate <- MCCollate
  Rows <- MCRows
  Statements <- MCStatements
INVARIANTS WhereKept OrderKept LimitKept
CHECK_DEADLOCK FALSE

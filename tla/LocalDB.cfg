\* Two attached schemas and the default one, each with a table of the same name.
CONSTANTS
  Schema = {"main", "github", "jira"}
  Main = "main"
  Name = {"issues"}
  Row <- Rows
  Width <- Widths
  Chunk <- Chunks
  ColCount = {2, 5}
  maxBindParams = 4
  MaxRows = 4
SPECIFICATION Spec
INVARIANTS IInv StatementsFit NothingLeft
PROPERTIES ImplementsStore CloseReturns
CHECK_DEADLOCK FALSE

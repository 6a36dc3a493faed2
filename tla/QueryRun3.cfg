\* Three sources over two schemas, two of which may be fetched at once.
CONSTANTS
  NumSources = 3
  Schemas <- TwoSchemas
  SchemaOf <- SharedSchema
  maxConcurrentFetches = 2
  MaxChunks = 1
SPECIFICATION Safety
INVARIANTS IInv DBSerialized InsertFindsTable ResultComplete RootCauseReported NothingLeftBehind
PROPERTIES FirstErrorWins ImplementsContract

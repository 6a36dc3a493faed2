CONSTANTS
  NumSources = 2
  Schemas <- TwoSchemas
  SchemaOf <- SharedSchema
  maxConcurrentFetches = 2
  MaxChunks = 1
SPECIFICATION Spec
PROPERTIES CancelReturns FailureReturns RunReturns

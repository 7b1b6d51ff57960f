CONSTANTS
  MaxTokens = 4
  MaxNew = 3
  MaxCalls = 2
  MaxFailures = 1
  MaxMerges = 3
  MaxTrainings = 2
  MaxCrashes = 1
  MaxBase = 3
  MaxCache = 2
  MaxStarts = 2
  MaxDocs = 2
  MaxImports = 1
  Retries = 2
  Cases = 2
  MaxAdded = 1
  MaxOutages = 1
  MigratedKeys = {"k", "l"}
  MigratedValues <- SomeValues
  ReadAs <- SomeReadAs
  Texts <- SomeTexts
  Queries = {"a", "b"}
  Alike <- SameQuery
  Similarity <- Occurrences
  ChunkSize = 2
  Overlap = 1
  Graphs <- TwoGraphs
  GenTokens = {0, 1, 2}
  GenBatches <- SomeBatches
  Configs <- SomeConfigs
  AlgTokens = {1, 3}
  Begins = {3}
  Letters <- SomeLetters
  KnownWords <- SomeWords
  Intervals = {1, 2}
  Prompts <- SomePrompts
SPECIFICATION Spec
INVARIANTS
  RulesRepair
  
  RowsAreTheirOwn
  
  EncodesAsItTrained
  WorkoutCleansUp
PROPERTIES
  
  NexusBuildsAndSettles
  
CHECK_DEADLOCK FALSE

CONSTANTS
  Ids = {a}
  Threads = {t1, t2}
  MaxStarts = 2
  MaxLines = 1
  LogLimit = 1
  MaxProcs = 3
  Runs = {r1}
  MaxChars = 2
  Vocabs = {7, 8}
  TokenizerVocab = 7
  MaxProgress = 2
  MaxTrainings = 2
  Names = {d1, d2}
  SerialRestarts = 2
  OtherRestarts = 1
  None = None
SPECIFICATION Spec
INVARIANTS
  ServicesLoseNone
  
  
  DatabasesAreKept
PROPERTIES
  TasksAreTracked
  
CHECK_DEADLOCK FALSE

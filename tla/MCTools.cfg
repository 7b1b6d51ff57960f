CONSTANTS
  ScriptLines = {"STEP", "END", "IF", "ELSE", "TRY", "CATCH", "WRITE", "DELIMITER", "CHOOSE", "OPTION", "RUN", "COMMENT", "BLANK", "END_ELSE", "TASK", "OTHER"}
  MaxLines = 6
  MaxNodes = 2
  MaxCommands = 2
  Paths = {"p"}
  WrittenTexts = {"c"}
  EditedFiles = {f1}
  Macros = {m1}
  MaxInputs = 4
  EditedTexts <- SomeTexts
  MaxBuffer = 2
  MaxMacro = 1
  MaxRecordings = 2
  MaxFrames = 3
  SearchedFiles = {f1, f2}
  MaxIndent = 2
  MaxBars = 6
  ChartBars <- SomeChartBars
  MaxDays = 4
  Height = 4
  VolumeHeight = 2
  Largest = 5
  None = None
SPECIFICATION Spec
INVARIANTS
  
  
  
  SignalsMirror
  ChartKeepsOrder
PROPERTIES
  
  MacrosAndTextStay
CHECK_DEADLOCK FALSE

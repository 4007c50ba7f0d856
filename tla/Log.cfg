SPECIFICATION FairSpec
CONSTANTS
  a = a
  b = b
  Callers <- TwoCallers
  Writer = Writer
  NoOne = NoOne
  Levels = {0, 3, 4, 5}
  LogLevel = 4
  MaxSize = 2
  MaxBackups = 1
  Rounds = 2
  MaxMessages = 3
  MaxFaults = 1
INVARIANTS
  LogTypeOK
  ErrorsWritten
  
  
  
PROPERTY
  WarningsWritten
CHECK_DEADLOCK FALSE

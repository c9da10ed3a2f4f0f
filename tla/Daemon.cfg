SPECIFICATION Spec
CONSTANTS
  NHosts = 2
  LineSize <- MCLineSize
  PipeCap = 2
  PipeLimit = 2
  FlushTimeout = 1
  MaxLines = 2
  MaxFails = 1
  Workers = {w1, w2}
  LoadOrder <- MCLoadOrder
  MaxSignals = 1
  MaxLives = 2
INVARIANTS TypeOK WorkersReady DatesWhole 
PROPERTIES ComesUp 
CHECK_DEADLOCK FALSE

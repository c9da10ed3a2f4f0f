SPECIFICATION Spec
CONSTANTS
  Fds = {1, 2, 3}
  BufCap = 2
  PipeCap = 1
  Outputs <- MCOutputs
  MaxSr = 2
INVARIANTS TypeOK NoDanglingRequest OwnOutput 
PROPERTIES RequestsEnd
CHECK_DEADLOCK FALSE

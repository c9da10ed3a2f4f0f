SPECIFICATION Spec
CONSTANTS
  NWorkers = 2
  Fds <- MCFds2
  Capacity = 1
  Timeout = 1
  KATimeout = 1
  MaxConns = 3
  ULLModulus = 16
INVARIANT NoFalseEvents

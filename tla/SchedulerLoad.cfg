SPECIFICATION Spec
CONSTANTS
  NWorkers = 1
  Fds <- MCFds2
  Capacity = 2
  Timeout = 1
  KATimeout = 1
  MaxConns = 2
  ULLModulus = 16
INVARIANT ActiveConnectionsIsOngoing

SPECIFICATION FairSpec
CONSTANTS
  NWorkers = 1
  Fds <- MCFds1
  Capacity = 1
  Timeout = 1
  KATimeout = 1
  MaxConns = 1
  ULLModulus = 16
PROPERTY WaitToReceiveEnds

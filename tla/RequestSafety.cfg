SPECIFICATION FairSpec
CONSTANTS
    Requests = 3
    Clients <- MCAllClients
    Kinds <- MCAllKinds
    Chunk = 4
    MaxRequestSizes = {12, 13}
    MaxKeepAlive = 1
    FileSize = 2
INVARIANTS TypeOK RequestEndsOnce FilesClosed  SessionInStep  EndIsReported
PROPERTIES  ResponseEnds
CHECK_DEADLOCK FALSE

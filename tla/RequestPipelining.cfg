SPECIFICATION Spec
CONSTANTS
    Requests = 3
    Clients = {"pipelining"}
    Kinds = {"get"}
    Chunk = 4
    MaxRequestSizes = {12, 13}
    MaxKeepAlive = 1
    FileSize = 2
INVARIANT AnsweredOnce
CHECK_DEADLOCK FALSE

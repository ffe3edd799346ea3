CONSTANTS
    MaxStreams = 2
    DuplexCap = 1
    QueueCap = 1
    WireCap = 2
    PingLimit = 2
    MaxId = 3
    MaxChunks = 2
    MaxPings = 2
SPECIFICATION Spec
CHECK_DEADLOCK FALSE
CONSTRAINT TwoStreamsFewChunks
INVARIANTS
    TypeOK
    NothingLost
    EndIsLast
    ServerNeverRefuses
    RelayNeverRefuses
    SlotsReturn

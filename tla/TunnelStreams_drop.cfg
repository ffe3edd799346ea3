CONSTANTS
    MaxStreams = 2
    DuplexCap = 1
    QueueCap = 1
    WireCap = 2
    PingLimit = 2
    MaxId = 2
    MaxChunks = 1
    MaxPings = 0
SPECIFICATION Spec
CHECK_DEADLOCK FALSE
INVARIANTS
    DropIsLocal

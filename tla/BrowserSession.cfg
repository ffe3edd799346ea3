CONSTANTS
    Pane <- OnePane
    RenderCap = 2
    MaxPending = 1
    MaxOutput = 2
    MaxRequests = 3
    MaxTurns = 1
    MaxWork = 4
SPECIFICATION FairSpec
CHECK_DEADLOCK FALSE
INVARIANTS
    TypeOK
    ExactPicture
    RoleAgrees
    NoneForgotten
PROPERTIES
    ConnectingEnds

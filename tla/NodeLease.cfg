CONSTANTS
    Node = {n1, n2}
    TTL = 3
    Margin = 1
    MaxSkew = 1
    SingleNode = TRUE
    MaxEpoch = 2
    MaxTime = 4
SPECIFICATION Spec
SYMMETRY Incarnations
CHECK_DEADLOCK FALSE
INVARIANTS
    LeaseCovered
    EpochCurrent
    ReadyIsServing
    SingleAuthority
PROPERTIES
    AuthorityNeverReturns

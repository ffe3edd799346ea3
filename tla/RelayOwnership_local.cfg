CONSTANTS
    Node = {n1}
    Conn = {c1, c2}
    Op = {o1}
    None = None
    MaxRev = 2
SPECIFICATION FairSpec
CHECK_DEADLOCK FALSE
INVARIANTS
    ExitIsOurs
    ReleaseFindsItsRow
    DoneLeavesNothing
PROPERTIES
    DeadRouteIsFreed

SPECIFICATION FairSpec
CONSTANTS
    Machine = {m1}
    Relay = {r1}
    Node = {n1, n2}
    MaxToken = 2
    MaxKey = 2
    MaxRevision = 2
    m1 = m1
    r1 = r1
    n1 = n1
    n2 = n2
INVARIANTS
    PendingIsClean
    VerifyingHasReason
    BoundIsCurrent
    BindingIsClaimable
PROPERTIES
    VerifyingEnds
CHECK_DEADLOCK FALSE

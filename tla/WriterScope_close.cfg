CONSTANTS
    Attachment = {a1, a2}
    None = None
    Capacity = 4
    MaxRoute = 1
    MaxScope = 1

SPECIFICATION FairSpec
CHECK_DEADLOCK FALSE

PROPERTY
    FailureClosesWorkspace

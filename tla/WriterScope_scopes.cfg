CONSTANTS
    Attachment = {a1, a2, a3}
    None = None
    Capacity = 2
    MaxRoute = 2
    MaxScope = 3

SPECIFICATION Spec
SYMMETRY Interchangeable
CHECK_DEADLOCK FALSE

INVARIANT
    OneMutator

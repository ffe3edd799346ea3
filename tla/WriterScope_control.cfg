CONSTANTS
    Attachment = {a1, a2, a3}
    None = None
    Capacity = 2
    MaxRoute = 2
    MaxScope = 2

SPECIFICATION Spec
SYMMETRY Interchangeable
CONSTRAINT FullOnFirstRoute
CHECK_DEADLOCK FALSE

INVARIANTS
    TypeOK
    ControlIsLive
    GoneIsNotWriter
    WritableIsFenced
    WriterCanWrite

PROPERTY
    DemotedFirst

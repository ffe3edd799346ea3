CONSTANTS
    Node = {n1, n2}
    Conn = {c1, c2}
    Op = {o1}
    None = None
    MaxRev = 2
SPECIFICATION Spec
SYMMETRY Interchangeable
CHECK_DEADLOCK FALSE
CONSTRAINT SomeNodeLives
INVARIANTS
    DispatchIsOwned
    OneDispatcher

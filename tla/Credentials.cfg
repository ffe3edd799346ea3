CONSTANTS
    Credential = {c1, c2, c3, c4}
    Machine = {m1, m2}
    Attempt = {a1, a2, a3}
    None = None
    MaxCredentials = 3
    MaxMachines = 2
    MaxRevision = 2
SPECIFICATION Spec
SYMMETRY Symmetry
INVARIANTS
    StartupAccepts
    ProofStands
    InUseIsActive

SPECIFICATION Spec
CONSTANTS
    a = a
    b = b
    e = e
    f = f
    Conns <- MCConns
    Endpoints <- MCEndpoints
    MaxCommands = 2
INVARIANTS
    TypeOK
    OnlyStaleWritersLose
    SecretsBeforeListing
    PairedAreServed
SYMMETRY MCSymmetry
CHECK_DEADLOCK FALSE

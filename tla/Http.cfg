SPECIFICATION Spec
CONSTANTS
    Conns = {c1, c2, c3, c4}
    Silent = {c1, c2}
    MaxFds = 2
INVARIANTS
    OnlySilentStay
PROPERTY
    RequestsAnswered

SPECIFICATION ServerSpec
CONSTANTS
    Rows = 1
    Cols = 3
    c1 = c1
    c2 = c2
    c3 = c3
    c4 = c4
    alice = alice
    bob = bob
    carol = carol
    Threads = {c1, c2, c3, c4}
    Users = {alice, bob, carol}
    UserOf <- Connections
    InitMap <- OneRow
INVARIANTS
    ExclusiveControl
    IdsReturned
PROPERTIES
    MainExits

SPECIFICATION Spec
CONSTANTS
    N = 4
    HASH_TABLE_SIZE = 2
    Options = {"none", "-n"}
    OddNames = {3}
    MaxChanges = 3
INVARIANTS
    PrintedOnce
    StablePrinted
    TreeComplete
PROPERTY
    Terminates

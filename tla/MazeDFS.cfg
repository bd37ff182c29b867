SPECIFICATION DfsSpec
CONSTANTS
    Rows = 3
    Cols = 3
    Chars = {0, 10, 11}
INVARIANTS
    AnswersConnected
PROPERTIES
    Terminates

CONSTANTS
    MaxLines = 4
    Pipe = 2
    Chunk = 2
    Cap = 3
    Forks = TRUE
SPECIFICATION Spec
INVARIANTS TypeOK VerdictSeesWholeLog LogIsPrefix
PROPERTIES Returns
CHECK_DEADLOCK FALSE

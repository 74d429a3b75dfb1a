CONSTANTS
    MaxLines = 2
    Pipe = 2
    Chunk = 2
    Cap = 3
    Forks = TRUE
SPECIFICATION Spec
PROPERTIES HardTimeout
CHECK_DEADLOCK FALSE

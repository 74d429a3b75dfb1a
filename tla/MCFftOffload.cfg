CONSTANTS
    Pieces = 3
    MaxAttempts = 2
    SequenceModulus = 3
SPECIFICATION Spec
INVARIANTS TypeOK BuffersNotShared
PROPERTIES PacketsFromAcceptedBlock OffloadEnds
CHECK_DEADLOCK FALSE

CONSTANTS
    Client = {c1, c2}
    NoClient = NoClient
    QueueLimit = 2
    Pieces = 2
    Buffer = 3
    SequenceModulus = 3
    Config = {radio1, radio2}
    Unset = unset
    EpochModulus = 2
    MaxStep = 1
SPECIFICATION Spec
INVARIANTS TypeOK
PROPERTIES StreamIsWellFormed DeadClientsAreDropped
CHECK_DEADLOCK FALSE

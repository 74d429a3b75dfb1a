CONSTANTS
    Value = {1, 2}
    Tuned = {1, 3}
    WidebandRate = 1
    WidebandWidth = 1
    MaxAttempts = 2
    EpochModulus = 4
SPECIFICATION Spec
INVARIANTS TypeOK StampCoversBlock
PROPERTIES DiscardsOnlyOnRetune ImplementsFrameSource SettlesOnConfiguration
CHECK_DEADLOCK FALSE

CONSTANTS
    SourceFile = {f}
    Piece = {1, 2}
    Version <- MCVersion
    NoFile = NoFile
    MaxCommits = 2
SPECIFICATION SrcSpec
INVARIANT UnbornOnlyBeforeFirstCommit
CHECK_DEADLOCK FALSE

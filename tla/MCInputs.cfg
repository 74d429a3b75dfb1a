CONSTANTS
    MaxWords = 9
    LastNul = 1
    Streams <- MCStreams
    Additions <- MCAdditions
    Replaced <- MCReplaced
    UnsafeNames <- MCUnsafeNames
    MaxEntries = 5
    MaxInode = 3
    Steps = 3
    SourceFile = {f}
    Piece = {1, 2}
    Version <- MCVersion
    NoFile = NoFile
    MaxCommits = 2
    None = None
    r1 = r1
    r2 = r2
    Runner <- MCRunner
    Asked = {"c2"}
    Contents <- MCContents
    Replacements <- MCReplacements
    MaxOffered = 2
SYMMETRY Symmetry
SPECIFICATION Spec
INVARIANTS
    FdtTypeOK AcceptsExactlyTrees ReadsWithinArtifact
    NewcTypeOK AuditsWhatIsUnpacked WrittenIsReadBack ReadsWhatTheKernelOpens
    SrcTypeOK DescribesWhatWasThere
    SmokeTypeOK BootsWhatItReports HoldsOnlyCheckedFiles BootsWholeSource
CHECK_DEADLOCK FALSE

CONSTANTS
    Fetcher = {f1, f2}
    Reader = {}
    Size = 2
    Files = 4
    Regimes = {"shared"}
SPECIFICATION Spec
INVARIANTS DownloadIsAtomic
CHECK_DEADLOCK FALSE

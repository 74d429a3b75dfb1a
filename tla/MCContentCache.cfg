CONSTANTS
    Fetcher = {f1, f2}
    Reader = {r1}
    Size = 2
    Files = 5
    Regimes = {"exclusive", "shared"}
SPECIFICATION Spec
INVARIANTS TypeOK NoLitter SettlesIntact
PROPERTIES ImplementsAtomicEntry UsesWhatWasVerified
CHECK_DEADLOCK FALSE

CONSTANTS
    Preparer = {p1, p2}
    Absent = Absent
    Torn = Torn
    Base <- MCBase
    Derived <- MCDerived
SPECIFICATION Spec
INVARIANTS TypeOK VouchesForOwnImages SettledManifestMatches

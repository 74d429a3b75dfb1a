CONSTANTS
    Place = {here, there}
    Schema = {v1, v2}
    Parts = 3
    Bin = 2
    None = None
SPECIFICATION Spec
INVARIANTS DocumentedInstallServes

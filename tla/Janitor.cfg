SPECIFICATION FairSpec
CONSTANTS
    Jobs = {j1, j2}
    Deps = {dep}
    Timeouts = TRUE
    Size = 4
    MaxBytes = 7
    None = None
INVARIANTS
    LastSweepReachesFloor
PROPERTIES
    ReclaimsOnlyResidue
    ResidueIsReclaimed
    CeilingIsRestored

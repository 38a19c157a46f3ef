SPECIFICATION Spec
CONSTANTS
    Versions = {v1, v2, v3}
    Keep = 1
    MaxRuns = 4
    MaxKills = 2
    MaxEdits = 1
    None = None
SYMMETRY VersionSymmetry
INVARIANTS
    RootIsWhole
    NothingPilesUp

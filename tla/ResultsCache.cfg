SPECIFICATION Spec
CONSTANTS
    Keys = {k1, k2, k3}
    Verdicts = {"pass", "fail"}
    MaxRuns = 3
    MaxTears = 2
    MaxFulls = 1
    None = None
    Junk = Junk
INVARIANTS
    DiskAgreesWithMemory
    SavedIsComplete
    LossBounded
PROPERTY DiskEntriesStay

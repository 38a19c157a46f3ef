SPECIFICATION FairSpec
CONSTANTS
    j1 = j1
    j2 = j2
    j3 = j3
    Array = Array
    ArrayBuffer = ArrayBuffer
    Fixtures = Fixtures
    Jobs = {j1, j2, j3}
    Precooked = {j3}
    Order <- TwoGroups
    Scope <- Substrings
    Verdicts = {"pass", "fail"}
    MaxStops = 2
    MaxEdits = 1
    None = None
INVARIANTS
    NoJobRunsTwice
    DoneGroupsAreComplete
    SnapshotAgreesWithCache
    CheckHoldsAfterUpdate
PROPERTY SweepCompletes

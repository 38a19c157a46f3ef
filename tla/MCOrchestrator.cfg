SPECIFICATION Spec
CONSTANTS
    j1 = j1
    j2 = j2
    j3 = j3
    k1 = k1
    Slots = {w1, w2}
    MaxJobs = 2
    Verdicts = {"pass", "fail"}
    TailKeys = {k1}
    TailOf <- SharedKeys
    Jobs = {j1, j2, j3}
    Big = {j1}
    None = None
    Garbled = Garbled
SYMMETRY SlotSymmetry
INVARIANTS
    TypeOK
    NoJobLostOrDuplicated
    RightVerdict
    RecycleBound
    InflightIsExact
    CleanReturn
    CachesMatchResults
PROPERTIES
    RunsAtMostOnce
    ImplementsBoard

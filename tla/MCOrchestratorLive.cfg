SPECIFICATION FairSpec
CONSTANTS
    j1 = j1
    j2 = j2
    j3 = j3
    k1 = k1
    Slots = {w1, w2}
    MaxJobs = 0
    Verdicts = {"pass"}
    TailKeys = {k1}
    TailOf <- TwoJobKeys
    Jobs = {j1, j2}
    Big = {}
    None = None
    Garbled = Garbled
PROPERTIES
    Terminates
    SendEnds

SPECIFICATION FairSpec
CONSTANTS
    j1 = j1
    j2 = j2
    j3 = j3
    Array = Array
    ArrayBuffer = ArrayBuffer
    Fixtures = Fixtures
    Jobs = {j2}
    Precooked = {}
    Order <- EmptyFirst
    Scope <- EmptyScope
    Verdicts = {"pass"}
    MaxStops = 0
    MaxEdits = 0
    None = None
PROPERTY EmptyGroupIsCheckpointed

SPECIFICATION Spec
CONSTANTS
    Programs <- Universe
    MaxJobs = 2
    MaxRuns = 2
    MaxKills = 1
    MaxFaults = 1
    None = None
INVARIANTS
    UndisturbedVerdictIsTrue
    NoFalsePass
    StubsBounded

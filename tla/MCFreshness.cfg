SPECIFICATION Spec
CONSTANTS
    j1 = j1
    j2 = j2
    t1 = t1
    p1 = p1
    p2 = p2
    Jobs = {j1, j2}
    Tests = {t1}
    File <- TwoModes
    Ports = {p1, p2}
    Includes <- OneIncluded
    Kinds = {"test", "fixture", "port", "compiler", "runtime", "judge"}
    MaxEdits = 2
    None = None
INVARIANTS
    CoveredInputsAreFresh
    KeptRunnerIsTheTree

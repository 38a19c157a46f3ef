SPECIFICATION GraphFairSpec
CONSTANTS
    Place <- MCPlace
    Entry = "t"
    Corpora <- MCCorpora
INVARIANTS
    OneFilePerName
    ImportsResolveAsInCorpus
PROPERTY WalkEnds

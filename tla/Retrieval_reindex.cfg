SPECIFICATION Spec
CONSTANTS
    i1 = i1
    i2 = i2
    i3 = i3
    a = a
    b = b
    Nobody = Nobody
    Titles = {a, b}
    Ingests = {i1, i2, i3}
    Files <- Editions
    HybridK = 3
    RerankK = 2
    FinalK = 2
    RrfK = 60
    One = 238266
    Faults = {"embed", "dense", "sparse", "rollback", "rerank", "database"}
SYMMETRY Symmetry
CHECK_DEADLOCK FALSE
INVARIANTS CorpusWhole LegFailureAbsorbed DistinctTitles FullWhenQuiet
PROPERTY NeverEmptied

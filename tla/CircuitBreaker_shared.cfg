SPECIFICATION FairSpec
CONSTANTS
    c1 = c1
    c2 = c2
    c3 = c3
    Callers = {c1, c2, c3}
    FailMax = 2
    ResetTimeout = 2
    FailureBound = 4
INVARIANTS TypeOK StreakDecides
PROPERTY OpenNotForever

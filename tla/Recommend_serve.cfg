SPECIFICATION Spec
CONSTANTS
    r1 = r1
    r2 = r2
    r3 = r3
    known = known
    absent = absent
    Requests = {r1, r2}
    Queries = {known, absent}
    Absent = {absent}
    Limit = 1
    EnvEnabled = TRUE
    Faults = {"redis", "evict"}
SYMMETRY Symmetry
INVARIANTS TypeOK OutageNotPinned OffStopsSpending QuotaHolds AbsentRefused

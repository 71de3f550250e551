SPECIFICATION Spec
CONSTANTS
    Clients = {"inspector", "user"}
    Users = {"user"}
    Slow = {}
    Inspector = "inspector"
    Queries = {"vague", "clear"}
    ClearClass = {"clear"}
    Lists = {one, other}
    ExportEvery = 1
    BatchTimeout = 0
    ScrapeEvery = 1
    Window = 2
    SuccessRate = 95
    MaxRequests = 4
    Together <- MCTogether
    WarmUp = "vague"
    Probes <- MCProbes
    Sections <- MCSections
    ScrapeWait = 3
    TopShare = 4
SYMMETRY Symmetry
INVARIANTS AlarmIsRecent GreenMeansServed SmoothIsGreen CountedOnce CanaryMeasured
CHECK_DEADLOCK FALSE

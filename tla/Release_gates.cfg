SPECIFICATION Spec
CONSTANTS
    tidy = tidy
    tune = tune
    strip = strip
    vendor = vendor
    Changes = {tidy, tune, vendor, strip}
    Watched = {tune, strip}
    Titles = {"a", "b", "x"}
    Golden <- MCGolden
    Unit = 600
    Discount <- MCDiscount
    DenseRanking <- MCDense
    HybridRanking <- MCHybrid
    RerankedRanking <- MCReranked
    Threshold = 10
    Floor = 6
    MinLift = 6
    Packages = {"pylib", "gpl"}
    Python = {"pylib", "gpl"}
    Brings <- MCBrings
    LicenseOf <- MCLicense
    Label <- MCLabel
    Leaks = {vendor}
    Cleaned = {vendor}
    Commits <- MCCommits
    HistoryWindow = 3
    MaxOpen = 2
    Promoters = {tidy}
    EngineFaults <- MCFaults
CHECK_DEADLOCK FALSE
INVARIANTS GreenMainHolds DeadRerankerCaught 
PROPERTY VettedDependencies

SPECIFICATION BackfillSpec
CONSTANTS
    MaxRows = 3
    Ticks = 4
    TicksPerDay = 2
    RowKinds <- MCRowKinds
    Limit = 2
    BillsFrom = 4
    ArchiveFrom = 3
    Quarters <- MCQuarters
    TradesFrom = 2
    FlowsFrom = 2
    PageCaps = {1, 3}
    RecentFrom = 3
    CorePairs = {"core"}
    TimeoutLimit = 2
    RateLimit = 3
    MaxFaults = 2
    StartDays = {0, 1}
    Drift = 1
    Threshold = 1
    Fee = 1
INVARIANTS
    OnlyKnownRowsAreLost
    CutLedgerKeepsCurve
PROPERTIES
    BackfillEnds
CHECK_DEADLOCK FALSE

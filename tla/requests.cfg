SPECIFICATION RequestSpec
CONSTANTS
    Callers = {c1, c2}
    MaxDay = 2
    InitialEquity = 10
    RecoverySeed = 4
    MinJump = 1
    PnlAmounts <- MCPnl
    FlowAmounts <- MCFlows
    MaxEvents = 2
    MaxWrites = 2
    MaxInvoices = 2
    Symbols = {s1, s2}
    Closers = {c1, c2}
    MaxSize = 2
    MaxTrades = 1
    MaxFaults = 1
SYMMETRY MCSymmetry
INVARIANTS
    TypeOK
    ReadsAdvance
    CoherentReplyIsGain
    RecoveryTracksGains
    GainsBilledOnce
    CloseTypeOK
    OpenIsReported
PROPERTIES
    ClosingOnlyReduces
    PreviewsChangeNothing

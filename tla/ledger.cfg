SPECIFICATION ReaderSpec
CONSTANTS
    MaxRun = 2
    DatedRuns = {2}
    AsOfs = {1, 2}
    Endpoints = {"positions", "net_views", "instructions", "trades", "transfers", "backtest"}
    Callers = {c1, c2}
    MaxFails = 1
    MaxWrites = 4
    ClientList <- DigestClients
    MaxRuns = 2
    MaxTapeRows = 2
    MaxExecutions = 2
SYMMETRY CallerSymmetry
INVARIANTS TypeOK OnlyRunsWithTape NeverGoesBack RowsNeverBehind CalmReplyIsCoherent ZeroExitMeansDelivered

SPECIFICATION Spec
CONSTANTS
    MaxRun = 2
    DatedRuns = {2}
    AsOfs = {1, 2}
    Endpoints = {"positions", "net_views", "instructions", "trades", "transfers", "backtest"}
    Callers = {c1, c2}
    MaxFails = 0
    MaxWrites = 4
INVARIANTS OneRunPerReply

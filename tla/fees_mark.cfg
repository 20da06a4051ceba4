SPECIFICATION Spec
CONSTANTS
    Callers = {c1}
    MaxDay = 2
    InitialEquity = 10
    RecoverySeed = 4
    MinJump = 1
    PnlAmounts <- MCPnl
    FlowAmounts <- MCFlows
    MaxEvents = 2
    MaxWrites = 2
    MaxInvoices = 1
INVARIANT DepositsAreSinceMark

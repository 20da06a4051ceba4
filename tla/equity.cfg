CONSTANTS
    MaxDay = 3
    MaxEvents = 2
    Opening = 10
    PnlSteps <- MCPnlSteps
    FlowSteps <- MCFlowSteps
    Marks = {4, 6}
    Threshold = 1
SPECIFICATION FairSpec
INVARIANTS TypeOK CurveIsDaily CleanRunIsExact
PROPERTIES ImplementsDailySeries CurveCatchesUp

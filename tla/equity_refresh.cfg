CONSTANTS
    MaxDay = 2
    MaxEvents = 2
    Opening = 10
    PnlSteps = {}
    FlowSteps <- MCFlowSteps
    Marks = {0}
    Threshold = 1
SPECIFICATION Spec
PROPERTIES DetectedTransferKept

SPECIFICATION FairSpec
CONSTANTS
    MaxTick = 3
    MaxFaults = 2
    OrderTicks <- MCOrderTicks
    TicksPerDay = 2
    Windows <- MCWindows
    Deployments = {"cloud_run"}
PROPERTIES FinalStatusRecorded

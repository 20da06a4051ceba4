SPECIFICATION Spec
CONSTANTS
    MaxTick = 3
    MaxFaults = 2
    OrderTicks <- MCOrderTicks
    TicksPerDay = 2
    Windows <- MCWindows
    Deployments = {"host"}
PROPERTIES StorageOnlyGrows

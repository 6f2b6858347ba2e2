SPECIFICATION MCSpec
CONSTANTS
    d1 = d1
    uah = uah
    t1 = t1
    None = None
    Doors = {d1}
    Actors = {}
    DeviceOf <- MCDeviceOf
    ConfigIndex <- MCConfigIndex
    Grace <- MCGrace
    HeldOpen <- MCHeldOpen
    LogWindow = 1
    AgeCap = 2
    TaskIds = {t1}
    Lookback = 2
    Slack = 1
    MaxDelay = 1
    FeedCap = 2
    MaxChanges = 3
    MaxTroubles = 2
INVARIANTS
    SystemTypeOK
    ReportedIsReal
PROPERTIES
    SilenceIsJustified
    ReportsAreJustified
    LeftOpenIsReported
CHECK_DEADLOCK FALSE

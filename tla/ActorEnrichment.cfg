SPECIFICATION EnrichmentSpec
CONSTANTS
    d1 = d1
    d2 = d2
    a1 = a1
    a2 = a2
    hub = hub
    t1 = t1
    None = None
    Doors = {d1, d2}
    Actors = {a1, a2}
    TaskIds = {t1}
    Grace <- MCThreshold
    HeldOpen <- MCThreshold
    ConfigIndex <- MCConfigIndex
    DeviceOf <- SharedDevice
    LogWindow = 1
    LogDelay = 2
    AgeCap = 2
INVARIANTS
    EnrichmentTypeOK
    NamesAreRight
CHECK_DEADLOCK FALSE

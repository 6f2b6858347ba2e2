SPECIFICATION WatchdogSpec
CONSTANTS
    d1 = d1
    d2 = d2
    a1 = a1
    a2 = a2
    hub = hub
    None = None
    Doors = {d1, d2}
    Actors = {a1}
    TaskIds = {t1, t2}
    Grace <- TwoDoorGrace
    HeldOpen <- TwoDoorHeldOpen
    ConfigIndex <- MCConfigIndex
    DeviceOf <- SharedDevice
    LogWindow = 0
    AgeCap = 1
INVARIANTS
    IInv

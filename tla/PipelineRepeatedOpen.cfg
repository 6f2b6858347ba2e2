SPECIFICATION FairSpec
CONSTANTS
    d1 = d1
    d2 = d2
    a1 = a1
    a2 = a2
    hub = hub
    None = None
    Doors = {d1}
    Actors = {}
    TaskIds = {t1, t2}
    Grace <- OneDoorGrace
    HeldOpen <- OneDoorHeldOpen
    ConfigIndex <- MCConfigIndex
    DeviceOf <- SharedDevice
    LogWindow = 2
    AgeCap = 3
PROPERTIES
    DoorLeftOpenIsReported

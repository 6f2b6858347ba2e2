SPECIFICATION Spec
CONSTANTS
    d1 = d1
    d2 = d2
    n1 = n1
    n2 = n2
    None = None
    Doors = {d1}
    Uuids = {1, 2, 3, 4, 5}
    Names = {n1, n2}
    UnifiName <- MCUnifiName
    ConfigIndex <- MCConfigIndex
    Placeholder = 1
    Graces <- MCGraces
    MaxEdits = 2
PROPERTIES
    DoorListIsAccepted
CHECK_DEADLOCK FALSE

\* One player, two vehicles, and nobody at fault.
SPECIFICATION Spec
CONSTANTS
    Players = {p1}
    Vehicles = {v1, v2}
    LastSlot = 3
    Faults = {}
    NoVehicle = NoVehicle
    Freed = Freed
    Leave = Leave
INVARIANT DriverVehicleLive
CHECK_DEADLOCK FALSE

\* Two players compete for two ped slots; the server may announce a player twice.
SPECIFICATION Spec
CONSTANTS
    Players = {p1, p2}
    Vehicles = {v1, v2}
    LastSlot = 3
    Faults = {"rejoin"}
    NoVehicle = NoVehicle
    Freed = Freed
    Leave = Leave
INVARIANTS SlotsHeld SlotsApart SeatedInPool DriversOwnVehicle
CHECK_DEADLOCK FALSE

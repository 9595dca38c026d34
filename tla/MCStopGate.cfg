\* Six upstream machines, four transitions of fuel, two foreign settings entries.
SPECIFICATION GateSpec
CONSTANTS
    Machines <- MCMachines
    Fuel = 4
    Others = {o1, o2}
INVARIANTS
    OthersKept
PROPERTIES
    GateStands
    SessionsEnd

\* With netsimd running throughout, "netsim devices" prints.
SPECIFICATION Spec
CONSTANTS
    Serials <- MCSerials
    Commands <- MCCommands
    Counts = {100}
    MaxChanges = 2
INVARIANT DevicesShown

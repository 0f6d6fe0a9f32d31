SPECIFICATION Spec
CONSTANTS
    Serials <- MCSerials
    Commands <- MCCommands
    Counts = {100}
    MaxChanges = 2
INVARIANTS
    PrintedIsServed
PROPERTIES
    HandledAsMeant

CONSTANTS
    Calls = {c1, c2}
    MaxWrites = 2
    MaxEpochs = 2
    UNRESPONSIVE_AFTER = 5
    Declared = {"ssh", "vnc"}
SPECIFICATION WaitsSpec
INVARIANTS
    WaitsAreAnswered
PROPERTIES
    DrainIsNotHeld
    GuardIsSound
CHECK_DEADLOCK FALSE

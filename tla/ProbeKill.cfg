CONSTANTS
    ExecCalls = {c1, c2}
    MaxOutput = 1
    MaxBoxIds = 2
    CaChoices <- TheCa
SPECIFICATION ExecSpec
INVARIANTS ProbeIsKilled
CHECK_DEADLOCK FALSE

\* One slot for two keys, so that keys wait; a channel of one message, so
\* that hints are dropped and callers block.
CONSTANTS
    Keys = {1, 2}
    Requests = {r1, r2}
    NoRequest = NoRequest
    NoKey = NoKey
    QueueCapacity = 1
    MaxConcurrent = 1
    MaxVersion = 2
    MaxRestarts = 1
SPECIFICATION Spec
SYMMETRY MCSymmetry
INVARIANTS
    TypeOK
    WaiterSeesItsWrite
    WaiterIsHeldOnce
    SlotsAreUsedUp

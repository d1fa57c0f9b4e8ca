\* As many slots as keys: the case in which no key can be starved.
CONSTANTS
    Keys = {1, 2}
    Requests = {r1}
    NoRequest = NoRequest
    NoKey = NoKey
    QueueCapacity = 1
    MaxConcurrent = 2
    MaxVersion = 1
    MaxRestarts = 1
SPECIFICATION FairSpec
PROPERTY ControllerIsLive

CONSTANTS
    MaxIds = 2
    MaxCpu = 2
    MaxDisk = 2
    Environments = {e1, e2}
    Images = {img1}
    CacheUsers = {b1, b2}
    Retention = 2
    MaxTime = 3
    Manifests <- TheManifests
    LoginHosts = {}
    HostLogins = {"l1"}
    Operations <- TheOperations
    Flows = {1}
    PlatformHost <- Host
    PlatformPort = 80
    MaxPolicies = 2
    REPEAT_EVERY = 2
    MAX_KEYS = 1
    MAX_LINES = 2
    SUMMARY_EVERY = 4
    MaxDenials = 4
    Incarnations = {1, 2}
    NameOf <- TheNames
    MaxKeys = 2
    MaxApplies = 2
    MaxRelease = 2
    ExecCalls = {call1, call2}
    MaxOutput = 1
    MaxBoxIds = 1
    CaChoices <- TheCa
    Conns = {conn1, conn2}
    Talkers = {conn1}
    MaxChunks = 1
    MaxBoots = 2
    Placers = {p1}
    FileContents = {x, y}
    MaxInodes = 2
    MaxReads = 1
    Installs = {install1, install2}
    AtOnce = 1
    SkillSources = {"v1"}
    MaxTouches = 1
    PlacedHarnesses = {"codex", "pi"}
    MaxChanges = 1
    MaxSandboxes = 2
    MaxVmBoots = 2
    MaxDaemons = 2
    MaxClock = 3
    MaxEvents = 1
SPECIFICATION SandboxSpec
VIEW InFocus
SYMMETRY Symmetry
INVARIANTS
    SandboxIsItsRecord
    ImagesAreKept
    NetworkIsAsPrepared
    AccessIsAsGranted
    
    
    
    PlacedIsRecorded
    SetupIsInOrder
PROPERTIES SandboxSteps
CHECK_DEADLOCK FALSE

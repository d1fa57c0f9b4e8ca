CONSTANTS
    c1 = c1
    c2 = c2
    x1 = x1
    w1 = w1
    w2 = w2
    slack1 = slack1
    github1 = github1
    pull1 = pull1
    Updaters = {u1, u2}
    MaxVersion = 3
    Live = {x}
    MaxDeaths = 1
    StoreAgents = {"a1", "a2"}
    ManifestSets <- TheSecrets
    FirstFiles <- TheFiles
    BackupTimes = {1, 2, 3, 4}
    MaxWrites = 2
    Clients = {client1, client2}
    AgentNames = {1, 2}
    Asks <- TheAsks
    MaxIncarnations = 1
    MaxGeneration = 2
    Directories <- TheDirectories
    Leaves = {"agent.yaml", "agent.a.yaml", "agent.b.yaml", "agent.c.yaml"}
    Conventional <- Conventions
    MaxVariantChain = 3
    Adapters = {"claude", "codex", "pi"}
    MaxEntries = 5
    Senders = {s1, s2}
    Waiters = {s1}
    MaxLaunches = 2
    MaxReports = 2
    Attempts = 2
    CodexLogins = {x1}
    ClaudeLogins = {c1, c2}
    Preference <- TheOrder
    LoginWorkers = {w1, w2}
    LoginAgents = {a1, a2}
    LoginSets <- TheSets
    MaxGrants = 1
    MaxTokens = 1
    SlackOrders = {slack1}
    GithubOrders = {github1}
    Arrivals <- TheArrivals
    QueueAgents <- TheAgents
    MaxHops = 1
    MaxEnds = 1
    WritesFail = TRUE
    MaxQueued = 1
    PullRequests = {pull1}
    Fickle = {pull1}
    RepoOf <- TheRepos
    OwnerRules <- TheRules
    MaxStops = 1
    MaxMessages = 2
SPECIFICATION HostSpec
VIEW InFocus
SYMMETRY ClientSymmetry
INVARIANTS
    
    StoreIsConsistent
    StoredIsAllowed
    ManifestsMeanOneThing
    TranscriptsAgree
    PromptsArriveOnce
    
    QueuedIsAnsweredOnce
    ReviewersHearOnce
PROPERTIES HostSteps
CHECK_DEADLOCK FALSE

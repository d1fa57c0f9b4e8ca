CONSTANTS
    TreeAgents = {1, 2}
    TreeSessions <- TheSessions
    TreeFilters <- TheFilters
    TreeForms = {"delete session"}
    AgentStates = {"absent", "running", "stopped"}
    FwdAgents = {a1}
    Viewers = {web}
    MaxBoxes = 2
    MaxTasks = 2
    MaxInbox = 2
    PanelSessions = {"s1", "s2"}
    MaxTurns = 2
    MaxEdits = 2
    OutputLines = 1
    FinishedSteps = 1
    MaxPasses = 2
    MaxSteps = 2
    MaxPhases = 2
    MaxLines = 2
    MaxHappens = 3
    Terminals = {t1, t2}
    CmdAgents = {"a", "b"}
    CommandLines <- TheLines
    Associations <- TheAssociations
    DesktopImages = {"a"}
    MaxMoves = 1
SPECIFICATION ClientsSpec
VIEW InFocus
SYMMETRY TerminalSymmetry
INVARIANTS
    KeysMeanWhatIsSeen
    ForwardsAreSound
    PanelIsCurrent
    
    CommandsTellTheTruth
 
CHECK_DEADLOCK FALSE

\* Four generations: create, stop, start, stop again, with two faults.
CONSTANTS
    MaxGeneration = 4
    MaxFaults = 2
SPECIFICATION FairSpec
INVARIANTS AgentIsSafe
PROPERTIES AgentSettles

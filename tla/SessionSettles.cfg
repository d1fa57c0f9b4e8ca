CONSTANTS
    MaxActivations = 0
    MaxSandboxes = 1
    MaxFaults = 0
SPECIFICATION FairSpec
PROPERTIES SessionSettles

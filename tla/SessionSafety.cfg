CONSTANTS
    MaxActivations = 1
    MaxSandboxes = 2
    MaxFaults = 1
SPECIFICATION Spec
INVARIANTS SessionIsSafe

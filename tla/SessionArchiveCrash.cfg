CONSTANTS
    MaxActivations = 1
    MaxSandboxes = 1
    MaxFaults = 1
SPECIFICATION Spec
INVARIANTS
    ArchivedHarnessIsStopped

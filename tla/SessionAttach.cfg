\* No crashes and no failed store commands, but calls that fail at any time.
CONSTANTS
    MaxActivations = 1
    MaxSandboxes = 1
    MaxFaults = 0
SPECIFICATION FairSpec
INVARIANTS ArchivedHarnessIsStopped
PROPERTIES AttachSettles

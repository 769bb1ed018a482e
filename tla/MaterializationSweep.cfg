SPECIFICATION Spec
CONSTANTS
    Inodes = {1, 2, 3, 4}
    MaxAttempts = 2
    Faults <- SweepFault
    MaxFaults = 1
INVARIANTS
    StagedHasBytes

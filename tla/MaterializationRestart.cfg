SPECIFICATION Spec
CONSTANTS
    Inodes = {1, 2, 3, 4}
    MaxAttempts = 2
    Faults <- RestartFault
    MaxFaults = 1
INVARIANTS
    DurableBytes

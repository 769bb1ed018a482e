SPECIFICATION FairSpec
CONSTANTS
    j1 = j1
    j2 = j2
    NativeWorkers = 2
    PerOcrWorker = 1
    OcrWorkers = 2
    Settings <- LaneSettings
    Jobs = {j1, j2}
    MaxChanges = 1
    MaxStops = 1
INVARIANTS
    TypeOK
    SlotsBounded
    TasksHeld
PROPERTIES
    OcrServed
    CloseCompletes

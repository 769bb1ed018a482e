SPECIFICATION Spec
CONSTANTS
    Folders = {"d"}
    Paths = {"a", "b"}
    Parent <- Branch
    Files = {f}
    f = f
    MaxContents = 2
    MaxChanges = 2
    QueueSize = 1
    MaxDirty = 1
    MaxAttempts = 2
    Incidents = {"fault", "control", "restart"}
    MaxIncidents = 1
INVARIANTS
    TypeOK
    QuietMeansSynced
    AcknowledgedMeansSeen
PROPERTIES
    SteadyIsNotRetired
\* A root that is disabled or paused is at rest.
CHECK_DEADLOCK FALSE

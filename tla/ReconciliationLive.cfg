SPECIFICATION FairSpec
CONSTANTS
    Folders = {"d"}
    Paths = {"b"}
    Parent <- Stem
    Files = {f}
    f = f
    MaxContents = 2
    MaxChanges = 2
    QueueSize = 1
    MaxDirty = 1
    MaxAttempts = 2
    Incidents = {"fault", "control", "restart"}
    MaxIncidents = 1
PROPERTIES
    FollowsDisk
\* A root that is disabled or paused is at rest.
CHECK_DEADLOCK FALSE

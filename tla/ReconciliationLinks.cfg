SPECIFICATION Spec
CONSTANTS
    Folders = {}
    Paths = {"a", "b"}
    Parent <- Flat
    Files = {f, g}
    f = f
    g = g
    MaxContents = 1
    MaxChanges = 1
    QueueSize = 1
    MaxDirty = 1
    MaxAttempts = 1
    Incidents = {}
    MaxIncidents = 0
INVARIANTS
    MissingMeansGone

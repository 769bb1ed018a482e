SPECIFICATION FairSpec
CONSTANTS
    r1 = r1
    s1 = s1
    Files = {}
    LinkedRoots = {r1}
    ManagedRoots = {}
    ContentHolders = {}
    ScanHolders = {s1}
    Licences = {"full", "expired"}
    MaxJobs = 3
    MaxAttempts = 2
    MaxRestarts = 1
    MaxLostFinishes = 1
INVARIANTS
    ExclusiveTargets
    RunningIsHeld
PROPERTIES
    ImplementsRequests
    EveryJobEnds
\* A queue whose requests have all ended is at rest.
CHECK_DEADLOCK FALSE

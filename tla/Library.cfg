SPECIFICATION FairSpec
CONSTANTS
    Libs = {"l1", "l2"}
    Dirs <- Directories
    Files = {"f"}
    PathOf <- FilePaths
    MaxPlans = 2
    Views = {"v"}
    ViewedDir <- ViewPaths
    Uploads = {"k"}
    Keys = {"k"}
    Home = "l1"
    Slots = {1}
    Contents = {1, 2}
    MaxContents = 2
    MaxAttempts = 2
    Starts <- AllStarts
    MaxCommands = 3
    MaxIncidents = 1
INVARIANTS
    TypeOK
    RootsAreSound
    IndexIsSound
    UploadsHold
PROPERTIES
    OnlyAsAsked
    EverythingSettles
\* Users may stop asking and the files may stay as they are.
CHECK_DEADLOCK FALSE

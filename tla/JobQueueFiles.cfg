SPECIFICATION Spec
CONSTANTS
    f1 = f1
    w1 = w1
    w2 = w2
    Files = {f1}
    LinkedRoots = {}
    ManagedRoots = {}
    ContentHolders = {w1, w2}
    ScanHolders = {}
    Licences = {"full", "no_ocr"}
    MaxJobs = 3
    MaxAttempts = 2
    MaxRestarts = 1
    MaxLostFinishes = 0
SYMMETRY Symmetry
INVARIANTS
    TypeOK
    WaitingHasBudget
    HeldOnce
    AttemptsAreTrue
    LinearChains
PROPERTIES
    TerminalIsFinal
\* A queue whose requests have all ended is at rest.
CHECK_DEADLOCK FALSE

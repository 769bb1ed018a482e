SPECIFICATION FairSpec
CONSTANTS
    Inodes = {1, 2, 3, 4}
    MaxAttempts = 2
    Faults <- StoreFaults
    MaxFaults = 3
INVARIANTS
    TypeOK
    RowsAgree
    BytesSurvive
PROPERTIES
    NeverReplaced
    CommitIsAuthorised
    ImplementsPublication
    ApprovalSettles

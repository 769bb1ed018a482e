SPECIFICATION FairSpec
CONSTANTS
    Installations <- TwoInstallations
    Activations <- TwoSeats
    Requests <- TwoRequests
    MaxTime = 1
    Incidents = {"clock", "identity", "revise", "offline"}
    MaxIncidents = 2
INVARIANTS
    TypeOK
    CurrentIsAccepted
    SeatIsReachable
PROPERTIES
    ClockNeverGoesBack
    RightsDoNotReturn
    FloorsHold
    RefreshSettles
\* The identifiers of requests are bounded, and an installation whose recovery
\* ran out of identities has nothing left to do.
CHECK_DEADLOCK FALSE

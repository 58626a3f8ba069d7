SPECIFICATION Spec
CONSTANTS
    Devices = {d1}
    Drains = {w1, w2}
    None = None
    Events = {1, 2, 3}
    Dismissals = {2}
    ClaimAttempts = 2
    MaxRetries = 1
    MaxFaults = 1
SYMMETRY DrainSymmetry
\* The host may have nothing more to notify.
CHECK_DEADLOCK FALSE
INVARIANTS
    TypeOK
    OneSenderPerDevice
    DismissedStaysDismissed
    SettledIsNotSentAgain
PROPERTIES
    NothingLost

SPECIFICATION FairSpec
CONSTANTS
    Devices = {d1}
    Drains = {w1, w2}
    None = None
    Events = {1, 2}
    Dismissals = {2}
    ClaimAttempts = 2
    MaxRetries = 1
    MaxFaults = 1
\* The host may have nothing more to notify.
CHECK_DEADLOCK FALSE
PROPERTIES
    LeaseEndsWithItsDrain
    EveryDeliverySettles

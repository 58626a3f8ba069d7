SPECIFICATION FairSpec
CONSTANTS
    a = a
    b = b
    NoPty = NoPty
    Pty = {a, b}
    MaxMessages = 2
    MaxEvents = 3
INVARIANTS
    TypeOK
    DeliveredWasTyped
PROPERTIES
    PointedOnceByOwner
    MailIsAnnounced
\* No mail, or mail nobody reads: the system rests.
CHECK_DEADLOCK FALSE

SPECIFICATION Spec
CONSTANTS
    a = a
    b = b
    NoPty = NoPty
    Pty = {a, b}
    MaxMessages = 1
    MaxEvents = 2
PROPERTIES
    PointedOnce
\* No mail, or mail nobody reads: the system rests.
CHECK_DEADLOCK FALSE

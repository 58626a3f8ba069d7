SPECIFICATION Spec
CONSTANTS
    d1 = d1
    d2 = d2
    NoDispatch = NoDispatch
    Dispatches = {d1, d2}
    First = d1
    Kinds = {"pty"}
    MaxFaults = 0
INVARIANT
    ClosedOutputIsKept
CHECK_DEADLOCK FALSE

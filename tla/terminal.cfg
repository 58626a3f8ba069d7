SPECIFICATION FairSpec
CONSTANTS
    d1 = d1
    d2 = d2
    NoDispatch = NoDispatch
    Dispatches = {d1, d2}
    First = d1
    Kinds = {"pty", "chat"}
    MaxFaults = 2
INVARIANTS
    TypeOK
    ReleaseFollowsSettlement
    OutputSurvivesClose
PROPERTIES
    CloseIsAdmitted
    CloseHitsItsOwn
    ReleasesEnd
\* A released terminal, and workers that ended: the system rests.
CHECK_DEADLOCK FALSE

SPECIFICATION Spec
CONSTANTS
    build = build
    ship = ship
    term1 = term1
    term2 = term2
    NoTask = NoTask
    NoTerminal = NoTerminal
    Task = {build}
    Deps <- NoDeps
    Terminal = {term1}
    MaxDispatches = 1
    MaxGates = 0
    CircuitBreakFailures = 2
    UpdateStatuses = {"ready"}
INVARIANT OnlyAStopMutesReports

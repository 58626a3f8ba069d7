SPECIFICATION FairSpec
CONSTANTS
    build = build
    ship = ship
    term1 = term1
    term2 = term2
    NoTask = NoTask
    NoTerminal = NoTerminal
    Task = {build}
    Deps <- NoDeps
    Terminal = {term1}
    MaxDispatches = 3
    MaxGates = 0
    CircuitBreakFailures = 2
    UpdateStatuses = {"ready", "failed", "pending"}
INVARIANTS
    ActiveIsLatest
    FailuresBounded
PROPERTIES
    BreakerParksTask
    ImplementsCustody
    HandlersConclude

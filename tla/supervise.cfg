SPECIFICATION Spec
CONSTANTS
    build = build
    ship = ship
    term1 = term1
    term2 = term2
    NoTask = NoTask
    NoTerminal = NoTerminal
    Task = {build, ship}
    Deps <- ChainDeps
    Terminal = {term1}
    MaxDispatches = 2
    MaxGates = 1
    CircuitBreakFailures = 2
    UpdateStatuses = {"ready", "completed", "failed", "blocked", "dispatched"}
INVARIANTS
    TypeOK
    OneActiveDispatchPerTask
    WorkerFollowsDispatch
    TaskFollowsDispatch
    TerminalExclusive
    LiveWorkersAreHeard
    NoStrandedTask
PROPERTIES
    SettledIsFinal
    StopKeepsItsVerdict
    WorkerStepsAreLegal

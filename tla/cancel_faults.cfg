SPECIFICATION Spec
CONSTANTS
    a = a
    b = b
    c = c
    wf1 = wf1
    wf2 = wf2
    Nil = Nil
    Daemon = Daemon
    Workflows = {wf1}
    Tasks = {a, b}
    Workers = {w1, w2}
    Clients = {c1, c2}
    Execs = {e1, e2, e3}
    WfOf <- OneWorkflow
    Deps <- ChainDeps
    Policy <- SkipPolicy
    MaxRetries <- RetryExceptA
    Outcome <- AnyOutcome
    Cancels = {wf1}
    Mortal = {w1}
    Slow = {w1}
    Breakable = {w2}
    Resubmits = {}
    CrashCoordinator = TRUE
    StoreFaults = TRUE
    Overlap = FALSE
SYMMETRY CallSymmetry
INVARIANTS
    DependenciesFirst
    ZombieCannotComplete
PROPERTIES
    ResultsAreFinal

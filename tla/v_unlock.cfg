SPECIFICATION Spec
CONSTANTS
    a = a
    b = b
    c = c
    wf1 = wf1
    wf2 = wf2
    Nil = Nil
    Daemon = Daemon
    Workflows = {wf1}
    Tasks = {a, b, c}
    Workers = {w1, w2}
    Clients = {c1}
    Execs = {e1, e2, e3}
    WfOf <- OneWorkflow
    Deps <- JoinDeps
    Policy <- SkipPolicy
    MaxRetries <- NoRetry
    Outcome <- AlwaysOk
    Cancels = {}
    Mortal = {}
    Slow = {w1, w2}
    Breakable = {}
    Resubmits = {}
    CrashCoordinator = FALSE
    StoreFaults = FALSE
    Overlap = TRUE
SYMMETRY FullSymmetry
PROPERTIES
    UnlockedByAll

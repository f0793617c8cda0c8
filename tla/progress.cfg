SPECIFICATION ProgressSpec
CONSTANTS
    a = a
    b = b
    c = c
    d = d
    wf1 = wf1
    wf2 = wf2
    Nil = Nil
    Daemon = Daemon
    Workflows = {wf1, wf2}
    Tasks = {a, b, c, d}
    Workers = {w1, w2}
    Clients = {c1}
    Execs = {e1, e2}
    WfOf <- TwoByTwo
    Deps <- NoDeps
    Policy <- MixedPolicy
    MaxRetries <- NoRetry
    Outcome <- AnyOutcome
    Cancels = {}
    Mortal = {w1}
    Slow = {}
    Breakable = {w1}
    Resubmits = {}
    CrashCoordinator = FALSE
    StoreFaults = FALSE
    Overlap = FALSE
PROPERTIES
    QueuedUnlessStranded
    SettledUnlessStranded

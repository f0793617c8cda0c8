SPECIFICATION FairSpec
CONSTANTS
    a = a
    b = b
    c = c
    wf1 = wf1
    wf2 = wf2
    Nil = Nil
    Daemon = Daemon
    Workflows = {wf1}
    Tasks = {a}
    Workers = {w1}
    Clients = {c1}
    Execs = {e1, e2}
    WfOf <- OneWorkflow
    Deps <- NoDeps
    Policy <- SkipPolicy
    MaxRetries <- OneRetry
    Outcome <- AlwaysErr
    Cancels = {}
    Mortal = {}
    Slow = {}
    Breakable = {}
    Resubmits = {}
    CrashCoordinator = FALSE
    StoreFaults = FALSE
    Overlap = FALSE
PROPERTIES
    QueuedGetsResult

SPECIFICATION Spec
CONSTANTS
    a = a
    b = b
    c = c
    wf1 = wf1
    wf2 = wf2
    Nil = Nil
    Daemon = Daemon
    Workflows = {wf1}
    Tasks = {a}
    Workers = {w1}
    Clients = {c1}
    Execs = {e1, e2}
    WfOf <- OneWorkflow
    Deps <- NoDeps
    Policy <- SkipPolicy
    MaxRetries <- NoRetry
    Outcome <- AlwaysOk
    Cancels = {wf1}
    Mortal = {}
    Slow = {}
    Breakable = {}
    Resubmits = {}
    CrashCoordinator = FALSE
    StoreFaults = FALSE
    Overlap = FALSE
SYMMETRY FullSymmetry
PROPERTIES
    TerminalIsFinal

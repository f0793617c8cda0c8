SPECIFICATION StatusSpec
CONSTANTS
    a = a
    b = b
    c = c
    wf1 = wf1
    wf2 = wf2
    Nil = Nil
    Daemon = Daemon
    Workflows = {wf1}
    Tasks = {a, b, c}
    Workers = {w1, w2}
    Clients = {c1}
    Execs = {e1, e2, e3, e4}
    WfOf <- OneWorkflow
    Deps <- JoinDeps
    Policy <- SkipPolicy
    MaxRetries <- RetryExceptA
    Outcome <- LastOk
    Cancels = {}
    Mortal = {}
    Slow = {w1, w2}
    Breakable = {}
    Resubmits = {}
    CrashCoordinator = TRUE
    StoreFaults = FALSE
    Overlap = FALSE
    Followed = wf1
SYMMETRY FullSymmetry
INVARIANTS
    TypeOK
    InDegreeExact
    QueueSound
    RunningIsWatched
    QueuedIsReachable
    AssignmentsAgree
    VerdictStands
    FinalReplyStands
PROPERTIES
    LifecycleRefined

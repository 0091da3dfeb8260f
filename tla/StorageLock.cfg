SPECIFICATION Spec
CONSTANTS
    t1 = t1
    t2 = t2
    t3 = t3
    server = server
    hook = hook
    NoThread = NoThread
    Threads <- MCThreads
    Procs <- MCProcs
    ProcOf <- MCProcOf
    MaxDepth = 2
    MaxClaims = 3
    ConnectMayFail = TRUE
INVARIANTS WriterRunsAlone NoLostWakeup
PROPERTIES CommitSeenByNoReader ImplementsReadersWriter
CHECK_DEADLOCK FALSE

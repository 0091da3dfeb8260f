SPECIFICATION LivenessSpec
CONSTANTS
    t1 = t1
    t2 = t2
    t3 = t3
    server = server
    hook = hook
    NoThread = NoThread
    Threads <- MCThreads
    Procs <- MCProcs
    ProcOf <- MCProcOf
    MaxDepth = 1
    MaxClaims = 3
    ConnectMayFail = FALSE
    shown = shown
    small = small
    above = above
    scan1 = scan1
    scan2 = scan2
    agent1 = agent1
    NoLine = NoLine
    NoEvidence = NoEvidence
    Idle = Idle
PROPERTIES RefusalHasCause NobodyHangs EventuallyReconciled

SPECIFICATION FairSpec
CONSTANTS
    py = py
    go = go
    v1 = v1
    v2 = v2
    hook = hook
    cli = cli
    scan1 = scan1
    scan2 = scan2
    Absent = Absent
    NoCache = NoCache
    Hooks <- MCOneHook
    Rebuilders <- MCNone
    Scanners <- MCOneScanner
    MaxEdits = 2
    Path <- MCPython
    Indexed <- MCPython
    Version <- MCTexts
PROPERTIES EventuallyUpToDate

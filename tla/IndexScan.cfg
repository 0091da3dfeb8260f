SPECIFICATION Spec
CONSTANTS
    py = py
    go = go
    v1 = v1
    v2 = v2
    hook = hook
    cli = cli
    scan1 = scan1
    scan2 = scan2
    Absent = Absent
    NoCache = NoCache
    Hooks <- MCNone
    Rebuilders <- MCRebuilder
    Scanners <- MCOneScanner
    MaxEdits = 3
    Path <- MCPythonAndGo
    Indexed <- MCPython
    Version <- MCTexts
INVARIANTS FreshRowsAreExact WarmScanIsCold
PROPERTIES QuietScanIsExact
SYMMETRY MCSymmetry

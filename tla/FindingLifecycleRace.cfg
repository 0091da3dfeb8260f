SPECIFICATION Spec
CONSTANTS
    shown = shown
    small = small
    large = large
    above = above
    below = below
    scan1 = scan1
    scan2 = scan2
    agent1 = agent1
    NoLine = NoLine
    NoEvidence = NoEvidence
    Idle = Idle
    Findings <- MCOne
    Scanners <- MCOneScanner
    Markers <- MCOneMarker
    ClientStatuses <- MCEveryStatus
    Bodies <- MCTwoBodies
    Lines <- MCLines
    MaxSites = 1
    MaxEdits = 2
PROPERTIES ResolvedIsEarned

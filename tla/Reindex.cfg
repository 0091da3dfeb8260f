SPECIFICATION FairSpec
CONSTANTS
    f = f
    None = None
    h1 = h1
    h2 = h2
    File <- MCFile
    Hooks <- MCHooks
    Crews <- MCCrews
    Window = 2
    MaxEdits = 2
    MaxTurns = 1
INVARIANTS ReplyIsTrue HookLeavesNoGap
PROPERTIES WatchCatchesUp
CHECK_DEADLOCK FALSE

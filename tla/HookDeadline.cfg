SPECIFICATION AugmentSpec
CONSTANTS
    Commands <- MCCommands
    Rankings <- MCRankings
    HookLimit = 2
    HookBudget = 3
INVARIANT DeadlineHolds
CHECK_DEADLOCK FALSE

SPECIFICATION UpkeepSpec
CONSTANTS
    scan1 = scan1
    scan2 = scan2
    scan3 = scan3
    short = short
    long = long
    Garbage = Garbage
    NoFile = NoFile
    Writers <- MCWriters
    Entry <- MCEntries
    Length <- MCLength
    Event = {"PreToolUse", "Stop"}
    HookEvent = {"PreToolUse"}
    Installers = {"i1", "i2"}
    Foreign = {"x", "y"}
    MaxUserEdits = 1
    NotList = NotList
    Missing = Missing
    NoHooks = NoHooks
    Openers = {"o1"}
    Savers = {"s"}
    Packs = {"py", "ts", "bad"}
    Known = {"py", "ts"}
    DefaultPacks = "py"
    MaxConfigEdits = 2
    NoConfig = NoConfig
    Engine = {3, 4}
    PathSince = 4
    MaxOpens = 4
    Closed = Closed
    Site <- MCSite
    Indexed = {"f"}
    MaxReports = 2
    NoReport = NoReport
    c1 = c1
    c2 = c2
    a1 = a1
    a2 = a2
    a3 = a3
    b1 = b1
    Clients = {c1, c2}
    Lists <- MCLists
    FileOf <- MCFileOf
    Requests <- MCRequests
    InlineLimit = 1
    MaxRetrieve = 3
    EventLimit = 2
    Horizon = 1
    MaxEvents = 2
    MaxCalls = 1
INVARIANTS CrashDoesNotPoison SettingsKept AcceptedDebtPasses RetrievalIsHonest TrailMatchesStore
PROPERTIES InstallKeepsOthers MigrationIsWhole
CHECK_DEADLOCK FALSE

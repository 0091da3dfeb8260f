SPECIFICATION AnswersSpec
CONSTANTS
    Callers = {"c"}
    Path <- MCPaths
    Query = {"word", "two words"}
    Prose = {"two words"}
    PathScore <- MCPathScore
    TokenScore <- MCTokenScore
    LineMatch <- MCLineMatch
    TokenMatch <- MCTokenMatch
    Spans <- MCSpans
    ImportLine <- MCImportLine
    Quality <- MCQuality
    Markers <- MCMarkers
    TestPath = {2, 3}
    Filters <- MCFilters
    FileSize <- MCSize
    FileAge <- MCAge
    Untracked = {2, 3}
    Limits = {0, 3}
    MaxLimit = 2
    FrecencyCap = 2
    MaxWeight = 3
    MaxSearches = 2
    MaxChanges = 1
    NameMatch <- MCNameMatch
    LikeMatch <- MCLikeMatch
    Builtin = {"len"}
    IndexSites <- MCIndexSites
    IndexSymbols <- MCIndexSymbols
    CbmSites <- MCCbmSites
    CbmSymbols <- MCCbmSymbols
    Outside = {9}
    HybridLsp = {"python", "go"}
    AskedNames = {"run", "walk"}
    IndexedFiles = {1, 2, 3, 4}
    TestFile = {2, 4}
    Target = 1
    ModuleOf <- MCModuleOf
    Directory <- MCDirectory
    PathWords <- MCPathWords
    NamedLike = {4}
    ImportRows <- MCImportRows
    Words <- MCWords
    GitHistory = {2, 5}
    CoChanged = {5}
    ReasonWeight <- MCReasonWeight
    GraphLimits = {0, 2}
    Cursors <- MCCursors
    PageSize = 2
    MaxMoves = 2
    PackFiles = {1, 2, 3}
    PackTests = {3}
    FileHits <- MCFileHits
    LineHits <- MCLineHits
    SymbolHits <- MCSymbolHits
    SymbolsIn <- MCSymbolsIn
    LikelyTests <- MCLikelyTests
    RelatedFiles <- MCRelatedFiles
    FindingPath <- MCFindingPath
    Cost <- MCCost
    Budgets <- MCBudgets
    DefaultBudget = 12
    FileCap = 2
    SymbolCap = 2
    TestCap = 1
    FindingCap = 2
    RelatedCap = 1
    SeedLimit = 2
    MaxPackMoves = 2
    Findings = {1, 2, 3}
    Severity <- MCSeverity
    Verified = {}
    TestStructural = {3}
    Rule <- MCRule
    Dir <- MCDir
    Effort <- MCEffort
    Confidence <- MCConfidence
    ChurnOf <- MCChurn
    FirstStatus <- MCFirstStatus
    ToolNames = {"search", "scan"}
    InlineCap = 1
    ActiveLimit = 2
    ListedEvents = 1
    MemberLimit = 2
    MaxScanned = 1
    MaxTriageMoves = 2
    Files = {1, 2, 3}
    PlanSources = {1, 2}
    TestPaths = {2}
    Content <- MCContent
    FirstDisk <- MCFirstDisk
    Flags = {1, 2, 3}
    FlagOf <- MCFlagOf
    SectionCap = 2
    DiffLimit = 1
    MinSample = 2
    MaxDelta = 30
    Missing = 0
    MaxPlanMoves = 3
    Paths = {1, 2, 3}
    ModuleKey <- MCModuleKey
    Packages = {1}
    Imports <- MCImports
    MaxImports = 2
    Limit = 2
    Tracked = {1, 2, 3}
    HighChurn = {3}
    Authors = {"ann", "bob"}
    LogLimit = 2
    CoChangeLimit = 1
    SiloChurn = 2
    Marked = {1, 2, 3}
    GivenStatuses = {"resolved", "wontfix", "in_progress"}
    MarkedOf <- MCMarkedOf
    SampleSize = 1
    Shift = 15
    Floor = 10
    Threshold = 2
    MaxSignalMoves = 2
    Reviewers = {"r1", "r2"}
    Smells = {1, 2}
    PromptLimit = 1
    Texts <- MCTexts
    NoScore <- MCNoScore
    MaxReviewMoves = 4
    Commands <- MCCommands
    Rankings <- MCRankings
    HookLimit = 2
    HookBudget = 3
    Sources = {1, 2, 3, 4, 5}
    DirectoryOf <- MCDirectoryOf
    ImportPairs <- MCImportPairs
    MaxEdges = 5
    MaxPasses = 2
    ModuleCap = 3
    MemberCap = 2
    Trees <- MCTrees
    FileCount = 2
    MinNodes = 3
    MaxLocations = 3
    MaxShown = 2
INVARIANTS
    FilterIsHonest GraphAnswersAreExact PackIsHonest
    TriageIsConsistent ChangeReportsAreWhole CyclesAreExact HistoryIsReadRight
    OpinionsAreOfTheirPrompt EnrichmentIsRanked ModulesAreSettled DuplicatesAreExact
PROPERTIES RepeatKeepsWindow VerdictsMoveConfidence
CHECK_DEADLOCK FALSE

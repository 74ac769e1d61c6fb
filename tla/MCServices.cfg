SPECIFICATION SuiteSpec
CONSTANTS
    \* ConversationMemory
    Jobs = {"j1", "j2"}
    MaxExchanges = 4
    WindowSize = 1
    MaxOpen = 2
    MaxRebuilds = 1
    MaxLost = 1
    NoRow = NoRow
    \* FactMemory
    Tasks = {"k1", "k2"}
    Conversations = {"c1", "c2"}
    Facts = {"f", "g"}
    MaxFacts = 1
    MaxInserts = 2
    MaxPurges = 1
    NoConv = NoConv
    \* SessionTitle
    Short = {"q1"}
    Long = {"q2"}
    Cut <- MCCut
    Names = {"n1", "n2"}
    Workers = {"w1", "w2"}
    MaxWrites = 5
    NoTitle = NoTitle
    \* RagAnswer
    MaxChunks = 2
    MaxReviews = 2
    Blocked = Blocked
    NoEvidence = NoEvidence
    Note = Note
    \* MultiAgent
    SubPlanIds = {"a", "b", "c"}
    MaxReviewRetries = 1
    MaxTokens = 1
    \* Retrieval
    Chunks = {"c1", "c2", "c3"}
    ParentOf <- MCParentOf
    FinalTopK = 2
    SubQuestions = 2
    MaxRounds = 2
    \* Orchestrator
    Documents = {"d", "e"}
    NoDocument = NoDocument
    ScopeOf <- MCScopeOf
    RouteScores = {2, 3, 40}
    Threshold = 40
    ConfidentLimit = 1
    WideLimit = 2
    \* ResumeBuffer
    MaxStreams = 2
    MaxEvents = 2
    MaxBuffer = 4
    MaxBreaks = 2
    \* ResponseCache
    Chats = {"x", "y"}
    CacheQuestions = {"q"}
    Docs = {"d"}
    AllDocs = AllDocs
    MaxRuns = 2
    \* MicroBatcher
    Callers = {"r1", "r2", "r3"}
    Loops = {"l1", "l2", "l3"}
    NoLoop = NoLoop
    MaxBatch = 2
    MaxCloses = 1
INVARIANTS
    SuiteTypeOK
    NothingForgottenWhenQuiet
    FactsOnceAndBounded
    StoresOneSafeDraft
    NoVerificationLeftRunning
    AcceptedPlanRunsWhole
    TokensCharged
    CitationIsPlace
    EvidenceAccumulates
    PlanIsConsistent
    ShownWithoutGapOrRepeat
    NothingIsEverCached
    WaitersAreServed
PROPERTIES
    ImplementsSummaryService
    ImplementsJudgeService
    RenameLostOnlyInTheCall
CHECK_DEADLOCK FALSE

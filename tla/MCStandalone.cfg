SPECIFICATION MCSpec
CONSTANTS
    r1 = r1
    r2 = r2
    r3 = r3
    k1 = k1
    Requests <- MCRequests
    SessionKeys <- MCSessionKeys
    Bindings = {b1, b2}
    ApprovalKeys = {c1}
    None = None
    Path <- MCPath
    Root = "/"
    Parent <- MCParent
    Device <- MCDevice
    Forbidden = {"/", "/etc"}
    Letter = {"x", "$&"}
    MaxLen = 2
    BatchPaths = {"/a"}
    Globs <- MCGlobs
    Call = {"c1", "c2"}
    Key = {"k", "l", "d"}
    Allowed = {"k", "l"}
    Issued = {"t"}
    Forged = {"u"}
    NoValue = "none"
    MaxGiven = 2
    MaxOdd = 2
    Callers = {"main:notes", "other:notes"}
    MaxCalls = 2
    Window = 2
    MaxTime = 4
    MaxHistory = 4
    MaxReloads = 1
    TokenLimit = 3
    CostLimit = 900
    Model <- MCModel
    MaxTokens = 2
    MaxCounted = 4
    MaxDay = 1
    Words <- MCWords
    ToolNames <- MCToolNames
    Flags = {"-f"}
    Meta = {"|"}
    MaxWords = 3
    MaxPieces = 4
    Lives = 2
    MaxUpdates = 2
    Messages = {x1, x2, x3}
    maxRetries = 1
    Cooldown = 2
    MaxClock = 5
    MaxRetries = 2
    Recipients = 2
CHECK_DEADLOCK FALSE
INVARIANTS
    PendingIsLive
    AnswerableIffWaiting
    AckedIsOutcome
    ProtectedDirsRemain
    MovedContentSurvives
    BatchSawRealContents
    SerialReplayRefused
    StoredSecretKept
    NoLaxerThanManifest
    SuccessMeansExitZero
    DeliveryBound
    LimitIsExact
    BudgetSurvivesRestart
    
    UpdatesHandledOnce
    PauseIsBounded
PROPERTIES
    ShutdownDrains
    EveryRequestSettles
    AnsweredOrReading

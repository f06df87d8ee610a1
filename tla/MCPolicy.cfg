SPECIFICATION MCSpec
CONSTANTS
    None = None
    CedarPool <- MCCedarPool
    JsonPool <- MCJsonPool
    Calls <- MCCalls
    Patterns = {"rm", "ls"}
    Windows <- MCWindows
    MaxRules = 2
    Absent = Absent
    RuleIds = {"a"}
    MaxVersion = 2
    MaxEdits = 2
    MaxLoads = 2
    MaxStoreLoads = 1
    MaxActivations = 1
    StartsWithBundle = TRUE
CHECK_DEADLOCK FALSE
INVARIANTS
    PermitMeansNoForbid
    ReleasableIsOptIn
    ModeCoherent
PROPERTIES
    PolicyFollowsFiles
    

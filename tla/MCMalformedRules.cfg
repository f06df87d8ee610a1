SPECIFICATION HotSpec
CONSTANTS
    Absent = Absent
    RuleIds = {"a"}
    MaxVersion = 2
    MaxEdits = 2
    MaxLoads = 1
    MaxStoreLoads = 1
    MaxActivations = 0
    StartsWithBundle = FALSE
PROPERTIES
    UnparsableFileKeepsRules
CHECK_DEADLOCK FALSE

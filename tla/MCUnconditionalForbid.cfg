SPECIFICATION Spec
CONSTANTS
    None = None
    CedarPool <- MCCedarPool
    JsonPool <- MCJsonPool
    Calls <- MCCalls
    Patterns = {"rm", "ls"}
    Windows <- MCWindows
    MaxRules = 2
INVARIANTS
    UnconditionalForbidWins

SPECIFICATION Spec
CONSTANTS
    None = None
    Calls <- MCTrustCalls
    Classes = {"k"}
    Configs <- AllConfigs
    Verdicts = {"permit", "gated"}
    MaxPrompts = 2
INVARIANTS
    AtMostOnePrompt
    NoOrphanRequest
PROPERTIES
    DecidedUnlessAtConsole

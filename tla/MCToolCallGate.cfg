SPECIFICATION Spec
CONSTANTS
    None = None
    Calls <- MCTwoCalls
    Classes = {"k"}
    Configs <- DenyConfigs
    Verdicts = {"permit", "gated", "forbid"}
    MaxPrompts = 2
PROPERTIES
    GatedReleaseIsAuthorised
    ImplementsContract

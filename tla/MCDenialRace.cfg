SPECIFICATION Spec
CONSTANTS
    None = None
    Calls <- MCOneCall
    Classes = {"k"}
    Configs <- AutoApprove
    Verdicts = {"permit", "gated", "forbid"}
    MaxPrompts = 2
INVARIANTS
    DenialBlocks

SPECIFICATION MCSpec
CONSTANTS
    None = None
    t1 = t1
    t2 = t2
    Requests = {t1, t2}
    Derivable = {t1}
    Key <- MCKey
    Enabled = TRUE
    AutoConfirm = FALSE
    Ops <- MCOps
    Stored <- MCStored
    MaxInFlight = 2
    MaxRevokes = 1
    MaxLoads = 2
INVARIANTS
    SavedIsNotContradicted
    NeverPartial
    ReportedIsStored
    StoredWasApproved
    CheckerInStep
PROPERTIES
    GrantsOnlyWithApproval
    DialogsClose
    CheckerFollowsStore

SPECIFICATION Spec
CONSTANTS
  None = None
  Calls <- MCCalls
  Verdicts <- MCVerdicts
  TtlTicks = 0
  MaxTime = 1
INVARIANTS
  ReleaseWasApproved
  CapabilityStaysInScope
PROPERTY DispatchEnds
CHECK_DEADLOCK FALSE

SPECIFICATION Spec
CONSTANTS
  f1 = f1
  f2 = f2
  Flows = {f1}
INVARIANTS
  AbortEndsFlow
CHECK_DEADLOCK FALSE

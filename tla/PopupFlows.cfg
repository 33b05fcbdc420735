SPECIFICATION Spec
CONSTANTS
  f1 = f1
  f2 = f2
  Flows = {f1, f2}
INVARIANTS
  OwnPopup
  AnsweredOnce
  ResultIsTruth
  OrphanedWorkIsAborted
  SubmittedOnce
PROPERTIES
  FlowEnds
  ClosedWindowEndsFlow
CHECK_DEADLOCK FALSE

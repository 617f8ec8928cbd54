CONSTANTS
  t1 = t1
  t2 = t2
  Callers <- MCCallers
  TaskInvalid = TaskInvalid
  MaxCalls = 1
SPECIFICATION Spec
INVARIANTS TypeOK ResetPending ReinstatePending
PROPERTIES ResetEnds CommitsResume
CHECK_DEADLOCK FALSE

CONSTANTS
  t1 = t1
  t2 = t2
  Callers <- MCCallers
  ResumeTimeout = 2
  MaxCalls = 2
SPECIFICATION Spec
INVARIANTS TypeOK WakeWithinTimeout
PROPERTIES WakeCompletes

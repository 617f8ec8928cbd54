CONSTANTS
  t1 = t1
  t2 = t2
  Callers = {t1}
  TaskInvalid = TaskInvalid
  MaxCalls = 2
SPECIFICATION Spec
PROPERTY ResultTruthful
CHECK_DEADLOCK FALSE

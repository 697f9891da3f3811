CONSTANTS
  t1 = t1
  t2 = t2
  w1 = w1
  w2 = w2
  NoMessage = NoMessage
  Tasks = {t1}
  Workers = {w1}
  Faults = {"late_answer"}
  MaxRetries = 1
  MaxVersion = 1
  MaxCrashes = 0
SPECIFICATION Spec
SYMMETRY Symmetry
INVARIANTS AcceptedOnce
CHECK_DEADLOCK FALSE

CONSTANTS
  s1 = s1
  s2 = s2
  a = a
  b = b
  h1 = h1
  h2 = h2
  Absent = Absent
  Suppliers = {s1, s2}
  Calls = {a, b}
  Weights = {h1}
  MaxSnapshots = 1
  MaxUpdates = 1
SPECIFICATION Spec
SYMMETRY Symmetry
INVARIANTS OneResultPerKey ResultsAreGrounded StatusIsEarned
CHECK_DEADLOCK FALSE

CONSTANTS
  c1 = c1
  c2 = c2
  s1 = s1
  s2 = s2
  s3 = s3
  q1 = q1
  q2 = q2
  w1 = w1
  w2 = w2
  r1 = r1
  r2 = r2
  Absent = Absent
  Candidates = {c1}
  Rows = {s1, s2}
  Requests = {q1}
  Workers = {w1, w2}
  Reviewers = {r1}
  Faults = {"publish_down", "search", "database"}
  MaxRuns = 2
  MaxRetries = 1
  MaxReviews = 2
  MaxFaults = 2
SPECIFICATION Spec
SYMMETRY Symmetry
INVARIANTS OpenRunsAreAttended CompletedIsProcessed DecisionsWereMade
CHECK_DEADLOCK FALSE

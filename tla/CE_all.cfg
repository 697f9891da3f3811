CONSTANTS
  d1 = d1
  d2 = d2
  i1 = i1
  i2 = i2
  q1 = q1
  q2 = q2
  w1 = w1
  w2 = w2
  r1 = r1
  r2 = r2
  Absent = Absent
  Documents = {d1}
  Items = {i1}
  t1 = t1
  t2 = t2
  f1 = f1
  f2 = f2
  Fields = {f1, f2}
  Values = {t1, t2}
  Requests = {q1, q2}
  Workers = {w1, w2}
  Reviewers = {r1, r2}
  Faults = {"publish_down", "no_key", "no_prompt", "provider", "invalid", "deletion"}
  MaxRetries = 1
  MaxVersions = 1
  MaxReviews = 2
  MaxDisruptions = 1
SPECIFICATION Spec
SYMMETRY Symmetry
INVARIANTS OneAnswerPerRun OpenRunsAreAttended ApprovedWasRead
CHECK_DEADLOCK FALSE

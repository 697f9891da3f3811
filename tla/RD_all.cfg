CONSTANTS
  t1 = t1
  t2 = t2
  w1 = w1
  w2 = w2
  NoMessage = NoMessage
  Tasks = {t1, t2}
  Workers = {w1, w2}
  Faults = {"queue_down", "retry_queue_down", "redelivery", "checks_change"}
  MaxRetries = 1
  MaxVersion = 3
  MaxCrashes = 1
SPECIFICATION Spec
SYMMETRY Symmetry
INVARIANTS TypeOK ClaimsAreExclusive StatusMatchesAttempts ApprovedContentIsSent
PROPERTIES AmbiguousIsNotResent ImplementsSendOnce
CHECK_DEADLOCK FALSE

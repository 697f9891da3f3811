CONSTANTS
  p1 = p1
  p2 = p2
  w1 = w1
  w2 = w2
  NoMessage = NoMessage
  NotRead = NotRead
  Publishers = {p1, p2}
  Workers = {w1, w2}
  Faults = {"publish_down", "redelivery", "bad_file", "extraction"}
  MaxDisruptions = 1
SPECIFICATION FairSpec
INVARIANTS TypeOK ProcessingIsAttended StatusMatchesEvaluation
PROPERTIES ProcessingEnds
CHECK_DEADLOCK FALSE

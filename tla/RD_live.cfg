CONSTANTS
  t1 = t1
  t2 = t2
  w1 = w1
  w2 = w2
  NoMessage = NoMessage
  Tasks = {t1, t2}
  Workers = {w1, w2}
  Faults = {"queue_down", "redelivery"}
  MaxRetries = 1
  MaxVersion = 3
  MaxCrashes = 0
SPECIFICATION FairSpec
PROPERTIES DeliveryEnds
CHECK_DEADLOCK FALSE

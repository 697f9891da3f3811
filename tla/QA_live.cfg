CONSTANTS
  t1 = t1
  t2 = t2
  t3 = t3
  Tasks = {t1, t2}
  Routes = {"analyze", "process"}
  MaxRetries = 1
  LostAnswers = {"analyze", "process"}
  KeyMayMiss = FALSE
  MaxDocuments = 1
  MaxRuns = 6
  MaxCrashes = 1
SPECIFICATION FairSpec
INVARIANTS OneCompletedRunPerDocument
PROPERTIES AnalysisEnds
CHECK_DEADLOCK FALSE

CONSTANTS
  t1 = t1
  t2 = t2
  t3 = t3
  Tasks = {t1, t2}
  Routes = {"analyze", "reanalyze", "process", "reprocess"}
  MaxRetries = 1
  LostAnswers = {"reanalyze", "reprocess"}
  KeyMayMiss = TRUE
  MaxDocuments = 2
  MaxRuns = 3
  MaxCrashes = 1
SPECIFICATION Spec
SYMMETRY Symmetry
INVARIANTS TypeOK WorkersOwnRuns OneCurrentExtraction ApprovalStandsOnItsRun SucceededTasksHaveRuns AnalyzingIsAttended OneCompletedRunPerRequest
PROPERTIES ImplementsGate
CHECK_DEADLOCK FALSE

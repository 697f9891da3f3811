SPECIFICATION Spec
CONSTANTS
  None = None
  RowTables <- MCRowTables
  Keys = {k1, k2}
  Ids = {1, 2, 3}
  Capacity <- MCCapacity
INVARIANTS UpgradeIsNeverRefused SentHoldsItsKey StatusesStayTrue LatestFitsTheCode

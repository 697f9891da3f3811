SPECIFICATION Spec
CONSTANTS
  None = None
  Scale = 120
  Suppliers <- MCSuppliers
  Requested <- MCRequested
  Names <- MCNames
  Alike <- MCAlike
  Lines <- MCLines
  Weights <- MCWeights
  MaxLines = 4
  CatalogLines <- MCCatalogLines
  Items <- MCItems
  Keys = {k1, k2, k3}
  Values = {v1, v2}
  Amounts <- MCAmounts
  Units <- MCUnits
  Lengths = {0, 4, 40, 90, 150, 300}
  PageAreas = {60}
  MaxPages = 2
  Companies <- MCCompanies
  MaxSuppliers = 3
INVARIANTS RecommendationIsSound NamedTwiceIsAsked OneSupplierPerDomain
PROPERTIES ConflictsStay MeasuresAgree TextCounts
CHECK_DEADLOCK FALSE

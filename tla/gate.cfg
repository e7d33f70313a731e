CONSTANTS
  Catalogs <- SomeCatalogs
  MaxAdvisorChanges = 1
SPECIFICATION Spec
INVARIANTS TypeOK ReportsMakeCapabilityPlans
PROPERTIES ProvedStaysTrue DivergenceEndsFixed DrilledViolationStaysOut FindingsLast

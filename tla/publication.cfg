CONSTANTS
  i1 = i1
  i2 = i2
  calm = calm
  drift = drift
  old = old
  new = new
  Inputs <- TwoInputs
  Observations <- TwoObservations
  Codes <- TwoCodes
  NoMaterial = NoMaterial
  MaxReports = 3
  NoRequest = NoRequest
  Latest = Latest
SPECIFICATION FairSpec
INVARIANTS TypeOK
PROPERTIES NeverBackwards AuthorizedIsCurrent NewestGetsPublished

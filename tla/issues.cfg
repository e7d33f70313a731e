SPECIFICATION FairSpec
CONSTANTS
  f1 = f1
  f2 = f2
  old = old
  new = new
  Fingerprints <- TwoFingerprints
  Claimable <- OneClaimable
  Contents <- TwoContents
  Labels = {"fingerprint"}
  MaxIssues = 2
  MaxNotes = 2
INVARIANTS
  TypeOK
  OneIssuePerFinding
PROPERTIES
  ImplementsRecords
  PlanIsRealised

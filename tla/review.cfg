CONSTANTS
  oidc = oidc
  cost = cost
  e1 = e1
  e2 = e2
  e3 = e3
  gha = gha
  tf = tf
  here = here
  there = there
  Concerns <- TwoConcerns
  EvidenceIds <- ThreeIds
  Relevant <- ChecksOf
  Collectors <- TwoCollectors
  CollectorOf <- TrustedBy
  Priorities = {"high", "low"}
  Conflicts <- TwoConflicts
  Policies <- ThreePolicies
  MaxRecommendations = 1
  MaxIssueActions = 3
SPECIFICATION Spec
SYMMETRY Alike
INVARIANTS TypeOK ReviewsArePublishable ReviewsSettle OpenFindingsStay ConflictsAreReported

SPECIFICATION FairSpec
CONSTANTS
  c1 = c1
  c2 = c2
  Concerns <- TwoConcerns
  Findings <- OneFindings
  MaxPushes = 2
  MaxHistory = 2
PROPERTIES RevokedIsWithdrawn

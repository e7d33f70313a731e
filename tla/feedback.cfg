SPECIFICATION FairSpec
CONSTANTS
  c1 = c1
  c2 = c2
  Concerns <- TwoConcerns
  Findings <- SomeFindings
  MaxPushes = 2
  MaxHistory = 2
INVARIANTS
  TypeOK
  DeclinedStaysDeclined
PROPERTIES
  WithdrawingDeclinesNothing
  DecisionsAreProposed
  AllRevokedIsWithdrawn

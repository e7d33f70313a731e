CONSTANTS
  Replicas = {0, 1, 2, 3}
  Fenceposts <- SomeFenceposts
  Profiles = {"local", "aws"}
  MaxRetentionDays = 30
  DefaultRetentionDays = 90
  Subjects <- SomeSubjects
  Services <- SomeNames
  Sources <- SomeSources
  Ports = {"client", "metrics"}
SPECIFICATION FactsSpec
INVARIANTS
  RolloutKeepsCapacity WorkflowFactsAreTrue DeploymentFactsAreTrue IamFactsAreTrue
  CostFactsAreTrue IngressFactsAreTrue
CHECK_DEADLOCK FALSE

------------------------------- MODULE MCChangeGates -------------------------------
EXTENDS ChangeGates

\* Two positions of one collector, one that it proves and one that it does not, in two
\* categories; and one each for the two checks that need no evidence.
SharedCollector ==
  [p1 |-> "ecr_lifecycle_bounded", p2 |-> "eks_public_endpoint_staging_only"]

NoEvidenceNeeded ==
  {[p1 |-> "persistent_iam_avoids_wildcards"], [p1 |-> "staging_log_retention_bounded"]}

SomeCatalogs == {SharedCollector} \cup NoEvidenceNeeded

=============================================================================

-------------------------------- MODULE CostFacts --------------------------------
(***************************************************************************)
(* What the cost collector says of log groups, image registries and tags   *)
(* declared in Terraform, and what AWS (external) makes of them.  Literals *)
(* the parser cannot read make coverage partial and are not facts; only    *)
(* readable values are modelled.                                           *)
(***************************************************************************)
EXTENDS Integers, Sequences, FiniteSets

CONSTANTS
  MaxRetentionDays,     \* the longest retention that counts as bounded
  DefaultRetentionDays  \* the retention of the log group the EKS module makes

ASSUME RetentionAssumption ==
  MaxRetentionDays \in Nat /\ DefaultRetentionDays \in Nat \ {0}

NotGiven == -1

-----------------------------------------------------------------------------
(* Logs.  A retention of no days means that nothing ever expires.          *)

BoundedRetention(days) == 0 < days /\ days <= MaxRetentionDays

\* A log group, or an EKS module with the log group it makes or leaves to AWS.
LogSubjects(days) ==
  [is : {"log_group", "eks_module"}, retention : days \cup {NotGiven},
   logTypes : BOOLEAN, creates : BOOLEAN]

\* _log_group_evidence and _eks_module_evidence: the retention they report, of a
\* module that logs.
ReportedRetention(log) ==
  IF log.is = "log_group" THEN (IF log.retention = NotGiven THEN 0 ELSE log.retention)
  ELSE IF ~log.creates THEN 0
  ELSE IF log.retention = NotGiven THEN DefaultRetentionDays ELSE log.retention

HasLogs(log) == log.is = "eks_module" => log.logTypes

\* The age at which AWS deletes an event, if it ever does.
EventsExpire(log) ==
  /\ log.is = "eks_module" => log.creates
  /\ log.retention # 0
  /\ log.is = "log_group" => log.retention # NotGiven

-----------------------------------------------------------------------------
(* Images.  An image is untagged or has a tag that one pattern matches or   *)
(* none; a rule selects images and expires those past a count or an age.    *)

Images == {"untagged", "release", "other"}

Rules ==
  [expires : BOOLEAN, selects : {"untagged", "any", "every_tag", "some_tags"},
   countType : {"imageCountMoreThan", "sinceImagePushed", "unknown"}]

\* A rule of a policy AWS accepts has a positive count.
IsBounded(rule) == rule.countType # "unknown"

ExpiresUntagged(rules) ==
  \E rule \in rules : rule.expires /\ rule.selects \in {"untagged", "any"}

BoundsRetainedImages(rules) ==
  \E rule \in rules : rule.expires /\ IsBounded(rule) /\ rule.selects \in {"any", "every_tag"}

\* _lifecycle_rules and _ecr_evidence: of one policy; a repository without a policy
\* is not bounded, one with two is not reported.
BoundedLifecycle(policies) ==
  \E rules \in policies : ExpiresUntagged(rules) /\ BoundsRetainedImages(rules)

RepositoryReported(policies) == Cardinality(policies) <= 1

\* AWS: the images a rule selects.
Selected(rule) ==
  CASE rule.selects = "untagged" -> {"untagged"}
    [] rule.selects = "any" -> Images
    [] rule.selects = "every_tag" -> {"release", "other"}
    [] rule.selects = "some_tags" -> {"release"}

\* An image that no rule of the policy ever removes.
KeptForever(rules) ==
  {image \in Images : ~\E rule \in rules : rule.expires /\ image \in Selected(rule)}

-----------------------------------------------------------------------------
(* Tags.  A provider gives its default tags to every resource that uses it; *)
(* a resource uses the provider without an alias unless it names another.   *)
(* A module hands its providers and the `tags` of its block on to what it   *)
(* makes, and may add tags to it.                                          *)

ProvidersOf(keys) == [aliased : BOOLEAN, defaults : SUBSET keys]

\* Resource and module blocks with tags.  A module has a map of `providers` where a
\* resource has an attribute `provider`, and only a module adds tags.
ResourcesOf(keys) ==
  [tags : SUBSET keys, readable : BOOLEAN, provider : {"default", "other"},
   providers : {"default"}, adds : {{}}]
  \cup
  [tags : SUBSET keys, readable : BOOLEAN, provider : {"default"},
   providers : {"default", "other"}, adds : SUBSET keys]

MissingDefaults(provider, keys) == keys \ provider.defaults

ReportedUntagged_AnyProvider(provider, resource, keys) ==
  /\ MissingDefaults(provider, keys) # {} /\ ~provider.aliased
  /\ resource.readable
  /\ MissingDefaults(provider, keys) \ resource.tags # {}

\* _tag_evidence: whether the block is reported of this provider.  It looks at the
\* attribute `provider`, and not at `providers`.
ReportedUntagged(provider, resource, keys) ==
  /\ MissingDefaults(provider, keys) # {} /\ ~provider.aliased
  /\ resource.readable /\ resource.provider = "default"
  /\ MissingDefaults(provider, keys) \ resource.tags # {}

\* The tags AWS puts on the resource, or on what the module makes, given the providers
\* of its root module.
EffectiveTags(default, other, resource) ==
  resource.tags \cup resource.adds
    \cup (IF "other" \in {resource.provider, resource.providers} THEN other.defaults
          ELSE default.defaults)

=============================================================================

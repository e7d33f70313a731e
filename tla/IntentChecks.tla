------------------------------- MODULE IntentChecks -------------------------------
(***************************************************************************)
(* The trusted registry of intent checks, and how a review resolves the    *)
(* propositions of the intent catalog through it: what each position's     *)
(* status is, and why.                                                     *)
(***************************************************************************)
EXTENDS FiniteSets, TLC

Everywhere == {"anywhere"}

Required(fact, value) == [fact |-> fact, value |-> value]

Entry(collector, category, kind, required, scope, proves, requires) ==
  [collector |-> collector, category |-> category, kind |-> kind, required |-> required,
   scope |-> scope, proves |-> proves, requires |-> requires]

\* A clean and complete collection proves the position, or proves nothing.
Proves(collector, category, kind, required, scope) ==
  Entry(collector, category, kind, {required}, scope, TRUE, TRUE)

OnlyDiverges(collector, category, kind, required, scope) ==
  Entry(collector, category, kind, {required}, scope, FALSE, TRUE)

No(fact) == Required(fact, FALSE)
Yes(fact) == Required(fact, TRUE)

-----------------------------------------------------------------------------
\* INTENT_CHECKS, by collector.
PlatformChecks ==
  [helm_releases_self_heal |->
     Proves("platform", "reliability", "helm_recovery", No("recovers"), Everywhere),
   delivered_apps_canary_with_rollback |->
     Proves("platform", "reliability", "canary_rollback", No("canary_rolls_back"), Everywhere),
   messaging_apps_declare_channels |->
     Proves("platform", "reliability", "messaging_contract", No("declares_prefix"), Everywhere),
   aws_apps_survive_node_drains |->
     Proves("platform", "reliability", "disruption_budget", No("survives_drain"), Everywhere),
   app_namespaces_enforce_restricted |->
     Proves("platform", "security", "pod_security", No("enforces_restricted"), Everywhere),
   local_footprint_within_budget |->
     OnlyDiverges("platform", "cost", "declared_footprint", No("within_budget"), Everywhere)]

PlatformUpkeepChecks ==
  [metrics_retention_bounded |->
     Proves("platform", "cost", "metrics_retention", No("retention_bounded"), Everywhere),
   publish_workflows_feed_dora |->
     Proves("platform", "maintainability", "dora_coverage", No("feeds_dora"), Everywhere),
   platform_manifests_reached |->
     Proves("platform", "maintainability", "manifest_reachability", No("all_reached"), Everywhere)]

\* Any wildcard grant in the scope is a divergence; there need not be evidence.
PersistentIamAvoidsWildcards ==
  Entry("terraform_iam", "security", "iam_wildcard", {}, {"infrastructure/permanent"}, TRUE, FALSE)

\* Neither a proof nor evidence is asked for.
StagingLogRetentionBounded ==
  Entry("terraform_cost", "cost", "log_retention", {No("bounded_retention")},
        {"infrastructure/staging"}, FALSE, FALSE)

WorkloadChecks ==
  [github_actions_uses_oidc |->
     OnlyDiverges("workflows", "security", "credential_method", No("uses_oidc_only"), Everywhere),
   persistent_iam_avoids_wildcards |-> PersistentIamAvoidsWildcards,
   trivy_does_not_ignore_unfixed |->
     Proves("workflows", "security", "trivy_gate", Yes("ignore_unfixed"), Everywhere),
   deployment_rollout_capacity |->
     Proves("deployments", "reliability", "deployment_rollout_capacity",
            No("retains_healthy_capacity"), {"k8s/applications"}),
   application_containers_hardened |->
     Proves("deployments", "security", "container_hardening",
            No("all_containers_hardened"), {"k8s/applications"}),
   staging_log_retention_bounded |-> StagingLogRetentionBounded,
   ecr_lifecycle_bounded |->
     Proves("terraform_cost", "cost", "ecr_lifecycle", No("bounded_lifecycle"), Everywhere)]

LifecycleChecks ==
  [fleet_profiles_expose_lifecycle |->
     OnlyDiverges("lifecycle", "maintainability", "fleet_lifecycle",
                  No("common_lifecycle_complete"), {"fleet"}),
   fleet_local_first_use |->
     OnlyDiverges("lifecycle", "maintainability", "fleet_lifecycle",
                  No("local_first_use_complete"), {"scripts/fleet-profiles/local.sh"}),
   fleet_aws_onboarding |->
     OnlyDiverges("lifecycle", "maintainability", "fleet_lifecycle",
                  No("aws_onboarding_complete"), {"scripts/fleet-profiles/aws-staging.sh"})]

RepositoryChecks ==
  [repository_secret_protection_enabled |->
     Proves("settings", "security", "secret_protection", No("enabled"), Everywhere),
   default_branch_protected |->
     Proves("settings", "security", "default_branch_protection", No("enabled"), Everywhere),
   documentation_links_resolve |->
     Proves("links", "maintainability", "documentation_links", No("links_resolve"), Everywhere),
   fleet_agent_autonomy_declared |->
     OnlyDiverges("agent_rules", "maintainability", "agent_autonomy_rules",
                  No("rules_present"), Everywhere),
   repository_security_updates_enabled |->
     Proves("settings", "security", "security_settings", No("enabled"), Everywhere),
   dependency_updates_configured |->
     OnlyDiverges("dependencies", "security", "dependency_updates", No("updated_monthly"), Everywhere)]

ClusterChecks ==
  [application_ingress_restricted |->
     Proves("cluster", "security", "ingress_restriction", No("ingress_restricted"), Everywhere),
   permissive_egress_bounded |->
     Proves("cluster", "security", "egress_acceptance", No("acceptance_bounded"), Everywhere),
   message_broker_ingress_restricted |->
     OnlyDiverges("cluster", "security", "broker_ingress", No("ingress_restricted"), Everywhere),
   public_ingress_https |->
     OnlyDiverges("cluster", "security", "ingress_https", No("https_enforced"), Everywhere),
   mounted_token_unprivileged |->
     Proves("cluster", "security", "service_account_privilege", No("token_grants_nothing"),
            Everywhere)]

EstateChecks ==
  [eks_public_endpoint_staging_only |->
     OnlyDiverges("terraform_cost", "security", "eks_endpoint", No("exposure_accepted"), Everywhere),
   session_cookie_csrf_compensated |->
     OnlyDiverges("app_config", "security", "session_cookie", No("csrf_compensated"), Everywhere),
   staging_capacity_released_on_schedule |->
     OnlyDiverges("terraform_cost", "cost", "idle_capacity", No("scheduled_release"), Everywhere),
   worker_groups_demand_scaled |->
     OnlyDiverges("terraform_cost", "cost", "worker_scaling", No("demand_scaled"),
                  {"infrastructure/staging"}),
   aws_cost_allocation_tags |->
     OnlyDiverges("terraform_cost", "cost", "cost_tags", Yes("cost_tags_incomplete"), Everywhere),
   ecr_publication_scan_gated |->
     OnlyDiverges("workflows", "security", "ecr_publication_gate",
                  No("gated_by_blocking_scan"), Everywhere),
   fleet_application_swappable |->
     Proves("app_contract", "maintainability", "application_coupling", No("swappable"), Everywhere),
   fleet_autonomous_merge |->
     Proves("workflows", "maintainability", "autonomous_merge",
            No("evidence_autonomy_complete"), {".github/workflows"})]

Registry ==
  PlatformChecks @@ PlatformUpkeepChecks @@ WorkloadChecks @@ LifecycleChecks
    @@ RepositoryChecks @@ ClusterChecks @@ EstateChecks

-----------------------------------------------------------------------------
(***************************************************************************)
(* A review.  A proposition has a check it declares, or NoCheck, and its   *)
(* category.  Evidence is a set of items with their collector, kind, the   *)
(* area of their path and their facts; coverage a status by collector.     *)
(***************************************************************************)

NoCheck == "no check"

\* _is_relevant.
IsRelevant(item, definition) ==
  /\ item.collector = definition.collector /\ item.kind = definition.kind
  /\ definition.scope = Everywhere \/ item.area \in definition.scope

\* _is_divergent: all the facts the rule asks for.
IsDivergent(item, definition) ==
  IsRelevant(item, definition) /\ definition.required \subseteq item.facts

\* compile_intent_rules: what may not be bound to the registry ends the review.
\* A concern belongs to one check, so two propositions with one check collide.
Compiles(catalog, checks, enabled) ==
  /\ \A p \in DOMAIN catalog : catalog[p].check \in DOMAIN checks =>
       catalog[p].category = checks[catalog[p].check].category
  /\ \A p, q \in DOMAIN catalog :
       /\ p # q /\ catalog[p].check \in DOMAIN checks
       /\ catalog[p].category \in enabled /\ catalog[q].category \in enabled
       => catalog[p].check # catalog[q].check

Unverified(reason) == [status |-> "declared_unverified", reason |-> reason]

\* What complete evidence without a divergence says.
CleanOutcome(definition, relevant) ==
  IF definition.requires /\ relevant = {} THEN Unverified("no_relevant_evidence")
  ELSE IF ~definition.proves THEN Unverified("collector_cannot_prove_satisfaction")
  ELSE [status |-> "satisfied", reason |-> "complete_evidence_supports_intent"]

\* A divergence counts whatever the coverage; its absence only after all was read.
CheckedOutcome(definition, evidence, coverage) ==
  LET relevant == {item \in evidence : IsRelevant(item, definition)}
  IN  IF \E item \in relevant : IsDivergent(item, definition)
      THEN [status |-> "divergent", reason |-> "evidence_conflicts_with_intent"]
      ELSE IF definition.collector \notin DOMAIN coverage THEN Unverified("collector_not_run")
      ELSE IF coverage[definition.collector] # "ok" THEN Unverified("collector_incomplete")
      ELSE CleanOutcome(definition, relevant)

\* compile_intents, of one proposition.
Outcome(proposition, checks, enabled, evidence, coverage) ==
  IF proposition.category \notin enabled THEN Unverified("category_not_enabled_by_policy")
  ELSE IF proposition.check = NoCheck THEN Unverified("check_not_declared")
  ELSE IF proposition.check \notin DOMAIN checks THEN Unverified("check_not_registered")
  ELSE CheckedOutcome(checks[proposition.check], evidence, coverage)

\* And of the catalog: every position with the check it declares.
Positions(catalog, checks, enabled, evidence, coverage) ==
  [p \in DOMAIN catalog |->
     LET outcome == Outcome(catalog[p], checks, enabled, evidence, coverage)
     IN  [check |-> catalog[p].check, status |-> outcome.status, reason |-> outcome.reason]]

=============================================================================

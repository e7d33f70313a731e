------------------------------- MODULE CapabilityPlan -------------------------------
(***************************************************************************)
(* The plan of issues about what the advisor cannot evaluate: it is made   *)
(* from a merged report, whose positions it checks against the catalog,    *)
(* the policy and the registry of the publisher, a table of its own.       *)
(***************************************************************************)
EXTENDS IntentChecks

\* _REASON_STATUS.
ReasonStatus ==
  [evidence_conflicts_with_intent |-> "divergent",
   complete_evidence_supports_intent |-> "satisfied",
   check_not_declared |-> "declared_unverified",
   check_not_registered |-> "declared_unverified",
   category_not_enabled_by_policy |-> "declared_unverified",
   collector_not_run |-> "declared_unverified",
   collector_incomplete |-> "declared_unverified",
   no_relevant_evidence |-> "declared_unverified",
   collector_cannot_prove_satisfaction |-> "declared_unverified"]

ActionableGapReasons ==
  {r \in DOMAIN ReasonStatus : ReasonStatus[r] = "declared_unverified"}
    \ {"category_not_enabled_by_policy"}

AllowedReasons_AnyProof(definition) ==
  {"collector_not_run", "collector_incomplete", "evidence_conflicts_with_intent",
   "complete_evidence_supports_intent"}
    \cup (IF definition.requires THEN {"no_relevant_evidence"} ELSE {})

\* What the check of a definition can come to.
AllowedReasons(definition) ==
  {"collector_not_run", "collector_incomplete", "evidence_conflicts_with_intent"}
    \cup (IF definition.requires THEN {"no_relevant_evidence"} ELSE {})
    \cup (IF definition.proves THEN {"complete_evidence_supports_intent"}
          ELSE {"collector_cannot_prove_satisfaction"})

\* _validate_evaluation: nothing but what this proposition can come to.
ExpectedReasons(proposition, checks, enabled) ==
  IF proposition.category \notin enabled THEN {"category_not_enabled_by_policy"}
  ELSE IF proposition.check = NoCheck THEN {"check_not_declared"}
  ELSE IF proposition.check \notin DOMAIN checks THEN {"check_not_registered"}
  ELSE IF proposition.category # checks[proposition.check].category THEN {}
  ELSE AllowedReasons(checks[proposition.check])

\* build_capability_plan, of a report with these positions.
CapabilityPlanExists(catalog, checks, enabled, positions) ==
  /\ DOMAIN positions = DOMAIN catalog
  /\ \A p \in DOMAIN catalog :
       /\ positions[p].check = catalog[p].check
       /\ ReasonStatus[positions[p].reason] = positions[p].status
       /\ positions[p].reason \in ExpectedReasons(catalog[p], checks, enabled)

\* _action: the gaps the plan has an issue for; for the rest it notes a resolution.
Gaps(positions) ==
  {p \in DOMAIN positions : positions[p].reason \in ActionableGapReasons}

=============================================================================

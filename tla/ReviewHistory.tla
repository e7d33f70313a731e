----------------------------- MODULE ReviewHistory -----------------------------
(***************************************************************************)
(* What a review makes of the fleet and of the report before it: intent    *)
(* compilation, lifecycle comparison, the evidence table, the material     *)
(* that decides whether a report is proposed, and the plan that turns it   *)
(* into fleet issues.  Reports are accepted one after another, each made   *)
(* from the one it replaces; that none is skipped, and which are declined, *)
(* is the business of ReportDelivery.                                      *)
(***************************************************************************)
EXTENDS Naturals, FiniteSets, Functions

CONSTANTS
  Concerns,            \* what the intent catalog and its checks can complain of
  EvidenceIds,         \* the identities evidence can have
  Relevant,            \* the evidence each concern's check looks at
  Collectors,
  CollectorOf,         \* the collector each concern's check trusts
  Priorities,
  Conflicts,           \* facts that conflict with the intent; "sound" is one that does not
  Policies,            \* the policies and intent catalogs the owner moves between
  MaxRecommendations,  \* policy.yaml, max_recommendations
  MaxIssueActions      \* MAX_ISSUE_ACTIONS

Facts == Conflicts \cup {"sound"}

\* A collector's evidence: "absent" where there is none.
Observations == [found : [EvidenceIds -> Facts \cup {"absent"}], complete : SUBSET Collectors]

\* priority: "none" for a concern whose intent is not declared or whose category
\* is not enabled.  traded: concerns with an accepted trade-off.
Policy == [priority : [Concerns -> Priorities \cup {"none"}],
           suppressed : SUBSET Concerns, traded : SUBSET Concerns]

\* What identifies a finding from run to run is its fingerprint: concern and citations.
Recommendation == [concern : Concerns, cites : SUBSET EvidenceIds, priority : Priorities,
                   status : {"new", "unchanged", "resolved", "suppressed"},
                   traded : BOOLEAN]

ASSUME ConcernsAssumption == IsFiniteSet(Concerns)
ASSUME RelevantAssumption ==
  /\ Relevant \in [Concerns -> SUBSET EvidenceIds]
  /\ CollectorOf \in [Concerns -> Collectors]
  \* One record per check: no two concerns share evidence.
  /\ \A c, d \in Concerns : c # d => Relevant[c] \cap Relevant[d] = {}
ASSUME FactsAssumption == {"sound", "absent"} \cap Conflicts = {}
ASSUME PoliciesAssumption == Policies \subseteq Policy /\ "none" \notin Priorities
ASSUME BoundsAssumption == MaxRecommendations \in Nat /\ MaxIssueActions \in Nat

VARIABLES
  policy,  \* the policy and intent on main
  report   \* the report on main

vars == <<policy, report>>

Fingerprint(rec) == <<rec.concern, rec.cites>>
Fingerprints(recs) == {Fingerprint(rec) : rec \in recs}
Cited(recs) == UNION {rec.cites : rec \in recs}
IsOpen(rec) == rec.status \in {"new", "unchanged"}

-----------------------------------------------------------------------------
(***************************************************************************)
(* The review.                                                             *)
(* The definitions with a suffix are variants a mistake in this code could *)
(* produce, used to show that the properties notice it.                    *)
(***************************************************************************)

Divergent(c, found) == {e \in Relevant[c] : found[e] \in Conflicts}

Candidates_Undeclared(seen, bounds) ==
  {[concern |-> c, cites |-> Divergent(c, seen.found), priority |-> bounds.priority[c],
    status |-> "new", traded |-> c \in bounds.traded] :
     c \in {d \in Concerns : Divergent(d, seen.found) # {}}}

\* One work item per declared concern with conflicting evidence, citing all of it.
Candidates(seen, bounds) ==
  {[concern |-> c, cites |-> Divergent(c, seen.found), priority |-> bounds.priority[c],
    status |-> "new", traded |-> c \in bounds.traded] :
     c \in {d \in Concerns : bounds.priority[d] # "none" /\ Divergent(d, seen.found) # {}}}

\* The gate a finding of an earlier report passes before it is repeated: the
\* evidence table that came with it must carry and support every citation.
IsPriorValid(rec, bounds, table) ==
  /\ rec.cites \subseteq DOMAIN table
  /\ \A e \in rec.cites : e \in Relevant[rec.concern] /\ table[e] \in Conflicts
  /\ rec.priority = bounds.priority[rec.concern]

Fresh(prior, seen, bounds) ==
  {[rec EXCEPT !.status = IF rec.concern \in bounds.suppressed THEN "suppressed"
                          ELSE IF Fingerprint(rec) \in Fingerprints(prior.recs)
                          THEN "unchanged" ELSE "new"] : rec \in Candidates(seen, bounds)}

Carried_Resolved(prior, seen, bounds) ==
  {[rec EXCEPT !.status = "resolved"] :
     rec \in {r \in prior.recs :
                /\ Fingerprint(r) \notin Fingerprints(Candidates(seen, bounds))
                /\ r.concern \notin bounds.suppressed
                /\ IsPriorValid(r, bounds, prior.facts)}}

\* Findings the current run did not reproduce.
Carried(prior, seen, bounds) ==
  {[rec EXCEPT !.status = IF CollectorOf[rec.concern] \in seen.complete
                          THEN "resolved" ELSE "unchanged",
               !.traded = rec.concern \in bounds.traded] :
     rec \in {r \in prior.recs :
                /\ Fingerprint(r) \notin Fingerprints(Candidates(seen, bounds))
                /\ r.concern \notin bounds.suppressed
                /\ IsPriorValid(r, bounds, prior.facts)}}

EvidenceFor_CurrentOnly(prior, seen, bounds) == seen.found

EvidenceFor_PriorFirst(prior, seen, bounds) ==
  [e \in EvidenceIds |-> IF e \in DOMAIN prior.facts THEN prior.facts[e] ELSE seen.found[e]]

\* What the current findings cite is shown as it is now, and what only earlier
\* ones cite as it was when it supported them.
EvidenceFor(prior, seen, bounds) ==
  LET current == Cited(Candidates(seen, bounds))
  IN  [e \in EvidenceIds |-> IF e \in DOMAIN prior.facts \ current
                             THEN prior.facts[e] ELSE seen.found[e]]

Assemble(prior, seen, bounds) ==
  LET recs == Fresh(prior, seen, bounds) \cup Carried(prior, seen, bounds)
      merged == EvidenceFor(prior, seen, bounds)
  IN  [policy |-> bounds, complete |-> seen.complete, recs |-> recs,
       facts |-> Restrict(merged, {e \in Cited(recs) : merged[e] # "absent"})]

-----------------------------------------------------------------------------
(***************************************************************************)
(* What a report is for: the signature, and the issue plan.                *)
(***************************************************************************)

Material_Transitions(r) ==
  [policy |-> r.policy, complete |-> r.complete, facts |-> r.facts,
   findings |-> {<<Fingerprint(rec), rec.status, rec.traded>> : rec \in r.recs}]

\* Whether a finding is new or unchanged is not material.
Material(r) ==
  [policy |-> r.policy, complete |-> r.complete, facts |-> r.facts,
   findings |-> {<<Fingerprint(rec), IF IsOpen(rec) THEN "open" ELSE rec.status,
                   rec.traded>> : rec \in r.recs}]

\* The findings the plan acts on; the others are suppressed, accepted or
\* deferred until their collector completes.
Actions(r) ==
  {rec \in r.recs : /\ rec.status # "suppressed" /\ ~rec.traded
                    /\ CollectorOf[rec.concern] \in r.complete}

\* What build_issue_plan demands of a report before it derives an action.
PlanConsistent(r, bounds) ==
  /\ r.policy = bounds
  /\ Cardinality(Fingerprints(r.recs)) = Cardinality(r.recs)
  /\ \A rec \in r.recs :
       /\ IsPriorValid(rec, bounds, r.facts)
       /\ rec.traded = (rec.concern \in bounds.traded)
       /\ (rec.status = "suppressed") = (rec.concern \in bounds.suppressed)
  /\ Cardinality({rec \in Actions(r) : IsOpen(rec)}) <= MaxRecommendations

PlanFits(r) == Cardinality(Actions(r)) <= MaxIssueActions

-----------------------------------------------------------------------------
(***************************************************************************)
(* The history of accepted reports.                                        *)
(***************************************************************************)

NoReport(bounds) == [policy |-> bounds, complete |-> {}, recs |-> {}, facts |-> << >>]

Init == \E p \in Policies : policy = p /\ report = NoReport(p)

\* More divergences than the policy allows make the review fail.
Reviewable(seen) == Cardinality(Candidates(seen, policy)) <= MaxRecommendations

\* A review whose prospective plan can be built and whose material is news is
\* proposed, and merged.
AcceptReview(seen) ==
  LET next == Assemble(report, seen, policy)
  IN  /\ Reviewable(seen)
      /\ PlanConsistent(next, policy) /\ PlanFits(next)
      /\ Material(next) # Material(report)
      /\ report' = next
      /\ UNCHANGED policy

PolicyChanges ==
  /\ policy' \in Policies \ {policy}
  /\ UNCHANGED report

Next == (\E seen \in Observations : AcceptReview(seen)) \/ PolicyChanges

Spec == Init /\ [][Next]_vars

-----------------------------------------------------------------------------
(***************************************************************************)
(* Properties of every review that could come next.                        *)
(***************************************************************************)

\* Every variable has its type: in particular no finding is published for a
\* concern whose intent is not declared, and every fact shown was collected.
TypeOK ==
  /\ policy \in Policies
  /\ report \in [policy : Policies, complete : SUBSET Collectors,
                 recs : SUBSET Recommendation,
                 facts : UNION {[S -> Facts] : S \in SUBSET EvidenceIds}]

\* What the review makes, the publisher accepts: however findings came, went
\* and were carried over since they were first made, and whatever the owner
\* changed meanwhile, no report is refused as inconsistent (build_issue_plan).
ReviewsArePublishable ==
  \A seen \in Observations :
    Reviewable(seen) => PlanConsistent(Assemble(report, seen, policy), policy)

\* A review that finds the fleet as the accepted report did proposes nothing,
\* or the schedule would put the same report before the owner every day.
ReviewsSettle ==
  \A seen \in Observations :
    Reviewable(seen) =>
      LET next == Assemble(report, seen, policy)
      IN  Material(Assemble(next, seen, policy)) = Material(next)

\* Only the owner drops an open finding: it stays in the reports until its
\* collector has run to completion without it, unless the owner suppresses
\* the concern, changes its priority or withdraws its intent.
OpenFindingsStay ==
  \A seen \in Observations :
    \A rec \in report.recs :
      /\ IsOpen(rec)
      /\ rec.concern \notin policy.suppressed
      /\ rec.priority = policy.priority[rec.concern]
      => \E later \in Assemble(report, seen, policy).recs :
           /\ Fingerprint(later) = Fingerprint(rec)
           /\ later.status = "resolved" => CollectorOf[rec.concern] \in seen.complete

\* Nothing that conflicts now hides behind history: it is in the report as an
\* open finding, unless suppressed, and shown with the facts of now.
ConflictsAreReported ==
  \A seen \in Observations :
    Reviewable(seen) =>
      LET next == Assemble(report, seen, policy)
      IN  \A c \in Concerns \ policy.suppressed :
            policy.priority[c] # "none" /\ Divergent(c, seen.found) # {} =>
              /\ \E rec \in next.recs : Fingerprint(rec) = <<c, Divergent(c, seen.found)>>
                                        /\ IsOpen(rec)
              /\ \A e \in Divergent(c, seen.found) : next.facts[e] = seen.found[e]

(***************************************************************************)
(* What the documentation says and the review does not do.                 *)
(***************************************************************************)

\* docs/decisions/0001: a finding becomes resolved only when "a later run stops
\* seeing the evidence".  Some of what a resolved finding cites is not seen.
ResolvedIsGone ==
  \A seen \in Observations :
    \A rec \in Assemble(report, seen, policy).recs :
      rec.status = "resolved" => ~(rec.cites \subseteq Divergent(rec.concern, seen.found))

=============================================================================

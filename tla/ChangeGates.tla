-------------------------------- MODULE ChangeGates --------------------------------
(***************************************************************************)
(* The gates on changes.  A change of the fleet passes the intent gate: the *)
(* advisor the fleet has pinned reviews it and what it is based on.  A      *)
(* change of the advisor goes through the drills and the ratchet, which     *)
(* hold one checkout of the fleet constant and report what slipped, and is  *)
(* merged later, a slip too if a maintainer says why.  The fleet changes    *)
(* in between and moves its pin when it likes.                             *)
(*                                                                         *)
(* For every position the fleet has a file with some of three forms:        *)
(* "fine", the violation its drill applies, and another violation.  A file  *)
(* that is not readable hides them and makes its collector incomplete.      *)
(***************************************************************************)
EXTENDS CapabilityPlan, Integers

CONSTANTS
  Catalogs,   \* catalogs to start with, functions from positions to registered checks
  MaxAdvisorChanges

VARIABLES
  about,    \* position -> the check that is about it
  fleet,    \* position -> its file
  advisor,  \* the advisor's main branch
  pinned,   \* the advisor the fleet's workflow uses
  judged,   \* the last run of the gates on a change of the advisor that is yet to merge
  changes   \* how often the advisor has changed

vars == <<about, fleet, advisor, pinned, judged, changes>>

ASSUME CatalogsAssumption ==
  \A c \in Catalogs : /\ \A p \in DOMAIN c : c[p] \in DOMAIN Registry
                      /\ \A p, q \in DOMAIN c : p # q => c[p] # c[q]

ASSUME BoundAssumption == MaxAdvisorChanges \in Nat

\* No item is evidence for two checks, and every check looks somewhere.
ASSUME RegistryAssumption ==
  /\ NoCheck \notin DOMAIN Registry
  /\ \A c \in DOMAIN Registry : Registry[c].scope # {}
  /\ \A c, d \in DOMAIN Registry :
       /\ c # d
       /\ Registry[c].collector = Registry[d].collector /\ Registry[c].kind = Registry[d].kind
       => Registry[d].scope # Everywhere /\ (Registry[c].scope \cap Registry[d].scope) = {}

Violations == {"drilled", "other"}
Forms == {"fine"} \cup Violations
Files == [forms : SUBSET Forms, readable : BOOLEAN]
Expectations == {"divergent", "declared_unverified"}

Subjects == DOMAIN about
Definition(p) == Registry[about[p]]
Categories == {Definition(p).category : p \in Subjects}

\* An advisor: the positions with a declared check and their categories (intent), the
\* enabled categories (policy), the registered checks, the violations each check's
\* collector recognises, the drills, and those it was merged with and caught.
Advisors ==
  [declared : SUBSET Subjects, category : [Subjects -> Categories],
   enabled : SUBSET Categories, registered : SUBSET Subjects,
   eyes : [Subjects -> SUBSET Violations], drills : [Subjects -> SUBSET Expectations],
   caught : SUBSET Subjects]

\* A run of the gates: the proposal with what its drills caught, the positions that
\* slipped, and those whose file on the fleet has changed since the checkout.
GateRuns == [proposal : Advisors, slipped : SUBSET Subjects, moved : SUBSET Subjects]

-----------------------------------------------------------------------------
(***************************************************************************)
(* A review of a fleet by an advisor.                                      *)
(***************************************************************************)

CatalogOf(a) ==
  [p \in Subjects |-> [check |-> IF p \in a.declared THEN about[p] ELSE NoCheck,
                       category |-> a.category[p]]]

ChecksOf(a) == [c \in {about[p] : p \in a.registered} |-> Registry[c]]

\* What the collector says of a readable form.  Where no fact is required, only
\* violations are evidence.
ItemsOf(a, p, form) ==
  LET violates == form \in a.eyes[p]
  IN  IF violates \/ Definition(p).required # {}
      THEN {[collector |-> Definition(p).collector, kind |-> Definition(p).kind,
             area |-> CHOOSE area \in Definition(p).scope : TRUE,
             facts |-> IF violates THEN Definition(p).required ELSE {}]}
      ELSE {}

EvidenceOf(a, content) ==
  UNION {UNION {ItemsOf(a, p, f) : f \in content[p].forms}
           : p \in {q \in Subjects : content[q].readable}}

CoverageOf(content) ==
  [c \in {Definition(p).collector : p \in Subjects} |->
     IF \E p \in Subjects : Definition(p).collector = c /\ ~content[p].readable
     THEN "partial" ELSE "ok"]

HasReport(a) == Compiles(CatalogOf(a), ChecksOf(a), a.enabled)

Review(a, content) ==
  Positions(CatalogOf(a), ChecksOf(a), a.enabled, EvidenceOf(a, content), CoverageOf(content))

-----------------------------------------------------------------------------
(***************************************************************************)
(* The gates.                                                              *)
(***************************************************************************)

IsUnverified(position) == position.status = "declared_unverified"

Regressions(before, after) ==
  {p \in DOMAIN after : after[p].status = "divergent" /\ before[p].status # "divergent"}

IsFixed_AnyReason(position) == position.status = "satisfied" \/ IsUnverified(position)

\* A check that proves nothing reports a fix by its reason.
IsFixed(position) ==
  \/ position.status = "satisfied"
  \/ IsUnverified(position) /\ position.reason = "collector_cannot_prove_satisfaction"

Obscured_DivergentOnly(before, after) ==
  {p \in DOMAIN after : /\ IsUnverified(after[p]) /\ before[p].status = "divergent"
                        /\ ~IsFixed(after[p])}

\* A decisive result is lost, other than by a fix.
Obscured(before, after) ==
  {p \in DOMAIN after : /\ IsUnverified(after[p]) /\ ~IsUnverified(before[p])
                        /\ ~(before[p].status = "divergent" /\ IsFixed(after[p]))}

IntentGatePasses(before, after) ==
  Regressions(before, after) = {} /\ Obscured(before, after) = {}

LostChecks(before, after) ==
  {p \in DOMAIN before : before[p].check # NoCheck /\ after[p].check = NoCheck}

LostProof(before, after) ==
  {p \in DOMAIN before : ~IsUnverified(before[p]) /\ IsUnverified(after[p])}

VanishedFindings(before, after) ==
  {p \in DOMAIN before : before[p].status = "divergent" /\ after[p].status = "satisfied"}

Slips_MayVanish(before, after) == LostChecks(before, after) \cup LostProof(before, after)

\* The positions the ratchet reports as slipped; it holds if there are none.
Slips(before, after) ==
  LostChecks(before, after) \cup LostProof(before, after) \cup VanishedFindings(before, after)

\* A drill replaces the text of the fine form.
Drilled(content, p, expect) ==
  IF expect = "divergent"
  THEN [content EXCEPT ![p].forms = (@ \ {"fine"}) \cup {"drilled"}]
  ELSE [content EXCEPT ![p].readable = FALSE]

DrillOutcome_NoBase(a, content, p, expect) ==
  IF "fine" \notin content[p].forms THEN "stale"
  ELSE IF Review(a, Drilled(content, p, expect))[p].status = expect THEN "caught" ELSE "missed"

\* run_drills.
DrillOutcome(a, content, p, expect) ==
  LET base == Review(a, content)[p].status
  IN  IF "fine" \notin content[p].forms THEN "stale"
      ELSE IF base = "divergent" THEN "already_divergent"
      ELSE IF base # expect /\ Review(a, Drilled(content, p, expect))[p].status = expect
      THEN "caught" ELSE "missed"

DrillsPass(a, content) ==
  /\ \E p \in Subjects : a.drills[p] # {}
  /\ \A p \in Subjects : \A expect \in a.drills[p] :
       DrillOutcome(a, content, p, expect) \in {"caught", "already_divergent"}

CaughtBy(a, content) ==
  {p \in Subjects : /\ "divergent" \in a.drills[p]
                    /\ DrillOutcome(a, content, p, "divergent") = "caught"}

IsComparable_NoReport(a, content) == DrillsPass(a, content)

\* What the gates can compare: the drills come before the ratchet, and a head advisor
\* without a report has lost everything.
IsComparable(a, content) == HasReport(a) /\ DrillsPass(a, content)

-----------------------------------------------------------------------------
(***************************************************************************)
(* What a pull request of either repository may change.                    *)
(***************************************************************************)

Toggle(set, item) == IF item \in set THEN set \ {item} ELSE set \cup {item}

\* A check comes or goes with its drills.
Reregistered(a, p, drills) == [a EXCEPT !.registered = Toggle(@, p), !.drills[p] = drills]

Proposals(a) ==
  UNION {
    {[a EXCEPT !.declared = Toggle(@, p)] : p \in Subjects},
    {Reregistered(a, p, drills) : p \in Subjects, drills \in SUBSET Expectations},
    {[a EXCEPT !.category[p] = category] : p \in Subjects, category \in Categories},
    {[a EXCEPT !.enabled = Toggle(@, category)] : category \in Categories},
    {[a EXCEPT !.eyes[p] = eyes] : p \in Subjects, eyes \in SUBSET Violations},
    {[a EXCEPT !.drills[p] = drills] : p \in Subjects, drills \in SUBSET Expectations}}

\* The pinned advisor reviews the merge result and its first parent.
FleetChanges(p) ==
  \E file \in Files :
    LET changed == [fleet EXCEPT ![p] = file]
    IN  /\ changed # fleet
        /\ IntentGatePasses(Review(pinned, fleet), Review(pinned, changed))
        /\ fleet' = changed
        /\ judged' = {[run EXCEPT !.moved = @ \cup {p}] : run \in judged}
        /\ UNCHANGED <<about, advisor, pinned, changes>>

\* Its own gate compares two reviews of the same content.
FleetPinsAdvisor ==
  /\ pinned # advisor
  /\ pinned' = advisor
  /\ UNCHANGED <<about, fleet, advisor, judged, changes>>

\* Quality checks out the fleet, drills the proposal and compares it with its base.  A
\* run that a later one replaces leaves nothing, so only the last one is followed.
GatesJudge ==
  /\ judged = {}
  /\ changes < MaxAdvisorChanges
  /\ \E a \in Proposals(advisor) \ {advisor} :
       /\ IsComparable(a, fleet)
       /\ judged' = {[proposal |-> [a EXCEPT !.caught = CaughtBy(a, fleet)],
                      slipped |-> Slips(Review(advisor, fleet), Review(a, fleet)),
                      moved |-> {}]}
  /\ UNCHANGED <<about, fleet, advisor, pinned, changes>>

\* The merge comes later, by the worker or, of a slip, by a maintainer.
AdvisorChanges ==
  /\ \E run \in judged : advisor' = run.proposal
  /\ judged' = {}
  /\ changes' = changes + 1
  /\ UNCHANGED <<about, fleet, pinned>>

\* The fleet as the gate finds it, and an advisor with every check and drill that
\* recognises the drilled violation and perhaps the other.
Init ==
  /\ about \in Catalogs
  /\ fleet \in [Subjects -> [forms : SUBSET Forms, readable : {TRUE}]]
  /\ \E eyes \in [Subjects -> {{"drilled"}, Violations}] :
       LET a == [declared |-> Subjects, category |-> [p \in Subjects |-> Definition(p).category],
                 enabled |-> Categories, registered |-> Subjects, eyes |-> eyes,
                 drills |-> [p \in Subjects |-> IF Definition(p).proves THEN Expectations
                                                ELSE {"divergent"}],
                 caught |-> {}]
       IN  advisor = [a EXCEPT !.caught = CaughtBy(a, fleet)]
  /\ pinned = advisor
  /\ judged = {}
  /\ changes = 0

Next ==
  \/ \E p \in Subjects : FleetChanges(p)
  \/ FleetPinsAdvisor
  \/ GatesJudge
  \/ AdvisorChanges

Spec == Init /\ [][Next]_vars

-----------------------------------------------------------------------------
\* Every variable has its type, and both advisors can write a report: no change of
\* intent, policy or registry that is merged leaves one that cannot.
TypeOK ==
  /\ about \in Catalogs
  /\ fleet \in [Subjects -> Files]
  /\ advisor \in Advisors /\ pinned \in Advisors
  /\ HasReport(advisor) /\ HasReport(pinned)
  /\ judged \subseteq GateRuns /\ \A run, other \in judged : run = other
  /\ \A run \in judged : HasReport(run.proposal)
  /\ changes \in 0..MaxAdvisorChanges /\ (judged # {} => changes < MaxAdvisorChanges)

\* The registry's own account of what a review can say agrees with what reviews say:
\* of every report on main, also one whose evidence is broken, there is a capability
\* plan, with an issue for each position that is enabled and yet undecided.
ReportsMakeCapabilityPlans ==
  LET positions == Review(advisor, fleet)
  IN  /\ CapabilityPlanExists(CatalogOf(advisor), ChecksOf(advisor), advisor.enabled, positions)
      /\ Gaps(positions) = {p \in Subjects : /\ IsUnverified(positions[p])
                                             /\ advisor.category[p] \in advisor.enabled}

StatusBy(a, content, p) == Review(a, content)[p].status

\* No form the advisor would recognise is there, readable or not.
IsFree(a, content, p) == a.eyes[p] \cap content[p].forms = {}

\* "A change must not hide a divergence by making a collector incomplete": what the
\* pinned advisor has proved stays true through every change of the fleet, not only
\* undisputed.
ProvedStaysTrue ==
  [][\A p \in Subjects :
       (pinned' = pinned /\ StatusBy(pinned, fleet, p) = "satisfied")
         => IsFree(pinned, fleet', p)]_vars

\* A divergence ends on the fleet only by a change that leaves no violation the
\* advisor recognises: breaking a file, moving it out of reach or deleting what a
\* check needs to look at does not end one.
DivergenceEndsFixed ==
  [][\A p \in Subjects :
       (/\ pinned' = pinned /\ StatusBy(pinned, fleet, p) = "divergent"
        /\ StatusBy(pinned, fleet', p) # "divergent")
         => IsFree(pinned, fleet', p)]_vars

\* Drills and gate together: the violation a drill was caught with does not enter the
\* fleet in a position that is proved, under whichever advisor merged with it is pinned.
DrilledViolationStaysOut ==
  [][\A p \in Subjects :
       (/\ pinned' = pinned /\ p \in pinned.caught
        /\ StatusBy(pinned, fleet, p) = "satisfied")
         => "drilled" \notin fleet'[p].forms]_vars

\* A divergence main's advisor reports is one it no longer reports, though the file stays.
Lost(p) ==
  /\ fleet'[p] = fleet[p]
  /\ StatusBy(advisor, fleet, p) = "divergent"
  /\ StatusBy(advisor, fleet, p)' # "divergent"

\* Where the merged change was judged on another file than the one it meets.
JudgedElsewhere(p) == \E run \in judged : advisor' = run.proposal /\ p \in run.moved

\* A reported divergence is reported until its file changes.  Else it goes with an
\* advisor whose gates have shown that very position as slipped, however the fleet has
\* changed at other positions since; exempt is only a file that has itself changed
\* between the gates and the merge.
FindingsLast ==
  [][\A p \in Subjects :
       Lost(p) => \/ \E run \in judged : advisor' = run.proposal /\ p \in run.slipped
                  \/ JudgedElsewhere(p)]_vars

\* "The ratchet guard proves an advisor change did not quietly lose ground"
\* (docs/status.md), without the exemption.  TLC refutes it.
NothingLostQuietly ==
  [][\A p \in Subjects :
       Lost(p) => \E run \in judged : advisor' = run.proposal /\ p \in run.slipped]_vars

=============================================================================

--------------------------- MODULE ChangeGatesProofs ---------------------------
(***************************************************************************)
(* Theorems about ChangeGates, for every catalog of registered checks and  *)
(* every sequence of changes of the fleet, its pin and the advisor.        *)
(*                                                                         *)
(* All of them rest on one account of a divergence: a position diverges    *)
(* exactly if its check is bound and the advisor recognises a violation in *)
(* a file it can read.                                                     *)
(***************************************************************************)
EXTENDS ChangeGates, TLAPS

Statuses == {"divergent", "satisfied", "declared_unverified"}
Reasons == DOMAIN ReasonStatus

OutcomeOf(a, content, p) ==
  Outcome(CatalogOf(a)[p], ChecksOf(a), a.enabled, EvidenceOf(a, content), CoverageOf(content))

\* The check a position declares is one the advisor resolves.
IsBound(a, p) ==
  /\ p \in a.declared /\ about[p] # NoCheck
  /\ \E q \in a.registered : about[q] = about[p]
  /\ a.category[p] \in a.enabled

-----------------------------------------------------------------------------
(***************************************************************************)
(* What a review says.                                                     *)
(***************************************************************************)

\* An outcome is a status with a reason for it.
LEMMA OutcomeShape ==
  ASSUME NEW proposition, NEW checks, NEW enabled, NEW evidence, NEW coverage
  PROVE  LET outcome == Outcome(proposition, checks, enabled, evidence, coverage)
         IN  /\ outcome \in [status : Statuses, reason : Reasons]
             /\ ReasonStatus[outcome.reason] = outcome.status
<1> DEFINE Shaped(o) == /\ o \in [status : Statuses, reason : Reasons]
                        /\ ReasonStatus[o.reason] = o.status
<1>1. \A reason \in Reasons : ReasonStatus[reason] = "declared_unverified"
        => Shaped(Unverified(reason))
  BY DEF Unverified, Statuses, Reasons
<1>2. Shaped([status |-> "divergent", reason |-> "evidence_conflicts_with_intent"])
      /\ Shaped([status |-> "satisfied", reason |-> "complete_evidence_supports_intent"])
  BY DEF Statuses, Reasons, ReasonStatus
<1>3. /\ {"check_not_declared", "check_not_registered", "category_not_enabled_by_policy",
          "collector_not_run", "collector_incomplete", "no_relevant_evidence",
          "collector_cannot_prove_satisfaction"} \subseteq Reasons
      /\ ReasonStatus["check_not_declared"] = "declared_unverified"
      /\ ReasonStatus["check_not_registered"] = "declared_unverified"
      /\ ReasonStatus["category_not_enabled_by_policy"] = "declared_unverified"
      /\ ReasonStatus["collector_not_run"] = "declared_unverified"
      /\ ReasonStatus["collector_incomplete"] = "declared_unverified"
      /\ ReasonStatus["no_relevant_evidence"] = "declared_unverified"
      /\ ReasonStatus["collector_cannot_prove_satisfaction"] = "declared_unverified"
  BY DEF Reasons, ReasonStatus
<1> HIDE DEF Shaped
<1>4. \A definition, relevant : Shaped(CleanOutcome(definition, relevant))
  BY <1>1, <1>2, <1>3 DEF CleanOutcome
<1>5. \A definition : Shaped(CheckedOutcome(definition, evidence, coverage))
  BY <1>1, <1>2, <1>3, <1>4 DEF CheckedOutcome
<1>6. Shaped(Outcome(proposition, checks, enabled, evidence, coverage))
  BY <1>1, <1>3, <1>5 DEF Outcome
<1> QED
  BY <1>6 DEF Shaped

\* A position carries its outcome.
LEMMA PositionFacts ==
  ASSUME NEW a, NEW content, NEW p \in Subjects
  PROVE  LET position == Review(a, content)[p]
         IN  /\ DOMAIN Review(a, content) = Subjects
             /\ position.check = CatalogOf(a)[p].check
             /\ position.status = OutcomeOf(a, content, p).status
             /\ position.reason = OutcomeOf(a, content, p).reason
<1> DOMAIN CatalogOf(a) = Subjects
  BY DEF CatalogOf
<1> QED
  BY DEF Review, Positions, OutcomeOf

\* What a review knows of a position whose check is bound is the check's account.
LEMMA BoundOutcome ==
  ASSUME NEW a, NEW content, NEW p \in Subjects, IsBound(a, p)
  PROVE  OutcomeOf(a, content, p)
           = CheckedOutcome(Definition(p), EvidenceOf(a, content), CoverageOf(content))
<1>1. CatalogOf(a)[p].check = about[p] /\ CatalogOf(a)[p].category = a.category[p]
  BY DEF CatalogOf, IsBound
<1>2. about[p] \in DOMAIN ChecksOf(a) /\ ChecksOf(a)[about[p]] = Definition(p)
  BY DEF ChecksOf, IsBound, Definition
<1> QED
  BY <1>1, <1>2 DEF OutcomeOf, Outcome, IsBound

\* Of any other position it knows nothing.
LEMMA UnboundOutcome ==
  ASSUME NEW a, NEW content, NEW p \in Subjects, ~IsBound(a, p)
  PROVE  OutcomeOf(a, content, p) \in
           {Unverified("category_not_enabled_by_policy"), Unverified("check_not_declared"),
            Unverified("check_not_registered")}
<1>1. CatalogOf(a)[p].category = a.category[p]
      /\ CatalogOf(a)[p].check = IF p \in a.declared THEN about[p] ELSE NoCheck
  BY DEF CatalogOf
<1>2. DOMAIN ChecksOf(a) = {about[q] : q \in a.registered}
  BY DEF ChecksOf
<1>3. CASE a.category[p] \notin a.enabled
  BY <1>1, <1>3 DEF OutcomeOf, Outcome
<1>4. CASE a.category[p] \in a.enabled /\ CatalogOf(a)[p].check = NoCheck
  BY <1>1, <1>4 DEF OutcomeOf, Outcome
<1>5. CASE a.category[p] \in a.enabled /\ CatalogOf(a)[p].check # NoCheck
  <2>1. p \in a.declared /\ about[p] # NoCheck /\ CatalogOf(a)[p].check = about[p]
    BY <1>1, <1>5
  <2>2. about[p] \notin DOMAIN ChecksOf(a)
    BY <1>2, <1>5, <2>1 DEF IsBound
  <2> QED
    BY <1>1, <1>5, <2>1, <2>2 DEF OutcomeOf, Outcome
<1> QED
  BY <1>3, <1>4, <1>5

\* An item that conflicts with the check of one position is of a violation the
\* advisor recognises there.
LEMMA ConflictIsOwn ==
  ASSUME NEW a, about \in Catalogs, NEW p \in Subjects, NEW q \in Subjects, NEW form,
         NEW item \in ItemsOf(a, q, form), IsDivergent(item, Definition(p))
  PROVE  q = p /\ form \in a.eyes[p]
<1>1. about[p] \in DOMAIN Registry /\ about[q] \in DOMAIN Registry
      /\ (p # q => about[p] # about[q])
  BY CatalogsAssumption DEF Subjects
<1>2. /\ item.collector = Definition(q).collector /\ item.kind = Definition(q).kind
      /\ item.area = CHOOSE area \in Definition(q).scope : TRUE
      /\ item.facts = IF form \in a.eyes[q] THEN Definition(q).required ELSE {}
      /\ form \in a.eyes[q] \/ Definition(q).required # {}
  BY DEF ItemsOf
<1>3. item.area \in Definition(q).scope
  BY <1>1, <1>2, RegistryAssumption DEF Definition
<1>4. /\ item.collector = Definition(p).collector /\ item.kind = Definition(p).kind
      /\ Definition(p).scope = Everywhere \/ item.area \in Definition(p).scope
      /\ Definition(p).required \subseteq item.facts
  BY DEF IsDivergent, IsRelevant
<1>5. q = p
  <2> SUFFICES ASSUME q # p PROVE FALSE
    OBVIOUS
  <2>1. Definition(p).scope # Everywhere
        /\ (Definition(q).scope \cap Definition(p).scope) = {}
    BY <1>1, <1>2, <1>4, RegistryAssumption DEF Definition
  <2> QED
    BY <1>3, <1>4, <2>1
<1> QED
  BY <1>2, <1>4, <1>5

\* And of each such violation there is one.
LEMMA ViolationIsSeen ==
  ASSUME NEW a, about \in Catalogs, NEW p \in Subjects, NEW form \in a.eyes[p]
  PROVE  \E item \in ItemsOf(a, p, form) :
           IsRelevant(item, Definition(p)) /\ IsDivergent(item, Definition(p))
<1> DEFINE item == [collector |-> Definition(p).collector, kind |-> Definition(p).kind,
                    area |-> CHOOSE area \in Definition(p).scope : TRUE,
                    facts |-> Definition(p).required]
<1>1. item \in ItemsOf(a, p, form)
  BY DEF ItemsOf
<1>2. item.area \in Definition(p).scope
  BY CatalogsAssumption, RegistryAssumption DEF Definition, Subjects
<1> QED
  BY <1>1, <1>2 DEF IsDivergent, IsRelevant

\* A divergence, exactly.
LEMMA ConflictExactly ==
  ASSUME NEW a, NEW content, about \in Catalogs, NEW p \in Subjects
  PROVE  (\E item \in EvidenceOf(a, content) : IsDivergent(item, Definition(p)))
           <=> content[p].readable /\ ~IsFree(a, content, p)
<1>1. ASSUME NEW item \in EvidenceOf(a, content), IsDivergent(item, Definition(p))
      PROVE  content[p].readable /\ ~IsFree(a, content, p)
  <2>1. PICK q \in Subjects : /\ content[q].readable
                              /\ \E f \in content[q].forms : item \in ItemsOf(a, q, f)
    BY DEF EvidenceOf
  <2>2. PICK f \in content[q].forms : item \in ItemsOf(a, q, f)
    BY <2>1
  <2>3. q = p /\ f \in a.eyes[p]
    BY <1>1, <2>2, ConflictIsOwn
  <2> QED
    BY <2>1, <2>2, <2>3 DEF IsFree
<1>2. ASSUME content[p].readable, ~IsFree(a, content, p)
      PROVE  \E item \in EvidenceOf(a, content) : IsDivergent(item, Definition(p))
  <2>1. PICK f \in content[p].forms : f \in a.eyes[p]
    BY <1>2 DEF IsFree
  <2>2. PICK item \in ItemsOf(a, p, f) : IsDivergent(item, Definition(p))
    BY <2>1, ViolationIsSeen
  <2>3. item \in EvidenceOf(a, content)
    BY <1>2, <2>1, <2>2 DEF EvidenceOf
  <2> QED
    BY <2>2, <2>3
<1> QED
  BY <1>1, <1>2

LEMMA DivergesExactly ==
  ASSUME NEW a, NEW content, about \in Catalogs, NEW p \in Subjects
  PROVE  StatusBy(a, content, p) = "divergent"
           <=> IsBound(a, p) /\ content[p].readable /\ ~IsFree(a, content, p)
<1>1. StatusBy(a, content, p) = OutcomeOf(a, content, p).status
  BY PositionFacts DEF StatusBy
<1>2. CASE IsBound(a, p)
  <2> DEFINE E == EvidenceOf(a, content)
             K == CoverageOf(content)
             d == Definition(p)
  <2>1. CheckedOutcome(d, E, K).status = "divergent" <=> \E item \in E : IsDivergent(item, d)
    <3>1. (\E item \in {i \in E : IsRelevant(i, d)} : IsDivergent(item, d))
            <=> \E item \in E : IsDivergent(item, d)
      BY DEF IsDivergent
    <3>2. \A relevant : CleanOutcome(d, relevant).status # "divergent"
      BY DEF CleanOutcome, Unverified
    <3> HIDE DEF E, K, d
    <3> QED
      BY <3>1, <3>2 DEF CheckedOutcome, Unverified
  <2> QED
    BY <1>1, <1>2, <2>1, BoundOutcome, ConflictExactly
<1>3. CASE ~IsBound(a, p)
  BY <1>1, <1>3, UnboundOutcome DEF Unverified
<1> QED
  BY <1>2, <1>3

\* What a review reports as free of divergence, proved or not, is read and free.
LEMMA CleanIsFree ==
  ASSUME NEW a, NEW content, about \in Catalogs, NEW p \in Subjects,
         \/ StatusBy(a, content, p) = "satisfied"
         \/ Review(a, content)[p].reason = "collector_cannot_prove_satisfaction"
  PROVE  IsFree(a, content, p)
<1> DEFINE outcome == OutcomeOf(a, content, p)
<1>1. outcome.status = "satisfied" \/ outcome.reason = "collector_cannot_prove_satisfaction"
  BY PositionFacts DEF StatusBy
<1>2. IsBound(a, p)
  BY <1>1, UnboundOutcome DEF Unverified
<1>3. outcome = CheckedOutcome(Definition(p), EvidenceOf(a, content), CoverageOf(content))
  BY <1>2, BoundOutcome
<1>4. CoverageOf(content)[Definition(p).collector] = "ok"
      /\ ~\E item \in EvidenceOf(a, content) : IsDivergent(item, Definition(p))
  <2> DEFINE E == EvidenceOf(a, content)
             K == CoverageOf(content)
             d == Definition(p)
  <2> HIDE DEF E, K, d
  <2>1. \A item \in E : IsDivergent(item, d) => item \in {i \in E : IsRelevant(i, d)}
    BY DEF IsDivergent
  <2>2. CheckedOutcome(d, E, K).status = "satisfied"
        \/ CheckedOutcome(d, E, K).reason = "collector_cannot_prove_satisfaction"
    BY <1>1, <1>3 DEF E, K, d
  <2>3. K[d.collector] = "ok" /\ ~\E item \in E : IsDivergent(item, d)
    BY <2>1, <2>2 DEF CheckedOutcome, Unverified
  <2> QED
    BY <2>3 DEF E, K, d
<1>5. content[p].readable
  BY <1>4 DEF CoverageOf
<1> QED
  BY <1>4, <1>5, ConflictExactly

-----------------------------------------------------------------------------
(***************************************************************************)
(* The invariant: the types, with a report by either advisor, and that an  *)
(* advisor recognises what its drills have caught.                         *)
(***************************************************************************)
SeesWhatItCaught(a) == \A p \in a.caught : "drilled" \in a.eyes[p]

IInv ==
  /\ TypeOK
  /\ SeesWhatItCaught(advisor) /\ SeesWhatItCaught(pinned)
  /\ \A run \in judged : SeesWhatItCaught(run.proposal)

\* A proposal is an advisor.
LEMMA ProposalIsAdvisor ==
  ASSUME NEW a \in Advisors, NEW b \in Proposals(a)
  PROVE  b \in Advisors
<1> DEFINE Declare == {[a EXCEPT !.declared = Toggle(@, p)] : p \in Subjects}
           Register == {Reregistered(a, p, drills) :
                          p \in Subjects, drills \in SUBSET Expectations}
           Move == {[a EXCEPT !.category[p] = category] : p \in Subjects, category \in Categories}
           Enable == {[a EXCEPT !.enabled = Toggle(@, category)] : category \in Categories}
           See == {[a EXCEPT !.eyes[p] = eyes] : p \in Subjects, eyes \in SUBSET Violations}
           Drill == {[a EXCEPT !.drills[p] = drills] :
                       p \in Subjects, drills \in SUBSET Expectations}
<1>1. b \in UNION {Declare, Register, Move, Enable, See, Drill}
  BY DEF Proposals
<1>2. CASE b \in Declare
  BY <1>2 DEF Advisors, Toggle
<1>3. CASE b \in Register
  <2>1. PICK p \in Subjects, drills \in SUBSET Expectations :
          b = Reregistered(a, p, drills)
    BY <1>3
  <2>2. Toggle(a.registered, p) \in SUBSET Subjects
    BY DEF Toggle, Advisors
  <2>3. [a.drills EXCEPT ![p] = drills] \in [Subjects -> SUBSET Expectations]
    BY DEF Advisors
  <2>4. b = [a EXCEPT !.registered = Toggle(a.registered, p),
                      !.drills = [a.drills EXCEPT ![p] = drills]]
    BY <2>1 DEF Advisors, Reregistered
  <2> QED
    BY <2>2, <2>3, <2>4 DEF Advisors
<1>4. CASE b \in Move
  BY <1>4 DEF Advisors
<1>5. CASE b \in Enable
  BY <1>5 DEF Advisors, Toggle
<1>6. CASE b \in See
  BY <1>6 DEF Advisors
<1>7. CASE b \in Drill
  BY <1>7 DEF Advisors
<1> HIDE DEF Declare, Register, Move, Enable, See, Drill
<1> QED
  BY <1>1, <1>2, <1>3, <1>4, <1>5, <1>6, <1>7

\* Noting what the drills caught changes nothing a review depends on.
LEMMA CaughtIsNoted ==
  ASSUME NEW a \in Advisors, NEW caught \in SUBSET Subjects
  PROVE  LET b == [a EXCEPT !.caught = caught]
         IN  /\ b \in Advisors /\ b.caught = caught /\ b.eyes = a.eyes
             /\ HasReport(b) <=> HasReport(a)
             /\ \A content : Review(b, content) = Review(a, content)
<1> DEFINE b == [a EXCEPT !.caught = caught]
<1>1. /\ b \in Advisors /\ b.caught = caught /\ b.eyes = a.eyes /\ b.declared = a.declared
      /\ b.category = a.category /\ b.enabled = a.enabled /\ b.registered = a.registered
  BY DEF Advisors
<1> HIDE DEF b
<1>2. CatalogOf(b) = CatalogOf(a) /\ ChecksOf(b) = ChecksOf(a)
  BY <1>1 DEF CatalogOf, ChecksOf
<1>3. \A content : EvidenceOf(b, content) = EvidenceOf(a, content)
  BY <1>1 DEF EvidenceOf, ItemsOf
<1>4. (HasReport(b) <=> HasReport(a)) /\ \A content : Review(b, content) = Review(a, content)
  BY <1>1, <1>2, <1>3 DEF HasReport, Review
<1> QED
  BY <1>1, <1>4 DEF b

\* A drill is caught by the eyes of the position it drills.
LEMMA CaughtIsSeen ==
  ASSUME NEW a, NEW content \in [Subjects -> Files], about \in Catalogs,
         NEW p \in CaughtBy(a, content)
  PROVE  "drilled" \in a.eyes[p]
<1> DEFINE drilled == Drilled(content, p, "divergent")
<1>1. /\ p \in Subjects
      /\ StatusBy(a, content, p) # "divergent" /\ StatusBy(a, drilled, p) = "divergent"
  BY DEF CaughtBy, DrillOutcome, StatusBy
<1>2. /\ drilled[p].forms = (content[p].forms \ {"fine"}) \cup {"drilled"}
      /\ drilled[p].readable = content[p].readable
  BY <1>1 DEF Drilled, Files
<1>3. IsBound(a, p) /\ drilled[p].readable /\ ~IsFree(a, drilled, p)
  BY <1>1, DivergesExactly
<1>4. IsFree(a, content, p)
  BY <1>1, <1>2, <1>3, DivergesExactly
<1> QED
  BY <1>2, <1>3, <1>4 DEF IsFree

\* The advisor to start with can write a report: every check with its category, and
\* no two positions with one.
LEMMA FirstAdvisorReports ==
  ASSUME NEW a, about \in Catalogs, a.registered \subseteq Subjects,
         a.category = [p \in Subjects |-> Definition(p).category]
  PROVE  HasReport(a)
<1> DEFINE catalog == CatalogOf(a)
           checks == ChecksOf(a)
<1>1. DOMAIN catalog = Subjects
      /\ \A p \in Subjects : /\ catalog[p].category = Definition(p).category
                             /\ catalog[p].check \in {about[p], NoCheck}
  BY DEF CatalogOf
<1>2. \A c \in DOMAIN checks : checks[c] = Registry[c]
  BY DEF ChecksOf
<1>3. \A c \in DOMAIN checks : c # NoCheck
  <2>1. \A q \in a.registered : about[q] # NoCheck
    BY CatalogsAssumption, RegistryAssumption DEF Subjects
  <2> QED
    BY <2>1 DEF ChecksOf
<1>4. \A p, q \in Subjects : p # q => about[p] # about[q]
  BY CatalogsAssumption DEF Subjects
<1> HIDE DEF catalog, checks
<1>5. Compiles(catalog, checks, a.enabled)
  BY <1>1, <1>2, <1>3, <1>4 DEF Compiles, Definition
<1> QED
  BY <1>5 DEF HasReport, catalog, checks

LEMMA InitIInv == Init => IInv
<1> SUFFICES ASSUME Init PROVE IInv
  OBVIOUS
<1>1. PICK eyes \in [Subjects -> {{"drilled"}, Violations}] :
        LET a == [declared |-> Subjects, category |-> [p \in Subjects |-> Definition(p).category],
                  enabled |-> Categories, registered |-> Subjects, eyes |-> eyes,
                  drills |-> [p \in Subjects |-> IF Definition(p).proves THEN Expectations
                                                 ELSE {"divergent"}],
                  caught |-> {}]
        IN  advisor = [a EXCEPT !.caught = CaughtBy(a, fleet)]
  BY DEF Init
<1> DEFINE drills == [p \in Subjects |-> IF Definition(p).proves THEN Expectations
                                         ELSE {"divergent"}]
           categories == [p \in Subjects |-> Definition(p).category]
           a == [declared |-> Subjects, category |-> categories, enabled |-> Categories,
                 registered |-> Subjects, eyes |-> eyes, drills |-> drills, caught |-> {}]
<1>2. advisor = [a EXCEPT !.caught = CaughtBy(a, fleet)]
  BY <1>1
<1>3. drills \in [Subjects -> SUBSET Expectations] /\ categories \in [Subjects -> Categories]
      /\ eyes \in [Subjects -> SUBSET Violations]
  BY DEF Expectations, Categories, Violations
<1>4. HasReport(a)
  BY FirstAdvisorReports DEF Init
<1> HIDE DEF drills, categories
<1>5. a \in Advisors
  BY <1>3 DEF Advisors
<1> HIDE DEF a
<1>6. fleet \in [Subjects -> Files] /\ about \in Catalogs
  BY DEF Init, Files
<1>7. CaughtBy(a, fleet) \in SUBSET Subjects
  BY DEF CaughtBy
<1>8. advisor \in Advisors /\ HasReport(advisor) /\ SeesWhatItCaught(advisor)
  <2>1. advisor \in Advisors /\ advisor.caught = CaughtBy(a, fleet) /\ advisor.eyes = a.eyes
        /\ HasReport(advisor)
    BY <1>2, <1>4, <1>5, <1>7, CaughtIsNoted
  <2> QED
    BY <1>6, <2>1, CaughtIsSeen DEF SeesWhatItCaught
<1>9. pinned = advisor /\ judged = {} /\ changes = 0
  BY DEF Init
<1> QED
  BY <1>6, <1>8, <1>9, BoundAssumption DEF IInv, TypeOK

\* The positions and their checks never change, and so neither does what an advisor is
\* and whether it has a report.
LEMMA SameCatalog ==
  ASSUME about' = about
  PROVE  /\ Subjects' = Subjects /\ Advisors' = Advisors /\ GateRuns' = GateRuns
         /\ \A a : HasReport(a)' <=> HasReport(a)
<1>1. Subjects' = Subjects
  BY DEF Subjects
<1>2. Advisors' = Advisors
  BY <1>1 DEF Advisors, Categories, Definition
<1>3. \A a : HasReport(a)' <=> HasReport(a)
  BY <1>1 DEF HasReport, CatalogOf, ChecksOf
<1>4. GateRuns' = GateRuns
  BY <1>1, <1>2 DEF GateRuns
<1> QED
  BY <1>1, <1>2, <1>3, <1>4

\* What the gates record of a proposal they can compare.
LEMMA JudgedRun ==
  ASSUME about \in Catalogs, fleet \in [Subjects -> Files], advisor \in Advisors,
         NEW a \in Proposals(advisor), HasReport(a)
  PROVE  LET proposal == [a EXCEPT !.caught = CaughtBy(a, fleet)]
         IN  /\ proposal \in Advisors /\ HasReport(proposal) /\ SeesWhatItCaught(proposal)
             /\ \A content : Review(proposal, content) = Review(a, content)
<1> DEFINE proposal == [a EXCEPT !.caught = CaughtBy(a, fleet)]
<1>1. a \in Advisors
  BY ProposalIsAdvisor
<1>2. CaughtBy(a, fleet) \in SUBSET Subjects
  BY DEF CaughtBy
<1>3. /\ proposal \in Advisors /\ proposal.caught = CaughtBy(a, fleet)
      /\ proposal.eyes = a.eyes /\ HasReport(proposal)
      /\ \A content : Review(proposal, content) = Review(a, content)
  BY <1>1, <1>2, CaughtIsNoted
<1>4. SeesWhatItCaught(proposal)
  BY <1>3, CaughtIsSeen DEF SeesWhatItCaught
<1> QED
  BY <1>3, <1>4

\* A slip is a position.
LEMMA SlipsArePositions ==
  ASSUME NEW a, NEW b, NEW content
  PROVE  Slips(Review(a, content), Review(b, content)) \subseteq Subjects
<1> DOMAIN Review(a, content) = Subjects
  BY DEF Review, Positions, CatalogOf
<1> QED
  BY DEF Slips, LostChecks, LostProof, VanishedFindings

LEMMA StepKeepsIInv == IInv /\ [Next]_vars => IInv'
<1> SUFFICES ASSUME IInv, [Next]_vars PROVE IInv'
  OBVIOUS
<1>1. ASSUME about' = about
      PROVE  /\ about \in Catalogs /\ about' \in Catalogs
             /\ \A a \in Advisors : a \in Advisors' /\ (HasReport(a) => HasReport(a)')
             /\ \A run \in GateRuns : run \in GateRuns'
             /\ \A content \in [Subjects -> Files] : content \in [Subjects -> Files]'
  BY <1>1, SameCatalog DEF IInv, TypeOK
<1>2. ASSUME NEW p \in Subjects, FleetChanges(p)
      PROVE  IInv'
  <2>1. PICK file \in Files : fleet' = [fleet EXCEPT ![p] = file]
    BY <1>2 DEF FleetChanges
  <2>2. /\ fleet' \in [Subjects -> Files]
        /\ judged' = {[run EXCEPT !.moved = @ \cup {p}] : run \in judged}
        /\ UNCHANGED <<about, advisor, pinned, changes>>
    BY <1>2, <2>1 DEF FleetChanges, IInv, TypeOK
  <2>3. \A run \in GateRuns :
          LET moved == [run EXCEPT !.moved = @ \cup {p}]
          IN  moved \in GateRuns /\ moved.proposal = run.proposal
    BY DEF GateRuns
  <2>4. judged \subseteq GateRuns /\ \A run, other \in judged : run = other
    BY DEF IInv, TypeOK
  <2>5. /\ judged' \subseteq GateRuns /\ \A run, other \in judged' : run = other
        /\ \A run \in judged' : \E old \in judged : run.proposal = old.proposal
        /\ judged' # {} => judged # {}
    BY <2>2, <2>3, <2>4
  <2>6. \A run \in judged' : HasReport(run.proposal) /\ SeesWhatItCaught(run.proposal)
                              /\ run.proposal \in Advisors
    BY <2>4, <2>5 DEF IInv, TypeOK, GateRuns
  <2>7. TypeOK'
    <3>1. /\ \A run \in judged' : HasReport(run.proposal)'
          /\ HasReport(advisor)' /\ HasReport(pinned)'
      BY <2>2, <2>6, SameCatalog DEF IInv, TypeOK, HasReport, CatalogOf, ChecksOf
    <3>2. /\ advisor' \in Advisors' /\ pinned' \in Advisors' /\ judged' \subseteq GateRuns'
          /\ fleet' \in [Subjects' -> Files]
      BY <1>1, <2>2, <2>5, SameCatalog DEF IInv, TypeOK
    <3> QED
      BY <1>1, <2>2, <2>5, <3>1, <3>2 DEF IInv, TypeOK
  <2> QED
    BY <2>2, <2>6, <2>7 DEF IInv, SeesWhatItCaught
<1>3. CASE FleetPinsAdvisor
  <2>1. pinned' = advisor /\ UNCHANGED <<about, fleet, advisor, judged, changes>>
    BY <1>3 DEF FleetPinsAdvisor
  <2>2. /\ HasReport(advisor)' /\ HasReport(pinned)'
        /\ \A run \in judged' : HasReport(run.proposal)'
    BY <2>1 DEF IInv, TypeOK, HasReport, CatalogOf, ChecksOf, Subjects
  <2> QED
    BY <1>1, <2>1, <2>2, SameCatalog DEF IInv, TypeOK, SeesWhatItCaught
<1>4. CASE GatesJudge
  <2>1. PICK a \in Proposals(advisor) :
          /\ IsComparable(a, fleet)
          /\ judged' = {[proposal |-> [a EXCEPT !.caught = CaughtBy(a, fleet)],
                         slipped |-> Slips(Review(advisor, fleet), Review(a, fleet)),
                         moved |-> {}]}
    BY <1>4 DEF GatesJudge
  <2>2. changes < MaxAdvisorChanges /\ UNCHANGED <<about, fleet, advisor, pinned, changes>>
    BY <1>4 DEF GatesJudge
  <2> DEFINE proposal == [a EXCEPT !.caught = CaughtBy(a, fleet)]
             slipped == Slips(Review(advisor, fleet), Review(a, fleet))
             run == [proposal |-> proposal, slipped |-> slipped, moved |-> {}]
  <2>3. proposal \in Advisors /\ HasReport(proposal) /\ SeesWhatItCaught(proposal)
    BY <2>1, JudgedRun DEF IInv, TypeOK, IsComparable
  <2>4. slipped \subseteq Subjects
    BY SlipsArePositions
  <2>5. judged' = {run}
    BY <2>1
  <2> HIDE DEF proposal, slipped
  <2>6. run \in GateRuns /\ run.proposal = proposal
    BY <2>3, <2>4 DEF GateRuns
  <2> HIDE DEF run
  <2>7. /\ HasReport(advisor)' /\ HasReport(pinned)'
        /\ \A other \in judged' : HasReport(other.proposal)'
    BY <2>2, <2>3, <2>5, <2>6 DEF IInv, TypeOK, HasReport, CatalogOf, ChecksOf, Subjects
  <2>8. TypeOK'
    BY <1>1, <2>2, <2>5, <2>6, <2>7, SameCatalog DEF IInv, TypeOK
  <2> QED
    BY <2>2, <2>3, <2>5, <2>6, <2>8 DEF IInv, SeesWhatItCaught
<1>5. CASE AdvisorChanges
  <2>1. PICK run \in judged : advisor' = run.proposal
    BY <1>5 DEF AdvisorChanges
  <2>2. judged' = {} /\ changes' = changes + 1 /\ UNCHANGED <<about, fleet, pinned>>
    BY <1>5 DEF AdvisorChanges
  <2>3. /\ run.proposal \in Advisors /\ HasReport(run.proposal)
        /\ SeesWhatItCaught(run.proposal)
    BY <2>1 DEF IInv, TypeOK, GateRuns
  <2>4. HasReport(advisor)' /\ HasReport(pinned)'
    BY <2>1, <2>2, <2>3 DEF IInv, TypeOK, HasReport, CatalogOf, ChecksOf, Subjects
  <2>5. changes' \in 0 .. MaxAdvisorChanges
    BY <2>1, <2>2, BoundAssumption DEF IInv, TypeOK
  <2>6. TypeOK'
    BY <1>1, <2>1, <2>2, <2>3, <2>4, <2>5, SameCatalog DEF IInv, TypeOK
  <2> QED
    BY <2>1, <2>2, <2>3, <2>6 DEF IInv, SeesWhatItCaught
<1>6. CASE UNCHANGED vars
  <2>1. UNCHANGED <<about, fleet, advisor, pinned, judged, changes>>
    BY <1>6 DEF vars
  <2>2. /\ HasReport(advisor)' /\ HasReport(pinned)'
        /\ \A run \in judged' : HasReport(run.proposal)'
    BY <2>1 DEF IInv, TypeOK, HasReport, CatalogOf, ChecksOf, Subjects
  <2> QED
    BY <1>1, <2>1, <2>2, SameCatalog DEF IInv, TypeOK, SeesWhatItCaught
<1> QED
  BY <1>2, <1>3, <1>4, <1>5, <1>6 DEF Next

LEMMA Invariance == Spec => []IInv
BY InitIInv, StepKeepsIInv, PTL DEF Spec

\* Every variable keeps its type, and no change that the gates could compare leaves an
\* advisor that cannot write a report.
THEOREM GatesTypeOK == Spec => []TypeOK
<1>1. IInv => TypeOK
  BY DEF IInv
<1> QED
  BY <1>1, Invariance, PTL

-----------------------------------------------------------------------------
(***************************************************************************)
(* The theorems about what changes may do.                                 *)
(***************************************************************************)

\* A step leaves the fleet alone, or changes one file of it by the pinned advisor's gate.
LEMMA FleetSteps ==
  ASSUME IInv, [Next]_vars
  PROVE  /\ about' = about
         /\ \/ fleet' = fleet
            \/ /\ advisor' = advisor /\ pinned' = pinned
               /\ IntentGatePasses(Review(pinned, fleet), Review(pinned, fleet'))
<1>1. ASSUME NEW p \in Subjects, FleetChanges(p)
      PROVE  /\ UNCHANGED <<about, advisor, pinned>>
             /\ IntentGatePasses(Review(pinned, fleet), Review(pinned, fleet'))
  BY <1>1 DEF FleetChanges
<1>2. CASE FleetPinsAdvisor
  BY <1>2 DEF FleetPinsAdvisor
<1>3. CASE GatesJudge \/ AdvisorChanges
  BY <1>3 DEF GatesJudge, AdvisorChanges
<1>4. CASE UNCHANGED vars
  BY <1>4 DEF vars
<1> QED
  BY <1>1, <1>2, <1>3, <1>4 DEF Next

\* What the gate admits of a position.
LEMMA GateAdmits ==
  ASSUME NEW a, NEW before, NEW after, NEW p \in Subjects,
         IntentGatePasses(Review(a, before), Review(a, after))
  PROVE  /\ StatusBy(a, before, p) = "satisfied" => StatusBy(a, after, p) = "satisfied"
         /\ StatusBy(a, before, p) = "divergent" =>
              \/ StatusBy(a, after, p) \in {"divergent", "satisfied"}
              \/ Review(a, after)[p].reason = "collector_cannot_prove_satisfaction"
<1> DEFINE b == Review(a, before)
           c == Review(a, after)
<1>1. p \in DOMAIN c /\ c[p].status \in Statuses
  BY PositionFacts, OutcomeShape DEF OutcomeOf
<1> HIDE DEF b, c
<1>2. ~(c[p].status = "divergent" /\ b[p].status # "divergent")
  BY <1>1 DEF IntentGatePasses, Regressions, b, c
<1>3. ~(/\ IsUnverified(c[p]) /\ ~IsUnverified(b[p])
        /\ ~(b[p].status = "divergent" /\ IsFixed(c[p])))
  BY <1>1 DEF IntentGatePasses, Obscured, b, c
<1>4. /\ b[p].status = "satisfied" => c[p].status = "satisfied"
      /\ b[p].status = "divergent" =>
           c[p].status \in {"divergent", "satisfied"}
           \/ c[p].reason = "collector_cannot_prove_satisfaction"
  BY <1>1, <1>2, <1>3 DEF Statuses, IsUnverified, IsFixed
<1> QED
  BY <1>4 DEF StatusBy, b, c

\* No change of the fleet brings a violation into a position that is proved, also not
\* behind a file that cannot be read.
THEOREM ProofsStand == Spec => ProvedStaysTrue
<1>1. ASSUME IInv, [Next]_vars, NEW p \in Subjects,
             pinned' = pinned, StatusBy(pinned, fleet, p) = "satisfied"
      PROVE  IsFree(pinned, fleet', p)
  <2>1. about \in Catalogs
    BY <1>1 DEF IInv, TypeOK
  <2>2. StatusBy(pinned, fleet', p) = "satisfied"
    BY <1>1, FleetSteps, GateAdmits
  <2> QED
    BY <2>1, <2>2, CleanIsFree
<1>2. IInv /\ [Next]_vars =>
        [\A p \in Subjects :
           (pinned' = pinned /\ StatusBy(pinned, fleet, p) = "satisfied")
             => IsFree(pinned, fleet', p)]_vars
  BY <1>1
<1> QED
  BY <1>2, Invariance, PTL DEF Spec, ProvedStaysTrue

\* On the fleet a divergence ends by a change that leaves no violation the advisor
\* recognises, and by no other.
THEOREM DivergencesEndFixed == Spec => DivergenceEndsFixed
<1>1. ASSUME IInv, [Next]_vars, NEW p \in Subjects, pinned' = pinned,
             StatusBy(pinned, fleet, p) = "divergent",
             StatusBy(pinned, fleet', p) # "divergent"
      PROVE  IsFree(pinned, fleet', p)
  <2>1. about \in Catalogs
    BY <1>1 DEF IInv, TypeOK
  <2>2. \/ StatusBy(pinned, fleet', p) = "satisfied"
        \/ Review(pinned, fleet')[p].reason = "collector_cannot_prove_satisfaction"
    BY <1>1, FleetSteps, GateAdmits
  <2> QED
    BY <2>1, <2>2, CleanIsFree
<1>2. IInv /\ [Next]_vars =>
        [\A p \in Subjects :
           (/\ pinned' = pinned /\ StatusBy(pinned, fleet, p) = "divergent"
            /\ StatusBy(pinned, fleet', p) # "divergent")
             => IsFree(pinned, fleet', p)]_vars
  BY <1>1
<1> QED
  BY <1>2, Invariance, PTL DEF Spec, DivergenceEndsFixed

\* The violation a drill was caught with stays out of every proved position.
THEOREM DrilledViolationsStayOut == Spec => DrilledViolationStaysOut
<1>1. ASSUME IInv, [Next]_vars, NEW p \in Subjects, pinned' = pinned,
             p \in pinned.caught, StatusBy(pinned, fleet, p) = "satisfied"
      PROVE  "drilled" \notin fleet'[p].forms
  <2>1. about \in Catalogs /\ "drilled" \in pinned.eyes[p]
    BY <1>1 DEF IInv, TypeOK, SeesWhatItCaught
  <2>2. StatusBy(pinned, fleet', p) = "satisfied"
    BY <1>1, FleetSteps, GateAdmits
  <2>3. IsFree(pinned, fleet', p)
    BY <2>1, <2>2, CleanIsFree
  <2> QED
    BY <2>1, <2>3 DEF IsFree
<1>2. IInv /\ [Next]_vars =>
        [\A p \in Subjects :
           (/\ pinned' = pinned /\ p \in pinned.caught
            /\ StatusBy(pinned, fleet, p) = "satisfied")
             => "drilled" \notin fleet'[p].forms]_vars
  BY <1>1
<1> QED
  BY <1>2, Invariance, PTL DEF Spec, DrilledViolationStaysOut

\* What a review says depends on nothing but the advisor and the content.
LEMMA SameReview ==
  ASSUME about' = about
  PROVE  \A a, content, p : StatusBy(a, content, p)' = StatusBy(a, content, p)
<1>1. Subjects' = Subjects /\ \A p : Definition(p)' = Definition(p)
  BY DEF Subjects, Definition
<1>2. \A a : CatalogOf(a)' = CatalogOf(a) /\ ChecksOf(a)' = ChecksOf(a)
  BY <1>1 DEF CatalogOf, ChecksOf
<1>3. \A a, p, form : ItemsOf(a, p, form)' = ItemsOf(a, p, form)
  BY <1>1 DEF ItemsOf
<1>4. \A a, content : EvidenceOf(a, content)' = EvidenceOf(a, content)
  BY <1>1, <1>3 DEF EvidenceOf
<1>5. \A content : CoverageOf(content)' = CoverageOf(content)
  BY <1>1 DEF CoverageOf
<1> QED
  BY <1>2, <1>4, <1>5 DEF StatusBy, Review

(***************************************************************************)
(* What the gates have reported stays true of the fleet that a change is    *)
(* merged to, because a divergence is a matter of its own file.             *)
(***************************************************************************)

\* A divergence the merge would lose is one the gates have reported as slipped.
RunsTell ==
  \A run \in judged : \A p \in Subjects \ (run.moved \cup run.slipped) :
    StatusBy(advisor, fleet, p) = "divergent"
      => StatusBy(run.proposal, fleet, p) = "divergent"

\* Whether a position diverges is seen in its own file alone.
LEMMA OwnFileDecides ==
  ASSUME NEW a, NEW before, NEW after, about \in Catalogs, NEW p \in Subjects,
         after[p] = before[p]
  PROVE  StatusBy(a, after, p) = "divergent" <=> StatusBy(a, before, p) = "divergent"
<1>1. IsFree(a, after, p) <=> IsFree(a, before, p)
  BY DEF IsFree
<1> QED
  BY <1>1, DivergesExactly

\* The ratchet reports every divergence the proposal does not see.
LEMMA RatchetTells ==
  ASSUME NEW a, NEW b, NEW content, NEW p \in Subjects,
         StatusBy(a, content, p) = "divergent",
         p \notin Slips(Review(a, content), Review(b, content))
  PROVE  StatusBy(b, content, p) = "divergent"
<1> DEFINE before == Review(a, content)
           after == Review(b, content)
<1>1. p \in DOMAIN before /\ before[p].status = "divergent" /\ after[p].status \in Statuses
  BY PositionFacts, OutcomeShape DEF StatusBy, OutcomeOf
<1>2. p \notin LostProof(before, after) /\ p \notin VanishedFindings(before, after)
  BY DEF Slips
<1> HIDE DEF before, after
<1>3. after[p].status # "declared_unverified" /\ after[p].status # "satisfied"
  BY <1>1, <1>2 DEF LostProof, VanishedFindings, IsUnverified
<1> QED
  BY <1>1, <1>3 DEF Statuses, StatusBy, after

LEMMA StepKeepsRunsTell ==
  ASSUME IInv, RunsTell, [Next]_vars
  PROVE  RunsTell'
<1>1. about \in Catalogs /\ about' = about /\ Subjects' = Subjects
  BY FleetSteps, SameCatalog DEF IInv, TypeOK
<1> SUFFICES ASSUME NEW run \in judged', NEW p \in Subjects \ (run.moved \cup run.slipped),
                    StatusBy(advisor', fleet', p) = "divergent"
             PROVE  StatusBy(run.proposal, fleet', p) = "divergent"
  <2>1. \A a, content, p : StatusBy(a, content, p)' = StatusBy(a, content, p)
    BY <1>1, SameReview
  <2>2. \A a : \A p : StatusBy(a, fleet, p)' = StatusBy(a', fleet', p)
    BY <1>1, SameReview
  <2> QED
    BY <1>1, <2>2 DEF RunsTell
<1>2. ASSUME NEW q \in Subjects, FleetChanges(q)
      PROVE  StatusBy(run.proposal, fleet', p) = "divergent"
  <2>1. PICK old \in judged : run = [old EXCEPT !.moved = @ \cup {q}]
    BY <1>2 DEF FleetChanges
  <2>2. /\ run.proposal = old.proposal /\ run.slipped = old.slipped
        /\ run.moved = old.moved \cup {q}
    BY <2>1 DEF IInv, TypeOK, GateRuns
  <2>3. p # q /\ p \in Subjects \ (old.moved \cup old.slipped)
    BY <2>2
  <2>4. advisor' = advisor /\ fleet'[p] = fleet[p]
    BY <1>2, <2>3 DEF FleetChanges, IInv, TypeOK
  <2>5. StatusBy(advisor, fleet, p) = "divergent"
    BY <1>1, <2>4, OwnFileDecides
  <2>6. StatusBy(old.proposal, fleet, p) = "divergent"
    BY <2>3, <2>5 DEF RunsTell
  <2> QED
    BY <1>1, <2>2, <2>4, <2>6, OwnFileDecides
<1>3. CASE GatesJudge
  <2>1. PICK a \in Proposals(advisor) :
          /\ IsComparable(a, fleet)
          /\ judged' = {[proposal |-> [a EXCEPT !.caught = CaughtBy(a, fleet)],
                         slipped |-> Slips(Review(advisor, fleet), Review(a, fleet)),
                         moved |-> {}]}
    BY <1>3 DEF GatesJudge
  <2>2. advisor' = advisor /\ fleet' = fleet
    BY <1>3 DEF GatesJudge
  <2>3. /\ run.proposal = [a EXCEPT !.caught = CaughtBy(a, fleet)]
        /\ run.slipped = Slips(Review(advisor, fleet), Review(a, fleet))
    BY <2>1
  <2>4. Review(run.proposal, fleet) = Review(a, fleet)
    BY <2>1, <2>3, JudgedRun DEF IInv, TypeOK, IsComparable
  <2>5. StatusBy(a, fleet, p) = "divergent"
    BY <2>2, <2>3, RatchetTells
  <2> QED
    BY <2>2, <2>4, <2>5 DEF StatusBy
<1>4. CASE AdvisorChanges
  BY <1>4 DEF AdvisorChanges
<1>5. CASE FleetPinsAdvisor \/ UNCHANGED vars
  <2>1. judged' = judged /\ advisor' = advisor /\ fleet' = fleet
    BY <1>5 DEF FleetPinsAdvisor, vars
  <2> QED
    BY <2>1 DEF RunsTell
<1> QED
  BY <1>2, <1>3, <1>4, <1>5 DEF Next

LEMMA RunsInvariance == Spec => []RunsTell
<1>1. Init => RunsTell
  BY DEF Init, RunsTell
<1>2. IInv /\ RunsTell /\ [Next]_vars => RunsTell'
  BY StepKeepsRunsTell
<1> QED
  BY <1>1, <1>2, Invariance, PTL DEF Spec

\* A reported divergence is reported until its own file changes, through any change of
\* the fleet elsewhere, also between the gates and the merge, and through every change
\* of the advisor whose gates have not shown it as slipped.
THEOREM ReportedFindingsLast == Spec => FindingsLast
<1>1. ASSUME IInv, RunsTell, [Next]_vars, NEW p \in Subjects, Lost(p)
      PROVE  \/ \E run \in judged : advisor' = run.proposal /\ p \in run.slipped
             \/ JudgedElsewhere(p)
  <2>1. about \in Catalogs /\ about' = about
    BY <1>1, FleetSteps DEF IInv, TypeOK
  <2>2. StatusBy(advisor, fleet, p)' = StatusBy(advisor', fleet', p)
    BY <2>1, SameReview
  <2>3. /\ fleet'[p] = fleet[p] /\ StatusBy(advisor, fleet, p) = "divergent"
        /\ StatusBy(advisor', fleet', p) # "divergent"
    BY <1>1, <2>2 DEF Lost
  <2>4. StatusBy(advisor, fleet', p) = "divergent"
    BY <2>1, <2>3, OwnFileDecides
  <2>5. AdvisorChanges
    BY <1>1, <2>3, <2>4 DEF Next, FleetChanges, FleetPinsAdvisor, GatesJudge, vars
  <2>6. PICK run \in judged : advisor' = run.proposal
    BY <2>5 DEF AdvisorChanges
  <2>7. fleet' = fleet
    BY <2>5 DEF AdvisorChanges
  <2>8. p \in run.moved \cup run.slipped
    BY <1>1, <2>3, <2>6, <2>7 DEF RunsTell
  <2> QED
    BY <2>6, <2>8 DEF JudgedElsewhere
<1>2. IInv /\ RunsTell /\ [Next]_vars =>
        [\A p \in Subjects :
           Lost(p) => \/ \E run \in judged : advisor' = run.proposal /\ p \in run.slipped
                      \/ JudgedElsewhere(p)]_vars
  BY <1>1
<1> QED
  BY <1>2, Invariance, RunsInvariance, PTL DEF Spec, FindingsLast

\* A reason that calls for an issue is one of an enabled and undecided position.
LEMMA GapReasons ==
  ASSUME NEW reason \in Reasons
  PROVE  reason \in ActionableGapReasons <=>
           /\ ReasonStatus[reason] = "declared_unverified"
           /\ reason # "category_not_enabled_by_policy"
BY DEF ActionableGapReasons, Reasons

\* The publisher's table of reasons admits every outcome a review has.
LEMMA OutcomeIsExpected ==
  ASSUME NEW proposition, NEW checks, NEW enabled, NEW evidence, NEW coverage,
         proposition.check \in DOMAIN checks
           => proposition.category = checks[proposition.check].category
  PROVE  LET outcome == Outcome(proposition, checks, enabled, evidence, coverage)
         IN  /\ outcome.reason \in ExpectedReasons(proposition, checks, enabled)
             /\ outcome.reason = "category_not_enabled_by_policy"
                  <=> proposition.category \notin enabled
<1>1. \A definition, relevant :
        LET clean == CleanOutcome(definition, relevant)
        IN  /\ clean.reason \in AllowedReasons(definition)
            /\ clean.reason # "category_not_enabled_by_policy"
  BY DEF CleanOutcome, AllowedReasons, Unverified
<1>2. \A definition :
        LET checked == CheckedOutcome(definition, evidence, coverage)
        IN  /\ checked.reason \in AllowedReasons(definition)
            /\ checked.reason # "category_not_enabled_by_policy"
  BY <1>1 DEF CheckedOutcome, AllowedReasons, Unverified
<1> QED
  BY <1>2 DEF Outcome, ExpectedReasons, Unverified

\* Of every report on main there is a capability plan, also while evidence is broken,
\* with an issue for each position that is enabled and undecided.
THEOREM CapabilityPlansExist == Spec => []ReportsMakeCapabilityPlans
<1>1. ASSUME IInv
      PROVE  ReportsMakeCapabilityPlans
  <2> DEFINE a == advisor
             catalog == CatalogOf(a)
             checks == ChecksOf(a)
             positions == Review(a, fleet)
  <2>1. DOMAIN catalog = Subjects /\ DOMAIN positions = Subjects
        /\ \A p \in Subjects : catalog[p].category = a.category[p]
    BY DEF CatalogOf, Review, Positions
  <2>2. \A p \in Subjects : catalog[p].check \in DOMAIN checks
                              => catalog[p].category = checks[catalog[p].check].category
    BY <1>1, <2>1 DEF IInv, TypeOK, HasReport, Compiles
  <2>3. ASSUME NEW p \in Subjects
        PROVE  /\ positions[p].check = catalog[p].check
               /\ positions[p].reason \in Reasons
               /\ ReasonStatus[positions[p].reason] = positions[p].status
               /\ positions[p].reason \in ExpectedReasons(catalog[p], checks, a.enabled)
               /\ positions[p].reason = "category_not_enabled_by_policy"
                    <=> catalog[p].category \notin a.enabled
    <3> DEFINE outcome == OutcomeOf(a, fleet, p)
    <3>1. positions[p].check = catalog[p].check /\ positions[p].status = outcome.status
          /\ positions[p].reason = outcome.reason
      BY PositionFacts
    <3>2. outcome.reason \in Reasons /\ ReasonStatus[outcome.reason] = outcome.status
      BY OutcomeShape DEF OutcomeOf
    <3>3. /\ outcome.reason \in ExpectedReasons(catalog[p], checks, a.enabled)
          /\ outcome.reason = "category_not_enabled_by_policy"
               <=> catalog[p].category \notin a.enabled
      BY <2>2, OutcomeIsExpected DEF OutcomeOf
    <3> QED
      BY <3>1, <3>2, <3>3
  <2> HIDE DEF catalog, checks, positions
  <2>4. CapabilityPlanExists(catalog, checks, a.enabled, positions)
    BY <2>1, <2>3 DEF CapabilityPlanExists
  <2>5. Gaps(positions) = {p \in Subjects : /\ IsUnverified(positions[p])
                                            /\ a.category[p] \in a.enabled}
    <3>1. \A p \in Subjects :
            positions[p].reason \in ActionableGapReasons
              <=> IsUnverified(positions[p]) /\ a.category[p] \in a.enabled
      BY <2>1, <2>3, GapReasons DEF IsUnverified
    <3> QED
      BY <2>1, <3>1 DEF Gaps
  <2> QED
    BY <2>4, <2>5 DEF ReportsMakeCapabilityPlans, catalog, checks, positions
<1> QED
  BY <1>1, Invariance, PTL

=============================================================================

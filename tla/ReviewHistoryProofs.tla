--------------------------- MODULE ReviewHistoryProofs ---------------------------
(***************************************************************************)
(* Theorems about ReviewHistory, for every catalog of concerns, every set  *)
(* of evidence and of policies, and every bound.                           *)
(*                                                                         *)
(* What a report must be for the next review to make a report of the same   *)
(* kind: no two findings have one fingerprint, and its own table supports   *)
(* each citation.  The table of the next report keeps that for what is      *)
(* carried over, since facts of now replace older ones only where they      *)
(* conflict too.                                                            *)
(***************************************************************************)
EXTENDS ReviewHistory, FiniteSetTheorems, TLAPS

Report == [policy : Policies, complete : SUBSET Collectors, recs : SUBSET Recommendation,
           facts : UNION {[S -> Facts] : S \in SUBSET EvidenceIds}]

Unique(recs) == \A a, b \in recs : Fingerprint(a) = Fingerprint(b) => a = b

Supported(r) ==
  \A rec \in r.recs : /\ rec.cites \subseteq DOMAIN r.facts
                      /\ \A e \in rec.cites : r.facts[e] \in Conflicts

WellFormed(r) ==
  /\ r \in Report /\ IsFiniteSet(r.recs) /\ Unique(r.recs) /\ Supported(r)
  /\ \A rec \in r.recs : rec.cites \subseteq Relevant[rec.concern]

Inv == policy \in Policies /\ WellFormed(report)

-----------------------------------------------------------------------------
(***************************************************************************)
(* What is in a review.                                                     *)
(***************************************************************************)

\* A candidate cites all the conflicting evidence of its concern.
LEMMA CandidateFacts ==
  ASSUME NEW seen \in Observations, NEW bounds \in Policy, NEW rec \in Candidates(seen, bounds)
  PROVE  /\ rec \in Recommendation
         /\ rec.cites = Divergent(rec.concern, seen.found)
         /\ rec.priority = bounds.priority[rec.concern]
         /\ rec.traded <=> rec.concern \in bounds.traded
         /\ rec.cites \subseteq Relevant[rec.concern]
         /\ \A e \in rec.cites : e \in EvidenceIds /\ seen.found[e] \in Conflicts
<1>1. PICK c \in Concerns :
        /\ bounds.priority[c] # "none"
        /\ rec = [concern |-> c, cites |-> Divergent(c, seen.found),
                  priority |-> bounds.priority[c], status |-> "new",
                  traded |-> c \in bounds.traded]
  BY DEF Candidates
<1>2. Relevant[c] \subseteq EvidenceIds
  BY RelevantAssumption
<1>3. Divergent(c, seen.found) \subseteq Relevant[c]
      /\ \A e \in Divergent(c, seen.found) : seen.found[e] \in Conflicts
  BY DEF Divergent
<1>4. bounds.priority[c] \in Priorities
  BY <1>1 DEF Policy
<1>5. rec \in Recommendation
  BY <1>1, <1>2, <1>3, <1>4 DEF Recommendation
<1> QED
  BY <1>1, <1>2, <1>3, <1>5

\* One finding per concern.
LEMMA CandidatesOfConcern ==
  ASSUME NEW seen \in Observations, NEW bounds \in Policy,
         NEW a \in Candidates(seen, bounds), NEW b \in Candidates(seen, bounds),
         a.concern = b.concern
  PROVE  a = b
BY DEF Candidates

LEMMA CandidatesAreFinite ==
  ASSUME NEW seen \in Observations, NEW bounds \in Policy
  PROVE  IsFiniteSet(Candidates(seen, bounds))
<1> DEFINE f == [rec \in Candidates(seen, bounds) |-> rec.concern]
<1>1. f \in [Candidates(seen, bounds) -> Concerns]
  BY CandidateFacts DEF Recommendation
<1>2. IsInjective(f)
  BY CandidatesOfConcern DEF IsInjective
<1>3. f \in Injection(Candidates(seen, bounds), Concerns)
  BY <1>1, <1>2 DEF Injection
<1> QED
  BY <1>3, FS_Injection, ConcernsAssumption

StatusOf(rec, prior, bounds) ==
  IF rec.concern \in bounds.suppressed THEN "suppressed"
  ELSE IF Fingerprint(rec) \in Fingerprints(prior.recs) THEN "unchanged" ELSE "new"

\* A fresh finding is a candidate with its status.
LEMMA FreshFacts ==
  ASSUME NEW prior, NEW seen \in Observations, NEW bounds \in Policy,
         NEW rec \in Fresh(prior, seen, bounds)
  PROVE  \E c \in Candidates(seen, bounds) :
           /\ rec = [c EXCEPT !.status = StatusOf(c, prior, bounds)]
           /\ rec \in Recommendation /\ rec.concern = c.concern /\ rec.cites = c.cites
           /\ rec.priority = c.priority /\ rec.traded = c.traded
           /\ rec.status = StatusOf(c, prior, bounds)
<1>1. PICK c \in Candidates(seen, bounds) :
        rec = [c EXCEPT !.status = StatusOf(c, prior, bounds)]
  BY DEF Fresh, StatusOf
<1>2. c \in Recommendation
  BY CandidateFacts
<1>3. StatusOf(c, prior, bounds) \in {"new", "unchanged", "suppressed"}
  BY DEF StatusOf
<1>4. /\ rec \in Recommendation /\ rec.concern = c.concern /\ rec.cites = c.cites
      /\ rec.priority = c.priority /\ rec.traded = c.traded
      /\ rec.status = StatusOf(c, prior, bounds)
  BY <1>1, <1>2, <1>3 DEF Recommendation
<1> QED
  BY <1>1, <1>4

\* Every candidate becomes a fresh finding.
LEMMA FreshOfCandidate ==
  ASSUME NEW prior, NEW seen \in Observations, NEW bounds \in Policy,
         NEW c \in Candidates(seen, bounds)
  PROVE  \E rec \in Fresh(prior, seen, bounds) :
           /\ Fingerprint(rec) = Fingerprint(c)
           /\ rec.status = StatusOf(c, prior, bounds)
<1> DEFINE rec == [c EXCEPT !.status = StatusOf(c, prior, bounds)]
<1>1. rec \in Fresh(prior, seen, bounds)
  BY DEF Fresh, StatusOf
<1>2. c \in Recommendation
  BY CandidateFacts
<1>3. rec.concern = c.concern /\ rec.cites = c.cites
      /\ rec.status = StatusOf(c, prior, bounds)
  BY <1>2 DEF Recommendation
<1> QED
  BY <1>1, <1>3 DEF Fingerprint

CarriedOver(prior, seen, bounds) ==
  {r \in prior.recs : /\ Fingerprint(r) \notin Fingerprints(Candidates(seen, bounds))
                      /\ r.concern \notin bounds.suppressed
                      /\ IsPriorValid(r, bounds, prior.facts)}

CarriedAs(r, seen, bounds) ==
  [r EXCEPT !.status = IF CollectorOf[r.concern] \in seen.complete
                       THEN "resolved" ELSE "unchanged",
            !.traded = r.concern \in bounds.traded]

LEMMA CarriedIs ==
  ASSUME NEW prior, NEW seen, NEW bounds
  PROVE  Carried(prior, seen, bounds) =
           {CarriedAs(r, seen, bounds) : r \in CarriedOver(prior, seen, bounds)}
BY DEF Carried, CarriedAs, CarriedOver

LEMMA CarriedAsFacts ==
  ASSUME NEW seen \in Observations, NEW bounds \in Policy, NEW r \in Recommendation
  PROVE  LET rec == CarriedAs(r, seen, bounds)
         IN  /\ rec \in Recommendation /\ rec.concern = r.concern /\ rec.cites = r.cites
             /\ rec.priority = r.priority
             /\ rec.traded <=> r.concern \in bounds.traded
             /\ rec.status = IF CollectorOf[r.concern] \in seen.complete
                             THEN "resolved" ELSE "unchanged"
<1> DEFINE status == IF CollectorOf[r.concern] \in seen.complete
                     THEN "resolved" ELSE "unchanged"
           traded == r.concern \in bounds.traded
<1>1. status \in {"resolved", "unchanged"} /\ traded \in BOOLEAN
  OBVIOUS
<1>2. CarriedAs(r, seen, bounds) = [r EXCEPT !.status = status, !.traded = traded]
  BY DEF CarriedAs
<1> HIDE DEF status, traded
<1>3. LET rec == CarriedAs(r, seen, bounds)
      IN  /\ rec \in Recommendation /\ rec.concern = r.concern /\ rec.cites = r.cites
          /\ rec.priority = r.priority /\ rec.traded = traded /\ rec.status = status
  BY <1>1, <1>2 DEF Recommendation
<1> QED
  BY <1>3 DEF status, traded

\* What a conflict shown to the owner is: of now where a current finding cites
\* it, and of the table that supported it otherwise.
LEMMA EvidenceSupports ==
  ASSUME NEW prior, NEW seen \in Observations, NEW bounds \in Policy, NEW e \in EvidenceIds,
         \/ e \in Cited(Candidates(seen, bounds))
         \/ e \in DOMAIN prior.facts /\ prior.facts[e] \in Conflicts
  PROVE  EvidenceFor(prior, seen, bounds)[e] \in Conflicts
<1>1. ASSUME e \in Cited(Candidates(seen, bounds))
      PROVE  seen.found[e] \in Conflicts
  <2>1. PICK rec \in Candidates(seen, bounds) : e \in rec.cites
    BY <1>1 DEF Cited
  <2> QED
    BY <2>1, CandidateFacts
<1> QED
  BY <1>1 DEF EvidenceFor

\* Every finding of a review: what it is, and what supports it.
LEMMA FindingFacts ==
  ASSUME NEW prior, WellFormed(prior), NEW seen \in Observations, NEW bounds \in Policy,
         NEW rec \in Assemble(prior, seen, bounds).recs
  PROVE  /\ rec \in Recommendation
         /\ rec.cites \subseteq Relevant[rec.concern]
         /\ rec.priority = bounds.priority[rec.concern]
         /\ rec.traded <=> rec.concern \in bounds.traded
         /\ rec.status = "suppressed" <=> rec.concern \in bounds.suppressed
         /\ \A e \in rec.cites : e \in EvidenceIds /\ EvidenceFor(prior, seen, bounds)[e] \in Conflicts
<1>1. rec \in Fresh(prior, seen, bounds) \/ rec \in Carried(prior, seen, bounds)
  BY DEF Assemble
<1>2. CASE rec \in Fresh(prior, seen, bounds)
  <2>1. PICK c \in Candidates(seen, bounds) :
          /\ rec \in Recommendation /\ rec.concern = c.concern /\ rec.cites = c.cites
          /\ rec.priority = c.priority /\ rec.traded = c.traded
          /\ rec.status = StatusOf(c, prior, bounds)
    BY <1>2, FreshFacts
  <2>2. /\ c.cites \subseteq Relevant[c.concern]
        /\ c.priority = bounds.priority[c.concern]
        /\ c.traded <=> c.concern \in bounds.traded
        /\ \A e \in c.cites : e \in EvidenceIds
    BY CandidateFacts
  <2>3. rec.status = "suppressed" <=> rec.concern \in bounds.suppressed
    BY <2>1 DEF StatusOf
  <2>4. ASSUME NEW e \in rec.cites
        PROVE  e \in EvidenceIds /\ EvidenceFor(prior, seen, bounds)[e] \in Conflicts
    <3>1. e \in EvidenceIds /\ e \in Cited(Candidates(seen, bounds))
      BY <2>1, <2>2, <2>4 DEF Cited
    <3> QED
      BY <3>1, EvidenceSupports
  <2> QED
    BY <2>1, <2>2, <2>3, <2>4
<1>3. CASE rec \in Carried(prior, seen, bounds)
  <2>1. PICK r \in CarriedOver(prior, seen, bounds) : rec = CarriedAs(r, seen, bounds)
    BY <1>3, CarriedIs
  <2>2. /\ r \in prior.recs /\ r \in Recommendation
        /\ r.concern \notin bounds.suppressed /\ IsPriorValid(r, bounds, prior.facts)
    BY <2>1 DEF CarriedOver, WellFormed, Report
  <2>3. /\ rec \in Recommendation /\ rec.concern = r.concern /\ rec.cites = r.cites
        /\ rec.priority = r.priority
        /\ rec.traded <=> r.concern \in bounds.traded
        /\ rec.status \in {"resolved", "unchanged"}
    BY <2>1, <2>2, CarriedAsFacts
  <2>4. ASSUME NEW e \in rec.cites
        PROVE  e \in EvidenceIds /\ EvidenceFor(prior, seen, bounds)[e] \in Conflicts
    <3>1. e \in EvidenceIds /\ e \in DOMAIN prior.facts /\ prior.facts[e] \in Conflicts
      BY <2>2, <2>3, <2>4 DEF IsPriorValid, Recommendation
    <3> QED
      BY <3>1, EvidenceSupports
  <2> QED
    BY <2>2, <2>3, <2>4 DEF IsPriorValid
<1> QED
  BY <1>1, <1>2, <1>3

\* The fingerprints of fresh findings are those of candidates.
LEMMA FreshPrints ==
  ASSUME NEW prior, NEW seen \in Observations, NEW bounds \in Policy,
         NEW rec \in Fresh(prior, seen, bounds)
  PROVE  Fingerprint(rec) \in Fingerprints(Candidates(seen, bounds))
<1>1. PICK c \in Candidates(seen, bounds) : rec.concern = c.concern /\ rec.cites = c.cites
  BY FreshFacts
<1> QED
  BY <1>1 DEF Fingerprints, Fingerprint

LEMMA CarriedPrints ==
  ASSUME NEW prior, WellFormed(prior), NEW seen \in Observations, NEW bounds \in Policy,
         NEW r \in CarriedOver(prior, seen, bounds)
  PROVE  /\ r \in prior.recs
         /\ Fingerprint(CarriedAs(r, seen, bounds)) = Fingerprint(r)
         /\ Fingerprint(r) \notin Fingerprints(Candidates(seen, bounds))
<1>1. r \in prior.recs /\ r \in Recommendation
      /\ Fingerprint(r) \notin Fingerprints(Candidates(seen, bounds))
  BY DEF CarriedOver, WellFormed, Report
<1>2. CarriedAs(r, seen, bounds).concern = r.concern
      /\ CarriedAs(r, seen, bounds).cites = r.cites
  BY <1>1, CarriedAsFacts
<1> QED
  BY <1>1, <1>2 DEF Fingerprint

\* No fingerprint occurs twice: a concern has one fresh finding, and what is
\* carried over has a fingerprint no fresh one has.
LEMMA FindingsAreUnique ==
  ASSUME NEW prior, WellFormed(prior), NEW seen \in Observations, NEW bounds \in Policy
  PROVE  Unique(Assemble(prior, seen, bounds).recs)
<1> DEFINE F == Fresh(prior, seen, bounds)
           C == Carried(prior, seen, bounds)
<1>1. Assemble(prior, seen, bounds).recs = F \cup C
  BY DEF Assemble
<1>2. ASSUME NEW a \in F, NEW b \in F, Fingerprint(a) = Fingerprint(b)
      PROVE  a = b
  <2>1. PICK c \in Candidates(seen, bounds) :
          a = [c EXCEPT !.status = StatusOf(c, prior, bounds)] /\ a.concern = c.concern
    BY FreshFacts
  <2>2. PICK d \in Candidates(seen, bounds) :
          b = [d EXCEPT !.status = StatusOf(d, prior, bounds)] /\ b.concern = d.concern
    BY FreshFacts
  <2>3. c.concern = d.concern
    BY <1>2, <2>1, <2>2 DEF Fingerprint
  <2> QED
    BY <2>1, <2>2, <2>3, CandidatesOfConcern
<1>3. ASSUME NEW a \in C, NEW b \in C, Fingerprint(a) = Fingerprint(b)
      PROVE  a = b
  <2>1. PICK r \in CarriedOver(prior, seen, bounds) : a = CarriedAs(r, seen, bounds)
    BY CarriedIs
  <2>2. PICK s \in CarriedOver(prior, seen, bounds) : b = CarriedAs(s, seen, bounds)
    BY CarriedIs
  <2>3. Fingerprint(r) = Fingerprint(s) /\ r \in prior.recs /\ s \in prior.recs
    BY <1>3, <2>1, <2>2, CarriedPrints
  <2>4. r = s
    BY <2>3 DEF WellFormed, Unique
  <2> QED
    BY <2>1, <2>2, <2>4
<1>4. ASSUME NEW a \in F, NEW b \in C
      PROVE  Fingerprint(a) # Fingerprint(b)
  <2>1. PICK s \in CarriedOver(prior, seen, bounds) : b = CarriedAs(s, seen, bounds)
    BY CarriedIs
  <2>2. Fingerprint(b) \notin Fingerprints(Candidates(seen, bounds))
    BY <2>1, CarriedPrints
  <2> QED
    BY <2>2, FreshPrints
<1> HIDE DEF F, C
<1> QED
  BY <1>1, <1>2, <1>3, <1>4 DEF Unique

LEMMA FreshAreFinite ==
  ASSUME NEW prior, NEW seen \in Observations, NEW bounds \in Policy
  PROVE  /\ IsFiniteSet(Fresh(prior, seen, bounds))
         /\ Cardinality(Fresh(prior, seen, bounds)) <= Cardinality(Candidates(seen, bounds))
<1> DEFINE S == Candidates(seen, bounds)
           f == [c \in S |-> [c EXCEPT !.status = StatusOf(c, prior, bounds)]]
           T == Fresh(prior, seen, bounds)
<1>1. T = {f[c] : c \in S}
  BY DEF Fresh, StatusOf
<1>2. IsFiniteSet(S)
  BY CandidatesAreFinite
<1> HIDE DEF S
<1>3. f \in Surjection(S, T)
  BY <1>1 DEF Surjection
<1> QED
  BY <1>2, <1>3, FS_Surjection DEF S

LEMMA FindingsAreFinite ==
  ASSUME NEW prior, WellFormed(prior), NEW seen \in Observations, NEW bounds \in Policy
  PROVE  IsFiniteSet(Assemble(prior, seen, bounds).recs)
<1> DEFINE K == CarriedOver(prior, seen, bounds)
           g == [r \in K |-> CarriedAs(r, seen, bounds)]
           C == Carried(prior, seen, bounds)
<1>1. C = {g[r] : r \in K}
  BY CarriedIs
<1>2. IsFiniteSet(K)
  BY FS_Subset DEF CarriedOver, WellFormed
<1> HIDE DEF K
<1>3. g \in Surjection(K, C)
  BY <1>1 DEF Surjection
<1>4. IsFiniteSet(C)
  BY <1>2, <1>3, FS_Surjection
<1> QED
  BY <1>4, FreshAreFinite, FS_Union DEF Assemble

\* The table of a review carries each citation, as a conflict.
LEMMA TableFacts ==
  ASSUME NEW prior, WellFormed(prior), NEW seen \in Observations, NEW bounds \in Policy
  PROVE  LET next == Assemble(prior, seen, bounds)
         IN  /\ next.facts \in [Cited(next.recs) -> Conflicts]
             /\ \A e \in Cited(next.recs) :
                  e \in EvidenceIds /\ next.facts[e] = EvidenceFor(prior, seen, bounds)[e]
<1> DEFINE next == Assemble(prior, seen, bounds)
           merged == EvidenceFor(prior, seen, bounds)
<1>1. \A e \in Cited(next.recs) : e \in EvidenceIds /\ merged[e] \in Conflicts
  BY FindingFacts DEF Cited
<1>2. next.facts = [e \in {d \in Cited(next.recs) : merged[d] # "absent"} |-> merged[e]]
  BY DEF Assemble, Restrict
<1> HIDE DEF next, merged
<1>3. {d \in Cited(next.recs) : merged[d] # "absent"} = Cited(next.recs)
  BY <1>1, FactsAssumption
<1>4. next.facts = [e \in Cited(next.recs) |-> merged[e]]
  BY <1>2, <1>3
<1>5. next.facts \in [Cited(next.recs) -> Conflicts]
      /\ \A e \in Cited(next.recs) : e \in EvidenceIds /\ next.facts[e] = merged[e]
  BY <1>1, <1>4
<1> QED
  BY <1>5 DEF next, merged

\* A review of a well-formed report is a well-formed report.
LEMMA ReviewIsWellFormed ==
  ASSUME NEW prior, WellFormed(prior), NEW seen \in Observations, NEW bounds \in Policies
  PROVE  WellFormed(Assemble(prior, seen, bounds))
<1> DEFINE next == Assemble(prior, seen, bounds)
<1>0. bounds \in Policy
  BY PoliciesAssumption
<1>1. next = [policy |-> bounds, complete |-> seen.complete, recs |-> next.recs,
              facts |-> next.facts]
  BY DEF Assemble
<1>2. next.recs \subseteq Recommendation
  BY <1>0, FindingFacts
<1>3. next.facts \in [Cited(next.recs) -> Conflicts]
      /\ Cited(next.recs) \subseteq EvidenceIds
  BY <1>0, TableFacts
<1>4. seen.complete \in SUBSET Collectors
  BY DEF Observations
<1>5. \A rec \in next.recs : rec.cites \subseteq Cited(next.recs)
  BY DEF Cited
<1>6. IsFiniteSet(next.recs) /\ Unique(next.recs)
      /\ \A rec \in next.recs : rec.cites \subseteq Relevant[rec.concern]
  BY <1>0, FindingsAreFinite, FindingsAreUnique, FindingFacts
<1> HIDE DEF next
<1>7. next.facts \in UNION {[S -> Facts] : S \in SUBSET EvidenceIds}
  <2>1. next.facts \in [Cited(next.recs) -> Facts]
    BY <1>3 DEF Facts
  <2> QED
    BY <1>3, <2>1
<1>8. next \in Report
  <2> DEFINE R == next.recs
             T == next.facts
  <2>1. R \in SUBSET Recommendation /\ T \in UNION {[S -> Facts] : S \in SUBSET EvidenceIds}
    BY <1>2, <1>7
  <2>2. next = [policy |-> bounds, complete |-> seen.complete, recs |-> R, facts |-> T]
    BY <1>1
  <2> HIDE DEF R, T
  <2> QED
    BY <1>4, <2>1, <2>2 DEF Report
<1>9. Supported(next)
  BY <1>3, <1>5 DEF Supported
<1> QED
  BY <1>6, <1>8, <1>9 DEF WellFormed, next

LEMMA FirstReport ==
  ASSUME NEW bounds \in Policies
  PROVE  WellFormed(NoReport(bounds))
<1>1. << >> \in [{} -> Facts]
  OBVIOUS
<1>2. << >> \in UNION {[S -> Facts] : S \in SUBSET EvidenceIds}
  BY <1>1
<1>3. NoReport(bounds) \in Report
  BY <1>2 DEF NoReport, Report
<1>4. NoReport(bounds).recs = {}
  BY DEF NoReport
<1> QED
  BY <1>3, <1>4, FS_EmptySet DEF WellFormed, Unique, Supported

LEMMA Invariance == Spec => []Inv
<1>1. Init => Inv
  BY FirstReport DEF Init, Inv
<1>2. Inv /\ [Next]_vars => Inv'
  <2> SUFFICES ASSUME Inv, [Next]_vars
               PROVE  Inv'
    OBVIOUS
  <2>1. ASSUME NEW seen \in Observations, AcceptReview(seen)
        PROVE  Inv'
    BY <2>1, ReviewIsWellFormed DEF AcceptReview, Inv
  <2>2. CASE PolicyChanges
    BY <2>2 DEF PolicyChanges, Inv
  <2>3. CASE UNCHANGED vars
    BY <2>3 DEF vars, Inv
  <2> QED
    BY <2>1, <2>2, <2>3 DEF Next
<1> QED
  BY <1>1, <1>2, PTL DEF Spec

-----------------------------------------------------------------------------
(***************************************************************************)
(* The theorems.                                                            *)
(***************************************************************************)

\* Every variable keeps its type, so no finding is published with a priority
\* the owner has not declared and no fact is shown that was not collected.
THEOREM ReviewTypeOK == Spec => []TypeOK
<1>1. Inv => TypeOK
  BY DEF Inv, WellFormed, Report, TypeOK
<1> QED
  BY <1>1, Invariance, PTL

\* The plan acts on no more open findings than the review had candidates: what
\* is carried over is resolved as soon as its collector completes.
LEMMA OpenActionsAreBounded ==
  ASSUME NEW prior, WellFormed(prior), NEW seen \in Observations, NEW bounds \in Policy,
         Cardinality(Candidates(seen, bounds)) <= MaxRecommendations
  PROVE  Cardinality({rec \in Actions(Assemble(prior, seen, bounds)) : IsOpen(rec)})
           <= MaxRecommendations
<1> DEFINE next == Assemble(prior, seen, bounds)
           F == Fresh(prior, seen, bounds)
           A == {rec \in Actions(next) : IsOpen(rec)}
<1>1. ASSUME NEW rec \in A
      PROVE  rec \in F
  <2>1. /\ rec \in F \/ rec \in Carried(prior, seen, bounds)
        /\ CollectorOf[rec.concern] \in seen.complete /\ rec.status # "resolved"
    BY DEF Actions, Assemble, IsOpen
  <2>2. ASSUME rec \in Carried(prior, seen, bounds)
        PROVE  FALSE
    <3>1. PICK r \in CarriedOver(prior, seen, bounds) : rec = CarriedAs(r, seen, bounds)
      BY <2>2, CarriedIs
    <3>2. r \in Recommendation
      BY DEF CarriedOver, WellFormed, Report
    <3>3. rec.concern = r.concern /\ rec.status = IF CollectorOf[r.concern] \in seen.complete
                                                  THEN "resolved" ELSE "unchanged"
      BY <3>1, <3>2, CarriedAsFacts
    <3> QED
      BY <2>1, <3>3
  <2> QED
    BY <2>1, <2>2
<1>2. IsFiniteSet(F) /\ Cardinality(F) <= Cardinality(Candidates(seen, bounds))
  BY FreshAreFinite
<1>3. Cardinality(Candidates(seen, bounds)) \in Nat /\ MaxRecommendations \in Nat
  BY CandidatesAreFinite, FS_CardinalityType, BoundsAssumption
<1>4. A \subseteq F
  BY <1>1
<1> HIDE DEF A, F
<1>5. IsFiniteSet(A) /\ Cardinality(A) <= Cardinality(F)
  BY <1>2, <1>4, FS_Subset
<1>6. Cardinality(A) \in Nat /\ Cardinality(F) \in Nat
  BY <1>2, <1>5, FS_CardinalityType
<1> QED
  BY <1>2, <1>3, <1>5, <1>6 DEF A

\* What the review makes of any fleet, however findings came and went and the
\* owner changed the policy before, build_issue_plan does not refuse.
THEOREM PublishableReviews == Spec => []ReviewsArePublishable
<1>1. ASSUME Inv, NEW seen \in Observations, Reviewable(seen)
      PROVE  PlanConsistent(Assemble(report, seen, policy), policy)
  <2> DEFINE next == Assemble(report, seen, policy)
  <2>1. WellFormed(report) /\ policy \in Policies /\ policy \in Policy
    BY <1>1, PoliciesAssumption DEF Inv
  <2>2. next.policy = policy
    BY DEF Assemble
  <2>3. Cardinality(Fingerprints(next.recs)) = Cardinality(next.recs)
    <3> DEFINE R == next.recs
               f == [rec \in R |-> Fingerprint(rec)]
    <3>1. IsFiniteSet(R) /\ Unique(R)
      BY <2>1, FindingsAreFinite, FindingsAreUnique
    <3> HIDE DEF R
    <3>2. f \in Surjection(R, Fingerprints(R))
      BY DEF Surjection, Fingerprints
    <3>3. IsInjective(f)
      BY <3>1 DEF IsInjective, Unique
    <3>4. f \in Injection(R, Fingerprints(R))
      BY <3>2, <3>3 DEF Injection, Surjection
    <3>5. Cardinality(Fingerprints(R)) = Cardinality(R)
      BY <3>1, <3>2, <3>4, FS_Surjection
    <3> QED
      BY <3>5 DEF R
  <2>4. ASSUME NEW rec \in next.recs
        PROVE  /\ IsPriorValid(rec, policy, next.facts)
               /\ rec.traded = (rec.concern \in policy.traded)
               /\ (rec.status = "suppressed") = (rec.concern \in policy.suppressed)
    <3>1. /\ rec \in Recommendation
          /\ rec.cites \subseteq Relevant[rec.concern]
          /\ rec.priority = policy.priority[rec.concern]
          /\ rec.traded <=> rec.concern \in policy.traded
          /\ rec.status = "suppressed" <=> rec.concern \in policy.suppressed
      BY <2>1, FindingFacts
    <3>2. next.facts \in [Cited(next.recs) -> Conflicts] /\ rec.cites \subseteq Cited(next.recs)
      BY <2>1, TableFacts DEF Cited
    <3>3. IsPriorValid(rec, policy, next.facts)
      BY <3>1, <3>2 DEF IsPriorValid
    <3>4. rec.traded \in BOOLEAN
      BY <3>1 DEF Recommendation
    <3> QED
      BY <3>1, <3>3, <3>4
  <2>5. Cardinality({rec \in Actions(next) : IsOpen(rec)}) <= MaxRecommendations
    BY <1>1, <2>1, OpenActionsAreBounded DEF Reviewable
  <2> QED
    BY <2>2, <2>3, <2>4, <2>5 DEF PlanConsistent
<1>2. Inv => ReviewsArePublishable
  BY <1>1 DEF ReviewsArePublishable
<1> QED
  BY <1>2, Invariance, PTL

\* An open finding leaves the reports only by the owner's hand or its
\* collector's complete run, whatever else the review sees.
THEOREM OpenFindingsAreKept == Spec => []OpenFindingsStay
<1>1. ASSUME Inv, NEW seen \in Observations, NEW rec \in report.recs,
             rec.concern \notin policy.suppressed,
             rec.priority = policy.priority[rec.concern]
      PROVE  \E later \in Assemble(report, seen, policy).recs :
               /\ Fingerprint(later) = Fingerprint(rec)
               /\ later.status = "resolved" => CollectorOf[rec.concern] \in seen.complete
  <2>1. WellFormed(report) /\ policy \in Policy /\ rec \in Recommendation
    BY <1>1, PoliciesAssumption DEF Inv, WellFormed, Report
  <2>2. CASE Fingerprint(rec) \in Fingerprints(Candidates(seen, policy))
    <3>1. PICK c \in Candidates(seen, policy) : Fingerprint(c) = Fingerprint(rec)
      BY <2>2 DEF Fingerprints
    <3>2. PICK later \in Fresh(report, seen, policy) :
            Fingerprint(later) = Fingerprint(c) /\ later.status = StatusOf(c, report, policy)
      BY <2>1, FreshOfCandidate
    <3>3. later.status # "resolved"
      BY <3>2 DEF StatusOf
    <3> QED
      BY <3>1, <3>2, <3>3 DEF Assemble
  <2>3. CASE Fingerprint(rec) \notin Fingerprints(Candidates(seen, policy))
    <3>1. IsPriorValid(rec, policy, report.facts)
      BY <1>1, <2>1 DEF IsPriorValid, WellFormed, Supported
    <3>2. rec \in CarriedOver(report, seen, policy)
      BY <1>1, <2>3, <3>1 DEF CarriedOver
    <3>3. CarriedAs(rec, seen, policy) \in Assemble(report, seen, policy).recs
      BY <3>2, CarriedIs DEF Assemble
    <3>4. CarriedAs(rec, seen, policy).status = IF CollectorOf[rec.concern] \in seen.complete
                                                THEN "resolved" ELSE "unchanged"
      BY <2>1, CarriedAsFacts
    <3>5. Fingerprint(CarriedAs(rec, seen, policy)) = Fingerprint(rec)
      BY <2>1, <3>2, CarriedPrints
    <3> QED
      BY <3>3, <3>4, <3>5
  <2> QED
    BY <2>2, <2>3
<1>2. Inv => OpenFindingsStay
  BY <1>1 DEF OpenFindingsStay
<1> QED
  BY <1>2, Invariance, PTL

\* What conflicts now is an open finding of the report, shown as it is now.
THEOREM PresentConflictsAreReported == Spec => []ConflictsAreReported
<1>1. ASSUME Inv, NEW seen \in Observations, NEW c \in Concerns \ policy.suppressed,
             policy.priority[c] # "none", Divergent(c, seen.found) # {}
      PROVE  LET next == Assemble(report, seen, policy)
             IN  /\ \E rec \in next.recs : /\ Fingerprint(rec) = <<c, Divergent(c, seen.found)>>
                                           /\ IsOpen(rec)
                 /\ \A e \in Divergent(c, seen.found) : next.facts[e] = seen.found[e]
  <2> DEFINE next == Assemble(report, seen, policy)
             candidate == [concern |-> c, cites |-> Divergent(c, seen.found),
                           priority |-> policy.priority[c], status |-> "new",
                           traded |-> c \in policy.traded]
  <2>1. WellFormed(report) /\ policy \in Policy
    BY <1>1, PoliciesAssumption DEF Inv
  <2>2. candidate \in Candidates(seen, policy)
    BY <1>1 DEF Candidates
  <2>3. Fingerprint(candidate) = <<c, Divergent(c, seen.found)>>
    BY DEF Fingerprint
  <2>4. PICK rec \in Fresh(report, seen, policy) :
          /\ Fingerprint(rec) = Fingerprint(candidate)
          /\ rec.status = StatusOf(candidate, report, policy)
    BY <2>1, <2>2, FreshOfCandidate
  <2>5. IsOpen(rec)
    BY <1>1, <2>4 DEF IsOpen, StatusOf
  <2>6. rec \in next.recs
    BY DEF Assemble
  <2>7. ASSUME NEW e \in Divergent(c, seen.found)
        PROVE  next.facts[e] = seen.found[e]
    <3>1. e \in Cited(Candidates(seen, policy))
      BY <2>2 DEF Cited
    <3>2. rec.cites = Divergent(c, seen.found)
      BY <2>3, <2>4 DEF Fingerprint
    <3>3. e \in Cited(next.recs)
      BY <2>6, <3>2 DEF Cited
    <3>4. e \in EvidenceIds /\ next.facts[e] = EvidenceFor(report, seen, policy)[e]
      BY <2>1, <3>3, TableFacts
    <3> QED
      BY <3>1, <3>4 DEF EvidenceFor
  <2> QED
    BY <2>3, <2>4, <2>5, <2>6, <2>7
<1>2. Inv => ConflictsAreReported
  BY <1>1 DEF ConflictsAreReported
<1> QED
  BY <1>2, Invariance, PTL

-----------------------------------------------------------------------------
(***************************************************************************)
(* Repeating a review of an unchanged fleet.  What is material of the      *)
(* fresh findings does not depend on the report before, and everything the *)
(* first review carried over the second carries over as it stands.         *)
(***************************************************************************)

Shown(rec) == <<Fingerprint(rec), IF IsOpen(rec) THEN "open" ELSE rec.status, rec.traded>>

ShownCandidate(c, bounds) ==
  <<Fingerprint(c), IF c.concern \in bounds.suppressed THEN "suppressed" ELSE "open", c.traded>>

LEMMA FreshShown ==
  ASSUME NEW prior, NEW seen \in Observations, NEW bounds \in Policy
  PROVE  {Shown(rec) : rec \in Fresh(prior, seen, bounds)} =
           {ShownCandidate(c, bounds) : c \in Candidates(seen, bounds)}
<1> DEFINE F == Fresh(prior, seen, bounds)
           K == Candidates(seen, bounds)
           G(c) == [c EXCEPT !.status = StatusOf(c, prior, bounds)]
<1>1. F = {G(c) : c \in K}
  BY DEF Fresh, StatusOf
<1>2. ASSUME NEW c \in K
      PROVE  Shown(G(c)) = ShownCandidate(c, bounds)
  <2>1. c \in Recommendation
    BY CandidateFacts
  <2>2. /\ G(c).concern = c.concern /\ G(c).cites = c.cites /\ G(c).traded = c.traded
        /\ G(c).status = StatusOf(c, prior, bounds)
    BY <2>1 DEF Recommendation
  <2>3. Fingerprint(G(c)) = Fingerprint(c)
    BY <2>2 DEF Fingerprint
  <2> QED
    BY <2>2, <2>3 DEF Shown, ShownCandidate, IsOpen, StatusOf
<1> HIDE DEF F, K, G
<1>3. {Shown(rec) : rec \in F} = {ShownCandidate(c, bounds) : c \in K}
  BY <1>1, <1>2
<1> QED
  BY <1>3 DEF F, K

LEMMA FreshCites ==
  ASSUME NEW prior, NEW seen \in Observations, NEW bounds \in Policy
  PROVE  Cited(Fresh(prior, seen, bounds)) = Cited(Candidates(seen, bounds))
<1>1. ASSUME NEW rec \in Fresh(prior, seen, bounds)
      PROVE  \E c \in Candidates(seen, bounds) : rec.cites = c.cites
  BY FreshFacts
<1>2. ASSUME NEW c \in Candidates(seen, bounds)
      PROVE  \E rec \in Fresh(prior, seen, bounds) : rec.cites = c.cites
  BY FreshOfCandidate DEF Fingerprint
<1>3. ASSUME NEW e \in Cited(Fresh(prior, seen, bounds))
      PROVE  e \in Cited(Candidates(seen, bounds))
  BY <1>1, <1>3 DEF Cited
<1>4. ASSUME NEW e \in Cited(Candidates(seen, bounds))
      PROVE  e \in Cited(Fresh(prior, seen, bounds))
  BY <1>2, <1>4 DEF Cited
<1> QED
  BY <1>3, <1>4

\* What the first review carried over.
LEMMA CarriedAgain ==
  ASSUME NEW prior, WellFormed(prior), NEW seen \in Observations, NEW bounds \in Policies
  PROVE  LET next == Assemble(prior, seen, bounds)
         IN  Carried(next, seen, bounds) = Carried(prior, seen, bounds)
<1> DEFINE next == Assemble(prior, seen, bounds)
           C == Carried(prior, seen, bounds)
<1>0. bounds \in Policy /\ WellFormed(next)
  BY PoliciesAssumption, ReviewIsWellFormed
<1>1. next.recs = Fresh(prior, seen, bounds) \cup C
  BY DEF Assemble
<1>2. ASSUME NEW rec \in C
      PROVE  rec \in CarriedOver(next, seen, bounds) /\ CarriedAs(rec, seen, bounds) = rec
  <2>1. PICK r \in CarriedOver(prior, seen, bounds) : rec = CarriedAs(r, seen, bounds)
    BY CarriedIs
  <2>2. r \in Recommendation /\ r.concern \notin bounds.suppressed
    BY DEF CarriedOver, WellFormed, Report
  <2>3. /\ rec \in Recommendation /\ rec.concern = r.concern
        /\ rec.status = IF CollectorOf[r.concern] \in seen.complete
                        THEN "resolved" ELSE "unchanged"
        /\ rec.traded <=> r.concern \in bounds.traded
    BY <1>0, <2>1, <2>2, CarriedAsFacts
  <2>4. Fingerprint(rec) \notin Fingerprints(Candidates(seen, bounds))
    BY <1>0, <2>1, CarriedPrints
  <2>5. rec \in next.recs
    BY <1>1
  <2>6. IsPriorValid(rec, bounds, next.facts)
    BY <1>0, <2>5, FindingFacts DEF WellFormed, Supported, IsPriorValid
  <2>7. rec \in CarriedOver(next, seen, bounds)
    BY <2>2, <2>3, <2>4, <2>5, <2>6 DEF CarriedOver
  <2>8. CarriedAs(rec, seen, bounds) = rec
    <3> DEFINE status == IF CollectorOf[rec.concern] \in seen.complete
                         THEN "resolved" ELSE "unchanged"
               traded == rec.concern \in bounds.traded
    <3>1. CarriedAs(rec, seen, bounds) = [rec EXCEPT !.status = status, !.traded = traded]
      BY DEF CarriedAs
    <3>2. rec.status = status /\ rec.traded = traded
      BY <2>3 DEF Recommendation
    <3> HIDE DEF status, traded
    <3> QED
      BY <2>3, <3>1, <3>2 DEF Recommendation
  <2> QED
    BY <2>7, <2>8
<1>3. ASSUME NEW rec \in CarriedOver(next, seen, bounds)
      PROVE  rec \in C
  <2>1. rec \in next.recs /\ Fingerprint(rec) \notin Fingerprints(Candidates(seen, bounds))
    BY DEF CarriedOver
  <2>2. rec \notin Fresh(prior, seen, bounds)
    BY <1>0, <2>1, FreshPrints
  <2> QED
    BY <1>1, <2>1, <2>2
<1>4. Carried(next, seen, bounds) =
        {CarriedAs(r, seen, bounds) : r \in CarriedOver(next, seen, bounds)}
  BY CarriedIs
<1> HIDE DEF next, C
<1>5. Carried(next, seen, bounds) = C
  BY <1>2, <1>3, <1>4
<1> QED
  BY <1>5 DEF next, C

\* Both reviews show the same facts.
LEMMA FactsAgain ==
  ASSUME NEW prior, WellFormed(prior), NEW seen \in Observations, NEW bounds \in Policies
  PROVE  LET next == Assemble(prior, seen, bounds)
         IN  Assemble(next, seen, bounds).facts = next.facts
<1> DEFINE next == Assemble(prior, seen, bounds)
           again == Assemble(next, seen, bounds)
           K == Candidates(seen, bounds)
<1>0. bounds \in Policy /\ WellFormed(next)
  BY PoliciesAssumption, ReviewIsWellFormed
<1>1. Cited(again.recs) = Cited(next.recs)
  <2>1. again.recs = Fresh(next, seen, bounds) \cup Carried(prior, seen, bounds)
        /\ next.recs = Fresh(prior, seen, bounds) \cup Carried(prior, seen, bounds)
    BY CarriedAgain DEF Assemble
  <2>2. Cited(Fresh(next, seen, bounds)) = Cited(Fresh(prior, seen, bounds))
    BY <1>0, FreshCites
  <2> HIDE DEF next, again
  <2>3. \A e : e \in Cited(again.recs) <=> e \in Cited(next.recs)
    BY <2>1, <2>2 DEF Cited
  <2> QED
    BY <2>3
<1>2. /\ next.facts \in [Cited(next.recs) -> Conflicts]
      /\ again.facts \in [Cited(again.recs) -> Conflicts]
  BY <1>0, TableFacts
<1>3. ASSUME NEW e \in Cited(next.recs)
      PROVE  again.facts[e] = next.facts[e]
  <2>1. /\ e \in EvidenceIds /\ next.facts[e] = EvidenceFor(prior, seen, bounds)[e]
        /\ again.facts[e] = EvidenceFor(next, seen, bounds)[e]
    BY <1>0, <1>1, TableFacts
  <2>2. CASE e \in Cited(K)
    BY <2>1, <2>2 DEF EvidenceFor
  <2>3. CASE e \notin Cited(K)
    <3>1. e \in DOMAIN next.facts
      BY <1>2
    <3> QED
      BY <2>1, <2>3, <3>1 DEF EvidenceFor
  <2> QED
    BY <2>2, <2>3
<1> HIDE DEF next, again, K
<1>4. again.facts = next.facts
  BY <1>1, <1>2, <1>3
<1> QED
  BY <1>4 DEF next, again

\* Repeating a review of an unchanged fleet has nothing material to say, or the
\* schedule would put the same report before the owner every day.
THEOREM RepeatedReviewsSettle == Spec => []ReviewsSettle
<1>1. ASSUME Inv, NEW seen \in Observations
      PROVE  LET next == Assemble(report, seen, policy)
             IN  Material(Assemble(next, seen, policy)) = Material(next)
  <2> DEFINE next == Assemble(report, seen, policy)
             again == Assemble(next, seen, policy)
             C == Carried(report, seen, policy)
  <2>1. WellFormed(report) /\ policy \in Policies /\ policy \in Policy /\ WellFormed(next)
    BY <1>1, PoliciesAssumption, ReviewIsWellFormed DEF Inv
  <2>2. again.recs = Fresh(next, seen, policy) \cup C
        /\ next.recs = Fresh(report, seen, policy) \cup C
    BY <2>1, CarriedAgain DEF Assemble
  <2>3. {Shown(rec) : rec \in Fresh(next, seen, policy)} =
          {Shown(rec) : rec \in Fresh(report, seen, policy)}
    BY <2>1, FreshShown
  <2>4. again.facts = next.facts
    BY <2>1, FactsAgain
  <2>5. /\ again.policy = next.policy /\ again.complete = next.complete
    BY DEF Assemble
  <2> HIDE DEF next, again, C
  <2>6. {Shown(rec) : rec \in again.recs} = {Shown(rec) : rec \in next.recs}
    BY <2>2, <2>3
  <2>7. \A r : Material(r) = [policy |-> r.policy, complete |-> r.complete, facts |-> r.facts,
                              findings |-> {Shown(rec) : rec \in r.recs}]
    BY DEF Material, Shown
  <2>8. Material(again) = Material(next)
    BY <2>4, <2>5, <2>6, <2>7
  <2> QED
    BY <2>8 DEF next, again
<1>2. Inv => ReviewsSettle
  BY <1>1 DEF ReviewsSettle
<1> QED
  BY <1>2, Invariance, PTL

=============================================================================

--------------------------- MODULE IssuePublisherProofs ---------------------------
(***************************************************************************)
(* Theorems about IssuePublisher, for every set of findings, labels and    *)
(* texts, every bound and both profiles.                                   *)
(*                                                                         *)
(* A publication creates an issue only after a search that found none, and *)
(* there is one publication at a time: what it has found still holds when  *)
(* it writes.  A note is due only where the notes so far end with the other *)
(* kind, and nobody else writes notes between the reading and the writing.  *)
(***************************************************************************)
EXTENDS IssuePublisher, FiniteSetTheorems, TLAPS

\* No two issues are about one finding.
NoTwins ==
  \A m, n \in DOMAIN issues : issues[m].fingerprint = issues[n].fingerprint => m = n

\* Notes say "resolved" and "active" by turns, and "resolved" first.
Alternate(notes) ==
  \A i \in DOMAIN notes : notes[i] = IF i % 2 = 1 THEN "resolved" ELSE "active"

NotesAlternate ==
  \A n \in DOMAIN issues :
    /\ Alternate(issues[n].notes)
    /\ profile = "fleet" => Len(issues[n].notes) <= 1

\* The publication is at an issue of its finding, or knows that there is none.
AtItsIssue ==
  /\ publisher.phase \in {"relabel", "reconcile", "update", "note"} =>
       /\ publisher.issue \in DOMAIN issues
       /\ issues[publisher.issue].fingerprint = publisher.fingerprint
  /\ publisher.phase = "create" => IssuesOf(publisher.fingerprint) = {}

\* The note that is on its way is the next one.
NoteIsNext ==
  (publisher.phase = "note" \/ (publisher.phase = "update" /\ publisher.note)) =>
    LET notes == issues[publisher.issue].notes
    IN  /\ Current.kind = "resolved" <=> Len(notes) % 2 = 0
        /\ profile = "fleet" => Len(notes) = 0

Types ==
  /\ profile \in {"fleet", "capability"}
  /\ plan \in [Fingerprints -> Action]
  /\ issues \in Seq(Issue)
  /\ claimed \subseteq Claimable
  /\ publisher \in Publisher /\ publisher.issue \in {NoIssue} \cup DOMAIN issues
  /\ calm \in BOOLEAN

\* Updates of text are the capability profile's.
OnlyCapabilitiesUpdate == publisher.phase = "update" => Reactivates

Inv ==
  /\ Types /\ NoTwins /\ NotesAlternate /\ AtItsIssue /\ NoteIsNext
  /\ OnlyCapabilitiesUpdate

-----------------------------------------------------------------------------
LEMMA IdleType == Idle \in Publisher /\ Idle.phase = "idle" /\ Idle.issue = NoIssue
BY FingerprintsAssumption DEF Idle, Publisher, NoIssue

\* The action is given up or over: nothing is held any more.
LEMMA NextActionJob ==
  ASSUME Inv, NextAction
  PROVE  publisher' \in Publisher /\ publisher'.phase = "next" /\ publisher'.issue = NoIssue
<1>1. publisher.todo \in SUBSET Fingerprints
  BY DEF Inv, Types, Publisher
<1> QED
  BY <1>1, FingerprintsAssumption DEF NextAction, Idle, Publisher, NoIssue

\* A publication that holds nothing keeps the invariant.
LEMMA HoldsNothing ==
  ASSUME Inv, publisher' \in Publisher, publisher'.phase \in {"idle", "next", "search"},
         publisher'.issue \in {NoIssue} \cup DOMAIN issues,
         UNCHANGED <<profile, issues, claimed, calm>>, plan' \in [Fingerprints -> Action]
  PROVE  Inv'
BY DEF Inv, Types, NoTwins, NotesAlternate, AtItsIssue, NoteIsNext, OnlyCapabilitiesUpdate

LEMMA AnyContentType == AnyContent \in Contents
BY ContentsAssumption DEF AnyContent

LEMMA PlannedActions == Planned \subseteq Action
BY AnyContentType DEF Planned, Action, Notes

LEMMA InitInv == Init => Inv
<1> SUFFICES ASSUME Init PROVE Inv
  OBVIOUS
<1>1. issues = << >> /\ DOMAIN issues = {} /\ publisher = Idle
  BY DEF Init
<1>2. plan \in [Fingerprints -> Action]
  BY PlannedActions DEF Init
<1>3. issues \in Seq(Issue)
  BY DEF Init
<1>4. Types
  BY <1>1, <1>2, <1>3, IdleType DEF Init, Types
<1> QED
  BY <1>1, <1>4, IdleType DEF Inv, NoTwins, NotesAlternate, AtItsIssue, NoteIsNext,
     OnlyCapabilitiesUpdate

-----------------------------------------------------------------------------
(***************************************************************************)
(* Writes to one issue.                                                     *)
(***************************************************************************)

LEMMA OneIssueChanges ==
  ASSUME Inv, NEW k \in DOMAIN issues, NEW q \in Issue,
         q.fingerprint = issues[k].fingerprint, issues' = [issues EXCEPT ![k] = q]
  PROVE  /\ issues' \in Seq(Issue) /\ DOMAIN issues' = DOMAIN issues
         /\ issues'[k] = q /\ \A n \in DOMAIN issues : n # k => issues'[n] = issues[n]
         /\ \A n \in DOMAIN issues : issues'[n].fingerprint = issues[n].fingerprint
         /\ NoTwins'
<1>1. issues \in Seq(Issue)
  BY DEF Inv, Types
<1>2. /\ issues' \in Seq(Issue) /\ DOMAIN issues' = DOMAIN issues
      /\ issues'[k] = q /\ \A n \in DOMAIN issues : n # k => issues'[n] = issues[n]
  BY <1>1
<1>3. \A n \in DOMAIN issues : issues'[n].fingerprint = issues[n].fingerprint
  BY <1>2
<1>4. NoTwins'
  BY <1>2, <1>3 DEF Inv, NoTwins
<1> QED
  BY <1>2, <1>3, <1>4

\* A write that leaves the notes alone, by the publication or by people.
LEMMA NotesStay ==
  ASSUME Inv, NEW k \in DOMAIN issues, NEW q \in Issue,
         q.fingerprint = issues[k].fingerprint, q.notes = issues[k].notes,
         issues' = [issues EXCEPT ![k] = q],
         UNCHANGED <<profile, plan, claimed, calm>>,
         publisher' \in Publisher, publisher'.issue \in {NoIssue} \cup DOMAIN issues,
         publisher'.phase \in {"idle", "next"} \/ UNCHANGED publisher
           \/ /\ UNCHANGED <<publisher.issue, publisher.fingerprint, publisher.note>>
              /\ \/ publisher.phase = "relabel" /\ publisher'.phase = "reconcile"
                 \/ publisher.phase = "update" /\ publisher.note /\ publisher'.phase = "note"
  PROVE  Inv'
<1>1. /\ issues' \in Seq(Issue) /\ DOMAIN issues' = DOMAIN issues
      /\ issues'[k] = q /\ \A n \in DOMAIN issues : n # k => issues'[n] = issues[n]
      /\ \A n \in DOMAIN issues : issues'[n].fingerprint = issues[n].fingerprint
      /\ NoTwins'
  BY OneIssueChanges
<1>2. \A n \in DOMAIN issues : issues'[n].notes = issues[n].notes
  BY <1>1
<1>3. Types'
  BY <1>1 DEF Inv, Types
<1>4. NotesAlternate'
  BY <1>1, <1>2 DEF Inv, NotesAlternate
<1>5. AtItsIssue'
  BY <1>1 DEF Inv, AtItsIssue, IssuesOf
<1>6. NoteIsNext'
  <2>1. CASE publisher'.phase \in {"idle", "next", "reconcile"}
    BY <2>1 DEF NoteIsNext
  <2>2. CASE publisher'.phase \notin {"idle", "next", "reconcile"}
    <3> SUFFICES ASSUME (publisher.phase = "note"
                          \/ (publisher.phase = "update" /\ publisher.note))'
                 PROVE  /\ Current'.kind = "resolved"
                              <=> Len(issues'[publisher'.issue].notes) % 2 = 0
                        /\ profile' = "fleet" => Len(issues'[publisher'.issue].notes) = 0
      BY DEF NoteIsNext
    <3>1. publisher.phase = "note" \/ (publisher.phase = "update" /\ publisher.note)
      BY <2>2
    <3>2. UNCHANGED <<publisher.issue, publisher.fingerprint>>
      BY <2>2
    <3>3. publisher.issue \in DOMAIN issues
      BY <3>1 DEF Inv, AtItsIssue
    <3>4. issues'[publisher'.issue].notes = issues[publisher.issue].notes
      BY <1>2, <3>2, <3>3
    <3>5. Current' = Current
      BY <3>2 DEF Current
    <3> QED
      BY <3>1, <3>4, <3>5 DEF Inv, NoteIsNext
  <2> QED
    BY <2>1, <2>2
<1>7. OnlyCapabilitiesUpdate'
  BY DEF Inv, OnlyCapabilitiesUpdate, Reactivates
<1> QED
  BY <1>1, <1>3, <1>4, <1>5, <1>6, <1>7 DEF Inv

-----------------------------------------------------------------------------
(***************************************************************************)
(* Each step of a publication keeps the invariant.                          *)
(***************************************************************************)

LEMMA StartPublicationInv == Inv /\ StartPublication => Inv'
<1> SUFFICES ASSUME Inv, StartPublication PROVE Inv'
  OBVIOUS
<1>1. publisher' \in Publisher /\ publisher'.phase = "next" /\ publisher'.issue = NoIssue
  BY FingerprintsAssumption DEF StartPublication, Idle, Publisher, NoIssue
<1>2. UNCHANGED <<profile, plan, issues, claimed, calm>>
  BY DEF StartPublication, UnchangedWorld
<1> QED
  BY <1>1, <1>2, HoldsNothing DEF Inv, Types

LEMMA FindByLabelInv == Inv /\ FindByLabel => Inv'
<1> SUFFICES ASSUME Inv, FindByLabel PROVE Inv'
  OBVIOUS
<1> DEFINE f == CHOOSE g \in publisher.todo : TRUE
           labelled == {n \in IssuesOf(f) : "fingerprint" \in issues[n].labels}
           n == CHOOSE m \in labelled : TRUE
<1>1. UNCHANGED <<profile, plan, issues, claimed, calm>>
  BY DEF FindByLabel, UnchangedWorld
<1>2. publisher \in Publisher /\ publisher.phase = "next"
  BY DEF FindByLabel, Inv, Types
<1>3. f \in Fingerprints /\ publisher.todo \ {f} \in SUBSET Fingerprints
  <2>1. f \in publisher.todo
    BY DEF FindByLabel
  <2> QED
    BY <1>2, <2>1 DEF Publisher
<1>4. CASE f \in claimed \/ Cardinality(labelled) > 1
  <2>1. publisher' = [publisher EXCEPT !.todo = publisher.todo \ {f}]
    BY <1>4 DEF FindByLabel
  <2>2. publisher' \in Publisher /\ publisher'.phase = "next"
        /\ publisher'.issue = publisher.issue
    BY <1>2, <1>3, <2>1 DEF Publisher
  <2> QED
    BY <1>1, <2>2, HoldsNothing DEF Inv, Types
<1>5. CASE ~(f \in claimed \/ Cardinality(labelled) > 1) /\ labelled = {}
  <2>1. publisher' = [[publisher EXCEPT !.phase = "search"]
                      EXCEPT !.todo = publisher.todo \ {f}, !.fingerprint = f]
    BY <1>2, <1>5 DEF FindByLabel
  <2>2. publisher' \in Publisher /\ publisher'.phase = "search"
        /\ publisher'.issue = publisher.issue
    BY <1>2, <1>3, <2>1 DEF Publisher
  <2> QED
    BY <1>1, <2>2, HoldsNothing DEF Inv, Types
<1>6. CASE ~(f \in claimed \/ Cardinality(labelled) > 1) /\ labelled # {}
  <2> DEFINE phase == IF issues[n].labels = Labels THEN "reconcile" ELSE "relabel"
             open == issues[n].state = "open"
             found == [publisher EXCEPT !.phase = phase, !.issue = n, !.open = open]
  <2>1. found = Found(n, phase)
    BY DEF Found
  <2>2. publisher' = [found EXCEPT !.todo = found.todo \ {f}, !.fingerprint = f]
    BY <1>6, <2>1 DEF FindByLabel
  <2>3. n \in DOMAIN issues /\ issues[n].fingerprint = f
    BY <1>6 DEF IssuesOf
  <2>4. n \in Nat
    BY <2>3 DEF Inv, Types
  <2>5. phase \in {"reconcile", "relabel"} /\ open \in BOOLEAN
    OBVIOUS
  <2> HIDE DEF f, labelled, n, phase, open
  <2>6. publisher' = [publisher EXCEPT !.phase = phase, !.issue = n, !.open = open,
                                       !.todo = publisher.todo \ {f}, !.fingerprint = f]
    BY <1>2, <2>2 DEF Publisher
  <2>7. publisher' \in Publisher /\ publisher'.phase = phase /\ publisher'.issue = n
        /\ publisher'.fingerprint = f
    BY <1>2, <1>3, <2>4, <2>5, <2>6 DEF Publisher
  <2>8. Types' /\ NoTwins' /\ NotesAlternate' /\ OnlyCapabilitiesUpdate'
    BY <1>1, <2>3, <2>5, <2>7
       DEF Inv, Types, NoTwins, NotesAlternate, OnlyCapabilitiesUpdate
  <2>9. AtItsIssue' /\ NoteIsNext'
    BY <1>1, <2>3, <2>5, <2>7 DEF AtItsIssue, NoteIsNext
  <2> QED
    BY <2>8, <2>9 DEF Inv
<1> QED
  BY <1>4, <1>5, <1>6

LEMMA SearchBodyInv == Inv /\ SearchBody => Inv'
<1> SUFFICES ASSUME Inv, SearchBody PROVE Inv'
  OBVIOUS
<1> DEFINE found == IssuesOf(publisher.fingerprint)
           n == CHOOSE m \in found : TRUE
<1>1. UNCHANGED <<profile, plan, issues, claimed, calm>>
  BY DEF SearchBody, UnchangedWorld
<1>2. publisher \in Publisher
  BY DEF Inv, Types
<1>3. CASE NextAction
  <2>1. publisher' \in Publisher /\ publisher'.phase = "next"
        /\ publisher'.issue = NoIssue
    BY <1>3, NextActionJob
  <2> QED
    BY <1>1, <2>1, HoldsNothing DEF Inv, Types
<1>4. CASE found = {} /\ Proceed("create")
  <2>1. publisher' = [publisher EXCEPT !.phase = "create"]
    BY <1>4 DEF Proceed
  <2>2. publisher' \in Publisher /\ publisher'.phase = "create"
        /\ UNCHANGED <<publisher.issue, publisher.fingerprint>>
    BY <1>2, <2>1 DEF Publisher
  <2>3. Types' /\ NoTwins' /\ NotesAlternate' /\ OnlyCapabilitiesUpdate'
    BY <1>1, <2>2 DEF Inv, Types, NoTwins, NotesAlternate, OnlyCapabilitiesUpdate
  <2>4. AtItsIssue' /\ NoteIsNext'
    BY <1>1, <1>4, <2>2 DEF AtItsIssue, NoteIsNext, IssuesOf
  <2> QED
    BY <2>3, <2>4 DEF Inv
<1>5. CASE found # {} /\ publisher' = Found(n, "relabel")
  <2>1. publisher' = [publisher EXCEPT !.phase = "relabel", !.issue = n,
                                       !.open = issues[n].state = "open"]
    BY <1>5 DEF Found
  <2>2. n \in DOMAIN issues /\ issues[n].fingerprint = publisher.fingerprint
    BY <1>5 DEF IssuesOf
  <2>3. n \in Nat
    BY <2>2 DEF Inv, Types
  <2> HIDE DEF n
  <2>4. publisher' \in Publisher /\ publisher'.phase = "relabel" /\ publisher'.issue = n
        /\ UNCHANGED publisher.fingerprint
    BY <1>2, <2>1, <2>3 DEF Publisher
  <2>5. Types' /\ NoTwins' /\ NotesAlternate' /\ OnlyCapabilitiesUpdate'
    BY <1>1, <2>2, <2>4 DEF Inv, Types, NoTwins, NotesAlternate, OnlyCapabilitiesUpdate
  <2>6. AtItsIssue' /\ NoteIsNext'
    BY <1>1, <2>2, <2>4 DEF AtItsIssue, NoteIsNext
  <2> QED
    BY <2>5, <2>6 DEF Inv
<1> QED
  BY <1>3, <1>4, <1>5 DEF SearchBody

LEMMA RestoreLabelsInv == Inv /\ RestoreLabels => Inv'
<1> SUFFICES ASSUME Inv, RestoreLabels PROVE Inv'
  OBVIOUS
<1> DEFINE k == publisher.issue
           q == [issues[k] EXCEPT !.labels = Labels]
<1>1. k \in DOMAIN issues /\ publisher \in Publisher /\ publisher.phase = "relabel"
      /\ issues \in Seq(Issue)
  BY DEF RestoreLabels, Inv, Types, AtItsIssue
<1>2. q \in Issue /\ q.fingerprint = issues[k].fingerprint /\ q.notes = issues[k].notes
  <2>1. issues[k] \in Issue
    BY <1>1
  <2> QED
    BY <2>1 DEF Issue
<1>3. issues' = [issues EXCEPT ![k] = q] /\ UNCHANGED <<profile, plan, claimed, calm>>
      /\ publisher' = [publisher EXCEPT !.phase = "reconcile"]
  BY DEF RestoreLabels, UnchangedWorld, Proceed
<1>4. publisher' \in Publisher /\ publisher'.phase = "reconcile"
      /\ UNCHANGED <<publisher.issue, publisher.fingerprint, publisher.note>>
  BY <1>1, <1>3 DEF Publisher
<1>5. publisher'.issue \in {NoIssue} \cup DOMAIN issues
  BY <1>1, <1>4
<1> HIDE DEF k, q
<1> QED
  BY <1>1, <1>2, <1>3, <1>4, <1>5, NotesStay

\* Where a note is due, it is the next one: the notes so far end with the other kind.
LEMMA DueNoteIsNext ==
  ASSUME Inv, NEW n \in DOMAIN issues, NoteIsDue(n), Current.kind \in Notes
  PROVE  /\ Current.kind = "resolved" <=> Len(issues[n].notes) % 2 = 0
         /\ profile = "fleet" => Len(issues[n].notes) = 0
<1> DEFINE notes == issues[n].notes
<1>1. notes \in Seq(Notes) /\ Alternate(notes) /\ Len(notes) \in Nat
      /\ DOMAIN notes = 1 .. Len(notes) /\ profile \in {"fleet", "capability"}
  <2>1. issues[n] \in Issue
    BY DEF Inv, Types
  <2> QED
    BY <2>1 DEF Inv, NotesAlternate, Types, Issue
<1>2. notes # << >> => /\ Len(notes) \in DOMAIN notes /\ 1 \in DOMAIN notes
                       /\ LastNote(n) = notes[Len(notes)]
  BY <1>1 DEF LastNote, Last
<1>3. notes = << >> => Len(notes) = 0 /\ LastNote(n) = "none"
  BY DEF LastNote
<1>4. CASE Current.kind = "active"
  <2>1. Reactivates /\ LastNote(n) = "resolved"
    BY <1>4 DEF NoteIsDue
  <2>2. notes # << >> /\ notes[Len(notes)] = "resolved"
    BY <1>2, <1>3, <2>1
  <2> HIDE DEF notes
  <2>3. Len(notes) % 2 = 1
    BY <1>1, <1>2, <2>2 DEF Alternate
  <2>4. ~(Len(notes) % 2 = 0)
    BY <2>3
  <2>5. profile # "fleet" /\ Current.kind # "resolved"
    BY <1>4, <2>1 DEF Reactivates
  <2> QED
    BY <2>4, <2>5 DEF notes
<1>5. CASE Current.kind = "resolved" /\ Reactivates
  <2>1. LastNote(n) # "resolved"
    BY <1>5 DEF NoteIsDue
  <2>2. CASE notes = << >>
    <3>1. Len(notes) % 2 = 0
      BY <1>3, <2>2
    <3> QED
      BY <1>5, <3>1 DEF Reactivates
  <2>3. CASE notes # << >>
    <3>1. notes[Len(notes)] # "resolved" /\ Len(notes) \in DOMAIN notes
      BY <1>2, <2>1, <2>3
    <3> HIDE DEF notes
    <3>2. Len(notes) % 2 # 1
      BY <1>1, <3>1 DEF Alternate
    <3>3. Len(notes) % 2 = 0
      BY <1>1, <3>2
    <3> QED
      BY <1>5, <3>3 DEF Reactivates, notes
  <2> QED
    BY <2>2, <2>3
<1>6. CASE Current.kind = "resolved" /\ ~Reactivates
  <2>1. "resolved" \notin ToSet(notes)
    BY <1>6 DEF NoteIsDue
  <2>2. notes = << >>
    <3> SUFFICES ASSUME notes # << >> PROVE FALSE
      OBVIOUS
    <3>1. notes[1] = "resolved"
      BY <1>1, <1>2 DEF Alternate
    <3> QED
      BY <1>2, <2>1, <3>1 DEF ToSet
  <2>3. Len(notes) = 0 /\ Len(notes) % 2 = 0
    BY <1>3, <2>2
  <2> QED
    BY <1>6, <2>3
<1> QED
  BY <1>4, <1>5, <1>6 DEF Notes

LEMMA CurrentType == Inv => Current \in Action
BY DEF Inv, Types, Publisher, Current

LEMMA ReconcileInv == Inv /\ Reconcile => Inv'
<1> SUFFICES ASSUME Inv, Reconcile PROVE Inv'
  OBVIOUS
<1> DEFINE n == publisher.issue
<1>1. UNCHANGED <<profile, plan, issues, claimed, calm>>
  BY DEF Reconcile, UnchangedWorld
<1>2. /\ n \in DOMAIN issues /\ publisher \in Publisher /\ publisher.phase = "reconcile"
      /\ issues[n].fingerprint = publisher.fingerprint
  BY DEF Reconcile, Inv, Types, AtItsIssue
<1>3. Current.kind \in Notes
  BY CurrentType DEF Action
<1>4. CASE NextAction
  <2>1. publisher' \in Publisher /\ publisher'.phase = "next"
        /\ publisher'.issue = NoIssue
    BY <1>4, NextActionJob
  <2> QED
    BY <1>1, <2>1, HoldsNothing DEF Inv, Types
<1>5. CASE NoteIsDue(n) /\ Proceed("note")
  <2>1. publisher' = [publisher EXCEPT !.phase = "note"]
    BY <1>5 DEF Proceed
  <2>2. publisher' \in Publisher /\ publisher'.phase = "note"
        /\ UNCHANGED <<publisher.issue, publisher.fingerprint>>
    BY <1>2, <2>1 DEF Publisher
  <2>3. /\ Current.kind = "resolved" <=> Len(issues[n].notes) % 2 = 0
        /\ profile = "fleet" => Len(issues[n].notes) = 0
    BY <1>2, <1>3, <1>5, DueNoteIsNext
  <2>4. UNCHANGED Current
    BY <1>1, <2>2 DEF Current
  <2>5. Types' /\ NoTwins' /\ NotesAlternate' /\ OnlyCapabilitiesUpdate'
    BY <1>1, <1>2, <2>2 DEF Inv, Types, NoTwins, NotesAlternate, OnlyCapabilitiesUpdate
  <2>6. AtItsIssue'
    BY <1>1, <1>2, <2>2 DEF AtItsIssue
  <2>7. NoteIsNext'
    BY <1>1, <2>2, <2>3, <2>4 DEF NoteIsNext
  <2> QED
    BY <2>5, <2>6, <2>7 DEF Inv
<1>6. CASE /\ ContentIsDue(n)
           /\ publisher' = [publisher EXCEPT !.phase = "update", !.note = NoteIsDue(n)]
  <2>1. NoteIsDue(n) \in BOOLEAN
    BY DEF NoteIsDue, Reactivates
  <2>2. /\ publisher' \in Publisher /\ publisher'.phase = "update"
        /\ publisher'.note = NoteIsDue(n)
        /\ UNCHANGED <<publisher.issue, publisher.fingerprint>>
    BY <1>2, <1>6, <2>1 DEF Publisher
  <2>3. NoteIsDue(n) => /\ Current.kind = "resolved" <=> Len(issues[n].notes) % 2 = 0
                        /\ profile = "fleet" => Len(issues[n].notes) = 0
    BY <1>2, <1>3, DueNoteIsNext
  <2>4. UNCHANGED Current
    BY <1>1, <2>2 DEF Current
  <2>5. Types' /\ NoTwins' /\ NotesAlternate'
    BY <1>1, <1>2, <2>2 DEF Inv, Types, NoTwins, NotesAlternate
  <2>6. OnlyCapabilitiesUpdate'
    BY <1>1, <1>6 DEF OnlyCapabilitiesUpdate, ContentIsDue, Reactivates
  <2>7. AtItsIssue'
    BY <1>1, <1>2, <2>2 DEF AtItsIssue
  <2>8. NoteIsNext'
    <3> SUFFICES ASSUME publisher'.note
                 PROVE  /\ Current'.kind = "resolved"
                              <=> Len(issues'[publisher'.issue].notes) % 2 = 0
                        /\ profile' = "fleet"
                              => Len(issues'[publisher'.issue].notes) = 0
      BY <2>2 DEF NoteIsNext
    <3>1. NoteIsDue(n)
      BY <2>2
    <3> HIDE DEF n
    <3> QED
      BY <1>1, <2>2, <2>3, <2>4, <3>1 DEF n
  <2> QED
    BY <2>5, <2>6, <2>7, <2>8 DEF Inv
<1> QED
  BY <1>4, <1>5, <1>6 DEF Reconcile

\* The issue created is the first of its finding.
LEMMA CreateInv == Inv /\ Create => Inv'
<1> SUFFICES ASSUME Inv, Create PROVE Inv'
  OBVIOUS
<1> DEFINE q == [fingerprint |-> publisher.fingerprint, state |-> "open", labels |-> Labels,
                 content |-> Current.content, notes |-> << >>]
           last == Len(issues) + 1
<1>1. UNCHANGED <<profile, plan, claimed, calm>> /\ NextAction
  BY DEF Create, UnchangedWorld
<1>2. /\ publisher' \in Publisher /\ publisher'.phase = "next"
      /\ publisher'.issue = NoIssue
  BY <1>1, NextActionJob
<1>3. CASE Len(issues) = MaxIssues
  <2>1. issues' = issues
    BY <1>3 DEF Create
  <2> QED
    BY <1>1, <1>2, <2>1, HoldsNothing DEF Inv, Types
<1>4. CASE Len(issues) # MaxIssues
  <2>1. /\ issues \in Seq(Issue) /\ Len(issues) \in Nat
        /\ DOMAIN issues = 1 .. Len(issues)
        /\ publisher.fingerprint \in Fingerprints
        /\ IssuesOf(publisher.fingerprint) = {}
    BY DEF Create, Inv, Types, AtItsIssue, Publisher
  <2>2. q \in Issue
    <3>1. Current.content \in Contents
      BY CurrentType DEF Action
    <3> QED
      BY <2>1, <3>1 DEF Issue
  <2>3. issues' = Append(issues, q)
    BY <1>4 DEF Create
  <2>4. q.fingerprint = publisher.fingerprint /\ q.notes = << >>
    OBVIOUS
  <2> HIDE DEF q
  <2>5. /\ issues' \in Seq(Issue) /\ DOMAIN issues' = 1 .. last /\ issues'[last] = q
        /\ \A n \in DOMAIN issues : issues'[n] = issues[n]
    BY <2>1, <2>2, <2>3
  <2>6. \A n \in DOMAIN issues' : n \in DOMAIN issues \/ n = last
    BY <2>1, <2>5
  <2>7. Types'
    BY <1>1, <1>2, <2>5 DEF Inv, Types
  <2>8. NoTwins'
    <3>1. \A n \in DOMAIN issues : issues[n].fingerprint # q.fingerprint
      BY <2>1, <2>4 DEF IssuesOf
    <3> QED
      BY <2>5, <2>6, <3>1 DEF Inv, NoTwins
  <2>9. NotesAlternate'
    <3>1. Alternate(<< >>) /\ Len(<< >>) <= 1
      BY DEF Alternate
    <3> QED
      BY <1>1, <2>4, <2>5, <2>6, <3>1 DEF Inv, NotesAlternate
  <2>10. AtItsIssue' /\ NoteIsNext' /\ OnlyCapabilitiesUpdate'
    BY <1>2 DEF AtItsIssue, NoteIsNext, OnlyCapabilitiesUpdate
  <2> QED
    BY <2>7, <2>8, <2>9, <2>10 DEF Inv
<1> QED
  BY <1>3, <1>4

LEMMA UpdateContentInv == Inv /\ UpdateContent => Inv'
<1> SUFFICES ASSUME Inv, UpdateContent PROVE Inv'
  OBVIOUS
<1> DEFINE k == publisher.issue
           q == [issues[k] EXCEPT !.content = Current.content]
<1>1. k \in DOMAIN issues /\ publisher \in Publisher /\ publisher.phase = "update"
      /\ issues \in Seq(Issue)
  BY DEF UpdateContent, Inv, Types, AtItsIssue
<1>2. q \in Issue /\ q.fingerprint = issues[k].fingerprint /\ q.notes = issues[k].notes
  <2>1. issues[k] \in Issue /\ Current.content \in Contents
    BY <1>1, CurrentType DEF Action
  <2> QED
    BY <2>1 DEF Issue
<1>3. issues' = [issues EXCEPT ![k] = q] /\ UNCHANGED <<profile, plan, claimed, calm>>
  BY DEF UpdateContent, UnchangedWorld
<1> HIDE DEF q
<1>4. CASE publisher.note
  <2>1. publisher' = [publisher EXCEPT !.phase = "note"]
    BY <1>4 DEF UpdateContent, Proceed
  <2>2. publisher' \in Publisher /\ publisher'.phase = "note"
        /\ UNCHANGED <<publisher.issue, publisher.fingerprint, publisher.note>>
    BY <1>1, <2>1 DEF Publisher
  <2>3. publisher'.issue \in {NoIssue} \cup DOMAIN issues
    BY <1>1, <2>2
  <2> HIDE DEF k
  <2> QED
    BY <1>1, <1>2, <1>3, <1>4, <2>2, <2>3, NotesStay
<1>5. CASE ~publisher.note
  <2>1. NextAction
    BY <1>5 DEF UpdateContent
  <2>2. publisher' \in Publisher /\ publisher'.phase = "next"
        /\ publisher'.issue = NoIssue
    BY <2>1, NextActionJob
  <2> HIDE DEF k
  <2> QED
    BY <1>1, <1>2, <1>3, <2>2, NotesStay
<1> QED
  BY <1>4, <1>5

\* A next note keeps the notes alternating, and is the only one of a fleet issue.
LEMMA AddNoteInv == Inv /\ AddNote => Inv'
<1> SUFFICES ASSUME Inv, AddNote PROVE Inv'
  OBVIOUS
<1> DEFINE k == publisher.issue
           notes == issues[k].notes
           longer == Append(notes, Current.kind)
           q == [issues[k] EXCEPT !.notes = longer]
<1>1. UNCHANGED <<profile, plan, claimed, calm>> /\ NextAction
  BY DEF AddNote, UnchangedWorld
<1>2. publisher' \in Publisher /\ publisher'.phase = "next" /\ publisher'.issue = NoIssue
  BY <1>1, NextActionJob
<1>3. CASE Len(notes) = MaxNotes
  <2>1. issues' = issues
    BY <1>3 DEF AddNote
  <2> QED
    BY <1>1, <1>2, <2>1, HoldsNothing DEF Inv, Types
<1>4. CASE Len(notes) # MaxNotes
  <2>1. k \in DOMAIN issues /\ issues \in Seq(Issue) /\ issues[k] \in Issue
    BY DEF AddNote, Inv, Types, AtItsIssue
  <2>2. /\ notes \in Seq(Notes) /\ Current.kind \in Notes /\ Len(notes) \in Nat
        /\ DOMAIN notes = 1 .. Len(notes)
    BY <2>1, CurrentType DEF Issue, Action
  <2>3. /\ Current.kind = "resolved" <=> Len(notes) % 2 = 0
        /\ profile = "fleet" => Len(notes) = 0
    BY DEF AddNote, Inv, NoteIsNext
  <2>4. Alternate(notes)
    BY <2>1 DEF Inv, NotesAlternate
  <2>5. issues' = [issues EXCEPT ![k] = q]
    BY <1>4 DEF AddNote
  <2>6. longer \in Seq(Notes)
    BY <2>2
  <2>7. q \in Issue /\ q.fingerprint = issues[k].fingerprint /\ q.notes = longer
    BY <2>1, <2>6 DEF Issue
  <2>8. /\ issues' \in Seq(Issue) /\ DOMAIN issues' = DOMAIN issues
        /\ issues'[k] = q /\ \A n \in DOMAIN issues : n # k => issues'[n] = issues[n]
        /\ NoTwins'
    <3> HIDE DEF q, k
    <3> QED
      BY <2>1, <2>5, <2>7, OneIssueChanges
  <2>9. Alternate(longer) /\ (profile = "fleet" => Len(longer) <= 1)
    <3> HIDE DEF notes
    <3>1. /\ DOMAIN longer = 1 .. (Len(notes) + 1) /\ Len(longer) = Len(notes) + 1
          /\ longer[Len(notes) + 1] = Current.kind
          /\ \A i \in DOMAIN notes : longer[i] = notes[i]
      BY <2>2
    <3>2. \A i \in DOMAIN longer : i \in DOMAIN notes \/ i = Len(notes) + 1
      BY <2>2, <3>1
    <3>3. (Len(notes) + 1) % 2 = 1 <=> Len(notes) % 2 = 0
      BY <2>2
    <3>4. Current.kind = IF (Len(notes) + 1) % 2 = 1 THEN "resolved" ELSE "active"
      BY <2>2, <2>3, <3>3 DEF Notes
    <3>5. Alternate(longer)
      BY <2>4, <3>1, <3>2, <3>4 DEF Alternate
    <3> QED
      BY <2>3, <3>1, <3>5
  <2> HIDE DEF longer, q, k
  <2>10. NotesAlternate'
    BY <1>1, <2>7, <2>8, <2>9 DEF Inv, NotesAlternate
  <2>11. Types'
    BY <1>1, <1>2, <2>8 DEF Inv, Types
  <2>12. AtItsIssue' /\ NoteIsNext' /\ OnlyCapabilitiesUpdate'
    BY <1>2 DEF AtItsIssue, NoteIsNext, OnlyCapabilitiesUpdate
  <2> QED
    BY <2>8, <2>10, <2>11, <2>12 DEF Inv
<1> QED
  BY <1>3, <1>4

LEMMA FailInv == Inv /\ Fail => Inv'
<1> SUFFICES ASSUME Inv, Fail PROVE Inv'
  OBVIOUS
<1>1. UNCHANGED <<profile, plan, issues, claimed, calm>> /\ NextAction
  BY DEF Fail, UnchangedWorld
<1>2. publisher' \in Publisher /\ publisher'.phase = "next" /\ publisher'.issue = NoIssue
  BY <1>1, NextActionJob
<1> QED
  BY <1>1, <1>2, HoldsNothing DEF Inv, Types

LEMMA PublicationEndsInv == Inv /\ (EndPublication \/ Kill) => Inv'
<1> SUFFICES ASSUME Inv, EndPublication \/ Kill PROVE Inv'
  OBVIOUS
<1>1. UNCHANGED <<profile, plan, issues, claimed, calm>> /\ publisher' = Idle
  BY DEF EndPublication, Kill, UnchangedWorld
<1> QED
  BY <1>1, IdleType, HoldsNothing DEF Inv, Types

-----------------------------------------------------------------------------
(***************************************************************************)
(* So does everything around it.                                            *)
(***************************************************************************)

LEMMA ReportChangesInv == Inv /\ ReportChanges => Inv'
<1> SUFFICES ASSUME Inv, ReportChanges PROVE Inv'
  OBVIOUS
<1>1. /\ UNCHANGED <<profile, issues, claimed, publisher, calm>>
      /\ publisher.phase = "idle"
  BY DEF ReportChanges
<1>2. plan' \in [Fingerprints -> Action]
  BY PlannedActions DEF ReportChanges, Inv, Types
<1>3. publisher' \in Publisher /\ publisher'.issue \in {NoIssue} \cup DOMAIN issues
  BY <1>1 DEF Inv, Types
<1> QED
  BY <1>1, <1>2, <1>3, HoldsNothing

LEMMA OwnerClosesOrReopensInv ==
  ASSUME NEW n \in DOMAIN issues PROVE Inv /\ OwnerClosesOrReopens(n) => Inv'
<1> SUFFICES ASSUME Inv, OwnerClosesOrReopens(n) PROVE Inv'
  OBVIOUS
<1> DEFINE state == IF issues[n].state = "open" THEN "closed" ELSE "open"
           q == [issues[n] EXCEPT !.state = state]
<1>1. q \in Issue /\ q.fingerprint = issues[n].fingerprint /\ q.notes = issues[n].notes
  <2>1. issues[n] \in Issue
    BY DEF Inv, Types
  <2> QED
    BY <2>1 DEF Issue
<1>2. issues' = [issues EXCEPT ![n] = q] /\ UNCHANGED <<profile, plan, claimed, calm, publisher>>
  BY DEF OwnerClosesOrReopens, UnchangedWorld
<1>3. publisher' \in Publisher /\ publisher'.issue \in {NoIssue} \cup DOMAIN issues
  BY <1>2 DEF Inv, Types
<1> HIDE DEF q
<1> QED
  BY <1>1, <1>2, <1>3, NotesStay

LEMMA SomebodyRemovesLabelInv ==
  ASSUME NEW n \in DOMAIN issues, NEW label \in Labels
  PROVE  Inv /\ SomebodyRemovesLabel(n, label) => Inv'
<1> SUFFICES ASSUME Inv, SomebodyRemovesLabel(n, label) PROVE Inv'
  OBVIOUS
<1> DEFINE q == [issues[n] EXCEPT !.labels = issues[n].labels \ {label}]
<1>1. q \in Issue /\ q.fingerprint = issues[n].fingerprint /\ q.notes = issues[n].notes
  <2>1. issues[n] \in Issue
    BY DEF Inv, Types
  <2> QED
    BY <2>1 DEF Issue
<1>2. issues' = [issues EXCEPT ![n] = q] /\ UNCHANGED <<profile, plan, claimed, calm, publisher>>
  BY DEF SomebodyRemovesLabel, UnchangedWorld
<1>3. publisher' \in Publisher /\ publisher'.issue \in {NoIssue} \cup DOMAIN issues
  BY <1>2 DEF Inv, Types
<1> HIDE DEF q
<1> QED
  BY <1>1, <1>2, <1>3, NotesStay

\* What publications and their issues say of each other.
LEMMA Elsewhere ==
  ASSUME Inv, Types', UNCHANGED <<profile, plan, issues, publisher>>
  PROVE  Inv'
BY DEF Inv, NoTwins, NotesAlternate, AtItsIssue, NoteIsNext, OnlyCapabilitiesUpdate,
       IssuesOf, Current, Reactivates

LEMMA SomebodyClaimsInv ==
  ASSUME NEW f \in Claimable PROVE Inv /\ SomebodyClaims(f) => Inv'
<1> SUFFICES ASSUME Inv, SomebodyClaims(f) PROVE Inv'
  OBVIOUS
<1>1. UNCHANGED <<profile, plan, issues, publisher, calm>> /\ claimed' \subseteq Claimable
  BY DEF SomebodyClaims, Inv, Types
<1>2. Types'
  BY <1>1 DEF Inv, Types
<1> QED
  BY <1>1, <1>2, Elsewhere

LEMMA BecomesCalmInv == Inv /\ BecomesCalm => Inv'
<1> SUFFICES ASSUME Inv, BecomesCalm PROVE Inv'
  OBVIOUS
<1>1. UNCHANGED <<profile, plan, issues, publisher, claimed>> /\ calm' = TRUE
  BY DEF BecomesCalm
<1>2. Types'
  BY <1>1 DEF Inv, Types
<1> QED
  BY <1>1, <1>2, Elsewhere

LEMMA StepInv == Inv /\ [Next]_vars => Inv'
<1>1. Inv /\ Step => Inv'
  BY StartPublicationInv, FindByLabelInv, SearchBodyInv, RestoreLabelsInv, ReconcileInv,
     CreateInv, UpdateContentInv, AddNoteInv, PublicationEndsInv DEF Step
<1>2. Inv /\ World => Inv'
  BY ReportChangesInv, OwnerClosesOrReopensInv, SomebodyRemovesLabelInv, SomebodyClaimsInv
     DEF World
<1>3. Inv /\ UNCHANGED vars => Inv'
  <2> SUFFICES ASSUME Inv, UNCHANGED vars PROVE Inv'
    OBVIOUS
  <2>1. Types'
    BY DEF vars, Inv, Types
  <2> QED
    BY <2>1, Elsewhere DEF vars
<1> QED
  BY <1>1, <1>2, <1>3, FailInv, PublicationEndsInv, BecomesCalmInv DEF Next

-----------------------------------------------------------------------------
(***************************************************************************)
(* The theorems.                                                            *)
(***************************************************************************)

\* Every variable has its type, and what a publication works on is its issue.
THEOREM IssuesTypeOK == Spec => []TypeOK
<1>1. Inv => TypeOK
  BY DEF Inv, Types, AtItsIssue, TypeOK
<1> QED
  BY <1>1, InitInv, StepInv, PTL DEF Spec

LEMMA TwinlessSets ==
  ASSUME NEW S, \A m, n \in S : m = n PROVE Cardinality(S) \in {0, 1}
<1>1. CASE S = {}
  BY <1>1, FS_EmptySet
<1>2. CASE S # {}
  <2>1. PICK x \in S : TRUE
    BY <1>2
  <2>2. S = {x}
    BY <2>1
  <2> QED
    BY <2>2, FS_Singleton
<1> QED
  BY <1>1, <1>2

\* No crash, timeout, removed label or retry makes a second issue of a finding.
THEOREM FindingsHaveOneIssue == Spec => []OneIssuePerFinding
<1>1. Inv => OneIssuePerFinding
  <2> SUFFICES ASSUME Inv, NEW f \in Fingerprints PROVE Cardinality(IssuesOf(f)) <= 1
    BY DEF OneIssuePerFinding
  <2>1. \A m, n \in IssuesOf(f) : m = n
    BY DEF Inv, NoTwins, IssuesOf
  <2> QED
    BY <2>1, TwinlessSets
<1> QED
  BY <1>1, InitInv, StepInv, PTL DEF Spec

\* A fleet issue gets at most one resolution note; the notes of a capability issue
\* alternate, whatever calls fail after they took effect.
THEOREM NotesAreWrittenOnce == Spec => []NotesAreNotRepeated
<1>1. Inv => NotesAreNotRepeated
  BY DEF Inv, NotesAlternate, Alternate, NotesAreNotRepeated
<1> QED
  BY <1>1, InitInv, StepInv, PTL DEF Spec

-----------------------------------------------------------------------------
(***************************************************************************)
(* The issues are records of findings.  A publication creates only where   *)
(* the report calls the finding active, and adds a note only where the     *)
(* notes so far say otherwise; all other steps leave the records alone.    *)
(***************************************************************************)

CreatesWhatIsThere == publisher.phase = "create" => Current.kind = "active"

RInv == Inv /\ CreatesWhatIsThere

LEMMA InitRInv == Init => RInv
BY InitInv, IdleType DEF Init, RInv, CreatesWhatIsThere

LEMMA StepRInv == RInv /\ [Next]_vars => RInv'
<1> SUFFICES ASSUME RInv, [Next]_vars PROVE RInv'
  OBVIOUS
<1> DEFINE Quiet == UNCHANGED <<plan, publisher>> \/ publisher'.phase # "create"
<1>1. Inv /\ Inv' /\ publisher \in Publisher
  BY StepInv DEF RInv, Inv, Types
<1>2. NextAction => Quiet
  BY <1>1, NextActionJob
<1>3. publisher' = Idle => Quiet
  BY IdleType
<1>4. \A phase \in {"search", "relabel", "reconcile", "note", "create"} :
        Proceed(phase) => /\ publisher'.phase = phase
                          /\ publisher'.fingerprint = publisher.fingerprint
  BY <1>1 DEF Proceed, Publisher
<1>5. CASE SearchBody
  <2>1. publisher'.phase = "create" => Current.kind = "active" /\ Proceed("create")
    <3>1. \A n : Found(n, "relabel").phase = "relabel"
      BY <1>1 DEF Found, Publisher
    <3> QED
      BY <1>2, <1>5, <3>1, NextActionJob, <1>1 DEF SearchBody
  <2>2. plan' = plan
    BY <1>5 DEF SearchBody, UnchangedWorld
  <2> QED
    BY <1>1, <1>4, <2>1, <2>2 DEF RInv, CreatesWhatIsThere, Current
<1>6. CASE FindByLabel
  <2>1. \A phase \in {"search", "relabel", "reconcile"} : \A n, todo, f :
          /\ [[publisher EXCEPT !.phase = phase] EXCEPT !.todo = todo, !.fingerprint = f].phase = phase
          /\ [Found(n, phase) EXCEPT !.todo = todo, !.fingerprint = f].phase = phase
    BY <1>1 DEF Found, Publisher
  <2>2. \A todo : [publisher EXCEPT !.todo = todo].phase = publisher.phase
    BY <1>1 DEF Publisher
  <2>3. publisher'.phase # "create"
    BY <1>6, <2>1, <2>2 DEF FindByLabel
  <2> QED
    BY <1>1, <2>3 DEF RInv, CreatesWhatIsThere
<1>7. StartPublication => Quiet
  <2>1. [Idle EXCEPT !.phase = "next", !.todo = Fingerprints].phase = "next"
    BY IdleType DEF Publisher
  <2> QED
    BY <2>1 DEF StartPublication
<1>8. EndPublication \/ Kill => Quiet
  BY <1>3 DEF EndPublication, Kill
<1>9. RestoreLabels \/ Reconcile \/ UpdateContent => Quiet
  <2>1. [publisher EXCEPT !.phase = "update", !.note = NoteIsDue(publisher.issue)].phase = "update"
    BY <1>1 DEF Publisher
  <2> QED
    BY <1>2, <1>4, <2>1 DEF RestoreLabels, Reconcile, UpdateContent
<1>10. Create \/ AddNote \/ Fail => Quiet
  BY <1>2 DEF Create, AddNote, Fail
<1>11. World \/ BecomesCalm \/ UNCHANGED vars => Quiet
  BY DEF World, ReportChanges, OwnerClosesOrReopens, SomebodyRemovesLabel, SomebodyClaims,
         BecomesCalm, UnchangedWorld, vars
<1>12. Quiet => RInv'
  BY <1>1 DEF RInv, CreatesWhatIsThere, Current
<1> QED
  BY <1>5, <1>6, <1>7, <1>8, <1>9, <1>10, <1>11, <1>12 DEF Next, Step

\* Nobody looks at what else there is of an issue.
LEMMA RecordsStay ==
  ASSUME Inv, NEW k \in DOMAIN issues, NEW q \in Issue,
         q.fingerprint = issues[k].fingerprint, q.notes = issues[k].notes,
         issues' = [issues EXCEPT ![k] = q]
  PROVE  Records' = Records
<1>1. DOMAIN issues' = DOMAIN issues
  OBVIOUS
<1>2. \A n \in DOMAIN issues :
        issues'[n].fingerprint = issues[n].fingerprint /\ issues'[n].notes = issues[n].notes
  OBVIOUS
<1> QED
  BY <1>1, <1>2 DEF Records

\* A created issue is the first record of a finding that is there.
LEMMA CreateOpens ==
  ASSUME RInv, Create
  PROVE  Board!Open \/ UNCHANGED Board!board
<1> DEFINE f == publisher.fingerprint
           q == [fingerprint |-> f, state |-> "open", labels |-> Labels,
                 content |-> Current.content, notes |-> << >>]
           reported == [g \in Fingerprints |-> plan[g].kind]
<1>1. UNCHANGED <<profile, plan>> /\ publisher.phase = "create"
  BY DEF Create, UnchangedWorld
<1>2. CASE Len(issues) = MaxIssues
  <2>1. issues' = issues
    BY <1>2 DEF Create
  <2> QED
    BY <1>1, <2>1 DEF Board!board, Records
<1>3. CASE Len(issues) # MaxIssues
  <2>1. /\ issues \in Seq(Issue) /\ Len(issues) \in Nat /\ DOMAIN issues = 1 .. Len(issues)
        /\ f \in Fingerprints /\ IssuesOf(f) = {}
    BY <1>1 DEF RInv, Inv, Types, AtItsIssue, Publisher
  <2>2. issues' = Append(issues, q)
    BY <1>3 DEF Create
  <2>3. q.fingerprint = f /\ q.notes = << >>
    OBVIOUS
  <2> HIDE DEF q
  <2>4. /\ DOMAIN issues' = 1 .. (Len(issues) + 1) /\ issues'[Len(issues) + 1] = q
        /\ \A n \in 1 .. Len(issues) : issues'[n] = issues[n]
    BY <2>1, <2>2
  <2>5. Records' = Append(Records, [finding |-> f, notes |-> << >>])
    <3>1. Records = [n \in 1 .. Len(issues) |->
                       [finding |-> issues[n].fingerprint, notes |-> issues[n].notes]]
      BY <2>1 DEF Records
    <3>2. Records' = [n \in 1 .. (Len(issues) + 1) |->
                        IF n = Len(issues) + 1 THEN [finding |-> f, notes |-> << >>]
                        ELSE [finding |-> issues[n].fingerprint, notes |-> issues[n].notes]]
      BY <2>1, <2>3, <2>4 DEF Records
    <3>3. Len(Records) = Len(issues) /\ DOMAIN Records = 1 .. Len(issues)
      BY <2>1, <3>1
    <3> QED
      BY <2>1, <3>1, <3>2, <3>3
  <2>6. ~Board!HasRecord(f)
    BY <2>1 DEF Board!HasRecord, Records, IssuesOf
  <2>7. reported[f] = "active"
    BY <1>1, <2>1 DEF RInv, CreatesWhatIsThere, Current
  <2> QED
    BY <1>1, <2>1, <2>5, <2>6, <2>7 DEF Board!Open
<1> QED
  BY <1>2, <1>3

\* A note tells a record what the report says and the record does not.
LEMMA AddNoteTells ==
  ASSUME RInv, AddNote
  PROVE  Board!Tell \/ UNCHANGED Board!board
<1> DEFINE k == publisher.issue
           notes == issues[k].notes
           kind == Current.kind
           reported == [g \in Fingerprints |-> plan[g].kind]
<1>1. UNCHANGED <<profile, plan>> /\ publisher.phase = "note"
  BY DEF AddNote, UnchangedWorld
<1>2. CASE Len(notes) = MaxNotes
  <2>1. issues' = issues
    BY <1>2 DEF AddNote
  <2> QED
    BY <1>1, <2>1 DEF Board!board, Records
<1>3. CASE Len(notes) # MaxNotes
  <2>1. /\ k \in DOMAIN issues /\ issues \in Seq(Issue) /\ issues[k] \in Issue
        /\ issues[k].fingerprint = publisher.fingerprint /\ publisher.fingerprint \in Fingerprints
    BY <1>1 DEF RInv, Inv, Types, AtItsIssue, Publisher
  <2>2. /\ notes \in Seq(Notes) /\ kind \in Notes /\ Len(notes) \in Nat
        /\ DOMAIN notes = 1 .. Len(notes)
    BY <2>1, CurrentType DEF RInv, Issue, Action
  <2>3. /\ kind = "resolved" <=> Len(notes) % 2 = 0
        /\ profile = "fleet" => Len(notes) = 0
    BY <1>1 DEF RInv, Inv, NoteIsNext
  <2>4. Alternate(notes)
    BY <2>1 DEF RInv, Inv, NotesAlternate
  <2>5. Board!MayBeTold(notes, kind)
    <3> HIDE DEF notes, kind
    <3>1. CASE notes = << >>
      BY <2>2, <2>3, <3>1 DEF Board!MayBeTold, Board!Says, Notes
    <3>2. CASE notes # << >>
      <4>1. Len(notes) \in DOMAIN notes /\ Len(notes) # 0
        BY <2>2, <3>2
      <4>2. notes[Len(notes)] = IF Len(notes) % 2 = 1 THEN "resolved" ELSE "active"
        BY <2>4, <4>1 DEF Alternate
      <4>3. Len(notes) % 2 = 1 <=> ~(Len(notes) % 2 = 0)
        BY <2>2
      <4> QED
        BY <2>2, <2>3, <3>2, <4>1, <4>2, <4>3 DEF Board!MayBeTold, Board!Says, Notes
    <3> QED
      BY <3>1, <3>2
  <2>6. reported[publisher.fingerprint] = kind
    BY <2>1 DEF Current
  <2>7. issues' = [issues EXCEPT ![k].notes = Append(notes, kind)]
    BY <1>3 DEF AddNote
  <2>8. Records[k] = [finding |-> publisher.fingerprint, notes |-> notes] /\ k \in DOMAIN Records
    BY <2>1 DEF Records
  <2>9. Records' = [Records EXCEPT ![k].notes = Append(notes, kind)]
    <3>1. DOMAIN issues' = DOMAIN issues
      BY <2>7
    <3>2. \A n \in DOMAIN issues : n # k => issues'[n] = issues[n]
      BY <2>7
    <3>3. /\ issues'[k].fingerprint = issues[k].fingerprint
          /\ issues'[k].notes = Append(notes, kind)
      BY <2>1, <2>7 DEF Issue
    <3> HIDE DEF notes, kind
    <3> QED
      BY <2>1, <2>8, <3>1, <3>2, <3>3 DEF Records
  <2> HIDE DEF notes, kind, k
  <2>10. Records[k].notes = notes /\ reported[Records[k].finding] = kind
    BY <2>6, <2>8
  <2> QED
    BY <1>1, <2>5, <2>8, <2>9, <2>10 DEF Board!Tell
<1> QED
  BY <1>2, <1>3

LEMMA OtherStepsLeaveRecords ==
  ASSUME RInv, \/ StartPublication \/ EndPublication \/ FindByLabel \/ SearchBody
               \/ RestoreLabels \/ Reconcile \/ UpdateContent \/ Fail \/ Kill \/ BecomesCalm
               \/ \E n \in DOMAIN issues :
                    \/ OwnerClosesOrReopens(n)
                    \/ \E label \in Labels : SomebodyRemovesLabel(n, label)
               \/ \E f \in Claimable : SomebodyClaims(f)
               \/ UNCHANGED vars
  PROVE  UNCHANGED Board!board
<1>1. UNCHANGED <<profile, plan>>
  BY DEF StartPublication, EndPublication, FindByLabel, SearchBody, RestoreLabels, Reconcile,
         UpdateContent, Fail, Kill, BecomesCalm, OwnerClosesOrReopens, SomebodyRemovesLabel,
         SomebodyClaims, UnchangedWorld, vars
<1>2. issues' = issues => Records' = Records
  BY DEF Records
<1>3. Inv /\ issues \in Seq(Issue)
  BY DEF RInv, Inv, Types
<1>4. ASSUME NEW k \in DOMAIN issues,
             \/ issues' = [issues EXCEPT ![k].labels = Labels]
             \/ issues' = [issues EXCEPT ![k].content = Current.content]
             \/ issues' = [issues EXCEPT ![k].state = IF @ = "open" THEN "closed" ELSE "open"]
             \/ \E label \in Labels : issues' = [issues EXCEPT ![k].labels = @ \ {label}]
      PROVE  Records' = Records
  <2>1. issues[k] \in Issue /\ Current.content \in Contents
    BY <1>3, CurrentType DEF Action
  <2>2. PICK q : issues' = [issues EXCEPT ![k] = q]
                 /\ \/ q = [issues[k] EXCEPT !.labels = Labels]
                    \/ q = [issues[k] EXCEPT !.content = Current.content]
                    \/ q = [issues[k] EXCEPT !.state = IF @ = "open" THEN "closed" ELSE "open"]
                    \/ \E label \in Labels : q = [issues[k] EXCEPT !.labels = @ \ {label}]
    BY <1>4
  <2>3. q \in Issue /\ q.fingerprint = issues[k].fingerprint /\ q.notes = issues[k].notes
    BY <2>1, <2>2 DEF Issue
  <2> QED
    BY <1>3, <2>2, <2>3, RecordsStay
<1>5. Records' = Records
  <2>1. RestoreLabels \/ UpdateContent => publisher.issue \in DOMAIN issues
    BY <1>3 DEF RestoreLabels, UpdateContent, Inv, AtItsIssue
  <2>2. RestoreLabels \/ UpdateContent => Records' = Records
    BY <1>4, <2>1 DEF RestoreLabels, UpdateContent
  <2>3. \A n \in DOMAIN issues :
          \/ OwnerClosesOrReopens(n)
          \/ \E label \in Labels : SomebodyRemovesLabel(n, label)
          => Records' = Records
    BY <1>4 DEF OwnerClosesOrReopens, SomebodyRemovesLabel
  <2>4. \/ StartPublication \/ EndPublication \/ FindByLabel \/ SearchBody \/ Reconcile
        \/ Fail \/ Kill \/ BecomesCalm \/ UNCHANGED vars
        \/ \E f \in Claimable : SomebodyClaims(f)
        => issues' = issues
    BY DEF StartPublication, EndPublication, FindByLabel, SearchBody, Reconcile, Fail, Kill,
           BecomesCalm, SomebodyClaims, vars
  <2> QED
    BY <1>2, <2>2, <2>3, <2>4
<1> QED
  BY <1>1, <1>5 DEF Board!board

\* Whatever is killed, fails or is repeated: to whoever reads the issues there is one
\* record of a finding, opened for what is there and told of changes once.
THEOREM PublicationImplementsRecords == Spec => ImplementsRecords
<1>1. Init => Board!BoardInit
  <2> SUFFICES ASSUME Init PROVE Board!BoardInit
    OBVIOUS
  <2>1. \A f \in Fingerprints : plan[f].kind \in {"active", "resolved"}
    BY PlannedActions DEF Init, Action, Notes
  <2>2. Records = << >>
    BY DEF Init, Records
  <2> QED
    BY <2>1, <2>2 DEF Init, Board!BoardInit
<1>2. RInv /\ [Next]_vars => [Board!ReportSays \/ Board!Open \/ Board!Tell]_(Board!board)
  <2> SUFFICES ASSUME RInv, [Next]_vars
               PROVE  \/ Board!ReportSays \/ Board!Open \/ Board!Tell
                      \/ UNCHANGED Board!board
    OBVIOUS
  <2>1. CASE ReportChanges
    <3>1. UNCHANGED <<profile, issues>> /\ Records' = Records
      BY <2>1 DEF ReportChanges, Records
    <3>2. plan' \in [Fingerprints -> Action]
      BY StepInv DEF RInv, Inv, Types
    <3>3. [f \in Fingerprints |-> plan[f].kind]' \in [Fingerprints -> {"active", "resolved"}]
      BY <3>2 DEF Action, Notes
    <3> QED
      BY <3>1, <3>3 DEF Board!ReportSays
  <2> QED
    BY <2>1, CreateOpens, AddNoteTells, OtherStepsLeaveRecords DEF Next, Step, World
<1> QED
  BY <1>1, <1>2, InitRInv, StepRInv, PTL DEF Spec, ImplementsRecords, Board!BoardSpec

-----------------------------------------------------------------------------
(***************************************************************************)
(* What an undisturbed publication achieves.  Nothing can be said of one    *)
(* that fails or is interfered with; one that is left alone leaves behind   *)
(* it only findings whose issues say what the report says.  Liveness adds   *)
(* that such a publication comes and ends.                                  *)
(***************************************************************************)

\* The findings whose action is over.
DoneWith ==
  Fingerprints \ (publisher.todo
                  \cup (IF publisher.phase = "next" THEN {} ELSE {publisher.fingerprint}))

\* The bounds of the model are reached at this finding.
NoRoomFor(f) ==
  \/ Len(issues) = MaxIssues
  \/ \E n \in IssuesOf(f) : Len(issues[n].notes) = MaxNotes

SettledOrFull(f) == Realised(f, plan[f]) \/ NoRoomFor(f)

DoneIsSettled == \A f \in DoneWith \ claimed : SettledOrFull(f)

\* What the publication has seen of its issue, and done about it, still is so.
SeenAsItIs ==
  /\ publisher.phase \in {"relabel", "reconcile", "update", "note"} =>
       publisher.open = (issues[publisher.issue].state = "open")
  /\ publisher.phase \in {"reconcile", "update", "note"} =>
       issues[publisher.issue].labels = Labels
  /\ publisher.phase = "update" =>
       /\ Reactivates /\ Current.kind = "active"
       /\ publisher.note = NoteIsDue(publisher.issue)
  /\ publisher.phase = "note" => ~ContentIsDue(publisher.issue)

Undisturbed == calm /\ publisher.phase # "idle" => DoneIsSettled /\ SeenAsItIs

\* A step at one finding leaves the others as they are.
LEMMA OthersAreLeft ==
  ASSUME NEW f, SettledOrFull(f), UNCHANGED <<profile, plan>>,
         IssuesOf(f)' = IssuesOf(f), \A n \in IssuesOf(f) : issues'[n] = issues[n],
         Len(issues) = MaxIssues => Len(issues') = MaxIssues
  PROVE  SettledOrFull(f)'
<1>1. CASE NoRoomFor(f)
  BY <1>1 DEF SettledOrFull, NoRoomFor
<1>2. CASE Realised(f, plan[f])
  BY <1>2 DEF SettledOrFull, Realised, LastNote, Reactivates
<1> QED
  BY <1>1, <1>2 DEF SettledOrFull

\* An issue that is rewritten is of no other finding.
LEMMA OneFindingChanges ==
  ASSUME Inv, NEW k \in DOMAIN issues, NEW q \in Issue,
         q.fingerprint = issues[k].fingerprint, issues' = [issues EXCEPT ![k] = q]
  PROVE  /\ \A f \in Fingerprints : IssuesOf(f)' = IssuesOf(f)
         /\ \A f \in Fingerprints : f # issues[k].fingerprint =>
              \A n \in IssuesOf(f) : issues'[n] = issues[n]
         /\ IssuesOf(issues[k].fingerprint) = {k}
         /\ Len(issues') = Len(issues) /\ issues'[k] = q
<1>1. /\ issues' \in Seq(Issue) /\ DOMAIN issues' = DOMAIN issues
      /\ issues'[k] = q /\ \A n \in DOMAIN issues : n # k => issues'[n] = issues[n]
      /\ \A n \in DOMAIN issues : issues'[n].fingerprint = issues[n].fingerprint
  BY OneIssueChanges
<1>2. Len(issues') = Len(issues)
  BY DEF Inv, Types
<1>3. \A f \in Fingerprints : IssuesOf(f)' = IssuesOf(f)
  BY <1>1 DEF IssuesOf
<1>4. IssuesOf(issues[k].fingerprint) = {k}
  BY DEF Inv, NoTwins, IssuesOf
<1>5. \A f \in Fingerprints : f # issues[k].fingerprint =>
        \A n \in IssuesOf(f) : issues'[n] = issues[n]
  BY <1>1 DEF IssuesOf
<1> QED
  BY <1>1, <1>2, <1>3, <1>4, <1>5

\* An action ends well where its own finding is settled and the others are left alone.
LEMMA ActionEnds ==
  ASSUME Inv, DoneIsSettled, NextAction, UNCHANGED <<profile, plan, claimed>>,
         NEW own, own = publisher.fingerprint, publisher.phase # "next",
         \A f \in Fingerprints : f # own =>
           /\ IssuesOf(f)' = IssuesOf(f) /\ \A n \in IssuesOf(f) : issues'[n] = issues[n],
         Len(issues) = MaxIssues => Len(issues') = MaxIssues,
         SettledOrFull(own)'
  PROVE  DoneIsSettled' /\ SeenAsItIs'
<1>1. publisher'.phase = "next" /\ publisher'.todo = publisher.todo
  BY NextActionJob, IdleType DEF NextAction, Publisher
<1>2. DoneWith' \subseteq DoneWith \cup {own}
  BY <1>1 DEF DoneWith
<1>3. ASSUME NEW f \in DoneWith' \ claimed' PROVE SettledOrFull(f)'
  <2>1. CASE f = own
    BY <2>1
  <2>2. CASE f # own
    <3>1. f \in DoneWith \ claimed /\ f \in Fingerprints
      BY <1>2, <1>3, <2>2 DEF DoneWith
    <3> QED
      BY <2>2, <3>1, OthersAreLeft DEF DoneIsSettled
  <2> QED
    BY <2>1, <2>2
<1> QED
  BY <1>1, <1>3 DEF DoneIsSettled, SeenAsItIs

\* The publication takes an issue up, or passes over a finding that is claimed.
LEMMA FindByLabelUndisturbed ==
  ASSUME RInv, DoneIsSettled, FindByLabel PROVE DoneIsSettled' /\ SeenAsItIs'
<1> DEFINE f == CHOOSE g \in publisher.todo : TRUE
           labelled == {n \in IssuesOf(f) : "fingerprint" \in issues[n].labels}
           n == CHOOSE m \in labelled : TRUE
<1>1. UNCHANGED <<profile, plan, issues, claimed, calm>>
  BY DEF FindByLabel, UnchangedWorld
<1>2. publisher \in Publisher /\ publisher.phase = "next" /\ f \in publisher.todo
      /\ f \in Fingerprints /\ Inv
  <2>1. f \in publisher.todo
    BY DEF FindByLabel
  <2> QED
    BY <2>1 DEF FindByLabel, RInv, Inv, Types, Publisher
<1>3. \A g \in Fingerprints : SettledOrFull(g) => SettledOrFull(g)'
  BY <1>1 DEF SettledOrFull, Realised, NoRoomFor, IssuesOf, LastNote, Reactivates
<1>4. ~(Cardinality(labelled) > 1)
  <2>1. \A a, b \in labelled : a = b
    BY <1>2 DEF Inv, NoTwins, IssuesOf
  <2>2. Cardinality(labelled) \in {0, 1}
    BY <2>1, TwinlessSets
  <2> QED
    BY <2>2
<1>5. CASE f \in claimed
  <2>1. publisher' = [publisher EXCEPT !.todo = publisher.todo \ {f}]
    BY <1>5 DEF FindByLabel
  <2>2. publisher'.phase = "next" /\ publisher'.todo = publisher.todo \ {f}
    BY <1>2, <2>1 DEF Publisher
  <2>3. DoneWith' \ claimed' \subseteq DoneWith \ claimed
    BY <1>1, <1>2, <1>5, <2>2 DEF DoneWith
  <2> QED
    BY <1>3, <2>2, <2>3 DEF DoneIsSettled, SeenAsItIs, DoneWith
<1>6. CASE f \notin claimed /\ labelled = {}
  <2>1. publisher' = [[publisher EXCEPT !.phase = "search"]
                      EXCEPT !.todo = publisher.todo \ {f}, !.fingerprint = f]
    BY <1>2, <1>4, <1>6 DEF FindByLabel
  <2>2. publisher'.phase = "search" /\ publisher'.todo = publisher.todo \ {f}
        /\ publisher'.fingerprint = f
    BY <1>2, <2>1 DEF Publisher
  <2>3. DoneWith' = DoneWith
    BY <1>2, <2>2 DEF DoneWith
  <2> QED
    BY <1>1, <1>3, <2>2, <2>3 DEF DoneIsSettled, SeenAsItIs, DoneWith
<1>7. CASE f \notin claimed /\ labelled # {}
  <2> DEFINE phase == IF issues[n].labels = Labels THEN "reconcile" ELSE "relabel"
             open == issues[n].state = "open"
             found == [publisher EXCEPT !.phase = phase, !.issue = n, !.open = open]
  <2>1. found = Found(n, phase)
    BY DEF Found
  <2>2. publisher' = [found EXCEPT !.todo = found.todo \ {f}, !.fingerprint = f]
    BY <1>4, <1>7, <2>1 DEF FindByLabel
  <2>3. n \in labelled
    BY <1>7
  <2>4. phase \in {"reconcile", "relabel"} /\ (phase = "reconcile" => issues[n].labels = Labels)
    OBVIOUS
  <2> HIDE DEF f, labelled, n, phase, open
  <2>5. publisher'.phase = phase /\ publisher'.issue = n /\ publisher'.open = open
        /\ publisher'.todo = publisher.todo \ {f} /\ publisher'.fingerprint = f
    BY <1>2, <2>2 DEF Publisher
  <2>6. DoneWith' = DoneWith
    BY <1>2, <2>4, <2>5 DEF DoneWith
  <2>7. SeenAsItIs'
    BY <1>1, <2>4, <2>5 DEF SeenAsItIs, open
  <2> QED
    BY <1>1, <1>3, <2>6, <2>7 DEF DoneIsSettled, DoneWith
<1> QED
  BY <1>5, <1>6, <1>7

\* A search that finds nothing is the end of an action only where nothing is to be done.
LEMMA SearchBodyUndisturbed ==
  ASSUME RInv, DoneIsSettled, SearchBody PROVE DoneIsSettled' /\ SeenAsItIs'
<1> DEFINE found == IssuesOf(publisher.fingerprint)
           n == CHOOSE m \in found : TRUE
<1>0. PICK f : f = publisher.fingerprint
  OBVIOUS
<1>1. UNCHANGED <<profile, plan, issues, claimed, calm>> /\ publisher.phase = "search"
  BY DEF SearchBody, UnchangedWorld
<1>2. publisher \in Publisher /\ Inv /\ f \in Fingerprints
  BY <1>0 DEF RInv, Inv, Types, Publisher
<1>3. \A g \in Fingerprints : SettledOrFull(g) => SettledOrFull(g)'
  BY <1>1 DEF SettledOrFull, Realised, NoRoomFor, IssuesOf, LastNote, Reactivates
<1>4. ~(Cardinality(found) > 1)
  <2>1. \A a, b \in found : a = b
    BY <1>2 DEF Inv, NoTwins, IssuesOf
  <2>2. Cardinality(found) \in {0, 1}
    BY <2>1, TwinlessSets
  <2> QED
    BY <2>2
<1>5. CASE found # {}
  <2>1. publisher' = [publisher EXCEPT !.phase = "relabel", !.issue = n,
                                       !.open = issues[n].state = "open"]
    BY <1>4, <1>5 DEF SearchBody, Found
  <2> HIDE DEF n
  <2>2. publisher'.phase = "relabel" /\ publisher'.issue = n
        /\ publisher'.open = (issues[n].state = "open")
        /\ UNCHANGED <<publisher.todo, publisher.fingerprint>>
    BY <1>2, <2>1 DEF Publisher
  <2>3. DoneWith' = DoneWith
    BY <1>1, <2>2 DEF DoneWith
  <2> QED
    BY <1>1, <1>3, <2>2, <2>3 DEF DoneIsSettled, SeenAsItIs, DoneWith
<1>6. CASE found = {} /\ Current.kind = "active"
  <2>1. publisher' = [publisher EXCEPT !.phase = "create"]
    BY <1>4, <1>6 DEF SearchBody, Proceed
  <2>2. publisher'.phase = "create" /\ UNCHANGED <<publisher.todo, publisher.fingerprint>>
    BY <1>2, <2>1 DEF Publisher
  <2>3. DoneWith' = DoneWith
    BY <1>1, <2>2 DEF DoneWith
  <2> QED
    BY <1>1, <1>3, <2>2, <2>3 DEF DoneIsSettled, SeenAsItIs, DoneWith
<1>7. CASE found = {} /\ Current.kind # "active"
  <2>1. NextAction
    BY <1>4, <1>7 DEF SearchBody
  <2>2. SettledOrFull(f)
    BY <1>0, <1>7 DEF SettledOrFull, Realised, Current
  <2>3. SettledOrFull(f)'
    BY <1>2, <1>3, <2>2
  <2>4. \A g : IssuesOf(g)' = IssuesOf(g) /\ \A m \in IssuesOf(g) : issues'[m] = issues[m]
    BY <1>1 DEF IssuesOf
  <2> QED
    BY <1>0, <1>1, <1>2, <2>1, <2>3, <2>4, ActionEnds
<1> QED
  BY <1>5, <1>6, <1>7

LEMMA RestoreLabelsUndisturbed ==
  ASSUME RInv, DoneIsSettled, SeenAsItIs, RestoreLabels PROVE DoneIsSettled' /\ SeenAsItIs'
<1> DEFINE k == publisher.issue
           q == [issues[k] EXCEPT !.labels = Labels]
<1>1. /\ k \in DOMAIN issues /\ publisher \in Publisher /\ publisher.phase = "relabel" /\ Inv
      /\ issues \in Seq(Issue) /\ issues[k].fingerprint = publisher.fingerprint
  BY DEF RestoreLabels, RInv, Inv, Types, AtItsIssue
<1>2. q \in Issue /\ q.fingerprint = issues[k].fingerprint /\ q.state = issues[k].state
      /\ q.labels = Labels
  <2>1. issues[k] \in Issue
    BY <1>1
  <2> QED
    BY <2>1 DEF Issue
<1>3. issues' = [issues EXCEPT ![k] = q] /\ UNCHANGED <<profile, plan, claimed, calm>>
      /\ publisher' = [publisher EXCEPT !.phase = "reconcile"]
  BY DEF RestoreLabels, UnchangedWorld, Proceed
<1>4. publisher'.phase = "reconcile"
      /\ UNCHANGED <<publisher.issue, publisher.fingerprint, publisher.todo, publisher.open>>
  BY <1>1, <1>3 DEF Publisher
<1> HIDE DEF k, q
<1>5. /\ \A f \in Fingerprints : IssuesOf(f)' = IssuesOf(f)
      /\ \A f \in Fingerprints : f # publisher.fingerprint =>
           \A n \in IssuesOf(f) : issues'[n] = issues[n]
      /\ Len(issues') = Len(issues) /\ issues'[k] = q
  BY <1>1, <1>2, <1>3, OneFindingChanges
<1>6. DoneWith' = DoneWith
  BY <1>1, <1>4 DEF DoneWith
<1>7. ASSUME NEW f \in DoneWith' \ claimed' PROVE SettledOrFull(f)'
  <2>1. f \in Fingerprints /\ f # publisher.fingerprint /\ SettledOrFull(f)
    BY <1>1, <1>3, <1>6, <1>7 DEF DoneWith, DoneIsSettled
  <2> QED
    BY <1>3, <1>5, <2>1, OthersAreLeft
<1>8. SeenAsItIs'
  BY <1>1, <1>2, <1>4, <1>5 DEF SeenAsItIs, k
<1> QED
  BY <1>7, <1>8 DEF DoneIsSettled

LEMMA OnlyOne == ASSUME NEW l \in Nat, l <= 1, NEW i \in 1 .. l PROVE i = 1 /\ l = 1
OBVIOUS

\* Where neither text nor note is due, the issue says what the report says.
LEMMA NothingDueIsRealised ==
  ASSUME Inv, NEW n \in DOMAIN issues, issues[n].fingerprint = publisher.fingerprint,
         issues[n].labels = Labels, publisher.open = (issues[n].state = "open"),
         ~ContentIsDue(n), ~NoteIsDue(n)
  PROVE  Realised(publisher.fingerprint, plan[publisher.fingerprint])
<1> DEFINE f == publisher.fingerprint
<1>1. IssuesOf(f) = {n}
  BY DEF Inv, NoTwins, IssuesOf
<1>2. Current = plan[f] /\ Current.kind \in {"active", "resolved"}
  BY CurrentType DEF Current, Action, Notes
<1>3. CASE Current.kind = "active"
  BY <1>1, <1>2, <1>3 DEF Realised, ContentIsDue, NoteIsDue
<1>4. CASE Current.kind = "resolved" /\ Reactivates
  BY <1>1, <1>2, <1>4 DEF Realised, NoteIsDue
<1>5. CASE Current.kind = "resolved" /\ ~Reactivates
  <2>1. CASE issues[n].state = "open"
    <3> DEFINE notes == issues[n].notes
    <3>1. "resolved" \in ToSet(notes)
      BY <1>5, <2>1 DEF NoteIsDue
    <3>2. notes \in Seq(Notes) /\ Alternate(notes) /\ Len(notes) <= 1
      <4>1. issues[n] \in Issue /\ profile = "fleet"
        BY <1>5 DEF Inv, Types, Reactivates
      <4> QED
        BY <4>1 DEF Inv, NotesAlternate, Issue
    <3>3. notes # << >> /\ Len(notes) = 1 /\ notes[Len(notes)] = "resolved"
      <4> HIDE DEF notes
      <4>1. PICK i \in DOMAIN notes : notes[i] = "resolved"
        BY <3>1 DEF ToSet
      <4>2. i \in 1 .. Len(notes) /\ Len(notes) \in Nat /\ Len(notes) <= 1
        BY <3>2, <4>1
      <4>3. i = 1 /\ Len(notes) = 1
        BY <4>2, OnlyOne
      <4> QED
        BY <3>2, <4>1, <4>3
    <3>4. LastNote(n) = "resolved"
      BY <3>3 DEF LastNote, Last
    <3> QED
      BY <1>1, <1>2, <1>5, <3>4 DEF Realised
  <2>2. CASE issues[n].state # "open"
    BY <1>1, <1>2, <1>5, <2>2 DEF Realised
  <2> QED
    BY <2>1, <2>2
<1> QED
  BY <1>2, <1>3, <1>4, <1>5

LEMMA ReconcileUndisturbed ==
  ASSUME RInv, DoneIsSettled, SeenAsItIs, Reconcile PROVE DoneIsSettled' /\ SeenAsItIs'
<1> DEFINE n == publisher.issue
<1>0. PICK f : f = publisher.fingerprint
  OBVIOUS
<1>1. UNCHANGED <<profile, plan, issues, claimed, calm>>
  BY DEF Reconcile, UnchangedWorld
<1>2. /\ n \in DOMAIN issues /\ publisher \in Publisher /\ publisher.phase = "reconcile"
      /\ issues[n].fingerprint = f /\ Inv /\ f \in Fingerprints
  BY <1>0 DEF Reconcile, RInv, Inv, Types, AtItsIssue, Publisher
<1>3. \A g \in Fingerprints : SettledOrFull(g) => SettledOrFull(g)'
  BY <1>1 DEF SettledOrFull, Realised, NoRoomFor, IssuesOf, LastNote, Reactivates
<1>4. CASE ContentIsDue(n)
  <2>1. publisher' = [publisher EXCEPT !.phase = "update", !.note = NoteIsDue(n)]
    BY <1>4 DEF Reconcile
  <2>2. /\ publisher'.phase = "update" /\ publisher'.note = NoteIsDue(n)
        /\ UNCHANGED <<publisher.issue, publisher.fingerprint, publisher.todo, publisher.open>>
    BY <1>2, <2>1 DEF Publisher
  <2>3. UNCHANGED <<Current, Reactivates>> /\ NoteIsDue(n)' = NoteIsDue(n)
    BY <1>1, <2>2 DEF Current, Reactivates, NoteIsDue, LastNote
  <2>4. Reactivates /\ Current.kind = "active"
    BY <1>4 DEF ContentIsDue
  <2>5. NoteIsDue(publisher.issue)' = NoteIsDue(n)
    BY <2>2, <2>3, <1>1 DEF NoteIsDue, LastNote
  <2>6. SeenAsItIs'
    BY <1>1, <1>2, <2>2, <2>3, <2>4, <2>5 DEF SeenAsItIs
  <2>7. DoneWith' = DoneWith
    BY <1>2, <2>2 DEF DoneWith
  <2> QED
    BY <1>1, <1>3, <2>6, <2>7 DEF DoneIsSettled, DoneWith
<1>5. CASE ~ContentIsDue(n) /\ NoteIsDue(n)
  <2>1. publisher' = [publisher EXCEPT !.phase = "note"]
    BY <1>5 DEF Reconcile, Proceed
  <2>2. /\ publisher'.phase = "note"
        /\ UNCHANGED <<publisher.issue, publisher.fingerprint, publisher.todo, publisher.open>>
    BY <1>2, <2>1 DEF Publisher
  <2>3. ~ContentIsDue(publisher.issue)'
    BY <1>1, <1>5, <2>2 DEF ContentIsDue, Current, Reactivates
  <2>4. SeenAsItIs'
    BY <1>1, <1>2, <2>2, <2>3 DEF SeenAsItIs
  <2>5. DoneWith' = DoneWith
    BY <1>2, <2>2 DEF DoneWith
  <2> QED
    BY <1>1, <1>3, <2>4, <2>5 DEF DoneIsSettled, DoneWith
<1>6. CASE ~ContentIsDue(n) /\ ~NoteIsDue(n)
  <2>1. NextAction
    BY <1>6 DEF Reconcile
  <2>2. SettledOrFull(f)
    BY <1>0, <1>2, <1>6, NothingDueIsRealised DEF SeenAsItIs, SettledOrFull
  <2>3. SettledOrFull(f)'
    BY <1>2, <1>3, <2>2
  <2>4. \A g : IssuesOf(g)' = IssuesOf(g) /\ \A m \in IssuesOf(g) : issues'[m] = issues[m]
    BY <1>1 DEF IssuesOf
  <2> QED
    BY <1>0, <1>1, <1>2, <2>1, <2>3, <2>4, ActionEnds
<1> QED
  BY <1>4, <1>5, <1>6

\* A created issue says all there is to say.
LEMMA CreateUndisturbed ==
  ASSUME RInv, DoneIsSettled, Create PROVE DoneIsSettled' /\ SeenAsItIs'
<1>0. PICK f, last : f = publisher.fingerprint /\ last = Len(issues) + 1
  OBVIOUS
<1> DEFINE q == [fingerprint |-> publisher.fingerprint, state |-> "open", labels |-> Labels,
                 content |-> Current.content, notes |-> << >>]
<1>1. /\ UNCHANGED <<profile, plan, claimed, calm>> /\ NextAction /\ Inv
      /\ publisher.phase = "create" /\ f \in Fingerprints
      /\ issues \in Seq(Issue) /\ Len(issues) \in Nat /\ DOMAIN issues = 1 .. Len(issues)
      /\ IssuesOf(f) = {} /\ Current.kind = "active"
  BY <1>0 DEF Create, UnchangedWorld, RInv, Inv, Types, Publisher, AtItsIssue, CreatesWhatIsThere
<1>2. CASE Len(issues) = MaxIssues
  <2>1. issues' = issues
    BY <1>2 DEF Create
  <2>2. SettledOrFull(f)'
    BY <1>2, <2>1 DEF SettledOrFull, NoRoomFor
  <2>3. \A g : IssuesOf(g)' = IssuesOf(g) /\ \A m \in IssuesOf(g) : issues'[m] = issues[m]
    BY <2>1 DEF IssuesOf
  <2> QED
    BY <1>0, <1>1, <2>1, <2>2, <2>3, ActionEnds
<1>3. CASE Len(issues) # MaxIssues
  <2>1. issues' = Append(issues, q)
    BY <1>3 DEF Create
  <2>2. q.fingerprint = f /\ q.labels = Labels /\ q.content = Current.content
        /\ q.notes = << >> /\ q.state = "open"
    BY <1>0
  <2> HIDE DEF q
  <2>3. /\ DOMAIN issues' = 1 .. last /\ issues'[last] = q
        /\ \A n \in DOMAIN issues : issues'[n] = issues[n]
    BY <1>0, <1>1, <2>1
  <2>4. \A n \in DOMAIN issues' : n \in DOMAIN issues \/ n = last
    BY <1>0, <1>1, <2>3
  <2>5. ASSUME NEW g, g # f
        PROVE  IssuesOf(g)' = IssuesOf(g) /\ \A m \in IssuesOf(g) : issues'[m] = issues[m]
    BY <1>0, <1>1, <2>2, <2>3, <2>4, <2>5 DEF IssuesOf
  <2>6. IssuesOf(f)' = {last}
    BY <1>0, <1>1, <2>2, <2>3, <2>4 DEF IssuesOf
  <2>7. LastNote(last)' = "none"
    BY <2>2, <2>3 DEF LastNote
  <2>8. Realised(f, plan[f])'
    BY <1>0, <1>1, <2>2, <2>3, <2>6, <2>7 DEF Realised, Current, Reactivates
  <2>9. SettledOrFull(f)'
    BY <2>8 DEF SettledOrFull
  <2> QED
    BY <1>0, <1>1, <1>3, <2>5, <2>9, ActionEnds
<1> QED
  BY <1>2, <1>3

\* After the text is rewritten the note is all that can be missing.
LEMMA UpdateContentUndisturbed ==
  ASSUME RInv, DoneIsSettled, SeenAsItIs, UpdateContent PROVE DoneIsSettled' /\ SeenAsItIs'
<1>0. PICK f, k : f = publisher.fingerprint /\ k = publisher.issue
  OBVIOUS
<1> DEFINE q == [issues[k] EXCEPT !.content = Current.content]
<1>1. /\ k \in DOMAIN issues /\ publisher \in Publisher /\ publisher.phase = "update" /\ Inv
      /\ issues \in Seq(Issue) /\ issues[k].fingerprint = f /\ f \in Fingerprints
      /\ UNCHANGED <<profile, plan, claimed, calm>>
  BY <1>0 DEF UpdateContent, UnchangedWorld, RInv, Inv, Types, AtItsIssue, Publisher
<1>2. q \in Issue /\ q.fingerprint = f /\ q.labels = issues[k].labels /\ q.notes = issues[k].notes
      /\ q.state = issues[k].state /\ q.content = Current.content
  <2>1. issues[k] \in Issue /\ Current.content \in Contents
    BY <1>1, CurrentType DEF Action
  <2> QED
    BY <1>1, <2>1 DEF Issue
<1>3. issues' = [issues EXCEPT ![k] = q]
  BY <1>0 DEF UpdateContent
<1> HIDE DEF q
<1>4. /\ \A g \in Fingerprints : IssuesOf(g)' = IssuesOf(g)
      /\ \A g \in Fingerprints : g # f => \A n \in IssuesOf(g) : issues'[n] = issues[n]
      /\ IssuesOf(f) = {k} /\ Len(issues') = Len(issues) /\ issues'[k] = q
  BY <1>1, <1>2, <1>3, OneFindingChanges
<1>5. /\ issues[k].labels = Labels /\ publisher.open = (issues[k].state = "open")
      /\ Reactivates /\ Current.kind = "active" /\ publisher.note = NoteIsDue(k)
  BY <1>0, <1>1 DEF SeenAsItIs
<1>6. CASE publisher.note
  <2>1. publisher' = [publisher EXCEPT !.phase = "note"]
    BY <1>6 DEF UpdateContent, Proceed
  <2>2. publisher'.phase = "note"
        /\ UNCHANGED <<publisher.issue, publisher.fingerprint, publisher.todo, publisher.open>>
    BY <1>1, <2>1 DEF Publisher
  <2>3. Current' = Current
    BY <1>1, <2>2 DEF Current
  <2>4. SeenAsItIs'
    BY <1>0, <1>2, <1>4, <1>5, <2>2, <2>3 DEF SeenAsItIs, ContentIsDue
  <2>5. DoneWith' = DoneWith
    BY <1>1, <2>2 DEF DoneWith
  <2>6. ASSUME NEW g \in DoneWith' \ claimed' PROVE SettledOrFull(g)'
    <3>1. g \in Fingerprints /\ g # f /\ SettledOrFull(g)
      BY <1>0, <1>1, <2>5, <2>6 DEF DoneWith, DoneIsSettled
    <3> QED
      BY <1>1, <1>4, <3>1, OthersAreLeft
  <2> QED
    BY <2>4, <2>6 DEF DoneIsSettled
<1>7. CASE ~publisher.note
  <2>1. NextAction
    BY <1>7 DEF UpdateContent
  <2>2. LastNote(k) # "resolved" /\ LastNote(k)' = LastNote(k)
    BY <1>2, <1>4, <1>5, <1>7 DEF NoteIsDue, LastNote
  <2>3. plan[f].kind = "active" /\ plan[f].content = Current.content
    BY <1>0, <1>5 DEF Current
  <2>4. Realised(f, plan[f])'
    BY <1>1, <1>2, <1>4, <1>5, <2>2, <2>3 DEF Realised, Reactivates
  <2>5. SettledOrFull(f)'
    BY <2>4 DEF SettledOrFull
  <2> QED
    BY <1>0, <1>1, <1>4, <2>1, <2>5, ActionEnds
<1> QED
  BY <1>6, <1>7

LEMMA AddNoteUndisturbed ==
  ASSUME RInv, DoneIsSettled, SeenAsItIs, AddNote PROVE DoneIsSettled' /\ SeenAsItIs'
<1>0. PICK f, k, kind : f = publisher.fingerprint /\ k = publisher.issue /\ kind = Current.kind
  OBVIOUS
<1> DEFINE notes == issues[k].notes
           q == [issues[k] EXCEPT !.notes = Append(notes, kind)]
<1>1. /\ k \in DOMAIN issues /\ publisher \in Publisher /\ publisher.phase = "note" /\ Inv
      /\ issues \in Seq(Issue) /\ issues[k].fingerprint = f /\ f \in Fingerprints
      /\ UNCHANGED <<profile, plan, claimed, calm>> /\ NextAction
  BY <1>0 DEF AddNote, UnchangedWorld, RInv, Inv, Types, AtItsIssue, Publisher
<1>2. /\ issues[k].labels = Labels /\ ~ContentIsDue(k)
  BY <1>0, <1>1 DEF SeenAsItIs
<1>3. notes \in Seq(Notes) /\ kind \in Notes /\ plan[f].kind = kind /\ issues[k] \in Issue
  <2>1. issues[k] \in Issue
    BY <1>1
  <2> QED
    BY <1>0, <1>1, <2>1, CurrentType DEF Issue, Action, Current
<1>4. CASE Len(notes) = MaxNotes
  <2>1. issues' = issues
    BY <1>0, <1>4 DEF AddNote
  <2>2. k \in IssuesOf(f)'
    BY <1>1, <2>1 DEF IssuesOf
  <2>3. SettledOrFull(f)'
    BY <1>4, <2>1, <2>2 DEF SettledOrFull, NoRoomFor
  <2>4. \A g : IssuesOf(g)' = IssuesOf(g) /\ \A m \in IssuesOf(g) : issues'[m] = issues[m]
    BY <2>1 DEF IssuesOf
  <2> QED
    BY <1>0, <1>1, <2>1, <2>3, <2>4, ActionEnds
<1>5. CASE Len(notes) # MaxNotes
  <2>1. issues' = [issues EXCEPT ![k] = q]
    BY <1>0, <1>5 DEF AddNote
  <2>2. Append(notes, kind) \in Seq(Notes) /\ Len(Append(notes, kind)) = Len(notes) + 1
        /\ Len(notes) \in Nat /\ Append(notes, kind)[Len(notes) + 1] = kind
    BY <1>3
  <2>3. /\ q \in Issue /\ q.fingerprint = f /\ q.labels = issues[k].labels
        /\ q.content = issues[k].content /\ q.notes = Append(notes, kind)
    BY <1>1, <1>3, <2>2 DEF Issue
  <2> HIDE DEF q
  <2>4. /\ \A g \in Fingerprints : IssuesOf(g)' = IssuesOf(g)
        /\ \A g \in Fingerprints : g # f => \A n \in IssuesOf(g) : issues'[n] = issues[n]
        /\ IssuesOf(f) = {k} /\ Len(issues') = Len(issues) /\ issues'[k] = q
    BY <1>1, <2>1, <2>3, OneFindingChanges
  <2>5. LastNote(k)' = kind
    <3>1. Append(notes, kind) # << >>
      BY <2>2
    <3> QED
      BY <2>2, <2>3, <2>4, <3>1 DEF LastNote, Last
  <2>6. Realised(f, plan[f])'
    BY <1>0, <1>1, <1>2, <1>3, <2>3, <2>4, <2>5
       DEF Realised, Reactivates, ContentIsDue, Current, Notes
  <2>7. SettledOrFull(f)'
    BY <2>6 DEF SettledOrFull
  <2> QED
    BY <1>0, <1>1, <2>4, <2>7, ActionEnds
<1> QED
  BY <1>4, <1>5

LEMMA StepUndisturbed == RInv /\ Undisturbed /\ [Next]_vars => Undisturbed'
<1> SUFFICES ASSUME RInv, Undisturbed, [Next]_vars, calm', publisher'.phase # "idle"
             PROVE  DoneIsSettled' /\ SeenAsItIs'
  BY DEF Undisturbed
<1>1. CASE UNCHANGED vars
  BY <1>1 DEF Undisturbed, DoneIsSettled, DoneWith, SettledOrFull, Realised, NoRoomFor, IssuesOf,
     LastNote, Reactivates, SeenAsItIs, Current, NoteIsDue, ContentIsDue, vars
<1>2. CASE Next
  <2>1. calm
    BY <1>2 DEF Next, Step, StartPublication, EndPublication, FindByLabel, SearchBody,
       RestoreLabels, Reconcile, Create, UpdateContent, AddNote, Fail, Kill, World,
       ReportChanges, OwnerClosesOrReopens, SomebodyRemovesLabel, SomebodyClaims, BecomesCalm,
       UnchangedWorld
  <2>2. Step
    BY <1>2, <2>1 DEF Next
  <2>3. CASE StartPublication
    <3>1. publisher'.phase = "next" /\ publisher'.todo = Fingerprints
      BY <2>3, IdleType DEF StartPublication, Publisher
    <3> QED
      BY <3>1 DEF DoneIsSettled, DoneWith, SeenAsItIs
  <2>4. ~EndPublication
    BY IdleType DEF EndPublication
  <2>5. CASE ~StartPublication
    <3>1. DoneIsSettled /\ SeenAsItIs
      BY <2>1, <2>2, <2>4, <2>5 DEF Undisturbed, Step, FindByLabel, SearchBody, RestoreLabels,
         Reconcile, Create, UpdateContent, AddNote
    <3> QED
      BY <2>2, <2>4, <2>5, <3>1, FindByLabelUndisturbed, SearchBodyUndisturbed,
         RestoreLabelsUndisturbed, ReconcileUndisturbed, CreateUndisturbed,
         UpdateContentUndisturbed, AddNoteUndisturbed DEF Step
  <2> QED
    BY <2>3, <2>5
<1> QED
  BY <1>1, <1>2

\* A publication that nothing disturbs ends with every finding realised in the issues,
\* those whose label is claimed by somebody else excepted: the part of PlanIsRealised
\* that is not about time.
THEOREM UndisturbedPublicationsRealise ==
  Spec => [](calm /\ publisher.phase = "next" /\ publisher.todo = {} =>
               \A f \in Fingerprints \ claimed : Realised(f, plan[f]) \/ NoRoomFor(f))
<1>1. Init => Undisturbed
  BY DEF Init, Undisturbed
<1>2. Undisturbed =>
        (calm /\ publisher.phase = "next" /\ publisher.todo = {} =>
           \A f \in Fingerprints \ claimed : Realised(f, plan[f]) \/ NoRoomFor(f))
  BY DEF Undisturbed, DoneIsSettled, DoneWith, SettledOrFull
<1> QED
  BY <1>1, <1>2, InitRInv, StepRInv, StepUndisturbed, PTL DEF Spec

-----------------------------------------------------------------------------
(***************************************************************************)
(* A publication is a bounded number of steps, however they go.             *)
(***************************************************************************)

\* The steps an action still takes at most.
Ahead(phase) ==
  CASE phase = "search" -> 5
    [] phase = "relabel" -> 4
    [] phase = "reconcile" -> 3
    [] phase = "update" -> 2
    [] phase \in {"note", "create"} -> 1
    [] OTHER -> 0

\* The steps the publication still takes at most: six for every action it has not
\* taken up, and its end.
Left ==
  IF publisher.phase = "idle" THEN 0
  ELSE 1 + 6 * Cardinality(publisher.todo) + Ahead(publisher.phase)

LEMMA LeftType == Inv => Cardinality(publisher.todo) \in Nat /\ Left \in Nat
<1> SUFFICES ASSUME Inv PROVE Cardinality(publisher.todo) \in Nat /\ Left \in Nat
  OBVIOUS
<1>1. IsFiniteSet(publisher.todo)
  <2>1. publisher.todo \in SUBSET Fingerprints
    BY DEF Inv, Types, Publisher
  <2> QED
    BY <2>1, FingerprintsAssumption, FS_Subset
<1>2. Cardinality(publisher.todo) \in Nat
  BY <1>1, FS_CardinalityType
<1>3. Ahead(publisher.phase) \in 0 .. 5
  BY DEF Ahead
<1> QED
  BY <1>2, <1>3 DEF Left

\* Within an action the publication goes on to a phase with fewer steps ahead.
LEMMA PhasesGoOn ==
  ASSUME Inv, publisher.phase # "idle",
         SearchBody \/ RestoreLabels \/ Reconcile \/ Create \/ UpdateContent \/ AddNote \/ Fail
  PROVE  /\ publisher'.todo = publisher.todo /\ publisher'.phase # "idle"
         /\ Ahead(publisher'.phase) < Ahead(publisher.phase)
<1>1. publisher \in Publisher
  BY DEF Inv, Types
<1>2. \A phase : Proceed(phase) => /\ publisher'.phase = phase
                                   /\ publisher'.todo = publisher.todo
  BY <1>1 DEF Proceed, Publisher
<1>3. NextAction => publisher'.phase = "next" /\ publisher'.todo = publisher.todo
  BY DEF NextAction, Idle
<1>4. \A n, phase : publisher' = Found(n, phase) =>
        publisher'.phase = phase /\ publisher'.todo = publisher.todo
  BY <1>1 DEF Found, Publisher
<1>5. CASE SearchBody
  <2>1. publisher.phase = "search"
        /\ (NextAction \/ Proceed("create") \/ \E n : publisher' = Found(n, "relabel"))
    BY <1>5 DEF SearchBody
  <2> QED
    BY <2>1, <1>2, <1>3, <1>4 DEF Ahead
<1>6. CASE RestoreLabels
  BY <1>2, <1>6 DEF RestoreLabels, Ahead
<1>7. CASE Reconcile
  <2> DEFINE updating(note) == [publisher EXCEPT !.phase = "update", !.note = note]
  <2>1. publisher.phase = "reconcile"
        /\ (NextAction \/ Proceed("note") \/ \E note : publisher' = updating(note))
    BY <1>7 DEF Reconcile
  <2>2. \A note : publisher' = updating(note) =>
          publisher'.phase = "update" /\ publisher'.todo = publisher.todo
    BY <1>1 DEF Publisher
  <2> HIDE DEF updating
  <2> QED
    BY <2>1, <2>2, <1>2, <1>3 DEF Ahead
<1>8. CASE UpdateContent
  <2>1. publisher.phase = "update" /\ (NextAction \/ Proceed("note"))
    BY <1>8 DEF UpdateContent
  <2> QED
    BY <2>1, <1>2, <1>3 DEF Ahead
<1>9. CASE Create \/ AddNote
  <2>1. publisher.phase \in {"create", "note"} /\ NextAction
    BY <1>9 DEF Create, AddNote
  <2> QED
    BY <2>1, <1>3 DEF Ahead
<1>10. CASE Fail
  <2>1. publisher.phase \in {"search", "relabel", "reconcile", "create", "update", "note"}
    BY <1>1, <1>10 DEF Fail, Publisher
  <2> QED
    BY <2>1, <1>3, <1>10 DEF Fail, Ahead
<1> QED
  BY <1>5, <1>6, <1>7, <1>8, <1>9, <1>10

\* Taking an action up leaves one action fewer.
LEMMA ActionIsTakenUp ==
  ASSUME Inv, FindByLabel
  PROVE  /\ publisher.phase = "next" /\ publisher'.phase # "idle"
         /\ Cardinality(publisher'.todo) = Cardinality(publisher.todo) - 1
<1> DEFINE f == CHOOSE g \in publisher.todo : TRUE
           labelled == {n \in IssuesOf(f) : "fingerprint" \in issues[n].labels}
           next(found) == [found EXCEPT !.todo = @ \ {f}, !.fingerprint = f]
           m == CHOOSE n \in labelled : TRUE
           phase == IF issues[m].labels = Labels THEN "reconcile" ELSE "relabel"
<1>1. publisher.phase = "next" /\ f \in publisher.todo /\ publisher \in Publisher
  BY DEF FindByLabel, Inv, Types
<1>2. \/ publisher' = [publisher EXCEPT !.todo = @ \ {f}]
      \/ publisher' = next([publisher EXCEPT !.phase = "search"])
      \/ publisher' = next(Found(m, phase))
  BY DEF FindByLabel
<1>3. phase \in {"reconcile", "relabel"}
  OBVIOUS
<1> HIDE DEF f, m, phase
<1>4. publisher'.todo = publisher.todo \ {f}
      /\ publisher'.phase \in {"next", "search", "reconcile", "relabel"}
  BY <1>1, <1>2, <1>3 DEF Found, Publisher
<1>5. IsFiniteSet(publisher.todo)
  <2>1. publisher.todo \in SUBSET Fingerprints
    BY <1>1 DEF Publisher
  <2> QED
    BY <2>1, FingerprintsAssumption, FS_Subset
<1> QED
  BY <1>1, <1>4, <1>5, FS_RemoveElement

\* Whatever its calls come to, every step of a publication brings its end nearer, so
\* that it ends after at most six steps for each finding of the report and two more.
THEOREM PublicationsAreFinite ==
  Spec => /\ [](Left \in Nat)
          /\ [][publisher.phase # "idle" /\ publisher' # publisher => Left' < Left]_vars
<1>1. Inv => Left \in Nat
  BY LeftType
<1>2. Inv /\ Inv' /\ [Next]_vars =>
        [publisher.phase # "idle" /\ publisher' # publisher => Left' < Left]_vars
  <2> SUFFICES ASSUME Inv, Inv', [Next]_vars, publisher.phase # "idle",
                      publisher' # publisher
               PROVE  Left' < Left
    OBVIOUS
  <2>1. PICK before, after : before = Cardinality(publisher.todo)
                             /\ after = Cardinality(publisher'.todo)
    OBVIOUS
  <2>2. PICK here, there : here = publisher.phase /\ there = publisher'.phase
    OBVIOUS
  <2>3. /\ before \in Nat /\ Ahead(here) \in 0 .. 5 /\ Ahead(there) \in 0 .. 5
        /\ Left = 1 + 6 * before + Ahead(here)
        /\ Left' = IF there = "idle" THEN 0 ELSE 1 + 6 * after + Ahead(there)
    BY <2>1, <2>2, LeftType DEF Left, Ahead
  <2>4. CASE FindByLabel
    <3>1. here = "next" /\ there # "idle" /\ after = before - 1
      BY <2>1, <2>2, <2>4, ActionIsTakenUp
    <3> QED
      BY <2>3, <3>1
  <2>5. CASE EndPublication \/ Kill
    <3>1. there = "idle"
      BY <2>2, <2>5, IdleType DEF EndPublication, Kill
    <3> QED
      BY <2>3, <3>1
  <2>6. CASE SearchBody \/ RestoreLabels \/ Reconcile \/ Create \/ UpdateContent \/ AddNote \/ Fail
    <3>1. after = before /\ there # "idle" /\ Ahead(there) < Ahead(here)
      BY <2>1, <2>2, <2>6, PhasesGoOn
    <3> QED
      BY <2>3, <3>1
  <2>7. ~(World \/ BecomesCalm \/ StartPublication)
    BY DEF World, ReportChanges, OwnerClosesOrReopens, SomebodyRemovesLabel, SomebodyClaims,
       BecomesCalm, StartPublication
  <2> QED
    BY <2>4, <2>5, <2>6, <2>7 DEF Next, Step, vars
<1> QED
  BY <1>1, <1>2, InitInv, StepInv, PTL DEF Spec

=============================================================================

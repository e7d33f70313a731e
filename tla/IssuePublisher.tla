----------------------------- MODULE IssuePublisher -----------------------------
(***************************************************************************)
(* How a plan of issue actions is reconciled with the issues of a          *)
(* repository, one remote call at a time: each action finds its issue by   *)
(* the fingerprint label or by a body search, restores labels, creates,    *)
(* updates and comments.  An action that fails leaves the others alone, and *)
(* the next publication does again what is missing.  People close, reopen  *)
(* and relabel issues meanwhile.                                           *)
(*                                                                         *)
(* Two profiles share the code: fleet issues get one resolution note, and  *)
(* only while open; capability issues of the advisor follow the report     *)
(* back and forth with notes, and their text is kept up to date.           *)
(***************************************************************************)
EXTENDS Integers, Sequences, FiniteSets, FiniteSetsExt, SequencesExt

CONSTANTS
  Fingerprints,  \* the identities a plan has actions for
  Claimable,     \* those whose label may turn up on a record of somebody else
  Contents,      \* the texts an issue can have
  Labels,        \* the labels an issue carries, the fingerprint's among them
  MaxIssues,     \* bound on the issues of one behaviour
  MaxNotes       \* bound on the notes of one issue

VARIABLES
  profile,    \* "fleet" or "capability"
  plan,       \* the action of the current report, by fingerprint
  issues,     \* the issues the publisher created, by number
  claimed,    \* fingerprints whose label somebody else's record carries
  publisher,  \* what the running publication holds between two calls
  calm        \* whether the last failure and the last change around it are past

vars == <<profile, plan, issues, claimed, publisher, calm>>

ASSUME FingerprintsAssumption == IsFiniteSet(Fingerprints) /\ Fingerprints # {}
ASSUME ClaimableAssumption == Claimable \subseteq Fingerprints
ASSUME LabelsAssumption == "fingerprint" \in Labels
ASSUME ContentsAssumption == Contents # {}
ASSUME BoundsAssumption == MaxIssues \in Nat /\ MaxNotes \in Nat

Notes == {"resolved", "active"}

Action == [kind : Notes, content : Contents]

AnyContent == CHOOSE c \in Contents : TRUE

\* The body search lags behind new issues and labels are there at once: that a label
\* is removed only of an issue the search has caught up with is assumed.
Issue == [fingerprint : Fingerprints, state : {"open", "closed"},
          labels : SUBSET Labels, content : Contents, notes : Seq(Notes)]

NoIssue == 0

Idle == [phase |-> "idle", todo |-> {},
         fingerprint |-> CHOOSE f \in Fingerprints : TRUE, issue |-> NoIssue,
         open |-> FALSE, note |-> FALSE]

Publisher == [phase : {"idle", "next", "search", "relabel", "reconcile", "create",
                       "update", "note"},
              todo : SUBSET Fingerprints, fingerprint : Fingerprints,
              issue : Nat, open : BOOLEAN, note : BOOLEAN]

Reactivates == profile = "capability"

\* The actions a plan can have.  The text is looked at only where it is kept up to
\* date.
Planned == [kind : {"active"}, content : IF Reactivates THEN Contents ELSE {AnyContent}]
           \cup [kind : {"resolved"}, content : {AnyContent}]

\* The action the running publication is at.
Current == plan[publisher.fingerprint]

IssuesOf(fingerprint) ==
  {n \in DOMAIN issues : issues[n].fingerprint = fingerprint}

LastNote(n) == IF issues[n].notes = << >> THEN "none" ELSE Last(issues[n].notes)

Proceed(phase) == publisher' = [publisher EXCEPT !.phase = phase]

\* The action is over, well or not.  What it held is forgotten.
NextAction ==
  publisher' = [Idle EXCEPT !.phase = "next", !.todo = publisher.todo]

UnchangedWorld == UNCHANGED <<profile, plan, claimed, calm>>

-----------------------------------------------------------------------------
(***************************************************************************)
(* A publication.                                                          *)
(***************************************************************************)

StartPublication ==
  /\ publisher.phase = "idle"
  /\ publisher' = [Idle EXCEPT !.phase = "next", !.todo = Fingerprints]
  /\ UNCHANGED issues /\ UnchangedWorld

\* Variants a mistake in this code could produce, used to show that the
\* properties notice it.
Found_First(n, phase) == [publisher EXCEPT !.phase = phase, !.issue = 1,
                                           !.open = issues[1].state = "open"]

\* What the publisher has found: the issue, and whether it was open then.
Found(n, phase) == [publisher EXCEPT !.phase = phase, !.issue = n,
                                     !.open = issues[n].state = "open"]

FindByLabel_StopsAll ==
  /\ publisher.phase = "next" /\ publisher.todo # {}
  /\ LET f == CHOOSE g \in publisher.todo : TRUE
         labelled == {n \in IssuesOf(f) : "fingerprint" \in issues[n].labels}
     IN  IF f \in claimed THEN publisher' = Idle
         ELSE publisher' =
           [(IF labelled = {} THEN [publisher EXCEPT !.phase = "search"]
             ELSE Found(CHOOSE m \in labelled : TRUE, "relabel"))
            EXCEPT !.todo = @ \ {f}, !.fingerprint = f]
  /\ UNCHANGED issues /\ UnchangedWorld

\* _find_existing_issue, the label: two records with it, or one that is not the
\* advisor's, fail the action; none leads to the search.
FindByLabel ==
  /\ publisher.phase = "next" /\ publisher.todo # {}
  /\ LET f == CHOOSE g \in publisher.todo : TRUE
         labelled == {n \in IssuesOf(f) : "fingerprint" \in issues[n].labels}
         next(found) == [found EXCEPT !.todo = @ \ {f}, !.fingerprint = f]
     IN  publisher' =
           IF f \in claimed \/ Cardinality(labelled) > 1
           THEN [publisher EXCEPT !.todo = @ \ {f}]
           ELSE IF labelled = {} THEN next([publisher EXCEPT !.phase = "search"])
           ELSE LET n == CHOOSE m \in labelled : TRUE
                IN  next(Found(n, IF issues[n].labels = Labels
                                  THEN "reconcile" ELSE "relabel"))
  /\ UNCHANGED issues /\ UnchangedWorld

SearchBody_Skipped ==
  /\ publisher.phase = "search"
  /\ IF Current.kind = "active" THEN Proceed("create") ELSE NextAction
  /\ UNCHANGED issues /\ UnchangedWorld

\* _find_existing_issue, the body: what it finds has lost its label.  Nothing to
\* find is nothing to do for a resolved action.
SearchBody ==
  /\ publisher.phase = "search"
  /\ LET found == IssuesOf(publisher.fingerprint)
     IN  IF Cardinality(found) > 1 THEN NextAction
         ELSE IF found # {} THEN publisher' = Found(CHOOSE n \in found : TRUE, "relabel")
         ELSE IF Current.kind = "active" THEN Proceed("create") ELSE NextAction
  /\ UNCHANGED issues /\ UnchangedWorld

RestoreLabels ==
  /\ publisher.phase = "relabel"
  /\ issues' = [issues EXCEPT ![publisher.issue].labels = Labels]
  /\ Proceed("reconcile")
  /\ UnchangedWorld

NoteIsDue_Always(n) == Current.kind = "resolved" \/ Reactivates

\* Read the comments, unless none can be due, and see which note is missing.
NoteIsDue(n) ==
  IF Current.kind = "active" THEN Reactivates /\ LastNote(n) = "resolved"
  ELSE IF Reactivates THEN LastNote(n) # "resolved"
  ELSE publisher.open /\ "resolved" \notin ToSet(issues[n].notes)

ContentIsDue(n) ==
  Reactivates /\ Current.kind = "active" /\ issues[n].content # Current.content

Reconcile ==
  /\ publisher.phase = "reconcile"
  /\ LET n == publisher.issue
     IN  IF ContentIsDue(n)
         THEN publisher' = [publisher EXCEPT !.phase = "update", !.note = NoteIsDue(n)]
         ELSE IF NoteIsDue(n) THEN Proceed("note") ELSE NextAction
  /\ UNCHANGED issues /\ UnchangedWorld

\* Past the bound the model lets the call fail.
Create ==
  /\ publisher.phase = "create"
  /\ issues' = IF Len(issues) = MaxIssues THEN issues
               ELSE Append(issues, [fingerprint |-> publisher.fingerprint, state |-> "open",
                                    labels |-> Labels, content |-> Current.content,
                                    notes |-> << >>])
  /\ NextAction
  /\ UnchangedWorld

UpdateContent ==
  /\ publisher.phase = "update"
  /\ issues' = [issues EXCEPT ![publisher.issue].content = Current.content]
  /\ IF publisher.note THEN Proceed("note") ELSE NextAction
  /\ UnchangedWorld

AddNote ==
  /\ publisher.phase = "note"
  /\ issues' = IF Len(issues[publisher.issue].notes) = MaxNotes THEN issues
               ELSE [issues EXCEPT ![publisher.issue].notes = Append(@, Current.kind)]
  /\ NextAction
  /\ UnchangedWorld

\* A call fails or times out, before or after it took effect: the action is given
\* up, the publication goes on.
Fail ==
  /\ publisher.phase \notin {"idle", "next"}
  /\ NextAction
  /\ UNCHANGED issues /\ UnchangedWorld

EndPublication ==
  /\ publisher.phase = "next" /\ publisher.todo = {}
  /\ publisher' = Idle
  /\ UNCHANGED issues /\ UnchangedWorld

\* The job is killed.
Kill ==
  /\ publisher.phase # "idle"
  /\ publisher' = Idle
  /\ UNCHANGED issues /\ UnchangedWorld

-----------------------------------------------------------------------------
(***************************************************************************)
(* The world around it.                                                    *)
(***************************************************************************)

\* A new report is merged.  A publication has read its plan when it starts, so a
\* report merged meanwhile is as good as merged after it.
ReportChanges ==
  /\ publisher.phase = "idle"
  /\ \E f \in Fingerprints, action \in Planned : plan' = [plan EXCEPT ![f] = action]
  /\ UNCHANGED <<profile, issues, claimed, publisher, calm>>

\* Looked at only of a fleet issue.
OwnerClosesOrReopens(n) ==
  /\ ~Reactivates
  /\ issues' = [issues EXCEPT ![n].state = IF @ = "open" THEN "closed" ELSE "open"]
  /\ UNCHANGED publisher /\ UnchangedWorld

SomebodyRemovesLabel(n, label) ==
  /\ label \in issues[n].labels
  /\ issues' = [issues EXCEPT ![n].labels = @ \ {label}]
  /\ UNCHANGED publisher /\ UnchangedWorld

\* Somebody puts a fingerprint label on another record, or takes it off again.
SomebodyClaims(fingerprint) ==
  /\ claimed' = IF fingerprint \in claimed THEN claimed \ {fingerprint}
                ELSE claimed \cup {fingerprint}
  /\ UNCHANGED <<profile, plan, issues, publisher, calm>>

\* From here on the reports, the people and the network leave it alone.
BecomesCalm ==
  /\ ~calm /\ publisher.phase = "idle"
  /\ calm' = TRUE
  /\ UNCHANGED <<profile, plan, issues, claimed, publisher>>

World ==
  \/ ReportChanges
  \/ \E n \in DOMAIN issues :
       \/ OwnerClosesOrReopens(n)
       \/ \E label \in Labels : SomebodyRemovesLabel(n, label)
  \/ \E f \in Claimable : SomebodyClaims(f)

Step ==
  \/ StartPublication \/ EndPublication \/ FindByLabel \/ SearchBody \/ RestoreLabels
  \/ Reconcile \/ Create \/ UpdateContent \/ AddNote

Init ==
  /\ profile \in {"fleet", "capability"}
  /\ plan \in [Fingerprints -> Planned]
  /\ issues = << >> /\ claimed = {} /\ calm = FALSE
  /\ publisher = Idle

Next == Step \/ (~calm /\ (Fail \/ Kill \/ World \/ BecomesCalm))

Spec == Init /\ [][Next]_vars

\* The schedule starts a publication every day and a publication does its steps.
FairSpec == Spec /\ WF_vars(Step)

-----------------------------------------------------------------------------
\* Every variable has its type, and what a publication works on is its issue.
TypeOK ==
  /\ profile \in {"fleet", "capability"}
  /\ plan \in [Fingerprints -> Action]
  /\ issues \in Seq(Issue)
  /\ claimed \subseteq Claimable
  /\ publisher \in Publisher /\ publisher.issue \in {NoIssue} \cup DOMAIN issues
  /\ publisher.phase \in {"relabel", "reconcile", "update", "note"} =>
       issues[publisher.issue].fingerprint = publisher.fingerprint
  /\ calm \in BOOLEAN

\* "Issue creation is idempotent per recommendation fingerprint", and a partial
\* failure retries "without duplicating the issues already created": no crash,
\* timeout, lagging search or removed label makes a second issue of a finding.
OneIssuePerFinding == \A f \in Fingerprints : Cardinality(IssuesOf(f)) <= 1

\* "Each fingerprint receives at most one resolution note"; a capability issue,
\* whose state alternates, gets each note once per change and a resolution first.
NotesAreNotRepeated ==
  \A n \in DOMAIN issues :
    LET notes == issues[n].notes
    IN  /\ profile = "fleet" => Len(notes) <= 1
        /\ \A i \in DOMAIN notes : notes[i] = IF i % 2 = 1 THEN "resolved" ELSE "active"

\* To whoever reads them the issues are records of findings: one for each, opened only
\* for what is there, and told what the report says when that is news, however often
\* publications are killed, repeated and fail after their calls took effect.
Records == [n \in DOMAIN issues |->
              [finding |-> issues[n].fingerprint, notes |-> issues[n].notes]]

Board == INSTANCE FindingRecords
           WITH records <- Records, reported <- [f \in Fingerprints |-> plan[f].kind]

ImplementsRecords == Board!BoardSpec

\* The issues say of a finding what the report says of it.
Realised(f, action) ==
  LET own == IssuesOf(f)
  IN  /\ action.kind = "active" => own # {}
      /\ \A n \in own :
           /\ issues[n].labels = Labels
           /\ Reactivates /\ action.kind = "active" =>
                issues[n].content = action.content /\ LastNote(n) # "resolved"
           /\ action.kind = "resolved" /\ (Reactivates \/ issues[n].state = "open") =>
                LastNote(n) = "resolved"

Settled(f, action) == calm /\ plan[f] = action /\ f \notin claimed

Exhausted ==
  \/ publisher.phase = "create" /\ Len(issues) = MaxIssues
  \/ publisher.phase = "note" /\ Len(issues[publisher.issue].notes) = MaxNotes

\* Once nothing changes any more the issues come to say what the report says,
\* whatever failed before, for every finding whose label nobody else has claimed:
\* one that is claimed fails every day and does not hold up the others.
PlanIsRealised ==
  \A f \in Fingerprints, action \in Action :
    Settled(f, action) ~> (Realised(f, action) \/ Exhausted)

=============================================================================

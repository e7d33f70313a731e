-------------------------- MODULE IssueAuthorization --------------------------
(***************************************************************************)
(* The fleet-issues workflow up to its writes: which merged report may     *)
(* become fleet issues, and what is looked at again before they are        *)
(* written.  Its concurrency group keeps one running publication and one   *)
(* waiting request, which a newer request replaces.  Of the repository it  *)
(* reads what ReportLedger promises: the k-th merged report pull request   *)
(* is entry k, and a pull request that did not merge is none.              *)
(***************************************************************************)
EXTENDS ReportLedger

CONSTANTS
  Codes,      \* versions of src/, the lock file and the workflow on main
  NoRequest,  \* nothing waits for the publisher
  Latest      \* a scheduled request: whichever report pull request merged last

VARIABLES
  code,       \* the code on main
  queued,     \* the request waiting for the publisher
  publisher,  \* the running publication
  published   \* the ledger entry whose issues were last written, 0 if none

publication == <<queued, publisher, published>>

main == <<ledger, code>>

ASSUME RequestAssumption == NoRequest # Latest /\ {NoRequest, Latest} \cap Nat = {}
ASSUME CodesAssumption == Codes # {}

\* checkout, inputs, code: what the trusted checkout of main holds.
\* report: the entry the verified pull request brought to main.
Entries == DOMAIN accepted

NoPublication == [phase |-> "idle", request |-> NoRequest, checkout |-> 0,
                  inputs |-> AnyInputs, code |-> CHOOSE c \in Codes : TRUE, report |-> 0]

PublicationTypeOK ==
  /\ code \in Codes
  /\ queued \in {NoRequest, Latest} \cup Entries
  /\ publisher \in [phase : {"idle", "checkedOut", "planned", "token", "writing"},
                    request : {NoRequest, Latest} \cup Entries,
                    checkout : 0 .. Len(accepted), inputs : Inputs,
                    code : Codes, report : 0 .. Len(accepted)]
  /\ published \in 0 .. Len(accepted)

PublicationInit ==
  /\ code \in Codes
  /\ queued = NoRequest
  /\ publisher = NoPublication
  /\ published = 0

-----------------------------------------------------------------------------
(***************************************************************************)
(* What a publication is checked against.                                  *)
(***************************************************************************)

\* The report a request stands for: its own, or the last to merge, 0 if none.
Requested_Oldest(request) == IF request = Latest THEN 1 ELSE request

Requested(request) == IF request = Latest THEN Len(accepted) ELSE request

SameReport_Material(c, d) == accepted[c] = accepted[d]

\* Reports compare by their bytes, and every one embeds its own timestamp.
SameReport(c, d) == c = d

Ready_Always(report, checkedOutInputs) == TRUE

\* report-readiness: the report was made under the checked-out policy and intent.
Ready(report, checkedOutInputs) == accepted[report].inputs = checkedOutInputs

StillCurrent_ReportOnly == SameReport(publisher.report, Len(accepted))

\* check-approved-report-current.sh: live main has this report, and the inputs
\* and the code the publication runs with.
StillCurrent ==
  /\ SameReport(publisher.report, Len(accepted))
  /\ publisher.inputs = inputs
  /\ publisher.code = code

-----------------------------------------------------------------------------
(***************************************************************************)
(* The steps of a publication.                                             *)
(***************************************************************************)

\* The daily schedule and a push to main ask for the latest; the merge worker
\* and the owner name a report.
Request(request) ==
  /\ queued' = request
  /\ UNCHANGED <<publisher, published>>
  /\ UNCHANGED main

StartPublication ==
  /\ queued # NoRequest
  /\ publisher.phase = "idle"
  /\ publisher' = [publisher EXCEPT !.phase = "checkedOut", !.request = queued,
                                    !.checkout = Len(accepted), !.inputs = inputs,
                                    !.code = code]
  /\ queued' = NoRequest
  /\ UNCHANGED published
  /\ UNCHANGED main

Approve_Unverified ==
  /\ publisher.phase = "checkedOut"
  /\ Requested(publisher.request) \in Entries
  /\ publisher' = [publisher EXCEPT !.phase = "planned",
                                    !.report = Requested(publisher.request)]
  /\ UNCHANGED <<queued, published>>
  /\ UNCHANGED main

\* Verify the merged pull request, take its report out of the checkout, refuse
\* a superseded one, wait for matching inputs, and build the issue plan.
Approve ==
  /\ publisher.phase = "checkedOut"
  /\ LET report == Requested(publisher.request)
     IN  /\ report \in 1 .. publisher.checkout
         /\ SameReport(report, publisher.checkout)
         /\ Ready(report, publisher.inputs)
         /\ publisher' = [publisher EXCEPT !.phase = "planned", !.report = report]
  /\ UNCHANGED <<queued, published>>
  /\ UNCHANGED main

Recheck ==
  /\ publisher.phase = "planned"
  /\ StillCurrent
  /\ publisher' = [publisher EXCEPT !.phase = "token"]
  /\ UNCHANGED <<queued, published>>
  /\ UNCHANGED main

RecheckBeforeWrite ==
  /\ publisher.phase = "token"
  /\ StillCurrent
  /\ publisher' = [publisher EXCEPT !.phase = "writing"]
  /\ UNCHANGED <<queued, published>>
  /\ UNCHANGED main

WriteIssues ==
  /\ publisher.phase = "writing"
  /\ published' = publisher.report
  /\ publisher' = NoPublication
  /\ UNCHANGED queued
  /\ UNCHANGED main

\* The report is refused, nothing is to be published, or the job fails.
EndPublication ==
  /\ publisher.phase # "idle"
  /\ publisher' = NoPublication
  /\ UNCHANGED <<queued, published>>
  /\ UNCHANGED main

PublicationStep ==
  \/ \E request \in Entries \cup {Latest} : Request(request)
  \/ StartPublication \/ Approve \/ Recheck \/ RecheckBeforeWrite
  \/ WriteIssues \/ EndPublication

\* A merge to main of code, the lock file or the workflow itself.
CodeChanges ==
  /\ code' \in Codes \ {code}
  /\ UNCHANGED publication
  /\ UNCHANGED ledger

vars == <<main, publication>>

Init == LedgerInit /\ PublicationInit

Next ==
  \/ (Accept \/ InputsMove) /\ UNCHANGED <<code, publication>>
  \/ CodeChanges
  \/ PublicationStep

Spec == Init /\ [][Next]_vars

\* A job ends, and what keeps a step from happening does not strike every
\* time: the schedule asks for the latest report again every day, and a job of
\* at most ten minutes leaves the publisher idle for most of it.  The report
\* is one with actions to publish: without any, a job ends after its plan.
Fairness ==
  /\ WF_vars(EndPublication)
  /\ SF_vars(publisher.phase = "idle" /\ Request(Latest))
  /\ SF_vars(queued = Latest /\ StartPublication)
  /\ SF_vars(Approve)
  /\ SF_vars(Recheck)
  /\ SF_vars(RecheckBeforeWrite)
  /\ SF_vars(WriteIssues)

FairSpec == Spec /\ Fairness

-----------------------------------------------------------------------------
(***************************************************************************)
(* Properties.                                                             *)
(***************************************************************************)

\* Every variable has its type, and what a publication holds to write is a
\* report that its own checkout contains.
TypeOK ==
  /\ LedgerTypeOK /\ PublicationTypeOK
  /\ publisher.report <= publisher.checkout

\* A superseded report cannot be replayed (docs/fleet-publication.md): whatever
\* is retried, and in whatever order requests are served, the reports written
\* to the fleet only ever get newer.
NeverBackwards == [][published' >= published]_vars

\* A publication obtains its write access only for the report on main at that
\* moment, only while policy and intent are those the report was made under,
\* and only for the code on main.
AuthorizedIsCurrent ==
  [][publisher.phase # "writing" /\ publisher'.phase = "writing" =>
       /\ publisher'.report = Len(accepted)
       /\ Newest.inputs = inputs
       /\ publisher'.code = code]_vars

\* Once main stays put with a newest report made under its own policy and
\* intent, that report gets published, although every handoff may be lost,
\* stale requests may replace waiting ones and any job may fail.
NewestGetsPublished ==
  <>[](accepted # << >> /\ Newest.inputs = inputs) /\ <>[][UNCHANGED main]_vars
    => <>[](published = Len(accepted))

=============================================================================

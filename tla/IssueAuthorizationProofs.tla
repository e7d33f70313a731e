----------------------- MODULE IssueAuthorizationProofs -----------------------
(***************************************************************************)
(* What holds of IssueAuthorization for every set of inputs, observations  *)
(* and code versions, and any number of reports.                           *)
(***************************************************************************)
EXTENDS IssueAuthorization, TLAPS

\* Nothing newer than its own checkout is published while a publication runs.
CheckoutCovers == publisher.phase # "idle" => published <= publisher.checkout

\* Once planned, the report a publication holds is the one its checkout has on
\* main, made under the policy and intent of that checkout.
PlanSound ==
  publisher.phase \in {"planned", "token", "writing"} =>
    /\ publisher.report = publisher.checkout
    /\ publisher.report \in Entries
    /\ accepted[publisher.report].inputs = publisher.inputs

IInv == TypeOK /\ CheckoutCovers /\ PlanSound

-----------------------------------------------------------------------------
\* A publication at rest is well typed, whatever the ledger holds.
LEMMA NoPublicationType ==
  ASSUME NEW n \in Nat
  PROVE  /\ NoPublication \in
              [phase : {"idle", "checkedOut", "planned", "token", "writing"},
               request : {NoRequest, Latest} \cup Entries, checkout : 0 .. n,
               inputs : Inputs, code : Codes, report : 0 .. n]
         /\ NoPublication.phase = "idle"
         /\ NoPublication.report <= NoPublication.checkout
<1> DEFINE anyCode == CHOOSE c \in Codes : TRUE
<1>1. AnyInputs \in Inputs /\ anyCode \in Codes
  BY InputsAssumption, CodesAssumption DEF AnyInputs
<1> HIDE DEF anyCode
<1>2. NoPublication = [phase |-> "idle", request |-> NoRequest, checkout |-> 0,
                       inputs |-> AnyInputs, code |-> anyCode, report |-> 0]
  BY DEF NoPublication, anyCode
<1> QED
  BY <1>1, <1>2

\* Entries are numbered from one (accepted of ReportLedger).
LEMMA EntriesNumbered ==
  ASSUME LedgerTypeOK
  PROVE  Entries = 1 .. Len(accepted) /\ Len(accepted) \in Nat
  BY DEF LedgerTypeOK, Entries

\* A report accepted by a merge leaves the earlier entries as they were.
LEMMA AcceptEffect ==
  ASSUME LedgerTypeOK, Accept
  PROVE  /\ LedgerTypeOK'
         /\ Len(accepted') = Len(accepted) + 1
         /\ \A k \in Entries : k \in Entries' /\ accepted'[k] = accepted[k]
<1>1. PICK material \in Materials : accepted' = Append(accepted, material)
  BY DEF Accept
<1> QED
  BY <1>1 DEF Accept, LedgerTypeOK, Entries

-----------------------------------------------------------------------------
\* The inductive invariant holds before anything was merged.
LEMMA InvariantInit == Init => IInv
<1> SUFFICES ASSUME Init PROVE IInv
  OBVIOUS
<1>1. LedgerTypeOK /\ Len(accepted) = 0
  BY DEF Init, LedgerInit, LedgerTypeOK
<1>2. TypeOK
  BY <1>1, NoPublicationType DEF Init, PublicationInit, PublicationTypeOK, TypeOK
<1> QED
  BY <1>2, NoPublicationType
     DEF Init, PublicationInit, IInv, CheckoutCovers, PlanSound

\* A publication that ends holds nothing, however it ends.
LEMMA EndStep ==
  ASSUME IInv, publisher' = NoPublication, queued' = queued,
         published' \in 0 .. Len(accepted), UNCHANGED main
  PROVE  IInv'
<1>1. LedgerTypeOK /\ Len(accepted) \in Nat
  BY EntriesNumbered DEF IInv, TypeOK
<1>2. LedgerTypeOK' /\ Len(accepted') = Len(accepted) /\ Entries' = Entries /\ code' = code
  BY <1>1 DEF main, ledger, LedgerTypeOK, Entries
<1>3. TypeOK'
  BY <1>1, <1>2, NoPublicationType DEF IInv, TypeOK, PublicationTypeOK
<1> QED
  BY <1>3, NoPublicationType DEF IInv, CheckoutCovers, PlanSound

\* Every step keeps the inductive invariant.
LEMMA InvariantStep == IInv /\ [Next]_vars => IInv'
<1> SUFFICES ASSUME IInv, [Next]_vars PROVE IInv'
  OBVIOUS
<1>1. /\ LedgerTypeOK /\ PublicationTypeOK /\ publisher.report <= publisher.checkout
      /\ CheckoutCovers /\ PlanSound
      /\ Entries = 1 .. Len(accepted) /\ Len(accepted) \in Nat
  BY EntriesNumbered DEF IInv, TypeOK
<1>2. CASE UNCHANGED vars
  BY <1>1, <1>2 DEF vars, main, ledger, publication, IInv, TypeOK, LedgerTypeOK,
     PublicationTypeOK, CheckoutCovers, PlanSound, Entries
<1>3. CASE Accept /\ UNCHANGED <<code, publication>>
  <2>1. /\ LedgerTypeOK' /\ Len(accepted') = Len(accepted) + 1
        /\ \A k \in Entries : k \in Entries' /\ accepted'[k] = accepted[k]
    BY <1>1, <1>3, AcceptEffect
  <2>2. 0 .. Len(accepted) \subseteq 0 .. Len(accepted')
    BY <1>1, <2>1
  <2>3. UNCHANGED <<code, queued, publisher, published>>
    BY <1>3 DEF publication
  <2>4. PublicationTypeOK'
    BY <1>1, <2>1, <2>2, <2>3 DEF PublicationTypeOK
  <2> QED
    BY <1>1, <2>1, <2>3, <2>4 DEF IInv, TypeOK, CheckoutCovers, PlanSound
<1>4. CASE (InputsMove /\ UNCHANGED <<code, publication>>) \/ CodeChanges
  BY <1>1, <1>4 DEF InputsMove, CodeChanges, ledger, publication, IInv, TypeOK, LedgerTypeOK,
     PublicationTypeOK, CheckoutCovers, PlanSound, Entries
<1>5. ASSUME NEW request \in Entries \cup {Latest}, Request(request)
      PROVE  IInv'
  BY <1>1, <1>5 DEF Request, main, ledger, IInv, TypeOK, LedgerTypeOK,
     PublicationTypeOK, CheckoutCovers, PlanSound, Entries
<1>6. CASE StartPublication
  <2>1. /\ publisher'.phase = "checkedOut" /\ publisher'.checkout = Len(accepted)
        /\ publisher'.report = publisher.report
        /\ publisher' \in [phase : {"idle", "checkedOut", "planned", "token", "writing"},
                           request : {NoRequest, Latest} \cup Entries,
                           checkout : 0 .. Len(accepted), inputs : Inputs,
                           code : Codes, report : 0 .. Len(accepted)]
    <3>1. /\ publisher' = [publisher EXCEPT !.phase = "checkedOut", !.request = queued,
                                           !.checkout = Len(accepted), !.inputs = inputs,
                                           !.code = code]
          /\ Len(accepted) \in 0 .. Len(accepted)
          /\ inputs \in Inputs /\ code \in Codes /\ queued \in {NoRequest, Latest} \cup Entries
      BY <1>1, <1>6 DEF StartPublication, PublicationTypeOK, LedgerTypeOK
    <3>2. publisher \in [phase : {"idle", "checkedOut", "planned", "token", "writing"},
                         request : {NoRequest, Latest} \cup Entries,
                         checkout : 0 .. Len(accepted), inputs : Inputs,
                         code : Codes, report : 0 .. Len(accepted)]
      BY <1>1 DEF PublicationTypeOK
    <3> QED
      BY <3>1, <3>2
  <2>2. /\ UNCHANGED <<inputs, accepted, code, published>> /\ queued' = NoRequest
    BY <1>6 DEF StartPublication, main, ledger
  <2>3. publisher'.report <= publisher'.checkout /\ published <= publisher'.checkout
    BY <1>1, <2>1 DEF PublicationTypeOK
  <2>4. LedgerTypeOK' /\ Entries' = Entries
    BY <1>1, <2>2 DEF LedgerTypeOK, Entries
  <2>5. PublicationTypeOK'
    BY <1>1, <2>1, <2>2, <2>4 DEF PublicationTypeOK
  <2> QED
    BY <2>1, <2>2, <2>3, <2>4, <2>5 DEF IInv, TypeOK, CheckoutCovers, PlanSound
<1>7. CASE Approve
  <2> DEFINE report == Requested(publisher.request)
  <2>1. /\ report = publisher.checkout /\ report \in 1 .. publisher.checkout
        /\ accepted[report].inputs = publisher.inputs
        /\ publisher.phase = "checkedOut"
        /\ publisher' = [publisher EXCEPT !.phase = "planned", !.report = report]
        /\ UNCHANGED <<inputs, accepted, code, queued, published>>
    BY <1>7 DEF Approve, SameReport, Ready, main, ledger
  <2> HIDE DEF report
  <2>2. publisher.checkout \in 0 .. Len(accepted)
    BY <1>1 DEF PublicationTypeOK
  <2>3. report \in Entries /\ report \in 0 .. Len(accepted)
    BY <1>1, <2>1, <2>2
  <2>4. /\ publisher' \in [phase : {"idle", "checkedOut", "planned", "token", "writing"},
                           request : {NoRequest, Latest} \cup Entries,
                           checkout : 0 .. Len(accepted), inputs : Inputs,
                           code : Codes, report : 0 .. Len(accepted)]
        /\ publisher'.report = report /\ publisher'.checkout = publisher.checkout
        /\ publisher'.inputs = publisher.inputs
    BY <1>1, <2>1, <2>3 DEF PublicationTypeOK
  <2>5. publisher'.report <= publisher'.checkout
    BY <2>1, <2>2, <2>4
  <2>6. CheckoutCovers' /\ PlanSound'
    BY <1>1, <2>1, <2>3, <2>4 DEF CheckoutCovers, PlanSound, Entries
  <2> QED
    BY <1>1, <2>1, <2>4, <2>5, <2>6 DEF IInv, TypeOK, LedgerTypeOK, PublicationTypeOK, Entries
<1>8. CASE Recheck \/ RecheckBeforeWrite
  <2>1. /\ publisher.phase \in {"planned", "token"}
        /\ publisher' \in {[publisher EXCEPT !.phase = "token"],
                           [publisher EXCEPT !.phase = "writing"]}
        /\ UNCHANGED <<inputs, accepted, code, queued, published>>
    BY <1>8 DEF Recheck, RecheckBeforeWrite, main, ledger
  <2>2. /\ publisher' \in [phase : {"idle", "checkedOut", "planned", "token", "writing"},
                           request : {NoRequest, Latest} \cup Entries,
                           checkout : 0 .. Len(accepted), inputs : Inputs,
                           code : Codes, report : 0 .. Len(accepted)]
        /\ publisher'.report = publisher.report /\ publisher'.checkout = publisher.checkout
        /\ publisher'.inputs = publisher.inputs
    BY <1>1, <2>1 DEF PublicationTypeOK
  <2> QED
    BY <1>1, <2>1, <2>2 DEF IInv, TypeOK, LedgerTypeOK, PublicationTypeOK, CheckoutCovers,
       PlanSound, Entries
<1>9. CASE WriteIssues
  BY <1>1, <1>9, EndStep DEF WriteIssues, PublicationTypeOK
<1>10. CASE EndPublication
  BY <1>1, <1>10, EndStep DEF EndPublication, PublicationTypeOK
<1> QED
  BY <1>2, <1>3, <1>4, <1>5, <1>6, <1>7, <1>8, <1>9, <1>10 DEF Next, PublicationStep

\* The inductive invariant holds throughout.
THEOREM Invariance == Spec => []IInv
  BY InvariantInit, InvariantStep, PTL DEF Spec

\* Every variable keeps its type, and a publication holds only reports its own
\* checkout contains.
THEOREM TypeCorrectness == Spec => []TypeOK
  BY Invariance, PTL DEF IInv

\* A superseded report is never published again, whatever is requested and in
\* whatever order the requests are served.
THEOREM NoReplay == Spec => NeverBackwards
<1>1. IInv /\ [Next]_vars => published' >= published
  <2> SUFFICES ASSUME IInv, [Next]_vars PROVE published' >= published
    OBVIOUS
  <2>1. published \in Nat /\ publisher.report \in Nat /\ publisher.checkout \in Nat
    BY EntriesNumbered DEF IInv, TypeOK, PublicationTypeOK
  <2>2. CASE WriteIssues
    BY <2>1, <2>2 DEF WriteIssues, IInv, CheckoutCovers, PlanSound
  <2>3. CASE ~WriteIssues
    <3>1. published' = published
      BY <2>3 DEF Next, vars, publication, CodeChanges, PublicationStep, Request,
         StartPublication, Approve, Recheck, RecheckBeforeWrite, EndPublication
    <3> QED
      BY <2>1, <3>1
  <2> QED
    BY <2>2, <2>3
<1> QED
  BY <1>1, Invariance, PTL DEF Spec, NeverBackwards

\* Write access is obtained only for the report on main at that moment, under
\* the policy, intent and code on main at that moment.
THEOREM Authorization == Spec => AuthorizedIsCurrent
<1>1. IInv /\ [Next]_vars =>
        (publisher.phase # "writing" /\ publisher'.phase = "writing" =>
           /\ publisher'.report = Len(accepted)
           /\ Newest.inputs = inputs
           /\ publisher'.code = code)
  <2> SUFFICES ASSUME IInv, [Next]_vars,
                      publisher.phase # "writing", publisher'.phase = "writing"
               PROVE  /\ publisher'.report = Len(accepted)
                      /\ Newest.inputs = inputs
                      /\ publisher'.code = code
    OBVIOUS
  <2>1. RecheckBeforeWrite
    <3>1. publisher' # publisher
      OBVIOUS
    <3>2. NoPublication.phase = "idle" /\ publisher' # NoPublication
      BY NoPublicationType DEF NoPublication
    <3>3. ~(StartPublication \/ Approve \/ Recheck)
      BY DEF StartPublication, Approve, Recheck, IInv, TypeOK, PublicationTypeOK
    <3>4. ~(WriteIssues \/ EndPublication)
      BY <3>2 DEF WriteIssues, EndPublication
    <3> QED
      BY <3>1, <3>3, <3>4 DEF Next, vars, publication, CodeChanges, PublicationStep, Request
  <2>2. /\ publisher' = [publisher EXCEPT !.phase = "writing"]
        /\ publisher.report = Len(accepted)
        /\ publisher.inputs = inputs /\ publisher.code = code
        /\ publisher.phase = "token"
    BY <2>1 DEF RecheckBeforeWrite, StillCurrent, SameReport
  <2>3. publisher.report \in Entries /\ accepted[publisher.report].inputs = publisher.inputs
    BY <2>2 DEF IInv, PlanSound
  <2>4. Newest = accepted[Len(accepted)]
    <3>1. accepted # << >>
      BY <2>3 DEF Entries
    <3> QED
      BY <3>1 DEF Newest
  <2>5. publisher'.report = publisher.report /\ publisher'.code = publisher.code
    BY <2>2 DEF IInv, TypeOK, PublicationTypeOK
  <2> QED
    BY <2>2, <2>3, <2>4, <2>5
<1> QED
  BY <1>1, Invariance, PTL DEF Spec, AuthorizedIsCurrent

\* Main is as the publication checked it out.
AtMain ==
  /\ publisher.checkout = Len(accepted)
  /\ publisher.inputs = inputs /\ publisher.code = code

\* What NewestGetsPublished is about apart from time: a publication of the latest
\* report, made under its own policy and intent, is refused by none of the checks on
\* its way as long as main stands still, and what it then writes is that report.
THEOREM OnlyChangesRefuse ==
  Spec => [](AtMain /\ accepted # << >> /\ Newest.inputs = inputs =>
               /\ publisher.phase = "checkedOut" /\ publisher.request = Latest =>
                    LET report == Requested(publisher.request)
                    IN  /\ report \in 1 .. publisher.checkout
                        /\ SameReport(report, publisher.checkout)
                        /\ Ready(report, publisher.inputs)
               /\ publisher.phase \in {"planned", "token"} => StillCurrent
               /\ publisher.phase = "writing" => publisher.report = Len(accepted))
<1> DEFINE Passes ==
      /\ publisher.phase = "checkedOut" /\ publisher.request = Latest =>
           LET report == Requested(publisher.request)
           IN  /\ report \in 1 .. publisher.checkout
               /\ SameReport(report, publisher.checkout)
               /\ Ready(report, publisher.inputs)
      /\ publisher.phase \in {"planned", "token"} => StillCurrent
      /\ publisher.phase = "writing" => publisher.report = Len(accepted)
<1>1. IInv => (AtMain /\ accepted # << >> /\ Newest.inputs = inputs => Passes)
  <2> SUFFICES ASSUME IInv, AtMain, accepted # << >>, Newest.inputs = inputs
               PROVE  Passes
    OBVIOUS
  <2>1. Len(accepted) \in 1 .. publisher.checkout
        /\ accepted[Len(accepted)].inputs = publisher.inputs
    <3>1. Len(accepted) \in Nat /\ Len(accepted) # 0
      BY DEF IInv, TypeOK, LedgerTypeOK
    <3> QED
      BY <3>1 DEF AtMain, Newest
  <2>2. publisher.phase = "checkedOut" /\ publisher.request = Latest =>
          LET report == Requested(publisher.request)
          IN  /\ report \in 1 .. publisher.checkout
              /\ SameReport(report, publisher.checkout)
              /\ Ready(report, publisher.inputs)
    BY <2>1 DEF AtMain, Requested, SameReport, Ready
  <2>3. /\ publisher.phase \in {"planned", "token"} => StillCurrent
        /\ publisher.phase = "writing" => publisher.report = Len(accepted)
    BY DEF AtMain, StillCurrent, SameReport, IInv, PlanSound
  <2> QED
    BY <2>2, <2>3
<1> HIDE DEF Passes
<1>2. Spec => [](AtMain /\ accepted # << >> /\ Newest.inputs = inputs => Passes)
  BY <1>1, Invariance, PTL
<1> QED
  BY <1>2 DEF Passes

=============================================================================

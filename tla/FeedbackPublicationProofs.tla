------------------------ MODULE FeedbackPublicationProofs ------------------------
(***************************************************************************)
(* Theorems about FeedbackPublication, for every set of concerns, every    *)
(* fleet and every bound.                                                  *)
(*                                                                         *)
(* What a run holds between its decision and its last command is a promise *)
(* about the pull requests: an open one is the newest there is, the run    *)
(* works on it or there is none, and the plan it is about to propose is     *)
(* not that of a closed one, except perhaps the very one it works on.       *)
(***************************************************************************)
EXTENDS FeedbackPublication, FiniteSetTheorems, TLAPS

\* The newest pull request is the only one that can be open.
OpenIsNewest == \A n \in OpenPulls : n = Len(pulls)

\* The pull request a run works on is the newest; without one none is open.
WorksOnNewest ==
  /\ job.phase \in {"withdraw", "close", "edit"} => job.pull # 0
  /\ job.phase \in {"withdraw", "close", "edit", "push"} => job.pull \in {0, Len(pulls)}
  /\ job.phase = "create" => job.pull = 0
  /\ job.phase \in {"push", "create"} /\ job.pull = 0 => OpenPulls = {}

\* What is on its way was not declined before.
Undeclined ==
  job.phase \in {"push", "edit", "create"} =>
    /\ job.plan # Cancelled
    /\ \A m \in DOMAIN pulls :
         m # job.pull /\ pulls[m].body = job.plan => pulls[m].state # "closed"

\* A proposal is marked as cancelled before it is closed.
MarkedBeforeClosed == job.phase = "close" => pulls[job.pull].body = Cancelled

\* Once a pull request stands closed with a plan in its body, no later one has it.
ClosedPlansStayClosed ==
  \A m, n \in DOMAIN pulls :
    m < n /\ pulls[m].state = "closed" /\ pulls[m].body = pulls[n].body
    => pulls[m].body = Cancelled

\* The conjuncts of TypeOK the proofs work with; at most one open pull request
\* follows from OpenIsNewest.
Types ==
  /\ decided \in Plans /\ accepted \in Plans
  /\ report \in Report
  /\ pushes \in Seq(Plans)
  /\ tip \in 0 .. Len(pushes) /\ base \in Bases
  /\ pulls \in Seq(Pull)
  /\ \A n \in DOMAIN pulls : pulls[n].head \in DOMAIN pushes
  /\ \A n \in OpenPulls : pulls[n].head = tip
  /\ job \in Job /\ calm \in BOOLEAN
  /\ job.pull \in {0} \cup DOMAIN pulls

Inv ==
  /\ Types /\ OpenIsNewest /\ WorksOnNewest /\ Undeclined /\ MarkedBeforeClosed
  /\ ClosedPlansStayClosed

-----------------------------------------------------------------------------
\* A decision to push is one for a plan that stands closed nowhere.
LEMMA PushedPlanIsUndeclined ==
  ASSUME Inv, NEW plan \in Plans, Decision(plan, job.ready, OpenPulls) = "push"
  PROVE  /\ plan # Cancelled
         /\ \A m \in DOMAIN pulls : pulls[m].body = plan => pulls[m].state # "closed"
<1>1. plan # {} /\ ~Declined(plan)
  BY DEF Decision
<1>2. ASSUME NEW m \in DOMAIN pulls, pulls[m].body = plan, pulls[m].state = "closed"
      PROVE  FALSE
  <2>1. DOMAIN pulls = 1 .. Len(pulls)
    BY DEF Inv, Types
  <2>2. \A n \in DOMAIN pulls : pulls[n].body = plan => n <= m
    BY <1>1, <1>2, <2>1 DEF Inv, ClosedPlansStayClosed, Cancelled
  <2> QED
    BY <1>1, <1>2, <2>2 DEF Declined
<1> QED
  BY <1>1, <1>2 DEF Cancelled

\* A step that leaves the pull requests and the job alone keeps what relates them.
LEMMA ForgeStays ==
  ASSUME Inv, UNCHANGED <<pulls, job>>
  PROVE  OpenIsNewest' /\ WorksOnNewest' /\ Undeclined' /\ MarkedBeforeClosed'
         /\ ClosedPlansStayClosed'
BY DEF Inv, OpenIsNewest, WorksOnNewest, Undeclined, MarkedBeforeClosed,
       ClosedPlansStayClosed, OpenPulls

LEMMA InitInv == Init => Inv
<1> SUFFICES ASSUME Init PROVE Inv
  OBVIOUS
<1>1. pulls = << >> /\ job = NoJob /\ DOMAIN pulls = {} /\ OpenPulls = {}
  BY DEF Init, JobInit, OpenPulls
<1>2. job \in Job /\ job.phase = "idle" /\ job.pull = 0
  BY <1>1 DEF NoJob, Job, Bases, Plans
<1>3. report \in Report
  BY FindingsAssumption DEF Init, Report
<1>4. pushes \in Seq(Plans) /\ pulls \in Seq(Pull) /\ tip \in 0 .. Len(pushes)
  BY DEF Init
<1>5. decided \in Plans /\ accepted \in Plans /\ base \in Bases /\ calm \in BOOLEAN
  BY DEF Init, Plans, Bases
<1>6. Types
  BY <1>1, <1>2, <1>3, <1>4, <1>5 DEF Types
<1> QED
  BY <1>1, <1>2, <1>6 DEF Inv, OpenIsNewest, WorksOnNewest, Undeclined,
     MarkedBeforeClosed, ClosedPlansStayClosed

-----------------------------------------------------------------------------
(***************************************************************************)
(* Steps that rewrite one pull request: what changes of the sequence.       *)
(***************************************************************************)

LEMMA OnePullChanges ==
  ASSUME Inv, NEW k \in DOMAIN pulls, NEW p \in Pull,
         p.head = pulls[k].head, p.state = "open" => pulls[k].state = "open",
         pulls' = [pulls EXCEPT ![k] = p]
  PROVE  /\ pulls' \in Seq(Pull) /\ Len(pulls') = Len(pulls)
         /\ DOMAIN pulls' = DOMAIN pulls
         /\ pulls'[k] = p /\ \A n \in DOMAIN pulls : n # k => pulls'[n] = pulls[n]
         /\ \A n \in DOMAIN pulls : pulls'[n].head = pulls[n].head
         /\ OpenPulls' \subseteq OpenPulls
<1>1. pulls \in Seq(Pull)
  BY DEF Inv, Types
<1>2. /\ pulls' \in Seq(Pull) /\ Len(pulls') = Len(pulls)
      /\ DOMAIN pulls' = DOMAIN pulls
      /\ pulls'[k] = p /\ \A n \in DOMAIN pulls : n # k => pulls'[n] = pulls[n]
  BY <1>1
<1> QED
  BY <1>2 DEF OpenPulls

\* A closed or merged pull request keeps the lists in order, whatever the run holds.
LEMMA PullLeaves ==
  ASSUME Inv, NEW k \in OpenPulls, NEW result \in {"closed", "merged"},
         pulls' = [pulls EXCEPT ![k].state = result],
         UNCHANGED <<job.phase, job.plan, job.pull>>
  PROVE  /\ pulls' \in Seq(Pull) /\ DOMAIN pulls' = DOMAIN pulls
         /\ OpenPulls' = {}
         /\ \A n \in DOMAIN pulls : pulls'[n].head = pulls[n].head
         /\ OpenIsNewest' /\ WorksOnNewest' /\ Undeclined' /\ MarkedBeforeClosed'
         /\ ClosedPlansStayClosed'
<1> DEFINE p == [pulls[k] EXCEPT !.state = result]
<1>1. pulls \in Seq(Pull) /\ k \in DOMAIN pulls /\ k = Len(pulls)
  BY DEF Inv, Types, OpenPulls, OpenIsNewest
<1>2. p \in Pull /\ p.head = pulls[k].head /\ p.body = pulls[k].body /\ p.state = result
  <2>1. pulls[k] \in Pull
    BY <1>1
  <2> QED
    BY <2>1 DEF Pull
<1>3. pulls' = [pulls EXCEPT ![k] = p]
  OBVIOUS
<1> HIDE DEF p
<1>4. /\ pulls' \in Seq(Pull) /\ Len(pulls') = Len(pulls)
      /\ DOMAIN pulls' = DOMAIN pulls
      /\ pulls'[k] = p /\ \A n \in DOMAIN pulls : n # k => pulls'[n] = pulls[n]
      /\ \A n \in DOMAIN pulls : pulls'[n].head = pulls[n].head
      /\ OpenPulls' \subseteq OpenPulls
  BY <1>1, <1>2, <1>3, OnePullChanges
<1>5. \A n \in DOMAIN pulls : pulls'[n].body = pulls[n].body
  BY <1>2, <1>4
<1>6. OpenPulls' = {}
  <2>1. k \notin OpenPulls'
    BY <1>2, <1>4 DEF OpenPulls
  <2> QED
    BY <1>1, <1>4, <2>1 DEF Inv, OpenIsNewest
<1>7. OpenIsNewest' /\ WorksOnNewest'
  BY <1>4, <1>6 DEF Inv, OpenIsNewest, WorksOnNewest
<1>8. Undeclined'
  <2> SUFFICES ASSUME job.phase \in {"push", "edit", "create"}
               PROVE  /\ job.plan # Cancelled
                      /\ \A m \in DOMAIN pulls :
                           m # job.pull /\ pulls'[m].body = job.plan
                             => pulls'[m].state # "closed"
    BY <1>4 DEF Undeclined
  <2>1. k = job.pull
    BY <1>1 DEF Inv, WorksOnNewest
  <2> QED
    BY <1>4, <2>1 DEF Inv, Undeclined
<1>9. MarkedBeforeClosed'
  <2>1. job.phase = "close" => job.pull \in DOMAIN pulls
    BY DEF Inv, WorksOnNewest, Types
  <2> QED
    BY <1>5, <2>1 DEF Inv, MarkedBeforeClosed
<1>10. ClosedPlansStayClosed'
  <2> SUFFICES ASSUME NEW m \in DOMAIN pulls, NEW n \in DOMAIN pulls, m < n,
                      pulls'[m].state = "closed", pulls'[m].body = pulls'[n].body
               PROVE  pulls'[m].body = Cancelled
    BY <1>4 DEF ClosedPlansStayClosed
  <2>1. m # k
    BY <1>1
  <2> QED
    BY <1>4, <1>5, <2>1 DEF Inv, ClosedPlansStayClosed
<1> QED
  BY <1>4, <1>6, <1>7, <1>8, <1>9, <1>10

-----------------------------------------------------------------------------
(***************************************************************************)
(* Each step of a run keeps the invariant.                                  *)
(***************************************************************************)

LEMMA BuildPlanInv == Inv /\ BuildPlan => Inv'
<1> SUFFICES ASSUME Inv, BuildPlan PROVE Inv'
  OBVIOUS
<1>1. UNCHANGED <<decided, accepted, report, calm, pushes, tip, base, pulls>>
  BY DEF BuildPlan, world, forge
<1>2. job' \in Job /\ job'.pull = 0 /\ job'.phase \in {"idle", "decide"}
  <2>1. PlanNow \in Plans /\ report.current \in BOOLEAN
    BY DEF PlanNow, Inv, Types, Plans, Report
  <2> QED
    BY <2>1 DEF BuildPlan, NoJob, Job, Bases, Plans
<1>3. Types'
  BY <1>1, <1>2 DEF Inv, Types, OpenPulls
<1> QED
  BY <1>1, <1>2, <1>3 DEF Inv, OpenIsNewest, WorksOnNewest, Undeclined,
     MarkedBeforeClosed, ClosedPlansStayClosed, OpenPulls

LEMMA DecideInv == Inv /\ Decide => Inv'
<1> SUFFICES ASSUME Inv, Decide PROVE Inv'
  OBVIOUS
<1>1. UNCHANGED <<decided, accepted, report, calm, pushes, tip, base, pulls>>
  BY DEF Decide, world, forge
<1> DEFINE next == IF Len(pulls) > MaxHistory THEN "idle"
                   ELSE Decision(job.plan, job.ready, OpenPulls)
           newest == IF OpenPulls = {} THEN 0 ELSE CHOOSE n \in OpenPulls : TRUE
<1>2. job' = IF next = "idle" THEN NoJob
             ELSE [NoJob EXCEPT !.phase = next, !.plan = job.plan, !.base = job.base,
                                !.tip = tip, !.pull = newest]
  BY DEF Decide
<1>3. next \in {"idle", "withdraw", "push"}
  BY DEF Decision
<1>4. /\ newest \in {0} \cup DOMAIN pulls /\ newest \in {0, Len(pulls)}
      /\ newest \in Nat /\ (newest = 0 => OpenPulls = {})
      /\ (next = "withdraw" => newest # 0)
  <2>1. OpenPulls \subseteq DOMAIN pulls /\ DOMAIN pulls = 1 .. Len(pulls)
        /\ Len(pulls) \in Nat
    BY DEF OpenPulls, Inv, Types
  <2>2. CASE OpenPulls = {}
    <3>1. next # "withdraw"
      BY <2>2 DEF Decision
    <3> QED
      BY <2>2, <3>1
  <2>3. CASE OpenPulls # {}
    <3>1. newest \in OpenPulls
      BY <2>3
    <3>2. newest = Len(pulls)
      BY <3>1 DEF Inv, OpenIsNewest
    <3> HIDE DEF newest, next
    <3> QED
      BY <2>1, <2>3, <3>1, <3>2
  <2> QED
    BY <2>2, <2>3
<1>5. next = "push" =>
        /\ job.plan # Cancelled
        /\ \A m \in DOMAIN pulls : pulls[m].body = job.plan => pulls[m].state # "closed"
  <2>1. job.plan \in Plans
    BY DEF Inv, Types, Job
  <2> QED
    BY <2>1, PushedPlanIsUndeclined
<1> HIDE DEF next, newest
<1>6. job' \in Job
  <2>1. tip \in Nat /\ job.plan \in Plans /\ job.base \in Bases
    BY DEF Inv, Types, Job
  <2> QED
    BY <1>2, <1>3, <1>4, <2>1 DEF NoJob, Job, Bases, Plans
<1>7. \/ job'.phase = "idle" /\ job'.pull = 0
      \/ /\ job'.phase = next /\ job'.pull = newest /\ job'.plan = job.plan
         /\ next \in {"withdraw", "push"}
  BY <1>2, <1>3 DEF NoJob
<1>8. Types'
  BY <1>1, <1>4, <1>6, <1>7 DEF Inv, Types, OpenPulls
<1>9. WorksOnNewest' /\ Undeclined' /\ MarkedBeforeClosed'
  BY <1>1, <1>4, <1>5, <1>7 DEF WorksOnNewest, Undeclined, MarkedBeforeClosed, OpenPulls
<1>10. OpenIsNewest' /\ ClosedPlansStayClosed'
  BY <1>1 DEF Inv, OpenIsNewest, ClosedPlansStayClosed, OpenPulls
<1> QED
  BY <1>8, <1>9, <1>10 DEF Inv

LEMMA WithdrawInv == Inv /\ Withdraw => Inv'
<1> SUFFICES ASSUME Inv, Withdraw PROVE Inv'
  OBVIOUS
<1> DEFINE k == job.pull
           p == [pulls[k] EXCEPT !.body = Cancelled]
<1>1. k \in DOMAIN pulls /\ pulls \in Seq(Pull) /\ k = Len(pulls) /\ k \in Nat
  BY DEF Withdraw, Inv, Types, WorksOnNewest, Job
<1>2. /\ p \in Pull /\ p.head = pulls[k].head /\ p.state = pulls[k].state
      /\ p.body = Cancelled
  <2>1. pulls[k] \in Pull
    BY <1>1
  <2> QED
    BY <2>1 DEF Pull, Cancelled, Plans
<1>3. pulls' = [pulls EXCEPT ![k] = p]
  BY DEF Withdraw
<1>4. /\ UNCHANGED <<decided, accepted, report, calm, pushes, tip, base>>
      /\ job' = [NoJob EXCEPT !.phase = "close", !.pull = k]
  BY DEF Withdraw, world
<1> HIDE DEF p, k
<1>5. /\ pulls' \in Seq(Pull) /\ Len(pulls') = Len(pulls)
      /\ DOMAIN pulls' = DOMAIN pulls
      /\ pulls'[k] = p /\ \A n \in DOMAIN pulls : n # k => pulls'[n] = pulls[n]
      /\ \A n \in DOMAIN pulls : pulls'[n].head = pulls[n].head
      /\ OpenPulls' \subseteq OpenPulls
  BY <1>1, <1>2, <1>3, OnePullChanges
<1>6. job' \in Job /\ job'.phase = "close" /\ job'.pull = k
  BY <1>1, <1>4 DEF NoJob, Job, Bases, Plans
<1>7. Types'
  BY <1>1, <1>4, <1>5, <1>6 DEF Inv, Types, OpenPulls
<1>8. OpenIsNewest' /\ WorksOnNewest' /\ Undeclined' /\ MarkedBeforeClosed'
  BY <1>1, <1>2, <1>5, <1>6
     DEF Inv, OpenIsNewest, WorksOnNewest, Undeclined, MarkedBeforeClosed
<1>9. ClosedPlansStayClosed'
  <2> SUFFICES ASSUME NEW m \in DOMAIN pulls, NEW n \in DOMAIN pulls, m < n,
                      pulls'[m].state = "closed", pulls'[m].body = pulls'[n].body
               PROVE  pulls'[m].body = Cancelled
    BY <1>5 DEF ClosedPlansStayClosed
  <2>1. CASE n = k
    BY <1>2, <1>5, <2>1
  <2>2. CASE n # k
    <3>1. m # k
      BY <1>1
    <3> QED
      BY <1>5, <2>2, <3>1 DEF Inv, ClosedPlansStayClosed
  <2> QED
    BY <2>1, <2>2
<1> QED
  BY <1>7, <1>8, <1>9 DEF Inv

\* The pull request is the newest one: closing it is like the owner closing it, and
\* it carries the cancellation.
LEMMA CloseInv == Inv /\ Close => Inv'
<1> SUFFICES ASSUME Inv, Close PROVE Inv'
  OBVIOUS
<1> DEFINE k == job.pull
           p == [pulls[k] EXCEPT !.state = "closed"]
<1>1. k \in DOMAIN pulls /\ pulls \in Seq(Pull) /\ k = Len(pulls)
      /\ pulls[k].body = Cancelled /\ pulls[k] \in Pull
  BY DEF Close, Inv, Types, WorksOnNewest, MarkedBeforeClosed
<1>2. UNCHANGED <<decided, accepted, report, calm, pushes, tip, base>> /\ job' = NoJob
  BY DEF Close, world
<1>3. job' \in Job /\ job'.phase = "idle" /\ job'.pull = 0
  BY <1>2 DEF NoJob, Job, Bases, Plans
<1>4. /\ pulls' \in Seq(Pull) /\ Len(pulls') = Len(pulls)
      /\ DOMAIN pulls' = DOMAIN pulls
      /\ \A n \in DOMAIN pulls : n # k => pulls'[n] = pulls[n]
      /\ pulls'[k].body = Cancelled
      /\ \A n \in DOMAIN pulls : pulls'[n].head = pulls[n].head
      /\ OpenPulls' \subseteq OpenPulls
  <2>1. CASE pulls[k].state = "open"
    <3>1. pulls' = [pulls EXCEPT ![k] = p]
      BY <2>1 DEF Close
    <3>2. p \in Pull /\ p.head = pulls[k].head /\ p.state = "closed"
          /\ p.body = Cancelled
      BY <1>1 DEF Pull
    <3> HIDE DEF p, k
    <3> QED
      BY <1>1, <3>1, <3>2, OnePullChanges
  <2>2. CASE pulls[k].state # "open"
    <3>1. pulls' = pulls
      BY <2>2 DEF Close
    <3> QED
      BY <1>1, <3>1 DEF OpenPulls
  <2> QED
    BY <2>1, <2>2
<1> HIDE DEF k
<1>5. Types'
  BY <1>2, <1>3, <1>4 DEF Inv, Types, OpenPulls
<1>6. OpenIsNewest' /\ WorksOnNewest' /\ Undeclined' /\ MarkedBeforeClosed'
  BY <1>3, <1>4 DEF Inv, OpenIsNewest, WorksOnNewest, Undeclined, MarkedBeforeClosed
<1>7. ClosedPlansStayClosed'
  <2> SUFFICES ASSUME NEW m \in DOMAIN pulls, NEW n \in DOMAIN pulls, m < n,
                      pulls'[m].state = "closed", pulls'[m].body = pulls'[n].body
               PROVE  pulls'[m].body = Cancelled
    BY <1>4 DEF ClosedPlansStayClosed
  <2>1. CASE n = k
    BY <1>4, <2>1
  <2>2. CASE n # k
    <3>1. m # k
      BY <1>1
    <3> QED
      BY <1>4, <2>2, <3>1 DEF Inv, ClosedPlansStayClosed
  <2> QED
    BY <2>1, <2>2
<1> QED
  BY <1>5, <1>6, <1>7 DEF Inv

\* Nothing but the head of the open pull request moves with a push.
LEMMA PushInv == Inv /\ Push => Inv'
<1> SUFFICES ASSUME Inv, Push PROVE Inv'
  OBVIOUS
<1>1. UNCHANGED <<decided, accepted, report, calm>> /\ job.phase = "push"
  BY DEF Push, world
<1>2. CASE tip # job.tip \/ Len(pushes) = MaxPushes
  <2>1. UNCHANGED <<pushes, tip, base, pulls>> /\ job' = NoJob
    BY <1>2 DEF Push, forge
  <2>2. job' \in Job /\ job'.phase = "idle" /\ job'.pull = 0
    BY <2>1 DEF NoJob, Job, Bases, Plans
  <2>3. Types'
    BY <1>1, <2>1, <2>2 DEF Inv, Types, OpenPulls
  <2> QED
    BY <2>1, <2>2, <2>3 DEF Inv, OpenIsNewest, WorksOnNewest, Undeclined,
       MarkedBeforeClosed, ClosedPlansStayClosed, OpenPulls
<1>3. CASE ~(tip # job.tip \/ Len(pushes) = MaxPushes)
  <2>1. /\ pushes' = Append(pushes, job.plan) /\ tip' = Len(pushes) + 1
        /\ base' = job.base
        /\ pulls' = [n \in DOMAIN pulls |->
                       IF n \in OpenPulls THEN [pulls[n] EXCEPT !.head = tip'] ELSE pulls[n]]
        /\ job' = [NoJob EXCEPT !.phase = IF job.pull # 0 THEN "edit" ELSE "create",
                                !.plan = job.plan, !.pull = job.pull]
    BY <1>3 DEF Push
  <2>2. /\ pushes \in Seq(Plans) /\ job.plan \in Plans /\ job.base \in Bases
        /\ job.pull \in Nat /\ job.pull \in {0} \cup DOMAIN pulls
        /\ pulls \in Seq(Pull) /\ Len(pulls) \in Nat /\ Len(pushes) \in Nat
        /\ DOMAIN pulls = 1 .. Len(pulls)
    BY DEF Inv, Types, Job
  <2>3. /\ pushes' \in Seq(Plans) /\ Len(pushes') = Len(pushes) + 1
        /\ DOMAIN pushes' = 1 .. (Len(pushes) + 1)
        /\ DOMAIN pushes = 1 .. Len(pushes)
    BY <2>1, <2>2
  <2>4. \A n \in DOMAIN pulls :
          /\ pulls'[n] \in Pull
          /\ pulls'[n].state = pulls[n].state /\ pulls'[n].body = pulls[n].body
          /\ pulls'[n].head = IF n \in OpenPulls THEN tip' ELSE pulls[n].head
    <3> TAKE n \in DOMAIN pulls
    <3>1. pulls[n] \in Pull /\ tip' \in Nat
      BY <2>1, <2>2
    <3>2. pulls'[n] = IF n \in OpenPulls THEN [pulls[n] EXCEPT !.head = tip'] ELSE pulls[n]
      BY <2>1
    <3> QED
      BY <3>1, <3>2 DEF Pull
  <2>5. DOMAIN pulls' = DOMAIN pulls /\ OpenPulls' = OpenPulls
    <3>1. DOMAIN pulls' = DOMAIN pulls
      BY <2>1
    <3> QED
      BY <2>4, <3>1 DEF OpenPulls
  <2>6. pulls' \in Seq(Pull) /\ Len(pulls') = Len(pulls)
    <3>1. pulls' \in [1 .. Len(pulls) -> Pull]
      BY <2>1, <2>2, <2>4
    <3> QED
      BY <2>2, <3>1
  <2>7. /\ job' \in Job /\ job'.phase \in {"edit", "create"} /\ job'.plan = job.plan
        /\ job'.pull = job.pull /\ (job'.phase = "edit" <=> job.pull # 0)
    BY <2>1, <2>2 DEF NoJob, Job, Bases
  <2>8. Types'
    <3>1. \A n \in DOMAIN pulls' : pulls'[n].head \in DOMAIN pushes'
      BY <2>1, <2>2, <2>3, <2>4, <2>5 DEF Inv, Types
    <3>2. \A n \in OpenPulls' : pulls'[n].head = tip'
      BY <2>4, <2>5 DEF OpenPulls
    <3> QED
      BY <1>1, <2>1, <2>2, <2>3, <2>5, <2>6, <2>7, <3>1, <3>2 DEF Inv, Types
  <2>9. OpenIsNewest' /\ WorksOnNewest' /\ MarkedBeforeClosed'
    BY <1>1, <2>5, <2>6, <2>7 DEF Inv, OpenIsNewest, WorksOnNewest, MarkedBeforeClosed
  <2>10. Undeclined'
    BY <1>1, <2>4, <2>5, <2>7 DEF Inv, Undeclined
  <2>11. ClosedPlansStayClosed'
    BY <2>4, <2>5 DEF Inv, ClosedPlansStayClosed
  <2> QED
    BY <2>8, <2>9, <2>10, <2>11 DEF Inv
<1> QED
  BY <1>2, <1>3

\* The body is written of the newest pull request, and none before it stands closed
\* with the same plan.
LEMMA EditInv == Inv /\ Edit => Inv'
<1> SUFFICES ASSUME Inv, Edit PROVE Inv'
  OBVIOUS
<1> DEFINE k == job.pull
           p == [pulls[k] EXCEPT !.body = job.plan]
<1>1. k \in DOMAIN pulls /\ pulls \in Seq(Pull) /\ k = Len(pulls)
      /\ pulls[k] \in Pull /\ job.plan \in Plans /\ job.phase = "edit"
  BY DEF Edit, Inv, Types, WorksOnNewest, Job
<1>2. /\ p \in Pull /\ p.head = pulls[k].head /\ p.state = pulls[k].state
      /\ p.body = job.plan
  BY <1>1 DEF Pull
<1>3. pulls' = [pulls EXCEPT ![k] = p]
  BY DEF Edit
<1>4. UNCHANGED <<decided, accepted, report, calm, pushes, tip, base>> /\ job' = NoJob
  BY DEF Edit, world
<1> HIDE DEF p, k
<1>5. /\ pulls' \in Seq(Pull) /\ Len(pulls') = Len(pulls)
      /\ DOMAIN pulls' = DOMAIN pulls
      /\ pulls'[k] = p /\ \A n \in DOMAIN pulls : n # k => pulls'[n] = pulls[n]
      /\ \A n \in DOMAIN pulls : pulls'[n].head = pulls[n].head
      /\ OpenPulls' \subseteq OpenPulls
  BY <1>1, <1>2, <1>3, OnePullChanges
<1>6. job' \in Job /\ job'.phase = "idle" /\ job'.pull = 0
  BY <1>4 DEF NoJob, Job, Bases, Plans
<1>7. Types'
  BY <1>4, <1>5, <1>6 DEF Inv, Types, OpenPulls
<1>8. OpenIsNewest' /\ WorksOnNewest' /\ Undeclined' /\ MarkedBeforeClosed'
  BY <1>5, <1>6 DEF Inv, OpenIsNewest, WorksOnNewest, Undeclined, MarkedBeforeClosed
<1>9. ClosedPlansStayClosed'
  <2> SUFFICES ASSUME NEW m \in DOMAIN pulls, NEW n \in DOMAIN pulls, m < n,
                      pulls'[m].state = "closed", pulls'[m].body = pulls'[n].body
               PROVE  pulls'[m].body = Cancelled
    BY <1>5 DEF ClosedPlansStayClosed
  <2>1. m # k
    BY <1>1
  <2>2. CASE n = k
    BY <1>1, <1>2, <1>5, <2>1, <2>2 DEF Inv, Undeclined, k
  <2>3. CASE n # k
    BY <1>5, <2>1, <2>3 DEF Inv, ClosedPlansStayClosed
  <2> QED
    BY <2>2, <2>3
<1> QED
  BY <1>7, <1>8, <1>9 DEF Inv

LEMMA CreateInv == Inv /\ Create => Inv'
<1> SUFFICES ASSUME Inv, Create PROVE Inv'
  OBVIOUS
<1> DEFINE p == [state |-> "open", head |-> tip, body |-> job.plan]
<1>1. UNCHANGED <<decided, accepted, report, calm, pushes, tip, base>> /\ job' = NoJob
  BY DEF Create, world
<1>2. job' \in Job /\ job'.phase = "idle" /\ job'.pull = 0
  BY <1>1 DEF NoJob, Job, Bases, Plans
<1>3. CASE tip = 0
  <2>1. pulls' = pulls
    BY <1>3 DEF Create
  <2>2. Types'
    BY <1>1, <1>2, <2>1 DEF Inv, Types, OpenPulls
  <2> QED
    BY <1>2, <2>1, <2>2 DEF Inv, OpenIsNewest, WorksOnNewest, Undeclined,
       MarkedBeforeClosed, ClosedPlansStayClosed, OpenPulls
<1>4. CASE tip # 0
  <2>1. /\ pulls \in Seq(Pull) /\ Len(pulls) \in Nat /\ OpenPulls = {}
        /\ tip \in 1 .. Len(pushes) /\ DOMAIN pushes = 1 .. Len(pushes)
        /\ DOMAIN pulls = 1 .. Len(pulls)
        /\ job.plan \in Plans /\ job.pull = 0
    BY <1>4 DEF Create, Inv, Types, WorksOnNewest, Job
  <2>2. p \in Pull
    BY <2>1 DEF Pull
  <2>3. pulls' = Append(pulls, p)
    BY <1>4 DEF Create
  <2>4. p.state = "open" /\ p.head = tip /\ p.body = job.plan
    OBVIOUS
  <2> HIDE DEF p
  <2>5. /\ pulls' \in Seq(Pull) /\ Len(pulls') = Len(pulls) + 1
        /\ DOMAIN pulls' = 1 .. (Len(pulls) + 1)
        /\ pulls'[Len(pulls) + 1] = p
        /\ \A n \in DOMAIN pulls : pulls'[n] = pulls[n]
    BY <2>1, <2>2, <2>3
  <2>6. OpenPulls' = {Len(pulls) + 1}
    BY <2>1, <2>4, <2>5 DEF OpenPulls
  <2>7. Types'
    <3>1. \A n \in DOMAIN pulls' : pulls'[n].head \in DOMAIN pushes'
      <4> SUFFICES ASSUME NEW n \in DOMAIN pulls' PROVE pulls'[n].head \in DOMAIN pushes
        BY <1>1
      <4>1. n \in DOMAIN pulls \/ n = Len(pulls) + 1
        BY <2>1, <2>5
      <4> QED
        BY <2>1, <2>4, <2>5, <4>1 DEF Inv, Types
    <3> QED
      BY <1>1, <1>2, <2>4, <2>5, <2>6, <3>1 DEF Inv, Types
  <2>8. OpenIsNewest' /\ WorksOnNewest' /\ Undeclined' /\ MarkedBeforeClosed'
    BY <1>2, <2>5, <2>6 DEF OpenIsNewest, WorksOnNewest, Undeclined, MarkedBeforeClosed
  <2>9. ClosedPlansStayClosed'
    <3> SUFFICES ASSUME NEW m \in DOMAIN pulls', NEW n \in DOMAIN pulls', m < n,
                        pulls'[m].state = "closed", pulls'[m].body = pulls'[n].body
                 PROVE  pulls'[m].body = Cancelled
      BY DEF ClosedPlansStayClosed
    <3>1. m \in DOMAIN pulls /\ pulls'[m] = pulls[m] /\ m # 0
      BY <2>1, <2>5
    <3>2. CASE n \in DOMAIN pulls
      BY <2>5, <3>1, <3>2 DEF Inv, ClosedPlansStayClosed
    <3>3. CASE n = Len(pulls) + 1
      BY <2>1, <2>4, <2>5, <3>1, <3>3 DEF Create, Inv, Undeclined
    <3> QED
      BY <2>1, <2>5, <3>2, <3>3
  <2> QED
    BY <2>7, <2>8, <2>9 DEF Inv
<1> QED
  BY <1>3, <1>4

LEMMA AbortInv == Inv /\ Abort => Inv'
<1> SUFFICES ASSUME Inv, Abort PROVE Inv'
  OBVIOUS
<1>1. UNCHANGED <<decided, accepted, report, calm, pushes, tip, base, pulls>>
      /\ job' = NoJob
  BY DEF Abort, world, forge
<1>2. job' \in Job /\ job'.phase = "idle" /\ job'.pull = 0
  BY <1>1 DEF NoJob, Job, Bases, Plans
<1>3. Types'
  BY <1>1, <1>2 DEF Inv, Types, OpenPulls
<1> QED
  BY <1>1, <1>2, <1>3 DEF Inv, OpenIsNewest, WorksOnNewest, Undeclined,
     MarkedBeforeClosed, ClosedPlansStayClosed, OpenPulls

-----------------------------------------------------------------------------
(***************************************************************************)
(* So does everything around it.                                            *)
(***************************************************************************)

\* A run under way notices nothing of main having moved but where it started from.
LEMMA MainMovesJob ==
  ASSUME Inv, NEW policyStays \in BOOLEAN, MainMoves(policyStays)
  PROVE  /\ job' \in Job /\ base' \in Bases
         /\ UNCHANGED <<job.phase, job.plan, job.pull>>
<1>1. \A place \in Bases : After(place, policyStays) \in Bases
  BY DEF After, Bases
<1>2. job \in Job /\ base \in Bases
  BY DEF Inv, Types
<1>3. base' \in Bases
  BY <1>1, <1>2 DEF MainMoves
<1>4. CASE job.phase \in {"decide", "push"}
  <2>1. job' = [job EXCEPT !.base = After(job.base, policyStays)]
    BY <1>4 DEF MainMoves
  <2>2. After(job.base, policyStays) \in Bases
    BY <1>1, <1>2 DEF Job
  <2> QED
    BY <1>2, <1>3, <2>1, <2>2 DEF Job
<1>5. CASE job.phase \notin {"decide", "push"}
  BY <1>2, <1>3, <1>5 DEF MainMoves
<1> QED
  BY <1>4, <1>5

\* What leaves the pull requests alone, and of the job what is about them.
LEMMA Elsewhere ==
  ASSUME Inv, Types', UNCHANGED <<pulls, job.phase, job.plan, job.pull>>
  PROVE  Inv'
BY DEF Inv, OpenIsNewest, WorksOnNewest, Undeclined, MarkedBeforeClosed,
       ClosedPlansStayClosed, OpenPulls

LEMMA OwnerDecidesInv == ASSUME NEW c \in Concerns PROVE Inv /\ OwnerDecides(c) => Inv'
<1> SUFFICES ASSUME Inv, OwnerDecides(c) PROVE Inv'
  OBVIOUS
<1>1. UNCHANGED <<accepted, report, calm, pushes, tip, base, pulls, job>>
      /\ decided' \in Plans
  BY DEF OwnerDecides, forge, Inv, Types, Plans
<1>2. Types'
  BY <1>1 DEF Inv, Types, OpenPulls
<1> QED
  BY <1>1, <1>2, Elsewhere

LEMMA PolicyMoves ==
  ASSUME Inv, NEW tradeOffs \in Plans, PolicyBecomes(tradeOffs)
  PROVE  /\ accepted' \in Plans /\ report' \in Report
         /\ job' \in Job /\ base' \in Bases
         /\ UNCHANGED <<job.phase, job.plan, job.pull>>
<1>1. Outdated \in Report
  BY DEF Outdated, Report, Standings
<1>2. MainMoves(FALSE) /\ accepted' = tradeOffs /\ report' = Outdated
  BY DEF PolicyBecomes
<1> QED
  BY <1>1, <1>2, MainMovesJob

LEMMA OwnerEditsPolicyInv == Inv /\ OwnerEditsPolicy => Inv'
<1> SUFFICES ASSUME Inv, OwnerEditsPolicy PROVE Inv'
  OBVIOUS
<1>1. PICK kept \in SUBSET accepted : PolicyBecomes(kept)
  BY DEF OwnerEditsPolicy
<1>2. kept \in Plans
  BY DEF Inv, Types, Plans
<1>3. UNCHANGED <<decided, calm, pushes, tip, pulls>>
  BY DEF OwnerEditsPolicy
<1>4. Types' /\ UNCHANGED <<job.phase, job.plan, job.pull>>
  BY <1>1, <1>2, <1>3, PolicyMoves DEF Inv, Types, OpenPulls
<1> QED
  BY <1>3, <1>4, Elsewhere

LEMMA IntentChangesInv == Inv /\ IntentChanges => Inv'
<1> SUFFICES ASSUME Inv, IntentChanges PROVE Inv'
  OBVIOUS
<1>1. Outdated \in Report
  BY DEF Outdated, Report, Standings
<1>2. /\ MainMoves(TRUE) /\ report' = Outdated
      /\ UNCHANGED <<decided, accepted, calm, pushes, tip, pulls>>
  BY DEF IntentChanges
<1>3. Types' /\ UNCHANGED <<job.phase, job.plan, job.pull>>
  BY <1>1, <1>2, MainMovesJob DEF Inv, Types, OpenPulls
<1> QED
  BY <1>2, <1>3, Elsewhere

LEMMA ReportMergedInv == Inv /\ ReportMerged => Inv'
<1> SUFFICES ASSUME Inv, ReportMerged PROVE Inv'
  OBVIOUS
<1>1. report' \in Report
  <2>1. PICK findings \in Findings :
          report' = [current |-> TRUE,
                     findings |-> [c \in Concerns |->
                                     IF c \in accepted THEN "absent" ELSE findings[c]]]
    BY DEF ReportMerged
  <2>2. findings \in [Concerns -> Standings]
    BY FindingsAssumption
  <2> QED
    BY <2>1, <2>2 DEF Report, Standings
<1>2. MainMoves(TRUE) /\ UNCHANGED <<decided, accepted, calm, pushes, tip, pulls>>
  BY DEF ReportMerged
<1>3. Types' /\ UNCHANGED <<job.phase, job.plan, job.pull>>
  BY <1>1, <1>2, MainMovesJob DEF Inv, Types, OpenPulls
<1> QED
  BY <1>2, <1>3, Elsewhere

LEMMA OwnerMergesInv ==
  ASSUME NEW n \in DOMAIN pulls PROVE Inv /\ OwnerMerges(n) => Inv'
<1> SUFFICES ASSUME Inv, OwnerMerges(n) PROVE Inv'
  OBVIOUS
<1>1. /\ n \in OpenPulls /\ pulls' = [pulls EXCEPT ![n].state = "merged"]
      /\ PolicyBecomes(accepted \cup pushes[pulls[n].head])
      /\ UNCHANGED <<decided, calm, pushes, tip>>
  BY DEF OwnerMerges
<1>2. accepted \cup pushes[pulls[n].head] \in Plans
  <2>1. pushes \in Seq(Plans) /\ pulls[n].head \in DOMAIN pushes /\ accepted \in Plans
    BY DEF Inv, Types
  <2>2. pushes[pulls[n].head] \in Plans
    BY <2>1
  <2> QED
    BY <2>1, <2>2 DEF Plans
<1>3. /\ accepted' \in Plans /\ report' \in Report /\ job' \in Job /\ base' \in Bases
      /\ UNCHANGED <<job.phase, job.plan, job.pull>>
  BY <1>1, <1>2, PolicyMoves
<1>4. /\ pulls' \in Seq(Pull) /\ DOMAIN pulls' = DOMAIN pulls /\ OpenPulls' = {}
      /\ \A m \in DOMAIN pulls : pulls'[m].head = pulls[m].head
      /\ OpenIsNewest' /\ WorksOnNewest' /\ Undeclined' /\ MarkedBeforeClosed'
      /\ ClosedPlansStayClosed'
  BY <1>1, <1>3, PullLeaves
<1>5. Types'
  BY <1>1, <1>3, <1>4 DEF Inv, Types
<1> QED
  BY <1>4, <1>5 DEF Inv

LEMMA OwnerClosesInv ==
  ASSUME NEW n \in DOMAIN pulls PROVE Inv /\ OwnerCloses(n) => Inv'
<1> SUFFICES ASSUME Inv, OwnerCloses(n) PROVE Inv'
  OBVIOUS
<1>1. /\ n \in OpenPulls /\ pulls' = [pulls EXCEPT ![n].state = "closed"]
      /\ UNCHANGED <<decided, accepted, report, calm, pushes, tip, base, job>>
  BY DEF OwnerCloses, world
<1>2. /\ pulls' \in Seq(Pull) /\ DOMAIN pulls' = DOMAIN pulls /\ OpenPulls' = {}
      /\ \A m \in DOMAIN pulls : pulls'[m].head = pulls[m].head
      /\ OpenIsNewest' /\ WorksOnNewest' /\ Undeclined' /\ MarkedBeforeClosed'
      /\ ClosedPlansStayClosed'
  BY <1>1, PullLeaves
<1>3. Types'
  BY <1>1, <1>2 DEF Inv, Types
<1> QED
  BY <1>2, <1>3 DEF Inv

LEMMA BranchDeletedInv == Inv /\ BranchDeleted => Inv'
<1> SUFFICES ASSUME Inv, BranchDeleted PROVE Inv'
  OBVIOUS
<1>1. /\ UNCHANGED <<decided, accepted, report, calm, pushes, pulls, job>>
      /\ tip' = 0 /\ base' = "head" /\ OpenPulls = {}
  BY DEF BranchDeleted, world
<1>2. Types'
  BY <1>1 DEF Inv, Types, OpenPulls, Bases
<1> QED
  BY <1>1, <1>2, Elsewhere

LEMMA BecomesCalmInv == Inv /\ BecomesCalm => Inv'
<1> SUFFICES ASSUME Inv, BecomesCalm PROVE Inv'
  OBVIOUS
<1>1. UNCHANGED <<decided, accepted, report, pushes, tip, base, pulls, job>>
      /\ calm' = TRUE
  BY DEF BecomesCalm, forge
<1>2. Types'
  BY <1>1 DEF Inv, Types, OpenPulls
<1> QED
  BY <1>1, <1>2, Elsewhere

LEMMA StepInv == Inv /\ [Next]_vars => Inv'
<1>1. Inv /\ Step => Inv'
  BY BuildPlanInv, DecideInv, WithdrawInv, CloseInv, PushInv, EditInv, CreateInv DEF Step
<1>2. Inv /\ World => Inv'
  BY OwnerDecidesInv, OwnerEditsPolicyInv, IntentChangesInv, ReportMergedInv,
     OwnerMergesInv, OwnerClosesInv, BranchDeletedInv DEF World
<1>3. Inv /\ UNCHANGED vars => Inv'
  <2> SUFFICES ASSUME Inv, UNCHANGED vars PROVE Inv'
    OBVIOUS
  <2>1. UNCHANGED <<decided, accepted, report, calm, pushes, tip, base, pulls, job>>
    BY DEF vars, world, forge
  <2>2. Types'
    BY <2>1 DEF Inv, Types, OpenPulls
  <2> QED
    BY <2>1, <2>2, Elsewhere
<1> QED
  BY <1>1, <1>2, <1>3, AbortInv, BecomesCalmInv DEF Next

-----------------------------------------------------------------------------
(***************************************************************************)
(* What the owner declined.  A closed pull request keeps the plan it was    *)
(* closed with, unless a run works on it; and none is closed with a plan    *)
(* but by the owner or by such a run.                                       *)
(***************************************************************************)

\* What was closed with no run working on it reads as it did then.
DeclinesFit ==
  /\ declines \in SUBSET Decline
  /\ \A d \in declines :
       /\ d.pull \in DOMAIN pulls /\ pulls[d.pull].state = "closed"
       /\ ~d.racing => pulls[d.pull].body = d.plan /\ job.pull # d.pull

\* A run works on a closed pull request only if the owner closed it under the run.
RacesAreKnown ==
  job.pull # 0 /\ pulls[job.pull].state = "closed" =>
    \E d \in declines : d.pull = job.pull /\ d.racing

ClosedAreDeclined ==
  \A n \in DOMAIN pulls :
    pulls[n].state = "closed" /\ pulls[n].body # Cancelled =>
      \E d \in declines : d.pull = n /\ (d.racing \/ d.plan = pulls[n].body)

\* What is said of bodies holds of the commits as well.
HeadsUndeclined ==
  \A m, n \in DOMAIN pulls :
    m < n /\ pulls[m].state = "closed" /\ pulls[m].body = pushes[pulls[n].head]
    => pulls[m].body = Cancelled

CreatesItsPush == job.phase = "create" => tip = 0 \/ pushes[tip] = job.plan

DInv ==
  DeclinesFit /\ RacesAreKnown /\ ClosedAreDeclined /\ HeadsUndeclined /\ CreatesItsPush

LEMMA InitDInv == Init => DInv
<1> SUFFICES ASSUME Init PROVE DInv
  OBVIOUS
<1>1. pulls = << >> /\ DOMAIN pulls = {} /\ declines = {}
      /\ job.phase = "idle" /\ job.pull = 0
  BY DEF Init, JobInit, NoJob
<1> QED
  BY <1>1 DEF DInv, DeclinesFit, RacesAreKnown, ClosedAreDeclined, HeadsUndeclined,
     CreatesItsPush

\* Where no pull request changes, a run may only let go of one or take an open one.
LEMMA PullsStay ==
  ASSUME Inv, DInv, UNCHANGED <<pulls, pushes, declines>>,
         job'.pull \in {0, job.pull} \cup OpenPulls, CreatesItsPush'
  PROVE  DInv'
<1>1. DeclinesFit'
  <2> SUFFICES ASSUME NEW d \in declines, ~d.racing PROVE job'.pull # d.pull
    BY DEF DInv, DeclinesFit
  <2>1. d.pull \in DOMAIN pulls /\ pulls[d.pull].state = "closed" /\ job.pull # d.pull
    BY DEF DInv, DeclinesFit
  <2>2. DOMAIN pulls = 1 .. Len(pulls) /\ Len(pulls) \in Nat
    BY DEF Inv, Types
  <2> QED
    BY <2>1, <2>2 DEF OpenPulls
<1>2. RacesAreKnown'
  BY DEF DInv, RacesAreKnown, OpenPulls
<1> QED
  BY <1>1, <1>2 DEF DInv, ClosedAreDeclined, HeadsUndeclined

\* A run rewrites the pull request it works on.
LEMMA BodyChanges ==
  ASSUME Inv, DInv, job.phase \in {"withdraw", "edit"}, NEW plan \in Plans,
         pulls' = [pulls EXCEPT ![job.pull].body = plan],
         UNCHANGED <<pushes, declines>>,
         job'.pull \in {0, job.pull}, job'.phase # "create"
  PROVE  DInv'
<1> DEFINE k == job.pull
<1>1. /\ k \in DOMAIN pulls /\ pulls \in Seq(Pull) /\ k = Len(pulls) /\ pulls[k] \in Pull
      /\ DOMAIN pulls = 1 .. Len(pulls) /\ Len(pulls) \in Nat
  BY DEF Inv, Types, WorksOnNewest
<1>2. /\ DOMAIN pulls' = DOMAIN pulls
      /\ \A n \in DOMAIN pulls :
           pulls'[n].state = pulls[n].state /\ pulls'[n].head = pulls[n].head
      /\ \A n \in DOMAIN pulls : n # k => pulls'[n].body = pulls[n].body
  BY <1>1 DEF Pull
<1>3. DeclinesFit'
  <2> SUFFICES ASSUME NEW d \in declines
               PROVE  /\ d.pull \in DOMAIN pulls /\ pulls'[d.pull].state = "closed"
                      /\ ~d.racing => pulls'[d.pull].body = d.plan /\ job'.pull # d.pull
    BY <1>2 DEF DInv, DeclinesFit
  <2>1. /\ d.pull \in DOMAIN pulls /\ pulls[d.pull].state = "closed"
        /\ ~d.racing => pulls[d.pull].body = d.plan /\ k # d.pull
    BY DEF DInv, DeclinesFit
  <2> QED
    BY <1>1, <1>2, <2>1
<1>4. RacesAreKnown'
  <2> SUFFICES ASSUME job'.pull # 0, pulls'[job'.pull].state = "closed"
               PROVE  \E d \in declines : d.pull = job'.pull /\ d.racing
    BY DEF RacesAreKnown
  <2>1. job'.pull = k /\ pulls[k].state = "closed"
    BY <1>1, <1>2
  <2> QED
    BY <2>1 DEF DInv, RacesAreKnown
<1>5. ClosedAreDeclined'
  <2> SUFFICES ASSUME NEW n \in DOMAIN pulls, pulls'[n].state = "closed",
                      pulls'[n].body # Cancelled
               PROVE  \E d \in declines : d.pull = n /\ (d.racing \/ d.plan = pulls'[n].body)
    BY <1>2 DEF ClosedAreDeclined
  <2>1. CASE n = k
    <3>1. k # 0 /\ pulls[k].state = "closed"
      BY <1>1, <1>2, <2>1
    <3> QED
      BY <2>1, <3>1 DEF DInv, RacesAreKnown
  <2>2. CASE n # k
    BY <1>2, <2>2 DEF DInv, ClosedAreDeclined
  <2> QED
    BY <2>1, <2>2
<1>6. HeadsUndeclined'
  <2> SUFFICES ASSUME NEW m \in DOMAIN pulls, NEW n \in DOMAIN pulls, m < n,
                      pulls'[m].state = "closed",
                      pulls'[m].body = pushes[pulls'[n].head]
               PROVE  pulls'[m].body = Cancelled
    BY <1>2 DEF HeadsUndeclined
  <2>1. m # k
    BY <1>1
  <2> QED
    BY <1>2, <2>1 DEF DInv, HeadsUndeclined
<1>7. CreatesItsPush'
  BY DEF CreatesItsPush
<1> QED
  BY <1>3, <1>4, <1>5, <1>6, <1>7 DEF DInv

\* The newest pull request is closed or merged.
LEMMA StateChanges ==
  ASSUME Inv, DInv, NEW k \in OpenPulls, NEW result \in {"closed", "merged"},
         pulls' = [pulls EXCEPT ![k].state = result],
         UNCHANGED pushes, declines \subseteq declines', DeclinesFit', RacesAreKnown',
         CreatesItsPush',
         result = "closed" /\ pulls[k].body # Cancelled =>
           \E d \in declines' : d.pull = k /\ (d.racing \/ d.plan = pulls[k].body)
  PROVE  DInv'
<1>1. /\ k \in DOMAIN pulls /\ pulls \in Seq(Pull) /\ k = Len(pulls) /\ pulls[k] \in Pull
      /\ DOMAIN pulls = 1 .. Len(pulls) /\ Len(pulls) \in Nat
  BY DEF Inv, Types, OpenIsNewest, OpenPulls
<1>2. /\ DOMAIN pulls' = DOMAIN pulls /\ pulls'[k].state = result
      /\ \A n \in DOMAIN pulls :
           pulls'[n].body = pulls[n].body /\ pulls'[n].head = pulls[n].head
      /\ \A n \in DOMAIN pulls : n # k => pulls'[n].state = pulls[n].state
  BY <1>1 DEF Pull
<1>3. ClosedAreDeclined'
  <2> SUFFICES ASSUME NEW n \in DOMAIN pulls, pulls'[n].state = "closed",
                      pulls[n].body # Cancelled
               PROVE  \E d \in declines' : d.pull = n /\ (d.racing \/ d.plan = pulls[n].body)
    BY <1>2 DEF ClosedAreDeclined
  <2>1. CASE n = k
    BY <1>2, <2>1
  <2>2. CASE n # k
    BY <1>2, <2>2 DEF DInv, ClosedAreDeclined
  <2> QED
    BY <2>1, <2>2
<1>4. HeadsUndeclined'
  <2> SUFFICES ASSUME NEW m \in DOMAIN pulls, NEW n \in DOMAIN pulls, m < n,
                      pulls'[m].state = "closed", pulls[m].body = pushes[pulls[n].head]
               PROVE  pulls[m].body = Cancelled
    BY <1>2 DEF HeadsUndeclined
  <2>1. m # k
    BY <1>1
  <2> QED
    BY <1>2, <2>1 DEF DInv, HeadsUndeclined
<1> QED
  BY <1>3, <1>4 DEF DInv

LEMMA CloseDInv == ASSUME Inv, DInv, Close PROVE DInv'
<1>1. /\ job.pull \in DOMAIN pulls /\ job.pull = Len(pulls) /\ pulls[job.pull].body = Cancelled
      /\ pulls \in Seq(Pull) /\ pulls[job.pull] \in Pull
  BY DEF Close, Inv, Types, WorksOnNewest, MarkedBeforeClosed
<1>2. job'.pull = 0 /\ job'.phase = "idle" /\ UNCHANGED <<pushes, declines>>
  BY DEF Close, NoJob, world
<1>3. CreatesItsPush' /\ RacesAreKnown'
  BY <1>2 DEF CreatesItsPush, RacesAreKnown
<1>4. CASE pulls[job.pull].state = "open"
  <2>1. pulls' = [pulls EXCEPT ![job.pull].state = "closed"] /\ job.pull \in OpenPulls
    BY <1>1, <1>4 DEF Close, OpenPulls
  <2>2. DeclinesFit'
    <3> SUFFICES ASSUME NEW d \in declines
                 PROVE  /\ d.pull \in DOMAIN pulls' /\ pulls'[d.pull].state = "closed"
                        /\ ~d.racing => pulls'[d.pull].body = d.plan /\ job'.pull # d.pull
      BY <1>2 DEF DInv, DeclinesFit
    <3>1. /\ d.pull \in DOMAIN pulls /\ pulls[d.pull].state = "closed"
          /\ ~d.racing => pulls[d.pull].body = d.plan
      BY DEF DInv, DeclinesFit
    <3>2. d.pull # job.pull /\ d.pull # 0
      BY <1>1, <1>4, <3>1
    <3> QED
      BY <1>1, <1>2, <2>1, <3>1, <3>2
  <2> QED
    BY <1>1, <1>2, <1>3, <2>1, <2>2, StateChanges
<1>5. CASE pulls[job.pull].state # "open"
  <2>1. pulls' = pulls
    BY <1>5 DEF Close
  <2> QED
    BY <1>2, <1>3, <2>1, PullsStay
<1> QED
  BY <1>4, <1>5

LEMMA OwnerMergesDInv ==
  ASSUME Inv, DInv, NEW n \in DOMAIN pulls, OwnerMerges(n) PROVE DInv'
<1>1. /\ n \in OpenPulls /\ pulls' = [pulls EXCEPT ![n].state = "merged"]
      /\ UNCHANGED <<tip, pushes, declines>>
  BY DEF OwnerMerges
<1>2. UNCHANGED <<job.phase, job.plan, job.pull>>
  <2>1. MainMoves(FALSE)
    BY DEF OwnerMerges, PolicyBecomes
  <2> QED
    BY <2>1, MainMovesJob
<1>3. pulls \in Seq(Pull) /\ pulls[n] \in Pull /\ pulls[n].state = "open"
      /\ job.pull \in {0} \cup DOMAIN pulls
  BY <1>1 DEF Inv, Types, OpenPulls
<1>4. /\ DOMAIN pulls' = DOMAIN pulls /\ pulls'[n].state = "merged"
      /\ \A m \in DOMAIN pulls : m # n => pulls'[m] = pulls[m]
  BY <1>1, <1>3 DEF Pull
<1>5. DeclinesFit'
  BY <1>1, <1>2, <1>3, <1>4 DEF DInv, DeclinesFit
<1>6. RacesAreKnown'
  BY <1>1, <1>2, <1>3, <1>4 DEF DInv, RacesAreKnown
<1>7. CreatesItsPush'
  BY <1>1, <1>2 DEF DInv, CreatesItsPush
<1> QED
  BY <1>1, <1>5, <1>6, <1>7, StateChanges

\* The record of a decline is what makes the pull request's closing one.
LEMMA OwnerClosesDInv ==
  ASSUME Inv, DInv, NEW n \in DOMAIN pulls, OwnerCloses(n) PROVE DInv'
<1> DEFINE r == [pull |-> n, plan |-> pulls[n].body, racing |-> job.pull = n]
<1>1. /\ n \in OpenPulls /\ pulls' = [pulls EXCEPT ![n].state = "closed"]
      /\ UNCHANGED <<tip, pushes, job>>
  BY DEF OwnerCloses
<1>2. declines' = IF pulls[n].body = Cancelled /\ ~(job.pull = n) THEN declines
                  ELSE declines \cup {r}
  BY DEF OwnerCloses
<1>3. pulls \in Seq(Pull) /\ pulls[n] \in Pull /\ pulls[n].state = "open" /\ n \in Nat
      /\ job.pull \in {0} \cup DOMAIN pulls
  BY <1>1 DEF Inv, Types, OpenPulls
<1>4. /\ DOMAIN pulls' = DOMAIN pulls /\ pulls'[n].state = "closed"
      /\ pulls'[n].body = pulls[n].body
      /\ \A m \in DOMAIN pulls : m # n => pulls'[m] = pulls[m]
  BY <1>1, <1>3 DEF Pull
<1>5. r \in Decline /\ r.pull = n /\ r.plan = pulls[n].body /\ r.racing = (job.pull = n)
  BY <1>3 DEF Decline, Pull
<1> HIDE DEF r
<1>6. DeclinesFit'
  <2>1. declines' \in SUBSET Decline
    BY <1>2, <1>5 DEF DInv, DeclinesFit
  <2>2. ASSUME NEW d \in declines'
        PROVE  /\ d.pull \in DOMAIN pulls /\ pulls'[d.pull].state = "closed"
               /\ ~d.racing => pulls'[d.pull].body = d.plan /\ job.pull # d.pull
    <3>1. CASE d = r
      BY <1>3, <1>4, <1>5, <3>1
    <3>2. CASE d \in declines
      <4>1. /\ d.pull \in DOMAIN pulls /\ pulls[d.pull].state = "closed"
            /\ ~d.racing => pulls[d.pull].body = d.plan /\ job.pull # d.pull
        BY <3>2 DEF DInv, DeclinesFit
      <4>2. d.pull # n
        BY <1>3, <4>1
      <4> QED
        BY <1>4, <4>1, <4>2
    <3> QED
      BY <1>2, <3>1, <3>2
  <2> QED
    BY <1>1, <1>4, <2>1, <2>2 DEF DeclinesFit
<1>7. RacesAreKnown'
  <2> SUFFICES ASSUME job.pull # 0, pulls'[job.pull].state = "closed"
               PROVE  \E d \in declines' : d.pull = job.pull /\ d.racing
    BY <1>1 DEF RacesAreKnown
  <2>1. CASE job.pull = n
    <3>1. r \in declines'
      BY <1>2, <2>1
    <3> QED
      BY <1>5, <2>1, <3>1
  <2>2. CASE job.pull # n
    <3>1. pulls[job.pull].state = "closed"
      BY <1>3, <1>4, <2>2
    <3> QED
      BY <1>2, <3>1 DEF DInv, RacesAreKnown
  <2> QED
    BY <2>1, <2>2
<1>8. CreatesItsPush'
  BY <1>1 DEF DInv, CreatesItsPush
<1>9. pulls[n].body # Cancelled =>
        \E d \in declines' : d.pull = n /\ (d.racing \/ d.plan = pulls[n].body)
  BY <1>2, <1>5
<1>10. declines \subseteq declines'
  BY <1>2
<1> QED
  BY <1>1, <1>6, <1>7, <1>8, <1>9, <1>10, StateChanges

\* The open pull request follows the push, whose plan was not declined.
LEMMA PushDInv == ASSUME Inv, DInv, Push PROVE DInv'
<1>0. UNCHANGED declines /\ job.phase = "push"
  BY DEF Push, world
<1>1. CASE tip # job.tip \/ Len(pushes) = MaxPushes
  <2>1. UNCHANGED <<pushes, pulls, declines>> /\ job'.pull = 0 /\ job'.phase = "idle"
    BY <1>0, <1>1 DEF Push, NoJob, forge
  <2> QED
    BY <2>1, PullsStay DEF CreatesItsPush
<1>2. CASE ~(tip # job.tip \/ Len(pushes) = MaxPushes)
  <2>1. /\ pushes' = Append(pushes, job.plan) /\ tip' = Len(pushes) + 1
        /\ pulls' = [n \in DOMAIN pulls |->
                       IF n \in OpenPulls THEN [pulls[n] EXCEPT !.head = tip'] ELSE pulls[n]]
        /\ job'.pull = job.pull /\ job'.plan = job.plan
    BY <1>2 DEF Push, NoJob
  <2>2. /\ pushes \in Seq(Plans) /\ Len(pushes) \in Nat /\ pulls \in Seq(Pull)
        /\ job.plan \in Plans /\ DOMAIN pushes = 1 .. Len(pushes)
    BY DEF Inv, Types, Job
  <2>3. /\ pushes'[Len(pushes) + 1] = job.plan
        /\ \A i \in DOMAIN pushes : pushes'[i] = pushes[i]
    BY <2>1, <2>2
  <2>4. /\ DOMAIN pulls' = DOMAIN pulls
        /\ \A n \in DOMAIN pulls :
             /\ pulls'[n].state = pulls[n].state /\ pulls'[n].body = pulls[n].body
             /\ pulls'[n].head = IF n \in OpenPulls THEN tip' ELSE pulls[n].head
    <3>1. DOMAIN pulls' = DOMAIN pulls
      BY <2>1
    <3>2. ASSUME NEW n \in DOMAIN pulls
          PROVE  /\ pulls'[n].state = pulls[n].state /\ pulls'[n].body = pulls[n].body
                 /\ pulls'[n].head = IF n \in OpenPulls THEN tip' ELSE pulls[n].head
      <4>1. pulls[n] \in Pull
        BY <2>2
      <4>2. pulls'[n] = IF n \in OpenPulls THEN [pulls[n] EXCEPT !.head = tip'] ELSE pulls[n]
        BY <2>1
      <4> QED
        BY <4>1, <4>2 DEF Pull
    <3> QED
      BY <3>1, <3>2
  <2>5. DeclinesFit' /\ ClosedAreDeclined'
    BY <1>0, <2>1, <2>4 DEF DInv, DeclinesFit, ClosedAreDeclined
  <2>6. RacesAreKnown'
    <3>1. job.pull \in {0} \cup DOMAIN pulls
      BY DEF Inv, Types
    <3> QED
      BY <1>0, <2>1, <2>4, <3>1 DEF DInv, RacesAreKnown
  <2>7. CreatesItsPush'
    BY <2>1, <2>3 DEF CreatesItsPush
  <2>8. HeadsUndeclined'
    <3> SUFFICES ASSUME NEW m \in DOMAIN pulls, NEW n \in DOMAIN pulls, m < n,
                        pulls[m].state = "closed",
                        pulls[m].body = pushes'[pulls'[n].head]
                 PROVE  pulls[m].body = Cancelled
      BY <2>4 DEF HeadsUndeclined
    <3>1. CASE n \in OpenPulls
      <4>1. pulls[m].body = job.plan
        BY <2>1, <2>3, <2>4, <3>1
      <4>2. n = Len(pulls) /\ job.pull \in {0, Len(pulls)} /\ DOMAIN pulls = 1 .. Len(pulls)
        BY <1>0, <3>1 DEF Inv, OpenIsNewest, WorksOnNewest, Types
      <4>3. m # job.pull
        BY <4>2
      <4> QED
        BY <1>0, <4>1, <4>3 DEF Inv, Undeclined
    <3>2. CASE n \notin OpenPulls
      <4>1. pulls'[n].head = pulls[n].head /\ pulls[n].head \in DOMAIN pushes
        BY <2>4, <3>2 DEF Inv, Types
      <4> QED
        BY <2>3, <4>1 DEF DInv, HeadsUndeclined
    <3> QED
      BY <3>1, <3>2
  <2> QED
    BY <2>5, <2>6, <2>7, <2>8 DEF DInv
<1> QED
  BY <1>1, <1>2

\* A new pull request is at the commit of its plan, if the branch is still there.
LEMMA CreateDInv == ASSUME Inv, DInv, Create PROVE DInv'
<1>1. /\ job.phase = "create" /\ job'.pull = 0 /\ job'.phase = "idle"
      /\ UNCHANGED <<pushes, tip, declines>>
  BY DEF Create, NoJob, world
<1>2. CASE tip = 0
  <2>1. pulls' = pulls
    BY <1>2 DEF Create
  <2> QED
    BY <1>1, <2>1, PullsStay DEF CreatesItsPush
<1>3. CASE tip # 0
  <2> DEFINE p == [state |-> "open", head |-> tip, body |-> job.plan]
             last == Len(pulls) + 1
  <2>1. /\ pulls \in Seq(Pull) /\ Len(pulls) \in Nat /\ DOMAIN pulls = 1 .. Len(pulls)
        /\ job.pull = 0
    BY <1>1 DEF Inv, Types, WorksOnNewest
  <2>2. p \in Pull
    BY DEF Inv, Types, Pull, Job
  <2>3. pulls' = Append(pulls, p)
    BY <1>3 DEF Create
  <2>4. p.state = "open" /\ p.head = tip
    OBVIOUS
  <2> HIDE DEF p
  <2>5. /\ DOMAIN pulls' = 1 .. last /\ pulls'[last] = p
        /\ \A n \in DOMAIN pulls : pulls'[n] = pulls[n]
    BY <2>1, <2>2, <2>3
  <2>6. DeclinesFit'
    <3> SUFFICES ASSUME NEW d \in declines
                 PROVE  /\ d.pull \in DOMAIN pulls' /\ pulls'[d.pull].state = "closed"
                        /\ ~d.racing => pulls'[d.pull].body = d.plan /\ job'.pull # d.pull
      BY <1>1 DEF DInv, DeclinesFit
    <3>1. /\ d.pull \in DOMAIN pulls /\ pulls[d.pull].state = "closed"
          /\ ~d.racing => pulls[d.pull].body = d.plan
      BY DEF DInv, DeclinesFit
    <3> QED
      BY <1>1, <2>1, <2>5, <3>1
  <2>7. RacesAreKnown' /\ CreatesItsPush'
    BY <1>1 DEF RacesAreKnown, CreatesItsPush
  <2>8. ClosedAreDeclined'
    <3> SUFFICES ASSUME NEW n \in DOMAIN pulls', pulls'[n].state = "closed",
                        pulls'[n].body # Cancelled
                 PROVE  \E d \in declines :
                          d.pull = n /\ (d.racing \/ d.plan = pulls'[n].body)
      BY <1>1 DEF ClosedAreDeclined
    <3>1. n \in DOMAIN pulls
      BY <2>1, <2>4, <2>5
    <3> QED
      BY <2>5, <3>1 DEF DInv, ClosedAreDeclined
  <2>9. HeadsUndeclined'
    <3> SUFFICES ASSUME NEW m \in DOMAIN pulls', NEW n \in DOMAIN pulls', m < n,
                        pulls'[m].state = "closed",
                        pulls'[m].body = pushes[pulls'[n].head]
                 PROVE  pulls'[m].body = Cancelled
      BY <1>1 DEF HeadsUndeclined
    <3>1. m \in DOMAIN pulls /\ pulls'[m] = pulls[m] /\ m # job.pull
      BY <2>1, <2>5
    <3>2. CASE n \in DOMAIN pulls
      BY <2>5, <3>1, <3>2 DEF DInv, HeadsUndeclined
    <3>3. CASE n = last
      <4>1. pulls[m].body = pushes[tip]
        BY <2>4, <2>5, <3>1, <3>3
      <4>2. pushes[tip] = job.plan
        BY <1>1, <1>3 DEF DInv, CreatesItsPush
      <4> QED
        BY <1>1, <3>1, <4>1, <4>2 DEF Inv, Undeclined
    <3> QED
      BY <2>1, <2>5, <3>2, <3>3
  <2> QED
    BY <2>6, <2>7, <2>8, <2>9 DEF DInv
<1> QED
  BY <1>2, <1>3

LEMMA StepDInv == ASSUME Inv, DInv, [Next]_vars PROVE DInv'
<1>1. ASSUME BuildPlan \/ Abort PROVE DInv'
  <2>1. UNCHANGED <<pulls, pushes, declines>>
    BY <1>1 DEF BuildPlan, Abort, world, forge
  <2>2. job'.pull = 0 /\ job'.phase \in {"idle", "decide"}
    <3>1. ASSUME BuildPlan PROVE job'.pull = 0 /\ job'.phase \in {"idle", "decide"}
      <4>1. CASE Ambiguous
        BY <3>1, <4>1 DEF BuildPlan, NoJob
      <4>2. CASE ~Ambiguous
        BY <3>1, <4>2 DEF BuildPlan, NoJob
      <4> QED
        BY <4>1, <4>2
    <3>2. ASSUME Abort PROVE job'.pull = 0 /\ job'.phase \in {"idle", "decide"}
      BY <3>2 DEF Abort, NoJob
    <3> QED
      BY <1>1, <3>1, <3>2
  <2> QED
    BY <2>1, <2>2, PullsStay DEF CreatesItsPush
<1>2. ASSUME Decide PROVE DInv'
  <2> DEFINE next == IF Len(pulls) > MaxHistory THEN "idle"
                     ELSE Decision(job.plan, job.ready, OpenPulls)
             newest == IF OpenPulls = {} THEN 0 ELSE CHOOSE n \in OpenPulls : TRUE
  <2>1. job' = IF next = "idle" THEN NoJob
               ELSE [NoJob EXCEPT !.phase = next, !.plan = job.plan, !.base = job.base,
                                  !.tip = tip, !.pull = newest]
    BY <1>2 DEF Decide
  <2>2. newest \in {0} \cup OpenPulls /\ next # "create"
    BY DEF Decision
  <2> HIDE DEF next, newest
  <2>3. job'.pull \in {0} \cup OpenPulls /\ job'.phase # "create"
    BY <2>1, <2>2 DEF NoJob
  <2>4. UNCHANGED <<pulls, pushes, declines>>
    BY <1>2 DEF Decide, world, forge
  <2> QED
    BY <2>3, <2>4, PullsStay DEF CreatesItsPush
<1>3. ASSUME Withdraw PROVE DInv'
  <2>1. /\ job.phase = "withdraw" /\ job'.pull = job.pull /\ job'.phase = "close"
        /\ pulls' = [pulls EXCEPT ![job.pull].body = Cancelled]
        /\ UNCHANGED <<pushes, declines>>
    BY <1>3 DEF Withdraw, NoJob, world
  <2>2. Cancelled \in Plans
    BY DEF Cancelled, Plans
  <2> QED
    BY <2>1, <2>2, BodyChanges
<1>4. ASSUME Edit PROVE DInv'
  <2>1. /\ job.phase = "edit" /\ job'.pull = 0 /\ job'.phase = "idle"
        /\ pulls' = [pulls EXCEPT ![job.pull].body = job.plan]
        /\ UNCHANGED <<pushes, declines>>
    BY <1>4 DEF Edit, NoJob, world
  <2>2. job.plan \in Plans
    BY DEF Inv, Types, Job
  <2> QED
    BY <2>1, <2>2, BodyChanges
<1>5. ASSUME (\E c \in Concerns : OwnerDecides(c)) \/ BecomesCalm \/ UNCHANGED vars
      PROVE  DInv'
  <2>1. UNCHANGED <<pulls, pushes, declines, tip, job>>
    BY <1>5 DEF OwnerDecides, BecomesCalm, vars, world, forge
  <2> QED
    BY <2>1, PullsStay DEF DInv, CreatesItsPush
<1>6. ASSUME OwnerEditsPolicy \/ IntentChanges \/ ReportMerged PROVE DInv'
  <2>1. UNCHANGED <<pulls, pushes, declines, tip>>
    BY <1>6 DEF OwnerEditsPolicy, IntentChanges, ReportMerged
  <2>2. UNCHANGED <<job.phase, job.plan, job.pull>>
    <3>1. MainMoves(TRUE) \/ MainMoves(FALSE)
      BY <1>6 DEF OwnerEditsPolicy, IntentChanges, ReportMerged, PolicyBecomes
    <3> QED
      BY <3>1, MainMovesJob
  <2> QED
    BY <2>1, <2>2, PullsStay DEF DInv, CreatesItsPush
<1>7. ASSUME BranchDeleted PROVE DInv'
  <2>1. UNCHANGED <<pulls, pushes, declines, job>> /\ tip' = 0
    BY <1>7 DEF BranchDeleted, world
  <2> QED
    BY <2>1, PullsStay DEF CreatesItsPush
<1>8. ASSUME NEW n \in DOMAIN pulls, OwnerMerges(n) \/ OwnerCloses(n) PROVE DInv'
  BY <1>8, OwnerMergesDInv, OwnerClosesDInv
<1> QED
  BY <1>1, <1>2, <1>3, <1>4, <1>5, <1>6, <1>7, <1>8, CloseDInv, PushDInv, CreateDInv
     DEF Next, Step, World

-----------------------------------------------------------------------------
(***************************************************************************)
(* The theorems.                                                            *)
(***************************************************************************)

LEMMA InvTypeOK == Inv /\ DInv => TypeOK
<1> SUFFICES ASSUME Inv, DInv PROVE TypeOK
  OBVIOUS
<1>1. OpenPulls \subseteq {Len(pulls)}
  BY DEF Inv, OpenIsNewest
<1>2. IsFiniteSet({Len(pulls)}) /\ Cardinality({Len(pulls)}) = 1
  BY FS_Singleton
<1>3. OpenPulls \in SUBSET {Len(pulls)}
  BY <1>1
<1>4. Cardinality(OpenPulls) <= 1
  BY <1>2, <1>3, FS_Subset
<1>5. declines \in SUBSET Decline /\ \A d \in declines : d.pull \in DOMAIN pulls
  BY DEF DInv, DeclinesFit
<1> QED
  BY <1>4, <1>5 DEF Inv, Types, TypeOK

\* Every variable has its type, and at most one pull request of the branch is open,
\* at the branch's tip.
THEOREM FeedbackTypeOK == Spec => []TypeOK
<1>1. Inv /\ DInv => TypeOK
  BY InvTypeOK
<1> QED
  BY <1>1, InitInv, StepInv, InitDInv, StepDInv, PTL DEF Spec

\* What the owner closed a proposal with is proposed by no later one, in its body or
\* in its commit, wherever runs are killed and whenever the owner, the issues and main
\* move; unless the run that was rewriting the proposal wrote over it.
THEOREM DeclinedPlansStayDeclined == Spec => []DeclinedStaysDeclined
<1>1. Inv /\ DInv => DeclinedStaysDeclined
  <2> SUFFICES ASSUME Inv, DInv, NEW d \in declines, d.plan # Cancelled, ~Overwritten(d),
                      NEW n \in DOMAIN pulls, n > d.pull, Proposes(n, d.plan)
               PROVE  FALSE
    BY DEF DeclinedStaysDeclined
  <2>1. d.pull \in DOMAIN pulls /\ pulls[d.pull].state = "closed"
        /\ pulls[d.pull].body = d.plan
    BY DEF DInv, DeclinesFit, Overwritten
  <2>2. DOMAIN pulls = 1 .. Len(pulls) /\ d.pull < n
    BY <2>1 DEF Inv, Types
  <2>3. CASE d.plan = pulls[n].body
    BY <2>1, <2>2, <2>3 DEF Inv, ClosedPlansStayClosed
  <2>4. CASE d.plan = pushes[pulls[n].head]
    BY <2>1, <2>2, <2>4 DEF DInv, HeadsUndeclined
  <2> QED
    BY <2>3, <2>4 DEF Proposes
<1> QED
  BY <1>1, InitInv, StepInv, InitDInv, StepDInv, PTL DEF Spec

\* A withdrawal is never read as the owner's decline of a plan.
THEOREM WithdrawalsDeclineNothing == Spec => WithdrawingDeclinesNothing
<1>1. Inv /\ [Next]_vars =>
        [job.phase = "close" =>
           \A plan \in Plans \ {Cancelled} : Declined(plan)' => Declined(plan)]_vars
  <2> SUFFICES ASSUME Inv, [Next]_vars, job.phase = "close",
                      NEW plan \in Plans \ {Cancelled}, Declined(plan)'
               PROVE  Declined(plan)
    OBVIOUS
  <2>1. job.pull \in DOMAIN pulls /\ pulls \in Seq(Pull) /\ job.pull = Len(pulls)
        /\ pulls[job.pull].body = Cancelled
    BY DEF Inv, Types, WorksOnNewest, MarkedBeforeClosed
  <2>2. /\ DOMAIN pulls' = DOMAIN pulls
        /\ \A n \in DOMAIN pulls : n # job.pull => pulls'[n] = pulls[n]
        /\ pulls'[job.pull].body = Cancelled
    <3>1. CASE UNCHANGED pulls
      BY <2>1, <3>1
    <3>2. ASSUME NEW k \in OpenPulls, NEW state, pulls' = [pulls EXCEPT ![k].state = state]
          PROVE  /\ DOMAIN pulls' = DOMAIN pulls
                 /\ \A n \in DOMAIN pulls : n # job.pull => pulls'[n] = pulls[n]
                 /\ pulls'[job.pull].body = Cancelled
      <4>1. k = job.pull /\ k \in DOMAIN pulls /\ pulls[k] \in Pull
        BY <2>1 DEF Inv, OpenIsNewest, OpenPulls
      <4> QED
        BY <2>1, <3>2, <4>1 DEF Pull
    <3>3. CASE Step
      <4>1. Close
        BY <3>3 DEF Step, BuildPlan, Decide, Withdraw, Push, Edit, Create
      <4>2. CASE job.pull \in OpenPulls
        <5>1. pulls' = [pulls EXCEPT ![job.pull].state = "closed"]
          BY <4>1, <4>2 DEF Close, OpenPulls
        <5> QED
          BY <3>2, <4>2, <5>1
      <4>3. CASE job.pull \notin OpenPulls
        <5>1. UNCHANGED pulls
          BY <2>1, <4>1, <4>3 DEF Close, OpenPulls
        <5> QED
          BY <3>1, <5>1
      <4> QED
        BY <4>2, <4>3
    <3>4. CASE Abort \/ BecomesCalm \/ UNCHANGED vars
      BY <3>1, <3>4 DEF Abort, BecomesCalm, vars, forge
    <3>5. CASE World
      <4>1. CASE \E n \in DOMAIN pulls : OwnerMerges(n)
        BY <3>2, <4>1 DEF OwnerMerges
      <4>2. CASE \E n \in DOMAIN pulls : OwnerCloses(n)
        BY <3>2, <4>2 DEF OwnerCloses
      <4>3. CASE (\E c \in Concerns : OwnerDecides(c)) \/ OwnerEditsPolicy
                 \/ IntentChanges \/ ReportMerged \/ BranchDeleted
        BY <3>1, <4>3 DEF OwnerDecides, OwnerEditsPolicy, IntentChanges, ReportMerged,
           BranchDeleted, forge
      <4> QED
        BY <3>5, <4>1, <4>2, <4>3 DEF World
    <3> QED
      BY <3>3, <3>4, <3>5 DEF Next
  <2>3. PICK n \in DOMAIN pulls :
          /\ pulls'[n].body = plan /\ pulls'[n].state = "closed"
          /\ \A m \in DOMAIN pulls : pulls'[m].body = plan => m <= n
    BY <2>2 DEF Declined
  <2>4. n # job.pull /\ plan # Cancelled
    BY <2>2, <2>3
  <2> QED
    BY <2>1, <2>2, <2>3, <2>4 DEF Declined
<1> QED
  BY <1>1, InitInv, StepInv, PTL DEF Spec, WithdrawingDeclinesNothing

-----------------------------------------------------------------------------
(***************************************************************************)
(* What a run that nothing disturbs comes to.                               *)
(***************************************************************************)

\* In calm, a run still works on what it read: the plan that stands now, the tip its
\* decision saw, and a pull request that is open.
AsDecided ==
  calm =>
    /\ job.phase = "decide" =>
         /\ job.plan = PlanNow /\ job.ready = report.current
         /\ job.reclaims = (base = "head")
    /\ job.phase \in {"withdraw", "close"} => PlanNow = {}
    /\ job.phase \in {"push", "edit", "create"} => job.plan = PlanNow
    /\ job.phase = "push" => job.tip = tip /\ job.pull \in {0} \cup OpenPulls
    /\ job.phase = "edit" => job.pull \in OpenPulls
    /\ job.phase = "create" => tip # 0

RunEnds == job.phase # "idle" /\ job'.phase = "idle"

\* The open pull request of a run's decision is one of the open ones.
LEMMA DecidedPullIsOpen ==
  ASSUME Decide, job'.phase # "idle"
  PROVE  /\ job'.plan = job.plan /\ job'.tip = tip
         /\ job'.phase = Decision(job.plan, job.ready, OpenPulls)
         /\ job'.phase \in {"withdraw", "push"}
         /\ job'.pull \in {0} \cup OpenPulls
<1> DEFINE next == IF Len(pulls) > MaxHistory THEN "idle"
                   ELSE Decision(job.plan, job.ready, OpenPulls)
           newest == IF OpenPulls = {} THEN 0 ELSE CHOOSE n \in OpenPulls : TRUE
<1>1. job' = IF next = "idle" THEN NoJob
             ELSE [NoJob EXCEPT !.phase = next, !.plan = job.plan, !.base = job.base,
                                !.tip = tip, !.pull = newest]
  BY DEF Decide
<1>2. newest \in {0} \cup OpenPulls
  OBVIOUS
<1>3. next = "idle" \/ next = Decision(job.plan, job.ready, OpenPulls)
  OBVIOUS
<1> HIDE DEF next, newest
<1>4. job'.phase = next /\ next # "idle"
      /\ job'.plan = job.plan /\ job'.tip = tip /\ job'.pull = newest
  BY <1>1 DEF NoJob
<1> QED
  BY <1>2, <1>3, <1>4 DEF Decision

LEMMA StepAsDecided == Inv /\ AsDecided /\ [Next]_vars => AsDecided'
<1> SUFFICES ASSUME Inv, AsDecided, [Next]_vars, calm' PROVE AsDecided'
  BY DEF AsDecided
<1>1. CASE BecomesCalm
  <2>1. job'.phase = "idle"
    BY <1>1 DEF BecomesCalm
  <2> QED
    BY <2>1 DEF AsDecided
<1>2. CASE calm /\ UNCHANGED vars
  <2>1. UNCHANGED <<decided, report, tip, base, pulls, job, calm>>
    BY <1>2 DEF vars, world, forge
  <2> QED
    BY <2>1 DEF AsDecided, PlanNow, Active, OpenPulls
<1>3. CASE calm /\ Step
  <2>1. UNCHANGED <<decided, report>> /\ PlanNow' = PlanNow
    <3>1. UNCHANGED <<decided, report>>
      BY <1>3 DEF Step, BuildPlan, Decide, Withdraw, Close, Push, Edit, Create, world
    <3> QED
      BY <3>1 DEF PlanNow, Active
  <2>2. CASE BuildPlan
    <3>1. UNCHANGED <<tip, base, pulls>>
      BY <2>2 DEF BuildPlan, forge
    <3>2. \/ job'.phase = "idle"
          \/ /\ job'.phase = "decide" /\ job'.plan = PlanNow
             /\ job'.ready = report.current /\ job'.reclaims = (base = "head")
      BY <2>2 DEF BuildPlan, NoJob
    <3> QED
      BY <2>1, <3>1, <3>2 DEF AsDecided
  <2>3. CASE Decide
    <3>1. UNCHANGED <<tip, base, pulls>> /\ OpenPulls' = OpenPulls /\ job.phase = "decide"
      BY <2>3 DEF Decide, forge, OpenPulls
    <3>2. job.plan = PlanNow
      BY <1>3, <3>1 DEF AsDecided
    <3>3. CASE job'.phase = "idle"
      BY <3>3 DEF AsDecided
    <3>4. CASE job'.phase # "idle"
      <4>1. /\ job'.plan = job.plan /\ job'.tip = tip
            /\ job'.phase = Decision(job.plan, job.ready, OpenPulls)
            /\ job'.phase \in {"withdraw", "push"}
            /\ job'.pull \in {0} \cup OpenPulls
        BY <2>3, <3>4, DecidedPullIsOpen
      <4>2. job'.phase = "withdraw" => PlanNow = {}
        BY <3>2, <4>1 DEF Decision
      <4> QED
        BY <2>1, <3>1, <3>2, <4>1, <4>2 DEF AsDecided
    <3> QED
      BY <3>3, <3>4
  <2>4. CASE Withdraw
    <3>1. job'.phase = "close" /\ job.phase = "withdraw"
      BY <2>4 DEF Withdraw, NoJob
    <3> QED
      BY <1>3, <2>1, <3>1 DEF AsDecided
  <2>5. CASE Close \/ Edit \/ Create
    <3>1. job'.phase = "idle"
      BY <2>5 DEF Close, Edit, Create, NoJob
    <3> QED
      BY <3>1 DEF AsDecided
  <2>6. CASE Push
    <3>1. job.phase = "push" /\ job.plan = PlanNow /\ job.pull \in {0} \cup OpenPulls
      BY <1>3, <2>6 DEF Push, AsDecided
    <3>2. CASE job'.phase = "idle"
      BY <3>2 DEF AsDecided
    <3>3. CASE job'.phase # "idle"
      <4>1. /\ tip' = Len(pushes) + 1
            /\ pulls' = [n \in DOMAIN pulls |->
                           IF n \in OpenPulls THEN [pulls[n] EXCEPT !.head = tip']
                           ELSE pulls[n]]
            /\ job' = [NoJob EXCEPT !.phase = IF job.pull # 0 THEN "edit" ELSE "create",
                                    !.plan = job.plan, !.pull = job.pull]
        BY <2>6, <3>3 DEF Push, NoJob
      <4>2. tip' # 0
        BY <4>1 DEF Inv, Types
      <4>3. OpenPulls' = OpenPulls
        <5>1. DOMAIN pulls' = DOMAIN pulls
          BY <4>1
        <5>2. \A n \in DOMAIN pulls : pulls'[n].state = pulls[n].state
          <6> TAKE n \in DOMAIN pulls
          <6>1. pulls[n] \in Pull
            BY DEF Inv, Types
          <6> QED
            BY <4>1, <6>1 DEF Pull
        <5> QED
          BY <5>1, <5>2 DEF OpenPulls
      <4>4. /\ job'.phase = IF job.pull # 0 THEN "edit" ELSE "create"
            /\ job'.plan = job.plan /\ job'.pull = job.pull
        BY <4>1 DEF NoJob
      <4> QED
        BY <2>1, <3>1, <4>2, <4>3, <4>4 DEF AsDecided
    <3> QED
      BY <3>2, <3>3
  <2> QED
    BY <1>3, <2>2, <2>3, <2>4, <2>5, <2>6 DEF Step
<1>4. ~calm => BecomesCalm
  <2> SUFFICES ASSUME ~calm PROVE BecomesCalm
    OBVIOUS
  <2>1. calm' # calm
    OBVIOUS
  <2>2. ~(World \/ Abort \/ Step \/ UNCHANGED vars)
    BY <2>1 DEF World, OwnerDecides, OwnerEditsPolicy, IntentChanges, ReportMerged,
       OwnerMerges, OwnerCloses, BranchDeleted, Abort, Step, BuildPlan, Decide, Withdraw,
       Close, Push, Edit, Create, world, vars
  <2> QED
    BY <2>2 DEF Next
<1> QED
  BY <1>1, <1>2, <1>3, <1>4 DEF Next

\* A decision to do nothing about a plan that stands is one for a branch that cannot
\* be told to be the workflow's, or for a plan the owner has or has declined.
LEMMA NothingToDo ==
  ASSUME Inv, DInv, NEW plan \in Plans, job.reclaims = (base = "head"),
         Decision(plan, TRUE, OpenPulls) = "idle"
  PROVE  \/ Stranded
         \/ IF plan = {} THEN OpenPulls = {} ELSE Proposed(plan) \/ Mistaken(plan)
<1>1. CASE plan = {}
  BY <1>1 DEF Decision
<1>2. CASE plan # {}
  <2>1. ~Provable(OpenPulls) \/ AlreadyOpen(plan, OpenPulls) \/ Declined(plan)
    BY <1>2 DEF Decision
  <2>2. CASE ~Provable(OpenPulls)
    <3>1. tip # 0 /\ ~PulledTip
      BY <2>2 DEF Provable
    <3>2. OpenPulls = {}
      <4> SUFFICES ASSUME NEW n \in OpenPulls PROVE FALSE
        OBVIOUS
      <4>1. n = Len(pulls) /\ pulls[n].head = tip /\ n \in DOMAIN pulls
        BY DEF Inv, OpenIsNewest, Types, OpenPulls
      <4> QED
        BY <3>1, <4>1 DEF PulledTip
    <3> QED
      BY <2>2, <3>1, <3>2 DEF Provable, Stranded
  <2>3. CASE Declined(plan)
    <3>1. PICK n \in DOMAIN pulls :
            /\ pulls[n].body = plan /\ pulls[n].state = "closed"
            /\ \A m \in DOMAIN pulls : pulls[m].body = plan => m <= n
      BY <2>3 DEF Declined
    <3>2. PICK d \in declines : d.pull = n /\ (d.racing \/ d.plan = pulls[n].body)
      BY <1>2, <3>1 DEF DInv, ClosedAreDeclined, Cancelled
    <3>3. CASE d.plan = plan
      BY <1>2, <3>1, <3>2, <3>3 DEF Proposed
    <3>4. CASE d.plan # plan
      BY <1>2, <3>1, <3>2, <3>4 DEF Mistaken, Overwritten
    <3> QED
      BY <3>3, <3>4
  <2> QED
    BY <1>2, <2>1, <2>2, <2>3 DEF AlreadyOpen, Proposed
<1> QED
  BY <1>1, <1>2

\* A run that nothing disturbs ends with the plan that stands before the owner, or
\* declined, and with no proposal open when none stands; unless its branch is stranded,
\* a race left a mistaken decline of it or a bound is reached.  This is what DecisionsAreProposed and AllRevokedIsWithdrawn
\* say, apart from that such a run comes and ends.
THEOREM UndisturbedRunsPropose ==
  Spec => [][\A plan \in Plans :
               Settled(plan) /\ RunEnds =>
                 \/ Stranded \/ Exhausted
                 \/ IF plan = {} THEN OpenPulls' = {}
                    ELSE Proposed(plan)' \/ Mistaken(plan)']_vars
<1>1. Init => AsDecided
  BY DEF Init, AsDecided
<1>2. Inv /\ DInv /\ AsDecided /\ [Next]_vars =>
        [\A plan \in Plans :
           Settled(plan) /\ RunEnds =>
             \/ Stranded \/ Exhausted
             \/ IF plan = {} THEN OpenPulls' = {}
                ELSE Proposed(plan)' \/ Mistaken(plan)']_vars
  <2> SUFFICES ASSUME Inv, DInv, AsDecided, [Next]_vars, NEW plan \in Plans,
                      Settled(plan), RunEnds, ~Stranded, ~Exhausted
               PROVE  IF plan = {} THEN OpenPulls' = {}
                      ELSE Proposed(plan)' \/ Mistaken(plan)'
    OBVIOUS
  <2>1. calm /\ report.current /\ PlanNow = plan
    BY DEF Settled
  <2>2. Step
    BY <2>1 DEF RunEnds, Next, vars
  <2>3. CASE Decide
    <3>1. UNCHANGED <<pulls, declines>> /\ job.phase = "decide"
      BY <2>3 DEF Decide, forge, world
    <3>2. job.plan = plan /\ job.ready = TRUE /\ job.reclaims = (base = "head")
      <4>1. job.plan = plan /\ job.ready = report.current /\ job.reclaims = (base = "head")
        BY <2>1, <3>1 DEF AsDecided
      <4>2. report.current \in BOOLEAN
        BY DEF Inv, Types, Report
      <4> QED
        BY <2>1, <4>1, <4>2
    <3>3. Decision(plan, TRUE, OpenPulls) = "idle"
      BY <2>3, <3>2 DEF Decide, RunEnds, Exhausted, NoJob
    <3>4. IF plan = {} THEN OpenPulls = {} ELSE Proposed(plan) \/ Mistaken(plan)
      BY <3>2, <3>3, NothingToDo
    <3> QED
      BY <3>1, <3>4 DEF OpenPulls, Proposed, Mistaken, Overwritten
  <2>4. CASE Close
    <3>1. plan = {}
      BY <2>1, <2>4 DEF Close, AsDecided
    <3>2. job.pull \in DOMAIN pulls /\ pulls \in Seq(Pull) /\ job.pull = Len(pulls)
      BY <2>4 DEF Close, Inv, Types, WorksOnNewest
    <3>3. pulls' = IF pulls[job.pull].state = "open"
                   THEN [pulls EXCEPT ![job.pull].state = "closed"] ELSE pulls
      BY <2>4 DEF Close
    <3>4. /\ DOMAIN pulls' = DOMAIN pulls /\ pulls'[job.pull].state # "open"
          /\ \A n \in DOMAIN pulls : n # job.pull => pulls'[n] = pulls[n]
      <4>1. pulls[job.pull] \in Pull
        BY <3>2
      <4> QED
        BY <3>2, <3>3, <4>1 DEF Pull
    <3>5. OpenPulls' = {}
      BY <3>2, <3>4 DEF OpenPulls, Inv, OpenIsNewest
    <3> QED
      BY <3>1, <3>5
  <2>5. CASE Push
    <3>1. job.phase = "push" /\ tip = job.tip /\ Len(pushes) # MaxPushes
      BY <2>1, <2>5 DEF Push, AsDecided, Exhausted
    <3>2. job' = [NoJob EXCEPT !.phase = IF job.pull # 0 THEN "edit" ELSE "create",
                               !.plan = job.plan, !.pull = job.pull]
      BY <2>5, <3>1 DEF Push
    <3> QED
      BY <3>2 DEF RunEnds, NoJob
  <2>6. CASE Edit
    <3>1. /\ job.plan = plan /\ plan # {} /\ job.pull \in OpenPulls
          /\ pulls' = [pulls EXCEPT ![job.pull].body = job.plan]
      BY <2>1, <2>6 DEF Edit, AsDecided, Inv, Undeclined, Cancelled
    <3>2. job.pull \in DOMAIN pulls /\ pulls[job.pull].state = "open"
          /\ pulls[job.pull] \in Pull
      BY <3>1 DEF OpenPulls, Inv, Types
    <3>3. /\ DOMAIN pulls' = DOMAIN pulls /\ pulls'[job.pull].state = "open"
          /\ pulls'[job.pull].body = plan
      BY <3>1, <3>2 DEF Pull
    <3> QED
      BY <3>1, <3>2, <3>3 DEF Proposed, OpenPulls
  <2>7. CASE Create
    <3>1. /\ job.plan = plan /\ plan # {}
          /\ pulls' = Append(pulls, [state |-> "open", head |-> tip, body |-> plan])
      BY <2>1, <2>7 DEF Create, AsDecided, Inv, Undeclined, Cancelled
    <3>2. pulls \in Seq(Pull)
      BY DEF Inv, Types
    <3>3. /\ Len(pulls) + 1 \in DOMAIN pulls'
          /\ pulls'[Len(pulls) + 1] = [state |-> "open", head |-> tip, body |-> plan]
      BY <3>1, <3>2
    <3> QED
      BY <3>1, <3>3 DEF Proposed, OpenPulls
  <2> QED
    BY <2>2, <2>3, <2>4, <2>5, <2>6, <2>7 DEF Step, BuildPlan, Withdraw, RunEnds, NoJob
<1> QED
  BY <1>1, <1>2, InitInv, StepInv, InitDInv, StepDInv, StepAsDecided, PTL DEF Spec

=============================================================================

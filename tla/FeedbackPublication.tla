-------------------------- MODULE FeedbackPublication --------------------------
(***************************************************************************)
(* How decisions the owner takes on fleet issues become a proposed change  *)
(* of policy.yaml: the daily feedback workflow keeps one branch and at     *)
(* most one open pull request that proposes the decisions standing now.    *)
(* One run at a time; the owner, the fleet issues and main move under it,  *)
(* and a run may die between any two remote commands.                      *)
(*                                                                         *)
(* A decision is a closed, App-authored issue with the wontfix label and   *)
(* exactly one reason: everything else reads as no decision.  Reasons,     *)
(* issue numbers and fingerprints are constant per concern, so a plan is   *)
(* the set of concerns it adds.                                            *)
(***************************************************************************)
EXTENDS Integers, Sequences, FiniteSets

CONSTANTS
  Concerns,     \* the concerns of the findings that are decided on
  Findings,     \* what the fleet may show, a standing for every concern
  MaxPushes,    \* bound on the pushes of one behaviour
  MaxHistory    \* MAX_FEEDBACK_PR_HISTORY

VARIABLES
  decided,    \* the concerns whose fleet issue carries a decision now
  accepted,   \* the trade-offs of policy.yaml on main
  report,     \* the report on main
  pushes,     \* what every commit pushed to advisor/feedback-wontfix adds, oldest first
  tip,        \* the commit the branch is at, 0 when there is no branch
  base,       \* where the parent of that commit is now
  pulls,      \* the pull requests of the branch, by number
  declines,   \* what the owner closed unmerged: the plan a pull request carried then
  job,        \* what the running workflow holds between two commands
  calm        \* whether the last failure and the last change around it are past

world == <<decided, accepted, report, declines, calm>>
forge == <<pushes, tip, base, pulls>>
vars == <<world, forge, job>>

\* What a report says of a concern: no finding the publisher would act on, one
\* deferred because its collector was incomplete, one active, or several active.
Standings == {"absent", "deferred", "one", "several"}

ASSUME ConcernsAssumption == IsFiniteSet(Concerns)
ASSUME FindingsAssumption == Findings \subseteq [Concerns -> Standings]
ASSUME BoundsAssumption == MaxPushes \in Nat /\ MaxHistory \in Nat

Plans == SUBSET Concerns

\* The body of a withdrawn proposal carries the marker of no plan that is proposed.
Cancelled == {}

\* current: made under the policy and the intent catalog that are on main.
Report == [current : BOOLEAN, findings : [Concerns -> Standings]]

\* A report of another policy or intent: whatever it finds, there is no plan for it.
Outdated == [current |-> FALSE, findings |-> [c \in Concerns |-> "absent"]]

\* Where a checkout of main, or the parent of the tip, is now: at the head of
\* main, behind it under the policy of main, or under a policy of before.
Bases == {"head", "behind", "outdated"}

Pull == [state : {"open", "closed", "merged"}, head : Nat, body : Plans]

\* racing: a run had decided by then to rewrite that pull request.
Decline == [pull : Nat, plan : Plans, racing : BOOLEAN]

NoJob == [phase |-> "idle", plan |-> {}, ready |-> FALSE, base |-> "head",
          reclaims |-> FALSE, pull |-> 0, tip |-> 0]

Job == [phase : {"idle", "decide", "withdraw", "close", "push", "edit", "create"},
        plan : Plans, ready : BOOLEAN, base : Bases, reclaims : BOOLEAN,
        pull : Nat, tip : Nat]

OpenPulls == {n \in DOMAIN pulls : pulls[n].state = "open"}

-----------------------------------------------------------------------------
(***************************************************************************)
(* The plan and the decision.                                              *)
(***************************************************************************)

\* The active recommendations the report's issue plan would publish.
Active == {c \in Concerns : report.findings[c] \in {"one", "several"}}

\* A decision must not be widened to a concern with several active findings.
Ambiguous == \E c \in decided : report.findings[c] = "several"

PlanNow == decided \cap Active

\* The newest pull request of the branch is at its tip.
PulledTip == pulls # << >> /\ pulls[Len(pulls)].head = tip

\* The workflow owns a branch its newest pull request is at; without an open one
\* it may reclaim a branch that is one policy-only commit on merged history.
\* Every commit it pushes is one, but its checkout of main has no history: only
\* of the checked-out commit itself can it tell that it was merged.
Provable(open) == tip = 0 \/ PulledTip \/ (open = {} /\ job.reclaims)

\* Names with a suffix are variants a mistake in this code could produce, used to
\* show that the properties notice it.
AlreadyOpen_AnyPlan(plan, open) == tip # 0 /\ open # {}

AlreadyOpen(plan, open) == tip # 0 /\ \E n \in open : pulls[n].body = plan

Declined_Never(plan) == FALSE

\* The newest proposal of this exact plan was closed without merging.
Declined(plan) ==
  \E n \in DOMAIN pulls :
    /\ pulls[n].body = plan /\ pulls[n].state = "closed"
    /\ \A m \in DOMAIN pulls : pulls[m].body = plan => m <= n

Decision_NoWithdrawal(plan, ready, open) ==
  IF ~ready \/ plan = {} \/ ~Provable(open) \/ AlreadyOpen(plan, open) \/ Declined(plan)
  THEN "idle" ELSE "push"

\* decide_feedback_publication: what the run does next, "idle" for nothing.
Decision(plan, ready, open) ==
  IF ~ready THEN "idle"
  ELSE IF plan = {} THEN (IF open = {} THEN "idle" ELSE "withdraw")
  ELSE IF \/ ~Provable(open) \/ AlreadyOpen(plan, open) \/ Declined(plan) THEN "idle"
  ELSE "push"

-----------------------------------------------------------------------------
(***************************************************************************)
(* A run of the workflow.                                                  *)
(***************************************************************************)

JobInit == job = NoJob

\* Check out main, read the issues, build the plan.  An ambiguous one fails the
\* run before it has done anything.
BuildPlan ==
  /\ job.phase = "idle"
  /\ job' = IF Ambiguous THEN NoJob
            ELSE [NoJob EXCEPT !.phase = "decide", !.plan = PlanNow,
                               !.ready = report.current,
                               !.reclaims = base = "head"]
  /\ UNCHANGED <<world, forge>>

\* Read the open pull requests, the history and the branch, and decide.
Decide ==
  /\ job.phase = "decide"
  /\ LET next == IF Len(pulls) > MaxHistory THEN "idle"
                 ELSE Decision(job.plan, job.ready, OpenPulls)
     IN  job' = IF next = "idle" THEN NoJob
                ELSE [NoJob EXCEPT !.phase = next, !.plan = job.plan, !.base = job.base,
                                   !.tip = tip,
                                   !.pull = IF OpenPulls = {} THEN 0
                                              ELSE CHOOSE n \in OpenPulls : TRUE]
  /\ UNCHANGED <<world, forge>>

Withdraw_Unmarked ==
  /\ job.phase = "withdraw"
  /\ job' = [NoJob EXCEPT !.phase = "close", !.pull = job.pull]
  /\ UNCHANGED <<world, forge>>

\* Replace the body of the proposal by the cancellation, whatever became of it.
Withdraw ==
  /\ job.phase = "withdraw"
  /\ pulls' = [pulls EXCEPT ![job.pull].body = Cancelled]
  /\ job' = [NoJob EXCEPT !.phase = "close", !.pull = job.pull]
  /\ UNCHANGED <<world, pushes, tip, base>>

\* gh pr close: a closed one stays closed, a merged one is an error.
Close ==
  /\ job.phase = "close"
  /\ pulls' = IF pulls[job.pull].state = "open"
              THEN [pulls EXCEPT ![job.pull].state = "closed"] ELSE pulls
  /\ job' = NoJob
  /\ UNCHANGED <<world, pushes, tip, base>>

Push_AlwaysCreates ==
  /\ job.phase = "push"
  /\ IF tip # job.tip \/ Len(pushes) = MaxPushes THEN job' = NoJob /\ UNCHANGED forge
     ELSE /\ pushes' = Append(pushes, job.plan)
          /\ tip' = Len(pushes) + 1
          /\ base' = job.base
          /\ UNCHANGED pulls
          /\ job' = [NoJob EXCEPT !.phase = "create", !.plan = job.plan]
  /\ UNCHANGED world

\* Commit the policy and push it over the tip the decision saw; with another tip
\* the lease fails the run, as the bound of the model does.  An open pull request
\* of the branch follows it.
Push ==
  /\ job.phase = "push"
  /\ IF tip # job.tip \/ Len(pushes) = MaxPushes THEN job' = NoJob /\ UNCHANGED forge
     ELSE /\ pushes' = Append(pushes, job.plan)
          /\ tip' = Len(pushes) + 1
          /\ base' = job.base
          /\ pulls' = [n \in DOMAIN pulls |->
                         IF n \in OpenPulls THEN [pulls[n] EXCEPT !.head = tip'] ELSE pulls[n]]
          /\ job' = [NoJob EXCEPT !.phase = IF job.pull # 0 THEN "edit" ELSE "create",
                                   !.plan = job.plan, !.pull = job.pull]
  /\ UNCHANGED world

\* gh pr edit reaches the pull request that was open when the run decided, also
\* when it was closed or merged since.
Edit ==
  /\ job.phase = "edit"
  /\ pulls' = [pulls EXCEPT ![job.pull].body = job.plan]
  /\ job' = NoJob
  /\ UNCHANGED <<world, pushes, tip, base>>

\* gh pr create fails when the branch is gone again.
Create ==
  /\ job.phase = "create"
  /\ pulls' = IF tip = 0 THEN pulls
              ELSE Append(pulls, [state |-> "open", head |-> tip, body |-> job.plan])
  /\ job' = NoJob
  /\ UNCHANGED <<world, pushes, tip, base>>

\* A command fails or the job is killed.
Abort ==
  /\ job.phase # "idle"
  /\ job' = NoJob
  /\ UNCHANGED <<world, forge>>

-----------------------------------------------------------------------------
(***************************************************************************)
(* The world around it.                                                    *)
(***************************************************************************)

\* The owner closes and labels a fleet issue, or reopens or unlabels it.
OwnerDecides(c) ==
  /\ decided' = IF c \in decided THEN decided \ {c} ELSE decided \cup {c}
  /\ UNCHANGED <<accepted, report, declines, calm, forge, job>>

\* Where a place on main is after main has moved, under the same policy or another.
After(place, policyStays) ==
  IF ~policyStays THEN "outdated" ELSE IF place = "head" THEN "behind" ELSE place

\* What was at the head of main is not any more.
MainMoves(policyStays) ==
  /\ base' = IF tip = 0 THEN base ELSE After(base, policyStays)
  /\ job' = IF job.phase \in {"decide", "push"}
            THEN [job EXCEPT !.base = After(@, policyStays)] ELSE job

\* Everything made under the policy of before is out of date.
PolicyBecomes(tradeOffs) ==
  /\ accepted' = tradeOffs
  /\ report' = Outdated
  /\ MainMoves(FALSE)

\* The owner edits policy.yaml, perhaps taking trade-offs back.
OwnerEditsPolicy ==
  /\ \E kept \in SUBSET accepted : PolicyBecomes(kept)
  /\ UNCHANGED <<decided, declines, calm, pushes, tip, pulls>>

IntentChanges ==
  /\ report.current
  /\ report' = Outdated
  /\ MainMoves(TRUE)
  /\ UNCHANGED <<decided, accepted, declines, calm, pushes, tip, pulls>>

\* A report under the policy and intent of main is merged.  What the policy
\* accepts is a trade-off is nothing to act on.
ReportMerged ==
  /\ \E findings \in Findings :
       report' = [current |-> TRUE,
                  findings |-> [c \in Concerns |->
                                  IF c \in accepted THEN "absent" ELSE findings[c]]]
  /\ MainMoves(TRUE)
  /\ UNCHANGED <<decided, accepted, declines, calm, pushes, tip, pulls>>

\* The owner merges a proposal.  Each one rewrites the version line, so git finds
\* a conflict in one that grew from another policy.
OwnerMerges(n) ==
  /\ n \in OpenPulls
  /\ base # "outdated"
  /\ PolicyBecomes(accepted \cup pushes[pulls[n].head])
  /\ pulls' = [pulls EXCEPT ![n].state = "merged"]
  /\ UNCHANGED <<decided, declines, calm, pushes, tip>>

\* Closing without merging is how the owner declines what a proposal carries: nothing,
\* if it was cancelled and no run is about to write on it.
OwnerCloses(n) ==
  /\ n \in OpenPulls
  /\ pulls' = [pulls EXCEPT ![n].state = "closed"]
  /\ LET racing == job.pull = n
     IN  declines' = IF pulls[n].body = Cancelled /\ ~racing THEN declines
                     ELSE declines \cup {[pull |-> n, plan |-> pulls[n].body, racing |-> racing]}
  /\ UNCHANGED <<decided, accepted, report, calm, pushes, tip, base, job>>

BranchDeleted ==
  /\ tip # 0 /\ OpenPulls = {}
  /\ tip' = 0 /\ base' = "head"
  /\ UNCHANGED <<world, pushes, pulls, job>>

\* From here on the owner, the reports and the runners leave the workflow alone.
\* That it is between two runs is no loss: a run under way ends with them done.
BecomesCalm ==
  /\ ~calm /\ job.phase = "idle"
  /\ calm' = TRUE
  /\ UNCHANGED <<decided, accepted, report, declines, forge, job>>

World ==
  \/ \E c \in Concerns : OwnerDecides(c)
  \/ OwnerEditsPolicy \/ IntentChanges \/ ReportMerged
  \/ \E n \in DOMAIN pulls : OwnerMerges(n) \/ OwnerCloses(n)
  \/ BranchDeleted

Step == BuildPlan \/ Decide \/ Withdraw \/ Close \/ Push \/ Edit \/ Create

Init ==
  /\ decided = {} /\ accepted = {}
  /\ report \in [current : {TRUE}, findings : Findings]
  /\ pushes = << >> /\ tip = 0 /\ base = "head" /\ pulls = << >>
  /\ declines = {} /\ JobInit /\ calm = FALSE

Next == Step \/ (~calm /\ (Abort \/ World \/ BecomesCalm))

Spec == Init /\ [][Next]_vars

\* The schedule starts a run every day and a run does its steps.
FairSpec == Spec /\ WF_vars(Step)

-----------------------------------------------------------------------------
\* Every variable has its type; a branch and a pull request are at a commit that
\* was pushed, and at most one pull request of the branch is open, at its tip.
TypeOK ==
  /\ decided \in Plans /\ accepted \in Plans
  /\ report \in Report
  /\ pushes \in Seq(Plans)
  /\ tip \in 0 .. Len(pushes) /\ base \in Bases
  /\ pulls \in Seq(Pull)
  /\ \A n \in DOMAIN pulls : pulls[n].head \in DOMAIN pushes
  /\ Cardinality(OpenPulls) <= 1 /\ \A n \in OpenPulls : pulls[n].head = tip
  /\ declines \in SUBSET Decline /\ \A d \in declines : d.pull \in DOMAIN pulls
  /\ job \in Job /\ calm \in BOOLEAN
  /\ job.pull \in {0} \cup DOMAIN pulls

\* A run that had decided to rewrite the pull request before the owner closed it has
\* written something else over what the owner declined.
Overwritten(d) == d.racing /\ pulls[d.pull].body # d.plan

\* The plan is in the body of the pull request or in the commit it is at.
Proposes(n, plan) == plan \in {pulls[n].body, pushes[pulls[n].head]}

\* feedback.md: closing "declines that exact feedback plan across intervening
\* proposals".  What the owner closed a pull request with is proposed by no later
\* one, whatever runs, failures and merges come in between; except where the very
\* run that was rewriting the pull request wrote over it.
DeclinedStaysDeclined ==
  \A d \in declines :
    d.plan = Cancelled \/ Overwritten(d)
    \/ \A n \in DOMAIN pulls : n > d.pull => ~Proposes(n, d.plan)

\* The sentence without the exception: a run under way replaces the body of a pull
\* request the owner has just closed, and the next one proposes its plan again.
DeclinesStand ==
  \A d \in declines :
    d.plan = Cancelled \/ \A n \in DOMAIN pulls : n > d.pull => ~Proposes(n, d.plan)

\* A proposal the workflow withdraws itself is not read as declined by the owner
\* when the same decisions stand again.
WithdrawingDeclinesNothing ==
  [][job.phase = "close" =>
       \A plan \in Plans \ {Cancelled} : Declined(plan)' => Declined(plan)]_vars

\* The plan every run beginning now makes, once nothing changes any more.
Settled(plan) == calm /\ report.current /\ ~Ambiguous /\ PlanNow = plan

\* A run is at the bound of the model, or at the workflow's own on the history.
Exhausted == \/ job.phase = "push" /\ Len(pushes) = MaxPushes
             \/ Len(pulls) > MaxHistory

\* A run died between its push and its pull request, and main has moved since.
Stranded == tip # 0 /\ OpenPulls = {} /\ ~PulledTip /\ base # "head"

\* The plan is before the owner, or the owner declined it and it was not proposed
\* since.
Proposed(plan) ==
  \/ \E n \in OpenPulls : pulls[n].body = plan
  \/ \E d \in declines :
       d.plan = plan /\ \A n \in DOMAIN pulls : pulls[n].body = plan => n <= d.pull

\* A run wrote the plan on a pull request the owner had just closed with another one:
\* from then on it reads as declined, though the owner never saw it.
Mistaken(plan) == \E d \in declines : Overwritten(d) /\ pulls[d.pull].body = plan

\* Decisions that stand under a current report are put before the owner, whatever
\* came before: failed runs, a push without a pull request, withdrawals and races.
\* Only a stranded branch and a mistaken decline stop the workflow.
DecisionsAreProposed ==
  Settled(PlanNow) /\ PlanNow # {}
    ~> (Proposed(PlanNow) \/ Mistaken(PlanNow) \/ Stranded \/ Exhausted)

\* "If the issue is reopened or either decision label is removed before merge, the
\* workflow withdraws its own stale policy pull request": when no decision stands,
\* no proposal stays open.
AllRevokedIsWithdrawn == Settled({}) ~> (OpenPulls = {} \/ Exhausted)

-----------------------------------------------------------------------------
(***************************************************************************)
(* What the documentation says and the workflow does not do.               *)
(***************************************************************************)

\* feedback.md: "If a push succeeds but pull-request creation fails, the next run
\* can reclaim the reserved" branch by proving it "a single-parent commit from
\* merged history": no branch stops the workflow for good.
EveryDecisionIsProposed ==
  Settled(PlanNow) /\ PlanNow # {}
    ~> (Proposed(PlanNow) \/ Mistaken(PlanNow) \/ Exhausted)

\* "If the issue is reopened or either decision label is removed before merge, the
\* workflow withdraws its own stale policy pull request", said of a single
\* decision: no proposal goes on proposing what was revoked.
RevokedIsWithdrawn ==
  \A plan \in Plans : \A c \in Concerns \ plan :
    Settled(plan) ~> \/ \A n \in OpenPulls : c \notin pushes[pulls[n].head]
                     \/ Exhausted

=============================================================================

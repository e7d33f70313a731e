------------------------------ MODULE AdvisoryRun ------------------------------
(***************************************************************************)
(* The fleet-advisory workflow: one review of the fleet, the publication   *)
(* decision, and the steps that put a changed report before the owner.     *)
(* The workflow's concurrency group runs one review at a time; schedule,   *)
(* push and dispatch can start the next at any moment.  A run is killed by *)
(* a failed command or its timeout between any two steps.                  *)
(***************************************************************************)
EXTENDS ReportRepository

CONSTANT MaxHistory  \* how many closed pull requests a decision may read

VARIABLE run

RunPhases == {"idle", "checkedOut", "reviewed", "publishing", "pushed",
              "listed", "proposed", "watching"}

\* prior, inputs: what the checkout holds; base: the report of main it grew from;
\* pull: the pull request proposed.
NoRun == [phase |-> "idle", prior |-> 0, base |-> 0, inputs |-> AnyInputs,
          material |-> NoMaterial, pull |-> 0]

RunTypeOK ==
  /\ run \in [phase : RunPhases, prior : 0 .. Len(commits), base : 0 .. Len(commits),
              inputs : Inputs, material : Materials \cup {NoMaterial},
              pull : 0 .. Len(pulls)]
  /\ run.phase \notin {"idle", "checkedOut"} => run.material \in Materials
  /\ run.phase \in {"pushed", "listed", "proposed", "watching"} => Len(commits) > 0

RunInit == run = NoRun

Tip == Len(commits)  \* the commit advisory/latest points to

-----------------------------------------------------------------------------
(***************************************************************************)
(* The publication decision.                                               *)
(***************************************************************************)

\* Variants a mistake in this code could produce, used to show that the
\* properties of ReportDelivery notice it.
LatestDecision_AnyAuthor ==
  IF ClosedPulls = {} THEN 0 ELSE Max(ClosedPulls)

\* The newest closed pull request the workflow itself opened.
LatestDecision ==
  LET decided == {n \in ClosedPulls : pulls[n].author = "bot"}
  IN  IF decided = {} THEN 0 ELSE Max(decided)

\* A merged pull request supersedes the declines before it.
RecordsDecline(n, material) ==
  n # 0 /\ pulls[n].state = "closed" /\ pulls[n].signature = material

Decision_SkipsBaseline(material, prior, latest) ==
  IF RecordsDecline(latest, material) THEN "declined" ELSE "changed"

Decision(material, prior, latest) ==
  CASE MaterialOf(prior) = material -> "unchanged"
    [] RecordsDecline(latest, material) -> "declined"
    [] OTHER -> "changed"

-----------------------------------------------------------------------------
(***************************************************************************)
(* The steps of a run.                                                     *)
(***************************************************************************)

CheckOut_DispatchRef ==
  /\ run.phase = "idle"
  /\ run' = [run EXCEPT !.phase = "checkedOut", !.prior = Tip, !.inputs = inputs,
                        !.base = IF Tip = 0 THEN 0 ELSE commits[Tip].base]
  /\ UNCHANGED repository

\* The advisor is checked out at the default branch, whatever ref dispatched it.
CheckOut ==
  /\ run.phase = "idle"
  /\ run' = [run EXCEPT !.phase = "checkedOut", !.prior = Main, !.base = Main,
                        !.inputs = inputs]
  /\ UNCHANGED repository

\* Collect the fleet as it is by then, compare with the prior report, assemble the report and
\* build the prospective issue plan from it.
Review ==
  /\ run.phase = "checkedOut"
  /\ \E found \in Observations :
       run' = [run EXCEPT !.phase = "reviewed",
                          !.material = [inputs |-> run.inputs, observed |-> found]]
  /\ UNCHANGED repository

\* Read the closed history, which fails beyond its bound, and decide.
Decide ==
  /\ run.phase = "reviewed"
  /\ Cardinality(ClosedPulls) <= MaxHistory
  /\ run' = IF Decision(run.material, run.prior, LatestDecision) = "changed"
            THEN [run EXCEPT !.phase = "publishing"]
            ELSE NoRun
  /\ UNCHANGED repository

\* Commit the report on the checked-out main and force-push advisory/latest;
\* an open pull request of the branch moves to the new head at once.
Push ==
  /\ run.phase = "publishing"
  /\ Len(commits) < MaxPushes
  /\ commits' = Append(commits, [material |-> run.material, prior |-> run.prior,
                                 base |-> run.base, quality |-> "none",
                                 statuses |-> FALSE])
  /\ pulls' = [n \in PullNumbers |->
                 IF n \in OpenPulls THEN [pulls[n] EXCEPT !.head = Tip + 1]
                                    ELSE pulls[n]]
  /\ run' = [run EXCEPT !.phase = "pushed"]
  /\ UNCHANGED <<inputs, mainline>>

\* gh pr list --state open: the number of an open pull request, or none.
ListOpen ==
  /\ run.phase = "pushed"
  /\ \E n \in IF OpenPulls = {} THEN {0} ELSE OpenPulls :
       run' = [run EXCEPT !.phase = "listed", !.pull = n]
  /\ UNCHANGED repository

Edit_TitleOnly ==
  /\ run.phase = "listed"
  /\ run.pull # 0
  /\ run' = [run EXCEPT !.phase = "proposed"]
  /\ UNCHANGED repository

\* gh pr edit replaces the whole body, of a pull request closed since as well.
Edit ==
  /\ run.phase = "listed"
  /\ run.pull # 0
  /\ pulls' = [pulls EXCEPT ![run.pull].signature = run.material,
                            ![run.pull].autonomous = TRUE]
  /\ run' = [run EXCEPT !.phase = "proposed"]
  /\ UNCHANGED <<inputs, mainline, commits>>

ComposedBody_Unsigned ==
  [author |-> "bot", state |-> "open", head |-> Tip,
   signature |-> NoMaterial, autonomous |-> TRUE]

ComposedBody ==
  [author |-> "bot", state |-> "open", head |-> Tip,
   signature |-> run.material, autonomous |-> TRUE]

\* gh pr create, which GitHub refuses while the branch has an open one.
Create ==
  /\ run.phase = "listed"
  /\ run.pull = 0
  /\ OpenPulls = {}
  /\ pulls' = Append(pulls, ComposedBody)
  /\ run' = [run EXCEPT !.phase = "proposed", !.pull = Len(pulls) + 1]
  /\ UNCHANGED <<inputs, mainline, commits>>

\* gh workflow run quality.yml --ref advisory/latest, then find its run by head.
DispatchQuality ==
  /\ run.phase = "proposed"
  /\ commits' = [commits EXCEPT ![Tip].quality = "dispatched"]
  /\ run' = [run EXCEPT !.phase = "watching"]
  /\ UNCHANGED <<inputs, mainline, pulls>>

\* What report_status_bridge.py accepts: the workflow's own open pull request,
\* still at the head the passing run tested.
BridgeAccepts ==
  /\ pulls[run.pull].state = "open"
  /\ pulls[run.pull].author = "bot"
  /\ pulls[run.pull].head = Tip

\* The watched run passed: publish the required contexts, unless the pull
\* request was decided meanwhile, and wake the merge worker.
Bridge ==
  /\ run.phase = "watching"
  /\ commits[Tip].quality = "passed"
  /\ commits' = IF BridgeAccepts THEN [commits EXCEPT ![Tip].statuses = TRUE]
                ELSE commits
  /\ run' = NoRun
  /\ UNCHANGED <<inputs, mainline, pulls>>

\* A step fails or the job is killed.  Nothing already done is undone.
Abort ==
  /\ run.phase # "idle"
  /\ run' = NoRun
  /\ UNCHANGED repository

AdvisoryStep ==
  \/ CheckOut \/ Review \/ Decide \/ Push \/ ListOpen \/ Edit \/ Create
  \/ DispatchQuality \/ Bridge \/ Abort

=============================================================================

--------------------------- MODULE ReportRepository ---------------------------
(***************************************************************************)
(* What GitHub keeps of the advisor repository as far as report delivery   *)
(* reads and writes it: the report and the validation inputs on main, the  *)
(* report commits pushed to advisory/latest with their evidence, and the   *)
(* pull requests of that branch.  The advisory workflow, the merge worker, *)
(* the issue publisher and the owner act on it in any order.               *)
(***************************************************************************)
EXTENDS Reports, FiniteSets, FiniteSetsExt

CONSTANT MaxPushes  \* bound on the report commits of one behaviour

VARIABLES
  inputs,    \* the policy and intent on main
  mainline,  \* the report commits merged to main, oldest first
  commits,   \* every report commit pushed to advisory/latest, oldest first
  pulls      \* the pull requests of advisory/latest, by number

repository == <<inputs, mainline, commits, pulls>>

ASSUME MaxPushesAssumption == MaxPushes \in Nat

\* prior: the report it was compared with; base: the report of main its branch
\* grew from.  quality: the exact-head run dispatched for the commit; statuses: the
\* required contexts relayed onto the commit.
Commit == [material : Materials, prior : Nat, base : Nat,
           quality : {"none", "dispatched", "passed", "failed"},
           statuses : BOOLEAN]

\* signature: the material whose marker line the body carries;
\* autonomous: whether the body carries the autonomous-merge marker.
Pull == [author : {"bot", "human"}, state : {"open", "closed", "merged"},
         head : Nat, signature : Materials \cup {NoMaterial},
         autonomous : BOOLEAN]

\* The commit whose report is reports/report.json on main, 0 before any.
Main == IF mainline = << >> THEN 0 ELSE mainline[Len(mainline)]

MaterialOf(c) == IF c = 0 THEN NoMaterial ELSE commits[c].material

PullNumbers == DOMAIN pulls
OpenPulls == {n \in PullNumbers : pulls[n].state = "open"}
ClosedPulls == PullNumbers \ OpenPulls

\* A report commit merges cleanly when reports/ on main is still the report its
\* branch grew from: both sides rewrite the same two files, run timestamp
\* included, so git reports any other case as a conflict.
Mergeable(c) == commits[c].base = Main

RepositoryTypeOK ==
  /\ inputs \in Inputs
  /\ commits \in Seq(Commit)
  /\ mainline \in Seq(DOMAIN commits)
  /\ pulls \in Seq(Pull)
  /\ \A n \in PullNumbers :
       /\ pulls[n].head \in 1 .. Len(commits)
       /\ pulls[n].author = "bot" => pulls[n].signature \in Materials
  /\ \A c \in DOMAIN commits : {commits[c].prior, commits[c].base} \subseteq 0 .. c - 1

RepositoryInit ==
  /\ inputs \in Inputs
  /\ mainline = << >>
  /\ commits = << >>
  /\ pulls = << >>

-----------------------------------------------------------------------------
(***************************************************************************)
(* The world around the workflows.                                         *)
(***************************************************************************)

\* A merge to main of policy or intent, which never touches reports/.
InputsChange ==
  /\ inputs' \in Inputs \ {inputs}
  /\ UNCHANGED <<mainline, commits, pulls>>

\* A dispatched Quality run of the commit completes, whoever still watches it.
QualityEnds(c) ==
  /\ commits[c].quality = "dispatched"
  /\ \E result \in {"passed", "failed"} :
       commits' = [commits EXCEPT ![c].quality = result]
  /\ UNCHANGED <<inputs, mainline, pulls>>

\* Closing without merging is how the owner declines a report.
OwnerCloses(n) ==
  /\ n \in OpenPulls
  /\ pulls' = [pulls EXCEPT ![n].state = "closed"]
  /\ UNCHANGED <<inputs, mainline, commits>>

\* Removing the autonomous marker from the body is how the owner holds one.
OwnerHolds(n) ==
  /\ n \in OpenPulls
  /\ pulls[n].autonomous
  /\ pulls' = [pulls EXCEPT ![n].autonomous = FALSE]
  /\ UNCHANGED <<inputs, mainline, commits>>

OwnerReleases(n) ==
  /\ n \in OpenPulls
  /\ ~pulls[n].autonomous
  /\ pulls' = [pulls EXCEPT ![n].autonomous = TRUE]
  /\ UNCHANGED <<inputs, mainline, commits>>

\* A pull request somebody opens by hand from advisory/latest.  GitHub allows
\* one open pull request per branch, and none for a branch already merged.
HumanOpens ==
  /\ OpenPulls = {}
  /\ Len(commits) > Main
  /\ Len(pulls) < MaxPushes
  /\ pulls' = Append(pulls, [author |-> "human", state |-> "open",
                             head |-> Len(commits), signature |-> NoMaterial,
                             autonomous |-> FALSE])
  /\ UNCHANGED <<inputs, mainline, commits>>

World ==
  \/ InputsChange
  \/ \E c \in DOMAIN commits : QualityEnds(c)
  \/ \E n \in PullNumbers : OwnerCloses(n) \/ OwnerHolds(n) \/ OwnerReleases(n)
  \/ HumanOpens

=============================================================================

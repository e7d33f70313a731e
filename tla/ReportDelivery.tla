---------------------------- MODULE ReportDelivery ----------------------------
(***************************************************************************)
(* Report delivery: advisory runs, the merge worker and the owner,         *)
(* interleaved over one advisor repository.  Each workflow runs once at a  *)
(* time (its concurrency group), but nothing orders the two with respect   *)
(* to each other or to the owner.                                          *)
(***************************************************************************)
EXTENDS AdvisoryRun, MergeWorker

vars == <<repository, run, worker>>

Init == RepositoryInit /\ RunInit /\ WorkerInit

Next ==
  \/ World /\ UNCHANGED <<run, worker>>
  \/ AdvisoryStep /\ UNCHANGED <<worker>>
  \/ WorkerStep /\ UNCHANGED run

Spec == Init /\ [][Next]_vars

-----------------------------------------------------------------------------
(***************************************************************************)
(* Properties that hold.                                                   *)
(***************************************************************************)

\* Every variable has its type, and every pull request the workflow opened
\* carries the signature marker that makes closing it a decline
\* (fleet-advisory.yml, "Compose the pull request body").
TypeOK == RepositoryTypeOK /\ RunTypeOK /\ WorkerTypeOK

\* Lifecycle advances only along merged reports: the report a merge brings to
\* main was compared with the very report it replaces (docs/reports.md,
\* "Lifecycle advances only when an advisory pull request is merged").
LifecycleChain ==
  [][mainline' # mainline => commits'[Main'].prior = Main]_vars

\* To everything that reads main this is a ledger: reports are only appended,
\* each differs from its predecessor in material, however stale the proposal
\* was when it merged, and nothing else touches what was accepted.
Accepted == [k \in DOMAIN mainline |-> commits[mainline[k]].material]

Ledger == INSTANCE ReportLedger WITH accepted <- Accepted, MaxReports <- MaxPushes

ImplementsLedger == Ledger!LedgerSpec

\* The decision record tells the truth: the signature in the body of a merged
\* workflow pull request is the signature of the report that was merged.
MergedBodyMatchesHead ==
  \A n \in PullNumbers :
    pulls[n].author = "bot" /\ pulls[n].state = "merged" =>
      pulls[n].signature = commits[pulls[n].head].material

\* A decline in force: the owner closed this workflow pull request at this
\* material, and has decided no later workflow pull request.
DeclineStands(n, material) ==
  /\ n \in PullNumbers
  /\ pulls[n].author = "bot" /\ pulls[n].state = "closed"
  /\ pulls[n].signature = material
  /\ \A m \in PullNumbers : m > n /\ pulls[m].author = "bot" => pulls[m].state = "open"

\* A run goes on to publish only material no decline in force names, whoever
\* else opened and closed pull requests of the branch since that decline.
DeclineRespected ==
  [][run.phase = "reviewed" /\ run'.phase = "publishing" =>
       \A n \in PullNumbers : ~DeclineStands(n, run.material)]_vars

-----------------------------------------------------------------------------
(***************************************************************************)
(* What the documentation says and the workflows do not do.                *)
(***************************************************************************)

\* docs/reports.md: the workflow "does not re-propose" a declined material
\* state.  The history is read some steps before the pull request is created.
NeverReproposed ==
  [][Len(pulls') > Len(pulls) /\ pulls'[Len(pulls')].author = "bot" =>
       \A n \in PullNumbers : ~DeclineStands(n, pulls'[Len(pulls')].signature)]_vars

\* docs/reports.md: "Remove the marker to hold it for inspection."  Only its
\* owner ends a hold; no step of a run does.
HoldKept ==
  [][run' # run =>
       \A n \in PullNumbers :
         pulls[n].author = "bot" /\ pulls'[n].autonomous => pulls[n].autonomous]_vars

\* docs/reports.md: closing declines "that exact material report state", the
\* one the pull request proposes.
DeclineRecordsHead ==
  \A n \in PullNumbers :
    pulls[n].author = "bot" /\ pulls[n].state = "closed" =>
      pulls[n].signature = commits[pulls[n].head].material

=============================================================================

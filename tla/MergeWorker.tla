------------------------------ MODULE MergeWorker ------------------------------
(***************************************************************************)
(* The autonomous-merge worker as report delivery sees it: it lists the    *)
(* open pull requests that carry the autonomous marker, runs the merge     *)
(* gate on each, and hands a merged report to the issue publisher.  The    *)
(* gate is not part of the repository's sources: it evaluates the pull     *)
(* request as it is by then and merges exactly the head it evaluated.      *)
(***************************************************************************)
EXTENDS ReportRepository

VARIABLE worker

NoWork == [phase |-> "idle", pull |-> 0]

WorkerTypeOK ==
  /\ worker \in [phase : {"idle", "listed", "merged"}, pull : 0 .. Len(pulls)]
  /\ worker.phase # "idle" => worker.pull > 0

WorkerInit == worker = NoWork

-----------------------------------------------------------------------------
\* The marker is read here and not again: the pull request may be held,
\* decided or moved to another head before the gate looks at it.
ListCandidates ==
  /\ worker.phase = "idle"
  /\ \E n \in OpenPulls :
       /\ pulls[n].autonomous
       /\ worker' = [phase |-> "listed", pull |-> n]
  /\ UNCHANGED repository

GateAccepts_AnyQuality(n) ==
  /\ pulls[n].state = "open"
  /\ Mergeable(pulls[n].head)

\* Quality and the required contexts on the exact head, and a clean merge.
GateAccepts(n) ==
  /\ pulls[n].state = "open"
  /\ commits[pulls[n].head].quality = "passed"
  /\ commits[pulls[n].head].statuses
  /\ Mergeable(pulls[n].head)

\* A gate that times out after merging reports no result: the worker counts an
\* error and makes no handoff.
GateMerges ==
  /\ worker.phase = "listed"
  /\ GateAccepts(worker.pull)
  /\ mainline' = Append(mainline, pulls[worker.pull].head)
  /\ pulls' = [pulls EXCEPT ![worker.pull].state = "merged"]
  /\ worker' \in {[worker EXCEPT !.phase = "merged"], NoWork}
  /\ UNCHANGED <<inputs, commits>>

\* The gate defers or parks the pull request, or the run's budget is spent.
GateDefers ==
  /\ worker.phase = "listed"
  /\ worker' = NoWork
  /\ UNCHANGED repository

\* Dispatch the issue publication, or fail to; IssueAuthorization takes requests
\* at any moment, and the daily one makes up for a lost dispatch.
HandOff ==
  /\ worker.phase = "merged"
  /\ worker' = NoWork
  /\ UNCHANGED repository

WorkerStep == ListCandidates \/ GateMerges \/ GateDefers \/ HandOff

=============================================================================

------------------------------ MODULE WorkflowFacts ------------------------------
(***************************************************************************)
(* What the workflow collector says of the fleet's GitHub Actions          *)
(* workflows, and what such workflows do.  Only the parts of a step that a  *)
(* fact or a run looks at are kept.                                        *)
(***************************************************************************)
EXTENDS Integers, Sequences, FiniteSets

\* "plain" is a condition of the event or of an output; "override" calls always(),
\* failure() or cancelled(); "unread" can hold after a failure without a call of these,
\* like !success() or success() || x.
Conditions == {"none", "plain", "override", "unread"}

Severities == {"HIGH", "CRITICAL"}

-----------------------------------------------------------------------------
(***************************************************************************)
(* Credential and Trivy steps.                                             *)
(***************************************************************************)

\* A credentials step of a job, with the job's token permission as it is in force.  The
\* collector does not look at `role-chaining` and `web-identity-token-file`.
CredentialSteps ==
  [role : BOOLEAN, keys : SUBSET {"aws-access-key-id", "aws-secret-access-key"},
   skipOidc : BOOLEAN, existing : BOOLEAN, chaining : BOOLEAN, tokenFile : BOOLEAN,
   jobPermission : {"absent", "none", "write"}, workflowPermission : {"absent", "none", "write"}]

\* The job's permissions replace the workflow's.
EffectivePermission(step) ==
  IF step.jobPermission # "absent" THEN step.jobPermission ELSE step.workflowPermission

UsesOidcOnly(step) ==
  /\ step.role /\ step.keys = {}
  /\ EffectivePermission(step) = "write"
  /\ ~step.skipOidc /\ ~step.existing

\* How the action (external) gets its credentials, given whether there are valid ones
\* already: from the role by the token of the job, from a key, from a token file, or
\* from its environment, which is all that role chaining leaves.
TokenIsGiven(step) ==
  \/ step.jobPermission = "write"
  \/ step.jobPermission = "absent" /\ step.workflowPermission = "write"

Credentials(step, present) ==
  CASE step.existing /\ present -> "existing"
    [] ~(step.existing /\ present) /\ "aws-access-key-id" \in step.keys -> "keys"
    [] /\ ~(step.existing /\ present) /\ "aws-access-key-id" \notin step.keys
       /\ step.role /\ TokenIsGiven(step) /\ ~step.skipOidc
       /\ ~step.chaining /\ ~step.tokenFile -> "oidc"
    [] OTHER -> IF step.tokenFile /\ ~step.chaining THEN "token_file" ELSE "environment"

-----------------------------------------------------------------------------
(***************************************************************************)
(* The publication of images.  Jobs are numbered; a job needs lower ones.  *)
(***************************************************************************)

ScanStep(severities, exitCode, condition, tolerant) ==
  [kind |-> "scan", severities |-> severities, exitCode |-> exitCode,
   condition |-> condition, tolerant |-> tolerant]

PlainStep(kind, condition) ==
  [kind |-> kind, severities |-> {}, exitCode |-> 0, condition |-> condition,
   tolerant |-> FALSE]

\* _is_blocking_scan.
IsBlockingScan(step) ==
  /\ step.kind = "scan"
  /\ Severities \subseteq step.severities /\ step.exitCode # 0
  /\ step.condition = "none" /\ ~step.tolerant

\* _overrides_status, of a step or a job.
OverridesStatus(item) == item.condition = "override"

HasBlockingScan(steps) == \E i \in DOMAIN steps : IsBlockingScan(steps[i])

GatedByDependency_AnyPath(jobs, id) ==
  \E dependency \in jobs[id].needs :
    \/ HasBlockingScan(jobs[dependency].steps)
    \/ \E d \in jobs[dependency].needs : HasBlockingScan(jobs[d].steps)

\* A blocking scan in a job it reaches through `needs`, no job on the way running
\* after a failure.
GatedByDependency(jobs, id) ==
  LET gated[j \in DOMAIN jobs] ==
        /\ ~OverridesStatus(jobs[j])
        /\ \E dependency \in jobs[j].needs :
             HasBlockingScan(jobs[dependency].steps) \/ gated[dependency]
  IN  gated[id]

Logins(steps) == {i \in DOMAIN steps : steps[i].kind = "login"}

LoginAt(steps) == CHOOSE i \in Logins(steps) : \A j \in Logins(steps) : i <= j

\* A login to the registry followed by a push; a login alone may only pull.
Publishes(job) ==
  /\ Logins(job.steps) # {}
  /\ \E i \in LoginAt(job.steps)..Len(job.steps) : job.steps[i].kind = "push"

\* A blocking scan before the login, and nothing from there on that runs after it
\* has failed.
ScannedFirst(job) ==
  LET at == LoginAt(job.steps)
  IN  /\ HasBlockingScan(SubSeq(job.steps, 1, at - 1))
      /\ \A i \in at..Len(job.steps) :
           job.steps[i].kind \in {"login", "push"} => ~OverridesStatus(job.steps[i])

GatedByBlockingScan(jobs, id) == ScannedFirst(jobs[id]) \/ GatedByDependency(jobs, id)

\* A run of the workflow (external), given what its plain conditions come to
\* (`holds`) and the worst severity the image has.  After a failure a step or a job
\* starts only if its condition asks for that; "override" ones are taken to start
\* whatever happened.
Starts(item, failed, holds) ==
  \/ item.condition = "override"
  \/ item.condition = "unread" /\ (failed \/ holds)
  \/ item.condition = "plain" /\ ~failed /\ holds
  \/ item.condition = "none" /\ ~failed

StepRuns(job, failed, i, holds) == Starts(job.steps[i], failed, holds)

StepFails(step, severity) ==
  step.kind = "scan" /\ severity \in step.severities /\ step.exitCode # 0 /\ ~step.tolerant

\* Whether an earlier step of the job has failed when step i comes.
FailedBefore(job, severity, holds) ==
  LET failed[i \in 1..(Len(job.steps) + 1)] ==
        IF i = 1 THEN FALSE
        ELSE \/ failed[i - 1]
             \/ /\ StepRuns(job, failed[i - 1], i - 1, holds)
                /\ StepFails(job.steps[i - 1], severity)
  IN  failed

\* A failed job with `continue-on-error` is a success to the jobs that need it.
Outcomes(jobs, severity, holds) ==
  LET outcome[j \in DOMAIN jobs] ==
        IF Starts(jobs[j], \E n \in jobs[j].needs : outcome[n] # "success", holds)
        THEN IF /\ FailedBefore(jobs[j], severity, holds)[Len(jobs[j].steps) + 1]
                /\ ~jobs[j].tolerant
             THEN "failure" ELSE "success"
        ELSE "skipped"
  IN  outcome

\* The job pushes an image to the registry in that run.
Pushed(jobs, id, severity, holds) ==
  LET job == jobs[id]
      runs == {i \in DOMAIN job.steps :
                 StepRuns(job, FailedBefore(job, severity, holds)[i], i, holds)}
  IN  /\ Outcomes(jobs, severity, holds)[id] # "skipped"
      /\ \E i, k \in runs :
           i < k /\ job.steps[i].kind = "login" /\ job.steps[k].kind = "push"

-----------------------------------------------------------------------------
(***************************************************************************)
(* The workflow that merges what passed the fleet's intent gate.           *)
(***************************************************************************)

\* What a workflow file is, and whether the collector can look into it.
WorkflowFiles ==
  [is : {"worker", "broken_worker", "intent_gate", "other"},
   visible : {"yes", "excluded", "untracked", "unreadable"}]

\* The files that are looked into: of the eligible ones, in order of their names,
\* no more than max_workflow_files.
Eligible(files) == {i \in DOMAIN files : files[i].visible \notin {"excluded", "untracked"}}

Examined(files, limit) ==
  {i \in Eligible(files) : Cardinality({j \in Eligible(files) : j <= i}) <= limit}

Readable(files, limit) == {i \in Examined(files, limit) : files[i].visible = "yes"}

WorkflowSetComplete(files, limit) == Readable(files, limit) = DOMAIN files

\* _has_recoverable_trigger: the workflow whose completion starts the worker exists.
\* What else the worker needs is in "worker" and missing in "broken_worker".
Autonomous(files, limit, i) ==
  /\ files[i].is = "worker"
  /\ \E j \in Readable(files, limit) : files[j].is = "intent_gate"

\* _autonomous_merge_evidence over the set: one fact for every worker found, none
\* where the gate may be in a file that was not read, and a missing worker only
\* after everything was.
AutonomyFacts(files, limit) ==
  LET complete == WorkflowSetComplete(files, limit)
      workers == {i \in Readable(files, limit) : files[i].is \in {"worker", "broken_worker"}}
      gateKnown == \/ \E j \in Readable(files, limit) : files[j].is = "intent_gate"
                   \/ complete
      found == IF gateKnown THEN workers ELSE {}
  IN  IF found = {} /\ complete THEN {FALSE}
      ELSE {Autonomous(files, limit, i) : i \in found}

\* The status of the collector's coverage.
WorkflowCoverage(files, limit) ==
  IF DOMAIN files = {} THEN "failed"
  ELSE IF WorkflowSetComplete(files, limit) THEN "ok" ELSE "partial"

\* In the repository: a worker that can run, whether or not the collector sees it.
MergesAutonomously(files) ==
  /\ \E i \in DOMAIN files : files[i].is = "worker"
  /\ \E i \in DOMAIN files : files[i].is = "intent_gate"

=============================================================================

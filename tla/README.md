# Verification of Infra Fleet Advisor

Infra Fleet Advisor reviews the infrastructure repository
`infra-fleet-public` against the owner's declared intent and puts the result
before the owner as pull requests and issues. Little of it is a server: it is a
set of GitHub workflows, each running at most once at a time but in no order
with respect to each other or to the owner, that share a repository as their only
memory. This directory holds TLA+ models of that, the TLC runs that check them
and the TLAPS proofs about them.

Paths below are relative to the repository root; `pkg/` stands for
`src/infra_fleet_advisor/`.

## 1. The system

| Component | State it keeps | Operations | Talks to |
|---|---|---|---|
| **Report delivery** (`.github/workflows/fleet-advisory.yml`, `pkg/runtime/report_signature.py`, `.github/scripts/report_status_bridge.py`, `quality.yml`) | branch `advisory/latest`, its pull requests and their bodies, `reports/` on main | review, decide, push, list, edit/create, dispatch Quality, relay statuses | review pipeline (call), merge worker (dispatch), owner (pull request) |
| **Merge worker** (`.github/scripts/autonomous_merge.py`, `autonomous-merge.yml`, external `merge_ready.py`) | none between runs; a time budget within one | list candidates, rotate, gate each, hand off | pull requests, issue publisher (dispatch) |
| **Issue authorization** (`fleet-issues.yml`, `pkg/runtime/report_approval.py`, `report_readiness.py`, `scripts/check-approved-report-current.sh`) | the running and the one waiting publication | verify approval, take the report, wait for inputs, plan, recheck twice, publish | main (reads), fleet issues (writes) |
| **Review pipeline** (`pkg/core/*`, `pkg/scenarios/fleet_repository_review/review.py`, `intent_evaluation.py`) | the prior report it is given | collect, compile intent, validate, compare, rank, assemble | collectors, analyst (calls) |
| **Issue plan** (`pkg/runtime/issue_publication.py`, `report_writer.py`) | none | revalidate a report, derive actions | both of the above |
| **Issue reconciliation** (`pkg/runtime/github_issues.py`) | fleet issues, labels, comments | find, create, relabel, comment | GitHub |
| **Fleet feedback** (`pkg/runtime/fleet_feedback.py`, `fleet-feedback.yml`) | branch and pull request that propose policy changes | read owner decisions, plan, decide, publish or cancel | fleet issues, `policy.yaml` |
| **Capability evolution** (`pkg/runtime/capability_publication.py`) | advisor issues for intents without a check | plan, publish, reactivate | issue reconciliation |
| **Intent gate, ratchet** (`pkg/runtime/intent_gate.py`, `ratchet.py`) | none | compare two reports | Quality |
| **Drills, remediation** (`pkg/runtime/drill.py`, `pkg/scenarios/.../remediation.py`) | a throwaway worktree | mutate, review, require divergence; registered fixes | Quality, fleet |
| **Decision collection, owner approval** (`.github/scripts/collect_decisions.py`, two workflows) | summary comment, labels | parse answers, relabel; wake the worker | issues, merge worker |
| **Collectors, analysts, configuration, command line, rendering** | none that outlives a call | parse, call, print | review pipeline |

What makes it hard:

* *Interleaving.* Everything an advisory run learns from GitHub is a read some
  seconds before the write that relies on it, and the owner, Quality and the
  merge worker act in between. Workflows can be killed between any two commands.
* *Staleness across runs.* Reports stay mergeable while main moves; a publication
  is prepared while its inputs change; a retry names an old report.
* *Histories.* Findings are carried from report to report with the evidence of
  the day, through partial collection, changing policy, suppression and accepted
  trade-offs; each report must still pass the checks of the next.
* *Shared bounds.* One time budget for a whole merge run, one waiting slot per
  concurrency group, limits that fail closed.

What correctness means, per component:

* delivery: main's report is only replaced by a report compared with it and
  different from it; a pull request records what it proposes; the owner's decline
  and hold are respected;
* merge worker: a merge is handed on in the same run; every candidate gets its
  turn; the run ends before it is killed;
* authorization: nothing superseded is ever written, and write access is used for
  exactly what is on main; the newest report gets published in the end;
* review: no report the publisher would refuse, no endless proposing, no open
  finding lost, nothing current hidden behind history;
* reconciliation: one issue per finding, whatever fails or lags;
* feedback: a decision in force is put before the owner once, a declined plan never
  again (but for the race of "Known gaps"), and a revoked one is withdrawn;
* gates: what was proved stays true and what was found stays found until it is
  repaired or its loss was shown, whatever changes in the fleet, in the advisor, or
  in both;
* collectors: a fact that counts as proof holds of what GitHub, Kubernetes and AWS
  make of the same files.

`PROJECT.json` lists the hazards at their lines with the properties aimed at them.

## 2. The modules

| Module | Models | State |
|---|---|---|
| `Reports` | what tells two reports apart: the material a signature covers | – |
| `ReportRepository` | what GitHub keeps of the advisor repository, and the actions of the world on it | `inputs`, `mainline`, `commits`, `pulls` |
| `AdvisoryRun` | the advisory workflow, one action per step that reads or changes the repository | `run` |
| `MergeWorker` | the merge worker as delivery sees it | `worker` |
| `ReportDelivery` | the three together, interleaved; the delivery properties | all of these |
| `ReportLedger` | abstract: what delivery promises whoever reads main | `inputs`, `accepted` |
| `IssueAuthorization` | the publisher's job over that ledger | `code`, `queued`, `publisher`, `published` |
| `IssuePublisher` | what that job's writes are: one action per remote call, fleet and capability profile | `profile`, `plan`, `issues`, `claimed`, `publisher` |
| `FindingRecords` | abstract: what publication promises whoever reads the issues | `profile`, `reported`, `records` |
| `FeedbackPublication` | the feedback workflow between fleet issues, its branch and pull requests, and main | `decided`, `accepted`, `report`, `pushes`, `tip`, `base`, `pulls`, `declines`, `job` |
| `ReviewHistory` | review, lifecycle, evidence table, material and issue plan over a history of reports | `policy`, `report` |
| `IntentChecks` | the registry of trusted checks and the resolution of positions through it | – |
| `CapabilityPlan` | the plan of issues about what cannot be evaluated, with its own account of the checks | – |
| `ChangeGates` | the fleet's intent gate and the advisor's drills and ratchet, over any changes | `fleet`, `advisor`, `pinned`, `judged` |
| `MergeBudget` | how one worker run shares its time | `left`, `waiting`, `report`, `step`, `unfunded` |
| `MergeWindow` | which candidates a run evaluates | `count`, `hour`, `place`, `missed` |
| `MergeWorkerRuns` | both sides of the worker's runs, for one TLC run | both of these |
| `WorkflowFacts`, `DeploymentFacts`, `IamFacts`, `CostFacts`, `ClusterFacts` | the facts of five collectors, and what GitHub, Kubernetes and AWS make of the same files | – |
| `Rollout` | a Deployment's pods while it is rolled out | `specs`, `profile`, `pods` |
| `FleetFacts` | facts held against effects | `subject` and `Rollout`'s |
| `MC*` | TLC instances | – |
| `*Proofs` | theorems about the module of that name; `MergeWorkerProofs` about `MergeWorkerRuns` | – |

Composition: `ReportDelivery` puts `AdvisoryRun` and `MergeWorker` on one
`ReportRepository` and implements `ReportLedger`, which `IssueAuthorization`
extends; `IssuePublisher`, the detail of its last step, implements `FindingRecords`. `ChangeGates` extends `CapabilityPlan`, which extends `IntentChecks`;
`FleetFacts` extends the collectors' modules and `Rollout`.

**Delivery.** A commit of `commits` is one push of the branch, with the material
of its report, the report it was compared with (`prior`), the report of main its
branch grew from (`base`), and what Quality and the status bridge attached to it.
`run` holds what the workflow's shell variables and working tree hold between two
steps. `Review` is the fleet checkout, the review and the prospective plan:
nothing of them touches the repository. `Decide` reads the closed pull requests
and decides in one step, since the decision works on what was read and nothing
but reads lies between. From there on each remote command is its own action:
push, list, edit or create, dispatch, relay. `Abort` is a failed command or the
job's timeout anywhere. `Edit` replaces the body of whichever pull request was
listed, also one closed since, as `gh pr edit` does. Signatures are modelled by
what they identify: the material. The bound `MaxPushes` caps commits and pull
requests, `MaxHistory` the closed ones a decision reads (199 in the code).

**Gate and git.** `merge_ready.py` is not among the sources. `GateAccepts` is what
the code around it relies on: exact head, Quality and required contexts on it, and
a clean merge. `Mergeable` is git's: every report rewrites the same two files,
timestamp included, so a branch that grew from another report conflicts.

**Authorization.** The repository is seen as `ReportLedger`: the k-th merged
report pull request is entry k. `queued` is the concurrency group's one waiting
slot, overwritten by newer requests. Reports compare by bytes, and each embeds its
timestamp, hence by entry (`SameReport`). The issue writes are one step here and
the subject of `IssuePublisher`.

**Reconciliation.** An action of a plan finds its issue by the fingerprint label
or by a body search, restores labels, creates, updates or comments; each remote
call is an action of the model. `Fail` ends one action of the plan before or after
its call took effect and the publication goes on, as `publish_issue_actions` collects
failures; `Kill` ends the publication. Owners close and reopen issues, anybody
removes a label (`SomebodyRemovesLabel`) or puts a fingerprint's label on a record
of their own (`SomebodyClaims`). One assumption about GitHub is made: a label is
only removed from an issue the body search has caught up with. An action whose
label is on two records, or on a foreign one, fails, as in the code. The two
profiles differ in what is kept up to date and when a note is due; the capability
profile is the library's second client and has no workflow any more (PDR 0006
leaves only the offline plan).

**Feedback.** A plan is the set of concerns whose trade-off it adds to
`policy.yaml`. `BuildPlan` is the checkout and `build_feedback_plan`, `Decide` the
decision table over the listed pull requests and the state of the branch, and each
remote command that follows is an action: mark as cancelled, close, push, edit,
create. `base` says where the parent of the branch's tip stands in the checkout,
which is what the recovery of a branch without a pull request depends on: the
workflow's checkout holds one commit, so only `head` is recognised. The owner
decides and revokes, merges, closes and edits policy; reports are merged, main
moves, the branch may be deleted; `Abort` ends a run between any two commands.
`declines` remembers, for the properties, what a pull request said when the owner
closed it: `gh pr edit` also reaches a closed one, and the workflow reads its
history from what it says afterwards.

**Review.** A concern's finding cites all its divergent evidence; its identity is
concern and citations. `Assemble` is the whole of `assemble_report` on what
`compile_intents` yields: every current divergence (`Fresh`), what earlier reports
carry over (`Carried`), and the evidence table (`EvidenceFor`). `PlanConsistent`
is the list of refusals of `build_issue_plan`. Coverage counts and intent
evaluations are functions of what is modelled and add nothing to the material.
A finding's category, title and prose are constant per concern; owner edits of
`policy.yaml` are assumed to change its version, as its format asks.

**Gates.** `Registry` is `INTENT_CHECKS` entry by entry: collector, category, kind
of evidence, the facts required, the scope, and whether a clean and complete
collection proves anything. For each position the fleet has a file with some of
three forms: the fine one, the violation its drill applies, another violation. A
file that cannot be read hides its forms and makes its collector incomplete, for
every position of that collector. An advisor is what its repository declares,
enables, registers, recognises (`eyes`) and drills. `FleetChanges` is any pull
request of the fleet that passes the pinned advisor's gate; the merge commit and its
first parent are what that gate reviews, and an override by a maintainer (PDR 0007) is
outside the model. A pull request of the advisor (`Proposals`) is judged and merged in
two steps. `GatesJudge` is the job `gates` of Quality: it checks out the fleet,
resolves the base, runs the drills and then the ratchet, and leaves in `judged` what
the drills caught and which positions slipped. `AdvisorChanges` merges it later,
with the slip or without: `ratchet.py` makes a slip visible and does not forbid it,
and a maintainer who says why may merge one. What drills or a missing report stop
before the ratchet has compared anything is taken not to be merged. The fleet
changes and moves its pin in between (`moved` notes the files). One pull request of
the advisor is under way at a time, so it merges onto the base it was compared with.
The alternative mutations of a drill are one.

**Collectors.** The operators take the decisive parts of a file as records. The
other half of each module is external: which steps of a workflow run and what they
push, how AWS matches actions, expires images and events and merges tags, what
network policies admit, which user a container starts as, how a rollout proceeds.
A fact is checked against that half, never against itself. The external half has what
the collectors do not read as well: `continue-on-error` of whole jobs, conditions like
`!success()`, the other inputs of the credentials action, the providers and tags of
modules. Where a fact is false because of one of them the property exempts it by a
definition of its own, and "Known gaps" names the claim without the exemption. A module
is taken to hand the `tags` of its block on to what it makes. What a collector may look
at is `IsSubject`: jobs are numbered so that each needs lower ones, one workflow at
most is the worker, an action is of a service that is spelt out and has names without
any given letter. Sets and sequences are of any size. A stranger is a source that no
rule names by an equality or a membership (`IsStranger`): an expression that only
excludes somebody names nobody.

**Merge budget.** Whole seconds, with the script's own constants. An operation may
take any time up to its timeout; the time between operations is not counted.

**Merge window.** Candidates are their positions in the order of numbers, which is
all the rotation uses; one candidate, any of them, is followed. Epoch hours are
followed modulo `Cycle` from one scheduled run to the next, which come every
`WakeEvery` hours: assumed within the hour they are due, and none dropped.

Names with a suffix (`Edit_TitleOnly`) are variants a plausible mistake would
produce; they appear in no specification and only show that a property notices
the mistake.

## 3. What is checked

| Run | Shows | Instance |
|---|---|---|
| `delivery` | `MergedBodyMatchesHead`, `LifecycleChain`, `DeclineRespected`, `ImplementsLedger` | 2 input versions, 1 observation, 2 pushes |
| `publication` | `NeverBackwards`, `AuthorizedIsCurrent`; `NewestGetsPublished` under `FairSpec` | 3 reports, 2 inputs, 2 observations, 2 code versions |
| `issues` | `OneIssuePerFinding`, `ImplementsRecords`; `PlanIsRealised` under `FairSpec` | 2 fingerprints, one of them claimable, 2 texts, the fingerprint label, 2 issues, 2 notes each; both profiles |
| `feedback` | `DeclinedStaysDeclined`, `WithdrawingDeclinesNothing`; `DecisionsAreProposed`, `AllRevokedIsWithdrawn` under `FairSpec` | 2 concerns, ambiguous findings among them, 2 pushes, 2 pull requests in the history |
| `review` | `ReviewsArePublishable`, `ReviewsSettle`, `OpenFindingsStay`, `ConflictsAreReported` | 2 concerns over 2+1 evidence identities with 2 conflicting facts, 2 collectors, 3 policies, at most 1 recommendation and 3 actions; conflicts, and the identities of one concern, are symmetric |
| `gate` | `ReportsMakeCapabilityPlans`, `ProvedStaysTrue`, `DivergenceEndsFixed`, `DrilledViolationStaysOut`, `FindingsLast` | 2 real checks of one collector in two categories, or one of the two that need no evidence; 1 change of the advisor, judged and then merged; any number of changes of the fleet before, between and after |
| `merge_runs` | `ReserveKept`, `MergedReportIsHandedOff`, `EveryCandidateIsEvaluated`, `EveryoneGetsATurn` | the script's constants: 480 s, 30 s, 120 s, 60 s, 1 to 20 candidates; 20, 21, 24, 28 and 42 candidates, woken every six hours, all starting hours |
| `collectors` | `WorkflowFactsAreTrue`, `DeploymentFactsAreTrue`, `RolloutKeepsCapacity`, `IamFactsAreTrue`, `CostFactsAreTrue`, `IngressFactsAreTrue` | all small inputs of each fact (`MCFleetFacts`); rollouts of up to 3 replicas in two profiles |

All but `collectors` also check the module's `TypeOK`.

Why the bounds are enough.

* *Delivery.* The material of a report differs by inputs in `delivery` and by what
  was observed in the runs that refute; nothing tells the two apart. Two pushes give
  an accepted report and a stale, a declined, a held or a repeated one next to it,
  or two proposals through one pull request; the proofs remove the bound for the
  properties that hold.
* *Publication.* Three ledger entries give a published, a superseded and a newest
  report; two inputs, observations and code versions make each recheck matter.
* *Issues.* Two fingerprints make one action's failure leave another; two issues
  leave room for the second one that must not come to be, two notes for the repeated
  one. One label is enough, since all labels are restored together.
* *Feedback.* Two concerns give a plan, a larger and a smaller one; two pushes a
  proposal and what replaces it. Behaviours that reach a bound are exempted by
  `Exhausted` in the liveness properties, by name.
* *Review.* Two evidence identities of one concern are what makes a set change
  without becoming empty, and the second concern and collector make collection
  partial. The three policies hold each kind of owner edit (a lower priority, an
  accepted trade-off, a suppressed concern, a withdrawn intent); two conflicting
  facts are what it takes for facts to change under a finding that stays; one
  recommendation brings the limit into reach.
* *Gate.* Positions interact only through a shared collector, category or check, so
  two of them do, two checks of one collector in two categories; the two checks
  without required evidence share nothing and get one position each. The catalogs hold each kind of check: proving and not, with
  evidence required and without. Advisor changes are checked one at a time by the gates, from an advisor that
  has everything; the proofs remove the bound.
* *Worker.* The instance is the real one: the script's budget and window, the
  workflow's six hours. The five numbers of candidates are the ways the windows can
  follow each other: all at once (20), forward (28), backward a step that is not the
  window (21, 42) and not at all (24). `Cycle` is a multiple of each.
* *Collectors.* Each fact is a function of parts that can be listed: every
  combination of them is checked, sequences (steps, jobs, names, statements) up to
  the length at which one part hides, gates or overrides another.

`CHECK_DEADLOCK FALSE` appears for `merge_runs` and `collectors`: a worker's run and
a rollout really end.

**Fairness.** `publication`, `issues` and `feedback` assume it for their liveness.
Jobs end (a ten-minute timeout: weak fairness of `EndPublication`). The daily
schedule requests the latest report again and again, finding the publisher idle
because a job lasts minutes of a day; its remaining steps are strongly fair: a
failure or a replaced request may prevent each of them any number of times but not
for ever. Requests of owner and worker, merges and input changes have no fairness.
`NewestGetsPublished` additionally assumes that main stops moving with a report made
under its own policy and intent, and that the report has actions to publish.
`issues` and `feedback` state the same assumption by a variable: `calm` becomes true
at any moment or never, and from then on nothing fails and nobody interferes; what
is wrong at that moment has to be put right by the workflow alone. `WF_vars(Step)`
is the schedule that starts it and the runner that carries on.

### What the runs refute

Each of these checks one sentence of the documentation; the finding in
`PROJECT.json` quotes it and the code.

* `hold`: the next changed report restores the marker the owner removed.
* `decline_record`: between push and body update the pull request's head and its
  decline record are of two reports.
* `feedback_reclaim`: a run that dies between push and pull request leaves a branch
  that the shallow checkout can no longer place once main has moved; every later run
  with a decision to propose fails. `DecisionsAreProposed`, which holds, exempts
  exactly this (`Stranded`) and the mistaken declines below.
* `feedback_revoked`: of two decisions one is revoked, and the plan that is left was
  declined once: the workflow stops at "declined" and leaves the open proposal of
  both.

### Known gaps

What does not hold. The first ones are definitions of the modules that no run checks,
because TLC refutes them:

* `NeverReproposed` (`ReportDelivery`): a report declined after the history was read
  is proposed once more by the run under way.
* `DeclinesStand` (`FeedbackPublication`; "declines that exact feedback plan across
  intervening proposals", `feedback.md:33-34`): the owner closes a proposal after a
  run has decided to update or withdraw it, the run writes over its body, and the
  plan the owner declined is proposed again by the next run that has it. The same
  race makes the plan that was written read as declined although the owner never saw
  it, and then no run proposes it. `DeclinedStaysDeclined` exempts the first
  (`Overwritten`), `DecisionsAreProposed` the second (`Mistaken`), by name.
* `ResolvedIsGone` (`ReviewHistory`): a finding is resolved although evidence it
  cites still conflicts, because a new or fixed sibling changed the finding's
  identity. What conflicts is then reported under the new one.
* `EveryParkIsSurfaced` (`MergeBudget`): no time is set aside for decision handoffs.
  `OnlyTheLastParkMayWait` proves that only the last candidate's can be left out.
* `BoundedFairWindow` (`MergeWindow`; "Return a bounded fair window",
  `autonomous_merge.py:84`, and "this hour's rotating window", 334): woken every six
  hours, as `autonomous-merge.yml:13` has it, with 24 candidates or any other number
  above 20 that divides 120, the rotation always starts at the same place and the
  schedule never reaches the others. `EveryoneGetsATurn`, which holds, exempts the
  numbers of candidates whose scheduled windows leave a gap or repeat (`Adjoining`).
* `NothingLostQuietly` (`ChangeGates`; "the ratchet guard proves an advisor change did
  not quietly lose ground", `docs/status.md:106-107`): the ratchet compares on the
  fleet Quality checked out. When a file of the fleet changes before the merge, the
  new advisor can lose a finding there that no report of the ratchet shows: a finding
  that came in with the change, or of a violation that was not in the file then.
  `FindingsLast`, which holds, exempts such files (`JudgedElsewhere`).
* Two pull requests of the advisor that were judged on the same base: nothing in the
  sources asks a branch to be up to date with main, so what the second merge makes of
  both is an advisor no gate has seen. The model has one at a time.
* A position whose check cannot prove anything is undecided both when clean and when
  its file is broken. It can go from clean to broken to divergent through the gate,
  the last step being refused, and then only a repair of both at once passes.
* Unregistering such a check together with its drill, while clean, loses nothing the
  ratchet looks at.
* `GatedMeansGated` (`FleetFacts`; `gated_by_blocking_scan`,
  `github_actions_workflow_collector.py:372-438`): the collector reads conditions for
  `always()`, `failure()` and `cancelled()`. A job with a scan that has
  `continue-on-error` as a whole counts as a success when the scan fails, and
  `!success()` or `success() || x` hold after a failure; a job called gated then pushes.
  `GatedNeverPublishes`, which holds, exempts workflows with such a form
  (`EscapesTheScan`).
* `OidcOnlyMeansOidc` (`FleetFacts`; `uses_oidc_only`, 248-275): with `role-chaining` or
  `web-identity-token-file`, which are not read, the action takes no OIDC token.
  `OidcFactsAreTrue` exempts such steps (`TakesAnotherRoute`).
* `UntaggedIsProved` (`FleetFacts`; "provably carry none of the missing keys",
  `terraform_cost_collector.py:238`): a `module` block is reported by its own `tags` and
  the attribute `provider`. One with `providers = { aws = aws.other }`, or that tags what
  it makes, is reported though AWS has the tags. `UntaggedIsReal` exempts such modules
  (`IsOpaque`).
* That the scan of a gated publication looks at the image that is pushed, and at all of
  it, is assumed: the collector compares neither `image-ref` with the push nor options
  that skip findings.

## 4. What is proved

Eight modules hold proofs. Their theorems are for every value of the constants that
satisfies the named assumptions; every `ASSUME` is evaluated in a run.

| Component | Proved | Model-checked only |
|---|---|---|
| delivery | `TypeOK`, `MergedBodyMatchesHead`, `LifecycleChain`, `DeclineRespected`, `ImplementsLedger` | – |
| authorization | `TypeOK`, `NeverBackwards`, `AuthorizedIsCurrent`; `OnlyChangesRefuse` | `NewestGetsPublished` |
| reconciliation | `TypeOK`, `OneIssuePerFinding`, `ImplementsRecords`; `NotesAreWrittenOnce`, `UndisturbedPublicationsRealise`, `PublicationsAreFinite` | `PlanIsRealised` |
| feedback | `TypeOK`, `DeclinedStaysDeclined`, `WithdrawingDeclinesNothing`; `UndisturbedRunsPropose` | `DecisionsAreProposed`, `AllRevokedIsWithdrawn` |
| review | `TypeOK`, `ReviewsArePublishable`, `ReviewsSettle`, `OpenFindingsStay`, `ConflictsAreReported` | – |
| gates | `TypeOK`, `ReportsMakeCapabilityPlans`, `ProvedStaysTrue`, `DivergenceEndsFixed`, `DrilledViolationStaysOut`, `FindingsLast` | – |
| worker | `TypeOK`, `ReserveKept`, `MergedReportIsHandedOff`, `EveryCandidateIsEvaluated`, `EveryoneGetsATurn`; `OnlyTheLastParkMayWait`, `FewCandidatesNeverMissARun` | – |
| collectors | `RolloutKeepsCapacity`, `WorkflowFactsAreTrue`, `DeploymentFactsAreTrue`, `IamFactsAreTrue`, `CostFactsAreTrue`, `IngressFactsAreTrue` | – |

Only liveness stays with TLC: it needs fairness and ENABLED, which the prover has no
rules for. All safety invariants and action properties of the passing runs are
theorems. Of each liveness property a theorem holds the part that is not about time:
what a job comes to when nothing disturbs it (`OnlyChangesRefuse`,
`UndisturbedPublicationsRealise`, `UndisturbedRunsPropose`). What TLC adds is that
such a job comes and ends. Facts about files of any length are inductions, and the library's rules of
induction cannot be used; two lemmas replace them. `Induction` turns the property of
a natural number into the set of the numbers that have it, and finds a least
counterexample in the complement. `RecursiveFunctionExists` gives a recursive
function its equation, from a rank below which each of its calls stays.

*Delivery.* None of the properties is inductive: that a merged body matches its
head depends on a run that is somewhere between its push and its edit. The
inductive invariant adds what each phase of a run knows: which commit is the tip
and whose material it is, that a commit which passed Quality or has its statuses
is one whose body was written, that an open pull request's head is the tip, and
that `prior` and `base` of a commit agree and its material differs from its
prior's. The crux: the gate accepts only a head with statuses, statuses come only
from a bridge, and a bridge comes only after the edit or create of the same run.
`ImplementsLedger` follows step by step: a merge appends, the appended material
differs from `Newest` because it differs from its `prior`, which `Mergeable`
makes the report on main.

*Authorization.* The invariant adds that no checkout is ahead of the ledger and not
behind what was published by an earlier job, and that a planned report is the
newest of its checkout and was made under the checkout's inputs. One publisher at
a time is what makes `NeverBackwards` follow. While main is as a publication checked it out,
the same invariant makes each later look at main find what the plan was made for
(`OnlyChangesRefuse`).

*Reconciliation.* `NoTwins` needs `AtItsIssue`: a publication about to create knows
that there is no issue of its finding, which the label search and the body search
together establish and nobody else can change. `NotesAlternate` needs `NoteIsNext`:
the note on its way is the one the notes so far ask for. `ImplementsRecords` maps an
issue to the finding and its notes: only `Create` and `AddNote` change a record, and
`CreatesWhatIsThere` adds that what is about to be created is still called active. An
undisturbed publication has each finding it is done with realised, unless its label is
claimed (`DoneIsSettled`), because what it saw of an issue still is so when it acts on
it (`SeenAsItIs`); a step at one finding leaves the others as they are. Publications
are finite by a variant: six times the actions not taken up, and the calls the present
one still needs, get fewer with each step, a failed one included.

*Feedback.* The invariant says what a run holds between its decision and its last
command: an open pull request is the newest (`OpenIsNewest`), the run works on it or
there is none (`WorksOnNewest`), what is on its way was declined by no other pull
request (`Undeclined`), and a withdrawal is marked before it is closed
(`MarkedBeforeClosed`). In calm it also works on the plan that stands and on the tip
and the pull request it saw (`AsDecided`), so that its last command leaves what
`UndisturbedRunsPropose` says; a branch it cannot tell to be its own is `Stranded`,
since an open pull request is the newest and at the tip. What the owner declined is
a second invariant (`DInv`): a pull request closed with no run at work on it reads as
it did then (`DeclinesFit`), one that stands closed with a plan was closed by the
owner with that plan or under a run (`ClosedAreDeclined`), and the commits of later
ones carry no closed plan either (`HeadsUndeclined`).

*Review.* What a report must be for the next one to be of the same kind: no two
findings share a fingerprint, and its own table supports each citation
(`WellFormed`). The table of the next report keeps that for what is carried over,
because facts of now replace older ones only where they conflict too.
`ReviewsSettle` is then an equality of sets: nothing of a repeated review depends on
what the first one added.

*Gates.* One lemma carries them (`DivergesExactly`): a position diverges exactly if
its check is bound and a file that can be read shows a violation the advisor
recognises. It needs `RegistryAssumption`, that no item of evidence serves two
checks, which TLC evaluates on the code's registry. The invariant adds that an
advisor recognises what its drills caught (`SeesWhatItCaught`). `FindingsLast` needs a
second invariant, `RunsTell`: a divergence on main that the judged proposal would not
see slipped in its gates, or its file has changed since. It survives changes of other
files because a divergence is a matter of its own file alone (`OwnFileDecides`).

*Budget.* Types and `ReserveKept` together are inductive: a timeout never exceeds
what lies above the reserve, a fact about integer division. That everybody gets
time needs a quadratic bound: with w operations still to come, at least w·w seconds
lie above the reserve, w·(w+1) while a report waits, since each share leaves the
others theirs and division loses less than one second per sharer. It starts from
`FundingAssumption`, n·(n+1) seconds above the reserve for n candidates: 420 of 450
in the code, which twenty-one candidates would exceed.

*Window.* From one scheduled run to the next the window moves by a fixed shift, going
round. Where that is a step of 1 to w places (w the window) in either direction, a
candidate that is missed comes nearer by it each time, or recedes by it until it is
so far ahead that the next window, coming from behind, takes it (`Waits`). Both are
bounded by the n - w places outside a window, which gives `Turns`. The hours count
modulo `Cycle`, which shifts nothing because it is a multiple of n. A larger shift
steps over candidates and no shift repeats the same: `Adjoining` is what is left out.

*Rollout.* Where `retains_healthy_capacity` holds none may be unavailable, and with
a readiness probe only serving pods count as available, so an old pod stops only
when one more serves than is wanted. The fact is taken from every profile's
rendering and the conclusion is about each. `ReportedRolloutsKeepCapacity` carries it
over to the rollouts among the collectors' subjects.

*Facts.* Of a gated publication: a blocking scan that runs fails its job, and nothing
later in the job makes that undone (an induction over the steps). A job gated by a
failed one is skipped, since all its ways up lead through jobs that do not start after
a failure; the least job for which this failed would have a lower one like it. Of
actions: a pattern with a letter cannot match the names that lack it, and a pattern
of wildcards with a star fits every name long enough by counting characters, both by
induction over `Matches`. Of policies: a proof has no block the collector could not
account for, so that each reference of an attachment leads to exactly one statement
that was read. Costs, tags, containers, profiles and ingress are arguments about sets.

## 5. What is not modelled

* Owner merges of advisory pull requests by hand, and reopened ones; both go around the
  gate.
* The merge gate's own rules, which are not in the sources.
* Decision collection and owner approval: labels and comments of single issues,
  re-read on every event, with no state of their own.
* Remediation: registered textual fixes of single files, whose effect the drills'
  review already looks at.
* Repository settings: one read of GitHub's settings written to a file.
* The other collectors (platform, agent rules, application configuration and
  contract, dependency updates, documentation links, fleet lifecycle), and parts of
  the five above (worker scaling, endpoint and schedule facts, egress,
  HTTPS and token facts, the recognition of single actions), and reading, parsing
  and locating in all of them: text recognition in single files.
* Analysts: an answer of a model can only replace prose of a compiled finding
  (`validate_intent_candidates`), and the validator's narrative limits are about
  text.
* Composition of the parts by the command line, parsing of arguments, policy and
  intent, and all wording, Markdown and JSON: data the properties do not look at.

## 6. What would come next

1. `CandidateValidation`: an analyst can neither add, drop nor change findings.
2. `PlatformFacts`: the positions of the platform collector, held against Helm,
   Argo and Kubernetes as the other collectors' are.
3. `DecisionCollector`: events, sweeps and edited answers.
4. `EvidenceLoop`: the composition as the owner sees it (a divergence becomes a
   report, an issue, a fix and a resolved finding), with its liveness, over
   `ReportLedger` and the abstract promise of `IssuePublisher`.

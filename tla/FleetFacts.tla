-------------------------------- MODULE FleetFacts --------------------------------
(***************************************************************************)
(* The facts collectors report, held against what the fleet's files do     *)
(* once GitHub, Kubernetes or AWS (external) act on them.  A subject is     *)
(* something a collector looks at; a rollout is one that goes on.           *)
(***************************************************************************)
EXTENDS WorkflowFacts, IamFacts, CostFacts, ClusterFacts, Rollout, Functions

CONSTANTS
  Subjects,   \* what each collector looks at, sets of records with a field `of`
  Services,   \* names of actions of a service
  Sources,    \* where traffic may come from
  Ports       \* ports traffic may come in at

VARIABLE subject

\* The jobs of a workflow, numbered so that a job needs lower ones.
Steps ==
  [kind : STRING, severities : SUBSET STRING, exitCode : Nat, condition : Conditions,
   tolerant : BOOLEAN]

IsWorkflow(jobs) ==
  /\ jobs \in Seq([needs : SUBSET Nat, condition : Conditions, tolerant : BOOLEAN,
                   steps : Seq(Steps)])
  /\ \A j \in DOMAIN jobs : jobs[j].needs \subseteq 1..(j - 1)

\* The name of an action of one service, which has names without any given letter.
IsActionName(name) ==
  /\ name \in Seq(STRING)
  /\ \A letter \in Range(name) \ Wildcards :
       \E other \in Services : Len(other) >= Len(name) /\ letter \notin Range(other)

IsIamBlock(block) ==
  /\ block.type = "policy" => block.body \in {"literal", "reference"}
  /\ block.type \in {"document", "policy"} =>
       block.statement.effect \in Effects /\ block.statement.action \in Actions

\* What a collector may look at.  One workflow at most is the worker, and an action is
\* of a service that is spelt out.
IsSubject(s) ==
  /\ s.of = "publication" => IsWorkflow(s.jobs)
  /\ s.of = "workflows" =>
       \A i, j \in DOMAIN s.files :
         {s.files[i].is, s.files[j].is} \subseteq {"worker", "broken_worker"} => i = j
  /\ s.of = "action" =>
       IsActionName(s.action.name) /\ Range(s.action.service) \cap Wildcards = {}
  /\ s.of = "iam" => \A block \in s.blocks : IsIamBlock(block)
  /\ s.of = "registry" => IsFiniteSet(s.policies) /\ \A rules \in s.policies : rules \subseteq Rules
  /\ s.of = "logs" => s.log \in LogSubjects(Nat)

ASSUME ServicesAssumption == Services \subseteq Seq(STRING)
ASSUME SubjectsAssumption ==
  \A i \in DOMAIN Subjects : \A s \in Subjects[i] : s.of # "rollout" /\ IsSubject(s)

NoRollout ==
  /\ profile = CHOOSE p \in Profiles : TRUE
  /\ specs = [p \in Profiles |->
                [replicas |-> 0, strategy |-> "RollingUpdate", maxUnavailable |-> Count(0),
                 maxSurge |-> Count(0), readinessProbes |-> FALSE]]
  /\ pods = [old |-> 0, starting |-> 0, serving |-> 0]

FactsInit ==
  \/ subject = [of |-> "rollout"] /\ Init
  \/ NoRollout /\ \E i \in DOMAIN Subjects : subject \in Subjects[i]

FactsNext == Next /\ UNCHANGED subject

FactsSpec == FactsInit /\ [][FactsNext]_<<vars, subject>>

-----------------------------------------------------------------------------
\* What a run heeds and the collector does not read: `continue-on-error` of a whole job
\* with a scan, and conditions that hold after a failure by way of success() alone.
EscapesTheScan(jobs) ==
  \E j \in DOMAIN jobs :
    \/ jobs[j].tolerant /\ HasBlockingScan(jobs[j].steps)
    \/ jobs[j].condition = "unread"
    \/ \E i \in DOMAIN jobs[j].steps : /\ jobs[j].steps[i].condition = "unread"
                                       /\ jobs[j].steps[i].kind \in {"login", "push"}

\* gated_by_blocking_scan: a job reported so pushes no image in which the scan finds
\* something, through whichever jobs and conditions the run goes; exempt are workflows
\* with a form that the collector does not read.
GatedNeverPublishes ==
  subject.of = "publication" =>
    \A id \in DOMAIN subject.jobs :
      (/\ Publishes(subject.jobs[id]) /\ GatedByBlockingScan(subject.jobs, id)
       /\ ~EscapesTheScan(subject.jobs)) =>
        \A severity \in Severities, holds \in BOOLEAN :
          ~Pushed(subject.jobs, id, severity, holds)

\* The fact without the exemption, as the collector states it.  TLC refutes it.
GatedMeansGated ==
  subject.of = "publication" =>
    \A id \in DOMAIN subject.jobs :
      (Publishes(subject.jobs[id]) /\ GatedByBlockingScan(subject.jobs, id)) =>
        \A severity \in Severities, holds \in BOOLEAN :
          ~Pushed(subject.jobs, id, severity, holds)

\* Inputs of the action that lead to other credentials and that the collector does not
\* read.
TakesAnotherRoute(step) == step.chaining \/ step.tokenFile

GetsOidc(step) == \A present \in BOOLEAN : Credentials(step, present) = "oidc"

\* uses_oidc_only: a step reported so gets its credentials from the role by the job's
\* token, unless an input that is not read leads elsewhere; and one that does, and is
\* given no key, is reported so.
OidcFactsAreTrue ==
  subject.of = "credentials" =>
    /\ (UsesOidcOnly(subject.step) /\ ~TakesAnotherRoute(subject.step))
         => GetsOidc(subject.step)
    /\ (GetsOidc(subject.step) /\ subject.step.keys = {}) => UsesOidcOnly(subject.step)

\* The fact without the exemption.  TLC refutes it.
OidcOnlyMeansOidc ==
  subject.of = "credentials" => (UsesOidcOnly(subject.step) => GetsOidc(subject.step))

\* evidence_autonomy_complete: whichever files the collector cannot look into, it
\* never reports autonomy missing where it is there, and what it says after it has
\* seen everything is so.
AutonomyFactsAreTrue ==
  subject.of = "workflows" =>
    LET facts == AutonomyFacts(subject.files, subject.limit)
    IN  /\ FALSE \in facts => ~MergesAutonomously(subject.files)
        /\ WorkflowCoverage(subject.files, subject.limit) = "ok" =>
             facts = {MergesAutonomously(subject.files)}

\* What the workflow collector reports is so, of publications, of credentials and of
\* autonomy, where a file has no form that it does not read.
WorkflowFactsAreTrue == GatedNeverPublishes /\ OidcFactsAreTrue /\ AutonomyFactsAreTrue

\* all_containers_hardened: whichever user its image names, no container of such a pod
\* starts as root.
HardenedNeverRoot ==
  subject.of = "containers" =>
    \A imageUser \in {"root", "other"} :
      AllContainersHardened(subject.containers, subject.pod) =>
        \A c \in subject.containers : ~StartsAsRoot(c, subject.pod, imageUser)

\* Facts of an object that several profiles render: after complete coverage there is a
\* fact of every object rendered, every profile has every application, and a fact that
\* holds holds of each document: no duplicate and nothing ill-formed goes by in silence.
CombinedFactsHoldEverywhere ==
  (subject.of = "profiles" /\ DeploymentCoverage(subject.profiles) = "ok") =>
    LET facts == CombinedFacts(subject.profiles)
        documents(p) == Range(subject.profiles[p])
    IN  \A p, q \in DOMAIN subject.profiles : \A d \in documents(p) :
          /\ d.object \in DOMAIN facts
          /\ d.application => \E e \in documents(q) : e.object = d.object
          /\ facts[d.object] => d.fact

\* What the deployment collector reports of containers and of objects is so.
DeploymentFactsAreTrue == HardenedNeverRoot /\ CombinedFactsHoldEverywhere

\* _is_service_wide recognises the patterns that match every name of a service, and
\* no others.
ServiceWideIsRecognised ==
  subject.of = "action" =>
    (IsServiceWide(subject.action) <=> AllowsWholeService(subject.action, Services))

\* Complete coverage without a wildcard grant: nobody in the scope can hold one, not
\* even through what the parser does not know, another root module or a document
\* that is declared twice.
ProvedIamGrantsNoWildcard ==
  (subject.of = "iam" /\ IamCoverage(subject.blocks) = "ok" /\ IamEvidence(subject.blocks) = {})
    => ~SomebodyMayHoldWildcard(subject.blocks)

\* What the IAM collector reports is so, and what it does not report is not there.
IamFactsAreTrue == ServiceWideIsRecognised /\ ProvedIamGrantsNoWildcard

\* bounded_lifecycle: a registry reported so keeps no image for ever.
BoundedRegistryExpiresAll ==
  (/\ subject.of = "registry" /\ RepositoryReported(subject.policies)
   /\ BoundedLifecycle(subject.policies)) =>
    \A rules \in subject.policies : KeptForever(rules) = {}

\* bounded_retention: logs reported so are deleted some day.
BoundedLogsExpire ==
  (subject.of = "logs" /\ HasLogs(subject.log) /\ BoundedRetention(ReportedRetention(subject.log)))
    => EventsExpire(subject.log)

\* A module that is handed another provider, or tags what it makes by itself.
IsOpaque(resource) == resource.providers = "other" \/ resource.adds # {}

\* cost_tags_incomplete: a resource or module reported so lacks a key on AWS, whichever
\* provider gives it its default tags; exempt are modules whose tags the block with
\* their `tags` does not tell.
UntaggedIsReal ==
  subject.of = "tags" =>
    ((/\ ReportedUntagged(subject.default, subject.resource, subject.keys)
      /\ ~IsOpaque(subject.resource)) =>
       subject.keys \ EffectiveTags(subject.default, subject.other, subject.resource) # {})

\* "Provably carry none of the missing keys", without the exemption.  TLC refutes it.
UntaggedIsProved ==
  subject.of = "tags" =>
    (ReportedUntagged(subject.default, subject.resource, subject.keys) =>
       subject.keys \ EffectiveTags(subject.default, subject.other, subject.resource) # {})

\* What the cost collector reports of registries, logs and tags is so.
CostFactsAreTrue == BoundedRegistryExpiresAll /\ BoundedLogsExpire /\ UntaggedIsReal

\* A requirement that names somebody is an equality or a membership.
Named(selector, labels) ==
  \E r \in selector : r.operator \in {"Equals", "In"} /\ labels[r.key] \in r.values

\* Nobody's rules name the source: neither its pod nor the namespace it is in.
IsStranger(policies, source) ==
  \A p \in policies : \A rule \in p.rules : \A peer \in rule.peers :
    ~Named(peer.pods, source.pod) /\ (source.outside \/ ~Named(peer.namespaces, source.namespace))

\* ingress_restricted: nobody that no rule names gets in, through whichever of the
\* policies that select the pods.
RestrictedAdmitsNoStranger ==
  subject.of = "policies" =>
    (IngressRestricted(subject.policies, subject.namespace, subject.labels) =>
       \A source \in Sources, port \in Ports :
         IsStranger(subject.policies, source) =>
           ~Admitted(subject.policies, subject.namespace, subject.labels, source, port))

\* ingress_restricted, of the broker: whoever gets in comes from a namespace, and to a
\* port, that is declared.
BrokerAdmitsOnlyDeclared ==
  subject.of = "policies" =>
    LET names == {source.namespace[NameKey] : source \in Sources}
    IN  BrokerRestricted(subject.policies, subject.namespace, subject.labels, names,
                         subject.declared) =>
          \A source \in Sources, port \in Ports :
            Admitted(subject.policies, subject.namespace, subject.labels, source, port) =>
              /\ ~source.outside
              /\ <<source.namespace[NameKey], port>> \in subject.declared

\* What the security collector reports of traffic that comes in is so.
IngressFactsAreTrue == RestrictedAdmitsNoStranger /\ BrokerAdmitsOnlyDeclared

=============================================================================

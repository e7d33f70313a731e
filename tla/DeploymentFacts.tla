------------------------------ MODULE DeploymentFacts ------------------------------
(***************************************************************************)
(* What the deployment collector says of the Deployments the fleet's       *)
(* profiles render to, and what Kubernetes (external) makes of them.       *)
(***************************************************************************)
EXTENDS Integers, Sequences, FiniteSets

\* maxUnavailable and maxSurge: a number of pods, a percentage, or not given.
Count(n) == [unit |-> "pods", amount |-> n]
Percent(n) == [unit |-> "percent", amount |-> n]
Absent == [unit |-> "absent", amount |-> 0]

DefaultFencepost == Percent(25)

Given(value) == IF value = Absent THEN DefaultFencepost ELSE value

\* _fencepost.
Fencepost(value, replicas, roundUp) ==
  LET given == Given(value)
  IN  IF given.unit = "pods" THEN given.amount
      ELSE (replicas * given.amount + (IF roundUp THEN 99 ELSE 0)) \div 100

EffectiveMaxUnavailable(spec) == Fencepost(spec.maxUnavailable, spec.replicas, FALSE)

EffectiveMaxSurge(spec) == Fencepost(spec.maxSurge, spec.replicas, TRUE)

RetainsHealthyCapacity_NoProbe(spec) ==
  spec.replicas > 0 =>
    /\ spec.strategy = "RollingUpdate"
    /\ EffectiveMaxUnavailable(spec) = 0 /\ EffectiveMaxSurge(spec) > 0

\* The fact of one rendered Deployment.
RetainsHealthyCapacity(spec) ==
  spec.replicas > 0 =>
    /\ spec.strategy = "RollingUpdate"
    /\ EffectiveMaxUnavailable(spec) = 0 /\ EffectiveMaxSurge(spec) > 0
    /\ spec.readinessProbes

\* combine_profiles: a protective fact of an object holds if every profile that
\* renders it has it.
Protective(facts) == \A profile \in DOMAIN facts : facts[profile]

-----------------------------------------------------------------------------
(***************************************************************************)
(* The security context.  Fields are "absent", "yes" or "no", a user is    *)
(* "absent", "root" or "other".                                            *)
(***************************************************************************)

Inherited(own, pods) == IF own = "absent" THEN pods ELSE own

\* _is_hardened.
IsHardened(container, pod) ==
  LET user == Inherited(container.runAsUser, pod.runAsUser)
  IN  /\ user # "root"
      /\ Inherited(container.runAsNonRoot, pod.runAsNonRoot) = "yes" \/ user = "other"
      /\ container.allowPrivilegeEscalation = "no" /\ container.privileged # "yes"
      /\ container.dropsAll /\ ~container.adds

\* _build_hardening_evidence, over the containers and the init containers.
AllContainersHardened(containers, pod) == \A c \in containers : IsHardened(c, pod)

\* Kubernetes (external): the user a container starts as, given the one its image
\* names; a root user is refused where runAsNonRoot is in force.
StartsAsRoot(container, pod, imageUser) ==
  LET user == IF container.runAsUser # "absent" THEN container.runAsUser
              ELSE IF pod.runAsUser # "absent" THEN pod.runAsUser ELSE imageUser
      verified == IF container.runAsNonRoot # "absent" THEN container.runAsNonRoot
                  ELSE pod.runAsNonRoot
  IN  user = "root" /\ verified # "yes"

-----------------------------------------------------------------------------
(***************************************************************************)
(* The objects of the profiles: which evidence is kept and whether it is   *)
(* complete.  A profile renders a bag of documents, each naming an object.  *)
(***************************************************************************)

Duplicates(documents) ==
  {o \in {documents[i].object : i \in DOMAIN documents} :
     Cardinality({i \in DOMAIN documents : documents[i].object = o}) > 1}

\* _evaluate_documents: an object that is there twice is no evidence, nor is one that
\* is not understood; both are failures.  The rest up to the bound.
KeptOf(documents) ==
  {documents[i] : i \in {k \in DOMAIN documents :
     documents[k].wellFormed /\ documents[k].object \notin Duplicates(documents)}}

EvaluatedCompletely_WellFormed(documents) == \A i \in DOMAIN documents : documents[i].wellFormed

EvaluatedCompletely(documents) ==
  /\ \A i \in DOMAIN documents : documents[i].wellFormed
  /\ Duplicates(documents) = {}

\* An object's combined fact over the profiles that have it.
CombinedFacts(profiles) ==
  LET objects == UNION {{d.object : d \in KeptOf(profiles[p])} : p \in DOMAIN profiles}
      factOf(o) == \A p \in DOMAIN profiles :
                     \A d \in KeptOf(profiles[p]) : d.object = o => d.fact
  IN  [o \in objects |-> factOf(o)]

\* collect: every object from k8s/applications/ has to be in every profile.
DeploymentCoverage(profiles) ==
  LET applications(p) == {d.object : d \in {e \in KeptOf(profiles[p]) : e.application}}
  IN  IF /\ \A p \in DOMAIN profiles : EvaluatedCompletely(profiles[p])
         /\ \A p, q \in DOMAIN profiles : applications(p) = applications(q)
      THEN "ok" ELSE "partial"

=============================================================================

--------------------------------- MODULE Rollout ---------------------------------
(***************************************************************************)
(* A Deployment's pods while Kubernetes (external) replaces them, in one   *)
(* of the profiles that render it, one pod at a time.                      *)
(***************************************************************************)
EXTENDS DeploymentFacts

CONSTANTS
  Replicas,     \* the numbers of replicas a manifest or a patch can ask for
  Fenceposts,   \* the values of maxUnavailable and maxSurge
  Profiles      \* the deployment profiles

VARIABLES
  specs,    \* the Deployment as every profile renders it
  profile,  \* the profile of this cluster
  pods      \* the pods, old ones that serve, new ones that start and that serve

vars == <<specs, profile, pods>>

ASSUME ReplicasAssumption == Replicas \subseteq Nat
ASSUME ProfilesAssumption == Profiles # {}
ASSUME FencepostsAssumption ==
  \A v \in Fenceposts : v \in [unit : {"pods", "percent", "absent"}, amount : Nat]

Specs == [replicas : Replicas, strategy : {"RollingUpdate", "Recreate"},
          maxUnavailable : Fenceposts, maxSurge : Fenceposts, readinessProbes : BOOLEAN]

spec == specs[profile]

\* The controller does not stand still: where both come to nothing one pod may go.
Unavailable ==
  IF EffectiveMaxUnavailable(spec) = 0 /\ EffectiveMaxSurge(spec) = 0 THEN 1
  ELSE EffectiveMaxUnavailable(spec)

\* Pods count as available when they are ready, and a pod nobody probes is ready as
\* soon as it has started.
Available ==
  pods.old + pods.serving + (IF spec.readinessProbes THEN 0 ELSE pods.starting)

Serving == pods.old + pods.serving

Starting ==
  /\ pods.starting + pods.serving < spec.replicas
  /\ IF spec.strategy = "Recreate" THEN pods.old = 0
     ELSE pods.old + pods.starting + pods.serving < spec.replicas + EffectiveMaxSurge(spec)
  /\ pods' = [pods EXCEPT !.starting = @ + 1]
  /\ UNCHANGED <<specs, profile>>

BecomesReady ==
  /\ pods.starting > 0
  /\ pods' = [pods EXCEPT !.starting = @ - 1, !.serving = @ + 1]
  /\ UNCHANGED <<specs, profile>>

Stopping ==
  /\ pods.old > 0
  /\ spec.strategy = "RollingUpdate" => Available > spec.replicas - Unavailable
  /\ pods' = [pods EXCEPT !.old = @ - 1]
  /\ UNCHANGED <<specs, profile>>

\* A profile's patch changes the replicas and leaves the strategy alone.
Init ==
  /\ \E base \in Specs, replicas \in [Profiles -> Replicas] :
       specs = [p \in Profiles |-> [base EXCEPT !.replicas = replicas[p]]]
  /\ profile \in Profiles
  /\ pods = [old |-> spec.replicas, starting |-> 0, serving |-> 0]

Next == Starting \/ BecomesReady \/ Stopping

Spec == Init /\ [][Next]_vars

\* The fact the collector reports of the object.
ReportedRetained == Protective([p \in Profiles |-> RetainsHealthyCapacity(specs[p])])

TypeOK ==
  /\ specs \in [Profiles -> Specs] /\ profile \in Profiles
  /\ pods \in [old : Nat, starting : Nat, serving : Nat]
  /\ pods.starting + pods.serving <= spec.replicas

\* "retains_healthy_capacity": while pods of such a Deployment are replaced, in
\* whichever profile, never fewer serve than it has replicas.
RolloutKeepsCapacity == ReportedRetained => Serving >= spec.replicas

=============================================================================

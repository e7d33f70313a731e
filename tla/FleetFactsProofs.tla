------------------------------ MODULE FleetFactsProofs ------------------------------
(***************************************************************************)
(* That what the collectors report is so, for every set of subjects,       *)
(* workflow, policy, block, name and rollout, and not only the small ones  *)
(* of a run.                                                               *)
(*                                                                         *)
(* A rollout is a behaviour, and its invariant is inductive together with  *)
(* the types: where the fact holds and pods are wanted, none may be        *)
(* unavailable, and with a probe only pods that serve count as available,  *)
(* so an old pod stops only when one more serves than is wanted.  The      *)
(* other facts are about a subject that never changes.  Where they rest on *)
(* a recursion (what gates a job, how a run ends, what a pattern matches), *)
(* the recursion is shown to have a solution, and what it computes follows *)
(* by a least counterexample.                                              *)
(***************************************************************************)
EXTENDS FleetFacts, FiniteSetTheorems, WellFoundedInduction, TLAPS

-----------------------------------------------------------------------------
(***************************************************************************)
(* Rollouts.                                                               *)
(***************************************************************************)

\* The rounding of percentages yields numbers, whatever is given.
LEMMA FencepostsAreNumbers ==
  ASSUME NEW p \in Specs
  PROVE  EffectiveMaxUnavailable(p) \in Int /\ EffectiveMaxSurge(p) \in Int
<1>1. ASSUME NEW v \in Fenceposts, NEW roundUp \in BOOLEAN
      PROVE  Fencepost(v, p.replicas, roundUp) \in Int
  <2>1. p.replicas \in Nat
    BY ReplicasAssumption DEF Specs
  <2>2. Given(v).amount \in Nat
    BY FencepostsAssumption DEF Given, Absent, DefaultFencepost, Percent
  <2>3. p.replicas * Given(v).amount \in Int
    BY <2>1, <2>2
  <2>4. (p.replicas * Given(v).amount + (IF roundUp THEN 99 ELSE 0)) \div 100 \in Int
    BY <2>3
  <2> QED
    BY <2>2, <2>4 DEF Fencepost
<1>2. p.maxUnavailable \in Fenceposts /\ p.maxSurge \in Fenceposts
  BY DEF Specs
<1> QED
  BY <1>1, <1>2 DEF EffectiveMaxUnavailable, EffectiveMaxSurge

\* The rendered Deployment of this cluster is one of the possible ones.
LEMMA SpecType ==
  ASSUME TypeOK
  PROVE  spec \in Specs /\ spec.replicas \in Nat /\ spec.readinessProbes \in BOOLEAN
         /\ spec.strategy \in {"RollingUpdate", "Recreate"}
<1>1. spec \in Specs
  BY DEF TypeOK, spec
<1> QED
  BY <1>1, ReplicasAssumption DEF Specs

\* Replacing pods does not change what is asked for.
LEMMA SpecStays ==
  ASSUME UNCHANGED <<specs, profile>>
  PROVE  UNCHANGED spec /\ UNCHANGED ReportedRetained
<1>1. UNCHANGED spec
  BY DEF spec
<1>2. UNCHANGED ReportedRetained
  BY DEF ReportedRetained
<1> QED
  BY <1>1, <1>2

LEMMA InitTypeOK == Init => TypeOK
<1> SUFFICES ASSUME Init PROVE TypeOK
  OBVIOUS
<1>1. PICK base \in Specs, replicas \in [Profiles -> Replicas] :
        specs = [p \in Profiles |-> [base EXCEPT !.replicas = replicas[p]]]
  BY DEF Init
<1>2. \A p \in Profiles : [base EXCEPT !.replicas = replicas[p]] \in Specs
  BY <1>1 DEF Specs
<1>3. specs \in [Profiles -> Specs] /\ profile \in Profiles
  BY <1>1, <1>2 DEF Init
<1>4. spec.replicas \in Nat
  BY <1>3, ReplicasAssumption DEF spec, Specs
<1> QED
  BY <1>3, <1>4 DEF Init, TypeOK

LEMMA StepTypeOK == TypeOK /\ [Next]_vars => TypeOK'
<1> SUFFICES ASSUME TypeOK, [Next]_vars PROVE TypeOK'
  OBVIOUS
<1> USE DEF TypeOK
<1>0. spec.replicas \in Nat
  BY SpecType
<1>1. CASE Starting
  <2>1. UNCHANGED spec
    BY <1>1, SpecStays DEF Starting
  <2>2. pods.starting + pods.serving < spec.replicas
        /\ pods' = [pods EXCEPT !.starting = pods.starting + 1]
        /\ UNCHANGED <<specs, profile>>
    BY <1>1 DEF Starting
  <2> QED
    BY <1>0, <2>1, <2>2
<1>2. CASE BecomesReady
  <2>1. UNCHANGED spec
    BY <1>2, SpecStays DEF BecomesReady
  <2>2. pods.starting > 0 /\ UNCHANGED <<specs, profile>>
    BY <1>2 DEF BecomesReady
  <2>3. pods' = [old |-> pods.old, starting |-> pods.starting - 1,
                 serving |-> pods.serving + 1]
    BY <1>2 DEF BecomesReady
  <2> QED
    BY <1>0, <2>1, <2>2, <2>3
<1>3. CASE Stopping
  <2>1. UNCHANGED spec
    BY <1>3, SpecStays DEF Stopping
  <2>2. pods.old > 0 /\ pods' = [pods EXCEPT !.old = pods.old - 1]
        /\ UNCHANGED <<specs, profile>>
    BY <1>3 DEF Stopping
  <2> QED
    BY <1>0, <2>1, <2>2
<1>4. CASE UNCHANGED vars
  BY <1>4 DEF vars, spec
<1> QED
  BY <1>1, <1>2, <1>3, <1>4 DEF Next

\* Every variable has its type, and no more pods are new than are wanted.
THEOREM RolloutTypeOK == Spec => []TypeOK
<1>1. Init => TypeOK
  BY InitTypeOK
<1>2. TypeOK /\ [Next]_vars => TypeOK'
  BY StepTypeOK
<1> QED
  BY <1>1, <1>2, PTL DEF Spec

\* In the profile of this cluster too the fact holds, and there it says that the
\* controller keeps every pod that serves until another one does.
LEMMA RetainedHere ==
  ASSUME TypeOK, ReportedRetained, spec.replicas > 0, Stopping
  PROVE  pods.old + pods.serving > spec.replicas
<1>1. RetainsHealthyCapacity(spec)
  <2>1. DOMAIN [p \in Profiles |-> RetainsHealthyCapacity(specs[p])] = Profiles
    OBVIOUS
  <2>2. profile \in Profiles
    BY DEF TypeOK
  <2> QED
    BY <2>1, <2>2 DEF ReportedRetained, Protective, spec
<1>2. /\ spec.strategy = "RollingUpdate" /\ spec.readinessProbes
      /\ EffectiveMaxUnavailable(spec) = 0 /\ EffectiveMaxSurge(spec) > 0
  BY <1>1 DEF RetainsHealthyCapacity
<1>3. EffectiveMaxSurge(spec) \in Int /\ spec.replicas \in Nat
  BY SpecType, FencepostsAreNumbers
<1>4. Unavailable = 0
  BY <1>2, <1>3 DEF Unavailable
<1>5. Available = pods.old + pods.serving
  BY <1>2 DEF Available, TypeOK
<1>6. Available > spec.replicas - Unavailable
  BY <1>2 DEF Stopping
<1> QED
  BY <1>3, <1>4, <1>5, <1>6 DEF TypeOK

LEMMA InitKeepsCapacity == Init => RolloutKeepsCapacity
<1> SUFFICES ASSUME Init PROVE Serving >= spec.replicas
  BY DEF RolloutKeepsCapacity
<1>1. spec.replicas \in Nat
  BY InitTypeOK, SpecType
<1> QED
  BY <1>1 DEF Init, Serving

LEMMA StepKeepsCapacity == TypeOK /\ RolloutKeepsCapacity /\ [Next]_vars => RolloutKeepsCapacity'
<1> SUFFICES ASSUME TypeOK, RolloutKeepsCapacity, [Next]_vars, ReportedRetained'
             PROVE  (Serving >= spec.replicas)'
  BY DEF RolloutKeepsCapacity
<1>1. UNCHANGED <<specs, profile>>
  BY DEF Next, Starting, BecomesReady, Stopping, vars
<1>2. UNCHANGED spec /\ ReportedRetained
  BY <1>1, SpecStays
<1>3. Serving >= spec.replicas /\ spec.replicas \in Nat
  BY <1>2, SpecType DEF RolloutKeepsCapacity
<1>4. CASE Starting
  BY <1>2, <1>3, <1>4 DEF Starting, Serving, TypeOK
<1>5. CASE BecomesReady
  BY <1>2, <1>3, <1>5 DEF BecomesReady, Serving, TypeOK
<1>6. CASE Stopping
  <2>1. pods' = [pods EXCEPT !.old = pods.old - 1] /\ pods.old > 0
    BY <1>6 DEF Stopping
  <2>2. pods.old + pods.serving > spec.replicas \/ spec.replicas = 0
    BY <1>2, <1>3, <1>6, RetainedHere
  <2> QED
    BY <1>2, <1>3, <2>1, <2>2 DEF Serving, TypeOK
<1>7. CASE UNCHANGED vars
  BY <1>2, <1>3, <1>7 DEF vars, Serving
<1> QED
  BY <1>4, <1>5, <1>6, <1>7 DEF Next

\* "retains_healthy_capacity": a Deployment reported so never has fewer pods serving
\* than replicas, in any profile and along any order of starts, stops and probes.
THEOREM RetainedRolloutKeepsCapacity == Spec => []RolloutKeepsCapacity
  BY InitKeepsCapacity, StepKeepsCapacity, RolloutTypeOK, PTL DEF Spec

-----------------------------------------------------------------------------
(***************************************************************************)
(* Recursive functions.  Induction is over sets of numbers, by a least     *)
(* element; a function whose values depend on those of lower rank exists,  *)
(* built up rank by rank.                                                  *)
(***************************************************************************)

LEMMA Least ==
  ASSUME NEW T \in SUBSET Nat, T # {}
  PROVE  \E x \in T : \A y \in T : x <= y
<1>1. PICK x \in T : \A y \in T : ~(<<y, x>> \in OpToRel(<, Nat))
  BY NatLessThanWellFounded, WFMin
<1>2. \A y \in T : <<y, x>> \in OpToRel(<, Nat) <=> y < x
  BY DEF OpToRel
<1>3. \A y \in T : x <= y
  <2> TAKE y \in T
  <2>1. ~(y < x) /\ x \in Nat /\ y \in Nat
    BY <1>1, <1>2
  <2> QED
    BY <2>1
<1> QED
  BY <1>3

LEMMA Induction ==
  ASSUME NEW T \in SUBSET Nat, 0 \in T, \A n \in T : n + 1 \in T
  PROVE  T = Nat
<1> SUFFICES ASSUME Nat \ T # {} PROVE FALSE
  OBVIOUS
<1>1. PICK x \in Nat \ T : \A y \in Nat \ T : x <= y
  BY Least
<1>2. x - 1 \in Nat
  BY <1>1
<1> QED
  BY <1>1, <1>2

\* F gives a function on S its value at each place, from those at lower ranks.
IsRecursion(F, rank, S, V) ==
  /\ V # {} /\ F \in [[S -> V] \X S -> V]
  /\ \E m \in Nat : rank \in [S -> 0..m]
  /\ \A g, h \in [S -> V] : \A s \in S :
       (\A t \in S : rank[t] < rank[s] => g[t] = h[t]) => F[<<g, s>>] = F[<<h, s>>]

HasFixpoint(F, S, V) == \E g \in [S -> V] : \A s \in S : g[s] = F[<<g, s>>]

LEMMA RecursiveFunctionExists ==
  ASSUME NEW S, NEW V, NEW rank, NEW F, IsRecursion(F, rank, S, V)
  PROVE  HasFixpoint(F, S, V)
<1>0. /\ V # {} /\ F \in [[S -> V] \X S -> V]
      /\ \A g, h \in [S -> V] : \A s \in S :
           (\A t \in S : rank[t] < rank[s] => g[t] = h[t]) => F[<<g, s>>] = F[<<h, s>>]
  BY DEF IsRecursion
<1> PICK m \in Nat : rank \in [S -> 0..m]
  BY DEF IsRecursion
<1> DEFINE T == {k \in Nat : \E g \in [S -> V] : \A s \in S : rank[s] < k => g[s] = F[<<g, s>>]}
<1>1. 0 \in T
  <2>1. PICK v \in V : TRUE
    BY <1>0
  <2>2. [s \in S |-> v] \in [S -> V]
    OBVIOUS
  <2>3. \A s \in S : ~(rank[s] < 0)
    OBVIOUS
  <2> QED
    BY <2>2, <2>3
<1>2. ASSUME NEW k \in T PROVE k + 1 \in T
  <2>1. PICK g \in [S -> V] : \A s \in S : rank[s] < k => g[s] = F[<<g, s>>]
    OBVIOUS
  <2> DEFINE h == [s \in S |-> F[<<g, s>>]]
  <2>2. h \in [S -> V]
    BY <1>0
  <2>3. ASSUME NEW s \in S, rank[s] < k + 1 PROVE h[s] = F[<<h, s>>]
    <3>1. \A t \in S : rank[t] < rank[s] => h[t] = g[t]
      <4> TAKE t \in S
      <4> HAVE rank[t] < rank[s]
      <4>1. rank[t] < k
        BY <2>3
      <4> QED
        BY <2>1, <4>1
    <3>2. h[s] = F[<<g, s>>]
      OBVIOUS
    <3> HIDE DEF h
    <3>3. F[<<h, s>>] = F[<<g, s>>]
      BY <1>0, <2>2, <3>1
    <3> QED
      BY <3>2, <3>3
  <2> HIDE DEF h
  <2> QED
    BY <2>2, <2>3
<1>3. m + 1 \in T
  <2> HIDE DEF T
  <2>1. T = Nat
    BY <1>1, <1>2, Induction DEF T
  <2> QED
    BY <2>1
<1>4. PICK g \in [S -> V] : \A s \in S : rank[s] < m + 1 => g[s] = F[<<g, s>>]
  BY <1>3
<1>5. \A s \in S : g[s] = F[<<g, s>>]
  BY <1>4
<1> QED
  BY <1>5 DEF HasFixpoint

-----------------------------------------------------------------------------
(***************************************************************************)
(* Publications.                                                           *)
(***************************************************************************)

\* The jobs of a workflow, and their numbers as ranks.
LEMMA WorkflowTypes ==
  ASSUME NEW jobs, IsWorkflow(jobs)
  PROVE  /\ Len(jobs) \in Nat /\ DOMAIN jobs = 1..Len(jobs)
         /\ [j \in DOMAIN jobs |-> j] \in [DOMAIN jobs -> 0..Len(jobs)]
         /\ \A j \in DOMAIN jobs :
              /\ jobs[j].condition \in Conditions /\ jobs[j].steps \in Seq(Steps)
              /\ \A n \in jobs[j].needs : n \in DOMAIN jobs /\ n < j
<1>1. /\ jobs \in Seq([needs : SUBSET Nat, condition : Conditions, tolerant : BOOLEAN,
                       steps : Seq(Steps)])
      /\ \A j \in DOMAIN jobs : jobs[j].needs \subseteq 1..(j - 1)
  BY DEF IsWorkflow
<1>2. Len(jobs) \in Nat /\ DOMAIN jobs = 1..Len(jobs)
  BY <1>1
<1>3. \A j \in DOMAIN jobs :
        jobs[j].condition \in Conditions /\ jobs[j].steps \in Seq(Steps)
  <2> TAKE j \in DOMAIN jobs
  <2> DEFINE Jobs == [needs : SUBSET Nat, condition : Conditions, tolerant : BOOLEAN,
                     steps : Seq(Steps)]
  <2>1. jobs \in Seq(Jobs)
    BY <1>1
  <2> HIDE DEF Jobs
  <2>2. jobs[j] \in Jobs
    BY <2>1
  <2> QED
    BY <2>2 DEF Jobs
<1>4. \A j \in DOMAIN jobs : \A n \in jobs[j].needs : n \in 1..(j - 1)
  BY <1>1
<1> QED
  BY <1>2, <1>3, <1>4

LEMMA GatedByDependencyUnfolds ==
  ASSUME NEW jobs, IsWorkflow(jobs)
  PROVE  \E gated \in [DOMAIN jobs -> BOOLEAN] :
           /\ \A j \in DOMAIN jobs : GatedByDependency(jobs, j) <=> gated[j]
           /\ \A j \in DOMAIN jobs :
                gated[j] <=> /\ ~OverridesStatus(jobs[j])
                             /\ \E d \in jobs[j].needs :
                                  HasBlockingScan(jobs[d].steps) \/ gated[d]
<1> DEFINE D == DOMAIN jobs
           Body(gated, j) ==
             /\ ~OverridesStatus(jobs[j])
             /\ \E dependency \in jobs[j].needs :
                  HasBlockingScan(jobs[dependency].steps) \/ gated[dependency]
           F == [x \in [D -> BOOLEAN] \X D |-> Body(x[1], x[2])]
           rank == [j \in D |-> j]
<1>1. F \in [[D -> BOOLEAN] \X D -> BOOLEAN]
  BY DEF OverridesStatus
<1>2. \A g \in [D -> BOOLEAN], j \in D : F[<<g, j>>] = Body(g, j)
  OBVIOUS
<1>3. \A g, h \in [D -> BOOLEAN] : \A j \in D :
        (\A t \in D : rank[t] < rank[j] => g[t] = h[t]) => F[<<g, j>>] = F[<<h, j>>]
  <2> TAKE g, h \in [D -> BOOLEAN]
  <2> TAKE j \in D
  <2> HAVE \A t \in D : rank[t] < rank[j] => g[t] = h[t]
  <2>1. \A n \in jobs[j].needs : g[n] = h[n]
    BY WorkflowTypes
  <2>2. Body(g, j) = Body(h, j)
    BY <2>1
  <2> QED
    BY <1>2, <2>2
<1> HIDE DEF F
<1>4. \E g \in [D -> BOOLEAN] : \A j \in D : g[j] = F[<<g, j>>]
  <2>1. \E m \in Nat : rank \in [D -> 0..m]
    BY WorkflowTypes
  <2> HIDE DEF D, rank
  <2>2. IsRecursion(F, rank, D, BOOLEAN)
    BY <1>1, <1>3, <2>1 DEF IsRecursion
  <2>3. HasFixpoint(F, D, BOOLEAN)
    BY <2>2, RecursiveFunctionExists
  <2> QED
    BY <2>3 DEF HasFixpoint
<1>5. PICK g \in [D -> BOOLEAN] : g = [j \in D |-> Body(g, j)]
  <2>1. PICK g \in [D -> BOOLEAN] : \A j \in D : g[j] = F[<<g, j>>]
    BY <1>4
  <2>2. g = [j \in D |-> Body(g, j)]
    BY <1>2, <2>1
  <2> QED
    BY <2>2
<1> DEFINE gated == CHOOSE f : f = [j \in D |-> Body(f, j)]
<1>6. gated = [j \in D |-> Body(gated, j)]
  BY <1>5
<1>7. gated \in [D -> BOOLEAN]
  BY <1>6 DEF OverridesStatus
<1>8. \A j \in D : GatedByDependency(jobs, j) <=> gated[j]
  BY DEF GatedByDependency
<1> HIDE DEF gated
<1> QED
  BY <1>6, <1>7, <1>8

LEMMA OutcomesUnfold ==
  ASSUME NEW jobs, IsWorkflow(jobs), NEW severity, NEW holds
  PROVE  \A j \in DOMAIN jobs :
           LET outcome == Outcomes(jobs, severity, holds)
           IN  outcome[j] =
                 IF Starts(jobs[j], \E n \in jobs[j].needs : outcome[n] # "success", holds)
                 THEN IF /\ FailedBefore(jobs[j], severity, holds)[Len(jobs[j].steps) + 1]
                         /\ ~jobs[j].tolerant
                      THEN "failure" ELSE "success"
                 ELSE "skipped"
<1> DEFINE D == DOMAIN jobs
           V == {"success", "failure", "skipped"}
           Begins(outcome, j) ==
             Starts(jobs[j], \E n \in jobs[j].needs : outcome[n] # "success", holds)
           Ends(j) == IF /\ FailedBefore(jobs[j], severity, holds)[Len(jobs[j].steps) + 1]
                         /\ ~jobs[j].tolerant
                      THEN "failure" ELSE "success"
           Body(outcome, j) == IF Begins(outcome, j) THEN Ends(j) ELSE "skipped"
           F == [x \in [D -> V] \X D |-> Body(x[1], x[2])]
           rank == [j \in D |-> j]
<1>1. \A g, j : Body(g, j) \in V
  OBVIOUS
<1>2. /\ F \in [[D -> V] \X D -> V]
      /\ \A g \in [D -> V], j \in D : F[<<g, j>>] = Body(g, j)
  <2> HIDE DEF Body
  <2> QED
    BY <1>1
<1>3. \A g, h \in [D -> V] : \A j \in D :
        (\A t \in D : rank[t] < rank[j] => g[t] = h[t]) => F[<<g, j>>] = F[<<h, j>>]
  <2> TAKE g, h \in [D -> V]
  <2> TAKE j \in D
  <2> HAVE \A t \in D : rank[t] < rank[j] => g[t] = h[t]
  <2>1. \A n \in jobs[j].needs : g[n] = h[n]
    BY WorkflowTypes
  <2>2. Begins(g, j) <=> Begins(h, j)
    BY <2>1 DEF Starts
  <2>3. Body(g, j) = Body(h, j)
    BY <2>2
  <2> QED
    BY <1>2, <2>3
<1> HIDE DEF F
<1>4. \E g \in [D -> V] : \A j \in D : g[j] = F[<<g, j>>]
  <2>1. (\E m \in Nat : rank \in [D -> 0..m]) /\ V # {}
    BY WorkflowTypes
  <2> HIDE DEF D, rank, V
  <2>2. IsRecursion(F, rank, D, V)
    BY <1>2, <1>3, <2>1 DEF IsRecursion
  <2>3. HasFixpoint(F, D, V)
    BY <2>2, RecursiveFunctionExists
  <2> QED
    BY <2>3 DEF HasFixpoint
<1>5. \E g : g = [j \in D |-> Body(g, j)]
  <2>1. PICK g \in [D -> V] : \A j \in D : g[j] = F[<<g, j>>]
    BY <1>4
  <2>2. g = [j \in D |-> Body(g, j)]
    <3> HIDE DEF Body
    <3> QED
      BY <1>2, <2>1
  <2> QED
    BY <2>2
<1> DEFINE outcome == CHOOSE f : f = [j \in D |-> Body(f, j)]
<1>6. outcome = [j \in D |-> Body(outcome, j)]
  BY <1>5
<1>7. Outcomes(jobs, severity, holds) = outcome
  BY DEF Outcomes
<1>8. \A j \in D : outcome[j] = Body(outcome, j)
  <2> HIDE DEF outcome, Body
  <2> QED
    BY <1>6
<1> HIDE DEF outcome
<1> QED
  BY <1>7, <1>8

LEMMA FailedBeforeUnfolds ==
  ASSUME NEW job, job.steps \in Seq(Steps), NEW severity, NEW holds
  PROVE  LET failed == FailedBefore(job, severity, holds)
         IN  /\ ~failed[1]
             /\ \A i \in 1..Len(job.steps) :
                  failed[i + 1] <=> \/ failed[i]
                                    \/ /\ StepRuns(job, failed[i], i, holds)
                                       /\ StepFails(job.steps[i], severity)
<1> DEFINE n == Len(job.steps)
           D == 1..(n + 1)
           Body(failed, i) ==
             IF i = 1 THEN FALSE
             ELSE \/ failed[i - 1]
                  \/ /\ StepRuns(job, failed[i - 1], i - 1, holds)
                     /\ StepFails(job.steps[i - 1], severity)
           F == [x \in [D -> BOOLEAN] \X D |-> Body(x[1], x[2])]
           rank == [i \in D |-> i]
<1>0. n \in Nat
  OBVIOUS
<1>1. F \in [[D -> BOOLEAN] \X D -> BOOLEAN]
  <2>1. \A g \in [D -> BOOLEAN], i \in D : Body(g, i) \in BOOLEAN
    BY DEF StepRuns, Starts, StepFails
  <2> HIDE DEF Body, D
  <2> QED
    BY <2>1
<1>2. \A g \in [D -> BOOLEAN], i \in D : F[<<g, i>>] = Body(g, i)
  <2> HIDE DEF Body, D
  <2> QED
    OBVIOUS
<1>3. \A g, h \in [D -> BOOLEAN] : \A i \in D :
        (\A t \in D : rank[t] < rank[i] => g[t] = h[t]) => F[<<g, i>>] = F[<<h, i>>]
  <2> TAKE g, h \in [D -> BOOLEAN]
  <2> TAKE i \in D
  <2> HAVE \A t \in D : rank[t] < rank[i] => g[t] = h[t]
  <2>1. i # 1 => g[i - 1] = h[i - 1]
    <3> HIDE DEF n, Body
    <3>1. i \in Nat /\ 1 <= i /\ i <= n + 1
      BY <1>0
    <3>2. i # 1 => i - 1 \in D /\ i - 1 < i
      BY <1>0, <3>1
    <3>3. i # 1 => rank[i - 1] < rank[i]
      BY <3>2
    <3> HIDE DEF D, rank
    <3> QED
      BY <3>2, <3>3
  <2>2. Body(g, i) = Body(h, i)
    BY <2>1
  <2> QED
    BY <1>2, <2>2
<1> HIDE DEF F
<1>4. \E g \in [D -> BOOLEAN] : \A i \in D : g[i] = F[<<g, i>>]
  <2>1. \E m \in Nat : rank \in [D -> 0..m]
    <3>1. rank \in [D -> 0..(n + 1)] /\ n + 1 \in Nat
      BY <1>0
    <3> QED
      BY <3>1
  <2> HIDE DEF D, rank
  <2>2. IsRecursion(F, rank, D, BOOLEAN)
    BY <1>1, <1>3, <2>1 DEF IsRecursion
  <2>3. HasFixpoint(F, D, BOOLEAN)
    BY <2>2, RecursiveFunctionExists
  <2> QED
    BY <2>3 DEF HasFixpoint
<1>5. \E g : g = [i \in D |-> Body(g, i)]
  <2>1. PICK g \in [D -> BOOLEAN] : \A i \in D : g[i] = F[<<g, i>>]
    BY <1>4
  <2>2. g = [i \in D |-> Body(g, i)]
    <3> HIDE DEF Body
    <3> QED
      BY <1>2, <2>1
  <2> QED
    BY <2>2
<1> DEFINE failed == CHOOSE f : f = [i \in D |-> Body(f, i)]
<1>6. failed = [i \in D |-> Body(failed, i)]
  BY <1>5
<1>7. FailedBefore(job, severity, holds) = failed
  BY DEF FailedBefore
<1>8. \A i \in D : failed[i] = Body(failed, i)
  <2> HIDE DEF failed, Body
  <2> QED
    BY <1>6
<1> HIDE DEF failed
<1>9. ~failed[1]
  <2>1. 1 \in D
    <3> HIDE DEF n
    <3> QED
      BY <1>0
  <2> QED
    BY <1>8, <2>1
<1>10. ASSUME NEW i \in 1..n
       PROVE  failed[i + 1] <=> \/ failed[i]
                                \/ /\ StepRuns(job, failed[i], i, holds)
                                   /\ StepFails(job.steps[i], severity)
  <2>1. i + 1 \in D /\ i + 1 # 1 /\ (i + 1) - 1 = i
    BY <1>0
  <2>2. failed[i + 1] = Body(failed, i + 1)
    BY <1>8, <2>1
  <2> QED
    BY <2>1, <2>2
<1> QED
  BY <1>7, <1>9, <1>10

\* A blocking scan that finds something fails the job for good.
LEMMA BlockingScanFails ==
  ASSUME NEW job, job.steps \in Seq(Steps), NEW severity \in Severities, NEW holds,
         NEW i \in 1..Len(job.steps), IsBlockingScan(job.steps[i]),
         NEW k \in (i + 1)..(Len(job.steps) + 1)
  PROVE  FailedBefore(job, severity, holds)[k]
<1> DEFINE n == Len(job.steps)
           failed == FailedBefore(job, severity, holds)
           T == {t \in Nat : i + 1 + t <= n + 1 => failed[i + 1 + t]}
<1>1. n \in Nat
  OBVIOUS
<1>2. \A j \in 1..n : failed[j] => failed[j + 1]
  BY FailedBeforeUnfolds
<1>3. failed[i + 1]
  <2>1. StepFails(job.steps[i], severity)
    BY DEF IsBlockingScan, StepFails
  <2>2. ~failed[i] => StepRuns(job, failed[i], i, holds)
    BY DEF IsBlockingScan, StepRuns, Starts
  <2> QED
    BY <2>1, <2>2, FailedBeforeUnfolds
<1> HIDE DEF failed, n
<1>4. 0 \in T
  BY <1>3
<1>5. ASSUME NEW t \in T PROVE t + 1 \in T
  <2> SUFFICES ASSUME i + 1 + (t + 1) <= n + 1 PROVE failed[i + 1 + (t + 1)]
    OBVIOUS
  <2>1. failed[i + 1 + t] /\ i + 1 + t \in 1..n
    BY <1>1
  <2>2. failed[(i + 1 + t) + 1]
    BY <1>2, <2>1
  <2>3. (i + 1 + t) + 1 = i + 1 + (t + 1)
    OBVIOUS
  <2> QED
    BY <2>2, <2>3
<1>6. T = Nat
  <2> HIDE DEF T
  <2> QED
    BY <1>4, <1>5, Induction DEF T
<1>7. i \in 1..n /\ k \in (i + 1)..(n + 1)
  BY DEF n
<1>8. k - (i + 1) \in T /\ i + 1 + (k - (i + 1)) = k
  <2> HIDE DEF T
  <2> QED
    BY <1>1, <1>6, <1>7
<1> QED
  BY <1>1, <1>7, <1>8 DEF failed

\* So its job does not succeed,
LEMMA ScannedJobDoesNotSucceed ==
  ASSUME NEW jobs, IsWorkflow(jobs), NEW severity \in Severities, NEW holds,
         NEW j \in DOMAIN jobs, HasBlockingScan(jobs[j].steps), ~jobs[j].tolerant
  PROVE  Outcomes(jobs, severity, holds)[j] # "success"
<1>1. jobs[j].steps \in Seq(Steps)
  BY WorkflowTypes
<1>2. PICK i \in 1..Len(jobs[j].steps) : IsBlockingScan(jobs[j].steps[i])
  BY <1>1 DEF HasBlockingScan
<1>3. FailedBefore(jobs[j], severity, holds)[Len(jobs[j].steps) + 1]
  <2>1. Len(jobs[j].steps) + 1 \in (i + 1)..(Len(jobs[j].steps) + 1)
    BY <1>1
  <2> QED
    BY <1>1, <1>2, <2>1, BlockingScanFails
<1>4. \A failed : (IF Starts(jobs[j], failed, holds)
                   THEN IF /\ FailedBefore(jobs[j], severity, holds)[Len(jobs[j].steps) + 1]
                           /\ ~jobs[j].tolerant
                        THEN "failure" ELSE "success"
                   ELSE "skipped") # "success"
  BY <1>3
<1> QED
  BY <1>4, OutcomesUnfold

\* and whatever is gated by it, through however many jobs, is skipped.
LEMMA GatedJobIsSkipped ==
  ASSUME NEW jobs, IsWorkflow(jobs), NEW severity \in Severities, NEW holds,
         NEW id \in DOMAIN jobs, GatedByDependency(jobs, id), ~EscapesTheScan(jobs)
  PROVE  Outcomes(jobs, severity, holds)[id] = "skipped"
<1> DEFINE outcome == Outcomes(jobs, severity, holds)
<1>1. PICK gated \in [DOMAIN jobs -> BOOLEAN] :
        /\ \A j \in DOMAIN jobs : GatedByDependency(jobs, j) <=> gated[j]
        /\ \A j \in DOMAIN jobs :
             gated[j] <=> /\ ~OverridesStatus(jobs[j])
                          /\ \E d \in jobs[j].needs : HasBlockingScan(jobs[d].steps) \/ gated[d]
  BY GatedByDependencyUnfolds
<1> DEFINE T == {j \in DOMAIN jobs : gated[j] /\ outcome[j] # "skipped"}
<1>2. T \subseteq Nat
  BY WorkflowTypes
<1> HIDE DEF outcome
<1>3. T = {}
  <2> SUFFICES ASSUME T # {} PROVE FALSE
    OBVIOUS
  <2>1. PICK j \in T : \A k \in T : j <= k
    <3> HIDE DEF T
    <3> QED
      BY <1>2, Least
  <2>2. PICK d \in jobs[j].needs : HasBlockingScan(jobs[d].steps) \/ gated[d]
    BY <1>1, <2>1
  <2>3. d \in DOMAIN jobs /\ d < j /\ d \in Nat /\ j \in Nat
    BY <2>1, <2>2, WorkflowTypes
  <2>4. outcome[d] # "success"
    <3>1. CASE HasBlockingScan(jobs[d].steps)
      <4>1. ~jobs[d].tolerant
        BY <2>3, <3>1 DEF EscapesTheScan
      <4> QED
        BY <2>3, <3>1, <4>1, ScannedJobDoesNotSucceed DEF outcome
    <3>2. CASE gated[d]
      <4>1. d \notin T
        BY <2>1, <2>3
      <4> QED
        BY <2>3, <3>2, <4>1
    <3> QED
      BY <2>2, <3>1, <3>2
  <2>5. jobs[j].condition # "override" /\ jobs[j].condition # "unread"
    BY <1>1, <2>1 DEF OverridesStatus, EscapesTheScan
  <2>6. ~Starts(jobs[j], \E n \in jobs[j].needs : outcome[n] # "success", holds)
    BY <2>2, <2>4, <2>5 DEF Starts
  <2>7. outcome[j] = "skipped"
    BY <2>1, <2>6, OutcomesUnfold DEF outcome
  <2> QED
    BY <2>1, <2>7
<1> QED
  BY <1>1, <1>3 DEF outcome

\* After a scan that comes before the login, neither a login nor a push runs.
LEMMA ScannedFirstNeverPushes ==
  ASSUME NEW job, job.steps \in Seq(Steps), NEW severity \in Severities, NEW holds,
         Logins(job.steps) # {}, ScannedFirst(job),
         NEW i \in DOMAIN job.steps, job.steps[i].kind = "login",
         job.steps[i].condition # "unread",
         StepRuns(job, FailedBefore(job, severity, holds)[i], i, holds)
  PROVE  FALSE
<1> DEFINE n == Len(job.steps)
           at == LoginAt(job.steps)
<1>1. n \in Nat /\ DOMAIN job.steps = 1..n
  OBVIOUS
<1>2. at \in Logins(job.steps) /\ \A k \in Logins(job.steps) : at <= k
  <2>1. Logins(job.steps) \subseteq Nat
    BY <1>1 DEF Logins
  <2>2. \E x \in Logins(job.steps) : \A k \in Logins(job.steps) : x <= k
    BY <2>1, Least
  <2> QED
    BY <2>2 DEF LoginAt
<1>3. at \in 1..n /\ i \in at..n
  BY <1>1, <1>2 DEF Logins
<1>4. PICK k \in 1..(at - 1) : IsBlockingScan(job.steps[k])
  <2>1. HasBlockingScan(SubSeq(job.steps, 1, at - 1))
    BY DEF ScannedFirst
  <2> HIDE DEF at, n
  <2>2. /\ DOMAIN SubSeq(job.steps, 1, at - 1) = 1..(at - 1)
        /\ \A k \in 1..(at - 1) : SubSeq(job.steps, 1, at - 1)[k] = job.steps[k]
    BY <1>1, <1>3 DEF n
  <2> QED
    BY <2>1, <2>2 DEF HasBlockingScan
<1> HIDE DEF at
<1>5. FailedBefore(job, severity, holds)[i]
  <2>1. k \in 1..n /\ i \in (k + 1)..(n + 1)
    BY <1>1, <1>3, <1>4
  <2> QED
    BY <1>4, <2>1, BlockingScanFails
<1>6. ~OverridesStatus(job.steps[i])
  BY <1>3 DEF ScannedFirst, at
<1> QED
  BY <1>5, <1>6 DEF StepRuns, Starts, OverridesStatus

LEMMA GatedPublications ==
  ASSUME IsSubject(subject)
  PROVE  GatedNeverPublishes
<1> SUFFICES ASSUME subject.of = "publication", NEW id \in DOMAIN subject.jobs,
                    Publishes(subject.jobs[id]), GatedByBlockingScan(subject.jobs, id),
                    ~EscapesTheScan(subject.jobs),
                    NEW severity \in Severities, NEW holds \in BOOLEAN,
                    Pushed(subject.jobs, id, severity, holds)
             PROVE  FALSE
  BY DEF GatedNeverPublishes
<1> DEFINE jobs == subject.jobs
           job == jobs[id]
<1>1. IsWorkflow(jobs) /\ job.steps \in Seq(Steps)
  BY WorkflowTypes DEF IsSubject
<1>2. Outcomes(jobs, severity, holds)[id] # "skipped"
  BY DEF Pushed
<1>3. ScannedFirst(job)
  BY <1>1, <1>2, GatedJobIsSkipped DEF GatedByBlockingScan
<1>4. PICK i \in DOMAIN job.steps :
        /\ StepRuns(job, FailedBefore(job, severity, holds)[i], i, holds)
        /\ job.steps[i].kind = "login"
  BY DEF Pushed
<1>5. Logins(job.steps) # {}
  BY DEF Publishes
<1>6. job.steps[i].condition # "unread"
  BY <1>4 DEF EscapesTheScan
<1> QED
  BY <1>1, <1>3, <1>4, <1>5, <1>6, ScannedFirstNeverPushes

-----------------------------------------------------------------------------
(***************************************************************************)
(* Workflows: credentials and autonomy.                                    *)
(***************************************************************************)

LEMMA OidcFacts == OidcFactsAreTrue
<1> SUFFICES ASSUME subject.of = "credentials"
             PROVE  LET step == subject.step
                    IN  /\ UsesOidcOnly(step) /\ ~TakesAnotherRoute(step) => GetsOidc(step)
                        /\ GetsOidc(step) /\ step.keys = {} => UsesOidcOnly(step)
  BY DEF OidcFactsAreTrue
<1> DEFINE step == subject.step
<1>1. EffectivePermission(step) = "write" <=> TokenIsGiven(step)
  BY DEF EffectivePermission, TokenIsGiven
<1>2. ASSUME UsesOidcOnly(step), ~TakesAnotherRoute(step)
      PROVE  GetsOidc(step)
  BY <1>1, <1>2 DEF UsesOidcOnly, TakesAnotherRoute, GetsOidc, Credentials
<1>3. ASSUME GetsOidc(step), step.keys = {}
      PROVE  UsesOidcOnly(step)
  <2>1. Credentials(step, TRUE) = "oidc"
    BY <1>3 DEF GetsOidc
  <2>2. step.role /\ TokenIsGiven(step) /\ ~step.skipOidc /\ ~step.existing
    BY <2>1 DEF Credentials
  <2> QED
    BY <1>1, <1>3, <2>2 DEF UsesOidcOnly
<1> QED
  BY <1>2, <1>3

LEMMA AutonomyFactsHold ==
  ASSUME IsSubject(subject)
  PROVE  AutonomyFactsAreTrue
<1> SUFFICES ASSUME subject.of = "workflows" PROVE AutonomyFactsAreTrue
  BY DEF AutonomyFactsAreTrue
<1> DEFINE files == subject.files
           limit == subject.limit
           readable == Readable(files, limit)
           complete == readable = DOMAIN files
           Worker(i) == files[i].is \in {"worker", "broken_worker"}
           Gate(i) == files[i].is = "intent_gate"
           workers == {i \in readable : Worker(i)}
           gateKnown == (\E j \in readable : Gate(j)) \/ complete
           found == IF gateKnown THEN workers ELSE {}
           facts == AutonomyFacts(files, limit)
           merges == MergesAutonomously(files)
<1>1. readable \subseteq DOMAIN files
  BY DEF Readable, Examined, Eligible
<1>2. \A i, j \in DOMAIN files : Worker(i) /\ Worker(j) => i = j
  BY DEF IsSubject
<1>3. facts = IF found = {} /\ complete THEN {FALSE}
              ELSE {Autonomous(files, limit, i) : i \in found}
  BY DEF AutonomyFacts, WorkflowSetComplete
<1>4. merges <=> (\E i \in DOMAIN files : files[i].is = "worker") /\ (\E j \in DOMAIN files : Gate(j))
  BY DEF MergesAutonomously
<1>5. \A i : Autonomous(files, limit, i) <=> files[i].is = "worker" /\ \E j \in readable : Gate(j)
  BY DEF Autonomous
<1> HIDE DEF readable, facts, merges, files
<1>6. ASSUME FALSE \in facts PROVE ~merges
  <2>1. CASE found = {} /\ complete
    <3>1. workers = {}
      BY <2>1
    <3>2. \A i \in DOMAIN files : files[i].is # "worker"
      BY <2>1, <3>1
    <3> QED
      BY <1>4, <3>2
  <2>2. CASE ~(found = {} /\ complete)
    <3>1. PICK i \in found : ~Autonomous(files, limit, i)
      BY <1>3, <1>6, <2>2
    <3>2. i \in workers /\ gateKnown /\ i \in DOMAIN files
      BY <1>1, <3>1
    <3>3. ~(files[i].is = "worker" /\ \E j \in readable : Gate(j))
      BY <1>5, <3>1
    <3>4. CASE files[i].is = "worker"
      <4>1. complete /\ ~\E j \in readable : Gate(j)
        BY <3>2, <3>3, <3>4
      <4> QED
        BY <1>4, <4>1
    <3>5. CASE files[i].is # "worker"
      <4>1. \A k \in DOMAIN files : files[k].is # "worker"
        BY <1>2, <3>2, <3>5
      <4> QED
        BY <1>4, <4>1
    <3> QED
      BY <3>4, <3>5
  <2> QED
    BY <2>1, <2>2
<1>7. ASSUME WorkflowCoverage(files, limit) = "ok" PROVE facts = {merges}
  <2>1. complete
    BY <1>7 DEF WorkflowCoverage, WorkflowSetComplete, readable
  <2>2. found = workers /\ workers = {i \in DOMAIN files : Worker(i)}
    BY <2>1
  <2>3. CASE workers = {}
    <3>1. merges = FALSE
      <4>1. merges \in BOOLEAN
        BY DEF merges, MergesAutonomously
      <4> QED
        BY <1>4, <2>2, <2>3, <4>1
    <3>2. facts = {FALSE}
      BY <1>3, <2>1, <2>2, <2>3
    <3> QED
      BY <3>1, <3>2
  <2>4. CASE workers # {}
    <3>1. PICK i \in workers : TRUE
      BY <2>4
    <3>2. workers = {i}
      BY <1>2, <2>2, <3>1
    <3>3. facts = {Autonomous(files, limit, i)}
      BY <1>3, <2>2, <3>2
    <3>4. Autonomous(files, limit, i) <=> merges
      BY <1>2, <1>4, <1>5, <2>1, <2>2, <3>1
    <3>5. merges \in BOOLEAN /\ Autonomous(files, limit, i) \in BOOLEAN
      BY DEF Autonomous, merges, MergesAutonomously
    <3> QED
      BY <3>3, <3>4, <3>5
  <2> QED
    BY <2>3, <2>4
<1> QED
  BY <1>6, <1>7 DEF AutonomyFactsAreTrue, facts, merges, files

-----------------------------------------------------------------------------
(***************************************************************************)
(* Deployments.                                                            *)
(***************************************************************************)

LEMMA HardenedContainers == HardenedNeverRoot
<1> SUFFICES ASSUME subject.of = "containers", NEW imageUser \in {"root", "other"},
                    AllContainersHardened(subject.containers, subject.pod),
                    NEW c \in subject.containers
             PROVE  ~StartsAsRoot(c, subject.pod, imageUser)
  BY DEF HardenedNeverRoot
<1>1. IsHardened(c, subject.pod)
  BY DEF AllContainersHardened
<1> QED
  BY <1>1 DEF IsHardened, Inherited, StartsAsRoot

LEMMA CombinedFactsHold == CombinedFactsHoldEverywhere
<1> SUFFICES ASSUME subject.of = "profiles", DeploymentCoverage(subject.profiles) = "ok",
                    NEW p \in DOMAIN subject.profiles, NEW q \in DOMAIN subject.profiles,
                    NEW d \in Range(subject.profiles[p])
             PROVE  LET facts == CombinedFacts(subject.profiles)
                    IN  /\ d.object \in DOMAIN facts
                        /\ d.application =>
                             \E e \in Range(subject.profiles[q]) : e.object = d.object
                        /\ facts[d.object] => d.fact
  BY DEF CombinedFactsHoldEverywhere
<1> DEFINE profiles == subject.profiles
           applications(r) == {k.object : k \in {e \in KeptOf(profiles[r]) : e.application}}
           objects == UNION {{k.object : k \in KeptOf(profiles[r])} : r \in DOMAIN profiles}
           factOf(o) == \A r \in DOMAIN profiles :
                          \A k \in KeptOf(profiles[r]) : k.object = o => k.fact
           facts == CombinedFacts(profiles)
<1>1. /\ \A r \in DOMAIN profiles : EvaluatedCompletely(profiles[r])
      /\ applications(p) = applications(q)
  BY DEF DeploymentCoverage
<1>2. KeptOf(profiles[p]) = Range(profiles[p]) /\ KeptOf(profiles[q]) = Range(profiles[q])
  BY <1>1 DEF KeptOf, EvaluatedCompletely, Range
<1>3. DOMAIN facts = objects /\ \A o \in objects : facts[o] = factOf(o)
  BY DEF CombinedFacts
<1>4. d.object \in objects
  BY <1>2
<1>5. ASSUME d.application
      PROVE  \E e \in Range(profiles[q]) : e.object = d.object
  <2>1. d.object \in applications(p)
    BY <1>2, <1>5
  <2> QED
    BY <1>1, <1>2, <2>1
<1>6. ASSUME facts[d.object]
      PROVE  d.fact
  <2>1. factOf(d.object)
    BY <1>3, <1>4, <1>6
  <2> QED
    BY <1>2, <2>1
<1> QED
  BY <1>3, <1>4, <1>5, <1>6 DEF facts

-----------------------------------------------------------------------------
(***************************************************************************)
(* IAM: what is not reported is not there.                                 *)
(***************************************************************************)

LEMMA ProvedIam ==
  ASSUME IsSubject(subject)
  PROVE  ProvedIamGrantsNoWildcard
<1> SUFFICES ASSUME subject.of = "iam", IamCoverage(subject.blocks) = "ok",
                    IamEvidence(subject.blocks) = {},
                    SomebodyMayHoldWildcard(subject.blocks)
             PROVE  FALSE
  BY DEF ProvedIamGrantsNoWildcard
<1> DEFINE blocks == subject.blocks
<1>1. \A b \in blocks : ~Fails(blocks, b) /\ IsIamBlock(b)
  BY DEF IamCoverage, IsSubject
<1>2. ASSUME NEW b \in blocks, StatementIsKnown(b.statement),
             b.type = "document" \/ (b.type = "policy" /\ b.body = "literal")
      PROVE  ~MayGrantWildcard(b.statement)
  <2>1. ~GrantsWildcard(b.statement)
    BY <1>2 DEF IamEvidence
  <2>2. b.statement.effect \in Effects /\ b.statement.action \in Actions
    BY <1>1, <1>2 DEF IsIamBlock
  <2> QED
    BY <1>2, <2>1, <2>2 DEF GrantsWildcard, MayGrantWildcard, StatementIsKnown, Effects, Actions
<1>3. PICK attachment \in blocks :
        /\ attachment.type = "attachment"
        /\ LET found == {c \in blocks : /\ c.type = "policy" /\ c.root = attachment.root
                                        /\ c.name = attachment.target}
           IN  found = {} \/ \E c \in found : PolicyMayGrant(blocks, c)
  <2>1. \A b \in blocks : b.type # "hidden"
    BY <1>1 DEF Fails
  <2> QED
    BY <2>1 DEF SomebodyMayHoldWildcard
<1>4. attachment.target \in PoliciesIn(blocks, attachment.root)
  BY <1>1, <1>3 DEF Fails
<1>5. PICK policy \in blocks : policy.type = "policy" /\ PolicyMayGrant(blocks, policy)
  BY <1>3, <1>4 DEF PoliciesIn
<1>6. ~Fails(blocks, policy) /\ policy.body \in {"literal", "reference"}
  BY <1>1, <1>5 DEF IsIamBlock
<1>7. CASE policy.body = "literal"
  <2>1. StatementIsKnown(policy.statement)
    BY <1>5, <1>6, <1>7 DEF Fails
  <2> QED
    BY <1>2, <1>5, <1>7, <2>1 DEF PolicyMayGrant
<1>8. CASE policy.body = "reference"
  <2>1. policy.target \in DocumentsRead(blocks, policy.root)
    BY <1>5, <1>6, <1>8 DEF Fails
  <2>2. PICK b \in blocks : /\ b.type = "document" /\ b.root = policy.root
                            /\ b.name = policy.target /\ MayGrantWildcard(b.statement)
    BY <1>5, <1>8, <2>1 DEF PolicyMayGrant, DocumentsRead
  <2>3. StatementIsKnown(b.statement)
    BY <1>1, <2>2 DEF Fails
  <2> QED
    BY <1>2, <2>2, <2>3
<1> QED
  BY <1>6, <1>7, <1>8

-----------------------------------------------------------------------------
(***************************************************************************)
(* The names of actions.                                                   *)
(***************************************************************************)

\* From which places of the pattern and of the name on they match.
IsMatching(M, pattern, name) ==
  LET p == Len(pattern)
      n == Len(name)
  IN  /\ \A j \in 1..(n + 1) : <<p + 1, j>> \in M <=> j > n
      /\ \A i \in 1..p, j \in 1..(n + 1) :
           pattern[i] = "*" =>
             (<<i, j>> \in M <=> <<i + 1, j>> \in M \/ (j <= n /\ <<i, j + 1>> \in M))
      /\ \A i \in 1..p, j \in 1..(n + 1) :
           pattern[i] # "*" =>
             (<<i, j>> \in M <=>
                j <= n /\ (pattern[i] = "?" \/ pattern[i] = name[j]) /\ <<i + 1, j + 1>> \in M)

LEMMA MatchesUnfolds ==
  ASSUME NEW pattern \in Seq(STRING), NEW name \in Seq(STRING)
  PROVE  \E M : IsMatching(M, pattern, name) /\ (Matches(pattern, name) <=> <<1, 1>> \in M)
<1> DEFINE p == Len(pattern)
           n == Len(name)
           D == (1..(p + 1)) \X (1..(n + 1))
           At(match, i, j) ==
             IF i > p THEN j > n
             ELSE IF pattern[i] = "*" THEN match[<<i + 1, j>>] \/ (j <= n /\ match[<<i, j + 1>>])
             ELSE j <= n /\ pattern[i] \in {"?", name[j]} /\ match[<<i + 1, j + 1>>]
           F == [x \in [D -> BOOLEAN] \X D |-> At(x[1], x[2][1], x[2][2])]
           rank == [d \in D |-> (p + 1 - d[1]) + (n + 1 - d[2])]
<1>0. p \in Nat /\ n \in Nat
  OBVIOUS
<1>1. F \in [[D -> BOOLEAN] \X D -> BOOLEAN]
  <2>1. \A g \in [D -> BOOLEAN] : \A i \in 1..(p + 1), j \in 1..(n + 1) : At(g, i, j) \in BOOLEAN
    <3> TAKE g \in [D -> BOOLEAN]
    <3> TAKE i \in 1..(p + 1), j \in 1..(n + 1)
    <3> HIDE DEF D, p, n
    <3>1. CASE i > p
      BY <3>1
    <3>2. CASE ~(i > p) /\ pattern[i] = "*"
      BY <3>2
    <3>3. CASE ~(i > p) /\ pattern[i] # "*"
      BY <3>3
    <3> QED
      BY <3>1, <3>2, <3>3
  <2>2. \A d \in D : d[1] \in 1..(p + 1) /\ d[2] \in 1..(n + 1)
    OBVIOUS
  <2> HIDE DEF At, D
  <2> QED
    BY <2>1, <2>2
<1>2. \A g \in [D -> BOOLEAN], d \in D : F[<<g, d>>] = At(g, d[1], d[2])
  <2> HIDE DEF At, D
  <2> QED
    OBVIOUS
<1>3. \A g, h \in [D -> BOOLEAN] : \A d \in D :
        (\A t \in D : rank[t] < rank[d] => g[t] = h[t]) => F[<<g, d>>] = F[<<h, d>>]
  <2> TAKE g, h \in [D -> BOOLEAN]
  <2> TAKE d \in D
  <2> HAVE \A t \in D : rank[t] < rank[d] => g[t] = h[t]
  <2>1. PICK i \in 1..(p + 1), j \in 1..(n + 1) : d = <<i, j>>
    OBVIOUS
  <2>2. ASSUME NEW k \in 1..(p + 1), NEW l \in 1..(n + 1), k >= i, l >= j, k + l > i + j
        PROVE  g[<<k, l>>] = h[<<k, l>>]
    <3> HIDE DEF p, n, At
    <3>1. rank[<<k, l>>] = (p + 1 - k) + (n + 1 - l) /\ rank[d] = (p + 1 - i) + (n + 1 - j)
      BY <2>1
    <3>2. rank[<<k, l>>] < rank[d]
      BY <1>0, <2>2, <3>1
    <3> QED
      BY <3>2
  <2>3. At(g, i, j) = At(h, i, j)
    <3> HIDE DEF p, n, rank, D
    <3>1. CASE i > p
      BY <3>1
    <3>2. CASE i <= p
      <4>1. /\ g[<<i + 1, j>>] = h[<<i + 1, j>>]
            /\ j <= n => g[<<i, j + 1>>] = h[<<i, j + 1>>]
            /\ j <= n => g[<<i + 1, j + 1>>] = h[<<i + 1, j + 1>>]
        <5>1. /\ i \in Nat /\ j \in Nat /\ i + 1 \in 1..(p + 1)
              /\ j <= n => j + 1 \in 1..(n + 1)
          BY <1>0, <3>2
        <5>2. g[<<i + 1, j>>] = h[<<i + 1, j>>]
          BY <2>2, <5>1
        <5>3. ASSUME j <= n
              PROVE  g[<<i, j + 1>>] = h[<<i, j + 1>>] /\ g[<<i + 1, j + 1>>] = h[<<i + 1, j + 1>>]
          BY <2>2, <5>1, <5>3
        <5> QED
          BY <5>2, <5>3
      <4> QED
        BY <3>2, <4>1
    <3> QED
      BY <1>0, <3>1, <3>2
  <2>4. d[1] = i /\ d[2] = j
    BY <2>1
  <2>5. F[<<g, d>>] = At(g, i, j) /\ F[<<h, d>>] = At(h, i, j)
    <3> HIDE DEF At, D, F
    <3> QED
      BY <1>2, <2>4
  <2> HIDE DEF At, F
  <2> QED
    BY <2>3, <2>5
<1> HIDE DEF F
<1>4. \E g \in [D -> BOOLEAN] : \A d \in D : g[d] = F[<<g, d>>]
  <2>1. \E m \in Nat : rank \in [D -> 0..m]
    <3> HIDE DEF p, n
    <3>1. p + n \in Nat /\ \A i \in 1..(p + 1), j \in 1..(n + 1) :
             (p + 1 - i) + (n + 1 - j) \in 0..(p + n)
      BY <1>0
    <3>2. rank \in [D -> 0..(p + n)]
      BY <3>1
    <3> QED
      BY <3>1, <3>2
  <2> HIDE DEF D, rank
  <2>2. IsRecursion(F, rank, D, BOOLEAN)
    BY <1>1, <1>3, <2>1 DEF IsRecursion
  <2>3. HasFixpoint(F, D, BOOLEAN)
    BY <2>2, RecursiveFunctionExists
  <2> QED
    BY <2>3 DEF HasFixpoint
<1>5. \E g : g = [d \in D |-> At(g, d[1], d[2])]
  <2>1. PICK g \in [D -> BOOLEAN] : \A d \in D : g[d] = F[<<g, d>>]
    BY <1>4
  <2>2. g = [d \in D |-> At(g, d[1], d[2])]
    <3> HIDE DEF At, D
    <3> QED
      BY <1>2, <2>1
  <2> QED
    BY <2>2
<1> DEFINE match == CHOOSE f : f = [d \in D |-> At(f, d[1], d[2])]
<1>6. match = [d \in D |-> At(match, d[1], d[2])]
  BY <1>5
<1>7. Matches(pattern, name) <=> match[<<1, 1>>]
  BY DEF Matches
<1>8. \A i \in 1..(p + 1), j \in 1..(n + 1) : match[<<i, j>>] <=> At(match, i, j)
  <2> HIDE DEF match, At, p, n
  <2> QED
    BY <1>6
<1> HIDE DEF match
<1> DEFINE M == {d \in D : match[d]}
<1>9. IsMatching(M, pattern, name)
  <2>1. \A j \in 1..(n + 1) : <<p + 1, j>> \in M <=> j > n
    <3> TAKE j \in 1..(n + 1)
    <3>1. p + 1 \in 1..(p + 1) /\ p + 1 > p
      BY <1>0
    <3>2. match[<<p + 1, j>>] <=> j > n
      BY <1>8, <3>1
    <3> HIDE DEF p, n
    <3> QED
      BY <3>1, <3>2
  <2>2. ASSUME NEW i \in 1..p, NEW j \in 1..(n + 1)
        PROVE  /\ pattern[i] = "*" =>
                    (<<i, j>> \in M <=> <<i + 1, j>> \in M \/ (j <= n /\ <<i, j + 1>> \in M))
               /\ pattern[i] # "*" =>
                    (<<i, j>> \in M <=>
                       /\ j <= n /\ (pattern[i] = "?" \/ pattern[i] = name[j])
                       /\ <<i + 1, j + 1>> \in M)
    <3> HIDE DEF p, n
    <3>1. /\ i \in 1..(p + 1) /\ i + 1 \in 1..(p + 1) /\ ~(i > p)
          /\ j <= n => j + 1 \in 1..(n + 1)
      BY <1>0
    <3>2. match[<<i, j>>] <=> At(match, i, j)
      BY <1>8, <3>1
    <3>3. /\ <<i, j>> \in M <=> match[<<i, j>>]
          /\ <<i + 1, j>> \in M <=> match[<<i + 1, j>>]
          /\ j <= n => (<<i, j + 1>> \in M <=> match[<<i, j + 1>>])
          /\ j <= n => (<<i + 1, j + 1>> \in M <=> match[<<i + 1, j + 1>>])
      BY <3>1
    <3> HIDE DEF M
    <3>4. CASE pattern[i] = "*"
      <4>1. At(match, i, j) <=> match[<<i + 1, j>>] \/ (j <= n /\ match[<<i, j + 1>>])
        BY <3>1, <3>4
      <4> HIDE DEF At
      <4> QED
        BY <3>2, <3>3, <3>4, <4>1
    <3>5. CASE pattern[i] # "*"
      <4>1. At(match, i, j) <=>
              j <= n /\ pattern[i] \in {"?", name[j]} /\ match[<<i + 1, j + 1>>]
        BY <3>1, <3>5
      <4> HIDE DEF At
      <4> QED
        BY <3>2, <3>3, <3>5, <4>1
    <3> QED
      BY <3>4, <3>5
  <2> HIDE DEF M
  <2> QED
    BY <2>1, <2>2 DEF IsMatching
<1>10. Matches(pattern, name) <=> <<1, 1>> \in M
  <2>1. <<1, 1>> \in D
    <3> HIDE DEF p, n
    <3> QED
      BY <1>0
  <2> QED
    BY <1>7, <2>1
<1> HIDE DEF M
<1> QED
  BY <1>9, <1>10

\* Whatever is literal in a pattern is in every name that matches it.
LEMMA LettersAreMatched ==
  ASSUME NEW pattern \in Seq(STRING), NEW name \in Seq(STRING), Matches(pattern, name)
  PROVE  Range(pattern) \ Wildcards \subseteq Range(name)
<1> DEFINE p == Len(pattern)
           n == Len(name)
<1>1. PICK M : IsMatching(M, pattern, name) /\ (Matches(pattern, name) <=> <<1, 1>> \in M)
  BY MatchesUnfolds
<1>2. p \in Nat /\ n \in Nat /\ DOMAIN pattern = 1..p /\ DOMAIN name = 1..n
  OBVIOUS
<1>0. /\ \A j \in 1..(n + 1) : <<p + 1, j>> \in M <=> j > n
      /\ \A i \in 1..p, j \in 1..(n + 1) :
           pattern[i] = "*" =>
             (<<i, j>> \in M <=> <<i + 1, j>> \in M \/ (j <= n /\ <<i, j + 1>> \in M))
      /\ \A i \in 1..p, j \in 1..(n + 1) :
           pattern[i] # "*" =>
             (<<i, j>> \in M <=>
                j <= n /\ (pattern[i] = "?" \/ pattern[i] = name[j]) /\ <<i + 1, j + 1>> \in M)
  BY <1>1 DEF IsMatching
<1> HIDE DEF p, n
<1> DEFINE Found(i) == \A k \in i..p : pattern[k] \notin Wildcards => pattern[k] \in Range(name)
           T == {m \in Nat : \A i \in 1..(p + 1), j \in 1..(n + 1) :
                   (p + 1 - i) + (n + 1 - j) = m /\ <<i, j>> \in M => Found(i)}
<1>3. \A i \in 1..p : Found(i + 1) /\ pattern[i] \in Wildcards \cup Range(name) => Found(i)
  <2> TAKE i \in 1..p
  <2>1. \A k \in i..p : k = i \/ k \in (i + 1)..p
    BY <1>2
  <2> QED
    BY <2>1
<1>4. ASSUME NEW m \in Nat, \A l \in Nat : l < m => l \in T
      PROVE  m \in T
  <2> SUFFICES ASSUME NEW i \in 1..(p + 1), NEW j \in 1..(n + 1),
                      (p + 1 - i) + (n + 1 - j) = m, <<i, j>> \in M
               PROVE  Found(i)
    OBVIOUS
  <2>1. ASSUME NEW k \in 1..(p + 1), NEW l \in 1..(n + 1), k >= i, l >= j, k + l > i + j,
               <<k, l>> \in M
        PROVE  Found(k)
    <3> HIDE DEF Found
    <3>1. (p + 1 - k) + (n + 1 - l) \in Nat /\ (p + 1 - k) + (n + 1 - l) < m
      BY <1>2, <2>1
    <3>2. (p + 1 - k) + (n + 1 - l) \in T
      BY <1>4, <3>1
    <3> QED
      BY <2>1, <3>2
  <2>2. CASE i > p
    BY <1>2, <2>2
  <2>3. CASE i <= p /\ pattern[i] = "*"
    <3> HIDE DEF Found
    <3>1. i \in 1..p /\ i + 1 \in 1..(p + 1) /\ pattern[i] \in Wildcards
      BY <1>2, <2>3 DEF Wildcards
    <3>2. <<i + 1, j>> \in M \/ (j <= n /\ <<i, j + 1>> \in M)
      BY <1>0, <1>2, <2>3, <3>1
    <3>3. CASE <<i + 1, j>> \in M
      <4>1. Found(i + 1)
        BY <1>2, <2>1, <3>1, <3>3
      <4> QED
        BY <1>3, <3>1, <4>1
    <3>4. CASE j <= n /\ <<i, j + 1>> \in M
      <4>1. j + 1 \in 1..(n + 1)
        BY <1>2, <3>4
      <4> QED
        BY <1>2, <2>1, <3>4, <4>1
    <3> QED
      BY <3>2, <3>3, <3>4
  <2>4. CASE i <= p /\ pattern[i] # "*"
    <3> HIDE DEF Found
    <3>1. i \in 1..p /\ i + 1 \in 1..(p + 1)
      BY <1>2, <2>4
    <3>2. j <= n /\ (pattern[i] = "?" \/ pattern[i] = name[j]) /\ <<i + 1, j + 1>> \in M
      BY <1>0, <1>2, <2>4, <3>1
    <3>3. j \in 1..n /\ j + 1 \in 1..(n + 1)
      BY <1>2, <3>2
    <3>4. Found(i + 1)
      BY <1>2, <2>1, <3>1, <3>2, <3>3
    <3>5. pattern[i] \in Wildcards \cup Range(name)
      BY <1>2, <3>2, <3>3 DEF Wildcards, Range
    <3> QED
      BY <1>3, <3>1, <3>4, <3>5
  <2> QED
    BY <1>2, <2>2, <2>3, <2>4
<1>5. T = Nat
  <2> HIDE DEF T
  <2> SUFFICES ASSUME Nat \ T # {} PROVE FALSE
    BY DEF T
  <2>1. PICK m \in Nat \ T : \A l \in Nat \ T : m <= l
    BY Least
  <2> QED
    BY <1>4, <2>1
<1>6. Found(1)
  <2> HIDE DEF Found
  <2>1. (p + 1 - 1) + (n + 1 - 1) \in T /\ 1 \in 1..(p + 1) /\ 1 \in 1..(n + 1)
    <3> HIDE DEF T
    <3> QED
      BY <1>2, <1>5
  <2>2. <<1, 1>> \in M
    BY <1>1
  <2> QED
    BY <2>1, <2>2
<1> QED
  BY <1>2, <1>6 DEF Range

\* A pattern of nothing but wildcards, a star among them, matches all names that are
\* long enough.
LEMMA WildcardsMatch ==
  ASSUME NEW pattern \in Seq(STRING), NEW name \in Seq(STRING), Len(name) >= Len(pattern),
         Range(pattern) \subseteq Wildcards, "*" \in Range(pattern)
  PROVE  Matches(pattern, name)
<1> DEFINE p == Len(pattern)
           n == Len(name)
<1>1. PICK M : IsMatching(M, pattern, name) /\ (Matches(pattern, name) <=> <<1, 1>> \in M)
  BY MatchesUnfolds
<1>2. /\ p \in Nat /\ n \in Nat /\ n >= p
      /\ \A i \in 1..p : pattern[i] = "*" \/ pattern[i] = "?"
      /\ \E i \in 1..p : pattern[i] = "*"
  BY DEF Range, Wildcards
<1>0. /\ \A j \in 1..(n + 1) : <<p + 1, j>> \in M <=> j > n
      /\ \A i \in 1..p, j \in 1..(n + 1) :
           pattern[i] = "*" =>
             (<<i, j>> \in M <=> <<i + 1, j>> \in M \/ (j <= n /\ <<i, j + 1>> \in M))
      /\ \A i \in 1..p, j \in 1..(n + 1) :
           pattern[i] # "*" =>
             (<<i, j>> \in M <=>
                j <= n /\ (pattern[i] = "?" \/ pattern[i] = name[j]) /\ <<i + 1, j + 1>> \in M)
  BY <1>1 DEF IsMatching
<1> HIDE DEF p, n
\* With a star to come it takes whatever is too much; without one there is nothing
\* too much left.
<1> DEFINE Star(i) == \E k \in i..p : pattern[k] = "*"
           Fits(i, j) == IF Star(i) THEN n + 1 - j >= p - i ELSE n - j = p - i
           T == {m \in Nat : \A i \in 1..(p + 1), j \in 1..(n + 1) :
                   (p + 1 - i) + (n + 1 - j) = m /\ Fits(i, j) => <<i, j>> \in M}
<1>3. /\ ~Star(p + 1)
      /\ \A i \in 1..p : Star(i) <=> pattern[i] = "*" \/ Star(i + 1)
  <2>1. (p + 1)..p = {}
    BY <1>2
  <2>2. \A i \in 1..p : i..p = {i} \cup (i + 1)..p
    BY <1>2
  <2> QED
    BY <2>1, <2>2
<1>4. ASSUME NEW m \in Nat, \A l \in Nat : l < m => l \in T
      PROVE  m \in T
  <2> SUFFICES ASSUME NEW i \in 1..(p + 1), NEW j \in 1..(n + 1),
                      (p + 1 - i) + (n + 1 - j) = m, Fits(i, j)
               PROVE  <<i, j>> \in M
    OBVIOUS
  <2> HIDE DEF Star
  <2>1. ASSUME NEW k \in 1..(p + 1), NEW l \in 1..(n + 1), k >= i, l >= j, k + l > i + j,
               Fits(k, l)
        PROVE  <<k, l>> \in M
    <3> HIDE DEF Fits
    <3>1. (p + 1 - k) + (n + 1 - l) \in Nat /\ (p + 1 - k) + (n + 1 - l) < m
      BY <1>2, <2>1
    <3>2. (p + 1 - k) + (n + 1 - l) \in T
      BY <1>4, <3>1
    <3> QED
      BY <2>1, <3>2
  <2>2. CASE i > p
    <3>1. i = p + 1 /\ ~Star(i)
      BY <1>2, <1>3, <2>2
    <3>2. j > n
      BY <1>2, <3>1
    <3> QED
      BY <1>0, <1>2, <2>2, <3>1, <3>2
  <2>3. CASE i <= p /\ pattern[i] = "*"
    <3>1. i \in 1..p /\ i + 1 \in 1..(p + 1) /\ Star(i) /\ n + 1 - j >= p - i
      BY <1>2, <1>3, <2>3
    <3>2. SUFFICES <<i + 1, j>> \in M \/ (j <= n /\ <<i, j + 1>> \in M)
      BY <1>0, <1>2, <2>3, <3>1
    <3>3. CASE Star(i + 1) \/ n + 1 - j = p - i
      <4>1. Fits(i + 1, j)
        BY <1>2, <3>1, <3>3
      <4> QED
        BY <1>2, <2>1, <3>1, <4>1
    <3>4. CASE n + 1 - j # p - i
      <4>1. j <= n /\ j + 1 \in 1..(n + 1) /\ Fits(i, j + 1)
        BY <1>2, <3>1, <3>4
      <4> QED
        BY <1>2, <2>1, <4>1
    <3> QED
      BY <3>3, <3>4
  <2>4. CASE i <= p /\ pattern[i] # "*"
    <3>1. i \in 1..p /\ i + 1 \in 1..(p + 1) /\ pattern[i] = "?" /\ (Star(i) <=> Star(i + 1))
      BY <1>2, <1>3, <2>4
    <3>2. Star(i) => i < p
      BY <1>2, <1>3, <3>1
    <3>3. j <= n /\ j + 1 \in 1..(n + 1) /\ Fits(i + 1, j + 1)
      BY <1>2, <3>1, <3>2
    <3>4. <<i + 1, j + 1>> \in M
      BY <1>2, <2>1, <3>1, <3>3
    <3> QED
      BY <1>0, <1>2, <2>4, <3>1, <3>3, <3>4
  <2> QED
    BY <1>2, <2>2, <2>3, <2>4
<1>5. T = Nat
  <2> HIDE DEF T
  <2> SUFFICES ASSUME Nat \ T # {} PROVE FALSE
    BY DEF T
  <2>1. PICK m \in Nat \ T : \A l \in Nat \ T : m <= l
    BY Least
  <2> QED
    BY <1>4, <2>1
<1>6. (p + 1 - 1) + (n + 1 - 1) \in T /\ 1 \in 1..(p + 1) /\ 1 \in 1..(n + 1)
  <2> HIDE DEF T
  <2> QED
    BY <1>2, <1>5
<1>7. Fits(1, 1)
  BY <1>2
<1>8. <<1, 1>> \in M
  <2> HIDE DEF Fits
  <2> QED
    BY <1>6, <1>7
<1> QED
  BY <1>1, <1>8

LEMMA ServiceWideActions ==
  ASSUME IsSubject(subject)
  PROVE  ServiceWideIsRecognised
<1> SUFFICES ASSUME subject.of = "action"
             PROVE  IsServiceWide(subject.action) <=> AllowsWholeService(subject.action, Services)
  BY DEF ServiceWideIsRecognised
<1> DEFINE action == subject.action
           pattern == action.name
<1>1. /\ pattern \in Seq(STRING) /\ Range(action.service) \cap Wildcards = {}
      /\ \A letter \in Range(pattern) \ Wildcards :
           \E name \in Services : Len(name) >= Len(pattern) /\ letter \notin Range(name)
  BY DEF IsSubject, IsActionName
<1>2. IsServiceWide(action) <=> Range(pattern) \subseteq Wildcards /\ "*" \in Range(pattern)
  BY <1>1 DEF IsServiceWide, Range
<1>3. AllowsWholeService(action, Services)
        <=> /\ "*" \in Range(pattern)
            /\ \A name \in Services : Len(name) >= Len(pattern) => Matches(pattern, name)
  BY DEF AllowsWholeService, Range
<1> HIDE DEF action, pattern
<1>4. ASSUME IsServiceWide(action) PROVE AllowsWholeService(action, Services)
  BY <1>1, <1>2, <1>3, <1>4, WildcardsMatch, ServicesAssumption
<1>5. ASSUME AllowsWholeService(action, Services) PROVE IsServiceWide(action)
  BY <1>1, <1>2, <1>3, <1>5, LettersAreMatched, ServicesAssumption
<1> QED
  BY <1>4, <1>5 DEF action

-----------------------------------------------------------------------------
(***************************************************************************)
(* Costs.                                                                  *)
(***************************************************************************)

LEMMA AtMostOne ==
  ASSUME NEW S, IsFiniteSet(S), Cardinality(S) <= 1, NEW x \in S, NEW y \in S
  PROVE  x = y
<1>1. IsFiniteSet(S \ {x}) /\ Cardinality(S \ {x}) = Cardinality(S) - 1
  BY FS_RemoveElement
<1>2. Cardinality(S) \in Nat /\ Cardinality(S \ {x}) \in Nat
  BY <1>1, FS_CardinalityType
<1>3. S \ {x} = {}
  BY <1>1, <1>2, FS_EmptySet
<1> QED
  BY <1>3

LEMMA BoundedRegistry ==
  ASSUME IsSubject(subject)
  PROVE  BoundedRegistryExpiresAll
<1> SUFFICES ASSUME subject.of = "registry", RepositoryReported(subject.policies),
                    BoundedLifecycle(subject.policies), NEW rules \in subject.policies
             PROVE  KeptForever(rules) = {}
  BY DEF BoundedRegistryExpiresAll
<1>1. PICK other \in subject.policies : ExpiresUntagged(other) /\ BoundsRetainedImages(other)
  BY DEF BoundedLifecycle
<1>2. rules = other
  BY <1>1, AtMostOne DEF IsSubject, RepositoryReported
<1>3. \E rule \in rules : rule.expires /\ "untagged" \in Selected(rule)
  BY <1>1, <1>2 DEF ExpiresUntagged, Selected, Images
<1>4. \E rule \in rules : rule.expires /\ {"release", "other"} \subseteq Selected(rule)
  BY <1>1, <1>2 DEF BoundsRetainedImages, Selected, Images
<1> QED
  BY <1>3, <1>4 DEF KeptForever, Images

LEMMA BoundedLogs ==
  ASSUME IsSubject(subject)
  PROVE  BoundedLogsExpire
  BY RetentionAssumption DEF IsSubject, BoundedLogsExpire, HasLogs, BoundedRetention,
     ReportedRetention, EventsExpire, LogSubjects, NotGiven

LEMMA UntaggedResources == UntaggedIsReal
  BY DEF UntaggedIsReal, IsOpaque, ReportedUntagged, MissingDefaults, EffectiveTags

-----------------------------------------------------------------------------
(***************************************************************************)
(* Traffic.                                                                *)
(***************************************************************************)

LEMMA RestrictedIngress == RestrictedAdmitsNoStranger
<1> SUFFICES ASSUME subject.of = "policies",
                    IngressRestricted(subject.policies, subject.namespace, subject.labels),
                    NEW source \in Sources, NEW port \in Ports,
                    IsStranger(subject.policies, source),
                    Admitted(subject.policies, subject.namespace, subject.labels, source, port)
             PROVE  FALSE
  BY DEF RestrictedAdmitsNoStranger
<1> DEFINE selecting == SelectingPolicies(subject.policies, subject.namespace, subject.labels)
<1>1. PICK p \in selecting : \E rule \in p.rules : RuleAdmits(rule, p.namespace, source, port)
  BY DEF IngressRestricted, Admitted
<1>2. PICK rule \in p.rules : RuleAdmits(rule, p.namespace, source, port)
  BY <1>1
<1>3. p \in subject.policies /\ ~RuleIsOpen(rule)
  BY <1>1, <1>2 DEF IngressRestricted, SelectingPolicies
<1>4. PICK peer \in rule.peers : PeerAdmits(peer, p.namespace, source)
  BY <1>2, <1>3 DEF RuleAdmits, RuleIsOpen
<1>5. PeerIsScoped(peer)
  BY <1>3, <1>4 DEF RuleIsOpen
<1>6. /\ ~Named(peer.pods, source.pod)
      /\ source.outside \/ ~Named(peer.namespaces, source.namespace)
  BY <1>2, <1>3, <1>4 DEF IsStranger
<1>7. /\ ~source.outside
      /\ peer.namespaces # NoSelector => Selects(peer.namespaces, source.namespace)
      /\ peer.pods # NoSelector => Selects(peer.pods, source.pod)
  BY <1>4, <1>5 DEF PeerAdmits, PeerIsScoped
<1>8. ASSUME NEW selector, NEW labels, Constrains(selector), Selects(selector, labels)
      PROVE  Named(selector, labels)
  <2>1. PICK r \in selector : r.operator \in {"Equals", "In"}
    BY <1>8 DEF Constrains
  <2>2. Satisfies(r, labels)
    BY <1>8, <2>1 DEF Selects
  <2>3. labels[r.key] \in r.values
    BY <2>1, <2>2 DEF Satisfies
  <2> QED
    BY <2>1, <2>3 DEF Named
<1>9. CASE peer.pods # NoSelector
  BY <1>5, <1>6, <1>7, <1>8, <1>9 DEF PeerIsScoped
<1>10. CASE peer.pods = NoSelector
  <2>1. peer.namespaces # NoSelector
    BY <1>5, <1>10 DEF PeerIsScoped
  <2> QED
    BY <1>5, <1>6, <1>7, <1>8, <2>1 DEF PeerIsScoped
<1> QED
  BY <1>9, <1>10

LEMMA BrokerIngress == BrokerAdmitsOnlyDeclared
<1> DEFINE names == {s.namespace[NameKey] : s \in Sources}
<1> SUFFICES ASSUME subject.of = "policies",
                    BrokerRestricted(subject.policies, subject.namespace, subject.labels, names,
                                     subject.declared),
                    NEW source \in Sources, NEW port \in Ports,
                    Admitted(subject.policies, subject.namespace, subject.labels, source, port)
             PROVE  /\ ~source.outside
                    /\ <<source.namespace[NameKey], port>> \in subject.declared
  BY DEF BrokerAdmitsOnlyDeclared
<1> DEFINE selecting == SelectingPolicies(subject.policies, subject.namespace, subject.labels)
<1>1. PICK p \in selecting : \E rule \in p.rules : RuleAdmits(rule, p.namespace, source, port)
  BY DEF BrokerRestricted, Admitted
<1>2. PICK rule \in p.rules : RuleAdmits(rule, p.namespace, source, port)
  BY <1>1
<1>3. RuleIsBounded(rule) /\ AdmittedPairs(rule, p.namespace, names) \subseteq subject.declared
  BY <1>1, <1>2 DEF BrokerRestricted
<1>4. PICK peer \in rule.peers : PeerAdmits(peer, p.namespace, source)
  BY <1>2, <1>3 DEF RuleAdmits, RuleIsBounded
<1>5. port \in rule.ports
  BY <1>2, <1>3 DEF RuleAdmits, RuleIsBounded
<1>6. ~peer.ipBlock /\ ~source.outside
  BY <1>3, <1>4 DEF RuleIsBounded, PeerIsBounded, PeerAdmits
<1> DEFINE name == source.namespace[NameKey]
<1>7. name \in names
  OBVIOUS
<1>8. name \in PeerNamespaces(peer, p.namespace, names)
  <2> HIDE DEF names
  <2>1. CASE peer.namespaces = NoSelector
    BY <1>4, <1>6, <1>7, <2>1 DEF PeerAdmits, PeerNamespaces
  <2>2. CASE peer.namespaces # NoSelector
    <3>1. \A r \in peer.namespaces : Satisfies(r, source.namespace)
      BY <1>4, <1>6, <2>2 DEF PeerAdmits, Selects
    <3>2. \A r \in peer.namespaces :
            (r.key = NameKey /\ r.operator \in {"Equals", "In"}) => name \in r.values
      BY <3>1 DEF Satisfies
    <3> QED
      BY <1>7, <2>2, <3>2 DEF PeerNamespaces
  <2> QED
    BY <2>1, <2>2
<1> HIDE DEF names, name
<1>9. <<name, port>> \in AdmittedPairs(rule, p.namespace, names)
  BY <1>4, <1>5, <1>8 DEF AdmittedPairs
<1> QED
  BY <1>3, <1>6, <1>9 DEF name

-----------------------------------------------------------------------------
(***************************************************************************)
(* The specification of the facts.                                         *)
(***************************************************************************)

\* Where nothing is rolled out nothing is there to replace.
LEMMA NothingRollsOut ==
  ASSUME NoRollout
  PROVE  spec.replicas = 0 /\ pods = [old |-> 0, starting |-> 0, serving |-> 0] /\ ~Next
<1>1. profile \in Profiles
  BY ProfilesAssumption DEF NoRollout
<1>2. spec.replicas = 0 /\ pods = [old |-> 0, starting |-> 0, serving |-> 0]
  BY <1>1 DEF NoRollout, spec
<1> QED
  BY <1>2 DEF Next, Starting, BecomesReady, Stopping

\* retains_healthy_capacity among the other facts: the promise of the fact is kept
\* by every rollout.
THEOREM ReportedRolloutsKeepCapacity == FactsSpec => []RolloutKeepsCapacity
<1> DEFINE RInv == (TypeOK /\ RolloutKeepsCapacity) \/ NoRollout
<1>1. FactsInit => RInv
  BY InitTypeOK, InitKeepsCapacity DEF FactsInit
<1>2. RInv /\ [FactsNext]_<<vars, subject>> => RInv'
  <2> SUFFICES ASSUME RInv, [FactsNext]_<<vars, subject>> PROVE RInv'
    OBVIOUS
  <2>1. [Next]_vars
    BY DEF FactsNext
  <2>2. CASE TypeOK /\ RolloutKeepsCapacity
    BY <2>1, <2>2, StepTypeOK, StepKeepsCapacity
  <2>3. CASE NoRollout
    <3>1. UNCHANGED vars
      BY <2>1, <2>3, NothingRollsOut
    <3> QED
      BY <2>3, <3>1 DEF NoRollout, vars
  <2> QED
    BY <2>2, <2>3
<1>3. RInv => RolloutKeepsCapacity
  <2> SUFFICES ASSUME NoRollout PROVE RolloutKeepsCapacity
    OBVIOUS
  <2> QED
    BY NothingRollsOut DEF RolloutKeepsCapacity, Serving
<1> QED
  BY <1>1, <1>2, <1>3, PTL DEF FactsSpec

\* A subject is what it was.
LEMMA SubjectInvariance == FactsSpec => [](subject.of = "rollout" \/ IsSubject(subject))
<1>1. FactsInit => subject.of = "rollout" \/ IsSubject(subject)
  BY SubjectsAssumption DEF FactsInit
<1>2. (subject.of = "rollout" \/ IsSubject(subject)) /\ [FactsNext]_<<vars, subject>>
        => (subject.of = "rollout" \/ IsSubject(subject))'
  BY DEF FactsNext, IsSubject
<1> QED
  BY <1>1, <1>2, PTL DEF FactsSpec

\* Whatever jobs and conditions lead to it, a job reported as gated by a blocking scan
\* never pushes an image in which the scan finds something, unless the workflow has a
\* form the collector does not read (EscapesTheScan); credentials come from the role
\* where a step is reported so, unless an input it does not read leads elsewhere
\* (TakesAnotherRoute); and autonomy is reported as it is.
THEOREM WorkflowFactsHold == FactsSpec => []WorkflowFactsAreTrue
<1>1. subject.of = "rollout" \/ IsSubject(subject) => WorkflowFactsAreTrue
  <2>1. CASE subject.of = "rollout"
    BY <2>1 DEF WorkflowFactsAreTrue, GatedNeverPublishes, OidcFactsAreTrue, AutonomyFactsAreTrue
  <2>2. CASE IsSubject(subject)
    BY <2>2, GatedPublications, OidcFacts, AutonomyFactsHold DEF WorkflowFactsAreTrue
  <2> QED
    BY <2>1, <2>2
<1> QED
  BY <1>1, SubjectInvariance, PTL

\* No container of a pod reported as hardened starts as root, and after complete
\* coverage the combined facts hold in every profile.
THEOREM DeploymentFactsHold == FactsSpec => []DeploymentFactsAreTrue
<1>1. DeploymentFactsAreTrue
  BY HardenedContainers, CombinedFactsHold DEF DeploymentFactsAreTrue
<1> QED
  BY <1>1, PTL

\* The patterns reported as service-wide are those that match whatever a service has,
\* and complete coverage without evidence leaves nobody a wildcard grant.
THEOREM IamFactsHold == FactsSpec => []IamFactsAreTrue
<1>1. subject.of = "rollout" \/ IsSubject(subject) => IamFactsAreTrue
  <2>1. CASE subject.of = "rollout"
    BY <2>1 DEF IamFactsAreTrue, ServiceWideIsRecognised, ProvedIamGrantsNoWildcard
  <2>2. CASE IsSubject(subject)
    BY <2>2, ServiceWideActions, ProvedIam DEF IamFactsAreTrue
  <2> QED
    BY <2>1, <2>2
<1> QED
  BY <1>1, SubjectInvariance, PTL

\* Bounded registries and logs lose everything some day, and a block reported as
\* untagged lacks a tag, unless it is a module whose own block does not tell (IsOpaque).
THEOREM CostFactsHold == FactsSpec => []CostFactsAreTrue
<1>1. subject.of = "rollout" \/ IsSubject(subject) => CostFactsAreTrue
  <2>1. CASE subject.of = "rollout"
    BY <2>1 DEF CostFactsAreTrue, BoundedRegistryExpiresAll, BoundedLogsExpire, UntaggedIsReal
  <2>2. CASE IsSubject(subject)
    BY <2>2, BoundedRegistry, BoundedLogs, UntaggedResources DEF CostFactsAreTrue
  <2> QED
    BY <2>1, <2>2
<1> QED
  BY <1>1, SubjectInvariance, PTL

\* Nobody gets in whom no rule names, to the broker nobody from a namespace and to a
\* port that is not declared, whatever policies select the pods.
THEOREM IngressFactsHold == FactsSpec => []IngressFactsAreTrue
<1>1. IngressFactsAreTrue
  BY RestrictedIngress, BrokerIngress DEF IngressFactsAreTrue
<1> QED
  BY <1>1, PTL

=============================================================================

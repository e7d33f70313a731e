------------------------------- MODULE MCFleetFacts -------------------------------
EXTENDS FleetFacts, TLC

SomeFenceposts == {Absent, Count(0), Count(1), Percent(25), Percent(100)}

-----------------------------------------------------------------------------
Blocking == ScanStep(Severities, 1, "none", FALSE)

SomeScans ==
  {Blocking, ScanStep({"CRITICAL"}, 1, "none", FALSE), ScanStep(Severities, 0, "none", FALSE),
   ScanStep(Severities, 1, "plain", FALSE), ScanStep(Severities, 1, "none", TRUE)}

Login == PlainStep("login", "none")
Push == PlainStep("push", "none")

SomeSteps == {Blocking, ScanStep(Severities, 1, "plain", FALSE), Login, Push,
              PlainStep("login", "override"), PlainStep("push", "override"),
              PlainStep("login", "unread")}

ShortRuns == {<<>>} \cup {<<s>> : s \in SomeScans}

LongRuns == {<<a, b>> : a, b \in SomeSteps} \cup {<<a, b, c>> : a, b, c \in SomeSteps}

Job(needs, condition, tolerant, steps) ==
  [needs |-> needs, condition |-> condition, tolerant |-> tolerant, steps |-> steps]

TwoJobs ==
  {<<Job({}, "none", tolerant, first), Job(needs, condition, FALSE, second)>> :
     first \in ShortRuns, tolerant \in BOOLEAN, needs \in SUBSET {1},
     condition \in Conditions, second \in LongRuns}

ThreeJobs ==
  {<<Job({}, c1, t1, first), Job({1}, c2, t2, <<>>), Job(needs, c3, FALSE, <<Login, Push>>)>> :
     first \in ShortRuns, c1, c2, c3 \in Conditions, t1, t2 \in BOOLEAN,
     needs \in {{2}, {1, 2}}}

Publications == {[of |-> "publication", jobs |-> j] : j \in TwoJobs \cup ThreeJobs}

CredentialSubjects == {[of |-> "credentials", step |-> s] : s \in CredentialSteps}

\* One workflow is the worker, at most.
FilesOf(n) ==
  {f \in [1..n -> WorkflowFiles] :
     Cardinality({i \in 1..n : f[i].is \in {"worker", "broken_worker"}}) <= 1}

WorkflowSets ==
  {[of |-> "workflows", files |-> f, limit |-> l] : f \in UNION {FilesOf(n) : n \in 0..3}, l \in 1..3}

-----------------------------------------------------------------------------
Given3 == {"absent", "yes", "no"}
Users == {"absent", "root", "other"}

Hardened ==
  [runAsNonRoot |-> "yes", runAsUser |-> "absent", allowPrivilegeEscalation |-> "no",
   privileged |-> "absent", dropsAll |-> TRUE, adds |-> FALSE]

ContainerSubjects ==
  {[of |-> "containers", containers |-> {c, Hardened}, pod |-> p] :
     c \in [runAsNonRoot : Given3, runAsUser : Users, allowPrivilegeEscalation : Given3,
            privileged : {"absent", "yes"}, dropsAll : BOOLEAN, adds : BOOLEAN],
     p \in [runAsNonRoot : Given3, runAsUser : Users]}

\* One object of an application and one of the platform.
Documents ==
  [object : {"web"}, application : {TRUE}, wellFormed : BOOLEAN, fact : BOOLEAN]
    \cup [object : {"agent"}, application : {FALSE}, wellFormed : BOOLEAN, fact : BOOLEAN]

SomeRenders == {<<>>} \cup {<<d>> : d \in Documents} \cup {<<d, e>> : d, e \in Documents}

ProfileSubjects ==
  {[of |-> "profiles", profiles |-> [local |-> l, aws |-> a]] : l, a \in SomeRenders}

-----------------------------------------------------------------------------
SequencesOf(set, n) == UNION {[1..k -> set] : k \in 1..n}

Letters == {"a", "b"}

SomeNames == SequencesOf(Letters, 4)

ActionSubjects ==
  {[of |-> "action", action |-> [service |-> <<"s">>, name |-> n]] :
     n \in SequencesOf(Letters \cup Wildcards, 3)}

SomeStatements ==
  {[effect |-> e, action |-> a, resource |-> "star"] : e \in Effects, a \in Actions}
    \cup {[effect |-> "Allow", action |-> "narrow", resource |-> "unknown"]}

IamBlock(type, root, name, body, statement, target) ==
  [type |-> type, root |-> root, name |-> name, body |-> body, statement |-> statement,
   target |-> target]

NoStatement == [effect |-> "Deny", action |-> "narrow", resource |-> "scoped"]

Roots == {"permanent", "staging"}

IamBlocks ==
  {IamBlock("document", r, "d", "literal", s, "none") : r \in Roots, s \in SomeStatements}
    \cup {IamBlock("policy", r, "p", "literal", s, "none") : r \in Roots, s \in SomeStatements}
    \cup {IamBlock("policy", r, "p", "reference", NoStatement, t) : r \in Roots, t \in {"d", "e"}}
    \cup {IamBlock("attachment", r, "a", "none", NoStatement, t) : r \in Roots, t \in {"p", "arn"}}
    \cup {IamBlock("hidden", "permanent", "h", "none", NoStatement, "none")}

IamSubjects ==
  {[of |-> "iam", blocks |-> {}]}
    \cup {[of |-> "iam", blocks |-> {b, c, d}] : b, c, d \in IamBlocks}

-----------------------------------------------------------------------------
LogChoices == {[of |-> "logs", log |-> l] : l \in LogSubjects({0, 1, 30, 31, 90})}

RuleSets == {{}} \cup {{r, s} : r, s \in Rules}

RegistrySubjects ==
  {[of |-> "registry", policies |-> p] : p \in {{}} \cup {{rules} : rules \in RuleSets}}
    \cup {[of |-> "registry", policies |-> {{}, {r}}] : r \in Rules}

SomeKeys == {"app", "owner"}

TagSubjects ==
  {[of |-> "tags", default |-> d, other |-> o, resource |-> r, keys |-> SomeKeys] :
     d \in {p \in ProvidersOf(SomeKeys) : ~p.aliased},
     o \in {p \in ProvidersOf(SomeKeys) : p.aliased}, r \in ResourcesOf(SomeKeys)}

-----------------------------------------------------------------------------
Labelled(app) == ("app" :> app) @@ (NameKey :> "none")
InNamespace(name) == ("app" :> "none") @@ (NameKey :> name)

Source(app, name, outside) ==
  [pod |-> Labelled(app), namespace |-> InNamespace(name), outside |-> outside]

SomeSources ==
  {Source(app, name, outside) :
     app \in {"none", "gateway"}, name \in {"apps", "platform", "elsewhere"}, outside \in BOOLEAN}

App(operator, values) == Requirement("app", operator, values)
NameIs(values) == Requirement(NameKey, "In", values)

PodSelectors ==
  {NoSelector, {}, {App("Equals", {"gateway"})}, {App("NotIn", {"gateway"})}, {App("Exists", {})}}

NamespaceSelectors ==
  {NoSelector, {}, {NameIs({"platform"})}, {Requirement(NameKey, "Exists", {})},
   {NameIs({"platform", "apps"}), Requirement(NameKey, "NotIn", {"apps"})}}

SomePeers ==
  {[pods |-> p, namespaces |-> n, ipBlock |-> FALSE] : p \in PodSelectors, n \in NamespaceSelectors}
    \cup {[pods |-> NoSelector, namespaces |-> NoSelector, ipBlock |-> TRUE]}

Gateway == [pods |-> {App("Equals", {"gateway"})}, namespaces |-> NoSelector, ipBlock |-> FALSE]

Policy(selector, types, rules) ==
  [namespace |-> "apps", selector |-> selector, types |-> types, hasEgress |-> FALSE, rules |-> rules]

SomeRules ==
  {[peers |-> peers, ports |-> ports] :
     peers \in {{}} \cup {{p} : p \in SomePeers} \cup {{Gateway, p} : p \in SomePeers},
     ports \in {{}, {"client"}, {"client", "metrics"}}}

SomePolicies ==
  {Policy(s, t, rules) :
     s \in {{}, {App("Equals", {"web"})}, {App("Equals", {"api"})}}, t \in {NoTypes, {"Egress"}},
     rules \in {{}} \cup {{r} : r \in SomeRules}}

\* Alone, beside a policy that denies everything, and beside one that lets all in.
PolicySubjects ==
  {[of |-> "policies", policies |-> {p} \cup more, namespace |-> "apps",
    labels |-> Labelled("web"), declared |-> {<<"platform", "client">>, <<"apps", "client">>}] :
     p \in SomePolicies,
     more \in {{}, {Policy({}, NoTypes, {})}, {Policy({}, NoTypes, {[peers |-> {}, ports |-> {}]})}}}

-----------------------------------------------------------------------------
SomeSubjects ==
  <<Publications, CredentialSubjects, WorkflowSets, ContainerSubjects, ProfileSubjects,
    ActionSubjects, IamSubjects, LogChoices, RegistrySubjects, TagSubjects, PolicySubjects>>

=============================================================================

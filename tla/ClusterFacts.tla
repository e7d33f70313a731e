------------------------------- MODULE ClusterFacts -------------------------------
(***************************************************************************)
(* What the cluster collector says of network policies, and what traffic    *)
(* Kubernetes (external) lets through under them.                          *)
(*                                                                         *)
(* Labels are a function from keys to values, "none" where a key is absent. *)
(* A selector is a set of requirements, or NoSelector where it is not given.*)
(***************************************************************************)
EXTENDS Integers, FiniteSets

NameKey == "name"   \* the key that holds a namespace's name

NoTypes == {"not given"}

Requirement(key, operator, values) == [key |-> key, operator |-> operator, values |-> values]

NoSelector == {Requirement("no key", "not given", {})}

Satisfies(requirement, labels) ==
  LET value == labels[requirement.key]
  IN  CASE requirement.operator \in {"Equals", "In"} -> value \in requirement.values
        [] requirement.operator = "NotIn" -> value \notin requirement.values
        [] requirement.operator = "Exists" -> value # "none"
        [] requirement.operator = "DoesNotExist" -> value = "none"

\* _selects.
Selects(selector, labels) == \A requirement \in selector : Satisfies(requirement, labels)

\* _constrains: only an equality or a membership names anybody.
Constrains(selector) ==
  \E requirement \in selector :
    \/ requirement.operator = "Equals"
    \/ requirement.operator = "In" /\ requirement.values # {}

\* _peer_is_scoped.
PeerIsScoped(peer) ==
  LET selectors == {peer.pods, peer.namespaces} \ {NoSelector}
  IN  /\ ~peer.ipBlock
      /\ selectors # {} /\ \A selector \in selectors : Constrains(selector)

\* _rule_is_open: no peers are all peers.
RuleIsOpen(rule) == rule.peers = {} \/ \E peer \in rule.peers : ~PeerIsScoped(peer)

\* _governs: without policyTypes a policy is about ingress, and about egress where
\* it has rules for it.
Governs(policy, direction) ==
  IF policy.types # NoTypes THEN direction \in policy.types
  ELSE direction = "Ingress" \/ policy.hasEgress

\* _ingress_selection.
SelectingPolicies(policies, namespace, labels) ==
  {p \in policies : /\ p.namespace = namespace /\ Governs(p, "Ingress")
                    /\ Selects(p.selector, labels)}

IngressRestricted_EachPolicy(policies, namespace, labels) ==
  \E p \in SelectingPolicies(policies, namespace, labels) :
    \A rule \in p.rules : ~RuleIsOpen(rule)

\* _workload_evidence: policies add up, so one open rule admits everybody.
IngressRestricted(policies, namespace, labels) ==
  LET selecting == SelectingPolicies(policies, namespace, labels)
  IN  selecting # {} /\ \A p \in selecting : \A rule \in p.rules : ~RuleIsOpen(rule)

-----------------------------------------------------------------------------
(* The message broker: who may come in at which port.                      *)

\* _peer_namespaces: the names the positive constraints leave, of all there are.
PeerNamespaces(peer, namespace, names) ==
  IF peer.namespaces = NoSelector THEN {namespace} \cap names
  ELSE {n \in names : \A r \in peer.namespaces :
                        (r.key = NameKey /\ r.operator \in {"Equals", "In"}) => n \in r.values}

\* Whether a name bounds the peer at all.
PeerIsBounded(peer) ==
  /\ ~peer.ipBlock
  /\ IF peer.namespaces = NoSelector THEN peer.pods # NoSelector
     ELSE \E r \in peer.namespaces : r.key = NameKey /\ r.operator \in {"Equals", "In"}

\* _admitted_pairs: no ports are all ports.
RuleIsBounded(rule) ==
  /\ rule.peers # {} /\ rule.ports # {}
  /\ \A peer \in rule.peers : PeerIsBounded(peer)

AdmittedPairs(rule, namespace, names) ==
  (UNION {PeerNamespaces(peer, namespace, names) : peer \in rule.peers}) \X rule.ports

\* _broker_evidence.
BrokerRestricted(policies, namespace, labels, names, declared) ==
  LET selecting == SelectingPolicies(policies, namespace, labels)
  IN  /\ selecting # {}
      /\ \A p \in selecting : \A rule \in p.rules :
           RuleIsBounded(rule) /\ AdmittedPairs(rule, p.namespace, names) \subseteq declared

-----------------------------------------------------------------------------
(***************************************************************************)
(* Kubernetes (external).  A source is a pod with its labels in a namespace *)
(* with its own, or an address outside the cluster.                        *)
(***************************************************************************)

PeerAdmits(peer, namespace, source) ==
  IF peer.ipBlock THEN TRUE
  ELSE /\ ~source.outside
       /\ IF peer.namespaces = NoSelector THEN source.namespace[NameKey] = namespace
          ELSE Selects(peer.namespaces, source.namespace)
       /\ peer.pods # NoSelector => Selects(peer.pods, source.pod)

RuleAdmits(rule, namespace, source, port) ==
  /\ rule.peers = {} \/ \E peer \in rule.peers : PeerAdmits(peer, namespace, source)
  /\ rule.ports = {} \/ port \in rule.ports

\* Pods that no policy selects take everything.
Admitted(policies, namespace, labels, source, port) ==
  LET selecting == SelectingPolicies(policies, namespace, labels)
  IN  \/ selecting = {}
      \/ \E p \in selecting : \E rule \in p.rules : RuleAdmits(rule, p.namespace, source, port)

=============================================================================

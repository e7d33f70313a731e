---------------------------- MODULE MCReviewHistory ----------------------------
(***************************************************************************)
(* Instances of ReviewHistory for TLC.                                     *)
(***************************************************************************)
EXTENDS ReviewHistory, TLC

CONSTANTS oidc, cost, e1, e2, e3, gha, tf, here, there

TwoConcerns == {oidc, cost}
ThreeIds == {e1, e2, e3}
TwoCollectors == {gha, tf}
ChecksOf == oidc :> {e1, e2} @@ cost :> {e3}
TrustedBy == oidc :> gha @@ cost :> tf
TwoConflicts == {here, there}

Declared == [priority |-> [c \in TwoConcerns |-> "high"], suppressed |-> {}, traded |-> {}]

\* The owner lowers a priority, accepts one concern, suppresses one, withdraws one.
ThreePolicies ==
  {Declared,
   [Declared EXCEPT !.priority[oidc] = "low", !.traded = {cost}],
   [Declared EXCEPT !.suppressed = {oidc}, !.priority[cost] = "none"]}

\* No definition tells one conflict, or one piece of a concern's evidence, from another.
Alike == Permutations({here, there}) \cup Permutations({e1, e2})

=============================================================================

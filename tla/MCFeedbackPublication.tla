------------------------ MODULE MCFeedbackPublication ------------------------
(***************************************************************************)
(* Instances of FeedbackPublication for TLC.                               *)
(***************************************************************************)
EXTENDS FeedbackPublication, TLC

CONSTANTS c1, c2

TwoConcerns == {c1, c2}

\* Both active, always.
OneFindings == {[c \in TwoConcerns |-> "one"]}

\* Both active, or one of them several times.
SomeFindings ==
  OneFindings \cup {[c \in TwoConcerns |-> IF c = c1 THEN "several" ELSE "absent"]}

=============================================================================

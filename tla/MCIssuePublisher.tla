---------------------------- MODULE MCIssuePublisher ----------------------------
(***************************************************************************)
(* Instances of IssuePublisher for TLC.                                    *)
(***************************************************************************)
EXTENDS IssuePublisher

CONSTANTS f1, f2, old, new

TwoFingerprints == {f1, f2}

OneClaimable == {f1}

TwoContents == {old, new}

=============================================================================

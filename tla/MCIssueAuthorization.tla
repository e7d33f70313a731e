------------------------- MODULE MCIssueAuthorization -------------------------
(***************************************************************************)
(* An instance of IssueAuthorization for TLC.                              *)
(***************************************************************************)
EXTENDS IssueAuthorization

CONSTANTS i1, i2, calm, drift, old, new

TwoInputs == {i1, i2}
OneObservation == {calm}
OneCode == {new}
TwoCodes == {old, new}
TwoObservations == {calm, drift}

=============================================================================

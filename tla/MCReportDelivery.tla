--------------------------- MODULE MCReportDelivery ---------------------------
(***************************************************************************)
(* Instances of ReportDelivery for TLC.                                    *)
(***************************************************************************)
EXTENDS ReportDelivery, TLC

CONSTANTS i1, i2, calm, drift

OneInput == {i1}
TwoInputs == {i1, i2}
OneObservation == {calm}
TwoObservations == {calm, drift}

\* No definition of the specification tells one observation from another.
Alike == Permutations({calm, drift})

=============================================================================

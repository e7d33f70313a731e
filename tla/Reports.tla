-------------------------------- MODULE Reports --------------------------------
(***************************************************************************)
(* What tells one fleet report from another.                               *)
(***************************************************************************)
EXTENDS Naturals, Sequences

CONSTANTS
  Inputs,        \* versions of policy.yaml and intent/, which a report names
  Observations,  \* what the collectors can find in the fleet
  NoMaterial     \* the material of "no report", and of a body without a marker

(***************************************************************************)
(* The material of a report: what its signature covers.  The policy        *)
(* version and the intent digest are part of it; the timestamp, the        *)
(* narrative, the ranks and the new/unchanged transition are not.          *)
(***************************************************************************)
Materials == [inputs : Inputs, observed : Observations]

ASSUME InputsAssumption == Inputs # {}
ASSUME NoMaterialAssumption == NoMaterial \notin Materials

AnyInputs == CHOOSE i \in Inputs : TRUE

=============================================================================

------------------------------ MODULE ReportLedger ------------------------------
(***************************************************************************)
(* What report delivery promises everything that reads main: a ledger of   *)
(* accepted reports that is only ever extended, and only by a report that  *)
(* says something its predecessor did not.  Who proposed a report, how     *)
(* often it was refused or rebuilt, and what was merged when, is nobody's  *)
(* concern.                                                                *)
(***************************************************************************)
EXTENDS Reports

CONSTANT MaxReports  \* bound on the accepted reports of one behaviour

VARIABLES
  inputs,    \* the policy and intent on main
  accepted   \* the material of every report merged to main, oldest first

ledger == <<inputs, accepted>>

ASSUME MaxReportsAssumption == MaxReports \in Nat

Newest == IF accepted = << >> THEN NoMaterial ELSE accepted[Len(accepted)]

LedgerTypeOK == inputs \in Inputs /\ accepted \in Seq(Materials)

LedgerInit == inputs \in Inputs /\ accepted = << >>

Accept ==
  /\ Len(accepted) < MaxReports
  /\ \E material \in Materials \ {Newest} : accepted' = Append(accepted, material)
  /\ UNCHANGED inputs

InputsMove ==
  /\ inputs' \in Inputs \ {inputs}
  /\ UNCHANGED accepted

LedgerSpec == LedgerInit /\ [][Accept \/ InputsMove]_ledger

=============================================================================

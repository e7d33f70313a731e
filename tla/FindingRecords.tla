----------------------------- MODULE FindingRecords -----------------------------
(***************************************************************************)
(* What publication promises whoever reads the issues: one record of each  *)
(* finding, opened while the report says the finding is there, kept for    *)
(* good, with notes that follow the report and repeat nothing.  How many   *)
(* publications it took, which of their calls failed and who took a label  *)
(* off meanwhile is nobody's concern.                                      *)
(***************************************************************************)
EXTENDS Sequences

CONSTANT Fingerprints

VARIABLES
  profile,   \* "fleet" or "capability"
  reported,  \* whether the report calls a finding "active" or "resolved"
  records    \* the finding and the notes of each record, oldest first

board == <<profile, reported, records>>

HasRecord(finding) == \E n \in DOMAIN records : records[n].finding = finding

\* What the last note says; a record without notes says the finding is there.
Says(notes) == IF notes = << >> THEN "active" ELSE notes[Len(notes)]

\* Fleet records are told of a resolution once and are left alone from then on.
MayBeTold(notes, kind) ==
  /\ kind # Says(notes)
  /\ profile = "fleet" => notes = << >>

BoardInit ==
  /\ profile \in {"fleet", "capability"}
  /\ reported \in [Fingerprints -> {"active", "resolved"}]
  /\ records = << >>

ReportSays ==
  /\ reported' \in [Fingerprints -> {"active", "resolved"}]
  /\ UNCHANGED <<profile, records>>

Open ==
  /\ \E f \in Fingerprints :
       /\ reported[f] = "active" /\ ~HasRecord(f)
       /\ records' = Append(records, [finding |-> f, notes |-> << >>])
  /\ UNCHANGED <<profile, reported>>

Tell ==
  /\ \E n \in DOMAIN records :
       LET kind == reported[records[n].finding]
       IN  /\ MayBeTold(records[n].notes, kind)
           /\ records' = [records EXCEPT ![n].notes = Append(@, kind)]
  /\ UNCHANGED <<profile, reported>>

BoardSpec == BoardInit /\ [][ReportSays \/ Open \/ Tell]_board

===============================================================================

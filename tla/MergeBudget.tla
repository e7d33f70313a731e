------------------------------ MODULE MergeBudget ------------------------------
(***************************************************************************)
(* How one run of the autonomous-merge worker spends its time: the merge   *)
(* gate on each candidate in turn, the decision handoff of a parked one,   *)
(* and the post-merge handoff of a merged report share one budget.  Each   *)
(* may take all the time it is given.  Times are whole seconds.            *)
(***************************************************************************)
EXTENDS Integers, FiniteSetsExt

CONSTANTS
  Budget,         \* WORKER_BUDGET_SECONDS
  Reserve,        \* SHUTDOWN_RESERVE_SECONDS
  GateMax,        \* GATE_TIMEOUT_SECONDS
  HandoffMax,     \* HANDOFF_TIMEOUT_SECONDS
  MaxCandidates   \* MAX_CANDIDATES_PER_RUN

VARIABLES
  left,      \* the seconds until the worker's deadline
  waiting,   \* the candidates not done yet, the current one included
  report,    \* the report's place, counted as waiting is; 0 if it is no candidate
  step,      \* what the current candidate needs next
  unfunded   \* the kinds of operation that were not tried for lack of time

vars == <<left, waiting, report, step, unfunded>>

ASSUME BudgetAssumption ==
  /\ Reserve \in Nat /\ Budget \in Nat /\ Reserve <= Budget
  /\ GateMax \in Nat \ {0} /\ HandoffMax \in Nat \ {0}
  /\ MaxCandidates \in Nat \ {0}

\* What keeps the last operation funded when every one before it takes its whole
\* share: 450 seconds for 20 candidates in the code, which one more would exceed.
ASSUME FundingAssumption == MaxCandidates * (MaxCandidates + 1) <= Budget - Reserve

Kinds == {"gate", "decision", "postMerge"}

Init ==
  /\ left = Budget
  /\ waiting \in 1 .. MaxCandidates
  /\ report \in 0 .. waiting
  /\ step = "gate"
  /\ unfunded = {}

-----------------------------------------------------------------------------
\* Variants a mistake in this code could produce, used to show that the
\* properties notice it.
SharedTimeout_WholeBudget(seconds, operations, maximum) ==
  IF seconds < 1 THEN 0 ELSE Min({maximum, Max({1, seconds \div operations})})

SharedTimeout_Maximum(seconds, operations, maximum) == maximum

SharedTimeout_Greedy(seconds, operations, maximum) ==
  IF seconds - Reserve < 1 THEN 0 ELSE Min({maximum, seconds - Reserve})

\* An equal share of what is left above the reserve, at least a second of it.
SharedTimeout(seconds, operations, maximum) ==
  LET distributable == seconds - Reserve
  IN  IF distributable < 1 THEN 0
      ELSE Min({maximum, Max({1, distributable \div operations})})

RemainingOperations_Gates == waiting

\* A gate for every candidate that is left, and the report's handoff.
RemainingOperations == waiting + (IF report \in 1 .. waiting THEN 1 ELSE 0)

\* The next candidate's turn.
Advance ==
  /\ waiting' = waiting - 1
  /\ step' = "gate"

Skip(kind) ==
  /\ unfunded' = unfunded \cup {kind}
  /\ Advance
  /\ UNCHANGED <<left, report>>

Spend(timeout) == \E spent \in 0 .. timeout : left' = left - spent

-----------------------------------------------------------------------------
\* Merged, parked, or neither: deferred, in error or timed out.
Gate ==
  /\ waiting > 0
  /\ step = "gate"
  /\ LET timeout == SharedTimeout(left, RemainingOperations, GateMax)
     IN  IF timeout = 0 THEN Skip("gate")
         ELSE /\ Spend(timeout)
              /\ \/ Advance
                 \/ step' = "decision" /\ UNCHANGED waiting
                 \/ report = waiting /\ step' = "postMerge" /\ UNCHANGED waiting
              /\ UNCHANGED <<report, unfunded>>

\* Surface a parked candidate for a decision, or dispatch the issue publication
\* of a merged report.
HandOff ==
  /\ waiting > 0
  /\ step # "gate"
  /\ LET timeout == SharedTimeout(left, waiting, HandoffMax)
     IN  IF timeout = 0 THEN Skip(step)
         ELSE /\ Spend(timeout)
              /\ Advance
              /\ UNCHANGED <<report, unfunded>>

Next == Gate \/ HandOff

Spec == Init /\ [][Next]_vars

-----------------------------------------------------------------------------
\* Every variable has its type: no operation is given more time than is left.
TypeOK ==
  /\ left \in 0 .. Budget
  /\ waiting \in 0 .. MaxCandidates
  /\ report \in 0 .. MaxCandidates
  /\ step \in Kinds
  /\ unfunded \subseteq Kinds

\* However long every operation takes, the run ends with its shutdown reserve
\* untouched, and so before the job's ten minutes kill it between a merge and the
\* handoff of what was merged.
ReserveKept == left >= Reserve

\* A report the worker merged is handed to the issue publisher within the same
\* run, wherever it comes in the window and whatever came before it: the merge
\* itself starts no workflow.
MergedReportIsHandedOff == "postMerge" \notin unfunded

\* The full window fits the budget: every candidate gets its evaluation, however
\* long those before it took, so none is put off to "the next hourly window".
EveryCandidateIsEvaluated == "gate" \notin unfunded

-----------------------------------------------------------------------------
\* PDR 0008: "The same trusted worker surfaces PARK".  The budget is shared with
\* no decision handoff in the count, so the last gate may leave it no time.
EveryParkIsSurfaced == "decision" \notin unfunded

=============================================================================

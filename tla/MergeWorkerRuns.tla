------------------------------ MODULE MergeWorkerRuns ------------------------------
(***************************************************************************)
(* The two sides of a merge worker's run, which share nothing but how many *)
(* candidates it takes: over the runs, which candidates the window picks;  *)
(* within one, how the time is spent.  A behaviour follows one of them.    *)
(***************************************************************************)
EXTENDS MergeBudget, MergeWindow

NoBudget ==
  left = Budget /\ waiting = 0 /\ report = 0 /\ step = "gate" /\ unfunded = {}

NoWindow == count = 0 /\ hour = 0 /\ place = 0 /\ missed = 0

RunsInit ==
  \/ Init /\ NoWindow
  \/ WindowInit /\ NoBudget

RunsNext ==
  \/ Next /\ UNCHANGED windowVars
  \/ count > 0 /\ WindowNext /\ UNCHANGED vars

RunsSpec == RunsInit /\ [][RunsNext]_<<vars, windowVars>>

=============================================================================

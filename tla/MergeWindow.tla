------------------------------ MODULE MergeWindow ------------------------------
(***************************************************************************)
(* Which of the eligible pull requests a run of the autonomous-merge       *)
(* worker evaluates when there are more than one run can take: a window    *)
(* that rotates with the hour.  Parked and blocked candidates stay open    *)
(* and so stay eligible.  Candidates are known by their place in the order *)
(* of their numbers, and one of them, any of them, is followed; hours are  *)
(* followed around a cycle that every number of candidates divides, since  *)
(* the rotation reads them modulo it.                                      *)
(***************************************************************************)
EXTENDS Integers, Sequences, FiniteSets, FiniteSetsExt, SequencesExt

CONSTANTS
  MaxCandidatesPerRun,  \* MAX_CANDIDATES_PER_RUN
  Counts,               \* how many candidates there may be
  Cycle,                \* the hours followed
  WakeEvery             \* the hours from one scheduled run to the next

VARIABLES
  count,   \* how many open pull requests opted in
  hour,    \* the hour now, modulo Cycle
  place,   \* the candidate that is followed
  missed   \* the scheduled runs in a row that did not evaluate it

windowVars == <<count, hour, place, missed>>

ASSUME WindowAssumption ==
  /\ MaxCandidatesPerRun \in Nat \ {0} /\ WakeEvery \in Nat \ {0}
  /\ Counts \subseteq Nat \ {0}
ASSUME CycleAssumption ==
  /\ Cycle \in Nat \ {0} /\ Cycle % WakeEvery = 0
  /\ \A n \in Counts : Cycle % n = 0

Candidates == 0 .. count - 1

NoPriority == -1  \* the event, if there is one, names no candidate

-----------------------------------------------------------------------------
Window(n) == Min({MaxCandidatesPerRun, n})

\* Variants a mistake in this code could produce, used to show that the
\* properties notice it.
Start_ByOne(now, n) == now % n

\* Where the hour's window begins.
Start(now, n) == (now * Window(n)) % n

\* The candidates of a run, in order: the one an event names goes first.
OrderedCandidates(n, now, priority) ==
  LET rotated == [i \in 1 .. n |-> (Start(now, n) + i - 1) % n]
      ordered == IF priority \in 0 .. n - 1
                 THEN <<priority>> \o SelectSeq(rotated, LAMBDA p : p # priority)
                 ELSE rotated
  IN  SubSeq(ordered, 1, Window(n))

-----------------------------------------------------------------------------
WindowInit ==
  /\ count \in Counts
  /\ hour \in 0 .. Cycle - 1 /\ hour % WakeEvery = 0
  /\ place \in Candidates
  /\ missed = 0

\* A pull request opens, is held, released or decided: who waits from here on
\* waits among other candidates.
CandidatesChange ==
  /\ count' \in Counts \ {count}
  /\ place' \in 0 .. count' - 1
  /\ missed' = 0
  /\ UNCHANGED hour

Evaluated(priority) == ToSet(OrderedCandidates(count, hour, priority))

\* A scheduled run, and the time to the next.  What it evaluates stays open.
ScheduledRun ==
  /\ missed' = IF place \in Evaluated(NoPriority) THEN 0 ELSE Min({missed + 1, count})
  /\ hour' = (hour + WakeEvery) % Cycle
  /\ UNCHANGED <<count, place>>

\* Quality or an external review of a pull request ends and wakes the worker.
EventRun(priority) ==
  /\ missed' = IF place \in Evaluated(priority) THEN 0 ELSE missed
  /\ UNCHANGED <<count, hour, place>>

WindowNext ==
  \/ CandidatesChange
  \/ ScheduledRun
  \/ \E priority \in Candidates \cup {NoPriority} : EventRun(priority)

WindowSpec == WindowInit /\ [][WindowNext]_windowVars

-----------------------------------------------------------------------------
\* How far the window of one scheduled run begins behind the window before it, and
\* how far apart the two begin, going round either way.
Shift(n) == (WakeEvery * Window(n)) % n
Stride(n) == Min({Shift(n), n - Shift(n)})

\* Nothing lies between the windows of two scheduled runs, and they are not the same
\* unless that takes everybody.
Adjoining(n) == Window(n) = n \/ Stride(n) \in 1 .. Window(n)

\* The scheduled runs it takes to come round to everybody.
Turns(n) == IF Window(n) = n THEN 1 ELSE (n - 1 - Window(n)) \div Stride(n) + 2

\* While the candidates stay the same, the schedule alone reaches each of them within
\* the runs it takes to go round, wherever it starts and whatever events come in
\* between (autonomous_merge.py:84, "a bounded fair window").  Not where the windows
\* of the schedule leave a gap or repeat: see BoundedFairWindow.
EveryoneGetsATurn == Adjoining(count) => missed < Turns(count)

\* The docstring's claim without that exemption: no candidate is missed by as many
\* scheduled runs in a row as there are candidates.  At six hours and windows of
\* twenty the code does not keep it: with 24 candidates every scheduled window is
\* the same.
BoundedFairWindow == count > 0 => missed < count

=============================================================================

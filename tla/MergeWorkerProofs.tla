--------------------------- MODULE MergeWorkerProofs ---------------------------
(***************************************************************************)
(* Proofs about MergeWorkerRuns: how a run's time is spent, for every      *)
(* budget, reserve, maximum and number of candidates; and which candidates *)
(* the runs reach, for every window and every number of candidates.        *)
(***************************************************************************)
EXTENDS MergeWorkerRuns, FiniteSetTheorems, SequenceTheorems, TLAPS

\* What the bounds of shared_timeout come down to: the larger and the smaller
\* of two numbers.
LEMMA MaxOfTwo ==
  ASSUME NEW a \in Int, NEW b \in Int
  PROVE  Max({a, b}) = IF a >= b THEN a ELSE b
  BY DEF Max

LEMMA MinOfTwo ==
  ASSUME NEW a \in Int, NEW b \in Int
  PROVE  Min({a, b}) = IF a <= b THEN a ELSE b
  BY DEF Min

\* One of several equal shares is no more than the whole.
LEMMA ShareWithinWhole ==
  ASSUME NEW whole \in Nat, NEW shares \in Nat \ {0}
  PROVE  whole \div shares \in 0 .. whole
  OBVIOUS

\* No operation is given more time than lies above the reserve (shared_timeout).
LEMMA TimeoutLeavesReserve ==
  ASSUME NEW seconds \in Int, seconds >= Reserve,
         NEW operations \in Nat \ {0}, NEW maximum \in Nat \ {0}
  PROVE  SharedTimeout(seconds, operations, maximum) \in 0 .. (seconds - Reserve)
<1> DEFINE distributable == seconds - Reserve
           share == distributable \div operations
<1>1. distributable \in Nat
  BY BudgetAssumption
<1>2. CASE distributable < 1
  BY <1>1, <1>2 DEF SharedTimeout
<1>3. CASE distributable >= 1
  <2>1. share \in 0 .. distributable
    BY <1>1, ShareWithinWhole
  <2> HIDE DEF share
  <2>2. Max({1, share}) \in 1 .. distributable
    BY <1>1, <1>3, <2>1, MaxOfTwo
  <2>3. Min({maximum, Max({1, share})}) \in 1 .. distributable
    BY <1>1, <2>2, MinOfTwo
  <2>4. SharedTimeout(seconds, operations, maximum) = Min({maximum, Max({1, share})})
    BY <1>1, <1>3 DEF SharedTimeout, share
  <2> QED
    BY <1>1, <2>3, <2>4
<1> QED
  BY <1>1, <1>2, <1>3

-----------------------------------------------------------------------------
\* The reserve is kept by what was left, whatever is still to come: with the types
\* that is inductive.
IInv == TypeOK /\ ReserveKept

\* A run starts with its budget, of which the reserve is a part.
LEMMA InitIInv == Init => IInv
  BY BudgetAssumption DEF Init, IInv, TypeOK, ReserveKept, Kinds

\* Spending no more than a timeout keeps within what is left.
LEMMA SpendKeeps ==
  ASSUME IInv, NEW operations \in Nat \ {0}, NEW maximum \in Nat \ {0},
         Spend(SharedTimeout(left, operations, maximum))
  PROVE  left' \in Reserve .. left
<1> DEFINE timeout == SharedTimeout(left, operations, maximum)
<1>1. left \in Int /\ left >= Reserve /\ Reserve \in Nat
  BY BudgetAssumption DEF IInv, TypeOK, ReserveKept
<1>2. timeout \in 0 .. (left - Reserve)
  BY <1>1, TimeoutLeavesReserve
<1> HIDE DEF timeout
<1>3. PICK spent \in 0 .. timeout : left' = left - spent
  BY DEF Spend, timeout
<1> QED
  BY <1>1, <1>2, <1>3

\* Taking the next candidate leaves the types alone.
LEMMA AdvanceKeepsTypes ==
  ASSUME IInv, waiting > 0, Advance
  PROVE  waiting' \in 0 .. MaxCandidates /\ step' \in Kinds
  BY BudgetAssumption DEF IInv, TypeOK, Advance, Kinds

\* An operation that is not tried costs nothing.
LEMMA SkipKeeps ==
  ASSUME IInv, waiting > 0, NEW kind \in Kinds, Skip(kind)
  PROVE  IInv'
<1>1. waiting' \in 0 .. MaxCandidates /\ step' \in Kinds
  BY AdvanceKeepsTypes DEF Skip
<1> QED
  BY <1>1 DEF IInv, TypeOK, ReserveKept, Skip

\* The gate shares the budget with what remains to be done.
LEMMA GateKeeps ==
  ASSUME IInv, Gate
  PROVE  IInv'
<1> DEFINE timeout == SharedTimeout(left, RemainingOperations, GateMax)
<1>1. RemainingOperations \in Nat \ {0} /\ GateMax \in Nat \ {0}
  BY BudgetAssumption DEF Gate, IInv, TypeOK, RemainingOperations
<1>2. CASE timeout = 0
  BY <1>2, SkipKeeps DEF Gate, Kinds
<1>3. CASE timeout # 0
  <2>1. Spend(timeout) /\ UNCHANGED <<report, unfunded>>
    BY <1>3 DEF Gate
  <2>2. left' \in Reserve .. left
    BY <1>1, <2>1, SpendKeeps
  <2>3. waiting' \in 0 .. MaxCandidates /\ step' \in Kinds
    <3>1. Advance \/ (step' \in Kinds /\ UNCHANGED waiting)
      BY <1>3 DEF Gate, Kinds
    <3> QED
      BY <3>1, AdvanceKeepsTypes DEF Gate, IInv, TypeOK
  <2> QED
    BY <2>1, <2>2, <2>3, BudgetAssumption DEF IInv, TypeOK, ReserveKept
<1> QED
  BY <1>2, <1>3

\* So does a handoff.
LEMMA HandOffKeeps ==
  ASSUME IInv, HandOff
  PROVE  IInv'
<1> DEFINE timeout == SharedTimeout(left, waiting, HandoffMax)
<1>1. waiting \in Nat \ {0} /\ HandoffMax \in Nat \ {0} /\ step \in Kinds
  BY BudgetAssumption DEF HandOff, IInv, TypeOK
<1>2. CASE timeout = 0
  BY <1>1, <1>2, SkipKeeps DEF HandOff
<1>3. CASE timeout # 0
  <2>1. Spend(timeout) /\ Advance /\ UNCHANGED <<report, unfunded>>
    BY <1>3 DEF HandOff
  <2>2. left' \in Reserve .. left
    BY <1>1, <2>1, SpendKeeps
  <2>3. waiting' \in 0 .. MaxCandidates /\ step' \in Kinds
    BY <2>1, AdvanceKeepsTypes DEF HandOff
  <2> QED
    BY <2>1, <2>2, <2>3, BudgetAssumption DEF IInv, TypeOK, ReserveKept
<1> QED
  BY <1>2, <1>3

\* The invariant holds of every run of the worker.
THEOREM Invariance == Spec => []IInv
<1>1. IInv /\ [Next]_vars => IInv'
  <2> SUFFICES ASSUME IInv, [Next]_vars PROVE IInv'
    OBVIOUS
  <2>1. CASE Next
    BY <2>1, GateKeeps, HandOffKeeps DEF Next
  <2>2. CASE UNCHANGED vars
    BY <2>2 DEF IInv, TypeOK, ReserveKept, vars
  <2> QED
    BY <2>1, <2>2
<1> QED
  BY InitIInv, <1>1, PTL DEF Spec

\* Every variable keeps its type: in particular the time left is never overdrawn.
THEOREM TypeCorrectness == Spec => []TypeOK
<1>1. IInv => TypeOK
  BY DEF IInv
<1> QED
  BY Invariance, <1>1, PTL

\* However long every operation takes, the worker's shutdown reserve stays
\* untouched, whatever the budget, the maxima and the number of candidates.
THEOREM ReserveIsKept == Spec => []ReserveKept
<1>1. IInv => ReserveKept
  BY DEF IInv
<1> QED
  BY Invariance, <1>1, PTL

-----------------------------------------------------------------------------
(***************************************************************************)
(* That nothing that matters goes unfunded.  When w candidates wait, the   *)
(* time above the reserve is at least w * w, or w * (w + 1) if the report  *)
(* is among them, however long the operations before took.                 *)
(***************************************************************************)
Distributable == left - Reserve
Handoffs == IF report \in 1 .. waiting THEN 1 ELSE 0

\* Before a gate, and between a gate and the handoff that follows it.
Funded ==
  IF step = "gate" THEN Distributable >= waiting * (waiting + Handoffs)
  ELSE Distributable >= waiting * (waiting + Handoffs - 1)

FInv ==
  /\ IInv /\ Funded
  /\ {"gate", "postMerge"} \cap unfunded = {}
  /\ waiting > 0 => unfunded = {}
  /\ waiting > 0 /\ step = "postMerge" => report = waiting

\* One of n equal shares of at least n * k leaves the others their k.
LEMMA ShareLeavesTheOthers ==
  ASSUME NEW whole \in Nat, NEW n \in Nat \ {0}, NEW k \in Nat, whole >= n * k
  PROVE  /\ whole - (whole \div n) >= (n - 1) * k
         /\ k > 0 => whole \div n >= 1
<1> DEFINE q == whole \div n
           r == whole % n
<1>1. q \in Nat /\ r \in 0 .. (n - 1) /\ whole = n * q + r
  OBVIOUS
<1> HIDE DEF q, r
<1>2. q >= k
  <2> SUFFICES ASSUME q + 1 <= k PROVE FALSE
    BY <1>1
  <2>1. n * (q + 1) <= n * k
    BY <1>1
  <2>2. n * (q + 1) = n * q + n
    BY <1>1
  <2>3. n * q \in Int /\ n * k \in Int
    BY <1>1
  <2> QED
    BY <1>1, <2>1, <2>2, <2>3
<1>3. (n - 1) * q >= (n - 1) * k
  BY <1>1, <1>2
<1>4. whole - q >= (n - 1) * q
  <2>1. (n - 1) * q = n * q - q
    BY <1>1
  <2>2. n * q \in Int
    BY <1>1
  <2> QED
    BY <1>1, <2>1, <2>2
<1>5. (n - 1) * q \in Int /\ (n - 1) * k \in Int
  BY <1>1
<1> QED
  BY <1>1, <1>2, <1>3, <1>4, <1>5 DEF q

\* An operation given its share of time for n, each with at least k, leaves k to
\* each of the others; and it is tried if k is not 0.
LEMMA SpendLeavesTheOthers ==
  ASSUME IInv, NEW n \in Nat \ {0}, NEW k \in Nat, NEW maximum \in Nat \ {0},
         Distributable >= n * k
  PROVE  LET timeout == SharedTimeout(left, n, maximum)
         IN  /\ k > 0 => timeout # 0
             /\ Spend(timeout) => Distributable' >= (n - 1) * k
<1> DEFINE whole == left - Reserve
           timeout == SharedTimeout(left, n, maximum)
           share == whole \div n
<1>1. left \in Int /\ Reserve \in Nat /\ whole \in Nat /\ whole >= n * k
  BY BudgetAssumption DEF IInv, TypeOK, ReserveKept, Distributable
<1>2. share \in Nat /\ share <= whole
  BY <1>1, ShareWithinWhole
<1>3. whole - share >= (n - 1) * k /\ (k > 0 => share >= 1)
  BY <1>1, ShareLeavesTheOthers
<1>4. n * k \in Nat /\ (n - 1) * k \in Nat
  OBVIOUS
<1>5. timeout = IF whole < 1 THEN 0 ELSE Min({maximum, Max({1, share})})
  BY DEF SharedTimeout
<1>6. k > 0 => whole >= 1
  BY <1>1, <1>2, <1>3
<1> HIDE DEF whole, share, timeout
<1>7. CASE whole < 1
  <2>1. k = 0 /\ timeout = 0 /\ whole = 0
    BY <1>1, <1>5, <1>6, <1>7
  <2>2. (n - 1) * k = 0
    BY <2>1
  <2>3. Spend(timeout) => left' = left
    BY <1>1, <2>1 DEF Spend
  <2> QED
    BY <1>1, <2>1, <2>2, <2>3, BudgetAssumption DEF Distributable, whole, timeout
<1>8. CASE whole >= 1
  <2>1. Max({1, share}) = IF 1 >= share THEN 1 ELSE share
    BY <1>2, MaxOfTwo
  <2>2. timeout = IF maximum <= Max({1, share}) THEN maximum ELSE Max({1, share})
    BY <1>1, <1>2, <1>5, <1>8, <2>1, MinOfTwo
  <2>3. timeout \in Nat \ {0} /\ (timeout <= share \/ timeout <= 1)
    BY <1>2, <2>1, <2>2
  <2>4. whole - timeout >= (n - 1) * k
    <3>1. CASE k > 0
      BY <1>1, <1>2, <1>3, <1>4, <2>3, <3>1
    <3>2. CASE k = 0
      <4>1. (n - 1) * k = 0
        BY <3>2
      <4> QED
        BY <1>1, <1>2, <1>8, <2>3, <4>1
    <3> QED
      BY <3>1, <3>2
  <2>5. ASSUME Spend(timeout)
        PROVE  Distributable' >= (n - 1) * k
    <3>1. PICK spent \in 0 .. timeout : left' = left - spent
      BY <2>5 DEF Spend
    <3> QED
      BY <1>1, <1>4, <2>3, <2>4, <3>1 DEF Distributable, whole
  <2> QED
    BY <2>3, <2>5 DEF timeout
<1> QED
  BY <1>1, <1>7, <1>8

\* What the shares of the others come to covers those that wait afterwards.
LEMMA SharesAfterGate ==
  ASSUME NEW w \in Nat \ {0}, NEW h \in 0 .. 1, NEW g \in 0 .. 1, g <= h,
         NEW n \in Nat, n = w + h
  PROVE  (n - 1) * w >= (w - 1) * ((w - 1) + g)
<1> DEFINE a == w - 1
           b == (w - 1) + g
           c == n - 1
<1>1. a \in Nat /\ b \in Nat /\ c \in Nat /\ c >= b /\ w >= a
  OBVIOUS
<1> HIDE DEF a, b, c
<1>2. c * w >= b * w /\ b * w >= b * a /\ b * a = a * b
  BY <1>1
<1>3. c * w \in Int /\ b * w \in Int /\ a * b \in Int
  BY <1>1
<1>4. c * w >= a * b
  BY <1>2, <1>3
<1> QED
  BY <1>4 DEF a, b, c

LEMMA SharesAfterHandOff ==
  ASSUME NEW w \in Nat \ {0}, NEW h \in 0 .. 1, NEW g \in 0 .. 1, g <= h
  PROVE  (w - 1) * (w + h - 1) >= (w - 1) * ((w - 1) + g)
<1> DEFINE a == w - 1
           b == (w - 1) + g
           c == w + h - 1
<1>1. a \in Nat /\ b \in Nat /\ c \in Nat /\ c >= b
  OBVIOUS
<1> HIDE DEF a, b, c
<1>2. a * c >= a * b
  BY <1>1
<1> QED
  BY <1>2 DEF a, b, c

\* Whoever is next, the report is not among them if it was not among those before.
LEMMA AdvanceFacts ==
  ASSUME IInv, waiting > 0, Advance, report' = report
  PROVE  /\ waiting' = waiting - 1 /\ step' = "gate"
         /\ Handoffs \in 0 .. 1 /\ Handoffs' \in 0 .. 1 /\ Handoffs' <= Handoffs
BY DEF Advance, Handoffs, IInv, TypeOK

LEMMA InitFInv == Init => FInv
<1> SUFFICES ASSUME Init PROVE FInv
  OBVIOUS
<1>1. IInv /\ waiting \in 1 .. MaxCandidates /\ unfunded = {} /\ step = "gate"
  BY InitIInv DEF Init
<1>2. Handoffs \in 0 .. 1 /\ Distributable = Budget - Reserve
  BY DEF Handoffs, Distributable, Init
<1>3. MaxCandidates * (MaxCandidates + 1) >= waiting * (waiting + Handoffs)
  <2>1. MaxCandidates \in Nat /\ waiting \in Nat /\ waiting + Handoffs \in Nat
        /\ MaxCandidates >= waiting /\ MaxCandidates + 1 >= waiting + Handoffs
    BY <1>1, <1>2, BudgetAssumption
  <2>2. \A a, b, c, d \in Nat : a >= c /\ b >= d => a * b >= c * d
    <3> SUFFICES ASSUME NEW a \in Nat, NEW b \in Nat, NEW c \in Nat, NEW d \in Nat,
                        a >= c, b >= d
                 PROVE  a * b >= c * d
      OBVIOUS
    <3>1. a * b >= a * d /\ a * d >= c * d
      OBVIOUS
    <3> QED
      BY <3>1
  <2> QED
    BY <2>1, <2>2
<1>4. Funded
  <2>1. MaxCandidates * (MaxCandidates + 1) \in Nat /\ waiting * (waiting + Handoffs) \in Nat
    BY <1>1, <1>2, BudgetAssumption
  <2>2. Budget - Reserve \in Nat
    BY BudgetAssumption
  <2> QED
    BY <1>1, <1>2, <1>3, <2>1, <2>2, FundingAssumption DEF Funded
<1> QED
  BY <1>1, <1>4 DEF FInv

\* The gate of the first of w candidates leaves w - 1 + Handoffs of its shares.
LEMMA GateKeepsFunded ==
  ASSUME FInv, Gate
  PROVE  FInv'
<1> DEFINE n == waiting + Handoffs
           timeout == SharedTimeout(left, RemainingOperations, GateMax)
<1>1. /\ IInv /\ waiting \in Nat \ {0} /\ Handoffs \in 0 .. 1 /\ n \in Nat \ {0}
      /\ step = "gate" /\ unfunded = {} /\ GateMax \in Nat \ {0}
  BY BudgetAssumption DEF FInv, Gate, IInv, TypeOK, Handoffs
<1>2. RemainingOperations = n
  BY DEF RemainingOperations, Handoffs
<1>3. Distributable >= n * waiting
  <2>1. Distributable >= waiting * n
    BY <1>1 DEF FInv, Funded
  <2>2. waiting * n = n * waiting
    BY <1>1
  <2> QED
    BY <2>1, <2>2
<1>4. /\ timeout # 0
      /\ Spend(timeout) => Distributable' >= (n - 1) * waiting
  BY <1>1, <1>2, <1>3, SpendLeavesTheOthers
<1>5. Spend(timeout) /\ report' = report /\ unfunded' = {}
  BY <1>1, <1>4 DEF Gate
<1>6. IInv'
  BY <1>1, GateKeeps
<1>7. Distributable' \in Int
  BY <1>6, BudgetAssumption DEF IInv, TypeOK, Distributable
<1>8. CASE Advance
  <2>1. /\ waiting' = waiting - 1 /\ step' = "gate"
        /\ Handoffs' \in 0 .. 1 /\ Handoffs' <= Handoffs
    BY <1>1, <1>5, <1>8, AdvanceFacts
  <2>2. (n - 1) * waiting >= (waiting - 1) * ((waiting - 1) + Handoffs')
    <3>1. n = waiting + Handoffs
      OBVIOUS
    <3> HIDE DEF n
    <3> QED
      BY <1>1, <2>1, <3>1, SharesAfterGate
  <2>3. (n - 1) * waiting \in Int /\ (waiting - 1) * ((waiting - 1) + Handoffs') \in Int
    BY <1>1, <2>1
  <2>4. Distributable' >= waiting' * (waiting' + Handoffs')
    BY <1>4, <1>5, <1>7, <2>1, <2>2, <2>3
  <2>5. Funded'
    BY <2>1, <2>4 DEF Funded
  <2> QED
    BY <1>5, <1>6, <2>1, <2>5 DEF FInv
<1>9. CASE waiting' = waiting /\ (step' = "decision" \/ (step' = "postMerge" /\ report = waiting))
  <2>1. Handoffs' = Handoffs
    BY <1>5, <1>9 DEF Handoffs
  <2>2. (n - 1) * waiting = waiting * (n - 1)
    BY <1>1
  <2>3. Distributable' >= waiting * (waiting + Handoffs - 1)
    <3>1. Distributable' >= waiting * (n - 1)
      BY <1>4, <1>5, <2>2
    <3> QED
      BY <1>1, <3>1
  <2>4. Distributable' >= waiting' * (waiting' + Handoffs' - 1)
    <3>1. waiting' * (waiting' + Handoffs' - 1) = waiting * (waiting + Handoffs - 1)
      BY <1>9, <2>1
    <3> QED
      BY <2>3, <3>1
  <2>5. Funded'
    BY <1>9, <2>4 DEF Funded
  <2> QED
    BY <1>5, <1>6, <1>9, <2>5 DEF FInv
<1>10. \/ Advance
       \/ waiting' = waiting /\ (step' = "decision" \/ (step' = "postMerge" /\ report = waiting))
  <2>1. timeout # 0
    BY <1>1, <1>4
  <2> QED
    BY <2>1 DEF Gate
<1> QED
  BY <1>8, <1>9, <1>10

\* A handoff gets one of w shares; only after the last gate of a run without a
\* report there may be none left.
LEMMA HandOffKeepsFunded ==
  ASSUME FInv, HandOff
  PROVE  FInv'
<1> DEFINE k == waiting + Handoffs - 1
           timeout == SharedTimeout(left, waiting, HandoffMax)
<1>1. /\ IInv /\ waiting \in Nat \ {0} /\ Handoffs \in 0 .. 1 /\ k \in Nat
      /\ step \in {"decision", "postMerge"} /\ unfunded = {} /\ HandoffMax \in Nat \ {0}
  BY BudgetAssumption DEF FInv, HandOff, IInv, TypeOK, Handoffs, Kinds
<1>2. Distributable >= waiting * k
  BY <1>1 DEF FInv, Funded
<1>3. /\ k > 0 => timeout # 0
      /\ Spend(timeout) => Distributable' >= (waiting - 1) * k
  BY <1>1, <1>2, SpendLeavesTheOthers
<1>4. Advance /\ report' = report
  BY DEF HandOff, Skip
<1>5. /\ waiting' = waiting - 1 /\ step' = "gate"
      /\ Handoffs' \in 0 .. 1 /\ Handoffs' <= Handoffs
  BY <1>1, <1>4, AdvanceFacts
<1>6. IInv'
  BY <1>1, HandOffKeeps
<1>7. Distributable' \in Int
  BY <1>6, BudgetAssumption DEF IInv, TypeOK, Distributable
<1>8. CASE timeout # 0
  <2>1. Spend(timeout) /\ unfunded' = {}
    BY <1>1, <1>8 DEF HandOff
  <2>2. (waiting - 1) * k >= (waiting - 1) * ((waiting - 1) + Handoffs')
    <3> HIDE DEF k
    <3>1. (waiting - 1) * (waiting + Handoffs - 1) >= (waiting - 1) * ((waiting - 1) + Handoffs')
      BY <1>1, <1>5, SharesAfterHandOff
    <3> QED
      BY <3>1 DEF k
  <2>3. (waiting - 1) * k \in Int /\ (waiting - 1) * ((waiting - 1) + Handoffs') \in Int
    BY <1>1, <1>5
  <2>4. Distributable' >= waiting' * (waiting' + Handoffs')
    BY <1>3, <1>5, <1>7, <2>1, <2>2, <2>3
  <2>5. Funded'
    BY <1>5, <2>4 DEF Funded
  <2> QED
    BY <1>5, <1>6, <2>1, <2>5 DEF FInv
<1>9. CASE timeout = 0
  <2>1. k = 0
    BY <1>1, <1>3, <1>9
  <2>2. waiting = 1 /\ Handoffs = 0
    BY <1>1, <2>1
  <2>3. step = "decision"
    BY <1>1, <2>2 DEF FInv, Handoffs
  <2>4. unfunded' = {"decision"} /\ left' = left /\ waiting' = 0
    <3>1. Skip(step)
      BY <1>9 DEF HandOff
    <3>2. unfunded' = {} \cup {"decision"} /\ left' = left
      BY <1>1, <2>3, <3>1 DEF Skip
    <3>3. waiting' = 0
      BY <1>5, <2>2
    <3> QED
      BY <3>2, <3>3
  <2>5. Distributable' >= 0
    <3>1. left \in Int /\ Reserve \in Int /\ left >= Reserve
      BY <1>1, BudgetAssumption DEF IInv, ReserveKept, TypeOK
    <3> QED
      BY <2>4, <3>1 DEF Distributable
  <2>6. waiting' * (waiting' + Handoffs') = 0
    BY <1>5, <2>4
  <2>7. Funded'
    BY <1>5, <2>5, <2>6 DEF Funded
  <2> QED
    BY <1>5, <1>6, <2>4, <2>7 DEF FInv
<1> QED
  BY <1>8, <1>9

LEMMA FundedStep == FInv /\ [Next]_vars => FInv'
<1> SUFFICES ASSUME FInv, [Next]_vars PROVE FInv'
  OBVIOUS
<1>1. CASE Next
  BY <1>1, GateKeepsFunded, HandOffKeepsFunded DEF Next
<1>2. CASE UNCHANGED vars
  BY <1>2 DEF FInv, Funded, Distributable, Handoffs, IInv, TypeOK, ReserveKept, vars
<1> QED
  BY <1>1, <1>2

LEMMA FundedInvariance == Spec => []FInv
  BY InitFInv, FundedStep, PTL DEF Spec

\* The report's handoff is tried in the run that merged it, however long the gates
\* and handoffs before it took.
THEOREM MergedReportsAreHandedOff == Spec => []MergedReportIsHandedOff
<1>1. FInv => MergedReportIsHandedOff
  BY DEF FInv, MergedReportIsHandedOff
<1> QED
  BY FundedInvariance, <1>1, PTL

\* No candidate is put off for lack of time.
THEOREM CandidatesAreEvaluated == Spec => []EveryCandidateIsEvaluated
<1>1. FInv => EveryCandidateIsEvaluated
  BY DEF FInv, EveryCandidateIsEvaluated
<1> QED
  BY FundedInvariance, <1>1, PTL

\* The one operation that may get no time is the decision handoff of the last
\* candidate: a parked one before it is always surfaced.
THEOREM OnlyTheLastParkMayWait == Spec => [](waiting > 0 => "decision" \notin unfunded)
<1>1. FInv => (waiting > 0 => "decision" \notin unfunded)
  BY DEF FInv
<1> QED
  BY FundedInvariance, <1>1, PTL

------------------------------------------------------

-----------------------------------------------------------------------------
(***************************************************************************)
(* Over the runs: the window.                                              *)
(***************************************************************************)
\* What division leaves: the remainder, and nothing else below the divisor.
LEMMA Remainder ==
  ASSUME NEW a \in Nat, NEW n \in Nat \ {0}
  PROVE  a % n \in 0 .. n - 1 /\ \E q \in Nat : a = q * n + (a % n)
<1> DEFINE q == a \div n
           r == a % n
<1>1. q \in Nat /\ r \in 0 .. n - 1 /\ a = q * n + r
  OBVIOUS
<1> HIDE DEF q, r
<1>2. r \in 0 .. n - 1 /\ \E x \in Nat : a = x * n + r
  BY <1>1
<1> QED
  BY <1>2 DEF r

LEMMA RemainderIsUnique ==
  ASSUME NEW a \in Nat, NEW n \in Nat \ {0}, NEW q \in Nat, NEW r \in 0 .. n - 1,
         a = q * n + r
  PROVE  a % n = r
  OBVIOUS

\* Whole rounds do not show in the remainder.
LEMMA SameRemainder ==
  ASSUME NEW a \in Nat, NEW n \in Nat \ {0}, NEW q \in Int, NEW r \in 0 .. n - 1,
         a = q * n + r
  PROVE  a % n = r
<1>1. q * n > -n
  <2>1. q * n \in Int
    OBVIOUS
  <2> QED
    BY <2>1
<1>2. q \in Nat
  <2> SUFFICES ASSUME q <= -1 PROVE FALSE
    OBVIOUS
  <2>1. q * n <= (-1) * n
    OBVIOUS
  <2> QED
    BY <1>1, <2>1
<1> QED
  BY <1>2, RemainderIsUnique

\* Multiples of a number: one more is that number more, fewer are less.
LEMMA Multiples ==
  ASSUME NEW k \in Nat, NEW b \in Nat
  PROVE  /\ k * b \in Nat
         /\ (k + 1) * b = k * b + b
         /\ \A j \in 0 .. k : j * b \in Nat /\ j * b <= k * b
  OBVIOUS

-----------------------------------------------------------------------------
(***************************************************************************)
(* The rotation.                                                           *)
(***************************************************************************)

LEMMA WindowSize ==
  ASSUME NEW n \in Nat \ {0}
  PROVE  /\ Window(n) \in 1 .. n
         /\ n <= MaxCandidatesPerRun => Window(n) = n
<1>1. MaxCandidatesPerRun \in Nat \ {0}
  BY WindowAssumption
<1>2. Min({MaxCandidatesPerRun, n}) = IF MaxCandidatesPerRun <= n THEN MaxCandidatesPerRun ELSE n
  BY <1>1 DEF Min
<1> QED
  BY <1>1, <1>2 DEF Window

LEMMA ShiftBounds ==
  ASSUME NEW n \in Nat \ {0}
  PROVE  Shift(n) \in 0 .. n - 1 /\ \E q \in Nat : WakeEvery * Window(n) = q * n + Shift(n)
<1>1. WakeEvery \in Nat /\ Window(n) \in Nat
  BY WindowAssumption, WindowSize
<1>2. WakeEvery * Window(n) \in Nat
  BY <1>1
<1> HIDE DEF Window
<1> QED
  BY <1>2, Remainder DEF Shift

\* How far before a candidate's place a window that starts at `start` begins, going
\* round n places.
Ahead(p, start, n) == IF p >= start THEN p - start ELSE p - start + n

LEMMA AheadBounds ==
  ASSUME NEW n \in Nat \ {0}, NEW s \in 0 .. n - 1, NEW p \in 0 .. n - 1
  PROVE  Ahead(p, s, n) \in 0 .. n - 1
  BY DEF Ahead

LEMMA StartIsAPlace ==
  ASSUME NEW n \in Nat \ {0}, NEW now \in Nat
  PROVE  /\ Start(now, n) \in 0 .. n - 1
         /\ \E q \in Nat : now * Window(n) = q * n + Start(now, n)
<1>1. Window(n) \in Nat
  BY WindowSize
<1>2. now * Window(n) \in Nat
  BY <1>1
<1> HIDE DEF Window
<1> QED
  BY <1>2, Remainder DEF Start

\* From one scheduled run to the next the window moves by the shift, going round.
LEMMA NextStart ==
  ASSUME NEW n \in Counts, NEW now \in 0 .. Cycle - 1
  PROVE  Start((now + WakeEvery) % Cycle, n)
           = IF Start(now, n) + Shift(n) < n
             THEN Start(now, n) + Shift(n) ELSE Start(now, n) + Shift(n) - n
<1> DEFINE w == Window(n)
           s == Start(now, n)
           d == Shift(n)
           later == (now + WakeEvery) % Cycle
<1>1. n \in Nat \ {0} /\ Cycle \in Nat \ {0} /\ now \in Nat /\ WakeEvery \in Nat
  BY CycleAssumption, WindowAssumption
<1>2. w \in Nat /\ s \in 0 .. n - 1 /\ d \in 0 .. n - 1
  <2>1. w \in 1 .. n
    BY <1>1, WindowSize
  <2>2. s \in 0 .. n - 1
    BY <1>1, StartIsAPlace
  <2>3. d \in 0 .. n - 1
    BY <1>1, ShiftBounds
  <2> QED
    BY <1>1, <2>1, <2>2, <2>3
<1>3. PICK a \in Nat : now * w = a * n + s
  BY <1>1, StartIsAPlace
<1>4. PICK b \in Nat : WakeEvery * w = b * n + d
  BY <1>1, ShiftBounds
<1>5. PICK c \in Nat : Cycle = c * n + 0
  <2>1. Cycle % n = 0
    BY CycleAssumption
  <2> QED
    BY <1>1, <2>1, Remainder
<1>6. later \in Nat /\ \E k \in Nat : now + WakeEvery = k * Cycle + later
  <2>1. now + WakeEvery \in Nat /\ Cycle \in Nat \ {0}
    BY <1>1
  <2>2. /\ later \in 0 .. Cycle - 1
        /\ \E k \in Nat : now + WakeEvery = k * Cycle + later
    BY <2>1, Remainder
  <2> HIDE DEF later
  <2>3. later \in Nat
    BY <2>1, <2>2
  <2> QED
    BY <2>2, <2>3, Zenon
<1>7. PICK k \in Nat : now + WakeEvery = k * Cycle + later
  BY <1>6
<1>8. Start(later, n) = (later * w) % n
  BY DEF Start
<1> HIDE DEF w, s, d, later
<1>9. later * w = (a + b - (k * c) * w) * n + (s + d)
  <2>1. later = now + WakeEvery - k * (c * n)
    BY <1>1, <1>5, <1>6, <1>7
  <2>2. later * w = now * w + WakeEvery * w - (k * (c * n)) * w
    BY <1>1, <1>2, <2>1
  <2>3. (k * (c * n)) * w = ((k * c) * w) * n
    BY <1>1, <1>2
  <2>4. (a + b - (k * c) * w) * n = a * n + b * n - ((k * c) * w) * n
    BY <1>1, <1>2
  <2> QED
    BY <1>1, <1>2, <1>3, <1>4, <2>2, <2>3, <2>4
<1> DEFINE q == a + b - (k * c) * w
<1>10. q \in Int /\ later * w \in Nat
  BY <1>2, <1>6
<1> HIDE DEF q
<1>11. CASE s + d < n
  <2>1. s + d \in 0 .. n - 1 /\ later * w = q * n + (s + d)
    BY <1>1, <1>2, <1>9, <1>11 DEF q
  <2>2. (later * w) % n = s + d
    BY <1>1, <1>10, <2>1, SameRemainder
  <2> QED
    BY <1>8, <1>11, <2>2 DEF s, d, later
<1>12. CASE ~(s + d < n)
  <2>1. s + d - n \in 0 .. n - 1 /\ q + 1 \in Int
    BY <1>1, <1>2, <1>10, <1>12
  <2>2. (q + 1) * n = q * n + n
    BY <1>1, <1>10
  <2>3. later * w = (q + 1) * n + (s + d - n)
    <3>1. later * w = q * n + (s + d)
      BY <1>9 DEF q
    <3>2. q * n \in Int
      BY <1>1, <1>10
    <3> QED
      BY <1>1, <1>2, <2>2, <3>1, <3>2
  <2>4. (later * w) % n = s + d - n
    BY <1>1, <1>10, <2>1, <2>3, SameRemainder
  <2>5. (IF s + d < n THEN s + d ELSE s + d - n) = s + d - n
    BY <1>12, Zenon
  <2> QED
    BY <1>8, <2>4, <2>5, Zenon DEF s, d, later
<1> QED
  BY <1>11, <1>12

\* Whoever the next window begins less than its size before is evaluated by it.
LEMMA WindowEvaluates ==
  ASSUME count \in Nat \ {0}, hour \in Nat, NEW p \in Candidates,
         Ahead(p, Start(hour, count), count) < Window(count)
  PROVE  p \in Evaluated(NoPriority)
<1> DEFINE n == count
           s == Start(hour, n)
           w == Window(n)
           i == Ahead(p, s, n) + 1
           rotated == [k \in 1 .. n |-> (s + k - 1) % n]
<1>1. s \in 0 .. n - 1 /\ w \in 1 .. n /\ p \in 0 .. n - 1
  BY StartIsAPlace, WindowSize DEF Candidates
<1>2. i \in 1 .. w /\ i \in 1 .. n
  BY <1>1 DEF Ahead
<1>3. (s + i - 1) % n = p
  <2>1. CASE p >= s
    <3>1. s + i - 1 = 0 * n + p
      BY <1>1, <2>1 DEF Ahead
    <3> QED
      BY <1>1, <1>2, <3>1, RemainderIsUnique
  <2>2. CASE p < s
    <3>1. s + i - 1 = 1 * n + p
      BY <1>1, <2>2 DEF Ahead
    <3> QED
      BY <1>1, <1>2, <3>1, RemainderIsUnique
  <2> QED
    BY <1>1, <2>1, <2>2
<1>4. OrderedCandidates(n, hour, NoPriority) = SubSeq(rotated, 1, w)
  BY <1>1 DEF OrderedCandidates, NoPriority
<1>5. /\ DOMAIN SubSeq(rotated, 1, w) = 1 .. w
      /\ SubSeq(rotated, 1, w)[i] = rotated[i]
  <2>1. \A k \in 1 .. n : rotated[k] \in Int
    BY <1>1
  <2>2. rotated \in Seq(Int) /\ Len(rotated) = n
    BY <2>1
  <2> HIDE DEF rotated, i
  <2> QED
    BY <1>1, <1>2, <2>2, SubSeqProperties
<1>6. p = SubSeq(rotated, 1, w)[i]
  <2>1. rotated[i] = (s + i - 1) % n
    BY <1>2
  <2> QED
    BY <1>3, <1>5, <2>1
<1> HIDE DEF rotated, i, w
<1> QED
  BY <1>2, <1>4, <1>5, <1>6 DEF Evaluated, ToSet

\* How a candidate that has been missed waits.  When the window moves forward, by its
\* size or less, what was missed and what is ahead come to less than one round; when
\* it moves backward, the candidate is farther ahead the more it has missed, until
\* the next window takes it.
Forward(n) == Shift(n) \in 1 .. Window(n)
Backward(n) == n - Shift(n) \in 1 .. Window(n)

WaitsForward(n, m, ahead) ==
  /\ ahead + m * Shift(n) <= n - 1
  /\ ahead + Shift(n) >= Window(n)

WaitsBackward(n, m, ahead) ==
  \/ Window(n) + m * (n - Shift(n)) <= ahead
  \/ Window(n) + (m - 1) * (n - Shift(n)) <= n - 1 /\ ahead < n - Shift(n)

Waits(n, m, ahead) ==
  /\ Forward(n) => WaitsForward(n, m, ahead)
  /\ Backward(n) => WaitsBackward(n, m, ahead)

WindowInv ==
  /\ hour \in 0 .. Cycle - 1
  /\ missed \in Nat
  /\ \/ count = 0 /\ missed = 0
     \/ count \in Counts /\ place \in Candidates
  /\ missed > 0 => /\ Window(count) < count
                   /\ Waits(count, missed, Ahead(place, Start(hour, count), count))

LEMMA InitWindowInv == WindowInit => WindowInv
  BY DEF WindowInit, WindowInv

\* The step of a missed run, in either direction.
LEMMA WaitsOneMore ==
  ASSUME NEW n \in Counts, NEW now \in 0 .. Cycle - 1, NEW p \in 0 .. n - 1,
         NEW m \in Nat,
         Ahead(p, Start(now, n), n) >= Window(n),
         m > 0 => Waits(n, m, Ahead(p, Start(now, n), n))
  PROVE  Waits(n, m + 1, Ahead(p, Start((now + WakeEvery) % Cycle, n), n))
<1> DEFINE w == Window(n)
           d == Shift(n)
           s == Start(now, n)
           later == Start((now + WakeEvery) % Cycle, n)
           ahead == Ahead(p, s, n)
           then == Ahead(p, later, n)
<1>1. n \in Nat \ {0} /\ now \in Nat
  BY CycleAssumption, WindowAssumption
<1>2. w \in 1 .. n /\ d \in 0 .. n - 1 /\ s \in 0 .. n - 1
  BY <1>1, WindowSize, ShiftBounds, StartIsAPlace
<1>3. later = IF s + d < n THEN s + d ELSE s + d - n
  BY NextStart, Zenon
<1>4. ahead \in 0 .. n - 1 /\ ahead >= w
  BY <1>1, <1>2, AheadBounds
<1>5. ASSUME d \in 1 .. w PROVE then = ahead - d
  BY <1>1, <1>2, <1>3, <1>4, <1>5 DEF Ahead
<1>6. ASSUME n - d \in 1 .. w
      PROVE  then = IF ahead + (n - d) < n THEN ahead + (n - d) ELSE ahead - d
  BY <1>1, <1>2, <1>3, <1>4, <1>6 DEF Ahead
<1>7. m > 0 => Waits(n, m, ahead)
  OBVIOUS
<1> HIDE DEF w, d, s, later, ahead, then
<1>8. ASSUME d \in 1 .. w
      PROVE  then + (m + 1) * d <= n - 1 /\ then + d >= w
  <2>1. m * d \in Nat /\ (m + 1) * d = m * d + d
    BY <1>2, Multiples
  <2>2. ahead + m * d <= n - 1
    <3>1. CASE m = 0
      <4>1. m * d = 0
        BY <1>2, <3>1
      <4> QED
        BY <1>1, <1>4, <4>1
    <3>2. CASE m > 0
      BY <1>7, <1>8, <3>2 DEF Waits, Forward, WaitsForward, w, d
    <3> QED
      BY <3>1, <3>2
  <2> QED
    BY <1>1, <1>2, <1>4, <1>5, <1>8, <2>1, <2>2
<1>9. ASSUME n - d \in 1 .. w
      PROVE  \/ w + (m + 1) * (n - d) <= then
             \/ w + m * (n - d) <= n - 1 /\ then < n - d
  <2> DEFINE b == n - d
  <2>1. m * b \in Nat /\ (m + 1) * b = m * b + b /\ b \in 1 .. w
    BY <1>9, Multiples
  <2> HIDE DEF b
  <2>2. w + m * b <= ahead
    <3>1. CASE m = 0
      <4>1. m * b = 0
        BY <2>1, <3>1
      <4> QED
        BY <1>2, <1>4, <4>1
    <3>2. CASE m > 0
      <4>1. \/ w + m * b <= ahead
            \/ ahead < b
        BY <1>7, <1>9, <3>2 DEF Waits, Backward, WaitsBackward, w, d, b
      <4> QED
        BY <1>2, <1>4, <2>1, <4>1
    <3> QED
      BY <3>1, <3>2
  <2>3. CASE ahead + b < n
    <3>1. then = ahead + b
      BY <1>6, <1>9, <2>3 DEF b
    <3> QED
      BY <1>1, <1>2, <1>4, <2>1, <2>2, <3>1 DEF b
  <2>4. CASE ~(ahead + b < n)
    <3>1. then = ahead + b - n
      BY <1>1, <1>2, <1>4, <1>6, <1>9, <2>4 DEF b
    <3>2. w + m * b <= n - 1 /\ then < b
      BY <1>1, <1>2, <1>4, <2>1, <2>2, <3>1
    <3> QED
      BY <3>2 DEF b
  <2> QED
    BY <2>3, <2>4
<1>10. (m + 1) - 1 = m
  OBVIOUS
<1> QED
  BY <1>8, <1>9, <1>10
     DEF Waits, Forward, Backward, WaitsForward, WaitsBackward, w, d, then, later

\* Who waits as if more had been missed waits as it should.
LEMMA WaitsFewer ==
  ASSUME NEW n \in Nat \ {0}, NEW ahead \in Nat, NEW m \in Nat \ {0}, NEW k \in 1 .. m,
         Waits(n, m, ahead)
  PROVE  Waits(n, k, ahead)
<1> DEFINE w == Window(n)
           d == Shift(n)
<1>1. w \in 1 .. n /\ d \in 0 .. n - 1 /\ n - d \in Nat
  BY WindowSize, ShiftBounds
<1>2. Waits(n, m, ahead)
  OBVIOUS
<1> HIDE DEF w, d
<1>3. k * d <= m * d /\ k * d \in Nat /\ m * d \in Nat
  BY <1>1, Multiples
<1>4. /\ k * (n - d) <= m * (n - d) /\ k * (n - d) \in Nat /\ m * (n - d) \in Nat
  BY <1>1, Multiples
<1>5. /\ (k - 1) * (n - d) <= (m - 1) * (n - d)
      /\ (k - 1) * (n - d) \in Nat /\ (m - 1) * (n - d) \in Nat
  <2>1. m - 1 \in Nat /\ k - 1 \in 0 .. m - 1
    OBVIOUS
  <2> QED
    BY <1>1, <2>1, Multiples
<1>6. ASSUME d \in 1 .. w PROVE ahead + k * d <= n - 1 /\ ahead + d >= w
  <2>1. ahead + m * d <= n - 1 /\ ahead + d >= w
    BY <1>2, <1>6 DEF Waits, Forward, WaitsForward, w, d
  <2> QED
    BY <1>3, <2>1
<1>7. ASSUME n - d \in 1 .. w
      PROVE  \/ w + k * (n - d) <= ahead
             \/ w + (k - 1) * (n - d) <= n - 1 /\ ahead < n - d
  <2>1. \/ w + m * (n - d) <= ahead
        \/ w + (m - 1) * (n - d) <= n - 1 /\ ahead < n - d
    BY <1>2, <1>7 DEF Waits, Backward, WaitsBackward, w, d
  <2> QED
    BY <1>1, <1>4, <1>5, <2>1
<1> QED
  BY <1>6, <1>7 DEF Waits, Forward, Backward, WaitsForward, WaitsBackward, w, d

\* A run that takes everybody misses nobody.
LEMMA WindowOfAll ==
  ASSUME count \in Counts, hour \in 0 .. Cycle - 1, place \in Candidates,
         place \notin Evaluated(NoPriority)
  PROVE  /\ Window(count) < count
         /\ Ahead(place, Start(hour, count), count) \in Window(count) .. count - 1
<1>1. count \in Nat \ {0} /\ place \in 0 .. count - 1 /\ hour \in Nat
  BY CycleAssumption, WindowAssumption DEF Candidates
<1>2. Window(count) \in 1 .. count /\ Start(hour, count) \in 0 .. count - 1
  BY <1>1, WindowSize, StartIsAPlace
<1>3. Ahead(place, Start(hour, count), count) \in 0 .. count - 1
  BY <1>1, <1>2, AheadBounds
<1>4. ~(Ahead(place, Start(hour, count), count) < Window(count))
  BY <1>1, WindowEvaluates
<1> QED
  BY <1>1, <1>2, <1>3, <1>4

LEMMA ScheduledRunKeeps ==
  ASSUME WindowInv, count \in Counts, ScheduledRun
  PROVE  WindowInv'
<1>1. count' = count /\ place' = place /\ hour' = (hour + WakeEvery) % Cycle
  BY DEF ScheduledRun
<1>2. count \in Nat \ {0} /\ place \in 0 .. count - 1 /\ hour \in 0 .. Cycle - 1
      /\ missed \in Nat /\ place \in Candidates
  <2>1. count # 0
    BY WindowAssumption
  <2> QED
    BY <2>1, WindowAssumption DEF WindowInv, Candidates
<1>3. hour' \in 0 .. Cycle - 1
  <2>1. Cycle \in Nat \ {0} /\ hour + WakeEvery \in Nat
    BY <1>2, CycleAssumption, WindowAssumption
  <2> QED
    BY <1>1, <2>1, Remainder
<1>4. CASE place \in Evaluated(NoPriority)
  <2>1. missed' = 0
    BY <1>4 DEF ScheduledRun
  <2> QED
    BY <1>1, <1>2, <1>3, <2>1 DEF WindowInv, Candidates
<1>5. CASE place \notin Evaluated(NoPriority)
  <2>1. missed' \in 1 .. missed + 1
    <3>1. missed' = Min({missed + 1, count})
      BY <1>5 DEF ScheduledRun
    <3> QED
      BY <1>2, <3>1, MinOfTwo
  <2>2. Window(count) < count /\ Ahead(place, Start(hour, count), count) >= Window(count)
    <3>1. /\ Window(count) < count
          /\ Ahead(place, Start(hour, count), count) \in Window(count) .. count - 1
      BY <1>2, <1>5, WindowOfAll
    <3> QED
      BY <3>1
  <2>3. missed > 0 => Waits(count, missed, Ahead(place, Start(hour, count), count))
    BY DEF WindowInv
  <2>4. Waits(count, missed + 1, Ahead(place, Start(hour', count), count))
    BY <1>1, <1>2, <2>2, <2>3, WaitsOneMore
  <2>5. Ahead(place, Start(hour', count), count) \in Nat
    <3>1. hour' \in Nat /\ Start(hour', count) \in 0 .. count - 1
      BY <1>2, <1>3, CycleAssumption, StartIsAPlace
    <3> QED
      BY <1>2, <3>1, AheadBounds
  <2>6. Waits(count, missed', Ahead(place, Start(hour', count), count))
    <3>1. missed + 1 \in Nat \ {0}
      BY <1>2
    <3> QED
      BY <1>2, <2>1, <2>4, <2>5, <3>1, WaitsFewer
  <2>7. missed' \in Nat
    BY <1>2, <2>1
  <2> QED
    BY <1>1, <1>2, <1>3, <2>2, <2>6, <2>7 DEF WindowInv, Candidates
<1> QED
  BY <1>4, <1>5

\* Neither another set of candidates nor a run out of turn lets anybody wait longer.
LEMMA OtherWindowStepsKeep ==
  ASSUME WindowInv, count \in Counts,
         CandidatesChange \/ \E priority \in Candidates \cup {NoPriority} : EventRun(priority)
  PROVE  WindowInv'
<1>1. CASE CandidatesChange
  BY <1>1 DEF WindowInv, CandidatesChange, Candidates
<1>2. CASE \E priority \in Candidates \cup {NoPriority} : EventRun(priority)
  <2>1. missed' \in {0, missed} /\ UNCHANGED <<count, hour, place>>
    BY <1>2 DEF EventRun
  <2> QED
    BY <2>1 DEF WindowInv, Candidates
<1> QED
  BY <1>1, <1>2

\* Whoever waits so has missed fewer runs than it takes to go round.
LEMMA WaitingIsBounded == WindowInv => EveryoneGetsATurn
<1> SUFFICES ASSUME WindowInv, Adjoining(count), missed > 0
             PROVE  missed < Turns(count)
  <2>1. ASSUME WindowInv, Adjoining(count), missed = 0 PROVE missed < Turns(count)
    <3>1. CASE Window(count) = count
      BY <2>1, <3>1 DEF Turns
    <3>2. CASE Window(count) # count
      <4>1. count \in Nat \ {0}
        <5>1. CASE count = 0
          <6>1. Window(0) = 0
            <7>1. MaxCandidatesPerRun \in Nat \ {0}
              BY WindowAssumption
            <7> QED
              BY <7>1, MinOfTwo DEF Window
          <6> QED
            BY <3>2, <5>1, <6>1
        <5>2. CASE count \in Counts
          BY <5>2, WindowAssumption
        <5> QED
          BY <2>1, <5>1, <5>2 DEF WindowInv
      <4>2. Stride(count) \in 1 .. Window(count) /\ Window(count) \in 1 .. count
        BY <2>1, <3>2, <4>1, WindowSize DEF Adjoining
      <4>3. count - 1 - Window(count) \in Nat
        BY <3>2, <4>1, <4>2
      <4>4. Stride(count) \in Nat \ {0}
        BY <4>1, <4>2
      <4>5. (count - 1 - Window(count)) \div Stride(count) \in Nat
        BY <4>3, <4>4
      <4> QED
        BY <2>1, <3>2, <4>5 DEF Turns
    <3> QED
      BY <3>1, <3>2
  <2>2. WindowInv => missed \in Nat
    BY DEF WindowInv
  <2> QED
    BY <2>1, <2>2 DEF EveryoneGetsATurn
<1> DEFINE n == count
           w == Window(n)
           d == Shift(n)
           b == Stride(n)
           ahead == Ahead(place, Start(hour, n), n)
<1>1. n \in Counts /\ n \in Nat \ {0} /\ place \in 0 .. n - 1 /\ missed \in Nat /\ hour \in Nat
  <2>1. missed # 0 /\ missed \in Nat /\ hour \in Nat
    BY CycleAssumption DEF WindowInv
  <2>2. n \in Counts /\ place \in 0 .. n - 1
    BY <2>1 DEF WindowInv, Candidates
  <2> QED
    BY <2>1, <2>2, WindowAssumption
<1>2. w \in 1 .. n /\ w < n /\ d \in 0 .. n - 1 /\ Waits(n, missed, ahead)
  BY <1>1, WindowSize, ShiftBounds DEF WindowInv
<1>3. ahead \in 0 .. n - 1
  BY <1>1, StartIsAPlace, AheadBounds
<1>4. b \in 1 .. w /\ b = IF d <= n - d THEN d ELSE n - d
  BY <1>1, <1>2, MinOfTwo DEF Adjoining, Stride
<1>5. Turns(n) = (n - 1 - w) \div b + 2
  BY <1>2 DEF Turns
<1>6. \/ Forward(n) /\ b = d
      \/ Backward(n) /\ b = n - d
  BY <1>4 DEF Forward, Backward
<1> HIDE DEF n, w, d, b, ahead
<1>7. (missed - 1) * b <= n - 1 - w
  <2>1. missed * b \in Nat /\ (missed - 1) * b \in Nat /\ missed * b = (missed - 1) * b + b
    <3>1. missed - 1 \in Nat /\ b \in Nat
      BY <1>1, <1>2, <1>4
    <3>2. (missed - 1) + 1 = missed
      BY <1>1
    <3> QED
      BY <1>1, <3>1, <3>2, Multiples
  <2>2. CASE Forward(n) /\ b = d
    <3>1. ahead + missed * b <= n - 1 /\ ahead + b >= w
      BY <1>2, <2>2 DEF Waits, WaitsForward, w, d
    <3> QED
      BY <1>1, <1>2, <1>3, <1>4, <2>1, <3>1
  <2>3. CASE Backward(n) /\ b = n - d
    <3>1. \/ w + missed * b <= ahead
          \/ w + (missed - 1) * b <= n - 1
      BY <1>2, <2>3 DEF Waits, WaitsBackward, w, d
    <3> QED
      BY <1>1, <1>2, <1>3, <1>4, <2>1, <3>1
  <2> QED
    BY <1>6, <2>2, <2>3
<1>8. missed - 1 <= (n - 1 - w) \div b
  <2> DEFINE x == n - 1 - w
             q == x \div b
  <2>1. x \in Nat /\ b \in Nat \ {0} /\ missed - 1 \in Nat
    BY <1>1, <1>2, <1>4
  <2> HIDE DEF x
  <2>2. q \in Nat /\ x = b * q + (x % b) /\ x % b \in 0 .. b - 1
    BY <2>1
  <2> HIDE DEF q
  <2>3. x < (q + 1) * b
    BY <2>1, <2>2
  <2>4. (missed - 1) * b < (q + 1) * b
    <3>1. (missed - 1) * b \in Nat /\ (q + 1) * b \in Nat
      BY <2>1, <2>2
    <3> QED
      BY <1>7, <2>1, <2>3, <3>1 DEF x
  <2>5. missed - 1 < q + 1
    BY <2>1, <2>2, <2>4
  <2> QED
    BY <2>1, <2>2, <2>5 DEF x, q
<1>9. (n - 1 - w) \div b \in Nat
  <2>1. n - 1 - w \in Nat /\ b \in Nat \ {0}
    BY <1>1, <1>2, <1>4
  <2> QED
    BY <2>1
<1> QED
  BY <1>1, <1>5, <1>8, <1>9 DEF n

-----------------------------------------------------------------------------
(***************************************************************************)
(* The runs: one of the two sides moves, the other stays where it is.      *)
(***************************************************************************)

LEMMA WindowInvariance == RunsSpec => []WindowInv
<1>1. RunsInit => WindowInv
  <2>1. NoWindow => WindowInv
    BY CycleAssumption DEF NoWindow, WindowInv
  <2> QED
    BY <2>1, InitWindowInv DEF RunsInit
<1>2. WindowInv /\ [RunsNext]_<<vars, windowVars>> => WindowInv'
  <2> SUFFICES ASSUME WindowInv, [RunsNext]_<<vars, windowVars>> PROVE WindowInv'
    OBVIOUS
  <2>1. CASE UNCHANGED windowVars
    BY <2>1 DEF WindowInv, Candidates, windowVars
  <2>2. CASE count > 0 /\ WindowNext
    <3>1. count \in Counts
      BY <2>2 DEF WindowInv
    <3> QED
      BY <2>2, <3>1, ScheduledRunKeeps, OtherWindowStepsKeep DEF WindowNext
  <2> QED
    BY <2>1, <2>2 DEF RunsNext
<1> QED
  BY <1>1, <1>2, PTL DEF RunsSpec

\* Whatever the schedule, the window and the number of candidates: where the windows
\* of successive scheduled runs adjoin, each candidate that stays gets its turn within
\* the runs it takes to go round, whatever events wake the worker in between.
THEOREM EveryCandidateGetsATurn == RunsSpec => []EveryoneGetsATurn
<1>1. WindowInv => EveryoneGetsATurn
  BY WaitingIsBounded
<1> QED
  BY <1>1, WindowInvariance, PTL

\* As long as one run can take all the candidates, none of them ever misses one,
\* however far apart the runs are.
THEOREM FewCandidatesNeverMissARun ==
  RunsSpec => [](count <= MaxCandidatesPerRun => missed = 0)
<1>1. WindowInv => (count <= MaxCandidatesPerRun => missed = 0)
  <2> SUFFICES ASSUME WindowInv, count <= MaxCandidatesPerRun, missed > 0 PROVE FALSE
    BY DEF WindowInv
  <2>1. missed # 0 /\ Window(count) < count
    BY DEF WindowInv
  <2>2. count \in Nat \ {0}
    BY <2>1, WindowAssumption DEF WindowInv
  <2> QED
    BY <2>1, <2>2, WindowSize
<1> QED
  BY <1>1, WindowInvariance, PTL

-----------------------------------------------------------------------------
\* Nothing is unfunded of a side that stays where it is.
LEMMA NoBudgetFInv == NoBudget => FInv
  BY BudgetAssumption DEF NoBudget, FInv, Funded, Distributable, Handoffs, IInv, TypeOK,
     ReserveKept, Kinds

\* What holds of the budget alone holds of the worker's runs.
THEOREM RunsKeepTheBudget ==
  RunsSpec => [](TypeOK /\ ReserveKept /\ MergedReportIsHandedOff /\ EveryCandidateIsEvaluated)
<1>1. RunsInit => FInv
  BY InitFInv, NoBudgetFInv DEF RunsInit
<1>2. FInv /\ [RunsNext]_<<vars, windowVars>> => FInv'
  <2> SUFFICES ASSUME FInv, [RunsNext]_<<vars, windowVars>> PROVE FInv'
    OBVIOUS
  <2>1. [Next]_vars
    BY DEF RunsNext
  <2> QED
    BY <2>1, FundedStep
<1>3. FInv => TypeOK /\ ReserveKept /\ MergedReportIsHandedOff /\ EveryCandidateIsEvaluated
  BY DEF FInv, IInv, MergedReportIsHandedOff, EveryCandidateIsEvaluated
<1> QED
  BY <1>1, <1>2, <1>3, PTL DEF RunsSpec

=============================================================================

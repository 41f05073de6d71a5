--------------------------- MODULE ProbeRaceProofs ---------------------------
(***************************************************************************)
(* Proofs about ProbeRace for every number of candidates, every semaphore  *)
(* size and every goal.                                                    *)
(***************************************************************************)
EXTENDS ProbeRace, FiniteSetTheorems, TLAPS

\* The coroutines whose probe may still add to the counter.
InFlight == {i \in Probes : pc[i] = "probing"}

\* withPermit admits at most Parallel coroutines.
Permits == Cardinality(Holders) <= Parallel

\* What was counted and what may still be counted fit the bound together: the
\* counter is below the goal whenever a probe is added to InFlight.
Budget == successes + Cardinality(InFlight) <= StopAfter + Parallel - 1

\* Why a report is final and true: only a finished coroutine was reported, and
\* a coroutine that reports its result has one.
Reported == \A i \in Probes :
  /\ report[i] # "none" => pc[i] = "done"
  /\ report[i] = "fail" => result[i] = "fail"
  /\ pc[i] = "returned" => result[i] # "none"

\* Why silence has a reason: jobs are cancelled only by a coroutine that
\* reached the goal or by the end of the scope.
Reasons ==
  /\ (cancelled # {} \/ reached # {}) => successes >= StopAfter \/ scope # "active"
  /\ reached # {} => successes >= StopAfter
  /\ SilentOnlyIfStopped

IInv == TypeOK /\ Permits /\ Budget /\ Reported /\ Reasons
-----------------------------------------------------------------------------
\* Subsets of the candidates are finite and their cardinalities are numbers.
LEMMA FiniteProbes ==
  ASSUME NEW S \in SUBSET Probes
  PROVE  IsFiniteSet(S) /\ Cardinality(S) \in Nat
<1>1. IsFiniteSet(Probes)
  BY FS_Interval, RaceAssumption DEF Probes
<1> QED
  BY <1>1, FS_Subset, FS_CardinalityType

\* A smaller set of candidates has no larger cardinality.
LEMMA SmallerSet ==
  ASSUME NEW S \in SUBSET Probes, NEW T \in SUBSET S
  PROVE  Cardinality(T) <= Cardinality(S)
BY FiniteProbes, FS_Subset

\* The race starts in the invariant.
LEMMA InitIInv == Init => IInv
<1> SUFFICES ASSUME Init PROVE IInv
  OBVIOUS
<1>1. TypeOK
  BY DEF Init, TypeOK
<1>2. Holders = {} /\ InFlight = {}
  BY DEF Init, Holders, InFlight
<1>3. Permits /\ Budget
  BY <1>2, FS_EmptySet, RaceAssumption DEF Init, Permits, Budget
<1>4. Reported /\ Reasons
  BY DEF Init, Reported, Reasons, SilentOnlyIfStopped
<1> QED
  BY <1>1, <1>3, <1>4 DEF IInv

\* Types are kept by every step.
LEMMA TypeStep == TypeOK /\ [Next]_vars => TypeOK'
<1> SUFFICES ASSUME TypeOK, [Next]_vars PROVE TypeOK'
  OBVIOUS
<1> USE DEF TypeOK, Goto
<1>1. ASSUME NEW i \in Probes, Start(i) PROVE TypeOK'
  BY <1>1 DEF Start
<1>2. ASSUME NEW i \in Probes, Drop(i) PROVE TypeOK'
  BY <1>2 DEF Drop
<1>3. ASSUME NEW i \in Probes, Begin(i) PROVE TypeOK'
  BY <1>3 DEF Begin
<1>4. ASSUME NEW i \in Probes, CancelledWaiting(i) PROVE TypeOK'
  BY <1>4 DEF CancelledWaiting, CaughtReport
<1>5. ASSUME NEW i \in Probes, Acquire(i) PROVE TypeOK'
  BY <1>5 DEF Acquire
<1>6. ASSUME NEW i \in Probes, Skip(i) PROVE TypeOK'
  BY <1>6 DEF Skip
<1>7. ASSUME NEW i \in Probes, Probe(i) PROVE TypeOK'
  BY <1>7 DEF Probe
<1>8. ASSUME NEW i \in Probes, Returned(i) PROVE TypeOK'
  BY <1>8 DEF Returned
<1>9. ASSUME NEW i \in Probes, ProbeCancelled(i) PROVE TypeOK'
  BY <1>9 DEF ProbeCancelled, CaughtReport
<1>10. ASSUME NEW i \in Probes, ProbeThrows(i) PROVE TypeOK'
  BY <1>10 DEF ProbeThrows
<1>11. ASSUME NEW i \in Probes, Report(i) PROVE TypeOK'
  BY <1>11 DEF Report
<1>12. CASE ParentCancelled
  BY <1>12 DEF ParentCancelled
<1>13. CASE UNCHANGED vars
  BY <1>13 DEF vars
<1> QED
  BY <1>1, <1>2, <1>3, <1>4, <1>5, <1>6, <1>7, <1>8, <1>9, <1>10, <1>11,
     <1>12, <1>13 DEF Next, Step, Joined

\* The semaphore: only Acquire adds a holder, and only when one is missing.
LEMMA PermitsStep == TypeOK /\ Permits /\ [Next]_vars => Permits'
<1> SUFFICES ASSUME TypeOK, Permits, [Next]_vars PROVE Permits'
  OBVIOUS
<1>0. Holders \in SUBSET Probes /\ Holders' \in SUBSET Probes
  BY DEF Holders
<1>1. ASSUME NEW i \in Probes, Acquire(i) PROVE Permits'
  <2>1. Holders' = Holders \union {i} /\ i \notin Holders
    BY <1>1 DEF Acquire, Goto, Holders, TypeOK
  <2>2. Cardinality(Holders') = Cardinality(Holders) + 1
    BY <1>0, <2>1, FiniteProbes, FS_AddElement
  <2>3. Cardinality(Holders) \in Nat /\ Cardinality(Holders) < Parallel
    BY <1>0, <1>1, FiniteProbes DEF Acquire
  <2> QED
    BY <2>2, <2>3, RaceAssumption DEF Permits
<1>2. ASSUME Holders' \subseteq Holders PROVE Permits'
  <2>1. Cardinality(Holders') <= Cardinality(Holders)
    BY <1>0, <1>2, SmallerSet
  <2>2. Cardinality(Holders) \in Nat /\ Cardinality(Holders') \in Nat
    BY <1>0, FiniteProbes
  <2> QED
    BY <2>1, <2>2, RaceAssumption DEF Permits
<1>3. ASSUME NEW i \in Probes, Step(i), ~Acquire(i) PROVE Holders' \subseteq Holders
  BY <1>3 DEF Step, Start, Drop, Begin, CancelledWaiting, Skip, Probe, Returned,
     ProbeCancelled, ProbeThrows, Report, Goto, Holders, TypeOK
<1>4. ASSUME ParentCancelled \/ UNCHANGED vars PROVE Holders' \subseteq Holders
  BY <1>4 DEF ParentCancelled, vars, Holders
<1> QED
  BY <1>1, <1>2, <1>3, <1>4 DEF Next, Joined

\* The budget: a probe starts only below the goal, and then it is one of at
\* most Parallel; an answer moves one unit from InFlight to the counter.
LEMMA BudgetStep ==
  TypeOK /\ Permits /\ Permits' /\ Budget /\ [Next]_vars => Budget'
<1> SUFFICES ASSUME TypeOK, Permits, Permits', Budget, [Next]_vars
             PROVE  Budget'
  OBVIOUS
<1>0. /\ InFlight \in SUBSET Probes /\ InFlight' \in SUBSET Probes
      /\ Cardinality(InFlight) \in Nat /\ Cardinality(InFlight') \in Nat
  BY FiniteProbes DEF InFlight
<1>1. ASSUME NEW i \in Probes, Probe(i) PROVE Budget'
  <2>1. Holders' \in SUBSET Probes /\ InFlight' \in SUBSET Holders'
    BY DEF Holders, InFlight
  <2>2. Cardinality(InFlight') <= Cardinality(Holders') /\ Cardinality(Holders') \in Nat
    BY <2>1, SmallerSet, FiniteProbes
  <2>3. Cardinality(InFlight') <= Parallel
    BY <1>0, <2>2, RaceAssumption DEF Permits
  <2>4. successes' = successes /\ successes < StopAfter /\ successes \in Nat
    BY <1>1 DEF Probe, TypeOK
  <2> QED
    BY <1>0, <2>3, <2>4, RaceAssumption DEF Budget
<1>2. ASSUME NEW i \in Probes, Returned(i) PROVE Budget'
  <2>1. InFlight' = InFlight \ {i} /\ i \in InFlight
    BY <1>2 DEF Returned, Goto, InFlight, TypeOK
  <2>2. Cardinality(InFlight') = Cardinality(InFlight) - 1
    BY <1>0, <2>1, FiniteProbes, FS_RemoveElement
  <2>3. successes' <= successes + 1 /\ successes \in Nat /\ successes' \in Nat
    BY <1>2 DEF Returned, TypeOK
  <2> QED
    BY <1>0, <2>2, <2>3, RaceAssumption DEF Budget
<1>3. ASSUME InFlight' \subseteq InFlight, successes' = successes PROVE Budget'
  <2>1. Cardinality(InFlight') <= Cardinality(InFlight) /\ successes \in Nat
    BY <1>0, <1>3, SmallerSet DEF TypeOK
  <2> QED
    BY <1>0, <1>3, <2>1, RaceAssumption DEF Budget
<1>4. ASSUME NEW i \in Probes, Step(i), ~Probe(i), ~Returned(i)
      PROVE  InFlight' \subseteq InFlight /\ successes' = successes
  BY <1>4 DEF Step, Start, Drop, Begin, CancelledWaiting, Acquire, Skip,
     ProbeCancelled, ProbeThrows, Report, Goto, InFlight, TypeOK
<1>5. ASSUME ParentCancelled \/ UNCHANGED vars
      PROVE  InFlight' \subseteq InFlight /\ successes' = successes
  BY <1>5 DEF ParentCancelled, vars, InFlight
<1> QED
  BY <1>1, <1>2, <1>3, <1>4, <1>5 DEF Next, Joined

\* Reports come from the step that ends the coroutine, results before that.
LEMMA ReportedStep == TypeOK /\ Reported /\ [Next]_vars => Reported'
<1> SUFFICES ASSUME TypeOK, Reported, [Next]_vars PROVE Reported'
  OBVIOUS
<1> USE DEF TypeOK, Reported, Goto
<1>1. ASSUME NEW i \in Probes, Start(i) \/ Drop(i) \/ Begin(i) PROVE Reported'
  BY <1>1 DEF Start, Drop, Begin
<1>2. ASSUME NEW i \in Probes, CancelledWaiting(i) \/ ProbeCancelled(i)
      PROVE  Reported'
  BY <1>2 DEF CancelledWaiting, ProbeCancelled, CaughtReport
<1>3. ASSUME NEW i \in Probes, Acquire(i) \/ Skip(i) \/ Probe(i) PROVE Reported'
  BY <1>3 DEF Acquire, Skip, Probe
<1>4. ASSUME NEW i \in Probes, Returned(i) PROVE Reported'
  BY <1>4 DEF Returned
<1>5. ASSUME NEW i \in Probes, ProbeThrows(i) PROVE Reported'
  BY <1>5 DEF ProbeThrows
<1>6. ASSUME NEW i \in Probes, Report(i) PROVE Reported'
  BY <1>6 DEF Report
<1>7. CASE ParentCancelled \/ UNCHANGED vars
  BY <1>7 DEF ParentCancelled, vars
<1> QED
  BY <1>1, <1>2, <1>3, <1>4, <1>5, <1>6, <1>7 DEF Next, Step, Joined

\* A coroutine ends without a report only once its job was cancelled, or the
\* scope is over; both have their reason, and a reason stays.
LEMMA ReasonsStep ==
  TypeOK /\ Reported /\ Reasons /\ [Next]_vars => Reasons'
<1> SUFFICES ASSUME TypeOK, Reported, Reasons, [Next]_vars PROVE Reasons'
  OBVIOUS
<1> USE RaceAssumption DEF TypeOK, Reasons, SilentOnlyIfStopped, Goto
<1>1. ASSUME NEW i \in Probes, Start(i) \/ Drop(i) \/ Begin(i) PROVE Reasons'
  BY <1>1 DEF Start, Drop, Begin
<1>2. ASSUME NEW i \in Probes, CancelledWaiting(i) \/ ProbeCancelled(i)
      PROVE  Reasons'
  BY <1>2 DEF CancelledWaiting, ProbeCancelled, CaughtReport
<1>3. ASSUME NEW i \in Probes, Acquire(i) \/ Skip(i) \/ Probe(i) PROVE Reasons'
  BY <1>3 DEF Acquire, Skip, Probe
<1>4. ASSUME NEW i \in Probes, Returned(i) PROVE Reasons'
  BY <1>4 DEF Returned
<1>5. ASSUME NEW i \in Probes, ProbeThrows(i) PROVE Reasons'
  BY <1>5 DEF ProbeThrows
<1>6. ASSUME NEW i \in Probes, Report(i) PROVE Reasons'
  BY <1>6 DEF Report, Reported
<1>7. CASE ParentCancelled \/ UNCHANGED vars
  BY <1>7 DEF ParentCancelled, vars
<1> QED
  BY <1>1, <1>2, <1>3, <1>4, <1>5, <1>6, <1>7 DEF Next, Step, Joined

\* The invariant is inductive, hence holds of the specification.
LEMMA Inductive == Spec => []IInv
<1>1. Init => IInv
  BY InitIInv
<1>2. IInv /\ [Next]_vars => IInv'
  BY TypeStep, PermitsStep, BudgetStep, ReportedStep, ReasonsStep DEF IInv
<1> QED
  BY <1>1, <1>2, PTL DEF Spec

\* The counter, the jobs and the reports have their types in every race.
THEOREM TypeCorrect == Spec => []TypeOK
BY Inductive, PTL DEF IInv

\* Early stop: whatever the order of answers and cancellations, the race counts
\* at most Parallel - 1 successes more than it was asked for.
THEOREM Overshoot == Spec => []OvershootBounded
<1>1. IInv => OvershootBounded
  <2> SUFFICES ASSUME IInv PROVE OvershootBounded
    OBVIOUS
  <2>1. Cardinality(InFlight) \in Nat
    BY FiniteProbes DEF InFlight
  <2> QED
    BY <2>1, RaceAssumption DEF IInv, Budget, TypeOK, OvershootBounded
<1> QED
  BY <1>1, Inductive, PTL

\* Cancelled or skipped candidates are never reported as failed ones.
THEOREM TrueNegatives == Spec => []NoFalseNegative
<1>1. IInv => NoFalseNegative
  BY DEF IInv, Reported, NoFalseNegative
<1> QED
  BY <1>1, Inductive, PTL

\* A candidate is passed over in silence only when the race was over.
THEOREM SilenceHasReason == Spec => []SilentOnlyIfStopped
BY Inductive, PTL DEF IInv, Reasons

\* onEach tells one verdict per candidate, and never takes it back.
THEOREM OneReport == Spec => ReportedOnce
<1>1. IInv /\ [Next]_vars
      => [\A i \in Probes : report[i] # "none" => report'[i] = report[i]]_vars
  <2> SUFFICES ASSUME IInv, [Next]_vars, NEW i \in Probes, report[i] # "none"
               PROVE  report'[i] = report[i]
    OBVIOUS
  <2>1. pc[i] = "done" /\ TypeOK
    BY DEF IInv, Reported
  <2>2. ASSUME NEW j \in Probes, Step(j) PROVE report'[i] = report[i]
    BY <2>1, <2>2 DEF TypeOK, Step, Start, Drop, Begin, CancelledWaiting,
       Acquire, Skip, Probe, Returned, ProbeCancelled, ProbeThrows, Report,
       CaughtReport
  <2>3. ASSUME ParentCancelled \/ UNCHANGED vars PROVE report'[i] = report[i]
    BY <2>3 DEF ParentCancelled, vars
  <2> QED
    BY <2>2, <2>3 DEF Next, Joined
<1> QED
  BY <1>1, Inductive, PTL DEF Spec, ReportedOnce
=============================================================================

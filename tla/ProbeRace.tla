------------------------------ MODULE ProbeRace ------------------------------
(***************************************************************************)
(* core/ProbeRace.kt: a bounded race of route probes.  One lazy coroutine  *)
(* per candidate, at most Parallel of them past the semaphore, siblings    *)
(* cancelled once StopAfter probes succeeded.  Coroutines run on the       *)
(* threads of Bg.io, so their steps interleave; a step below is what a     *)
(* coroutine does between two places where another one can be noticed (a   *)
(* suspension point, the atomic counter, the cancellation of a job).       *)
(***************************************************************************)
EXTENDS Integers, FiniteSets

CONSTANTS N,          \* number of candidates: indices 1..N
          Parallel,   \* parallel.coerceAtLeast(1)
          StopAfter   \* stopAfter.coerceAtLeast(1)

ASSUME RaceAssumption == /\ N \in Nat
                         /\ Parallel \in Nat \ {0}
                         /\ StopAfter \in Nat \ {0}

Probes == 1..N

VARIABLES
  pc,         \* where each coroutine is
  cancelled,  \* the jobs cancel() was called on
  successes,  \* the AtomicInteger
  result,     \* what probe(i) returned
  report,     \* what onEach(i, _) was told, "none" if it was not called
  reached,    \* coroutines whose success was the StopAfter-th or a later one
  scope       \* the coroutineScope: active, cancelled by its caller, failed

vars == <<pc, cancelled, successes, result, report, reached, scope>>

\* The coroutines that are inside sem.withPermit { ... }.
Holders == {i \in Probes : pc[i] \in {"holding", "probing", "returned"}}

Init ==
  /\ pc = [i \in Probes |-> "lazy"]
  /\ cancelled = {}
  /\ successes = 0
  /\ result = [i \in Probes |-> "none"]
  /\ report = [i \in Probes |-> "none"]
  /\ reached = {}
  /\ scope = "active"

Goto(i, l) == pc' = [pc EXCEPT ![i] = l]

\* Mutant of Start: only the first Parallel jobs are started.
StartFew(i) ==
  /\ i <= Parallel
  /\ pc[i] = "lazy" /\ i \notin cancelled
  /\ Goto(i, "ready")
  /\ UNCHANGED <<cancelled, successes, result, report, reached, scope>>

\* jobs.forEach { it.start() }: in order, while earlier ones already run.
Start(i) ==
  /\ pc[i] = "lazy" /\ i \notin cancelled
  /\ \A j \in 1..(i-1) : pc[j] # "lazy" \/ j \in cancelled
  /\ Goto(i, "ready")
  /\ UNCHANGED <<cancelled, successes, result, report, reached, scope>>

\* A job cancelled before its body was entered completes without running it.
Drop(i) ==
  /\ pc[i] \in {"lazy", "ready"} /\ i \in cancelled
  /\ Goto(i, "done")
  /\ UNCHANGED <<cancelled, successes, result, report, reached, scope>>

\* The body starts: stagger delay and sem.acquire(), both suspend.
Begin(i) ==
  /\ pc[i] = "ready" /\ i \notin cancelled
  /\ Goto(i, "waiting")
  /\ UNCHANGED <<cancelled, successes, result, report, reached, scope>>

\* Mutants of CaughtReport: a cancelled probe is booked as a failed one, or
\* under a verdict the callers do not know.
CaughtReportAsFailure(i) ==
  IF scope = "active" THEN [report EXCEPT ![i] = "fail"] ELSE report

CaughtReportUnknown(i) ==
  IF scope = "active" THEN [report EXCEPT ![i] = "cancelled"] ELSE report

\* catch (e: CancellationException): rethrown if the parent is gone, else the
\* candidate is reported as skipped.
CaughtReport(i) ==
  IF scope = "active" THEN [report EXCEPT ![i] = "skipped"] ELSE report

CancelledWaiting(i) ==
  /\ pc[i] = "waiting" /\ i \in cancelled
  /\ report' = CaughtReport(i)
  /\ Goto(i, "done")
  /\ UNCHANGED <<cancelled, successes, result, reached, scope>>

\* A free permit is taken without looking at the cancellation of the job.
Acquire(i) ==
  /\ pc[i] = "waiting"
  /\ Cardinality(Holders) < Parallel
  /\ Goto(i, "holding")
  /\ UNCHANGED <<cancelled, successes, result, report, reached, scope>>

\* Mutant of Skip: the else is lost, a skipped candidate is probed as well.
SkipThenProbe(i) ==
  /\ pc[i] = "holding"
  /\ report' = [report EXCEPT ![i] = "skipped"]
  /\ Goto(i, "probing")
  /\ UNCHANGED <<cancelled, successes, result, reached, scope>>

\* Enough successes, or the caller's skip(i), which may answer either way at
\* any time: no probe.
Skip(i) ==
  /\ pc[i] = "holding"
  /\ report' = [report EXCEPT ![i] = "skipped"]
  /\ Goto(i, "done")
  /\ UNCHANGED <<cancelled, successes, result, reached, scope>>

\* Mutant of Probe: the counter is not read again under the permit.
ProbeUnchecked(i) ==
  /\ pc[i] = "holding"
  /\ Goto(i, "probing")
  /\ UNCHANGED <<cancelled, successes, result, report, reached, scope>>

Probe(i) ==
  /\ pc[i] = "holding"
  /\ successes < StopAfter
  /\ Goto(i, "probing")
  /\ UNCHANGED <<cancelled, successes, result, report, reached, scope>>

\* Mutant of Returned: the goal counts as reached one success early.
ReturnedEarly(i) ==
  /\ pc[i] = "probing"
  /\ \E r \in {"works", "fail"} :
       /\ result' = [result EXCEPT ![i] = r]
       /\ successes' = IF r = "works" THEN successes + 1 ELSE successes
       /\ reached' = IF r = "works" /\ successes + 2 >= StopAfter
                       THEN reached \union {i} ELSE reached
  /\ Goto(i, "returned")
  /\ UNCHANGED <<cancelled, report, scope>>

\* probe(i) returns.  It may have its answer before it notices that it was
\* cancelled, or throw the cancellation (ProbeCancelled).
Returned(i) ==
  /\ pc[i] = "probing"
  /\ \E r \in {"works", "fail"} :
       /\ result' = [result EXCEPT ![i] = r]
       /\ successes' = IF r = "works" THEN successes + 1 ELSE successes
       /\ reached' = IF r = "works" /\ successes + 1 >= StopAfter
                       THEN reached \union {i} ELSE reached
  /\ Goto(i, "returned")
  /\ UNCHANGED <<cancelled, report, scope>>

ProbeCancelled(i) ==
  /\ pc[i] = "probing" /\ i \in cancelled
  /\ report' = CaughtReport(i)
  /\ Goto(i, "done")
  /\ UNCHANGED <<cancelled, successes, result, reached, scope>>

\* Any other exception of the probe fails the scope, which cancels every child.
ProbeThrows(i) ==
  /\ pc[i] = "probing"
  /\ scope' = IF scope = "active" THEN "failed" ELSE scope
  /\ cancelled' = Probes
  /\ Goto(i, "done")
  /\ UNCHANGED <<successes, result, report, reached>>

\* onEach(i, result), then the siblings are cancelled if this one reached the
\* goal; the permit is released.
Report(i) ==
  /\ pc[i] = "returned"
  /\ report' = [report EXCEPT ![i] = result[i]]
  /\ cancelled' = IF i \in reached THEN cancelled \union (Probes \ {i})
                  ELSE cancelled
  /\ Goto(i, "done")
  /\ UNCHANGED <<successes, result, reached, scope>>

\* The coroutine that called run() is cancelled: every child is.
ParentCancelled ==
  /\ scope = "active"
  /\ \E i \in Probes : pc[i] # "done"
  /\ scope' = "cancelled"
  /\ cancelled' = Probes
  /\ UNCHANGED <<pc, successes, result, report, reached>>

Step(i) ==
  \/ Start(i) \/ Drop(i) \/ Begin(i) \/ CancelledWaiting(i) \/ Acquire(i)
  \/ Skip(i) \/ Probe(i) \/ Returned(i) \/ ProbeCancelled(i) \/ ProbeThrows(i)
  \/ Report(i)

\* jobs.joinAll() returned: nothing happens any more.
Joined == (\A i \in Probes : pc[i] = "done") /\ UNCHANGED vars

Next == (\E i \in Probes : Step(i)) \/ ParentCancelled \/ Joined

\* Probes have a time budget and Bg.io has threads for all of them: every
\* coroutine that can go on does.  Nobody has to cancel the caller.
Fairness == \A i \in Probes : WF_vars(Step(i))

Spec == Init /\ [][Next]_vars /\ Fairness
-----------------------------------------------------------------------------
\* Types.
TypeOK ==
  /\ pc \in [Probes -> {"lazy", "ready", "waiting", "holding", "probing",
                        "returned", "done"}]
  /\ cancelled \in SUBSET Probes
  /\ successes \in Nat
  /\ result \in [Probes -> {"none", "works", "fail"}]
  /\ report \in [Probes -> {"none", "works", "fail", "skipped"}]
  /\ reached \in SUBSET Probes
  /\ scope \in {"active", "cancelled", "failed"}

\* The counter may pass the goal (two probes answer at once), but only by the
\* probes that were already past the semaphore: the early stop wastes at most
\* Parallel - 1 probes whatever the order of answers and cancellations.
OvershootBounded == successes <= StopAfter + Parallel - 1

\* "Cancelled probes are not negative training examples": a route is reported
\* as failed only if its own probe came back with a failure.
NoFalseNegative == \A i \in Probes : report[i] = "fail" => result[i] = "fail"

\* A candidate whose coroutine ended without a report was given up on purpose:
\* the goal was reached, the caller was cancelled, or a probe failed the scope.
SilentOnlyIfStopped ==
  \A i \in Probes : pc[i] = "done" /\ report[i] = "none"
     => successes >= StopAfter \/ scope # "active"

\* onEach is called at most once per candidate and its verdict is final.
ReportedOnce ==
  [][\A i \in Probes : report[i] # "none" => report'[i] = report[i]]_vars

\* run() returns: no candidate is left waiting for a permit or a sibling.
RaceEnds == <>(\A i \in Probes : pc[i] = "done")
=============================================================================

----------------------------- MODULE PerThread -----------------------------
(***************************************************************************)
(* measure_per_thread (src/src/bench.rs): one thread reads a clock in a    *)
(* tight loop and counts reads that came out below an earlier one, while   *)
(* the scheduler moves it between CPUs and the background thread           *)
(* recalibrates. One step is one iteration: apart from the clock it        *)
(* touches locals only. reads, late and steady are history variables.      *)
(***************************************************************************)
EXTENDS ClockSource, Sequences, FiniteSets

CONSTANTS
  BudgetPeriod,  \* iterations between two looks at the time: 0x10000
  BudgetMod,     \* the counter of iterations is a u32: 2^32
  Budget,        \* the duration asked for, in ticks
  MaxReads       \* bound: reads in a behaviour

ASSUME BudgetAssumption ==
  /\ BudgetPeriod \in Nat \ {0}
  /\ BudgetMod \in Nat \ {0}
  /\ BudgetMod % BudgetPeriod = 0
  /\ Budget \in Nat
  /\ MaxReads \in Nat

VARIABLES
  pc,
  start,             \* StdInstant::now() before the loop
  previous,
  violations,
  max_violation_ns,
  total_reads,
  budget_check,
  reads,             \* the values read
  late,              \* iterations since the duration was over
  steady             \* no recalibration since the loop began

locals == <<start, previous, violations, max_violation_ns, total_reads, budget_check>>
vars == <<source, pc, locals, reads, late, steady>>

Init ==
  /\ init_anchor
  /\ pc = "warmup"
  /\ start = 0 /\ previous = 0
  /\ violations = 0 /\ max_violation_ns = 0 /\ total_reads = 0
  /\ budget_check = 0
  /\ reads = << >> /\ late = 0 /\ steady = TRUE

Advance ==
  /\ pc # "done"
  /\ time < MaxTime
  /\ time' = time + 1
  /\ UNCHANGED <<anchor, q, pc, locals, reads, late, steady>>

\* Instant::recalibrate in the background thread.
Recalibrate ==
  /\ pc # "done"
  /\ q' \in Scales
  /\ steady' = (pc = "warmup")
  /\ UNCHANGED <<time, anchor, pc, locals, reads, late>>

\* The thousand warm-up reads leave nothing behind; then the first read.
Start(c) ==
  /\ pc = "warmup"
  /\ pc' = "loop"
  /\ start' = time
  /\ previous' = now_as_u64(c)
  /\ total_reads' = 1
  /\ reads' = <<previous'>>
  /\ UNCHANGED <<source, violations, max_violation_ns, budget_check, late, steady>>

expired == time - start >= Budget

\* The size of the last violation is kept, not that of the largest.
mutant_keep_last(current) ==
  \/ /\ current < previous
     /\ violations' = violations + 1
     /\ max_violation_ns' = previous - current
     /\ UNCHANGED previous
  \/ /\ current >= previous
     /\ previous' = current
     /\ UNCHANGED <<violations, max_violation_ns>>

\* A read one nanosecond below is let through.
mutant_lenient(current) ==
  \/ /\ current + 1 < previous
     /\ violations' = violations + 1
     /\ max_violation_ns' = (IF previous - current > max_violation_ns
                             THEN previous - current ELSE max_violation_ns)
     /\ UNCHANGED previous
  \/ /\ current + 1 >= previous
     /\ previous' = current
     /\ UNCHANGED <<violations, max_violation_ns>>

\* The comparison with the largest value so far.
Compare(current) ==
  \/ /\ current < previous
     /\ violations' = violations + 1
     /\ max_violation_ns' = (IF previous - current > max_violation_ns
                             THEN previous - current ELSE max_violation_ns)
     /\ UNCHANGED previous
  \/ /\ current >= previous
     /\ previous' = current
     /\ UNCHANGED <<violations, max_violation_ns>>

\* The whole counter compared with 0 instead of its low bits.
mutant_over_budget(check) == check = 0 /\ expired

\* budget_check & 0xFFFF == 0 && start.elapsed() >= duration
over_budget(check) == check % BudgetPeriod = 0 /\ expired

\* A plain increment.
mutant_wrapping_add(check) == check + 1

\* budget_check.wrapping_add(1)
wrapping_add(check) == (check + 1) % BudgetMod

Iterate(c) ==
  /\ pc = "loop"
  /\ total_reads < MaxReads
  /\ Compare(now_as_u64(c))
  /\ total_reads' = total_reads + 1
  /\ budget_check' = wrapping_add(budget_check)
  /\ pc' = (IF over_budget(budget_check') THEN "done" ELSE "loop")
  /\ reads' = Append(reads, now_as_u64(c))
  /\ late' = (IF expired THEN late + 1 ELSE 0)
  /\ UNCHANGED <<source, start, steady>>

Next == Advance \/ Recalibrate \/ \E c \in CPUs : Start(c) \/ Iterate(c)

Spec == Init /\ [][Next]_vars

----------------------------------------------------------------------------
(* Properties *)

\* The type invariant.
TypeOK ==
  /\ SourceTypeOK
  /\ pc \in {"warmup", "loop", "done"}
  /\ start \in 0 .. time
  /\ previous \in Nat
  /\ violations \in Nat
  /\ max_violation_ns \in Nat
  /\ total_reads \in Nat
  /\ budget_check \in 0 .. (BudgetMod - 1)
  /\ reads \in Seq(Nat)
  /\ late \in Nat
  /\ steady \in BOOLEAN

\* The elements of a sequence that come after a larger one, and its largest
\* drop.
Inversions(s) == {i \in 1 .. Len(s) : \E j \in 1 .. (i - 1) : s[j] > s[i]}

IsLargestDrop(s, m) ==
  /\ \A i \in 1 .. Len(s) : \A j \in 1 .. (i - 1) : s[j] - s[i] <= m
  /\ m > 0 => \E i \in 1 .. Len(s) : \E j \in 1 .. (i - 1) : s[j] - s[i] = m

\* The one pass over the reads with a running maximum finds every read that
\* came after a larger one, neighbour or not, and the largest drop. This is
\* what the code counts. The documentation describes another number: the
\* comment on measure_per_thread says "count consecutive reads where `now() <
\* previous`" (bench.rs:113-114) and BENCHMARKS.md:204 "`now() <
\* previous_now()`", but bench.rs:132-140 keeps previous on a violation, so
\* that of the reads 5, 3, 4 it counts two.
ViolationsExact ==
  /\ total_reads = Len(reads)
  /\ violations = Cardinality(Inversions(reads))
  /\ IsLargestDrop(reads, max_violation_ns)

\* The reads that came after a larger neighbour: what the documentation counts.
ConsecutiveDrops(s) == {i \in 2 .. Len(s) : s[i] < s[i - 1]}

\* How the reported count and the documented one compare: the report is zero
\* for the same runs, those of a monotone clock, and otherwise never the
\* smaller of the two.
CoversConsecutiveDrops ==
  /\ Cardinality(ConsecutiveDrops(reads)) <= violations
  /\ violations > 0 => ConsecutiveDrops(reads) # {}

\* Without recalibration a clock goes backwards by the skew between two CPUs
\* at most, and one nanosecond of rounding. A recalibration moves every
\* reading by the change of scale times the age of the anchor: a long-running
\* process may report violations far beyond the skew on perfect counters.
ViolationExplained ==
  LET jump == IF steady THEN 0 ELSE 2 * MaxErr * time
  IN  max_violation_ns * QOne < jump + MaxSkew * MaxScale + QOne

\* The time is looked at often enough: the loop runs on for one period at
\* most when the duration is over, also when the u32 counter has wrapped.
StopsInTime == late <= BudgetPeriod
============================================================================

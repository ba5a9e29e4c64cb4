----------------------------- MODULE Calibration -----------------------------
(***************************************************************************)
(* calibrate_frequency (src/src/calibration.rs): the counter's rate,       *)
(* measured NUM_SAMPLES times against clock_gettime over a window of       *)
(* CALIBRATION_TIME_NS, and the median of the estimates. The thread may be *)
(* preempted, and moved to a CPU whose counter is ahead or behind, between *)
(* any two reads; a sample whose reads were pulled apart is off, and the   *)
(* median is there to discard it.                                          *)
(*                                                                         *)
(* lead, last and gap are history variables.                               *)
(***************************************************************************)
EXTENDS Q32, FiniteSets

CONSTANTS
  CALIBRATION_TIME_NS,
  NUM_SAMPLES,
  Boot,        \* counter value when the calibration begins
  Rate,        \* ticks per nanosecond
  MaxSkew,     \* by how many ticks two CPUs' counters may disagree
  QuietGap,    \* preemption outside the tick interval that a good sample has
  MaxSample    \* bound: length of a sample in nanoseconds

ASSUME CalibrationAssumption ==
  /\ CALIBRATION_TIME_NS \in Nat \ {0}
  /\ NUM_SAMPLES \in Nat /\ NUM_SAMPLES % 2 = 1
  /\ Boot \in Nat
  /\ Rate \in Nat
  /\ MaxSkew \in Nat
  /\ QuietGap \in Nat
  /\ MaxSample \in Nat
  /\ CALIBRATION_TIME_NS <= MaxSample
  \* The counter does not wrap twice within a sample, nor does the estimate
  \* of an undisturbed one overflow.
  /\ (Rate * MaxSample + MaxSkew) * NanosPerSecond < WordMod
  \* Between the tick reads of a good sample the counter outruns the skew.
  /\ MaxSkew + Rate * QuietGap < Rate * CALIBRATION_TIME_NS
  \* The window is a second at most, and the counter no faster than 2^32 ticks
  \* a nanosecond (10 ms and a few ticks on any machine).
  /\ CALIBRATION_TIME_NS <= NanosPerSecond
  /\ Rate * CALIBRATION_TIME_NS + MaxSkew <= QOne * CALIBRATION_TIME_NS

Samples == 1 .. NUM_SAMPLES

VARIABLES
  wall,        \* clock_monotonic(), from 0: u64 nanoseconds do not wrap
  pc,
  k,           \* the sample being taken
  wall_start,
  t0, t1,
  estimates,   \* [Samples -> u64]
  result,      \* what the call returned, None before
  lead,        \* nanoseconds between the reads of wall_start and t0
  last,        \* when t1 was read
  gap          \* [Samples -> Nat]: time a sample spent outside [t0, t1]

vars == <<wall, pc, k, wall_start, t0, t1, estimates, result, lead, last, gap>>

Init ==
  /\ wall = 0
  /\ pc = "wall_start"
  /\ k = 1
  /\ wall_start = 0 /\ t0 = 0 /\ t1 = 0
  /\ estimates = [i \in Samples |-> 0]
  /\ result = None
  /\ lead = 0 /\ last = 0
  /\ gap = [i \in Samples |-> 0]

\* The counter read on a CPU that is s ticks ahead.
ticks(s) == (Boot + Rate * wall + s) % WordMod

\* Time passes: the loop spins, or the thread is not running.
Advance ==
  /\ pc \in {"t0", "spin", "t1", "wall_end"}
  /\ wall - wall_start < MaxSample
  /\ wall' = wall + 1
  /\ UNCHANGED <<pc, k, wall_start, t0, t1, estimates, result, lead, last, gap>>

ReadWallStart ==
  /\ pc = "wall_start"
  /\ wall_start' = wall
  /\ pc' = "t0"
  /\ UNCHANGED <<wall, k, t0, t1, estimates, result, lead, last, gap>>

ReadT0 ==
  /\ pc = "t0"
  /\ \E s \in 0 .. MaxSkew : t0' = ticks(s)
  /\ lead' = wall - wall_start
  /\ pc' = "spin"
  /\ UNCHANGED <<wall, k, wall_start, t1, estimates, result, last, gap>>

\* A loop that waits for the exact end of the window, and one without it.
mutant_SpinEnds ==
  /\ pc = "spin"
  /\ wall - wall_start = CALIBRATION_TIME_NS
  /\ pc' = "t1"
  /\ UNCHANGED <<wall, k, wall_start, t0, t1, estimates, result, lead, last, gap>>

mutant_SpinSkipped ==
  /\ pc = "spin"
  /\ pc' = "t1"
  /\ UNCHANGED <<wall, k, wall_start, t0, t1, estimates, result, lead, last, gap>>

\* The loop sees the window over. An iteration that does not changes nothing.
SpinEnds ==
  /\ pc = "spin"
  /\ wall - wall_start >= CALIBRATION_TIME_NS
  /\ pc' = "t1"
  /\ UNCHANGED <<wall, k, wall_start, t0, t1, estimates, result, lead, last, gap>>

ReadT1 ==
  /\ pc = "t1"
  /\ \E s \in 0 .. MaxSkew : t1' = ticks(s)
  /\ last' = wall
  /\ pc' = "wall_end"
  /\ UNCHANGED <<wall, k, wall_start, t0, estimates, result, lead, gap>>

\* The quotient kept without unwrap_or(u64::MAX).
mutant_estimate(wall_elapsed) ==
  IF wall_elapsed = 0 THEN 0
  ELSE (wrapping_sub(t1, t0) * NanosPerSecond) \div wall_elapsed

\* checked_div leaves the estimate 0 if no time passed.
estimate(wall_elapsed) ==
  IF wall_elapsed = 0 THEN 0
  ELSE saturate((wrapping_sub(t1, t0) * NanosPerSecond) \div wall_elapsed)

EndSample ==
  /\ pc = "wall_end"
  /\ estimates' = [estimates EXCEPT ![k] = estimate(wall - wall_start)]
  /\ gap' = [gap EXCEPT ![k] = lead + (wall - last)]
  /\ k' = k + 1
  /\ pc' = (IF k = NUM_SAMPLES THEN "sort" ELSE "wall_start")
  /\ UNCHANGED <<wall, wall_start, t0, t1, result, lead, last>>

\* The largest estimate for the middle one.
mutant_IsMedian(v) == \A i \in Samples : estimates[i] <= v

\* v is the element at index NUM_SAMPLES / 2 of the sorted estimates.
IsMedian(v) ==
  /\ Cardinality({i \in Samples : estimates[i] < v}) <= NUM_SAMPLES \div 2
  /\ NUM_SAMPLES \div 2 < Cardinality({i \in Samples : estimates[i] <= v})

Sort ==
  /\ pc = "sort"
  /\ \E i \in Samples : IsMedian(estimates[i]) /\ result' = estimates[i]
  /\ pc' = "done"
  /\ UNCHANGED <<wall, k, wall_start, t0, t1, estimates, lead, last, gap>>

Program == ReadWallStart \/ ReadT0 \/ SpinEnds \/ ReadT1 \/ EndSample \/ Sort

Next == Advance \/ Program

\* The thread is scheduled again and again, and CLOCK_MONOTONIC advances.
Spec == Init /\ [][Next]_vars /\ WF_vars(Program) /\ WF_vars(Advance)

----------------------------------------------------------------------------
(* Properties *)

\* The type invariant: every estimate is a u64.
TypeOK ==
  /\ wall \in Nat
  /\ pc \in {"wall_start", "t0", "spin", "t1", "wall_end", "sort", "done"}
  /\ k \in 1 .. (NUM_SAMPLES + 1)
  /\ wall_start \in Nat
  /\ t0 \in Word /\ t1 \in Word
  /\ estimates \in [Samples -> Word]
  /\ result \in Word \cup {None}
  /\ lead \in Nat /\ last \in Nat
  /\ gap \in [Samples -> Nat]

\* The true frequency, and by how much a good sample may count too many or
\* too few ticks for its window, both times NanosPerSecond.
hz    == Rate * NanosPerSecond
above == MaxSkew * NanosPerSecond
below == (MaxSkew + Rate * QuietGap) * NanosPerSecond

\* f is the true frequency, but for the skew between two CPUs and the quiet
\* gap, both relative to the window, and one hertz of rounding.
Accurate(f) ==
  /\ f * CALIBRATION_TIME_NS <= hz * CALIBRATION_TIME_NS + above
  /\ hz * CALIBRATION_TIME_NS < (f + 1) * CALIBRATION_TIME_NS + below

\* A sample whose reads were not pulled apart is accurate, however long the
\* window grew, also when the counter wrapped in it.
QuietSampleAccurate ==
  \A i \in Samples : (i < k /\ gap[i] <= QuietGap) => Accurate(estimates[i])

\* Fewer than half of the samples were pulled apart.
MostlyQuiet == Cardinality({i \in Samples : gap[i] > QuietGap}) <= NUM_SAMPLES \div 2

\* Then, whatever the delays of the others and in either direction, the
\* returned frequency is as accurate as an undisturbed sample.
MedianAccurate == pc = "done" /\ MostlyQuiet => Accurate(result)

\* The scale that is then published can be computed, is not the 0 that marks
\* the cell as empty, and is as near to the true scale as the frequency is to
\* the true frequency, but for one unit of rounding.
ScaleAccurate ==
  pc = "done" /\ MostlyQuiet =>
    LET q32  == scale_of(result)
        unit == NANOS_PER_SECOND_Q32 * CALIBRATION_TIME_NS
    IN  /\ result # 0 /\ q32 # 0
        /\ unit < (q32 + 1) * (hz * CALIBRATION_TIME_NS + above)
        /\ q32 * (hz * CALIBRATION_TIME_NS) <= unit + q32 * (CALIBRATION_TIME_NS + below)

\* The spin loop ends and the call returns.
Terminates == <>(pc = "done")
============================================================================

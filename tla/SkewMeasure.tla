---------------------------- MODULE SkewMeasure ----------------------------
(***************************************************************************)
(* measure_skew (src/src/bench.rs): a clock's progress over a sleep is     *)
(* compared with the reference clock's, a number of times, and the median  *)
(* reported. Time passes, the thread is moved to another CPU and the       *)
(* background thread recalibrates between any two of the four reads.       *)
(*                                                                         *)
(* The last five fields of a sample are history.                           *)
(***************************************************************************)
EXTENDS ClockSource, Sequences, FiniteSets

CONSTANTS
  SampleCounts,  \* numbers of samples the driver may ask for
  Interval,      \* the sleep, in ticks
  QuietGap       \* delays up to this many ticks do not disturb a sample

ASSUME SkewAssumption ==
  /\ SampleCounts \subseteq Nat
  /\ Interval \in Nat
  /\ QuietGap \in Nat

VARIABLES
  pc,
  samples,     \* the argument
  r,           \* r_start, and when it was read
  c,           \* c_start, when and at which scale it was read; then c_end
  all_samples,
  result       \* the SkewResult; None before, and after a panic

vars == <<source, pc, samples, r, c, all_samples, result>>

\* std::time::Instant, which does not depend on the scale.
reference_clock_ns == (time * TrueScale) \div QOne

saturating_sub(a, b) == IF a >= b THEN a - b ELSE 0

Unread == [ns |-> 0, at |-> 0, scale |-> 0]

\* A loop that tests its bound at the end, and one that runs once less.
mutant_loop_first == "r_start"

mutant_first_pc == IF samples <= 1 THEN "sort" ELSE "r_start"

\* for _ in 0..samples
first_pc == IF samples = 0 THEN "sort" ELSE "r_start"

Init ==
  /\ init_anchor
  /\ samples \in SampleCounts
  /\ pc = first_pc
  /\ r = Unread
  /\ c = [start |-> Unread, end |-> Unread]
  /\ all_samples = << >>
  /\ result = None

Over == pc \in {"done", "panicked"}

Advance ==
  /\ ~Over
  /\ time < MaxTime
  /\ time' = time + 1
  /\ UNCHANGED <<anchor, q, pc, samples, r, c, all_samples, result>>

\* The background thread, or Instant::recalibrate in another one.
Recalibrate ==
  /\ ~Over
  /\ q' \in Scales
  /\ UNCHANGED <<time, anchor, pc, samples, r, c, all_samples, result>>

\* r_start read before the loop only.
mutant_ReadRStart ==
  /\ pc = "r_start"
  /\ r' = [ns |-> 0, at |-> time, scale |-> TrueScale]
  /\ pc' = "c_start"
  /\ UNCHANGED <<source, samples, c, all_samples, result>>

ReadRStart ==
  /\ pc = "r_start"
  /\ r' = [ns |-> reference_clock_ns, at |-> time, scale |-> TrueScale]
  /\ pc' = "c_start"
  /\ UNCHANGED <<source, samples, c, all_samples, result>>

ReadCStart(cpu) ==
  /\ pc = "c_start"
  /\ c' = [c EXCEPT !.start = [ns |-> now_as_u64(cpu), at |-> time, scale |-> q]]
  /\ pc' = "sleep"
  /\ UNCHANGED <<source, samples, r, all_samples, result>>

\* thread::sleep returns after the interval, or later.
ReadCEnd(cpu) ==
  /\ pc = "sleep"
  /\ time - c.start.at >= Interval
  /\ c' = [c EXCEPT !.end = [ns |-> now_as_u64(cpu), at |-> time, scale |-> q]]
  /\ pc' = "r_end"
  /\ UNCHANGED <<source, samples, r, all_samples, result>>

\* The sample computed when r_end is read. Both differences fit an i64.
sample ==
  LET c_elapsed_ns   == saturating_sub(c.end.ns, c.start.ns)
      ref_elapsed_ns == saturating_sub(reference_clock_ns, r.ns)
  IN  [c_elapsed_ns   |-> c_elapsed_ns,
       ref_elapsed_ns |-> ref_elapsed_ns,
       skew_ns        |-> c_elapsed_ns - ref_elapsed_ns,
       slept          |-> c.end.at - c.start.at,
       gap            |-> (c.start.at - r.at) + (time - c.end.at),
       age            |-> c.start.at,
       from           |-> c.start.scale,
       to             |-> c.end.scale]

ReadREnd ==
  /\ pc = "r_end"
  /\ all_samples' = Append(all_samples, sample)
  /\ pc' = (IF Len(all_samples') = samples THEN "sort" ELSE "r_start")
  /\ r' = Unread
  /\ c' = [start |-> Unread, end |-> Unread]
  /\ UNCHANGED <<source, samples, result>>

Samples == 1 .. Len(all_samples)

\* The first of the sorted skews for the middle one.
mutant_IsMedian(v) == \A i \in Samples : v <= all_samples[i].skew_ns

\* v is the element at index len / 2 of the sorted skews.
IsMedian(v) ==
  /\ Cardinality({i \in Samples : all_samples[i].skew_ns < v}) <= Len(all_samples) \div 2
  /\ Len(all_samples) \div 2 < Cardinality({i \in Samples : all_samples[i].skew_ns <= v})

\* Indexing the middle of no samples panics. The ppm reported is the one of
\* the sample taken in the middle, in the order of time.
Report ==
  /\ pc = "sort"
  /\ \/ /\ all_samples = << >>
        /\ pc' = "panicked"
        /\ UNCHANGED result
     \/ \E m, lo, hi \in Samples :
          /\ IsMedian(all_samples[m].skew_ns)
          /\ \A i \in Samples : /\ all_samples[lo].skew_ns <= all_samples[i].skew_ns
                                /\ all_samples[i].skew_ns <= all_samples[hi].skew_ns
          /\ result' = [median_skew_ns |-> all_samples[m].skew_ns,
                        min_skew_ns    |-> all_samples[lo].skew_ns,
                        max_skew_ns    |-> all_samples[hi].skew_ns,
                        median_sample  |-> (Len(all_samples) \div 2) + 1]
          /\ pc' = "done"
  /\ UNCHANGED <<source, samples, r, c, all_samples>>

Program ==
  \/ ReadRStart \/ ReadREnd \/ Report
  \/ \E cpu \in CPUs : ReadCStart(cpu) \/ ReadCEnd(cpu)

Next == Advance \/ Recalibrate \/ Program

Spec == Init /\ [][Next]_vars

----------------------------------------------------------------------------
(* Properties *)

Reading == [ns : Nat, at : Nat, scale : Nat]

SkewSample ==
  [c_elapsed_ns : Nat, ref_elapsed_ns : Nat, skew_ns : Int,
   slept : Nat, gap : Nat, age : Nat, from : Scales, to : Scales]

\* The type invariant. No more samples are taken than asked for.
TypeOK ==
  /\ SourceTypeOK
  /\ pc \in {"r_start", "c_start", "sleep", "r_end", "sort", "done", "panicked"}
  /\ samples \in SampleCounts
  /\ r \in Reading
  /\ c \in [start : Reading, end : Reading]
  /\ all_samples \in Seq(SkewSample)
  /\ Len(all_samples) <= samples

\* The skew a sample should have: the error of the scale over the sleep, less
\* what the reference clock ran while the clock was not measured, plus the
\* change of scale times the age of the anchor. In Q32 nanoseconds.
Ideal(s) ==
  s.slept * (s.to - TrueScale) - s.gap * TrueScale + s.age * (s.to - s.from)

\* Skew between CPUs, and two nanoseconds of rounding.
Slack == MaxSkew * MaxScale + 2 * QOne

Explained(s) ==
  /\ s.skew_ns * QOne > Ideal(s) - Slack
  /\ s.c_elapsed_ns > 0 => s.skew_ns * QOne < Ideal(s) + Slack

\* Every sample is explained by the four causes in Ideal, however long the
\* thread was off the CPU between its reads: delays beside the sleep make the
\* clock look slow and never fast, and a recalibration during the sleep
\* enters with the age of the process and not with the length of the sample.
\* (A clock that went backwards counts as having stood still.)
SkewExplained == \A i \in Samples : Explained(all_samples[i])

Quiet(s) == s.from = s.to /\ s.gap <= QuietGap /\ s.slept <= Interval + QuietGap

\* What the skew of a quiet sample can be.
QuietBound == (Interval + QuietGap) * MaxErr + QuietGap * TrueScale + Slack

\* A minority of disturbed samples (preempted between reads, overslept,
\* recalibrated in the middle) does not show in the median: it is within what
\* a quiet sample may differ.
MedianRobust ==
  (/\ pc = "done"
   /\ 2 * Cardinality({i \in Samples : ~Quiet(all_samples[i])}) < Len(all_samples))
    => /\ result.median_skew_ns * QOne < QuietBound
       /\ -QuietBound < result.median_skew_ns * QOne

\* The report is made of all the samples asked for; if none were, the
\* measurement panics instead, and only then.
ReportsAllSamples ==
  /\ pc = "done" => samples > 0 /\ Len(all_samples) = samples
  /\ pc = "panicked" => samples = 0
============================================================================

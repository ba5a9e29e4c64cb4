----------------------------- MODULE CrossThread -----------------------------
(***************************************************************************)
(* measure_cross_thread (src/src/bench.rs): workers race reads of a clock  *)
(* into a shared atomic maximum and count the reads that came in below it; *)
(* the main thread starts them at a barrier, stops them and adds up.       *)
(*                                                                         *)
(* Each read of a worker may be made on any CPU, and the background thread *)
(* may recalibrate between any two. all_reads and steady are history.      *)
(***************************************************************************)
EXTENDS ClockSource, Sequences

CONSTANTS
  Threads,    \* number of workers
  Bracket,    \* 10_000: longest r1-to-r2 distance that is not a preemption
  Buckets,    \* upper bounds of the histogram but the last, which has none
  NumBuckets, \* number of buckets, with the unbounded one
  MaxReads    \* bound: iterations of one worker

ASSUME CrossThreadAssumption ==
  /\ Threads \in Nat
  /\ Bracket \in Nat
  /\ NumBuckets \in Nat \ {0}
  /\ Buckets \in [1 .. (NumBuckets - 1) -> Nat]
  /\ MaxReads \in Nat

\* The workers, by the index of their handles, and the calling thread.
Workers == 1 .. Threads
Main == 0

BucketIndex == 1 .. NumBuckets

VARIABLES
  arrived,     \* who has reached the barrier
  stop,
  max,         \* the shared maximum
  pc,
  r1, prev,    \* locals of a worker's iteration, 0 outside it
  local,       \* each worker's tallies
  total,       \* the sum of the tallies of the workers joined so far
  violations_per_thread,  \* and their violations one by one
  all_reads,   \* iterations made by all workers
  steady       \* no recalibration has changed the scale

vars == <<source, arrived, stop, max, pc, r1, prev, local, total, violations_per_thread,
          all_reads, steady>>

\* A histogram without the unbounded bucket.
mutant_Zeros == [violations |-> 0, reads |-> 0, max_violation |-> 0, preempt |-> 0,
                 histogram |-> [i \in 1 .. (NumBuckets - 1) |-> 0]]

Zeros == [violations |-> 0, reads |-> 0, max_violation |-> 0, preempt |-> 0,
          histogram |-> [i \in BucketIndex |-> 0]]

Tally == [violations : Nat, reads : Nat, max_violation : Nat, preempt : Nat,
          histogram : [BucketIndex -> Nat]]

\* The warm-up reads leave nothing behind.
Init ==
  /\ init_anchor
  /\ arrived = {}
  /\ stop = FALSE
  /\ max = 0
  /\ pc = [p \in Workers \cup {Main} |-> "arrive"]
  /\ r1 = [w \in Workers |-> 0]
  /\ prev = [w \in Workers |-> 0]
  /\ local = [w \in Workers |-> Zeros]
  /\ total = Zeros
  /\ violations_per_thread = <<>>
  /\ all_reads = 0
  /\ steady = TRUE

Goto(p, l) == pc' = [pc EXCEPT ![p] = l]

larger(a, b) == IF a >= b THEN a ELSE b

tallies == <<local, total, violations_per_thread, all_reads>>

Tick ==
  /\ pc[Main] # "reported"
  /\ time < MaxTime
  /\ time' = time + 1
  /\ UNCHANGED <<anchor, q, steady, arrived, stop, max, pc, r1, prev, tallies>>

\* Instant::recalibrate in the background thread.
Recalibrate ==
  /\ pc[Main] # "reported"
  /\ q' \in Scales
  /\ steady' = (steady /\ q' = q)
  /\ UNCHANGED <<time, anchor, arrived, stop, max, pc, r1, prev, tallies>>

----------------------------------------------------------------------------
(* The start barrier, for the workers and the main thread *)

Arrive(p) ==
  /\ pc[p] = "arrive"
  /\ arrived' = arrived \cup {p}
  /\ Goto(p, "wait")
  /\ UNCHANGED <<source, steady, stop, max, r1, prev, tallies>>

Pass(p) ==
  /\ pc[p] = "wait"
  /\ arrived = Workers \cup {Main}
  /\ Goto(p, IF p = Main THEN "sleep" ELSE "test")
  /\ UNCHANGED <<source, steady, arrived, stop, max, r1, prev, tallies>>

----------------------------------------------------------------------------
(* A worker's loop *)

\* while !stop.load(Relaxed)
Test(w) ==
  /\ pc[w] = "test"
  /\ \/ stop /\ Goto(w, "returned")
     \/ ~stop /\ local[w].reads < MaxReads /\ Goto(w, "read")
  /\ UNCHANGED <<source, steady, arrived, stop, max, r1, prev, tallies>>

ReadR1(w) ==
  /\ pc[w] = "read"
  /\ \E c \in CPUs : r1' = [r1 EXCEPT ![w] = now_as_u64(c)]
  /\ Goto(w, "fetch_max")
  /\ UNCHANGED <<source, steady, arrived, stop, max, prev, tallies>>

FetchMax(w) ==
  /\ pc[w] = "fetch_max"
  /\ prev' = [prev EXCEPT ![w] = max]
  /\ max' = larger(max, r1[w])
  /\ Goto(w, "bracket")
  /\ UNCHANGED <<source, steady, arrived, stop, r1, tallies>>

\* The histogram bucket of a violation: the first whose bound reaches it.
bucket_of(diff) ==
  {i \in BucketIndex :
     /\ i = NumBuckets \/ diff <= Buckets[i]
     /\ \A j \in BucketIndex : j < i => diff > Buckets[j]}

\* No filter.
mutant_preempted(w, r2) == FALSE

\* r2.saturating_sub(r1) > 10_000
preempted(w, r2) == r2 > r1[w] /\ r2 - r1[w] > Bracket

\* The rest of the iteration: r2 is read, the iteration dropped if it was
\* preempted, and a violation counted if r1 was below the shared maximum.
Bracketed(w) ==
  /\ pc[w] = "bracket"
  /\ \E c \in CPUs :
       LET dropped   == preempted(w, now_as_u64(c))
           violation == ~dropped /\ r1[w] < prev[w]
           diff      == prev[w] - r1[w]
           l         == local[w]
       IN  local' = [local EXCEPT ![w] =
             [reads         |-> l.reads + 1,
              preempt       |-> l.preempt + (IF dropped THEN 1 ELSE 0),
              violations    |-> l.violations + (IF violation THEN 1 ELSE 0),
              max_violation |-> IF violation THEN larger(l.max_violation, diff)
                                             ELSE l.max_violation,
              histogram     |-> [i \in BucketIndex |->
                 l.histogram[i] + (IF violation /\ i \in bucket_of(diff) THEN 1 ELSE 0)]]]
  /\ all_reads' = all_reads + 1
  /\ r1' = [r1 EXCEPT ![w] = 0]
  /\ prev' = [prev EXCEPT ![w] = 0]
  /\ Goto(w, "test")
  /\ UNCHANGED <<source, steady, arrived, stop, max, total, violations_per_thread>>

----------------------------------------------------------------------------
(* The main thread *)

\* The flag is not raised.
mutant_Stop ==
  /\ pc[Main] = "sleep"
  /\ Goto(Main, "join")
  /\ UNCHANGED <<source, steady, arrived, stop, max, r1, prev, tallies>>

\* thread::sleep(duration) returns and the flag is raised.
Stop ==
  /\ pc[Main] = "sleep"
  /\ stop' = TRUE
  /\ Goto(Main, "join")
  /\ UNCHANGED <<source, steady, arrived, max, r1, prev, tallies>>

\* for h in handles: the tallies of the next worker are added to the totals.
AddTally(w) ==
  /\ pc[Main] = "join"
  /\ w \in Workers
  /\ violations_per_thread' = Append(violations_per_thread, local[w].violations)
  /\ total' =
       [violations    |-> total.violations + local[w].violations,
        reads         |-> total.reads + local[w].reads,
        max_violation |-> larger(total.max_violation, local[w].max_violation),
        preempt       |-> total.preempt + local[w].preempt,
        histogram     |-> [i \in BucketIndex |-> total.histogram[i] + local[w].histogram[i]]]
  /\ UNCHANGED <<source, steady, arrived, stop, max, pc, r1, prev, local, all_reads>>

joined == Len(violations_per_thread)

\* Without waiting for the worker to return.
mutant_Join == AddTally(joined + 1)

Join == AddTally(joined + 1) /\ pc[joined + 1] = "returned"

Report ==
  /\ pc[Main] = "join"
  /\ joined = Threads
  /\ Goto(Main, "reported")
  /\ UNCHANGED <<source, steady, arrived, stop, max, r1, prev, tallies>>

----------------------------------------------------------------------------

WorkerStep(w) ==
  Arrive(w) \/ Pass(w) \/ Test(w) \/ ReadR1(w) \/ FetchMax(w) \/ Bracketed(w)

MainStep == Arrive(Main) \/ Pass(Main) \/ Stop \/ Join \/ Report

Next == Tick \/ Recalibrate \/ (\E w \in Workers : WorkerStep(w)) \/ MainStep

\* Every thread is scheduled again and again.
Spec ==
  /\ Init /\ [][Next]_vars
  /\ \A w \in Workers : WF_vars(WorkerStep(w))
  /\ WF_vars(MainStep)

----------------------------------------------------------------------------
(* Properties *)

\* The type invariant of the workers' tallies and the report.
TypeOK ==
  /\ SourceTypeOK
  /\ steady \in BOOLEAN
  /\ arrived \subseteq Workers \cup {Main}
  /\ stop \in BOOLEAN
  /\ max \in Nat
  /\ pc \in [Workers \cup {Main} ->
       {"arrive", "wait", "test", "read", "fetch_max", "bracket", "returned",
        "sleep", "join", "reported"}]
  /\ r1 \in [Workers -> Nat] /\ prev \in [Workers -> Nat]
  /\ local \in [Workers -> Tally]
  /\ total \in Tally
  /\ violations_per_thread \in Seq(Nat) /\ joined <= Threads
  /\ all_reads \in Nat

\* What the bracket, the skew of two counters, rounding and, after a
\* recalibration, the change of scale times the age of the anchor make up.
Explained(violation) ==
  LET jump == IF steady THEN 0 ELSE 2 * MaxErr * time
  IN  violation * QOne < Bracket * QOne + jump + MaxSkew * MaxScale + QOne

\* Scheduling never shows up as a large violation: what gets past the bracket
\* filter is at most the bracket, the skew and one nanosecond of rounding, as
\* long as the scale stays the same. The filter does not see a recalibration:
\* after one the shared maximum may be ahead of every reader for long.
ViolationsBounded ==
  /\ \A w \in Workers : Explained(local[w].max_violation)
  /\ Explained(total.max_violation)

\* run holds the running totals of f[1], ..., f[n], and s is their sum.
RunningTotals(run, f, n) ==
  run[0] = 0 /\ \A i \in 1 .. n : run[i] = run[i - 1] + f[i]

IsSum(f, n, s) ==
  \E run \in [0 .. n -> 0 .. s] : RunningTotals(run, f, n) /\ run[n] = s

\* Every violation is in one bucket, none was also counted as preempted, and
\* the largest one lies in the last bucket in use.
Consistent(t) ==
  /\ IsSum(t.histogram, NumBuckets, t.violations)
  /\ t.violations + t.preempt <= t.reads
  /\ t.violations = 0 => t.max_violation = 0 /\ t.histogram = Zeros.histogram
  /\ t.violations > 0 => \E i \in bucket_of(t.max_violation) :
                            /\ t.histogram[i] > 0
                            /\ \A j \in BucketIndex : j > i => t.histogram[j] = 0

\* Once the report is out no read and no thread is missing from it, and its
\* totals, maximum, histogram and counts per thread agree with each other.
ReportAddsUp ==
  pc[Main] = "reported" =>
    /\ total.reads = all_reads
    /\ violations_per_thread = [w \in Workers |-> local[w].violations]
    /\ IsSum(violations_per_thread, Threads, total.violations)
    /\ Consistent(total)

\* The barrier opens, the flag stops every worker and the report is made.
AlwaysReports == <>(pc[Main] = "reported")
==============================================================================

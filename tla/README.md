# A TLA+ verification of tach

`tach` is a `no_std` Rust crate with an `Instant` that reads the CPU's counter
(TSC, CNTVCT, ...) directly and converts ticks to nanoseconds with a cached
fixed-point scale. This directory holds TLA+ modules that model its core, TLC
configurations that check them on small instances, and TLAPS proofs that hold
for every value of the parameters. Paths below are relative to the repository
root, which is `src/` in `PROJECT.json` (so `src/arch/mod.rs` of the crate is
`src/src/arch/mod.rs` there).

## The system

| Part | State | Operations | What is hard | What makes it correct |
|---|---|---|---|---|
| `Instant` (`src/instant.rs`) | a u64 counter value per instant | `now`, `elapsed`, `duration_since`, `checked_*`, `+`, `-`, `+=`, `-=` | counters wrap, differ between CPUs, and the scale changes while instants are held | no arithmetic wraps silently; results err by rounding and skew only |
| Q32 conversions (`src/instant.rs`, `src/arch/mod.rs`) | none | `ticks_to_duration`, `duration_to_ticks`, the scale expression | widths: u64, u128, a shift that may lose bits, saturation | equal to exact arithmetic, rounded down and saturated |
| Scale cache (`src/arch/mod.rs`) | `NANOS_PER_TICK_Q32` | `nanos_per_tick_q32` (lazy), `recalibrate` | racing first uses, 50 ms between reading the cell and storing to it | never served empty; changed only by a use that found it empty or a recalibration; emptied only by a measurement too large to have a scale |
| Background thread (`src/background.rs`) | `THREAD` (a `OnceLock`), `INTERVAL_SECS` | `ensure_thread`, the sleep loop, `set_recalibration_interval` | racing starts, a refused spawn, an interval changed during a sleep | at most one thread, nobody hangs, it keeps working at the interval set |
| Calibration (`src/calibration.rs`) | five estimates | `calibrate_frequency` | preemption and migration between any two clock reads | undisturbed samples are accurate, the median ignores a disturbed minority, the loop ends |
| Counter reads (`src/arch/*.rs`) | the hardware counter | `ticks`, `ticks_ordered`, `clock_monotonic` | two `cfg` cascades that must agree; out-of-order execution | the frequency source matches the counter source |
| Cross-thread measurement (`src/bench.rs`) | shared maximum, stop flag, barrier, tallies | `measure_cross_thread` | a true race by design: read, `fetch_max`, read again, with migration and recalibration in between | scheduling does not show up as a large violation, the report adds up and is made |
| Clock sources (`src/bench.rs`) | one anchor a clock | `init_anchor`, `now_as_u64` | readings since an anchor are converted at a scale that changes | a reading moves back only by skew and recalibration |
| Per-thread measurement (`src/bench.rs`) | a running maximum, tallies, a u32 that wraps | `measure_per_thread` | migration and recalibration between reads; the time is polled | counts every read below an earlier one, once; stops in time |
| Skew measurement (`src/bench.rs`) | samples | `measure_skew` | preemption, migration and recalibration between the four reads of a sample | each sample is explained by its causes, a disturbed minority does not move the median |
| `OrderedInstant` (`src/instant.rs`, `src/arch/direct.rs`) | as `Instant` | as `Instant`, with a barrier before the read; `elapsed_unordered` | processors execute counter reads out of order | a read after an Acquire load is not older than what the load returned |
| Bench drivers, reports, runners (`benches/`) | files | argument parsing, SVG, shell | I/O | not modelled |

How they interact: every conversion of an `Instant` calls `nanos_per_tick_q32`.
The first call on an empty cell asks `read_frequency`, which on x86 without
CPUID leaf 15h, riscv64 and loongarch64 runs `calibrate_frequency`, and then
starts the background thread if the feature `recalibrate-background` is on.
The thread and clients call `recalibrate`, which replaces the scale for
everybody, and with it all readings of the clocks the benches measure. There is
no lock but the `OnceLock`; the cell is one relaxed atomic.

`PROJECT.json` lists the hazards of the code line by line with the property
that would catch each, and marks those no property covers yet.

## Modules

| Module | Models |
|---|---|
| `Q32` | u64/u128 arithmetic, `Duration`, the scale and both conversions, as operators |
| `Instant` | a client of the API on several CPUs; extends `Q32` |
| `ScaleRegister` | abstract: what callers of the cache may rely on |
| `Platform` | the `cfg` attributes: counter, frequency source, `recalibrate` and module `calibration` of a build, as operators; extends `Q32` |
| `ScaleCache` | `nanos_per_tick_q32`, `recalibrate`, `ensure_thread`, the background loop, the interval; instantiates `ScaleRegister` |
| `ScaleOrder` | `ScaleCache` with history variables for the age of measurements |
| `Calibration` | `calibrate_frequency` |
| `CrossThread` | `measure_cross_thread`; extends `ClockSource` |
| `OrderedRead` | `OrderedInstant` between threads: barriers, ordered and plain reads, deadlines; extends `Q32` |
| `ClockSource` | a clock under test that reads tach; extends `Q32` |
| `PerThread` | `measure_per_thread`; extends `ClockSource` |
| `SkewMeasure` | `measure_skew`; extends `ClockSource` |
| `*Proofs` | the theorems about the module of that name |
| `MC*` | the instances TLC checks |

Operators named `mutant_...` are plausible mistakes in the definition that
follows them. No specification uses them: each is substituted for that
definition to see that the property it is paired with in `PROJECT.json` then
fails.

### How model and code correspond

**Q32.** `WordMod`, `QOne` and `NanosPerSecond` stand for 2^64, 2^32 and 10^9.
The only fact assumed of them is `NanosPerSecond * QOne < WordMod`, which the
real values satisfy, so theorems hold for the real widths while TLC uses 6 and
8 bit words. `checked_shl` checks the shift amount and not the value, so
`duration_to_ticks` reduces the shifted value modulo the u128 range; theorem
`ShiftLosesNothing` shows that this never matters.

**Instant.** `boot + time + Skew[c]`, reduced to a word, is the counter of CPU
`c`. `start` is the last sample, `point` an instant derived from it, `q` the
scale. One action for a sample, `+=`, `-=`, a recalibration and the passing of
time; a panicking `+=` leaves the state alone and is therefore no step.
Functions that only read are operators, and the properties speak of their
results in every reachable state. `time`, `origin`, `offset`, `owed`,
`moved`, `ops` and `steady` are history variables.

**ScaleCache.** `cell`, `once` and `interval` are the three statics; `pc` and
`reg` hold where each thread is and the local it carries. Each shared access is
a step, and so is a measurement, which takes tens of milliseconds. The build
is a variable chosen initially: `target.exact` is the frequency a register or
an API reports (`None` where the counter is calibrated), `rates` what a
calibration of the build's counter can yield, `recalibrates` says whether
`recalibrate` is compiled to something, `background` is the feature.
`MCScaleCache` derives the targets with `Platform`, from builds given by
architecture, OS and CPUID leaf: a translation of the `cfg` conditions of
`ticks`, `read_frequency`, `recalibrate` and of `mod calibration`, in which the
true rate of each counter is a constant. On a target where `recalibrate` is empty the call is a stutter.
`OnceLock` is modelled from its contract: one thread runs the closure, the
others wait. A relaxed atomic on one location is sequentially consistent by
coherence, and no other memory is published through it, so interleaving is
faithful. The refinement maps the abstract register's `value` to `cell`, and
`got[t]` to the scale `t` was given, or holds already while it is still inside
`ensure_thread`: a first use takes effect at its store, not at its return.
`missed` are the callers that found the cell empty and have not stored yet.
Every u64 is a possible frequency. One above 10^9 << 32 Hz, to which
`calibrate_frequency` saturates when most of its samples are disturbed, has the
scale 0, the mark of an empty cell: neither the store of a first use nor
`recalibrate`, which discards a zero frequency only, holds it back. The caller
that measured it is given 0, and the next use measures again. So the register's
specification lets a write empty it where such a measurement is possible, and
nowhere else. `reg` is reset when a call ends: it is a local.

**Calibration.** The five reads of a sample are separate steps; between any two
`Advance` lets time pass, and every counter read may be made on a CPU that is
ahead by up to `MaxSkew`. `wall` starts at 0 and is not a word: nanoseconds in
a u64 last 584 years. A spin that does not end the window is `Advance`.
Sorting and taking the middle is specified by rank (`IsMedian`). `Rate` is a
whole number of ticks a nanosecond, as of a TSC of some GHz; the slower timers
of riscv64 and loongarch64 are not covered. A sample lasts `MaxSample` at most,
such that an undisturbed estimate fits a u64 (some 6 s at 3 GHz). The window
is a second at most, the counter at most 2^32 ticks a nanosecond, and it outruns
the skew within the window; with that the published scale can be bounded too.

**CrossThread.** Every worker iteration is four steps: test of the flag, read
of `r1`, `fetch_max`, and the bracket read with the local bookkeeping after it,
which no one else sees. Workers are numbered by their handles, which the main
thread joins in order, one step each: the tally is added to the totals and its
violations appended to `violations_per_thread`. Both reads of an iteration are
`now_as_u64` of `ClockSource`, each on any CPU, and `Recalibrate` may come
between any two steps: the driver runs the clock that recalibrates in the
background (`tach_recal`) through this measurement too. A recalibration to a
smaller scale leaves the shared maximum ahead of every later read by the change
of scale times the age of the anchor, and the bracket filter, which compares
`r1` and `r2` only, does not see it; `steady` records whether that happened,
and `ViolationsBounded` has a term for it. The 1000 warm-up reads, the elapsed
wall time of the report and a `thread::spawn` that fails (it panics before the
barrier is complete) are left out.

**OrderedRead.** A publisher samples an instant, may move it with `+=` and `-=`,
and stores it in an atomic; the observer loads it and measures from it, or
tests whether that moment has passed. The load, the barrier and the counter
read of the observer are separate instructions that execute in any order the
barrier permits: every barrier waits for the load before it, and the counter
read waits for the barrier if `holds`. That is a fact of the machine: always
for `isb sy` and for a call into the OS or the host, on AMD with a bit of the
OS for `lfence`, implementation-defined for the memory fences of riscv64 and
loongarch64, as the comments in `src/arch` say. The publisher's store carries
the value it read and cannot overtake the read. The scale is fixed here.

**ClockSource.** The three clocks that read tach differ only in the read
instruction and in who else uses the scale, so one module stands for them: a
reading is `saturating_duration_since(anchor)` at the current scale, on
whichever CPU the thread is. The driver fills the scale cache before it
measures, and an overlarge measurement (see ScaleCache) is not considered here, so the scale is never 0. Counters start at 0 and do not wrap
(that is `Instant`'s concern).

**PerThread.** One step is one iteration of the loop, which touches nothing
shared but the clock; `Advance`, `Recalibrate` and the choice of the CPU come
between iterations. `reads` records the values read so that the one-pass count
can be compared with its definition over all pairs. A read that was below
`previous` does not become `previous`: the code compares with the largest read
so far, not with the read before, and the model does the same.

**SkewMeasure.** The four reads of a sample are four steps. The sleep is the
guard of the third: it lasts the interval or longer. Every sample carries, as
history, how long it slept, how long the reference ran beside that, how old the
anchor was and the two scales; `Ideal` combines them into the skew one should
measure. The reference clock is ideal: `time` at the true scale.

## Runs

| Run | Result | Question |
|---|---|---|
| `instant` | holds, 1 124 945 states | samples, `+=`, `-=`, recalibrations in any order on two skewed CPUs: `NoSilentWrap`, `ElapsedExact` across a counter wrap, `CrossCpuDurationBounded`, `CrossCpuElapsedBounded`, `RoundingBounded`, `DeadlineAgreesWithElapsed` also when the scale changed |
| `scale_cache` | holds, 400 713 states | two clients and the background thread on ten builds, with zero and saturated measurements: the cache implements the register, its scale fits the counter (`ScaleFitsCounter`), one initialiser, every call returns, the thread keeps recalibrating and obeys the interval |
| `calibration` | holds, 523 096 states | three samples with preemption and migration anywhere: accuracy of quiet samples, of the median and of the scale computed from it, termination |
| `cross_thread` | holds, 271 139 states | two workers on two CPUs, main, and recalibrations: bound of what the filter lets through (`ViolationsBounded`); reads, totals, histogram, maximum and counts per thread agree (`ReportAddsUp`); the report is always made |
| `ordered_read` | holds, 3 179 960 states | all schedules of a publisher and an observer, all execution orders of its instructions, all architectures: `OrderedReadExact`, `DeadlineSeen`, `DurationNeverOverstates` |
| `per_thread` | holds, 2 224 351 states | six reads on two CPUs with recalibrations: `ViolationsExact`, `CoversConsecutiveDrops`, `ViolationExplained`, `StopsInTime` |
| `skew` | holds, 4 714 640 states | up to three samples, disturbed in every way: `SkewExplained`, `MedianRobust`, `ReportsAllSamples` |
| `instant_elapsed_cross_cpu` | fails | does `elapsed()` err only by the skew, as `duration_since` does? No: it wraps |
| `scale_spawn_first_use` | fails | does first use always start the thread? Not after `recalibrate()` |
| `scale_newest_measurement` | fails | does a completed recalibration stay? Not against a slow first use |
| `scale_intel_mac` | fails | does the scale fit the counter on x86_64 macOS? No: TSC ticks, mach frequency |
| `ordered_unordered_end` | fails | is the drift of `elapsed_unordered` harmless? No: it wraps |

The five that fail are disagreements between the code and a sentence in its
documentation; `PROJECT.json` quotes each. In brief:

* `elapsed()` uses `wrapping_sub` (`src/instant.rs:48`). If the thread moved to
  a CPU whose counter is a few ticks behind, the result is near 2^64 ticks,
  where `std` and tach's own `duration_since` give zero. The same
  `wrapping_sub` is what makes `ElapsedExact` survive a counter wrap, so the
  two wishes are in conflict: a signed interpretation of the difference would
  serve both.
* `elapsed_unordered()` does the same for an instant published by another
  thread, with perfect counters: its read may execute before the load of the
  instant. `duration_since` saturates and is safe (`DurationNeverOverstates`).
* `nanos_per_tick_q32` starts the background thread on the slow path only, and
  stores what the caller measured unconditionally, however old.
* On x86_64 macOS the counter is the TSC and the frequency that of
  `mach_absolute_time`; `recalibrate` is a no-op there. The crate's README
  admits the same for Windows x86_64, which is therefore not among the builds.

A sixth disagreement has no run that fails, because the code's own count is
what the run `per_thread` checks. The comment on `measure_per_thread`
(`src/bench.rs:113`) says "count consecutive reads where `now() < previous`",
and `BENCHMARKS.md:204` "Reports backward jumps (`now() < previous_now()`)".
The code keeps `previous` when a read is below it (`src/bench.rs:132-140`), so
it counts all reads below the largest so far: of the reads 5, 3, 4 the
documents count one, the code two, and after one backward step of a
recalibration every read counts until the clock has caught up.
`ViolationsExact` states the number the code reports. `CoversConsecutiveDrops`
states what is left of the documented one: the report is zero in exactly the
same cases, which is all the published results rely on ("Expected 0 on every
modern clock"), and otherwise never smaller.

Smaller things met while modelling, without a run of their own: racing first
uses each convert with the scale they measured themselves
(`src/arch/mod.rs:45`), so two measurements need not be mutually consistent as
the crate's README has it; a calibration takes five windows of 10 ms and not
one (`src/calibration.rs:17`); `measure_cross_thread` also counts a value that
was published between a thread's read and its `fetch_max` (`src/bench.rs:195`),
which its comment excludes; the "median ppm" of `measure_skew` is that of the
sample taken in the middle of the run, since the samples are not sorted
(`src/bench.rs:304`); an x86 build for an OS that is not Unix, macOS or Windows
does not compile, as `calibration` needs `clock_monotonic` (`Compiles` in
`Platform`), although `recalibrate()` is said to work on embedded and SGX
targets.

### Bounds, and why they are enough

* *Instant*: 6-bit words with 2 fraction bits and 8 ns seconds; boot values 0
  and 52 with 12 ticks of time and a skew of 2, so that the counter wraps in
  some behaviours and not in others; scales below, at and above one nanosecond
  a tick; durations of 0, below and above a second, and one that does not fit
  into ticks; three operations, so that roundings add up and can cancel, and
  recalibrations before, between and after them. All seven properties of this run are also proved without bounds.
* *ScaleCache*: two clients suffice for each race of the code, which is between
  two writers or a writer and a reader; the background thread is a third.
  Frequencies 0, 4, 5 and the largest u64 give an error, two different scales,
  and the scale 0 that empties the cell. The builds
  have each kind of counter and of frequency source, and CPUID leaf 15h
  present, zeroed and absent. One requested
  interval (0, clamped to 1) besides the default gives a change of interval.
* *Calibration*: a window of 2 and samples of up to 4, so that each sample may
  be late by two at any read; three samples with a majority of two. The counter
  starts 3 ticks before its wrap.
* *CrossThread*: two workers with two iterations each on two CPUs a tick apart,
  one tick of time, a bracket of one nanosecond and scales of 1.5 and 5 ns a
  tick: a tick, a migration or a recalibration takes a read beyond the bracket,
  a worker is overtaken, there are violations in all three buckets, and some
  that exceed the bound without the term for recalibration.
* *OrderedRead*: one publisher that samples, moves and republishes, so that an
  older or moved-back stamp may replace a newer one (with two the state space
  leaves TLC's reach; the proofs are for any number); three ticks, moves of up
  to two, a skew of 0 or 1 per thread, and counters that start at 0 or two
  ticks before the wrap. Its four properties are also proved without bounds.
* *PerThread*: two CPUs two ticks apart, three scales, a budget polled every
  second iteration of a counter that wraps at four, and six reads: the counter
  wraps within a behaviour, and drops occur between neighbours and not.
* *SkewMeasure*: zero, one and three samples of a one-tick sleep in five ticks,
  two CPUs a tick apart and two scales: one sample of three may be late,
  migrated or recalibrated in the middle. The properties of both are also
  proved without bounds.

### Fairness

`ScaleCache`: weak fairness of the next step of each call under way, and of the
background thread: the OS runs runnable threads, and `thread::sleep` returns.
No fairness on starting a call. `Calibration`: weak fairness of the program and
of time (`CLOCK_MONOTONIC` advances). `CrossThread`: weak fairness of each
worker and of the main thread. The measurements of `PerThread` and
`SkewMeasure` are checked for safety only. Weak fairness is enough everywhere: no step is
disabled by others once enabled, except by the end of what it waits for.

Deadlock checking is off where the system really stops: a call that has
returned (`Calibration`), a report that is out (`CrossThread`, `PerThread`,
`SkewMeasure`), clients that
all panicked on a zero frequency (`ScaleCache`).

## Proofs

All proofs are checked by `tlapm` with Z3, Zenon and LS4.

* `Q32Proofs` (from `WidthAssumption` only): `ticks_to_duration` equals
  the saturated shift of the exact product on both of its branches; the scale
  of a nonzero frequency never saturates, and is nonzero up to 10^9 << 32 Hz;
  `tach_freq_hz` inverts the scale to within one part in it;
  the unchecked shift loses no bit; a round trip never gains time and loses
  less than a tick and a nanosecond; conversion is monotone. Multiplication
  of two variables is beyond the SMT solver, so a handful of lemmas on
  `\div` and `*` are stated once and cited.
* `InstantProofs` (from `InstantAssumption`): the inductive invariant is
  `TypeOK /\ SampleOK /\ NoSilentWrap /\ SteadyRounding /\ AnyRounding`. The
  last bounds the error of `point` at *every* scale between `MinScale` and
  `MaxScale`, not only the current one: a recalibration then preserves it
  without a case of its own, and `RoundingBounded` is the instance at `q`. `SampleOK` says that
  `start` is what the counter of `origin.cpu` showed at `origin.time`; without
  it nothing ties `start` to the age that `ElapsedExact`,
  `CrossCpuDurationBounded` and `DeadlineAgreesWithElapsed` speak of. Those
  three follow from the invariant in each state, by `WrappingDistance` (a
  wrapped difference is the distance), the division lemmas and monotonicity.
  `ElapsedDelimited` says what `elapsed()` is on every CPU, which draws the
  line the run `instant_elapsed_cross_cpu` crosses: what the counter shows, or,
  if it has not reached the sample yet, that much less than a whole word
  (`WrappingBehind`). `LongElapsedErrsBySkew` is what a client may take from
  it: intervals no shorter than the skew are measured to within the skew.
* `ScaleCacheProofs` (from `CacheAssumption`, any set of threads): the
  invariant adds who may be where (`PlacesOK`: clients never in the background
  thread's locations, nor it in theirs), that a register holds a frequency of
  the target before a store and a scale inside `ensure_thread`
  (`RegistersOK`), and that nobody is in
  the middle of a recalibration where there is none (`RecalibratesOK`). With it
  every step is shown to be a step of `ScaleRegister` or to leave it alone
  (`StepSimulation`), which gives `RefinesRegister`, for all u64 frequencies.
  `OnlyOverlargeEmpties` adds that a filled cell is emptied only by a process
  that stores a measurement above 10^9 << 32 Hz. `ScalesFit` assumes that
  the frequency a build reports is one of its counter, for which the run on
  Intel Macs shows the need; `BuildsFit` derives that from the `cfg` conditions
  (`CascadesAgree`, a case per counter) for all builds but x86 on macOS and
  Windows, given that registers and APIs report the truth about their own
  counter. Two theorems say when the statements refuted by
  `scale_spawn_first_use` and `scale_newest_measurement` do hold.
  `ThreadOnFirstUse`: unless a client's recalibration fills the *empty* cell
  before anyone reached the `OnceLock`.
  Its invariant `SpawnOK` follows a filled cell through the `OnceLock`.
  `NewestStaysUndisturbed`: unless a recalibration is published while another
  thread holds a measurement; its invariant is that nobody has been overtaken.
  Both hypotheses are conditions on the steps of a behaviour (`[][~...]_vars`).
* `CalibrationProofs` (from `CalibrationAssumption`): the invariant carries
  what the reads so far mean (`SampleOK`) through the steps of a sample; the
  estimate of a quiet sample is then accurate by `QuietEstimate`. The median
  argument counts: at least half of the samples are at or below the median and
  at least half at or above, so when fewer than half are disturbed a quiet one
  lies on each side, and accuracy is convex (`AccurateBetween`). `ScaleRobust`
  carries the accuracy of the frequency through the division to the scale
  (`ReciprocalBounds`), which is then neither 0 nor the quotient of a zero.
* `OrderedReadProofs` (from `OrderedAssumption`, any number of publishers): the
  invariant says that each stamp is what its thread's counter showed
  (`StampsOK`) and which instructions can have executed without which
  (`OrderOK`): a held-back counter read implies the barrier, the barrier the
  load, so the sample is not older than the observation, nor that than the
  loaded stamp. A moved stamp is its counter value plus the shift, outside the
  modulus, since `+=` and `-=` never wrap. `OrderedReadExact` then follows by
  `WrappingDistance`, `DeadlineSeen` from the order of load and read, and
  `DurationNeverOverstates` needs the stamps only. `DriftDelimited` gives the
  result of `elapsed` and `elapsed_unordered` for every order of execution: it
  is exact if the read came after the published moment and short of a word by
  the distance otherwise, which is all that `ordered_unordered_end` found.
* `CrossThreadProofs` (from `SourceAssumption` and `CrossThreadAssumption`): the
  invariant says that the shared maximum, and what a worker holds of it or has
  read, is at most what a counter `MaxSkew` ahead shows now at the largest
  scale so far (`AheadOK`). `r2`, read at the current scale, is at least what a
  counter without lead shows (`ReadingBounds`), and the filter keeps `r1` within
  the bracket of `r2`, which bounds the difference. The bounds only grow with
  time and when the scale changes (`EnvironmentInv`). The report needs a
  second part, `Totals`: each tally and the totals so far are `Consistent`, the
  totals of the joined workers and the reads of all add up. A sum is stated as
  the existence of running totals (`IsSum`) rather than recursively, so that
  adding one to a term, adding two sums and appending a term are lemmas about
  functions (`SumPlusOne`, `SumOfSums`, `SumAppended`). That running totals are
  unique, and that every violation has a bucket, is shown with the least
  counterexample (`LeastElement` in `Q32Proofs`, from the well-foundedness of `<`). The
  largest violation lies in the last bucket in use because `bucket_of` is
  monotone (`BucketMonotone`), through additions of tallies as well.
* `PerThreadProofs` (from `SourceAssumption` and `BudgetAssumption`): the
  invariant says that `previous` is the maximum of the reads so far, so that a
  read below it is exactly one below some earlier one; that it is no larger
  than the counters allow at the largest scale so far, while a new read is no
  smaller than they allow at the smallest, which bounds the drop; and that the iterations since the budget ran out are those since
  `budget_check` was last a multiple of the period, which a u32 keeps through
  its wrap because the period divides it. `DropsAreCounted` needs no more: a
  consecutive drop is a drop, and between a read and a larger one before it the
  first read below the larger is below its predecessor (`DropBetween`).
* `SkewProofs` (from `SourceAssumption` and `SkewAssumption`): the invariant
  carries what each read so far means through the steps of a sample (`InSample`)
  and where the loop is (`Progress`); a finished sample is explained by adding
  the bounds of its two readings. The median argument counts as in
  `CalibrationProofs`.

The proofs use the safety part of the specifications; where `Spec` has
fairness it is not used.

### Only model-checked

Liveness (`CallsReturn`, `KeepsRecalibrating`, `IntervalTakesEffect`,
`Terminates`, `AlwaysReports`), which is beyond the prover, and the five
refuted statements. Every invariant and every safety property of the passing
runs is a theorem.

## Not modelled

* `src/arch/wasm.rs` rounds a float of milliseconds to nanoseconds, and the
  `Timespec` of `src/arch/fallback.rs` has the layout of 64-bit targets: both
  are below the level of the models, which take the clocks as clocks.
* A failing `clock_gettime` (the release build then reads 0 and the spin loop
  does not end).
* The scale 0 outside `ScaleCache`. There it is modelled: an overlarge
  measurement empties the cell, is returned to the caller that made it, and the
  next use measures again. `Instant`, `OrderedRead` and `ClockSource` take the
  scale to be nonzero: the caller that gets 0 converts every interval to zero.
  `ScaleAccurate` shows that a calibration with a majority of undisturbed
  samples never yields such a measurement.
* A `thread::spawn` that fails in `measure_cross_thread`.
* `skew_ppm` and the other floats of the reports.
* `tach_used_cpuid_15h`, adapters to other clock crates, host information,
  JSON, SVG and shell: I/O without state.
* Hashing, ordering and formatting of instants, which are derived.

## Plan

The state of every component that keeps any is modelled, and every safety
property of the passing runs is proved. What is left is the scale 0 in the
state machines of `Instant` and of the benches' clocks: there every interval is
converted to zero and `checked_add` returns `None` (`duration_to_ticks` in
`Q32` has that branch) until the next use measures again.

------------------------------ MODULE Instant ------------------------------
(***************************************************************************)
(* A client of tach::Instant (src/src/instant.rs): it samples a start      *)
(* instant on some CPU, moves a derived instant (a deadline) with += and   *)
(* -= durations, and may at any moment ask for elapsed() or                *)
(* duration_since() on any CPU, while the counter runs and the scale is    *)
(* recalibrated under it. OrderedInstant repeats these definitions for its *)
(* own type; only its counter read differs.                                *)
(*                                                                         *)
(* The functions that only read are operators; the properties ask about    *)
(* their results in every reachable state. time, origin, offset, owed, moved, ops *)
(* and steady are history variables: the code has no such state.           *)
(***************************************************************************)
EXTENDS Q32

CONSTANTS
  CPUs,       \* CPUs the client may run on
  Skew,       \* [CPUs -> Nat]: by how many ticks a CPU's counter is ahead
  MaxSkew,    \* bound of Skew
  Boots,      \* counter values at the start of the behaviour
  Scales,     \* scales calibration may publish
  MinScale,   \* the smallest
  MaxScale,   \* and the largest of them
  Durations,  \* durations the client adds and subtracts
  MaxTime,    \* bound: length of a behaviour in ticks
  MaxOps      \* bound: += and -= between two samples

ASSUME InstantAssumption ==
  /\ MaxSkew \in Nat
  /\ Skew \in [CPUs -> 0 .. MaxSkew]
  /\ Boots \subseteq Word
  /\ MinScale \in Nat /\ MaxScale \in Nat
  /\ Scales \subseteq {s \in Word \ {0} : MinScale <= s /\ s <= MaxScale}
  /\ Durations \subseteq Duration
  /\ MaxTime \in Nat
  /\ MaxOps \in Nat

VARIABLES
  boot,    \* counter value at time 0
  time,    \* ticks since then
  q,       \* NANOS_PER_TICK_Q32, already initialised
  start,   \* the instant last sampled
  origin,  \* [time, cpu] of that sample
  point,   \* the instant derived from start
  offset,  \* sum of the tick counts added to start to get point
  owed,    \* sum of the nanoseconds the client asked to add
  moved,   \* sum of the tick counts added and subtracted, without sign
  ops,     \* number of += and -= since the sample
  steady   \* no recalibration since the sample

vars == <<boot, time, q, start, origin, point, offset, owed, moved, ops, steady>>

----------------------------------------------------------------------------
(* The Instant API *)

\* The counter of CPU c: one 64-bit register, free running.
ticks(c) == (boot + time + Skew[c]) % WordMod

now(c) == ticks(c)

mutant_elapsed(i, c) ==
  LET delta == u64_checked_sub(ticks(c), i)
  IN  ticks_to_duration(IF delta = None THEN 0 ELSE delta, q)

elapsed(i, c) == ticks_to_duration(wrapping_sub(ticks(c), i), q)

mutant_checked_duration_since(i, earlier) ==
  ticks_to_duration(wrapping_sub(i, earlier), q)

checked_duration_since(i, earlier) ==
  LET delta == u64_checked_sub(i, earlier)
  IN  IF delta = None THEN None ELSE ticks_to_duration(delta, q)

duration_since(i, earlier) == unwrap_or_default(checked_duration_since(i, earlier))

\* The sum without its overflow check, and with a wrapping one.
mutant_checked_add(i, d) ==
  LET delta == duration_to_ticks(d, q)
  IN  IF delta = None THEN None ELSE i + delta

mutant_wrapping_add(i, d) ==
  LET delta == duration_to_ticks(d, q)
  IN  IF delta = None THEN None ELSE (i + delta) % WordMod

checked_add(i, d) ==
  LET delta == duration_to_ticks(d, q)
  IN  IF delta = None THEN None ELSE u64_checked_add(i, delta)

checked_sub(i, d) ==
  LET delta == duration_to_ticks(d, q)
  IN  IF delta = None THEN None ELSE u64_checked_sub(i, delta)

----------------------------------------------------------------------------
(* The client *)

Init ==
  /\ boot \in Boots
  /\ time = 0
  /\ q \in Scales
  /\ \E c \in CPUs : start = ticks(c) /\ origin = [time |-> 0, cpu |-> c]
  /\ point = start
  /\ offset = 0 /\ owed = 0 /\ moved = 0 /\ ops = 0
  /\ steady = TRUE

Tick ==
  /\ time < MaxTime
  /\ time' = time + 1
  /\ UNCHANGED <<boot, q, start, origin, point, offset, owed, moved, ops, steady>>

\* Instant::recalibrate by any thread, seen from here as a new scale.
Recalibrate ==
  /\ q' \in Scales
  /\ steady' = FALSE
  /\ UNCHANGED <<boot, time, start, origin, point, offset, owed, moved, ops>>

Now(c) ==
  /\ start' = now(c)
  /\ origin' = [time |-> time, cpu |-> c]
  /\ point' = start'
  /\ offset' = 0 /\ owed' = 0 /\ moved' = 0 /\ ops' = 0
  /\ steady' = TRUE
  /\ UNCHANGED <<boot, time, q>>

\* point += d. On None the operator panics and leaves point as it was.
AddAssign(d) ==
  /\ ops < MaxOps
  /\ checked_add(point, d) # None
  /\ point' = checked_add(point, d)
  /\ offset' = offset + duration_to_ticks(d, q)
  /\ owed' = owed + as_nanos(d)
  /\ moved' = moved + duration_to_ticks(d, q)
  /\ ops' = ops + 1
  /\ UNCHANGED <<boot, time, q, start, origin, steady>>

\* point -= d.
SubAssign(d) ==
  /\ ops < MaxOps
  /\ checked_sub(point, d) # None
  /\ point' = checked_sub(point, d)
  /\ offset' = offset - duration_to_ticks(d, q)
  /\ owed' = owed - as_nanos(d)
  /\ moved' = moved + duration_to_ticks(d, q)
  /\ ops' = ops + 1
  /\ UNCHANGED <<boot, time, q, start, origin, steady>>

Next ==
  \/ Tick
  \/ Recalibrate
  \/ \E c \in CPUs : Now(c)
  \/ \E d \in Durations : AddAssign(d) \/ SubAssign(d)

Spec == Init /\ [][Next]_vars

----------------------------------------------------------------------------
(* Properties *)

\* Instants stay u64 values and the scale a nonzero one.
TypeOK ==
  /\ boot \in Word
  /\ time \in 0 .. MaxTime
  /\ q \in Scales
  /\ start \in Word
  /\ origin \in [time : 0 .. MaxTime, cpu : CPUs]
  /\ point \in Word
  /\ offset \in Int
  /\ owed \in Int
  /\ moved \in Nat
  /\ ops \in 0 .. MaxOps
  /\ steady \in BOOLEAN

\* Ticks that really passed since the sample.
age == time - origin.time

\* No CPU's counter has wrapped.
NoWrap == boot + time + MaxSkew < WordMod

\* Result nanoseconds for an interval of n >= 0 ticks, unless saturated.
Nanos(n) == saturate((n * q) \div QOne)

\* Whatever sequence of += and -= ran, and whatever recalibrations came
\* between, point is start plus the exact sum of the tick counts: instant.rs
\* checked_add and checked_sub never wrap around u64.
NoSilentWrap == point = start + offset

\* elapsed() on the CPU that took the sample reports exactly the ticks that
\* passed, converted at the current scale, even when the counter wrapped in
\* between: that is what wrapping_sub (instant.rs:48) is for.
ElapsedExact ==
  age < WordMod => as_nanos(elapsed(start, origin.cpu)) = Nanos(age)

\* duration_since between samples of two CPUs is wrong by their skew at most,
\* also when the later sample has the smaller value (instant.rs:58).
CrossCpuDurationBounded ==
  NoWrap => \A c \in CPUs :
    LET n == as_nanos(duration_since(now(c), start))
    IN  /\ n <= Nanos(age + MaxSkew)
        /\ age >= MaxSkew => n >= Nanos(age - MaxSkew)

\* elapsed() on any CPU errs by the skew at most once the interval is as long
\* as the skew, even across a counter wrap (instant.rs:48).
CrossCpuElapsedBounded ==
  (age >= MaxSkew /\ age + MaxSkew < WordMod) => \A c \in CPUs :
    LET n == as_nanos(elapsed(start, c))
    IN  Nanos(age - MaxSkew) <= n /\ n <= Nanos(age + MaxSkew)

\* What += and -= may misplace point by, in Q32 nanoseconds of the current
\* scale: duration_to_ticks truncates by less than a tick each time, and a
\* change of scale since then counts for every tick moved.
slack ==
  IF steady THEN ops * q ELSE ops * MaxScale + moved * (MaxScale - MinScale)

\* Whatever operations and recalibrations came between, point is where the
\* nanoseconds asked for would put it, to within a tick an operation and the
\* change of scale over the ticks moved: truncations add up (instant.rs:363),
\* but a recalibration does not compound with them, nor with another one.
RoundingBounded ==
  /\ owed * QOne - offset * q <= slack
  /\ offset * q - owed * QOne <= slack

\* The two ways to write a timeout agree: reaching the deadline
\* start + owed (now() >= point) and seeing elapsed() >= owed happen within
\* that slack and one nanosecond of each other, on the CPU of the sample, also
\* when the deadline was computed at another scale than elapsed() converts at.
DeadlineAgreesWithElapsed ==
  LET c == origin.cpu
      e == as_nanos(elapsed(start, c))
  IN  (NoWrap /\ e < WordMod - 1) =>
        /\ now(c) >= point => owed * QOne < e * QOne + QOne + slack
        /\ now(c) < point => e * QOne < owed * QOne + slack

\* The property duration_since has, asked of elapsed(): called on another
\* CPU than the sample's it is wrong by the skew at most.
ElapsedErrsBySkewOnly ==
  NoWrap => \A c \in CPUs : as_nanos(elapsed(start, c)) <= Nanos(age + MaxSkew)
============================================================================

---------------------------- MODULE ClockSource ----------------------------
(***************************************************************************)
(* A clock under test of the benches (trait ClockSource in                 *)
(* src/src/bench.rs), for the three that read tach: nanoseconds since an   *)
(* anchor that the process takes once and keeps, converted at whatever     *)
(* scale is current. The measurements PerThread, CrossThread and           *)
(* SkewMeasure extend this module.                                         *)
(*                                                                         *)
(* time counts ticks since the anchor was taken. Each read of the counter  *)
(* may be made on any CPU, the thread being moved between two reads.       *)
(***************************************************************************)
EXTENDS Q32

CONSTANTS
  CPUs,       \* CPUs the measuring threads may run on
  Skew,       \* [CPUs -> Nat]: by how many ticks a CPU's counter is ahead
  MaxSkew,    \* bound of Skew
  TrueScale,  \* nanoseconds a tick really lasts, in Q32
  Scales,     \* scales calibration may publish
  MaxErr,     \* by how much those differ from TrueScale
  MaxTime     \* bound: length of a behaviour in ticks

MaxScale == TrueScale + MaxErr

\* The counters do not wrap and the readings do not saturate: both take more
\* than a century.
ASSUME SourceAssumption ==
  /\ MaxSkew \in Nat
  /\ Skew \in [CPUs -> 0 .. MaxSkew]
  /\ TrueScale \in Nat
  /\ MaxErr \in Nat
  /\ Scales \subseteq {s \in Word \ {0} : TrueScale - MaxErr <= s /\ s <= MaxScale}
  /\ MaxTime \in Nat
  /\ MaxTime + MaxSkew < WordMod
  /\ (MaxTime + MaxSkew) * MaxScale < WordMod * QOne

VARIABLES
  time,    \* ticks since the anchor was taken
  anchor,  \* TACH_ANCHOR: the counter's value then
  q        \* NANOS_PER_TICK_Q32

source == <<time, anchor, q>>

ticks(c) == time + Skew[c]

\* The difference to the anchor taken without saturation.
mutant_now_as_u64(c) ==
  as_nanos(ticks_to_duration(wrapping_sub(ticks(c), anchor), q))

\* saturating_duration_since(anchor) in nanoseconds: 0 on a CPU that is still
\* behind the anchor.
now_as_u64(c) ==
  LET delta == u64_checked_sub(ticks(c), anchor)
  IN  IF delta = None THEN 0 ELSE as_nanos(ticks_to_duration(delta, q))

\* init_anchor, for the first measurement of this clock. The driver has
\* filled the scale cache before (tach_freq_hz).
init_anchor ==
  /\ time = 0
  /\ \E c \in CPUs : anchor = ticks(c)
  /\ q \in Scales

SourceTypeOK ==
  /\ time \in 0 .. MaxTime
  /\ anchor \in 0 .. MaxSkew
  /\ q \in Scales
============================================================================

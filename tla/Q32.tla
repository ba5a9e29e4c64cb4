-------------------------------- MODULE Q32 --------------------------------
(***************************************************************************)
(* Integer arithmetic of tach: the Q32 fixed-point scale, the conversion   *)
(* between counter ticks and core::time::Duration, and the u64 operations  *)
(* the Instant API is built from (src/src/instant.rs, src/src/arch/mod.rs).*)
(*                                                                         *)
(* The widths are parameters, so that TLC can use small ones and the       *)
(* theorems of Q32Proofs hold for the real ones:                           *)
(*   WordMod = 2^64, QOne = 2^32, NanosPerSecond = 10^9.                   *)
(***************************************************************************)
EXTENDS Integers

CONSTANTS
  WordMod,         \* u64 values are 0 .. WordMod - 1
  QOne,            \* 1.0 in the fixed-point format: 2^32
  NanosPerSecond,  \* 1_000_000_000
  None             \* Option::None

\* The one fact about the widths the code relies on: 10^9 << 32 fits a u64.
ASSUME WidthAssumption ==
  /\ WordMod \in Nat
  /\ QOne \in Nat \ {0}
  /\ NanosPerSecond \in Nat \ {0}
  /\ NanosPerSecond * QOne < WordMod

Word == 0 .. (WordMod - 1)

\* u128: the type of the intermediate products.
WideMod == WordMod * WordMod

NANOS_PER_SECOND_Q32 == NanosPerSecond * QOne

----------------------------------------------------------------------------
(* core::time::Duration *)

Duration == [secs : Word, nanos : 0 .. (NanosPerSecond - 1)]

ASSUME NoneAssumption == None \notin Nat /\ None \notin Duration

as_nanos(d) == d.secs * NanosPerSecond + d.nanos

from_nanos(n) == [secs |-> n \div NanosPerSecond, nanos |-> n % NanosPerSecond]

Zero == [secs |-> 0, nanos |-> 0]

\* Option::unwrap_or_default at type Duration.
unwrap_or_default(o) == IF o = None THEN Zero ELSE o

----------------------------------------------------------------------------
(* u64 arithmetic *)

wrapping_sub(a, b) == (a - b + WordMod) % WordMod

u64_checked_sub(a, b) == IF a >= b THEN a - b ELSE None

u64_checked_add(a, b) == IF a + b < WordMod THEN a + b ELSE None

\* u64::try_from(x).unwrap_or(u64::MAX)
saturate(x) == IF x < WordMod THEN x ELSE WordMod - 1

----------------------------------------------------------------------------
(* The scale and the two conversions *)

\* Shifted after the division.
mutant_scale_of(freq) == saturate((NanosPerSecond \div freq) * QOne)

\* nanos_per_tick_q32 and recalibrate derive the scale from a nonzero
\* frequency with this expression; u128 division by zero panics.
scale_of(freq) == saturate(NANOS_PER_SECOND_Q32 \div freq)

\* The frequency a scale stands for, as the benches report it.
tach_freq_hz(q32) ==
  LET hz == NANOS_PER_SECOND_Q32 \div q32
  IN  IF q32 = 0 \/ hz >= WordMod THEN 0 ELSE hz

\* The product computed in 64 bits.
mutant_ticks_to_duration(ticks, q32) ==
  from_nanos(((ticks * q32) % WordMod) \div QOne)

\* The product is a u128 and cannot overflow it. Short durations skip the
\* division of Duration::from_nanos.
ticks_to_duration(ticks, q32) ==
  LET nanos == saturate((ticks * q32) \div QOne)
  IN  IF nanos < NanosPerSecond THEN [secs |-> 0, nanos |-> nanos]
                                ELSE from_nanos(nanos)

\* Whole seconds only: as_secs() for as_nanos().
mutant_duration_to_ticks(d, q32) ==
  LET ticks == (d.secs * NanosPerSecond * QOne) \div q32
  IN  IF q32 = 0 THEN None
      ELSE IF ticks < WordMod THEN ticks ELSE None

\* u128::checked_shl checks the shift amount only: bits shifted out of the
\* word are lost, hence the reduction modulo WideMod.
duration_to_ticks(d, q32) ==
  LET shifted == (as_nanos(d) * QOne) % WideMod
      ticks   == shifted \div q32
  IN  IF q32 = 0 THEN None
      ELSE IF ticks < WordMod THEN ticks ELSE None
============================================================================

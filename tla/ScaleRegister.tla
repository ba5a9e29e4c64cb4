--------------------------- MODULE ScaleRegister ---------------------------
(***************************************************************************)
(* What the scale cache promises its callers: a register that serves only  *)
(* when it is filled, is written by a caller only if that caller found it  *)
(* empty, and otherwise changes only by recalibration, on the targets that *)
(* have it. Writing 0 empties it: it never becomes empty again on a target *)
(* where no measurement leads to the scale 0.                              *)
(***************************************************************************)
EXTENDS Naturals

CONSTANTS
  Threads,  \* callers
  None      \* no scale

VARIABLES
  value,         \* the register; 0 means "empty"
  got,           \* got[t]: the scale thread t was last given, None if none yet
  missed,        \* callers that found it empty and are not done yet
  scales,        \* scales a measurement on this target can lead to
  recalibrates   \* the target has a recalibration that does something

vars == <<value, got, missed, scales, recalibrates>>

Init ==
  /\ value = 0
  /\ got = [t \in Threads |-> None]
  /\ missed = {}
  /\ scales \subseteq Nat
  /\ recalibrates \in BOOLEAN

\* A caller finds the register filled.
Serve(t) ==
  /\ value # 0
  /\ t \notin missed
  /\ got' = [got EXCEPT ![t] = value]
  /\ UNCHANGED <<value, missed, scales, recalibrates>>

\* A caller finds it empty.
Miss(t) ==
  /\ value = 0
  /\ missed' = missed \cup {t}
  /\ UNCHANGED <<value, got, scales, recalibrates>>

\* It fills the register, or overwrites what is there by then, and is given
\* the scale it wrote, which is 0 after an overlarge measurement.
Initialise(t) ==
  /\ t \in missed
  /\ value' \in scales
  /\ got' = [got EXCEPT ![t] = value']
  /\ missed' = missed \ {t}
  /\ UNCHANGED <<scales, recalibrates>>

\* It has no frequency to fill it from.
Fail(t) ==
  /\ t \in missed
  /\ missed' = missed \ {t}
  /\ UNCHANGED <<value, got, scales, recalibrates>>

Replace ==
  /\ recalibrates
  /\ value' \in scales
  /\ UNCHANGED <<got, missed, scales, recalibrates>>

Next ==
  \/ \E t \in Threads : Serve(t) \/ Miss(t) \/ Initialise(t) \/ Fail(t)
  \/ Replace

Spec == Init /\ [][Next]_vars
============================================================================

----------------------------- MODULE MCInstant -----------------------------
(* Instant with 6-bit words, 2 fraction bits and 8 nanoseconds a second.   *)
EXTENDS Instant, TLC

CONSTANTS c1, c2

MCSkew == c1 :> 0 @@ c2 :> 2

\* 0, 3 ns, one second (8 ns), 1.625 s, and one too long for 6-bit ticks.
MCDurations ==
  {from_nanos(n) : n \in {0, 3, 8, 13}} \cup {[secs |-> 9, nanos |-> 7]}
============================================================================

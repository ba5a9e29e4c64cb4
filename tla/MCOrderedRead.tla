--------------------------- MODULE MCOrderedRead ---------------------------
(* OrderedRead with a publisher that moves and republishes its instant, on *)
(* every architecture.                                                     *)
EXTENDS OrderedRead

\* Three nanoseconds are two ticks.
MCDurations == {[secs |-> 0, nanos |-> 3]}
============================================================================

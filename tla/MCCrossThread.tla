--------------------------- MODULE MCCrossThread ---------------------------
(* CrossThread with two workers, on two CPUs of which one is ahead by one  *)
(* tick, and three histogram buckets.                                      *)
EXTENDS CrossThread, TLC

CONSTANTS c1, c2

MCSkew == c1 :> 0 @@ c2 :> 1

MCBuckets == <<1, 4>>
============================================================================

---------------------------- MODULE MCPerThread ----------------------------
(* PerThread on two CPUs, one of them ahead by 2 ticks. *)
EXTENDS PerThread, TLC

CONSTANTS c1, c2

MCSkew == c1 :> 0 @@ c2 :> 2
============================================================================

------------------------------- MODULE MCSkew -------------------------------
(* SkewMeasure on two CPUs, one of them ahead by a tick. *)
EXTENDS SkewMeasure, TLC

CONSTANTS c1, c2

MCOffset == c1 :> 0 @@ c2 :> 1
============================================================================

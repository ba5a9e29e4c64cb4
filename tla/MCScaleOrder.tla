---------------------------- MODULE MCScaleOrder ----------------------------
(* ScaleOrder on a target that calibrates and recalibrates.                *)
EXTENDS ScaleOrder

MCTargets ==
  {[exact |-> None, rates |-> {0, 4, 5}, recalibrates |-> TRUE, background |-> FALSE]}
============================================================================

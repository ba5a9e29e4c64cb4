--------------------------- MODULE MCCalibration ---------------------------
(* Calibration with a counter that wraps during the first sample.          *)
EXTENDS Calibration
============================================================================

---------------------------- MODULE MCPulseState ----------------------------
(***************************************************************************)
(* Instances of PulseState: readings on both sides of the sharp window     *)
(* {0}, far enough apart to be a significant rise, a significant fall, and *)
(* an insignificant change.                                                *)
(***************************************************************************)
EXTENDS PulseState

StepReadings == -3 .. 1

\* The lower end of the shipped linear_clamp [-20, 0] Hz in units of 5 Hz.
LinearClampLo == -4
=============================================================================

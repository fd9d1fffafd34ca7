------------------------------ MODULE MCTuner -------------------------------
(***************************************************************************)
(* Tuner for TLC: two spoke lengths, whose ranges of frequencies overlap,   *)
(* sliders of three and four positions that meet at TENSION_AVG, where the *)
(* range is empty, and frames of up to two correlation peaks.              *)
(***************************************************************************)
EXTENDS Tuner

MCStiffness == <<2, 5>>
=============================================================================

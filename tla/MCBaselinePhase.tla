---------------------------- MODULE MCBaselinePhase ----------------------------
(* Two levels, one run of each, beside a monitor of two GPUs. *)
EXTENDS BaselinePhase
MCLevels == <<1, 2>>
=============================================================================

----------------------------- MODULE MCSchedules ----------------------------
(***************************************************************************)
(* Instance of Schedules for TLC: a schedule that runs once and one with   *)
(* an interval.                                                            *)
(***************************************************************************)
EXTENDS Schedules, TLC

WorkerSymmetry == Permutations(Workers)

=============================================================================

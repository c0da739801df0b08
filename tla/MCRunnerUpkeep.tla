--------------------------- MODULE MCRunnerUpkeep ---------------------------
(* The spans of days are scaled down from 30, 15, 1 and 3.                   *)
EXTENDS RunnerUpkeep
=============================================================================

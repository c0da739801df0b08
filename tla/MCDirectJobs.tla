---------------------------- MODULE MCDirectJobs ----------------------------
(***************************************************************************)
(* Instance of DirectJobs for TLC.  MaxJobs Jobs of one Project; the names *)
(* of signatures and runners are model values.                             *)
(***************************************************************************)
EXTENDS DirectJobs, TLC

Names == Permutations(Signatures)

=============================================================================

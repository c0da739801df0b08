---------------------------- MODULE MCGovernance ----------------------------
(* Three people; what an edit makes of the Project, and what its repository  *)
(* is at, are interchangeable.                                               *)
EXTENDS Governance, TLC

CONSTANTS ann, bob, cay, plain, edited, old, new

Interchangeable == Permutations(Configs) \cup Permutations(Commits)
=============================================================================

---------------------------- MODULE MCSlicedJob -----------------------------
(***************************************************************************)
(* Instances of SlicedJob for TLC.  Each cfg file picks a workflow, a plan *)
(* of slices and the disturbances; the names say which belong together.    *)
(***************************************************************************)
EXTENDS SlicedJobInvariants, TLC

CONSTANTS a, b, c, d, e, r1, t1, t2, t3

\* Branch: step 2 follows the success of step 1, step 3 its failure, and step 4,
\* to which a rerun left no host, the success of step 1 as well.
BranchDeps == 1 :> {} @@ 2 :> {1} @@ 3 :> {1} @@ 4 :> {1}
BranchStepOf == a :> 1 @@ b :> 1 @@ c :> 2 @@ d :> 3 @@ e :> 4
BranchTarget == a :> r1 @@ b :> Local @@ c :> r1 @@ d :> Local @@ e :> Local

\* A remote runner and the local one share the first step of a chain.
PairDeps == 1 :> {} @@ 2 :> {1}
PairStepOf == a :> 1 @@ b :> 1 @@ c :> 2
PairTarget == a :> r1 @@ b :> Local @@ c :> r1

\* Refresh: step 1, which a boundary follows, refreshes the inventory of step 2
\* and, through it, of the failure branch 3; the slice d comes into being by a
\* replan only, and e is a slice of step 1 that a rerun left without hosts.
RefreshDeps == 1 :> {} @@ 2 :> {1} @@ 3 :> {2}
RefreshStepOf == a :> 1 @@ b :> 2 @@ c :> 3 @@ d :> 2 @@ e :> 1
RefreshTarget == a :> r1 @@ b :> r1 @@ c :> Local @@ d :> Local @@ e :> r1

TokenSymmetry == Permutations(Tokens)

=============================================================================

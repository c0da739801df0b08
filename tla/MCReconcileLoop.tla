-------------------------- MODULE MCReconcileLoop ---------------------------
(***************************************************************************)
(* Instance of ReconcileLoop for TLC: all workflows of three steps, the    *)
(* first without slices, the second with one, the third with two.  Only    *)
(* the first may depend on a step that the Job does not have.              *)
(***************************************************************************)
EXTENDS ReconcileLoop, TLC

CONSTANTS b, c, d

LoopMayName == [s \in Positions |-> IF s = 1 THEN Positions \cup {9} ELSE Positions]
LoopStepOf == b :> 2 @@ c :> 3 @@ d :> 3

=============================================================================

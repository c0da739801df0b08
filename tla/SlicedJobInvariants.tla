------------------------- MODULE SlicedJobInvariants -------------------------
(***************************************************************************)
(* Inductive invariants of tokens, workers and playbook starts, behind     *)
(* StartedAtMostOnce and TokenMeansAssigned, and of what heartbeats tell,  *)
(* behind LiveWorkIsSpared.  SlicedJobProofs proves them for all           *)
(* constants.  The invariants that concern the rows alone are in JobRows.  *)
(***************************************************************************)
EXTENDS SlicedJob

\* A token that names an active assignment was issued for that slice.
TokenNamesItsSlice ==
    \A x \in Slices : token[x] # NoToken =>
        work[token[x]] # "free" /\ workSlice[token[x]] = x

\* A worker that has not started its playbook holds an assigned slice or a
\* token that is no longer valid.
UnstartedIsAssigned ==
    \A x \in Slices :
        /\ token[x] # NoToken
        /\ work[token[x]] \in {"preparing", "held"}
        => slice[x] = "assigned"

\* What can still be handed out or started was never started before.
FreshWhileStartable ==
    \A x \in Slices :
        slice[x] \in {"pending", "assigned", "absent"} => starts[x] = 0

IssuedTokensHaveSlices ==
    \A t \in Tokens : work[t] # "free" => workSlice[t] \in Slices

StartInv ==
    /\ IssuedTokensHaveSlices
    /\ TokenNamesItsSlice
    /\ UnstartedIsAssigned
    /\ FreshWhileStartable
    /\ TokenMeansAssigned
    /\ StartedAtMostOnce

-----------------------------------------------------------------------------
(* Behind LiveWorkIsSpared: what the server has heard of a worker.         *)

RemoteAssignments ==
    /\ \A t \in Tokens : work[t] # "free" => Target[workSlice[t]] # Local
    /\ local \in Slices => Target[local] = Local

\* The slice of an answer to a claim that has not arrived yet is not running,
\* and if it is assigned, then by that answer.
PreparedSlicesWait ==
    \A t \in Tokens : work[t] = "preparing" =>
        /\ slice[workSlice[t]] # "running"
        /\ slice[workSlice[t]] = "assigned" => token[workSlice[t]] = t

\* A worker that executes was counted by the last heartbeat of its runner
\* unless that came before the start of the slice.
ExecutionIsReported ==
    \A t \in Tokens : work[t] = "executing" =>
        workSlice[t] \in justStarted \/ reported[Target[workSlice[t]]] > 0

\* A runner that was heard of since the Job was asked to stop expects no answer
\* to a claim and has counted all that it holds.
StopFindsAllCounted ==
    job = "cancelling" =>
        \A t \in Tokens : work[t] # "free" /\ Target[workSlice[t]] \notin silent =>
            /\ work[t] # "preparing"
            /\ work[t] \in {"held", "executing"} => reported[Target[workSlice[t]]] > 0

SpareInv ==
    /\ RemoteAssignments
    /\ PreparedSlicesWait
    /\ ExecutionIsReported
    /\ StopFindsAllCounted

\* The slices of issued tokens belong to steps that have left "pending".
IssuedSlicesOfBegunSteps ==
    \A t \in Tokens : work[t] # "free" => step[StepOf[workSlice[t]]] # "pending"

=============================================================================

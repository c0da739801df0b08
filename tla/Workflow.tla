------------------------------ MODULE Workflow ------------------------------
(***************************************************************************)
(* The workflow rules of a Journeyman Job: which JobStep may run, which is *)
(* blocked or skipped by its dependencies, what the execution slices of a  *)
(* step add up to, when a Job pauses for Oversight and how it ends.        *)
(*                                                                         *)
(* These are pure operators on the status columns: st maps every step      *)
(* position to its status, ss every execution slice to its status.  They   *)
(* are used by JobRows (the transactions) and compared with the loop of    *)
(* the code by ReconcileLoop.                                              *)
(***************************************************************************)
EXTENDS Naturals

CONSTANTS
    Steps,           \* positions of the Job's steps
    Deps,            \* depends_on_json: step -> positions it depends on
    FailureOnly,     \* steps with failure_only set
    OversightAfter,  \* steps with oversight_after set in the Project
    Slices,          \* identities of execution-slice rows
    StepOf,          \* slice -> the step it belongs to
    ZeroHost         \* slices that a failed-hosts rerun left without hosts

ASSUME WorkflowAssumption ==
    /\ Steps \subseteq Nat
    /\ Deps \in [Steps -> SUBSET Nat]
    /\ FailureOnly \subseteq Steps
    /\ OversightAfter \subseteq Steps
    /\ StepOf \in [Slices -> Steps]
    /\ ZeroHost \subseteq Slices

\* Projects whose step dependencies contain a cycle are refused before a Job
\* is queued: every set of steps has one that depends on no other of the set.
ASSUME AcyclicAssumption ==
    \A S \in SUBSET Steps : S # {} => \E s \in S : Deps[s] \cap S = {}

TerminalJobStatuses == {"successful", "failed", "cancelled"}
JobStatuses ==
    {"queued", "running", "waiting_oversight", "cancelling"}
        \cup TerminalJobStatuses

TerminalStepStatuses ==
    {"successful", "failed", "cancelled", "blocked", "skipped"}
StepStatuses == {"pending", "running"} \cup TerminalStepStatuses

FinalSliceStatuses == {"successful", "failed", "cancelled"}
LiveSliceStatuses == {"pending", "assigned", "running"}
\* "absent" stands for a row that does not exist (yet, or after a replan).
SliceStatuses ==
    LiveSliceStatuses \cup FinalSliceStatuses
        \cup {"blocked", "skipped", "absent"}

-----------------------------------------------------------------------------
(* Dependencies: dependency_state and reconcile_non_runnable_steps.        *)

DependencyState(s, st) ==
    IF ~(Deps[s] \subseteq Steps) THEN "blocked"
    ELSE IF Deps[s] = {} THEN IF s \in FailureOnly THEN "skipped" ELSE "eligible"
    ELSE IF \E d \in Deps[s] : st[d] \notin TerminalStepStatuses THEN "waiting"
    ELSE IF s \in FailureOnly
         THEN IF \E d \in Deps[s] : st[d] = "failed" THEN "eligible" ELSE "skipped"
         ELSE IF \A d \in Deps[s] : st[d] = "successful" THEN "eligible" ELSE "blocked"

SlicesOf(s, ss) == {x \in Slices : StepOf[x] = s /\ ss[x] # "absent"}

\* A step of a failed-hosts rerun none of whose slices has a host left.
NoOpStep(s, ss) ==
    /\ SlicesOf(s, ss) # {}
    /\ \A x \in SlicesOf(s, ss) : x \in ZeroHost /\ ss[x] = "successful"

\* Mutant: a no-op does not wait for its dependencies.
PendingStepBecomes_NoOpFirst(s, st, ss) ==
    LET state == DependencyState(s, st) IN
    IF state \in {"blocked", "skipped"} THEN state
    ELSE IF NoOpStep(s, ss) THEN "successful"
    ELSE "pending"

\* What a pending step turns into when the statuses of the others are st.
PendingStepBecomes(s, st, ss) ==
    LET state == DependencyState(s, st) IN
    IF state \in {"blocked", "skipped"} THEN state
    ELSE IF state = "eligible" /\ NoOpStep(s, ss) THEN "successful"
    ELSE "pending"

\* The fixpoint that the loop of reconcile_non_runnable_steps stops at: every
\* step that was pending has become what the final statuses make of it.
Reconciles(st, ss, final) ==
    \A s \in Steps :
        final[s] = IF st[s] = "pending"
                   THEN PendingStepBecomes(s, final, ss)
                   ELSE st[s]

\* The candidates for that fixpoint: only pending steps may change.
Reconcilings(st) ==
    {[s \in Steps |-> IF st[s] = "pending" THEN f[s] ELSE st[s]] :
        f \in [{s \in Steps : st[s] = "pending"} ->
                    {"pending", "blocked", "skipped", "successful"}]}

\* Mutant: the step changes, its slices stay claimable.
SlicesFollow_StepOnly(st, final, ss) == ss

\* The pending slices of a step that was blocked or skipped follow it.
SlicesFollow(st, final, ss) ==
    [x \in Slices |->
        IF /\ st[StepOf[x]] = "pending"
           /\ final[StepOf[x]] \in {"blocked", "skipped"}
           /\ ss[x] = "pending"
        THEN final[StepOf[x]]
        ELSE ss[x]]

-----------------------------------------------------------------------------
(* Aggregation of slices into a step and of steps into the Job.            *)

\* Mutant: any slice that was handed out counts as done.
AllSlicesFinal_Dispatched(s, ss) ==
    /\ SlicesOf(s, ss) # {}
    /\ \A x \in SlicesOf(s, ss) : ss[x] # "pending"

AllSlicesFinal(s, ss) ==
    /\ SlicesOf(s, ss) # {}
    /\ \A x \in SlicesOf(s, ss) : ss[x] \in FinalSliceStatuses

SliceVerdict(s, ss) ==
    IF \E x \in SlicesOf(s, ss) : ss[x] = "failed" THEN "failed"
    ELSE IF \E x \in SlicesOf(s, ss) : ss[x] = "cancelled" THEN "cancelled"
    ELSE "successful"

\* Mutant: the status of one slice is copied to the step.
AggregateStep_Copy(s, st, ss) ==
    [st EXCEPT ![s] = ss[CHOOSE x \in SlicesOf(s, ss) : TRUE]]

AggregateStep(s, st, ss) ==
    IF AllSlicesFinal(s, ss) THEN [st EXCEPT ![s] = SliceVerdict(s, ss)] ELSE st

HasFailureBranch(s) == \E t \in FailureOnly : s \in Deps[t]

\* Mutant: the request to stop is forgotten once every step has ended.
FinalizeJob_ForgetsStop(j, st) ==
    IF \E s \in Steps : st[s] \notin TerminalStepStatuses THEN j
    ELSE IF \E s \in Steps : st[s] = "cancelled" THEN "cancelled"
    ELSE IF \E s \in Steps : \/ st[s] = "blocked"
                             \/ st[s] = "failed" /\ ~HasFailureBranch(s)
         THEN "failed"
         ELSE "successful"

FinalizeJob(j, st) ==
    IF \E s \in Steps : st[s] \notin TerminalStepStatuses THEN j
    ELSE IF j = "cancelling" \/ \E s \in Steps : st[s] = "cancelled" THEN "cancelled"
    ELSE IF \E s \in Steps : \/ st[s] = "blocked"
                             \/ st[s] = "failed" /\ ~HasFailureBranch(s)
         THEN "failed"
         ELSE "successful"

-----------------------------------------------------------------------------
(* Oversight boundaries.                                                   *)

OversightRequiredBefore(s) == Deps[s] \cap OversightAfter # {}

OversightCandidates(st, approved) ==
    {s \in Steps : /\ st[s] = "pending"
                   /\ OversightRequiredBefore(s)
                   /\ s \notin approved
                   /\ DependencyState(s, st) = "eligible"}

\* Mutant: nothing pauses the Job.
UpdateOversight_Never(j, st, approved) == j

UpdateOversight(j, st, approved) ==
    IF /\ j \notin TerminalJobStatuses \cup {"cancelling"}
       /\ \A s \in Steps : st[s] # "running"
       /\ OversightCandidates(st, approved) # {}
    THEN "waiting_oversight"
    ELSE j

-----------------------------------------------------------------------------
(* Ancestors of a step in the dependency graph: the least set that holds   *)
(* its dependencies and theirs.                                            *)

DependencyAncestors(s) ==
    {a \in Steps :
        \A A \in SUBSET Steps :
            /\ Deps[s] \cap Steps \subseteq A
            /\ \A b \in A : Deps[b] \cap Steps \subseteq A
            => a \in A}

=============================================================================

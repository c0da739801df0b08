---------------------------- MODULE ReconcileLoop ----------------------------
(***************************************************************************)
(* The loop of reconcile_non_runnable_steps, which every claim, completion *)
(* and loss runs on the steps of a Job: pass over the steps, settle the    *)
(* pending ones that can no longer run, until a pass changes nothing.      *)
(*                                                                         *)
(* Workflow states the result as a fixpoint; this module shows on every    *)
(* small workflow that the loop ends in it and that there is only one.     *)
(***************************************************************************)
EXTENDS Naturals, FiniteSets

CONSTANTS
    Positions,   \* step positions
    MayName,     \* step -> positions that its depends_on may name; the Job need
                 \* not have a step at each of them
    Slices,      \* execution slices
    StepOf,      \* slice -> position of its step
    Statuses     \* statuses that the steps may have before the loop

ASSUME LoopAssumption ==
    /\ IsFiniteSet(Positions)
    /\ StepOf \in [Slices -> Positions]

VARIABLES
    deps, failureOnly, zeroHost,  \* the workflow, constant during the loop
    given, givenSlices,           \* the statuses before the loop
    step, slice,                  \* the statuses as the loop writes them
    remaining,                    \* steps that this pass has still to visit
    progress,                     \* this pass has changed a status
    pass                          \* number of the pass; 0 when the loop is over

workflow == <<deps, failureOnly, zeroHost, given, givenSlices>>
vars == <<workflow, step, slice, remaining, progress, pass>>

W == INSTANCE Workflow
        WITH Steps <- Positions, Deps <- deps, FailureOnly <- failureOnly,
             OversightAfter <- {}, ZeroHost <- zeroHost

Acyclic(D) ==
    \A S \in SUBSET Positions : S # {} => \E s \in S : D[s] \cap S = {}

\* Every workflow that may be queued.  A step that is not pending has no
\* pending slice.
Init ==
    /\ deps \in {D \in [Positions -> SUBSET UNION {MayName[s] : s \in Positions}] :
                    Acyclic(D) /\ \A s \in Positions : D[s] \subseteq MayName[s]}
    /\ failureOnly \in SUBSET Positions
    /\ given \in [Positions -> Statuses]
    /\ zeroHost \in SUBSET Slices
    /\ givenSlices = [x \in Slices |-> IF x \in zeroHost THEN "successful"
                                       ELSE given[StepOf[x]]]
    /\ step = given
    /\ slice = givenSlices
    /\ remaining = Positions
    /\ progress = FALSE
    /\ pass = 1

\* job.steps is ordered by position.
Visited(s) == s \in remaining /\ \A t \in remaining : s <= t

\* Mutant: a blocked or skipped step does not ask for another pass.
NotToRun_NoProgress(s) ==
    LET state == W!DependencyState(s, step) IN
    /\ pass > 0 /\ Visited(s)
    /\ step[s] = "pending"
    /\ state \in {"blocked", "skipped"}
    /\ step' = [step EXCEPT ![s] = state]
    /\ slice' = [x \in Slices |->
                    IF StepOf[x] = s /\ slice[x] = "pending" THEN state ELSE slice[x]]
    /\ remaining' = remaining \ {s}
    /\ UNCHANGED <<workflow, progress, pass>>

NotToRun(s) ==
    LET state == W!DependencyState(s, step) IN
    /\ pass > 0 /\ Visited(s)
    /\ step[s] = "pending"
    /\ state \in {"blocked", "skipped"}
    /\ step' = [step EXCEPT ![s] = state]
    /\ slice' = [x \in Slices |->
                    IF StepOf[x] = s /\ slice[x] = "pending" THEN state ELSE slice[x]]
    /\ progress' = TRUE
    /\ remaining' = remaining \ {s}
    /\ UNCHANGED <<workflow, pass>>

NothingToRun(s) ==
    /\ pass > 0 /\ Visited(s)
    /\ step[s] = "pending"
    /\ W!DependencyState(s, step) = "eligible"
    /\ W!NoOpStep(s, slice)
    /\ step' = [step EXCEPT ![s] = "successful"]
    /\ progress' = TRUE
    /\ remaining' = remaining \ {s}
    /\ UNCHANGED <<workflow, slice, pass>>

LeaveStep(s) ==
    /\ pass > 0 /\ Visited(s)
    /\ \/ step[s] # "pending"
       \/ W!PendingStepBecomes(s, step, slice) = "pending"
    /\ remaining' = remaining \ {s}
    /\ UNCHANGED <<workflow, step, slice, progress, pass>>

NextPass ==
    /\ pass > 0 /\ remaining = {}
    /\ progress
    /\ remaining' = Positions
    /\ progress' = FALSE
    /\ pass' = pass + 1
    /\ UNCHANGED <<workflow, step, slice>>

EndLoop ==
    /\ pass > 0 /\ remaining = {}
    /\ ~progress
    /\ pass' = 0
    /\ UNCHANGED <<workflow, step, slice, remaining, progress>>

Next ==
    \/ \E s \in Positions : NotToRun(s) \/ NothingToRun(s) \/ LeaveStep(s)
    \/ NextPass \/ EndLoop

Spec == Init /\ [][Next]_vars

\* When the loop is over the statuses are the only reconciliation of the given
\* ones, whatever the order of the positions along the dependencies, and just
\* the pending slices of the blocked and skipped steps have followed
\* (reconcile_non_runnable_steps: one pass sees statuses of two passes mixed);
\* and it does get over, for each pass but the last one settles a pending step.
LoopFindsTheFixpoint ==
    /\ pass <= 1 + Cardinality({s \in Positions : given[s] = "pending"})
    /\ pass = 0 =>
        /\ {final \in W!Reconcilings(given) : W!Reconciles(given, givenSlices, final)}
               = {step}
        /\ slice = W!SlicesFollow(given, step, givenSlices)

=============================================================================

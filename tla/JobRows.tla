------------------------------ MODULE JobRows -------------------------------
(***************************************************************************)
(* The database rows of one sliced Job and the transactions that the       *)
(* Journeyman services run on them: claiming, starting, completing and     *)
(* losing execution slices, Oversight, cancellation, the inventory refresh *)
(* between two steps.                                                      *)
(*                                                                         *)
(* Every operator below is the effect of one committed transaction on the  *)
(* rows.  Who runs it and when (web workers, the scheduler, the runners)   *)
(* is the business of SlicedJob.                                           *)
(***************************************************************************)
EXTENDS Workflow

CONSTANTS
    Runners,       \* remote runners
    Local,         \* the built-in local runner
    NoRunner,      \* NULL in a runner column
    Target,        \* slice -> runner it is planned for (Local: dispatch_target "local")
    InitialPlan,   \* slices materialised when the Job is queued
    RefreshAfter,  \* steps with refresh_inventory_after set
    Tokens,        \* dispatch tokens; their number bounds the claims
    NoToken        \* "" in the dispatch_token column

ASSUME RowsAssumption ==
    /\ Local \notin Runners
    /\ NoRunner \notin Runners \cup {Local}
    /\ Target \in [Slices -> Runners \cup {Local}]
    /\ InitialPlan \subseteq Slices
    /\ ZeroHost \subseteq InitialPlan
    /\ RefreshAfter \subseteq Steps
    /\ NoToken \notin Tokens

VARIABLES
    job,        \* Job.status
    started,    \* Job.started_at is set
    step,       \* JobStep.status by position
    approved,   \* steps with oversight_approved set
    slice,      \* JobStepExecutionSlice.status
    token,      \* JobStepExecutionSlice.dispatch_token
    owner,      \* JobStepExecutionSlice.assigned_runner_id
    refresher,  \* process inside the post-step refresh of a step
    targets     \* steps that refresh has read as its pending descendants

rowVars == <<job, started, step, approved, slice, token, owner, refresher, targets>>

Refreshers == {"none", "server", "local"}

RowsTypeOK ==
    /\ job \in JobStatuses
    /\ started \in BOOLEAN
    /\ step \in [Steps -> StepStatuses]
    /\ approved \in SUBSET Steps
    /\ slice \in [Slices -> SliceStatuses]
    /\ token \in [Slices -> Tokens \cup {NoToken}]
    /\ owner \in [Slices -> Runners \cup {Local, NoRunner}]
    /\ refresher \in [Steps -> Refreshers]
    /\ targets \in [Steps -> SUBSET Steps]

InitialSlices ==
    [x \in Slices |-> IF x \notin InitialPlan THEN "absent"
                      ELSE IF x \in ZeroHost THEN "successful"
                      ELSE "pending"]

\* A Job as queue_project_execution or a failed-hosts rerun leaves it.
RowsInit ==
    /\ job = "queued"
    /\ started = FALSE
    /\ step = [s \in Steps |-> "pending"]
    /\ approved = {s \in Steps : ~OversightRequiredBefore(s)}
    /\ slice = InitialSlices
    /\ token = [x \in Slices |-> NoToken]
    /\ owner = [x \in Slices |-> NoRunner]
    /\ refresher = [s \in Steps |-> "none"]
    /\ targets = [s \in Steps |-> {}]

-----------------------------------------------------------------------------
(* The tail of every transaction that ends a slice or a step: dependencies *)
(* are reconciled, the Job pauses for Oversight or ends.                   *)

\* Mutant: the tail forgets _finalize_job_if_complete.
Settle_LeavesJob(st, ss) ==
    \E final \in Reconcilings(st) :
        /\ Reconciles(st, ss, final)
        /\ step' = final
        /\ slice' = SlicesFollow(st, final, ss)
        /\ job' = UpdateOversight(job, final, approved)

Settle(st, ss) ==
    \E final \in Reconcilings(st) :
        /\ Reconciles(st, ss, final)
        /\ step' = final
        /\ slice' = SlicesFollow(st, final, ss)
        /\ job' = FinalizeJob(UpdateOversight(job, final, approved), final)

\* A slice takes a final status and its step is aggregated.
EndSlice(x, status) ==
    LET ss == [slice EXCEPT ![x] = status]
    IN  Settle(AggregateStep(StepOf[x], step, ss), ss)

-----------------------------------------------------------------------------
(* Claiming and starting.                                                  *)

\* What every claim request does first, and all that it does when it finds
\* nothing to hand out: reconcile the Job and pause it if Oversight is due.
PollJob ==
    /\ job \in {"queued", "running"}
    /\ \E final \in Reconcilings(step) :
        /\ Reconciles(step, slice, final)
        /\ step' = final
        /\ slice' = SlicesFollow(step, final, slice)
        /\ job' = UpdateOversight(job, final, approved)
    /\ UNCHANGED <<started, approved, token, owner, refresher, targets>>

\* Hand out pending slice x: final are the statuses after the reconciliation
\* of the same request.
Dispatch(x, status, runner, final) ==
    LET s == StepOf[x] IN
    /\ job \in {"queued", "running"}
    /\ Reconciles(step, slice, final)
    /\ UpdateOversight(job, final, approved) = job
    /\ slice[x] = "pending"
    /\ final[s] \in {"pending", "running"}
    /\ slice' = [SlicesFollow(step, final, slice) EXCEPT ![x] = status]
    /\ owner' = [owner EXCEPT ![x] = runner]
    /\ job' = "running"
    /\ started' = TRUE
    /\ step' = [final EXCEPT ![s] = "running"]
    /\ UNCHANGED <<approved, refresher, targets>>

ClaimRemoteSlice(x, t) ==
    /\ Target[x] # Local
    /\ owner[x] = NoRunner
    /\ \E final \in Reconcilings(step) :
        /\ DependencyState(StepOf[x], final) = "eligible"
        /\ Dispatch(x, "assigned", Target[x], final)
    /\ token' = [token EXCEPT ![x] = t]

StartLocalSlice(x) ==
    /\ Target[x] = Local
    /\ \E final \in Reconcilings(step) :
        /\ final[StepOf[x]] = "pending"
               => DependencyState(StepOf[x], final) = "eligible"
        /\ Dispatch(x, "running", Local, final)
    /\ UNCHANGED token

AssignmentMatches(x, t) == token[x] = t

\* start_remote_slice; a repeated start of a running slice is accepted.
StartAccepted(x, t) == AssignmentMatches(x, t) /\ slice[x] \in {"assigned", "running"}

StartRemoteSlice(x, t) ==
    /\ StartAccepted(x, t)
    /\ slice' = [slice EXCEPT ![x] = "running"]
    /\ UNCHANGED <<job, started, step, approved, token, owner, refresher, targets>>

\* The claim request fails after its commit, while it prepares the repository
\* artefacts: the slice row is failed, nothing is aggregated.
FailClaimedSlice(x) ==
    /\ slice' = [slice EXCEPT ![x] = "failed"]
    /\ token' = [token EXCEPT ![x] = NoToken]
    /\ UNCHANGED <<job, started, step, approved, owner, refresher, targets>>

\* fail_pending_remote_slice: the runner's Environment is out of date.  The
\* claim request has polled the Job before, the dependencies of the step are
\* not looked at.
FailPendingSlice(x) ==
    /\ job \in {"queued", "running"}
    /\ Reconciles(step, slice, step)
    /\ UpdateOversight(job, step, approved) = job
    /\ Target[x] # Local
    /\ slice[x] = "pending"
    /\ EndSlice(x, "failed")
    /\ token' = [token EXCEPT ![x] = NoToken]
    /\ UNCHANGED <<started, approved, owner, refresher, targets>>

-----------------------------------------------------------------------------
(* Completing.                                                             *)

RefreshTargets(s, st) == {t \in Steps : st[t] = "pending" /\ s \in DependencyAncestors(t)}

CompleteSlice(x, requested, process) ==
    LET status == IF job = "cancelling" /\ requested = "successful"
                  THEN "cancelled" ELSE requested
        s  == StepOf[x]
        ss == [slice EXCEPT ![x] = status]
    IN  /\ token' = [token EXCEPT ![x] = NoToken]
        /\ IF /\ AllSlicesFinal(s, ss)
              /\ SliceVerdict(s, ss) = "successful"
              /\ s \in RefreshAfter
           THEN /\ slice' = ss
                /\ step' = [step EXCEPT ![s] = "running"]
                /\ refresher' = [refresher EXCEPT ![s] = process]
                /\ targets' = [targets EXCEPT ![s] = RefreshTargets(s, step)]
                /\ UNCHANGED job
           ELSE /\ EndSlice(x, status)
                /\ UNCHANGED <<refresher, targets>>
        /\ UNCHANGED <<started, approved, owner>>

\* Mutant: the failure of an assignment before its start is refused.
CompletionAccepted_RunningOnly(x, t) == AssignmentMatches(x, t) /\ slice[x] = "running"

CompletionAccepted(x, t) ==
    AssignmentMatches(x, t) /\ slice[x] \in {"assigned", "running"}

\* A retry of a completion whose acknowledgement was lost.
CompletionReplayed(x, requested) ==
    /\ slice[x] \in FinalSliceStatuses
    /\ slice[x] = requested
    /\ owner[x] = Target[x]

\* The refresh that follows step s ends.  Either the pending descendants it
\* read are replanned, which replaces their slices, or it is an error; without
\* descendants there is nothing that could fail.  The status of a descendant is
\* not read again, its slices are.
ReplanAllowed(s) ==
    \A t \in targets[s] : \A x \in SlicesOf(t, slice) : slice[x] = "pending"

EndRefresh(s, ss, verdict) ==
    /\ Settle([step EXCEPT ![s] = verdict], ss)
    /\ refresher' = [refresher EXCEPT ![s] = "none"]
    /\ targets' = [targets EXCEPT ![s] = {}]
    /\ UNCHANGED <<started, approved, token>>

RefreshSucceeds(s, plan) ==
    /\ refresher[s] # "none"
    /\ ReplanAllowed(s)
    /\ LET replanned == {x \in Slices : StepOf[x] \in targets[s]} IN
        /\ EndRefresh(s,
              [x \in Slices |-> IF x \notin replanned THEN slice[x]
                                ELSE IF x \in plan THEN "pending" ELSE "absent"],
              "successful")
        /\ owner' = [x \in Slices |-> IF x \in replanned THEN NoRunner ELSE owner[x]]

RefreshFails(s) ==
    /\ refresher[s] # "none"
    /\ targets[s] # {}
    /\ EndRefresh(s, slice, "failed")
    /\ UNCHANGED owner

\* The process dies, or any other exception leaves the refresh: its
\* transaction is rolled back and nobody takes it up again.
RefreshAbandoned(S) ==
    /\ refresher' = [s \in Steps |-> IF s \in S THEN "none" ELSE refresher[s]]
    /\ targets' = [s \in Steps |-> IF s \in S THEN {} ELSE targets[s]]
    /\ UNCHANGED <<job, started, step, approved, slice, token, owner>>

-----------------------------------------------------------------------------
(* Losing a slice with its runner.                                         *)

\* Mutant: the slice is failed, its step is not aggregated.
MarkLostSlice_SliceOnly(x) ==
    /\ Target[x] # Local
    /\ slice[x] \in LiveSliceStatuses
    /\ slice' = [slice EXCEPT ![x] = "failed"]
    /\ owner' = [owner EXCEPT ![x] = IF @ = NoRunner THEN Target[x] ELSE @]
    /\ token' = [token EXCEPT ![x] = NoToken]
    /\ UNCHANGED <<job, started, step, approved, refresher, targets>>

MarkLostSlice(x) ==
    /\ Target[x] # Local
    /\ slice[x] \in LiveSliceStatuses
    /\ EndSlice(x, IF job = "cancelling" THEN "cancelled" ELSE "failed")
    /\ owner' = [owner EXCEPT ![x] = IF @ = NoRunner THEN Target[x] ELSE @]
    /\ token' = [token EXCEPT ![x] = NoToken]
    /\ UNCHANGED <<started, approved, refresher, targets>>

\* Mutant: running slices are unassigned as well.
UnassignNotStarted_Running(r) ==
    LET revoked == {x \in Slices : owner[x] = r /\ slice[x] \in {"assigned", "running"}} IN
    /\ slice' = [x \in Slices |-> IF x \in revoked THEN "pending" ELSE slice[x]]
    /\ token' = [x \in Slices |-> IF x \in revoked THEN NoToken ELSE token[x]]
    /\ owner' = [x \in Slices |-> IF x \in revoked THEN NoRunner ELSE owner[x]]
    /\ UNCHANGED <<job, started, step, approved, refresher, targets>>

\* Assignments of runner r that have not started return to the queue.
UnassignNotStarted(r) ==
    LET revoked == {x \in Slices : owner[x] = r /\ slice[x] = "assigned"} IN
    /\ slice' = [x \in Slices |-> IF x \in revoked THEN "pending" ELSE slice[x]]
    /\ token' = [x \in Slices |-> IF x \in revoked THEN NoToken ELSE token[x]]
    /\ owner' = [x \in Slices |-> IF x \in revoked THEN NoRunner ELSE owner[x]]
    /\ UNCHANGED <<job, started, step, approved, refresher, targets>>

-----------------------------------------------------------------------------
(* Oversight and cancellation.                                             *)

ApproveOversight ==
    LET candidates == OversightCandidates(step, approved) IN
    /\ job = "waiting_oversight"
    /\ candidates # {}
    /\ approved' = approved \cup candidates
    /\ job' = IF started THEN "running" ELSE "queued"
    /\ UNCHANGED <<started, step, slice, token, owner, refresher, targets>>

CancelIdleJob ==
    LET stopped == {x \in Slices : slice[x] \in {"pending", "assigned"}} IN
    /\ job \in {"queued", "waiting_oversight"}
    /\ job' = "cancelled"
    /\ step' = [s \in Steps |-> IF step[s] = "pending" THEN "cancelled" ELSE step[s]]
    /\ slice' = [x \in Slices |-> IF x \in stopped THEN "cancelled" ELSE slice[x]]
    /\ token' = [x \in Slices |-> IF x \in stopped THEN NoToken ELSE token[x]]
    /\ UNCHANGED <<started, approved, owner, refresher, targets>>

CancelRunningJob ==
    LET ss == [x \in Slices |-> IF slice[x] = "pending" THEN "cancelled" ELSE slice[x]] IN
    /\ job = "running"
    /\ job' = "cancelling"
    /\ slice' = ss
    /\ step' = [s \in Steps |->
                    IF /\ step[s] = "pending"
                       /\ SlicesOf(s, ss) # {}
                       /\ \A x \in SlicesOf(s, ss) : ss[x] = "cancelled"
                    THEN "cancelled" ELSE step[s]]
    /\ UNCHANGED <<started, approved, token, owner, refresher, targets>>

\* _finalize_abandoned_cancellation; its caller checks that no runner reports
\* active work on the Job.
FinalizeAbandonedCancellation ==
    LET stopped == {x \in Slices : slice[x] \notin FinalSliceStatuses \cup {"absent"}} IN
    /\ job = "cancelling"
    /\ job' = "cancelled"
    /\ step' = [s \in Steps |->
                    IF step[s] \in TerminalStepStatuses THEN step[s] ELSE "cancelled"]
    /\ slice' = [x \in Slices |-> IF x \in stopped THEN "cancelled" ELSE slice[x]]
    /\ token' = [x \in Slices |-> IF x \in stopped THEN NoToken ELSE token[x]]
    /\ UNCHANGED <<started, approved, owner, refresher, targets>>

-----------------------------------------------------------------------------
(* Safety of the rows.                                                     *)

\* When a Job has ended nothing of it is left to run: every step has ended and
\* no slice can still be claimed, started or completed (runner_slice_lifecycle,
\* job_cancellation; the claim query, the recovery passes and retention rely
\* on it).
EndedJobIsSettled ==
    job \in TerminalJobStatuses =>
        /\ \A s \in Steps : step[s] \in TerminalStepStatuses
        /\ \A x \in Slices : slice[x] \notin LiveSliceStatuses

\* A step has run or runs only when its dependencies ended the way its branch
\* asks for, whatever was lost, drained, refreshed or cancelled meanwhile
\* (runner_can_claim_slice, claim_next_local_slice).
DependenciesRespected ==
    \A s \in Steps :
        step[s] \in {"running", "successful"} => DependencyState(s, step) = "eligible"

\* A step is successful only if every slice of it is: the completion of a
\* sibling, late or replayed, never hides a slice that failed or was stopped.
SuccessMeansAllSlices ==
    \A s \in Steps : step[s] = "successful" =>
        \A x \in SlicesOf(s, slice) : slice[x] = "successful"

\* No step of a running Job is left behind: it has a slice that somebody may
\* still finish, or its inventory refresh is under way.
NoStepLeftBehind ==
    \A s \in Steps : job = "running" /\ step[s] = "running" =>
        \/ \E x \in SlicesOf(s, slice) : slice[x] \in LiveSliceStatuses
        \/ refresher[s] # "none"

\* The Job ends with its last step: no transaction leaves a Job open whose steps
\* have all ended, as nothing would ever touch it again.  A Job that was asked
\* to stop is left to recover_stale_cancelling_jobs
\* (_finalize_job_if_complete, reconcile_non_runnable_steps).
LastStepEndsJob ==
    (\A s \in Steps : step[s] \in TerminalStepStatuses) =>
        job \in TerminalJobStatuses \cup {"cancelling"}

\* Every step behind an Oversight boundary that runs was approved.
OversightRespected ==
    \A s \in Steps : step[s] = "running" => s \in approved

-----------------------------------------------------------------------------
(* Invariants of the rows behind these properties.                         *)

ActiveSliceStatuses == {"assigned", "running"}

\* A slice is worked on only while its step runs.
ActiveSlicesOfRunningSteps ==
    \A x \in Slices : slice[x] \in ActiveSliceStatuses => step[StepOf[x]] = "running"

\* A Job that is queued or waits for Oversight has no running step.
IdleJobRunsNothing ==
    job \in {"queued", "waiting_oversight"} => \A s \in Steps : step[s] # "running"

EndedJobHasEndedSteps ==
    job \in TerminalJobStatuses => \A s \in Steps : step[s] \in TerminalStepStatuses

\* An inventory refresh is under way only after a step whose slices are all
\* final; the step still runs unless the Job has been ended meanwhile.
RefreshFollowsTheSlices ==
    \A s \in Steps : refresher[s] # "none" =>
        /\ AllSlicesFinal(s, slice)
        /\ step[s] = "running" \/ job \in TerminalJobStatuses

RowsInv ==
    /\ ActiveSlicesOfRunningSteps
    /\ IdleJobRunsNothing
    /\ EndedJobHasEndedSteps
    /\ RefreshFollowsTheSlices

\* Every step has slices: the plan of a Job covers its steps and a replan
\* finds at least one host for each step that it replaces the slices of.
EveryStepHasSlices == \A s \in Steps : SlicesOf(s, slice) # {}

\* A step that has ended leaves no slice to be claimed.
PendingSlicesOfOpenSteps ==
    \A x \in Slices : slice[x] = "pending" => step[StepOf[x]] \in {"pending", "running"}

CoverInv == EveryStepHasSlices /\ PendingSlicesOfOpenSteps

Begun(s) == step[s] \in {"running", "successful"} \/ refresher[s] # "none"

\* What a step that runs, is refreshed or was successful has been started for
\* is settled: its dependencies ended as it asks for and no refresh that could
\* rewrite their verdict is under way.
BegunStepsAreSettled ==
    \A s \in Steps : Begun(s) =>
        /\ DependencyState(s, step) = "eligible"
        /\ \A d \in Deps[s] : refresher[d] = "none"

\* A successful step, and one that is only refreshed any more, has successful
\* slices and no others.
SuccessIsOfAllSlices ==
    \A s \in Steps : step[s] = "successful" \/ refresher[s] # "none" =>
        \A x \in SlicesOf(s, slice) : slice[x] = "successful"

\* Slices are blocked or skipped with their step, as long as the Job is open.
BlockedSlicesOfBlockedSteps ==
    \A x \in Slices :
        job \notin TerminalJobStatuses /\ slice[x] \in {"blocked", "skipped"}
            => step[StepOf[x]] \in {"blocked", "skipped"}

\* No transaction has touched the rows since the Job was queued.
Untouched == step = [s \in Steps |-> "pending"] /\ slice = InitialSlices

\* Between two transactions of an open Job there is nothing to reconcile, but
\* for the first time.
NothingToReconcile ==
    job \in {"queued", "running", "waiting_oversight"} =>
        Untouched \/ Reconciles(step, slice, step)

\* A Job that runs has begun.
RunningJobHasStarted == job = "running" => started

\* Steps behind the same dependencies are approved together.
ApprovedTogether ==
    \A s, t \in Steps :
        /\ Deps[s] = Deps[t] /\ (s \in FailureOnly <=> t \in FailureOnly)
        /\ t \in approved /\ step[s] = "pending"
        => s \in approved

=============================================================================

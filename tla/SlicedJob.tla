----------------------------- MODULE SlicedJob ------------------------------
(***************************************************************************)
(* One sliced Job and everybody who works on it: the remote runners (claim,*)
(* start, execute, spool and deliver a completion, heartbeat), the built-in*)
(* local runner service, the web workers that answer them, the scheduler's *)
(* recovery passes, the operator who cancels or continues the Job and the  *)
(* management Jobs that drain a runner.                                    *)
(*                                                                         *)
(* A transaction on the rows is one action (JobRows); between two of them  *)
(* anything may happen.  A remote assignment is named by its dispatch      *)
(* token, so the runner's worker threads and its completion spool are      *)
(* functions on Tokens.                                                    *)
(***************************************************************************)
EXTENDS JobRows, FiniteSets

CONSTANTS
    Capacity,         \* Runner.max_concurrent_steps
    Faults,           \* kinds of disturbance that may happen, see FaultKinds
    MaxDisturbances,  \* bound on their number
    NoSlice           \* slice of a token that was not issued

FaultKinds ==
    {"crash",           \* a remote runner process dies
     "partition",       \* heartbeats of a live remote runner do not arrive
     "claim_lost",      \* the answer to a claim request is lost
     "start_lost",      \* the answer to a start request is lost
     "ack_lost",        \* the acknowledgement of a completion is lost
     "artifact",        \* repository artefacts cannot be prepared
     "environment",     \* the runner's Environment is out of date
     "drain",           \* a management Job drains a runner
     "local_crash",     \* the local runner service dies
     "refresh_crash",   \* an inventory refresh ends in an unexpected exception
     "empty_replan"}    \* a refreshed inventory has no host for a step

ASSUME EnvironmentAssumption ==
    /\ Capacity \in Nat \ {0}
    /\ Faults \subseteq FaultKinds
    /\ MaxDisturbances \in Nat
    /\ IsFiniteSet(Tokens)
    /\ NoSlice \notin Slices
    /\ Slices \cap {"down", "recovering", "idle"} = {}

VARIABLES
    age,          \* age of the last heartbeat: runner_health without draining
    draining,     \* runners with drain_job_id set
    reported,     \* Runner.running_steps of the last heartbeat
    silent,       \* runners without a heartbeat since the Job was asked to stop
    justStarted,  \* slices without a heartbeat of their runner since the start
    up,           \* remote runner processes that are alive
    work,         \* what became of the assignment that a token names
    workSlice,    \* the slice it is for
    result,       \* the status in its spooled completion
    local,        \* local runner: "down", "recovering", "idle" or its slice
    starts,       \* how often a slice's playbook was started
    disturbances  \* number of disturbances so far

runnerVars == <<age, draining, reported, silent, justStarted>>
workVars == <<up, work, workSlice, result>>
vars == <<rowVars, runnerVars, workVars, local, starts, disturbances>>

AllRunners == Runners \cup {Local}
Ages == {"healthy", "warning", "offline"}
\* "free": not issued; "preparing": claimed, answer not yet at the runner;
\* "held": a worker thread prepares; "executing"; "spooled": completion on
\* disk, not acknowledged; "gone": acknowledged or lost with the process.
WorkPhases == {"free", "preparing", "held", "executing", "spooled", "gone"}

TypeOK ==
    /\ RowsTypeOK
    /\ age \in [AllRunners -> Ages]
    /\ draining \in SUBSET Runners
    /\ reported \in [AllRunners -> Nat]
    /\ silent \in SUBSET AllRunners
    /\ justStarted \in SUBSET Slices
    /\ up \in SUBSET Runners
    /\ work \in [Tokens -> WorkPhases]
    /\ workSlice \in [Tokens -> Slices \cup {NoSlice}]
    /\ result \in [Tokens -> FinalSliceStatuses]
    /\ local \in {"down", "recovering", "idle"} \cup Slices
    /\ starts \in [Slices -> Nat]
    /\ disturbances \in Nat

Init ==
    /\ RowsInit
    /\ age = [r \in AllRunners |-> "healthy"]
    /\ draining = {}
    /\ reported = [r \in AllRunners |-> 0]
    /\ silent = {}
    /\ justStarted = {}
    /\ up = Runners
    /\ work = [t \in Tokens |-> "free"]
    /\ workSlice = [t \in Tokens |-> NoSlice]
    /\ result = [t \in Tokens |-> "failed"]
    /\ local = "idle"
    /\ starts = [x \in Slices |-> 0]
    /\ disturbances = 0

Disturb(kind) ==
    /\ kind \in Faults
    /\ disturbances < MaxDisturbances
    /\ disturbances' = disturbances + 1

-----------------------------------------------------------------------------
(* Remote runners: worker threads, completion spool, heartbeat.            *)

IssuedTo(r) == {t \in Tokens : work[t] # "free" /\ Target[workSlice[t]] = r}
ActiveWorkers(r) == {t \in IssuedTo(r) : work[t] \in {"held", "executing"}}

Healthy(r) == r \notin draining /\ age[r] = "healthy"
Offline(r) == r \notin draining /\ age[r] = "offline"

\* The main loop of a runner with a free worker slot claims slice x.
ClaimSlice(x, t) ==
    /\ Target[x] \in up
    /\ \A u \in IssuedTo(Target[x]) : work[u] # "preparing"
    /\ Cardinality(ActiveWorkers(Target[x])) < Capacity
    /\ Healthy(Target[x])
    /\ reported[Target[x]] < Capacity
    /\ work[t] = "free"
    /\ ClaimRemoteSlice(x, t)
    /\ work' = [work EXCEPT ![t] = "preparing"]
    /\ workSlice' = [workSlice EXCEPT ![t] = x]
    /\ UNCHANGED <<runnerVars, up, result, local, starts, disturbances>>

ArtifactPreparationFails(t) ==
    /\ work[t] = "preparing"
    /\ Disturb("artifact")
    /\ FailClaimedSlice(workSlice[t])
    /\ work' = [work EXCEPT ![t] = "gone"]
    /\ UNCHANGED <<runnerVars, up, workSlice, result, local, starts>>

ReceiveAssignment(t) ==
    /\ work[t] = "preparing"
    /\ work' = [work EXCEPT ![t] = "held"]
    /\ UNCHANGED <<rowVars, runnerVars, up, workSlice, result, local, starts, disturbances>>

LoseAssignment(t) ==
    /\ work[t] = "preparing"
    /\ Disturb("claim_lost")
    /\ work' = [work EXCEPT ![t] = "gone"]
    /\ UNCHANGED <<rowVars, runnerVars, up, workSlice, result, local, starts>>

StartExecution(t) ==
    LET x == workSlice[t] IN
    /\ work[t] = "held"
    /\ StartRemoteSlice(x, t)
    /\ work' = [work EXCEPT ![t] = "executing"]
    /\ starts' = [starts EXCEPT ![x] = @ + 1]
    /\ justStarted' = justStarted \cup {x}
    /\ UNCHANGED <<age, draining, reported, silent, up, workSlice, result, local, disturbances>>

\* Preparation fails on the runner, or the start is refused: the worker
\* spools a failed completion without having run anything.
AbandonAssignment(t) ==
    /\ work[t] = "held"
    /\ work' = [work EXCEPT ![t] = "spooled"]
    /\ result' = [result EXCEPT ![t] = "failed"]
    /\ UNCHANGED <<rowVars, runnerVars, up, workSlice, local, starts, disturbances>>

LoseStartAnswer(t) ==
    LET x == workSlice[t] IN
    /\ work[t] = "held"
    /\ Disturb("start_lost")
    /\ StartRemoteSlice(x, t)
    /\ work' = [work EXCEPT ![t] = "spooled"]
    /\ result' = [result EXCEPT ![t] = "failed"]
    /\ justStarted' = justStarted \cup {x}
    /\ UNCHANGED <<age, draining, reported, silent, up, workSlice, local, starts>>

\* The playbook ends: by itself, stopped because the Job is cancelling or the
\* runner shuts down, or given up because a control request failed.
FinishExecution(t, status) ==
    /\ work[t] = "executing"
    /\ work' = [work EXCEPT ![t] = "spooled"]
    /\ result' = [result EXCEPT ![t] = status]
    /\ UNCHANGED <<rowVars, runnerVars, up, workSlice, local, starts, disturbances>>

\* A completion that the server refuses stays in the spool and is retried.
DeliverCompletion(t) ==
    LET x == workSlice[t] IN
    /\ work[t] = "spooled"
    /\ Target[x] \in up
    /\ \/ /\ CompletionReplayed(x, result[t])
          /\ UNCHANGED rowVars
       \/ /\ CompletionAccepted(x, t)
          /\ CompleteSlice(x, result[t], "server")
    /\ \/ /\ work' = [work EXCEPT ![t] = "gone"]
          /\ UNCHANGED disturbances
       \/ /\ Disturb("ack_lost")
          /\ UNCHANGED work
    /\ UNCHANGED <<runnerVars, up, workSlice, result, local, starts>>

CrashRunner(r) ==
    /\ r \in up
    /\ Disturb("crash")
    /\ up' = up \ {r}
    /\ work' = [t \in Tokens |->
                  IF t \in IssuedTo(r) /\ work[t] \in {"preparing", "held", "executing"}
                  THEN "gone" ELSE work[t]]
    /\ UNCHANGED <<rowVars, runnerVars, workSlice, result, local, starts>>

RestartRunner(r) ==
    /\ r \in Runners \ up
    /\ up' = up \cup {r}
    /\ UNCHANGED <<rowVars, runnerVars, work, workSlice, result, local, starts, disturbances>>

\* The heartbeat that a grace period waits for comes later than the answer to
\* a claim (60 seconds at most).
RunnerHeartbeat(r) ==
    /\ r \in up
    /\ age' = [age EXCEPT ![r] = "healthy"]
    /\ reported' = [reported EXCEPT ![r] = Cardinality(ActiveWorkers(r))]
    /\ silent' = IF \E t \in IssuedTo(r) : work[t] = "preparing"
                 THEN silent ELSE silent \ {r}
    /\ justStarted' = {x \in justStarted : Target[x] # r}
    /\ UNCHANGED <<rowVars, draining, workVars, local, starts, disturbances>>

\* Time passes without a heartbeat of runner r.
HeartbeatAges(r) ==
    /\ \/ r \in up /\ Disturb("partition")
       \/ /\ r \in Runners \ up \/ (r = Local /\ local = "down")
          /\ UNCHANGED disturbances
    /\ \/ age[r] = "healthy" /\ age' = [age EXCEPT ![r] = "warning"]
       \/ age[r] = "warning" /\ age' = [age EXCEPT ![r] = "offline"]
    /\ UNCHANGED <<rowVars, draining, reported, silent, justStarted, workVars, local, starts>>

-----------------------------------------------------------------------------
(* Requests and scheduler passes on the server.                            *)

PollWithoutClaim ==
    /\ PollJob
    /\ UNCHANGED <<runnerVars, workVars, local, starts, disturbances>>

EnvironmentOutOfDate(x) ==
    /\ Target[x] \in up
    /\ Disturb("environment")
    /\ FailPendingSlice(x)
    /\ UNCHANGED <<runnerVars, workVars, local, starts>>

\* recover_lost_runner_jobs
RecoverLostSlice(x) ==
    /\ Offline(Target[x])
    /\ MarkLostSlice(x)
    /\ UNCHANGED <<runnerVars, workVars, local, starts, disturbances>>

\* Mutant: the heartbeat may be older than the start of the slice.
RecoverStaleSlice_AnyHeartbeat(x) ==
    /\ slice[x] = "running"
    /\ Healthy(Target[x])
    /\ reported[Target[x]] = 0
    /\ MarkLostSlice(x)
    /\ UNCHANGED <<runnerVars, workVars, local, starts, disturbances>>

\* recover_stale_running_remote_work: the runner is healthy and a heartbeat
\* that came (300 seconds) after the start reports no work.
RecoverStaleSlice(x) ==
    /\ slice[x] = "running"
    /\ Healthy(Target[x])
    /\ reported[Target[x]] = 0
    /\ x \notin justStarted
    /\ MarkLostSlice(x)
    /\ UNCHANGED <<runnerVars, workVars, local, starts, disturbances>>

ReportsActiveWork(r) == ~Offline(r) /\ reported[r] > 0

\* Mutant: an active row is taken for active work.
JobMayStillBeExecuting_ByRows ==
    \E x \in Slices : slice[x] \in {"assigned", "running"}

JobMayStillBeExecuting ==
    \E x \in Slices :
        /\ slice[x] \in {"assigned", "running"}
        /\ ReportsActiveWork(Target[x])

\* recover_stale_cancelling_jobs.  The grace period (300 seconds) is longer
\* than it takes a runner to count as offline (180) and than a refresh that
\* has no step to replan.
RecoverStaleCancelling ==
    /\ \A r \in silent : age[r] = "offline"
    /\ \A s \in Steps : refresher[s] # "none" => targets[s] # {}
    /\ ~JobMayStillBeExecuting
    /\ FinalizeAbandonedCancellation
    /\ UNCHANGED <<runnerVars, workVars, local, starts, disturbances>>

CancelJob ==
    /\ \/ CancelIdleJob /\ UNCHANGED silent
       \/ CancelRunningJob /\ silent' = AllRunners
    /\ UNCHANGED <<age, draining, reported, justStarted, workVars, local, starts, disturbances>>

ContinueJob ==
    /\ ApproveOversight
    /\ UNCHANGED <<runnerVars, workVars, local, starts, disturbances>>

DrainRunner(r) ==
    /\ r \in Runners \ draining
    /\ Disturb("drain")
    /\ draining' = draining \cup {r}
    /\ UnassignNotStarted(r)
    /\ UNCHANGED <<age, reported, silent, justStarted, workVars, local, starts>>

\* The management Job that owns the drain ends or is cancelled.
ReleaseDrain(r) ==
    /\ r \in draining
    /\ draining' = draining \ {r}
    /\ UNCHANGED <<rowVars, age, reported, silent, justStarted, workVars, local, starts, disturbances>>

\* A plan has slices for every step that it covers, except when the refreshed
\* inventory has no host for one.
Plans(s) ==
    {P \in SUBSET {x \in Slices : StepOf[x] \in targets[s]} :
        \/ "empty_replan" \in Faults
        \/ \A t \in targets[s] : \E x \in P : StepOf[x] = t}

RefreshInventories(s) ==
    /\ \/ \E plan \in Plans(s) : RefreshSucceeds(s, plan)
       \/ RefreshFails(s)
    /\ UNCHANGED <<runnerVars, workVars, local, starts, disturbances>>

RefreshCrashes(s) ==
    /\ refresher[s] # "none"
    /\ Disturb("refresh_crash")
    /\ RefreshAbandoned({s})
    /\ UNCHANGED <<runnerVars, workVars, local, starts>>

-----------------------------------------------------------------------------
(* The built-in local runner service, one slice at a time.                 *)

LocalBusy == local \in Slices \/ \E s \in Steps : refresher[s] = "local"

ClaimLocalSlice(x) ==
    /\ local = "idle"
    /\ ~LocalBusy
    /\ StartLocalSlice(x)
    /\ local' = x
    /\ starts' = [starts EXCEPT ![x] = @ + 1]
    /\ UNCHANGED <<runnerVars, workVars, disturbances>>

\* A completion that finds the slice no longer running is dropped.
FinishLocalSlice(status) ==
    /\ local \in Slices
    /\ IF slice[local] = "running"
       THEN CompleteSlice(local, status, "local")
       ELSE UNCHANGED rowVars
    /\ local' = "idle"
    /\ UNCHANGED <<runnerVars, workVars, starts, disturbances>>

LocalHeartbeat ==
    /\ local # "down"
    /\ age' = [age EXCEPT ![Local] = "healthy"]
    /\ reported' = [reported EXCEPT ![Local] = IF LocalBusy THEN 1 ELSE 0]
    /\ silent' = silent \ {Local}
    /\ UNCHANGED <<rowVars, draining, justStarted, workVars, local, starts, disturbances>>

CrashLocalRunner ==
    /\ local # "down"
    /\ Disturb("local_crash")
    /\ local' = "down"
    /\ RefreshAbandoned({s \in Steps : refresher[s] = "local"})
    /\ UNCHANGED <<runnerVars, workVars, starts>>

\* recover_orphaned_jobs returns at once unless the restart finds an orphaned
\* Job that was dispatched directly to the local runner (another Job).
RestartLocalRunner ==
    /\ local = "down"
    /\ \E orphanedDirectJobs \in BOOLEAN :
        local' = IF orphanedDirectJobs THEN "recovering" ELSE "idle"
    /\ age' = [age EXCEPT ![Local] = "healthy"]
    /\ reported' = [reported EXCEPT ![Local] = 0]
    /\ silent' = silent \ {Local}
    /\ UNCHANGED <<rowVars, draining, justStarted, workVars, starts, disturbances>>

OrphanedLocalSlices ==
    {x \in Slices : /\ Target[x] = Local
                    /\ slice[x] = "running"
                    /\ job \in {"running", "cancelling"}}

RecoverLocalSlice(x) ==
    /\ local = "recovering"
    /\ x \in OrphanedLocalSlices
    /\ CompleteSlice(x, IF job = "cancelling" THEN "cancelled" ELSE "failed", "local")
    /\ UNCHANGED <<runnerVars, workVars, local, starts, disturbances>>

EndLocalRecovery ==
    /\ local = "recovering"
    /\ OrphanedLocalSlices = {}
    /\ local' = "idle"
    /\ UNCHANGED <<rowVars, runnerVars, workVars, starts, disturbances>>

-----------------------------------------------------------------------------
RemoteStep ==
    \/ \E x \in Slices, t \in Tokens : ClaimSlice(x, t)
    \/ \E t \in Tokens :
        \/ ArtifactPreparationFails(t) \/ ReceiveAssignment(t) \/ LoseAssignment(t)
        \/ StartExecution(t) \/ AbandonAssignment(t) \/ LoseStartAnswer(t)
        \/ \E status \in FinalSliceStatuses : FinishExecution(t, status)
        \/ DeliverCompletion(t)
    \/ \E r \in Runners : CrashRunner(r) \/ RestartRunner(r) \/ RunnerHeartbeat(r)
    \/ \E r \in AllRunners : HeartbeatAges(r)

ServerStep ==
    \/ PollWithoutClaim
    \/ \E x \in Slices : EnvironmentOutOfDate(x) \/ RecoverLostSlice(x) \/ RecoverStaleSlice(x)
    \/ RecoverStaleCancelling
    \/ CancelJob
    \/ ContinueJob
    \/ \E r \in Runners : DrainRunner(r) \/ ReleaseDrain(r)
    \/ \E s \in Steps : RefreshInventories(s) \/ RefreshCrashes(s)

LocalStep ==
    \/ \E x \in Slices : ClaimLocalSlice(x) \/ RecoverLocalSlice(x)
    \/ \E status \in FinalSliceStatuses : FinishLocalSlice(status)
    \/ LocalHeartbeat
    \/ CrashLocalRunner
    \/ RestartLocalRunner
    \/ EndLocalRecovery

Next == RemoteStep \/ ServerStep \/ LocalStep

Spec == Init /\ [][Next]_vars

\* The services keep running: worker threads and the spool of a live runner
\* make progress, playbooks end (JOB_TIMEOUT_SECONDS), heartbeats are sent,
\* runners with a free slot poll, the scheduler repeats its passes and systemd
\* restarts the local runner.  Nobody has to cancel or to continue a Job, to
\* restart a remote runner or to release a drain.
Fairness ==
    /\ \A t \in Tokens :
        /\ WF_vars(ReceiveAssignment(t))
        /\ WF_vars(StartExecution(t) \/ AbandonAssignment(t))
        /\ WF_vars(\E status \in FinalSliceStatuses : FinishExecution(t, status))
        /\ WF_vars(DeliverCompletion(t))
    /\ \A x \in Slices :
        /\ WF_vars(\E t \in Tokens : ClaimSlice(x, t))
        /\ WF_vars(ClaimLocalSlice(x))
        /\ WF_vars(RecoverLostSlice(x))
        /\ WF_vars(RecoverStaleSlice(x))
        /\ WF_vars(RecoverLocalSlice(x))
    /\ \A r \in Runners : WF_vars(RunnerHeartbeat(r))
    /\ \A r \in AllRunners : WF_vars(r \notin up /\ HeartbeatAges(r))
    /\ \A s \in Steps : WF_vars(RefreshInventories(s))
    /\ WF_vars(RecoverStaleCancelling)
    /\ WF_vars(\E status \in FinalSliceStatuses : FinishLocalSlice(status))
    /\ WF_vars(LocalHeartbeat)
    /\ WF_vars(RestartLocalRunner)
    /\ WF_vars(EndLocalRecovery)

FairSpec == Spec /\ Fairness

-----------------------------------------------------------------------------
(* Safety.  The properties of the rows alone are in JobRows.               *)

\* The playbook of a slice is started at most once: revoked, lost, restarted
\* and replayed assignments never run the same hosts again.
StartedAtMostOnce == \A x \in Slices : starts[x] <= 1

\* The dispatch token of a slice is set exactly while a remote assignment of it
\* is active, so a worker whose assignment was revoked, lost or cancelled can
\* neither start nor complete it, and no two slices share a token.
TokenMeansAssigned ==
    /\ \A x \in Slices :
        token[x] # NoToken <=> Target[x] # Local /\ slice[x] \in {"assigned", "running"}
    /\ \A x, y \in Slices : token[x] = token[y] /\ token[x] # NoToken => x = y

\* Work that a worker executes on a runner that is heard of is never ended
\* behind its back, neither by a recovery pass nor by a cancellation.
LiveWorkIsSpared ==
    [][\A t \in Tokens :
        LET x == workSlice[t] IN
        /\ work[t] = "executing" /\ work'[t] = "executing"
        /\ slice[x] = "running" /\ token[x] = t
        /\ age[Target[x]] # "offline"
        => slice'[x] = "running"]_vars

Lifecycle == INSTANCE JobLifecycle WITH status <- job, begun <- started

\* The status column changes only as JobLifecycle allows.
ImplementsLifecycle == Lifecycle!Spec

-----------------------------------------------------------------------------
(* Liveness, under FairSpec.                                               *)

\* A Job that was asked to stop ends cancelled, whatever happens to the
\* runners and processes that work on it.
StopRequestIsHonoured == job = "cancelling" ~> job = "cancelled"

\* An assignment that the server has handed out and no process knows of.
AssignmentLost ==
    \E x \in Slices : slice[x] = "assigned" /\ work[token[x]] = "gone"

\* While the local runner service is at work, the slice that the rows show as
\* running on it is the one it executes.
LocalSliceIsExecuted ==
    \A x \in Slices :
        /\ Target[x] = Local /\ slice[x] = "running"
        /\ local \notin {"down", "recovering"}
        => local = x

\* What only a stop request ends: an assignment that no process knows of, a
\* running step of which every slice has ended, a local slice that the local
\* service does not execute, a Job whose last step did not end it.
Wreck ==
    \/ AssignmentLost
    \/ ~NoStepLeftBehind
    \/ ~LocalSliceIsExecuted
    \/ ~LastStepEndsJob

\* A Job ends or pauses for Oversight: completions, failures, lost runners and
\* refreshes always leave somebody who brings it forward, unless a fault left
\* one of the four wrecks and nobody asked the Job to stop.
JobGetsSettled ==
    \/ <>(job \in TerminalJobStatuses \cup {"waiting_oversight"})
    \/ <>[]Wreck

=============================================================================

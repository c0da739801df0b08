----------------------------- MODULE DirectJobs -----------------------------
(***************************************************************************)
(* Jobs of the queue of a Project that one remote runner executes as a     *)
(* whole (dispatch target "remote"): assignment under a dispatch token,    *)
(* start, completion, cancellation, and recovery when the runner is lost   *)
(* or has forgotten the Job.  A claimed Job stays queued until its runner  *)
(* starts it.                                                              *)
(***************************************************************************)
EXTENDS ProjectQueue

CONSTANTS
    Runners,    \* remote runners, which are starters too
    NoRunner,   \* no runner is assigned
    MaxTokens,  \* bound on the assignments
    MaxDisturbances  \* bound on policy edits, lost contacts and restarts

ASSUME RunnersAreStarters ==
    /\ Runners \subseteq Starters
    /\ NoRunner \notin Runners
    /\ MaxTokens \in Nat \ {0}
    /\ MaxDisturbances \in Nat

VARIABLES
    assignee,   \* runner that each Job is assigned to
    token,      \* dispatch token of each Job, 0 when it has none
    issued,     \* the last token that was issued
    work,       \* runner -> what its worker holds: Job, token, phase, result
    offline,    \* runners whose heartbeats stopped
    executions, \* how often the playbooks of each Job were run
    disturbances  \* policy edits, lost contacts and restarts so far

directVars == <<assignee, token, issued, work, offline, executions>>
vars == <<queueVars, directVars, disturbances>>

Free == [job |-> NoJob, token |-> 0, phase |-> "free", result |-> "none"]

Results == {"successful", "failed", "cancelled", "blocked_step"}

DirectInit ==
    /\ Init
    /\ assignee = [j \in Jobs |-> NoRunner]
    /\ token = [j \in Jobs |-> 0]
    /\ issued = 0
    /\ work = [r \in Runners |-> Free]
    /\ offline = {}
    /\ executions = [j \in Jobs |-> 0]
    /\ disturbances = 0

\* An online runner with free capacity polls; CheckStart finds a Job for it.
PollForJob(r, j) ==
    /\ r \notin offline
    /\ work[r].phase = "free"
    /\ assignee[j] = NoRunner
    /\ CheckStart(r, j)
    /\ UNCHANGED directVars

\* The conditional UPDATE of the claim; the answer may be lost on its way.
AssignJob(r) ==
    LET j == starting[r] IN
    /\ j \in RemoteJobs
    /\ starting' = [starting EXCEPT ![r] = NoJob]
    /\ IF job[j].status = "queued" /\ assignee[j] = NoRunner
       THEN /\ issued < MaxTokens
            /\ issued' = issued + 1
            /\ assignee' = [assignee EXCEPT ![j] = r]
            /\ token' = [token EXCEPT ![j] = issued + 1]
            /\ work' \in {work, [work EXCEPT ![r] = [job |-> j, token |-> issued + 1,
                                                     phase |-> "received", result |-> "none"]]}
       ELSE UNCHANGED <<assignee, token, issued, work>>
    /\ UNCHANGED <<policy, lock, launch, stamp, job, offline, executions>>

AssignmentMatches(r) ==
    /\ work[r].job \in Jobs
    /\ assignee[work[r].job] = r
    /\ token[work[r].job] = work[r].token

Report(r, result) == [work EXCEPT ![r].phase = "reporting", ![r].result = result]

\* The start is acknowledged; the playbooks run if the answer arrives.
StartRemoteJob(r) ==
    LET j == work[r].job IN
    /\ work[r].phase = "received"
    /\ r \notin offline
    /\ AssignmentMatches(r)
    /\ job[j].status \in {"queued", "running", "cancelling"}
    /\ job' = [job EXCEPT ![j].status = IF @ = "queued" THEN "running" ELSE @]
    /\ \/ work' = [work EXCEPT ![r].phase = "running"]
          /\ executions' = [executions EXCEPT ![j] = @ + 1]
       \/ work' = Report(r, "failed") /\ UNCHANGED executions
    /\ UNCHANGED <<policy, lock, launch, stamp, starting, assignee, token, issued, offline>>

\* The start is refused, or the preparation of the workspace fails.
GiveUpJob(r) ==
    /\ work[r].phase = "received"
    /\ work' = Report(r, "failed")
    /\ UNCHANGED <<queueVars, assignee, token, issued, offline, executions>>

\* The worker's playbooks end.  It is told of a stop when it asks; a step that
\* is blocked behind a failed one is reported as such.
FinishPlaybooks(r) ==
    /\ work[r].phase = "running"
    /\ \E result \in Results :
          /\ result = "cancelled" => job[work[r].job].status = "cancelling"
          /\ work' = Report(r, result)
    /\ UNCHANGED <<queueVars, assignee, token, issued, offline, executions>>

\* Whether complete_remote_job records the result of this worker.
CompletionAccepted(r) ==
    /\ AssignmentMatches(r)
    /\ work[r].result # "blocked_step"
    /\ job[work[r].job].status \in {"running", "cancelling"}
    /\ ~(job[work[r].job].status = "cancelling" /\ work[r].result = "successful")

\* The report is recorded or refused.  A refused one stays in the spool and is
\* sent again; once it can no longer be accepted it changes nothing any more.
CompleteRemoteJob(r) ==
    LET j == work[r].job IN
    /\ work[r].phase = "reporting"
    /\ r \notin offline
    /\ work' = [work EXCEPT ![r] = Free]
    /\ IF CompletionAccepted(r)
       THEN /\ job' = [job EXCEPT ![j].status = "ended"]
            /\ token' = [token EXCEPT ![j] = 0]
       ELSE UNCHANGED <<job, token>>
    /\ UNCHANGED <<policy, lock, launch, stamp, starting, assignee, issued, offline, executions>>

GoOffline(r) ==
    /\ r \notin offline
    /\ offline' = offline \cup {r}
    /\ UNCHANGED <<queueVars, assignee, token, issued, work, executions>>

ComeBack(r) ==
    /\ r \in offline
    /\ offline' = offline \ {r}
    /\ UNCHANGED <<queueVars, assignee, token, issued, work, executions>>

\* The runner is restarted: its worker is gone, its spool is kept.
CrashRunner(r) ==
    /\ work[r].phase \in {"received", "running"}
    /\ work' = [work EXCEPT ![r] = Free]
    /\ UNCHANGED <<queueVars, assignee, token, issued, offline, executions>>

\* Mutant: a Job that had started is sent to another runner as well.
RecoverLostJob_Requeue(j) ==
    /\ assignee[j] \in offline
    /\ job[j].status \in {"queued", "running", "cancelling"}
    /\ assignee' = [assignee EXCEPT ![j] = NoRunner]
    /\ job' = [job EXCEPT ![j].status = IF @ = "cancelling" THEN "ended" ELSE "queued"]
    /\ token' = [token EXCEPT ![j] = 0]
    /\ UNCHANGED <<policy, lock, launch, stamp, starting, issued, work, offline, executions>>

\* The Job of an offline runner returns to the queue if it has not started.
RecoverLostJob(j) ==
    /\ assignee[j] \in offline
    /\ job[j].status \in {"queued", "running", "cancelling"}
    /\ IF job[j].status = "queued"
       THEN assignee' = [assignee EXCEPT ![j] = NoRunner] /\ UNCHANGED job
       ELSE job' = [job EXCEPT ![j].status = "ended"] /\ UNCHANGED assignee
    /\ token' = [token EXCEPT ![j] = 0]
    /\ UNCHANGED <<policy, lock, launch, stamp, starting, issued, work, offline, executions>>

\* The scheduler ends a Job whose healthy runner has long reported no work, and
\* a stopping one whose runner is idle or offline.
RecoverStaleJob(j) ==
    LET r == assignee[j] IN
    /\ r \in Runners
    /\ \/ job[j].status \in {"running", "cancelling"} /\ r \notin offline /\ work[r].phase = "free"
       \/ job[j].status = "cancelling" /\ r \in offline
    /\ job' = [job EXCEPT ![j].status = "ended"]
    /\ token' = [token EXCEPT ![j] = 0]
    /\ UNCHANGED <<policy, lock, launch, stamp, starting, assignee, issued, work, offline, executions>>

Disturbance ==
    \/ EditPolicy /\ UNCHANGED directVars
    \/ \E r \in Runners : GoOffline(r) \/ CrashRunner(r)

RunnerStep ==
    \E r \in Runners :
        \/ AssignJob(r) \/ StartRemoteJob(r) \/ GiveUpJob(r) \/ FinishPlaybooks(r)
        \/ CompleteRemoteJob(r) \/ ComeBack(r)
        \/ \E j \in RemoteJobs : PollForJob(r, j)

RecoveryStep == \E j \in RemoteJobs : RecoverLostJob(j) \/ RecoverStaleJob(j)

QueueStep ==
    /\ LaunchStep \/ StartStep \/ JobStep \/ \E j \in RemoteJobs : StopJob(j)
    /\ UNCHANGED directVars

Next ==
    \/ (QueueStep \/ RunnerStep \/ RecoveryStep) /\ UNCHANGED disturbances
    \/ Disturbance /\ disturbances < MaxDisturbances /\ disturbances' = disturbances + 1

\* Pollers poll, the scheduler recovers, playbooks end, and a runner that went
\* offline comes back or stays away; nobody is obliged to launch, cancel,
\* pause or continue.
Fairness ==
    /\ \A w \in Starters, j \in Jobs \ RemoteJobs :
          WF_vars(CheckStart(w, j) /\ UNCHANGED <<directVars, disturbances>>)
    /\ \A w \in Starters : WF_vars(ConfirmStart(w) /\ UNCHANGED <<directVars, disturbances>>)
    /\ \A j \in Jobs \ RemoteJobs :
          WF_vars((FinishJob(j) \/ EndStoppedJob(j)) /\ UNCHANGED <<directVars, disturbances>>)
    /\ \A r \in Runners, j \in RemoteJobs : WF_vars(PollForJob(r, j) /\ UNCHANGED disturbances)
    /\ \A r \in Runners :
          /\ WF_vars(AssignJob(r) /\ UNCHANGED disturbances)
          /\ WF_vars((StartRemoteJob(r) \/ GiveUpJob(r) \/ FinishPlaybooks(r)) /\ UNCHANGED disturbances)
          /\ WF_vars(CompleteRemoteJob(r) /\ UNCHANGED disturbances)
    /\ WF_vars(RecoveryStep /\ UNCHANGED disturbances)

Spec == DirectInit /\ [][Next]_vars
FairSpec == Spec /\ Fairness

-----------------------------------------------------------------------------
\* A runner that is not the assigned one, or that holds a superseded token,
\* never gets a Job started: the playbooks of a direct Job run once at most,
\* whatever is lost, requeued or restarted (start_remote_job, assignment_matches,
\* recover_lost_runner_jobs).
RunAtMostOnce == \A j \in RemoteJobs : executions[j] <= 1

\* What a worker runs is known: its Job has left the queue and is assigned to
\* this runner, and only a recovery or a stop can have ended it meanwhile.
RunningWorkIsKnown ==
    \A r \in Runners :
        work[r].phase = "running" =>
            /\ assignee[work[r].job] = r
            /\ job[work[r].job].status # "queued"

\* No late claim, start, completion or recovery moves a Job that has ended.
EndedJobsStayEnded ==
    [][\A j \in Jobs : job[j].status = "ended" => job'[j].status = "ended"]_vars

\* i keeps j from starting, or from dispatching more slices.
KeepsWaiting(i, j) ==
    /\ job[j].policy = "serialized" /\ job[j].status \in {"queued", "running"}
    /\ i \in ActiveJobs \ {j}
    /\ ~(job[i].status = "queued" /\ Before(j, i))

\* Two serialized Jobs wait for each other: one executes, the other was stamped
\* earlier and committed later by a launch that had lost its lock.
MutualWait ==
    \E i, j \in Jobs : KeepsWaiting(i, j) /\ KeepsWaiting(j, i)

\* Waiting is for a Job that can go on: with every launch under its lock, two
\* Jobs never wait for each other (serialized_blocking_job).
WaitingNeedsLateCommit ==
    \A i, j \in Jobs :
        (KeepsWaiting(i, j) /\ KeepsWaiting(j, i)) => ~job[i].locked \/ ~job[j].locked

\* A claimed Job whose runner never got, or has forgotten, the assignment: it
\* stays queued while that runner is online, for no recovery looks at it.
AssignmentForgotten(j) == job[j].status = "queued" /\ assignee[j] # NoRunner

\* "Serialized - queue additional instances": a Job stays queued for ever only
\* behind a Job that keeps waiting for its reviewer, behind a mutual wait, or
\* because of a remote Job that was forgotten or that no runner is online for.
QueuedJobsGetTheirTurn ==
    \A j \in Jobs :
        <>[](job[j].status = "queued") =>
            \/ []<>(\E i \in Jobs : job[i].status = "waiting_oversight")
            \/ <>[]MutualWait
            \/ <>[](\E i \in RemoteJobs : AssignmentForgotten(i))
            \/ <>[](offline = Runners /\ \E i \in RemoteJobs : job[i].status = "queued")

=============================================================================

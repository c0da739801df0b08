---------------------------- MODULE ProjectQueue ----------------------------
(***************************************************************************)
(* The Jobs of one Project: how a launch or a rerun is admitted under the  *)
(* concurrency policy of the Project and how a queued Job gets its turn.   *)
(*                                                                         *)
(* A launch locks the Project's row, looks for a Job that rejects it, and  *)
(* commits its Job later.  A launch without a previewed inventory commits  *)
(* a repository synchronisation in between and loses the lock with it.     *)
(***************************************************************************)
EXTENDS Naturals

CONSTANTS
    Launchers,   \* web requests, reactors and schedulers that launch Jobs
    Refreshing,  \* the launchers that come without a previewed inventory
    Starters,    \* the processes that start or claim Jobs
    Nobody,      \* holder of no lock
    Signatures,  \* fingerprints of effective launch parameters
    Unsigned,    \* the missing fingerprint of a Job older than the feature
    Policies,    \* policies that the Project may be given
    MaxJobs,     \* bound on the Jobs
    RemoteJobs,  \* the Jobs sent as a whole to a remote runner
    MaxStamp     \* bound on the instants at which launches stamp their Job

ASSUME QueueAssumption ==
    /\ Refreshing \subseteq Launchers
    /\ Nobody \notin Launchers
    /\ Policies \subseteq {"unrestricted", "distinct_parameters", "serialized", "exclusive"}
    /\ MaxJobs \in Nat \ {0} /\ RemoteJobs \subseteq 1..MaxJobs
    /\ MaxStamp \in Nat \ {0}
    /\ Unsigned \notin Signatures

Jobs == 1..MaxJobs
NoJob == 0

Executing == {"running", "waiting_oversight", "cancelling"}
Active == {"queued"} \cup Executing
JobStatuses == {"none", "ended"} \cup Active

VARIABLES
    policy,    \* concurrency policy of the Project
    lock,      \* launcher that holds the row of the Project, or Nobody
    launch,    \* launcher -> how far its launch is and what it has read
    stamp,     \* the last instant given to a Job as queued_at
    job,       \* row of each Job, ids in the order of the commits
    starting   \* starter -> the queued Job it has found startable, or NoJob

queueVars == <<policy, lock, launch, stamp, job, starting>>

Idle == [at |-> "idle", policy |-> "unrestricted", signature |-> Unsigned, queued_at |-> 0]
NoRow == [status |-> "none", policy |-> "unrestricted", signature |-> Unsigned,
          queued_at |-> 0, locked |-> TRUE]

\* A Job queued before an upgrade has no fingerprint and the default policy.
OldJob == [NoRow EXCEPT !.status = "queued"]

Init ==
    /\ policy \in Policies
    /\ lock = Nobody
    /\ launch = [l \in Launchers |-> Idle]
    /\ stamp = 0
    /\ \E first \in {NoRow, OldJob} : job = [j \in Jobs |-> IF j = 1 THEN first ELSE NoRow]
    /\ starting = [w \in Starters |-> NoJob]

ActiveJobs == {j \in Jobs : job[j].status \in Active}

\* Mutant: a waiting or stopping Job no longer counts.
LaunchBlockers_Queued(p, signature) ==
    {j \in ActiveJobs :
        /\ job[j].status \in {"queued", "running"}
        /\ \/ p = "exclusive"
           \/ p = "distinct_parameters" /\ job[j].signature \in {signature, Unsigned}}

\* The active Jobs that reject a launch with this signature.
LaunchBlockers(p, signature) ==
    {j \in ActiveJobs :
        \/ p = "exclusive"
        \/ p = "distinct_parameters" /\ job[j].signature \in {signature, Unsigned}}

\* The order in which the Jobs of a Project take their turn.
Before(i, j) ==
    \/ job[i].queued_at < job[j].queued_at
    \/ job[i].queued_at = job[j].queued_at /\ i < j

\* Mutant: a queued Job never waits for another queued one.
JobCanStart_AnyTurn(j) ==
    job[j].policy = "serialized" =>
        \A i \in ActiveJobs \ {j} : job[i].status \notin Executing

\* Mutant: a queued Job waits for every other active one.
JobCanStart_Alone(j) == job[j].policy = "serialized" => ActiveJobs = {j}

JobCanStart(j) ==
    job[j].policy = "serialized" =>
        \A i \in ActiveJobs \ {j} : job[i].status = "queued" /\ Before(j, i)

\* The Project is enabled and no active Job rejects the launch.
BeginLaunch(l) ==
    /\ launch[l].at = "idle"
    /\ lock = Nobody
    /\ \E signature \in Signatures :
          /\ LaunchBlockers(policy, signature) = {}
          /\ launch' = [launch EXCEPT ![l] =
                           [at |-> IF l \in Refreshing THEN "syncing" ELSE "planning",
                            policy |-> policy, signature |-> signature, queued_at |-> 0]]
    /\ lock' = l
    /\ UNCHANGED <<policy, stamp, job, starting>>

\* The commit of a synchronised repository ends the transaction of the lock.
SyncRepositories(l) ==
    /\ launch[l].at = "syncing"
    /\ launch' = [launch EXCEPT ![l].at = "planning"]
    /\ lock' = Nobody
    /\ UNCHANGED <<policy, stamp, job, starting>>

\* A validation, a synchronisation or the final commit fails.
AbandonLaunch(l) ==
    /\ launch[l].at # "idle"
    /\ launch' = [launch EXCEPT ![l] = Idle]
    /\ lock' = IF lock = l THEN Nobody ELSE lock
    /\ UNCHANGED <<policy, stamp, job, starting>>

\* The Job object is built and its queued_at read from the clock.
StampJob(l) ==
    /\ launch[l].at = "planning"
    /\ stamp < MaxStamp
    /\ stamp' = stamp + 1
    /\ launch' = [launch EXCEPT ![l].at = "snapshotting", ![l].queued_at = stamp + 1]
    /\ UNCHANGED <<policy, lock, job, starting>>

\* Ids are given in the order of the commits.
NextId(j) == job[j].status = "none" /\ \A i \in 1..(j - 1) : job[i].status # "none"

\* The row refers to the Project's, so its insertion waits for a lock on it.
CommitLaunch(l) ==
    /\ launch[l].at = "snapshotting"
    /\ lock \in {l, Nobody}
    /\ \E j \in Jobs :
          /\ NextId(j)
          /\ job' = [job EXCEPT ![j] =
                        [status |-> "queued", policy |-> launch[l].policy,
                         signature |-> launch[l].signature,
                         queued_at |-> launch[l].queued_at, locked |-> lock = l]]
    /\ launch' = [launch EXCEPT ![l] = Idle]
    /\ lock' = Nobody
    /\ UNCHANGED <<policy, stamp, starting>>

\* An administrator saves the Project with another policy.
EditPolicy ==
    /\ lock = Nobody
    /\ policy' \in Policies \ {policy}
    /\ UNCHANGED <<lock, launch, stamp, job, starting>>

CheckStart(w, j) ==
    /\ starting[w] = NoJob
    /\ job[j].status = "queued"
    /\ JobCanStart(j)
    /\ starting' = [starting EXCEPT ![w] = j]
    /\ UNCHANGED <<policy, lock, launch, stamp, job>>

\* A conditional UPDATE: it finds the Job still queued or does nothing.
ConfirmStart(w) ==
    /\ starting[w] \in Jobs \ RemoteJobs
    /\ job' = [job EXCEPT ![starting[w]].status = IF @ = "queued" THEN "running" ELSE @]
    /\ starting' = [starting EXCEPT ![w] = NoJob]
    /\ UNCHANGED <<policy, lock, launch, stamp>>

MoveJob(j, from, to) ==
    /\ job[j].status \in from
    /\ job' = [job EXCEPT ![j].status = to]
    /\ UNCHANGED <<policy, lock, launch, stamp, starting>>

CancelJob(j) == MoveJob(j, {"queued", "waiting_oversight"}, "ended")
StopJob(j) == MoveJob(j, {"running"}, "cancelling")
PauseJob(j) == MoveJob(j, {"running"}, "waiting_oversight")
ContinueJob(j) == MoveJob(j, {"waiting_oversight"}, "running")

\* The slices of a running Job are claimed under the same turn-taking.
FinishJob(j) == JobCanStart(j) /\ MoveJob(j, {"running"}, "ended")
EndStoppedJob(j) == MoveJob(j, {"cancelling"}, "ended")

LaunchStep ==
    \E l \in Launchers : \/ BeginLaunch(l) \/ SyncRepositories(l) \/ StampJob(l)
                         \/ CommitLaunch(l) \/ AbandonLaunch(l)

StartStep ==
    \E w \in Starters : ConfirmStart(w) \/ \E j \in Jobs \ RemoteJobs : CheckStart(w, j)

JobStep ==
    \E j \in Jobs : \/ CancelJob(j)
                    \/ j \notin RemoteJobs /\ \/ StopJob(j) \/ PauseJob(j) \/ ContinueJob(j)
                                              \/ FinishJob(j) \/ EndStoppedJob(j)

QueueNext == EditPolicy \/ LaunchStep \/ StartStep \/ JobStep

QueueSpec == Init /\ [][QueueNext]_queueVars

-----------------------------------------------------------------------------
QueueTypeOK ==
    /\ policy \in Policies
    /\ lock \in Launchers \cup {Nobody}
    /\ launch \in [Launchers ->
           [at : {"idle", "syncing", "planning", "snapshotting"},
            policy : Policies \cup {"unrestricted"},
            signature : Signatures \cup {Unsigned}, queued_at : 0..MaxStamp]]
    /\ stamp \in 0..MaxStamp
    /\ job \in [Jobs -> [status : JobStatuses, policy : Policies \cup {"unrestricted"},
                         signature : Signatures \cup {Unsigned}, queued_at : 0..MaxStamp,
                         locked : BOOLEAN]]
    /\ starting \in [Starters -> Jobs \cup {NoJob}]

\* A launch that kept its lock was alone when it was admitted: every Job
\* committed before an exclusive one has ended, and so has every earlier Job
\* with the parameters of a distinct one, whoever launched it and however long
\* its own launch took (launch_blocking_job under locked_project).
AdmittedAlone ==
    \A i, j \in Jobs :
        (i < j /\ job[i].status \in Active /\ job[j].status \in Active /\ job[j].locked) =>
            /\ job[j].policy # "exclusive"
            /\ job[j].policy = "distinct_parameters" =>
                   job[i].signature \notin {job[j].signature, Unsigned}

\* A serialized Job executes only when each Job that was queued before it under
\* the lock has ended, although the check and the claim are two transactions
\* and Jobs are committed, started and cancelled between them
\* (serialized_blocking_job, claim_next_remote_job, claim_next_remote_slice).
SerializedInOrder ==
    \A i, j \in Jobs :
        /\ job[j].policy = "serialized" /\ job[j].status \in Executing
        /\ job[i].locked /\ job[i].status # "none" /\ Before(i, j)
        => job[i].status = "ended"

\* What the Project form promises: an exclusive Project never has two active
\* Jobs, "regardless of whether it is launched directly, through a Package,
\* schedule, Reaction, API, or rerun" (app/templates/project_form.html).
ExclusiveForEveryLaunch ==
    \A i, j \in ActiveJobs :
        (i # j /\ job[i].policy = "exclusive") => job[j].policy # "exclusive"

=============================================================================

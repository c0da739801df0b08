---------------------------- MODULE RunnerUpkeep ----------------------------
(***************************************************************************)
(* What a remote runner does beside Jobs: it builds the Environment that   *)
(* is synchronized to it, and the "Manage Remote Runner -> Update" Job     *)
(* drains it, re-enrols it if its registration is lost and restarts it.    *)
(* All of it goes over the identity of RunnerIdentity.  One runner, one    *)
(* Environment, one Update at a time.                                      *)
(***************************************************************************)
EXTENDS RunnerIdentity

CONSTANTS MaxRevision, MaxSyncs, MaxUpdates     \* bounds

ASSUME UpkeepAssumption == MaxRevision \in Nat /\ MaxSyncs \in Nat /\ MaxUpdates \in Nat

VARIABLES
    revision,       \* of the Environment's definition
    sync,           \* the row of this runner and Environment: status, revision
    claim,          \* a claim of it that has not committed: phase, drained meanwhile
    agent,          \* the runner's main loop: phase, label and content of the build
    disk,           \* the Environment on the runner, in a set: label and content
    row,            \* the revision the controller takes to be ready, in a set
    heartbeat,      \* a heartbeat under way: the label it carries, in a set
    drain,          \* runner.drain_job_id
    update,         \* the Update Job: status, saw the quarantine, enrolled
    used,           \* counts synchronizations and Updates
    lapses          \* history: what crossed what

vars == <<identityVars, revision, sync, claim, agent, disk, row, heartbeat, drain, update,
          used, lapses>>
syncVars == <<revision, sync, claim, agent, disk, row, heartbeat>>

Idle == [at |-> "idle", label |-> 0, content |-> 0]
NoClaim == [at |-> "rest", crossed |-> FALSE]
NoUpdate == [status |-> "none", saw |-> FALSE, enrolled |-> FALSE]

Init ==
    /\ IdentityInit
    /\ revision = 1
    /\ sync = [status |-> "none", revision |-> 0]
    /\ claim = NoClaim /\ agent = Idle
    /\ disk = {} /\ row = {} /\ heartbeat = [sent |-> FALSE, label |-> {}]
    /\ drain = FALSE /\ update = NoUpdate
    /\ used = [syncs |-> 0, updates |-> 0]
    /\ lapses = {}

\* runner_health, of a registered runner whose heartbeats arrive.
Healthy == Authenticated /\ ~quarantined /\ ~drain

Labels == {built.label : built \in disk}

-----------------------------------------------------------------------------
(* Environment synchronization.                                            *)

EditEnvironment ==
    /\ revision < MaxRevision
    /\ revision' = revision + 1
    /\ claim' = [claim EXCEPT !.crossed = claim.at = "read"]
    /\ UNCHANGED <<identityVars, sync, agent, disk, row, heartbeat, drain, update, used, lapses>>

\* queue_environment_sync: the row is used again whatever its status is.
QueueSync ==
    /\ used.syncs < MaxSyncs
    /\ used' = [used EXCEPT !.syncs = @ + 1]
    /\ sync' = [status |-> "queued", revision |-> revision]
    /\ lapses' = lapses \cup (IF sync.status = "building" THEN {"requeued"} ELSE {})
    /\ UNCHANGED <<identityVars, revision, claim, agent, disk, row, heartbeat, drain, update>>

\* claim_next_environment_sync asks for the runner's health once and reads the
\* oldest queued row; an outdated one is failed...
BeginClaim ==
    /\ agent.at = "idle" /\ claim.at = "rest" /\ sync.status = "queued"
    /\ Healthy
    /\ \/ /\ sync.revision = revision
          /\ claim' = [at |-> "read", crossed |-> FALSE] /\ sync' = sync
       \/ /\ sync.revision # revision
          /\ sync' = [sync EXCEPT !.status = "failed"] /\ claim' = claim
    /\ UNCHANGED <<identityVars, revision, agent, disk, row, heartbeat, drain, update, used,
                   lapses>>

\* ... and takes it if it is still queued.  The manifest is made from the row
\* and the Environment as they are then; it may not reach the runner.
CommitClaim ==
    /\ claim.at = "read"
    /\ IF sync.status # "queued"
       THEN /\ claim' = NoClaim
            /\ UNCHANGED <<sync, agent, faults, lapses>>
       ELSE /\ claim' = NoClaim
            /\ sync' = [sync EXCEPT !.status = "building"]
            /\ \/ /\ agent' = [at |-> "building", label |-> sync.revision, content |-> revision]
                  /\ faults' = faults
               \/ Faulty /\ agent' = agent
            /\ lapses' = lapses \cup (IF drain THEN {"drained"} ELSE {})
                                \cup (IF claim.crossed THEN {"edited"} ELSE {})
    /\ UNCHANGED <<day, issued, recorded, installed, renewal, quarantined, scheduler, request,
                   registered, causes, revision, disk, row, heartbeat, drain, update, used>>

\* synchronize_execution_environment: what is there already under that label is
\* taken for it; a build that fails puts the previous Environment back.
Build ==
    /\ agent.at = "building"
    /\ \/ /\ agent.label \in Labels
          /\ disk' = disk /\ agent' = [agent EXCEPT !.at = "ready", !.content = 0]
       \/ /\ agent.label \notin Labels
          /\ disk' = {[label |-> agent.label, content |-> agent.content]}
          /\ agent' = [agent EXCEPT !.at = "ready", !.content = 0]
       \/ /\ agent.label \notin Labels
          /\ disk' = disk /\ agent' = [Idle EXCEPT !.at = "failed"]
    /\ UNCHANGED <<identityVars, revision, sync, claim, row, heartbeat, drain, update, used, lapses>>

\* Mutant: a build is taken for whatever the row asks for now.
Report_AnyRevision ==
    /\ agent.at \in {"ready", "failed"} /\ agent' = Idle
    /\ IF Authenticated
       THEN IF agent.at = "failed"
            THEN sync' = [sync EXCEPT !.status = "failed"] /\ row' = row
            ELSE /\ sync' = [sync EXCEPT !.status = "successful"]
                 /\ row' = {sync.revision}
       ELSE UNCHANGED <<sync, row>>
    /\ UNCHANGED <<identityVars, revision, claim, disk, heartbeat, drain, update, used, lapses>>

\* complete_environment_sync; the runner reports once, and forgets the answer.
Report ==
    /\ agent.at \in {"ready", "failed"} /\ agent' = Idle
    /\ IF Authenticated /\ sync.status = "building"
          /\ (agent.at = "ready" => agent.label = sync.revision)
       THEN IF agent.at = "failed"
            THEN sync' = [sync EXCEPT !.status = "failed"] /\ row' = row
            ELSE /\ sync' = [sync EXCEPT !.status = "successful"]
                 /\ row' = {sync.revision}
       ELSE UNCHANGED <<sync, row>>
    /\ UNCHANGED <<identityVars, revision, claim, disk, heartbeat, drain, update, used, lapses>>

\* The report is lost, or the runner's service is restarted.
LoseReport ==
    /\ agent.at # "idle" /\ Faulty
    /\ agent' = Idle
    /\ UNCHANGED <<day, issued, recorded, installed, renewal, quarantined, scheduler, request,
                   registered, causes, revision, sync, claim, disk, row, heartbeat, drain, update,
                   used, lapses>>

\* Its heartbeat thread looks at the disk and sends what it saw...
SendHeartbeat ==
    /\ ~heartbeat.sent
    /\ heartbeat' = [sent |-> TRUE, label |-> Labels]
    /\ UNCHANGED <<identityVars, revision, sync, claim, agent, disk, row, drain, update, used, lapses>>

\* ... which replaces what the controller knows (set_reported_runner_environments).
ReceiveHeartbeat ==
    /\ heartbeat.sent
    /\ heartbeat' = [sent |-> FALSE, label |-> {}]
    /\ row' = IF Authenticated THEN heartbeat.label ELSE row
    /\ UNCHANGED <<identityVars, revision, sync, claim, agent, disk, drain, update, used, lapses>>

-----------------------------------------------------------------------------
(* The Update Job.                                                         *)

RequestUpdate ==
    /\ update.status = "none" /\ used.updates < MaxUpdates
    /\ used' = [used EXCEPT !.updates = @ + 1]
    /\ update' = [NoUpdate EXCEPT !.status = "queued"]
    /\ UNCHANGED <<identityVars, syncVars, drain, lapses>>

\* Mutant: a synchronization that waits counts as work.
HasActiveWork_Queued == sync.status \in {"queued", "building"}

\* Mutant: synchronizations are no work.
HasActiveWork_Never == FALSE

\* runner_has_active_work, as far as synchronizations go.
HasActiveWork == sync.status = "building"

\* management_job_ready_to_start: the drain is established before it asks.
Drain ==
    /\ update.status = "queued" /\ HasActiveWork /\ ~drain
    /\ drain' = TRUE
    /\ UNCHANGED <<identityVars, syncVars, update, used, lapses>>

StartUpdate ==
    /\ update.status = "queued" /\ ~HasActiveWork
    /\ drain' = TRUE
    /\ update' = [update EXCEPT !.status = "running", !.saw = quarantined]
    /\ UNCHANGED <<identityVars, syncVars, used, lapses>>

\* manage-remote-runner.yml enrols a runner that has no registration.
EnrolRunner ==
    /\ update.status = "running" /\ ~update.enrolled
    /\ ~registered
    /\ Enrol /\ registered' = registered
    /\ update' = [update EXCEPT !.enrolled = TRUE]
    /\ UNCHANGED <<syncVars, drain, used, lapses>>

\* Mutant: the drain is left behind.
EndUpdate_Drained == update' = NoUpdate /\ drain' = drain

\* release_runner_drain_for_job, on any terminal status.
EndUpdate == update' = NoUpdate /\ drain' = FALSE

\* The service is restarted, with its new identity if it has one.
FinishUpdate ==
    /\ update.status = "running"
    /\ update.enrolled \/ registered
    /\ installed' = IF update.enrolled THEN Len(issued) ELSE installed
    /\ registered' = TRUE
    /\ agent' = Idle
    /\ EndUpdate
    /\ UNCHANGED <<day, issued, recorded, renewal, quarantined, scheduler, request, causes, faults,
                   revision, sync, claim, disk, row, heartbeat, used, lapses>>

\* It is cancelled, or its playbook fails.
AbandonUpdate ==
    /\ update.status # "none" /\ Faulty
    /\ EndUpdate
    /\ UNCHANGED <<day, issued, recorded, installed, renewal, quarantined, scheduler, request,
                   registered, causes, syncVars, used, lapses>>

-----------------------------------------------------------------------------
UpkeepStep ==
    \/ EditEnvironment \/ QueueSync \/ BeginClaim \/ CommitClaim
    \/ Build \/ Report \/ LoseReport \/ SendHeartbeat \/ ReceiveHeartbeat
    \/ RequestUpdate \/ Drain \/ StartUpdate \/ EnrolRunner \/ FinishUpdate \/ AbandonUpdate

Next ==
    \/ UpkeepStep
    \/ /\ IdentityStep
       /\ UNCHANGED <<syncVars, drain, update, used, lapses>>

Spec == Init /\ [][Next]_vars

\* The runner polls for ever, web workers finish what they began, and the local
\* runner polls for Jobs and runs their playbooks to their end.
FairSpec ==
    /\ Spec
    /\ WF_vars(BeginClaim) /\ WF_vars(CommitClaim)
    /\ WF_vars(Build) /\ WF_vars(Report)
    /\ WF_vars(Drain \/ StartUpdate) /\ WF_vars(EnrolRunner \/ FinishUpdate)

-----------------------------------------------------------------------------
\* Types; what is on disk comes from a claim, so that nothing is built that no
\* definition ever was.
TypeOK ==
    /\ IdentityTypeOK
    /\ revision \in 1..MaxRevision
    /\ sync \in [status : {"none", "queued", "building", "successful", "failed"},
                 revision : 0..revision]
    /\ claim \in [at : {"rest", "read"}, crossed : BOOLEAN]
    /\ agent \in [at : {"idle", "building", "ready", "failed"}, label : 0..revision,
                  content : 0..revision]
    /\ \A built \in disk : built.label <= built.content /\ built.content <= revision
    /\ Cardinality(disk) <= 1 /\ row \subseteq 1..revision
    /\ drain \in BOOLEAN
    /\ update.status = "running" => drain

\* A revision on the runner is what it is called: a definition that changes
\* while it waits is not built under its old name, unless the change falls between
\* the comparison and the manifest (claim_next_environment_sync,
\* environment_sync_manifest).
LabelsAreTrue == "edited" \notin lapses => \A built \in disk : built.label = built.content

\* No report makes the controller believe in a revision that the runner does not
\* have, whatever was queued again meanwhile (complete_environment_sync); only a
\* heartbeat that is older than the build does, until the next one.
ReportsAreTrue ==
    [][(row' # row /\ heartbeat' = heartbeat) => row' \subseteq Labels']_vars

\* An Update never restarts a runner that is building, unless the claim was
\* checked before the drain, or the row was queued again during the build
\* (runner_draining.py, runner_has_active_work).
UpdateFindsRunnerIdle ==
    (update.status = "running" /\ agent.at # "idle") => lapses \cap {"drained", "requeued"} # {}

\* An Update that waits gets its turn, unless it waits for a build whose report
\* was lost or refused: nobody ends that one.
BuildForgotten == sync.status = "building" /\ agent.at = "idle"
UpdateGetsItsTurn == []<>(update.status # "queued" \/ BuildForgotten)

\* A synchronization that waits is claimed, unless the runner lost its identity:
\* no drain stays behind (release_runner_drain_for_job).  The bound on certificates
\* may stop an enrolment.
BoundReached == ~registered /\ Len(issued) = MaxCertificates
SyncGetsItsTurn ==
    []<>(sync.status # "queued" \/ quarantined \/ ~Authenticated \/ BoundReached)

\* "The supported recovery is Manage Remote Runner -> Update, which recognises the
\* quarantine, performs a fresh one-time enrolment" (RUNNER_TRANSPORT.md).
UpdateLiftsQuarantine == [][(update.saw /\ FinishUpdate) => ~quarantined']_vars

=============================================================================

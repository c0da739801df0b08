-------------------------- MODULE DirectJobsProofs --------------------------
(***************************************************************************)
(* Theorems about DirectJobs and the queue under it, for every number of   *)
(* launchers, starters, runners and Jobs.                                  *)
(***************************************************************************)
EXTENDS DirectJobs, TLAPS

Phases == {"free", "received", "running", "reporting"}

JobRow == [status : JobStatuses, policy : Policies \cup {"unrestricted"},
           signature : Signatures \cup {Unsigned}, queued_at : 0..MaxStamp, locked : BOOLEAN]
LaunchRow == [at : {"idle", "syncing", "planning", "snapshotting"},
              policy : Policies \cup {"unrestricted"},
              signature : Signatures \cup {Unsigned}, queued_at : 0..MaxStamp]
WorkRow == [job : Jobs \cup {NoJob}, token : Nat, phase : Phases, result : Results \cup {"none"}]

DirectTypeOK ==
    /\ assignee \in [Jobs -> Runners \cup {NoRunner}]
    /\ token \in [Jobs -> Nat] /\ issued \in Nat
    /\ work \in [Runners -> WorkRow]
    /\ executions \in [Jobs -> Nat]

-----------------------------------------------------------------------------
(* What a step may do to the rows of the Jobs.                             *)

\* j was given its turn: it executes, a starter found it startable, or it is
\* assigned to a runner.
HasTurn(j) ==
    \/ job[j].status \in Executing
    \/ \E w \in Starters : starting[w] = j
    \/ assignee[j] # NoRunner

\* No Job is committed, none that has ended moves, and only one that has its turn
\* starts to execute.
Advance ==
    \A j \in Jobs :
        /\ job'[j].policy = job[j].policy /\ job'[j].signature = job[j].signature
        /\ job'[j].queued_at = job[j].queued_at /\ job'[j].locked = job[j].locked
        /\ job'[j].status # job[j].status =>
              /\ job[j].status \in Active
              /\ job'[j].status \in Executing \cup {"ended"}
              /\ job'[j].status \in Executing => HasTurn(j)

\* j becomes the next Job of the Project.
Insertion(l, j) ==
    /\ NextId(j)
    /\ \A i \in Jobs \ {j} : job'[i] = job[i]
    /\ job'[j].status = "queued" /\ job'[j].policy = launch[l].policy
    /\ job'[j].signature = launch[l].signature
    /\ job'[j].queued_at = launch[l].queued_at /\ job'[j].locked = (lock = l)

\* One Job gets another status.
LEMMA OneJobMoves ==
    ASSUME QueueTypeOK, NEW j \in Jobs, NEW to \in Executing \cup {"ended"},
           job' = [job EXCEPT ![j].status = to],
           job[j].status = to \/ job[j].status \in Active,
           to \in Executing => HasTurn(j)
    PROVE  /\ job' \in [Jobs -> JobRow]
           /\ Advance
<1>1. job \in [Jobs -> JobRow]
  BY DEF QueueTypeOK, JobRow
<1>2. to \in JobStatuses
  BY DEF JobStatuses, Active
<1>3. job' \in [Jobs -> JobRow]
  BY <1>1, <1>2 DEF JobRow
<1>4. ASSUME NEW i \in Jobs
      PROVE  /\ job'[i].policy = job[i].policy /\ job'[i].signature = job[i].signature
             /\ job'[i].queued_at = job[i].queued_at /\ job'[i].locked = job[i].locked
             /\ job'[i].status = IF i = j THEN to ELSE job[i].status
  BY <1>1 DEF JobRow
<1> QED
  BY <1>3, <1>4 DEF Advance

LEMMA NoJobMoves ==
    ASSUME QueueTypeOK, UNCHANGED job
    PROVE  job' \in [Jobs -> JobRow] /\ Advance
BY DEF QueueTypeOK, JobRow, Advance

LEMMA JobIsInserted ==
    ASSUME QueueTypeOK, NEW l \in Launchers, CommitLaunch(l)
    PROVE  /\ job' \in [Jobs -> JobRow]
           /\ \E j \in Jobs : Insertion(l, j)
<1>1. job \in [Jobs -> JobRow] /\ launch[l] \in LaunchRow
  BY DEF QueueTypeOK, JobRow, LaunchRow
<1>2. PICK j \in Jobs :
        /\ NextId(j)
        /\ job' = [job EXCEPT ![j] = [status |-> "queued", policy |-> launch[l].policy,
                                      signature |-> launch[l].signature,
                                      queued_at |-> launch[l].queued_at, locked |-> lock = l]]
  BY DEF CommitLaunch
<1>3. (lock = l) \in BOOLEAN /\ "queued" \in JobStatuses
  BY DEF JobStatuses, Active
<1>4. [status |-> "queued", policy |-> launch[l].policy, signature |-> launch[l].signature,
       queued_at |-> launch[l].queued_at, locked |-> lock = l] \in JobRow
  BY <1>1, <1>3 DEF JobRow, LaunchRow
<1>5. job' \in [Jobs -> JobRow]
  BY <1>1, <1>2, <1>4
<1>6. Insertion(l, j)
  BY <1>1, <1>2 DEF Insertion
<1> QED
  BY <1>5, <1>6

\* CancelJob, StopJob, PauseJob, ContinueJob, FinishJob and EndStoppedJob.
LEMMA MovedJobs ==
    ASSUME QueueTypeOK,
           JobStep \/ (\E i \in RemoteJobs : StopJob(i))
    PROVE  /\ job' \in [Jobs -> JobRow] /\ Advance
           /\ UNCHANGED <<policy, lock, launch, stamp, starting>>
<1>a. RemoteJobs \subseteq Jobs
  BY QueueAssumption DEF Jobs
<1>b. "ended" \in Executing \cup {"ended"} /\ "ended" \notin Executing
  BY DEF Executing
<1>1. ASSUME NEW i \in Jobs, CancelJob(i)
      PROVE  /\ job' \in [Jobs -> JobRow] /\ Advance
             /\ UNCHANGED <<policy, lock, launch, stamp, starting>>
  <2>1. job[i].status \in Active /\ job' = [job EXCEPT ![i].status = "ended"]
    BY <1>1 DEF CancelJob, MoveJob, Active, Executing
  <2> QED
    BY <1>1, <1>b, <2>1, OneJobMoves DEF CancelJob, MoveJob
<1>2. ASSUME NEW i \in Jobs, StopJob(i) \/ PauseJob(i) \/ ContinueJob(i)
      PROVE  /\ job' \in [Jobs -> JobRow] /\ Advance
             /\ UNCHANGED <<policy, lock, launch, stamp, starting>>
  <2>1. HasTurn(i) /\ job[i].status \in Active
    BY <1>2 DEF StopJob, PauseJob, ContinueJob, MoveJob, HasTurn, Active, Executing
  <2>2. PICK to \in Executing : job' = [job EXCEPT ![i].status = to]
    BY <1>2 DEF StopJob, PauseJob, ContinueJob, MoveJob, Executing
  <2> QED
    BY <1>2, <2>1, <2>2, OneJobMoves DEF StopJob, PauseJob, ContinueJob, MoveJob
<1>3. ASSUME NEW i \in Jobs, FinishJob(i) \/ EndStoppedJob(i)
      PROVE  /\ job' \in [Jobs -> JobRow] /\ Advance
             /\ UNCHANGED <<policy, lock, launch, stamp, starting>>
  <2>1. job[i].status \in Active /\ job' = [job EXCEPT ![i].status = "ended"]
    BY <1>3 DEF FinishJob, EndStoppedJob, MoveJob, Active, Executing
  <2> QED
    BY <1>3, <1>b, <2>1, OneJobMoves DEF FinishJob, EndStoppedJob, MoveJob
<1> QED
  BY <1>1, <1>2, <1>3, <1>a DEF JobStep

\* What a step of the queue does to it.
LEMMA QueueStepEffect ==
    ASSUME QueueTypeOK, QueueStep
    PROVE  /\ job' \in [Jobs -> JobRow]
           /\ Advance \/ \E l \in Launchers : CommitLaunch(l)
<1>1. CASE \E l \in Launchers : CommitLaunch(l)
  BY <1>1, JobIsInserted
<1>2. CASE \E l \in Launchers : BeginLaunch(l) \/ SyncRepositories(l) \/ StampJob(l) \/ AbandonLaunch(l)
  BY <1>2, NoJobMoves DEF BeginLaunch, SyncRepositories, StampJob, AbandonLaunch
<1>3. ASSUME NEW w \in Starters, ConfirmStart(w)
      PROVE  job' \in [Jobs -> JobRow] /\ Advance
  <2>1. PICK i \in Jobs : starting[w] = i
    BY <1>3 DEF ConfirmStart
  <2>2. job' = [job EXCEPT ![i].status = IF @ = "queued" THEN "running" ELSE @]
    BY <1>3, <2>1 DEF ConfirmStart
  <2>3. CASE job[i].status = "queued"
    <3>1. job' = [job EXCEPT ![i].status = "running"] /\ HasTurn(i)
      BY <2>1, <2>2, <2>3 DEF HasTurn
    <3> QED
      BY <2>3, <3>1, OneJobMoves DEF Active, Executing
  <2>4. CASE job[i].status # "queued"
    <3>1. job' = job
      BY <2>2, <2>4 DEF QueueTypeOK
    <3> QED
      BY <3>1, NoJobMoves
  <2> QED
    BY <2>3, <2>4
<1>4. CASE \E w \in Starters, i \in Jobs : CheckStart(w, i)
  BY <1>4, NoJobMoves DEF CheckStart
<1>5. CASE JobStep \/ \E i \in RemoteJobs : StopJob(i)
  BY <1>5, MovedJobs
<1> QED
  BY <1>1, <1>2, <1>3, <1>4, <1>5 DEF QueueStep, LaunchStep, StartStep

\* What a step of a remote runner does to it.
LEMMA RunnerStepEffect ==
    ASSUME QueueTypeOK, DirectTypeOK, RunnerStep
    PROVE  /\ job' \in [Jobs -> JobRow] /\ Advance
           /\ UNCHANGED <<policy, lock, launch, stamp>>
<1>1. PICK r \in Runners :
        \/ AssignJob(r) \/ StartRemoteJob(r) \/ GiveUpJob(r) \/ FinishPlaybooks(r)
        \/ CompleteRemoteJob(r) \/ ComeBack(r)
        \/ \E j \in RemoteJobs : PollForJob(r, j)
  BY DEF RunnerStep
<1>2. CASE AssignJob(r)
  BY <1>2, NoJobMoves DEF AssignJob
<1>3. CASE StartRemoteJob(r)
  <2>1. PICK j \in Jobs : j = work[r].job
    BY <1>3 DEF StartRemoteJob, AssignmentMatches
  <2>2. /\ job' = [job EXCEPT ![j].status = IF @ = "queued" THEN "running" ELSE @]
        /\ assignee[j] = r
    BY <1>3, <2>1 DEF StartRemoteJob, AssignmentMatches
  <2>3. CASE job[j].status = "queued"
    <3>1. job' = [job EXCEPT ![j].status = "running"] /\ HasTurn(j)
      BY <2>2, <2>3, RunnersAreStarters DEF HasTurn
    <3> QED
      BY <1>3, <2>3, <3>1, OneJobMoves DEF StartRemoteJob, Active, Executing
  <2>4. CASE job[j].status # "queued"
    <3>1. job' = job
      BY <2>2, <2>4 DEF QueueTypeOK
    <3> QED
      BY <1>3, <3>1, NoJobMoves DEF StartRemoteJob
  <2> QED
    BY <2>3, <2>4
<1>4. CASE CompleteRemoteJob(r)
  <2>1. CASE CompletionAccepted(r)
    <3>1. PICK j \in Jobs : j = work[r].job
      BY <2>1 DEF CompletionAccepted, AssignmentMatches
    <3>2. job[j].status \in Active /\ job' = [job EXCEPT ![j].status = "ended"]
      BY <1>4, <2>1, <3>1 DEF CompleteRemoteJob, CompletionAccepted, Active, Executing
    <3>3. "ended" \in Executing \cup {"ended"} /\ "ended" \notin Executing
      BY DEF Executing
    <3> QED
      BY <1>4, <3>2, <3>3, OneJobMoves DEF CompleteRemoteJob
  <2>2. CASE ~CompletionAccepted(r)
    BY <1>4, <2>2, NoJobMoves DEF CompleteRemoteJob
  <2> QED
    BY <2>1, <2>2
<1>5. CASE GiveUpJob(r) \/ FinishPlaybooks(r) \/ ComeBack(r)
  BY <1>5, NoJobMoves DEF GiveUpJob, FinishPlaybooks, ComeBack, queueVars
<1>6. CASE \E j \in RemoteJobs : PollForJob(r, j)
  BY <1>6, NoJobMoves DEF PollForJob, CheckStart
<1> QED
  BY <1>1, <1>2, <1>3, <1>4, <1>5, <1>6

\* What a recovery does to it.
LEMMA RecoveryStepEffect ==
    ASSUME QueueTypeOK, RecoveryStep
    PROVE  /\ job' \in [Jobs -> JobRow] /\ Advance
           /\ UNCHANGED <<policy, lock, launch, stamp, starting>>
<1>1. PICK j \in RemoteJobs : RecoverLostJob(j) \/ RecoverStaleJob(j)
  BY DEF RecoveryStep
<1>2. j \in Jobs
  BY QueueAssumption DEF Jobs
<1>3. job' = job \/ job' = [job EXCEPT ![j].status = "ended"]
  BY <1>1 DEF RecoverLostJob, RecoverStaleJob
<1>4. job[j].status \in Active
  BY <1>1 DEF RecoverLostJob, RecoverStaleJob, Active, Executing
<1>5. "ended" \in Executing \cup {"ended"} /\ "ended" \notin Executing
  BY DEF Executing
<1>6. UNCHANGED <<policy, lock, launch, stamp, starting>>
  BY <1>1 DEF RecoverLostJob, RecoverStaleJob
<1> QED
  BY <1>2, <1>3, <1>4, <1>5, <1>6, OneJobMoves, NoJobMoves

\* Every step either commits a launch or lets Jobs advance.
LEMMA StepEffect ==
    ASSUME QueueTypeOK, DirectTypeOK, [Next]_vars
    PROVE  /\ job' \in [Jobs -> JobRow]
           /\ \/ Advance
              \/ \E l \in Launchers : CommitLaunch(l) /\ UNCHANGED directVars
<1>1. CASE QueueStep
  BY <1>1, QueueStepEffect DEF QueueStep
<1>2. CASE RunnerStep
  BY <1>2, RunnerStepEffect
<1>3. CASE RecoveryStep
  BY <1>3, RecoveryStepEffect
<1>4. CASE Disturbance \/ UNCHANGED vars
  <2>1. UNCHANGED job
    BY <1>4 DEF Disturbance, EditPolicy, GoOffline, CrashRunner, queueVars, vars
  <2> QED
    BY <2>1, NoJobMoves
<1> QED
  BY <1>1, <1>2, <1>3, <1>4 DEF Next

-----------------------------------------------------------------------------
(* Types.                                                                  *)

LEMMA LaunchStepKeepsTypes ==
    ASSUME QueueTypeOK, LaunchStep
    PROVE  QueueTypeOK'
<1>1. PICK l \in Launchers : \/ BeginLaunch(l) \/ SyncRepositories(l) \/ StampJob(l)
                             \/ CommitLaunch(l) \/ AbandonLaunch(l)
  BY DEF LaunchStep
<1>a. /\ launch \in [Launchers -> LaunchRow] /\ Idle \in LaunchRow
      /\ launch[l] \in LaunchRow
      /\ policy \in Policies /\ stamp \in 0..MaxStamp /\ lock \in Launchers \cup {Nobody}
      /\ starting \in [Starters -> Jobs \cup {NoJob}] /\ job \in [Jobs -> JobRow]
  BY QueueAssumption DEF QueueTypeOK, LaunchRow, JobRow, Idle
<1>b. QueueTypeOK' <=> /\ policy' \in Policies /\ lock' \in Launchers \cup {Nobody}
                       /\ launch' \in [Launchers -> LaunchRow]
                       /\ stamp' \in 0..MaxStamp /\ job' \in [Jobs -> JobRow]
                       /\ starting' \in [Starters -> Jobs \cup {NoJob}]
  BY DEF QueueTypeOK, LaunchRow, JobRow
<1>2. CASE BeginLaunch(l)
  <2>1. PICK signature \in Signatures :
          launch' = [launch EXCEPT ![l] = [at |-> IF l \in Refreshing THEN "syncing" ELSE "planning",
                                           policy |-> policy, signature |-> signature,
                                           queued_at |-> 0]]
    BY <1>2 DEF BeginLaunch
  <2>2. [at |-> IF l \in Refreshing THEN "syncing" ELSE "planning", policy |-> policy,
         signature |-> signature, queued_at |-> 0] \in LaunchRow
    BY <1>a, QueueAssumption DEF LaunchRow
  <2>3. launch' \in [Launchers -> LaunchRow]
    BY <1>a, <2>1, <2>2
  <2> QED
    BY <1>2, <1>a, <1>b, <2>3 DEF BeginLaunch
<1>3. CASE SyncRepositories(l)
  <2>1. launch' \in [Launchers -> LaunchRow]
    BY <1>3, <1>a DEF SyncRepositories, LaunchRow
  <2> QED
    BY <1>3, <1>a, <1>b, <2>1 DEF SyncRepositories
<1>4. CASE StampJob(l)
  <2>1. stamp' \in 0..MaxStamp /\ stamp' = stamp + 1
    BY <1>4, <1>a, QueueAssumption DEF StampJob
  <2>2. launch' \in [Launchers -> LaunchRow]
    BY <1>4, <1>a, <2>1 DEF StampJob, LaunchRow
  <2> QED
    BY <1>4, <1>a, <1>b, <2>1, <2>2 DEF StampJob
<1>5. CASE CommitLaunch(l)
  <2>1. launch' \in [Launchers -> LaunchRow]
    BY <1>5, <1>a DEF CommitLaunch
  <2> QED
    BY <1>5, <1>a, <1>b, <2>1, JobIsInserted DEF CommitLaunch
<1>6. CASE AbandonLaunch(l)
  <2>1. launch' \in [Launchers -> LaunchRow]
    BY <1>6, <1>a DEF AbandonLaunch
  <2> QED
    BY <1>6, <1>a, <1>b, <2>1 DEF AbandonLaunch
<1> QED
  BY <1>1, <1>2, <1>3, <1>4, <1>5, <1>6

LEMMA StepKeepsQueueTypes ==
    ASSUME QueueTypeOK, DirectTypeOK, [Next]_vars
    PROVE  QueueTypeOK'
<1>a. job' \in [Jobs -> JobRow]
  BY StepEffect
<1>b. ASSUME UNCHANGED <<policy, lock, launch, stamp>>,
             starting' \in [Starters -> Jobs \cup {NoJob}]
      PROVE  QueueTypeOK'
  BY <1>a, <1>b DEF QueueTypeOK, JobRow
<1>c. starting \in [Starters -> Jobs \cup {NoJob}] /\ Runners \subseteq Starters
      /\ RemoteJobs \subseteq Jobs
  BY RunnersAreStarters, QueueAssumption DEF QueueTypeOK, Jobs
<1>1. CASE LaunchStep
  BY <1>1, LaunchStepKeepsTypes
<1>2. CASE StartStep
  <2>1. starting' \in [Starters -> Jobs \cup {NoJob}]
    BY <1>2, <1>c DEF StartStep, ConfirmStart, CheckStart
  <2> QED
    BY <1>2, <1>b, <2>1 DEF StartStep, ConfirmStart, CheckStart
<1>3. CASE JobStep \/ \E i \in RemoteJobs : StopJob(i)
  BY <1>3, <1>b, <1>c, MovedJobs
<1>4. CASE RunnerStep
  <2>1. PICK r \in Runners :
          \/ AssignJob(r) \/ StartRemoteJob(r) \/ GiveUpJob(r) \/ FinishPlaybooks(r)
          \/ CompleteRemoteJob(r) \/ ComeBack(r)
          \/ \E j \in RemoteJobs : PollForJob(r, j)
    BY <1>4 DEF RunnerStep
  <2>2. CASE AssignJob(r)
    BY <2>2, <1>b, <1>c DEF AssignJob
  <2>3. CASE \E j \in RemoteJobs : PollForJob(r, j)
    BY <2>3, <1>b, <1>c DEF PollForJob, CheckStart
  <2>4. CASE StartRemoteJob(r) \/ CompleteRemoteJob(r)
    BY <2>4, <1>b, <1>c DEF StartRemoteJob, CompleteRemoteJob
  <2>5. CASE GiveUpJob(r) \/ FinishPlaybooks(r) \/ ComeBack(r)
    BY <2>5, <1>b, <1>c DEF GiveUpJob, FinishPlaybooks, ComeBack, queueVars
  <2> QED
    BY <2>1, <2>2, <2>3, <2>4, <2>5
<1>5. CASE RecoveryStep
  BY <1>5, <1>b, <1>c, RecoveryStepEffect
<1>6. CASE Disturbance \/ UNCHANGED vars
  <2>1. UNCHANGED <<lock, launch, stamp, starting>> /\ (policy' \in Policies)
    BY <1>6 DEF Disturbance, EditPolicy, GoOffline, CrashRunner, queueVars, vars, QueueTypeOK
  <2> QED
    BY <1>a, <1>c, <2>1 DEF QueueTypeOK, JobRow
<1> QED
  BY <1>1, <1>2, <1>3, <1>4, <1>5, <1>6 DEF Next, QueueStep

LEMMA RunnerStepKeepsTypes ==
    ASSUME QueueTypeOK, DirectTypeOK, NEW r \in Runners,
           \/ AssignJob(r) \/ StartRemoteJob(r) \/ GiveUpJob(r) \/ FinishPlaybooks(r)
           \/ CompleteRemoteJob(r) \/ CrashRunner(r)
    PROVE  DirectTypeOK'
<1>a. /\ work \in [Runners -> WorkRow] /\ work[r] \in WorkRow /\ Free \in WorkRow
      /\ assignee \in [Jobs -> Runners \cup {NoRunner}]
      /\ token \in [Jobs -> Nat] /\ issued \in Nat /\ executions \in [Jobs -> Nat]
  BY DEF DirectTypeOK, WorkRow, Free, Phases
<1>b. ASSUME NEW result \in Results
      PROVE  Report(r, result) \in [Runners -> WorkRow]
  BY <1>a DEF Report, WorkRow, Phases
<1>c. "failed" \in Results
  BY DEF Results
<1>d. RemoteJobs \subseteq Jobs
  BY QueueAssumption DEF Jobs
<1>1. CASE AssignJob(r)
  <2>1. PICK j \in Jobs : j = starting[r] /\ j \in RemoteJobs
    BY <1>1, <1>d DEF AssignJob
  <2>2. [job |-> j, token |-> issued + 1, phase |-> "received", result |-> "none"] \in WorkRow
    BY <1>a DEF WorkRow, Phases
  <2>3. CASE job[j].status = "queued" /\ assignee[j] = NoRunner
    <3>1. /\ assignee' = [assignee EXCEPT ![j] = r]
          /\ token' = [token EXCEPT ![j] = issued + 1] /\ issued' = issued + 1
          /\ executions' = executions
      BY <1>1, <2>1, <2>3 DEF AssignJob
    <3>2. \/ work' = work
          \/ work' = [work EXCEPT ![r] = [job |-> j, token |-> issued + 1,
                                          phase |-> "received", result |-> "none"]]
      BY <1>1, <2>1, <2>3 DEF AssignJob
    <3>3. work' \in [Runners -> WorkRow]
      BY <1>a, <2>2, <3>2
    <3> QED
      BY <1>a, <3>1, <3>3 DEF DirectTypeOK
  <2>4. CASE ~(job[j].status = "queued" /\ assignee[j] = NoRunner)
    BY <1>1, <1>a, <2>1, <2>4 DEF AssignJob, DirectTypeOK
  <2> QED
    BY <2>3, <2>4
<1>2. CASE StartRemoteJob(r)
  <2>1. PICK j \in Jobs : j = work[r].job
    BY <1>2 DEF StartRemoteJob, AssignmentMatches
  <2>2. [work EXCEPT ![r].phase = "running"] \in [Runners -> WorkRow]
    BY <1>a DEF WorkRow, Phases
  <2>3. [executions EXCEPT ![j] = @ + 1] \in [Jobs -> Nat]
    BY <1>a
  <2>4. work' \in [Runners -> WorkRow] /\ executions' \in [Jobs -> Nat]
    BY <1>2, <1>a, <1>b, <1>c, <2>1, <2>2, <2>3 DEF StartRemoteJob
  <2> QED
    BY <1>2, <1>a, <2>4 DEF StartRemoteJob, DirectTypeOK
<1>3. CASE GiveUpJob(r)
  BY <1>3, <1>a, <1>b, <1>c DEF GiveUpJob, DirectTypeOK
<1>4. CASE FinishPlaybooks(r)
  BY <1>4, <1>a, <1>b DEF FinishPlaybooks, DirectTypeOK
<1>5. CASE CompleteRemoteJob(r)
  BY <1>5, <1>a DEF CompleteRemoteJob, DirectTypeOK
<1>6. CASE CrashRunner(r)
  BY <1>6, <1>a DEF CrashRunner, DirectTypeOK
<1> QED
  BY <1>1, <1>2, <1>3, <1>4, <1>5, <1>6

LEMMA StepKeepsDirectTypes ==
    ASSUME QueueTypeOK, DirectTypeOK, [Next]_vars
    PROVE  DirectTypeOK'
<1>1. CASE UNCHANGED <<assignee, token, issued, work, executions>>
  BY <1>1 DEF DirectTypeOK
<1>2. CASE QueueStep \/ UNCHANGED vars
  BY <1>1, <1>2 DEF QueueStep, vars, directVars
<1>3. CASE RunnerStep
  BY <1>1, <1>3, RunnerStepKeepsTypes DEF RunnerStep, PollForJob, ComeBack, directVars
<1>4. CASE RecoveryStep
  BY <1>4 DEF RecoveryStep, RecoverLostJob, RecoverStaleJob, DirectTypeOK
<1>5. CASE Disturbance
  BY <1>1, <1>5, RunnerStepKeepsTypes DEF Disturbance, GoOffline, directVars
<1> QED
  BY <1>2, <1>3, <1>4, <1>5 DEF Next

-----------------------------------------------------------------------------
(* Turns.                                                                  *)

TurnsAreGiven ==
    \A j \in Jobs :
        HasTurn(j)' => HasTurn(j) \/ (job[j].status = "queued" /\ JobCanStart(j))

\* Launches apart, only a starter that looked at the queue gives a turn.
LEMMA TurnsNeedACheck ==
    ASSUME QueueTypeOK, DirectTypeOK, Advance, [Next]_vars,
           ~(LaunchStep /\ UNCHANGED directVars)
    PROVE  TurnsAreGiven /\ UNCHANGED <<lock, launch, stamp>>
<1> USE DEF QueueTypeOK, DirectTypeOK
<1>a. ASSUME NEW j \in Jobs, job'[j].status \in Executing
      PROVE  HasTurn(j)
  BY <1>a DEF Advance, HasTurn
<1>b. CASE UNCHANGED <<lock, launch, stamp, starting>>
           /\ \A j \in Jobs : assignee'[j] # NoRunner => HasTurn(j)
  BY <1>a, <1>b DEF TurnsAreGiven, HasTurn
<1>c. ASSUME NEW w \in Starters, NEW j \in Jobs, CheckStart(w, j), UNCHANGED assignee
      PROVE  TurnsAreGiven /\ UNCHANGED <<lock, launch, stamp>>
  BY <1>a, <1>c DEF CheckStart, TurnsAreGiven, HasTurn
<1>d. ASSUME NEW w \in Starters, starting' = [starting EXCEPT ![w] = NoJob],
             UNCHANGED <<lock, launch, stamp>>,
             \A j \in Jobs : assignee'[j] # NoRunner => HasTurn(j)
      PROVE  TurnsAreGiven /\ UNCHANGED <<lock, launch, stamp>>
  BY <1>a, <1>d DEF TurnsAreGiven, HasTurn, NoJob, Jobs
<1>e. Runners \subseteq Starters /\ RemoteJobs \subseteq Jobs
  BY RunnersAreStarters, QueueAssumption DEF Jobs
<1>f. \A j \in Jobs : assignee[j] # NoRunner => HasTurn(j)
  BY DEF HasTurn
<1>1. CASE StartStep /\ UNCHANGED directVars
  <2>1. PICK w \in Starters : ConfirmStart(w) \/ \E j \in Jobs \ RemoteJobs : CheckStart(w, j)
    BY <1>1 DEF StartStep
  <2>2. UNCHANGED assignee
    BY <1>1 DEF directVars
  <2> QED
    BY <2>1, <2>2, <1>c, <1>d, <1>f DEF ConfirmStart
<1>2. CASE (JobStep \/ \E i \in RemoteJobs : StopJob(i)) /\ UNCHANGED directVars
  BY <1>2, <1>b, <1>f, MovedJobs DEF directVars
<1>3. ASSUME NEW r \in Runners, AssignJob(r)
      PROVE  TurnsAreGiven /\ UNCHANGED <<lock, launch, stamp>>
  <2>1. \A j \in Jobs : assignee'[j] # NoRunner => assignee[j] # NoRunner \/ starting[r] = j
    BY <1>3 DEF AssignJob
  <2>2. \A j \in Jobs : assignee'[j] # NoRunner => HasTurn(j)
    BY <2>1, <1>e DEF HasTurn
  <2>3. r \in Starters /\ starting' = [starting EXCEPT ![r] = NoJob]
    BY <1>3, <1>e DEF AssignJob
  <2>4. UNCHANGED <<lock, launch, stamp>>
    BY <1>3 DEF AssignJob
  <2> QED
    BY <1>d, <2>2, <2>3, <2>4
<1>4. ASSUME NEW r \in Runners, NEW j \in RemoteJobs, PollForJob(r, j)
      PROVE  TurnsAreGiven /\ UNCHANGED <<lock, launch, stamp>>
  BY <1>4, <1>c, <1>e DEF PollForJob, directVars
<1>5. ASSUME NEW r \in Runners, \/ StartRemoteJob(r) \/ GiveUpJob(r) \/ FinishPlaybooks(r)
                                \/ CompleteRemoteJob(r) \/ ComeBack(r)
      PROVE  UNCHANGED <<lock, launch, stamp, starting, assignee>>
  BY <1>5 DEF StartRemoteJob, GiveUpJob, FinishPlaybooks, CompleteRemoteJob, ComeBack, queueVars
<1>6. CASE RunnerStep
  BY <1>6, <1>b, <1>f, <1>3, <1>4, <1>5 DEF RunnerStep
<1>7. CASE RecoveryStep
  <2>1. \A j \in Jobs : assignee'[j] # NoRunner => assignee[j] # NoRunner
    BY <1>7, <1>e DEF RecoveryStep, RecoverLostJob, RecoverStaleJob
  <2> QED
    BY <1>7, <1>b, <1>f, <2>1, RecoveryStepEffect
<1>8. CASE Disturbance \/ UNCHANGED vars
  <2>1. UNCHANGED <<lock, launch, stamp, starting, assignee>>
    BY <1>8 DEF Disturbance, EditPolicy, GoOffline, CrashRunner, queueVars, directVars, vars
  <2> QED
    BY <1>b, <1>f, <2>1
<1> QED
  BY <1>1, <1>2, <1>6, <1>7, <1>8 DEF Next, QueueStep

\* Ids are given without gaps; a launch that holds the lock was stamped after every
\* Job that exists, and nothing rejects it.
PrefixInv == \A i, j \in Jobs : i < j /\ job[j].status # "none" => job[i].status # "none"
StampInv ==
    /\ \A j \in Jobs : job[j].queued_at <= stamp
    /\ \A l \in Launchers : launch[l].queued_at <= stamp
    /\ \A l \in Launchers : lock = l /\ launch[l].at = "snapshotting" =>
          \A j \in Jobs : job[j].status # "none" => job[j].queued_at < launch[l].queued_at
LockInv ==
    \A l \in Launchers : lock = l => LaunchBlockers(launch[l].policy, launch[l].signature) = {}

\* What a Job that has its turn waited for has ended.
TurnInv ==
    /\ \A j \in Jobs : HasTurn(j) => job[j].status # "none"
    /\ \A i, j \in Jobs :
          job[j].policy = "serialized" /\ HasTurn(j) /\ job[i].locked
          /\ job[i].status # "none" /\ Before(i, j) => job[i].status = "ended"

QueueInv ==
    /\ QueueTypeOK /\ DirectTypeOK
    /\ PrefixInv /\ StampInv /\ LockInv /\ AdmittedAlone /\ TurnInv

LEMMA BeforeIsAnOrder ==
    ASSUME QueueTypeOK, NEW i \in Jobs, NEW j \in Jobs
    PROVE  /\ ~(Before(i, j) /\ Before(j, i))
           /\ i # j => Before(i, j) \/ Before(j, i)
<1>1. job[i].queued_at \in 0..MaxStamp /\ job[j].queued_at \in 0..MaxStamp
  BY DEF QueueTypeOK
<1>2. i \in Nat /\ j \in Nat /\ MaxStamp \in Nat
  BY QueueAssumption DEF Jobs
<1> QED
  BY <1>1, <1>2 DEF Before

\* Jobs that advance disturb none of it.
LEMMA AdvanceKeepsQueue ==
    ASSUME QueueInv, Advance, TurnsAreGiven, UNCHANGED <<lock, launch, stamp>>
    PROVE  PrefixInv' /\ StampInv' /\ LockInv' /\ AdmittedAlone' /\ TurnInv'
<1>1. \A j \in Jobs : /\ job'[j].policy = job[j].policy /\ job'[j].signature = job[j].signature
                      /\ job'[j].queued_at = job[j].queued_at /\ job'[j].locked = job[j].locked
  BY DEF Advance
<1>2. \A j \in Jobs : /\ job'[j].status = "none" <=> job[j].status = "none"
                      /\ job[j].status = "ended" => job'[j].status = "ended"
                      /\ job'[j].status \in Active => job[j].status \in Active
  BY DEF Advance, Active, Executing
<1>3. PrefixInv'
  BY <1>2 DEF QueueInv, PrefixInv
<1>4. StampInv'
  BY <1>1, <1>2 DEF QueueInv, StampInv
<1>5. LockInv'
  BY <1>1, <1>2 DEF QueueInv, LockInv, LaunchBlockers, ActiveJobs
<1>6. AdmittedAlone'
  BY <1>1, <1>2 DEF QueueInv, AdmittedAlone
<1>7. TurnInv'
  <2>1. ASSUME NEW j \in Jobs, HasTurn(j)'
        PROVE  job'[j].status # "none"
    BY <1>2, <2>1 DEF QueueInv, TurnInv, TurnsAreGiven
  <2>2. ASSUME NEW i \in Jobs, NEW j \in Jobs, job'[j].policy = "serialized", HasTurn(j)',
               job'[i].locked, job'[i].status # "none", Before(i, j)'
        PROVE  job'[i].status = "ended"
    <3>1. /\ job[j].policy = "serialized" /\ job[i].locked /\ job[i].status # "none"
          /\ Before(i, j)
      BY <1>1, <1>2, <2>2 DEF Before
    <3>2. CASE HasTurn(j)
      BY <1>2, <3>1, <3>2 DEF QueueInv, TurnInv
    <3>3. CASE JobCanStart(j)
      <4>1. i # j /\ ~Before(j, i)
        BY <3>1, BeforeIsAnOrder DEF QueueInv
      <4>2. i \notin ActiveJobs
        BY <3>1, <3>3, <4>1 DEF JobCanStart
      <4>3. job[i].status = "ended"
        BY <3>1, <4>2 DEF ActiveJobs, QueueInv, QueueTypeOK, JobStatuses
      <4> QED
        BY <1>2, <4>3
    <3> QED
      BY <2>2, <3>2, <3>3 DEF TurnsAreGiven
  <2> QED
    BY <2>1, <2>2 DEF TurnInv
<1> QED
  BY <1>3, <1>4, <1>5, <1>6, <1>7

\* A launch that has not committed changes no Job, and takes the lock only when
\* nothing rejects it.
LEMMA LaunchKeepsQueue ==
    ASSUME QueueInv, NEW l \in Launchers, UNCHANGED directVars,
           BeginLaunch(l) \/ SyncRepositories(l) \/ StampJob(l) \/ AbandonLaunch(l)
    PROVE  PrefixInv' /\ StampInv' /\ LockInv' /\ AdmittedAlone' /\ TurnInv'
<1>a. UNCHANGED <<job, starting, assignee>>
  BY DEF BeginLaunch, SyncRepositories, StampJob, AbandonLaunch, directVars
<1>b. PrefixInv' /\ AdmittedAlone' /\ TurnInv'
  BY <1>a DEF QueueInv, PrefixInv, AdmittedAlone, TurnInv, HasTurn, Before
<1>c. /\ launch \in [Launchers -> LaunchRow] /\ stamp \in 0..MaxStamp /\ MaxStamp \in Nat
      /\ job \in [Jobs -> JobRow] /\ Nobody \notin Launchers
  BY QueueAssumption DEF QueueInv, QueueTypeOK, LaunchRow, JobRow
<1>d. /\ \A j \in Jobs : job[j].queued_at \in 0..MaxStamp
      /\ \A k \in Launchers : launch[k].queued_at \in 0..MaxStamp
  BY <1>c DEF JobRow, LaunchRow
<1>1. CASE BeginLaunch(l)
  <2>1. PICK signature \in Signatures :
          /\ LaunchBlockers(policy, signature) = {}
          /\ launch' = [launch EXCEPT ![l] =
                           [at |-> IF l \in Refreshing THEN "syncing" ELSE "planning",
                            policy |-> policy, signature |-> signature, queued_at |-> 0]]
    BY <1>1 DEF BeginLaunch
  <2>2. /\ \A k \in Launchers \ {l} : launch'[k] = launch[k]
        /\ launch'[l].policy = policy /\ launch'[l].signature = signature
        /\ launch'[l].queued_at = 0 /\ launch'[l].at # "snapshotting"
        /\ lock' = l /\ stamp' = stamp
    BY <1>1, <1>c, <2>1 DEF BeginLaunch
  <2>3. StampInv'
    BY <1>a, <1>c, <1>d, <2>2 DEF QueueInv, StampInv
  <2>4. LockInv'
    BY <1>a, <2>1, <2>2 DEF LockInv, LaunchBlockers, ActiveJobs
  <2> QED
    BY <1>b, <2>3, <2>4
<1>2. CASE SyncRepositories(l) \/ AbandonLaunch(l)
  <2>1. /\ \A k \in Launchers \ {l} : launch'[k] = launch[k]
        /\ stamp' = stamp /\ lock' # l
        /\ \A k \in Launchers \ {l} : lock' = k => lock = k
        /\ launch'[l].queued_at \in {0, launch[l].queued_at}
    BY <1>2, <1>c DEF SyncRepositories, AbandonLaunch, LaunchRow, Idle
  <2>2. StampInv'
    BY <1>a, <1>c, <1>d, <2>1 DEF QueueInv, StampInv
  <2>3. LockInv'
    BY <1>a, <2>1 DEF QueueInv, LockInv, LaunchBlockers, ActiveJobs
  <2> QED
    BY <1>b, <2>2, <2>3
<1>3. CASE StampJob(l)
  <2>1. /\ \A k \in Launchers \ {l} : launch'[k] = launch[k]
        /\ stamp' = stamp + 1 /\ lock' = lock
        /\ launch'[l].policy = launch[l].policy /\ launch'[l].signature = launch[l].signature
        /\ launch'[l].queued_at = stamp + 1
    BY <1>3, <1>c DEF StampJob, LaunchRow
  <2>2. StampInv'
    BY <1>a, <1>c, <1>d, <2>1 DEF QueueInv, StampInv
  <2>3. LockInv'
    BY <1>a, <2>1 DEF QueueInv, LockInv, LaunchBlockers, ActiveJobs
  <2> QED
    BY <1>b, <2>2, <2>3
<1> QED
  BY <1>1, <1>2, <1>3

\* A Job that is committed under the lock takes its turn after all others.
LEMMA CommitKeepsQueue ==
    ASSUME QueueInv, NEW l \in Launchers, CommitLaunch(l), UNCHANGED directVars
    PROVE  PrefixInv' /\ StampInv' /\ LockInv' /\ AdmittedAlone' /\ TurnInv'
<1>1. PICK new \in Jobs : Insertion(l, new)
  BY JobIsInserted DEF QueueInv
<1>2. /\ launch' = [launch EXCEPT ![l] = Idle] /\ lock' = Nobody /\ lock \in {l, Nobody}
      /\ launch[l].at = "snapshotting" /\ UNCHANGED <<stamp, starting, assignee>>
  BY DEF CommitLaunch, directVars
<1>3. /\ job[new].status = "none" /\ \A i \in Jobs : i < new => job[i].status # "none"
      /\ new \in Nat
  BY <1>1 DEF Insertion, NextId, Jobs
<1>4. \A i \in Jobs : i # new => job'[i] = job[i]
  BY <1>1 DEF Insertion
<1>5. /\ job'[new].status = "queued" /\ job'[new].policy = launch[l].policy
      /\ job'[new].signature = launch[l].signature
      /\ job'[new].queued_at = launch[l].queued_at /\ job'[new].locked = (lock = l)
  BY <1>1 DEF Insertion
<1>6. \A i \in Jobs : i \in Nat /\ (i > new => job[i].status = "none")
  BY <1>3 DEF QueueInv, PrefixInv, Jobs
<1>a. /\ \A j \in Jobs : job[j].queued_at \in Nat
      /\ \A k \in Launchers : launch[k].queued_at \in Nat
      /\ stamp \in Nat
  BY DEF QueueInv, QueueTypeOK
<1>7. PrefixInv'
  BY <1>3, <1>4, <1>5, <1>6 DEF QueueInv, PrefixInv
<1>8. StampInv'
  <2>1. \A k \in Launchers : launch'[k].queued_at <= stamp
    BY <1>2, <1>a DEF QueueInv, QueueTypeOK, StampInv, Idle
  <2> QED
    BY <1>2, <1>4, <1>5, <2>1, QueueAssumption DEF QueueInv, StampInv
<1>9. LockInv'
  BY <1>2, QueueAssumption DEF LockInv
<1>10. AdmittedAlone'
  <2>1. SUFFICES ASSUME NEW i \in Jobs, NEW j \in Jobs, i < j, job'[i].status \in Active,
                        job'[j].status \in Active, job'[j].locked
                 PROVE  /\ job'[j].policy # "exclusive"
                        /\ job'[j].policy = "distinct_parameters" =>
                              job'[i].signature \notin {job'[j].signature, Unsigned}
    BY DEF AdmittedAlone
  <2>2. CASE j = new
    <3>1. i # new /\ i \in ActiveJobs /\ job'[i] = job[i]
      BY <1>4, <1>6, <2>1, <2>2 DEF ActiveJobs
    <3>2. LaunchBlockers(launch[l].policy, launch[l].signature) = {}
      BY <1>5, <2>1, <2>2 DEF QueueInv, LockInv
    <3> QED
      BY <1>5, <2>2, <3>1, <3>2 DEF LaunchBlockers
  <2>3. CASE j # new
    <3>1. job[j].status # "none" /\ job'[j] = job[j]
      BY <1>4, <2>1, <2>3 DEF Active, Executing
    <3>2. i # new /\ job'[i] = job[i]
      BY <1>4, <1>6, <2>1, <3>1
    <3> QED
      BY <2>1, <3>1, <3>2 DEF QueueInv, AdmittedAlone
  <2> QED
    BY <2>2, <2>3
<1>11. TurnInv'
  <2>1. \A j \in Jobs : HasTurn(j)' => HasTurn(j) /\ j # new
    BY <1>2, <1>3, <1>4, <1>5 DEF HasTurn, QueueInv, TurnInv, Executing
  <2>2. ASSUME NEW i \in Jobs, NEW j \in Jobs, job'[j].policy = "serialized", HasTurn(j)',
               job'[i].locked, job'[i].status # "none", Before(i, j)'
        PROVE  job'[i].status = "ended"
    <3>1. HasTurn(j) /\ j # new /\ job'[j] = job[j] /\ job[j].status # "none"
      BY <1>4, <2>1, <2>2 DEF QueueInv, TurnInv
    <3>2. CASE i = new
      <4>1. lock = l
        BY <1>5, <2>2, <3>2
      <4>2. job[j].queued_at < launch[l].queued_at
        BY <1>2, <3>1, <4>1 DEF QueueInv, StampInv
      <4> QED
        BY <1>5, <1>a, <2>2, <3>1, <3>2, <4>2 DEF Before
    <3>3. CASE i # new
      <4>1. job'[i] = job[i] /\ Before(i, j)
        BY <1>4, <2>2, <3>1, <3>3 DEF Before
      <4> QED
        BY <2>2, <3>1, <4>1 DEF QueueInv, TurnInv
    <3> QED
      BY <3>2, <3>3
  <2> QED
    BY <1>4, <2>1, <2>2 DEF QueueInv, TurnInv
<1> QED
  BY <1>7, <1>8, <1>9, <1>10, <1>11

-----------------------------------------------------------------------------
(* Tokens.                                                                 *)

NotStarted == {"none", "queued"}

\* Every token was given to one runner; a worker whose token is still that of its
\* Job has not run it, and neither has any worker as long as the Job waits.
TokenInv ==
    /\ \A j \in Jobs : token[j] <= issued
    /\ \A j \in Jobs : job[j].status \in NotStarted => executions[j] = 0
    /\ \A j \in Jobs : executions[j] <= 1
    /\ \A r \in Runners : work[r].phase # "free" =>
          work[r].job \in Jobs /\ work[r].token \in 1..issued
    /\ \A r, s \in Runners :
          r # s /\ work[r].phase # "free" /\ work[s].phase # "free" => work[r].token # work[s].token
    /\ \A r \in Runners :
          work[r].phase = "received" /\ token[work[r].job] = work[r].token =>
              executions[work[r].job] = 0
    /\ \A r \in Runners : work[r].phase = "running" =>
          assignee[work[r].job] = r /\ job[work[r].job].status \notin NotStarted

LEMMA NobodyUnstarts ==
    ASSUME QueueTypeOK, DirectTypeOK, [Next]_vars
    PROVE  \A j \in Jobs : job'[j].status \in NotStarted => job[j].status \in NotStarted
<1>1. CASE Advance
  BY <1>1 DEF Advance, NotStarted, Active, Executing
<1>2. ASSUME NEW l \in Launchers, CommitLaunch(l)
      PROVE  \A j \in Jobs : job'[j].status \in NotStarted => job[j].status \in NotStarted
  BY <1>2, JobIsInserted DEF Insertion, NextId, NotStarted
<1> QED
  BY <1>1, <1>2, StepEffect

LEMMA UntouchedTokens ==
    ASSUME QueueTypeOK, DirectTypeOK, TokenInv, [Next]_vars,
           UNCHANGED <<assignee, token, issued, work, executions>>
    PROVE  TokenInv'
BY NobodyUnstarts DEF TokenInv

LEMMA AssignmentKeepsTokens ==
    ASSUME QueueTypeOK, DirectTypeOK, TokenInv, NEW r \in Runners, AssignJob(r)
    PROVE  TokenInv'
<1>a. RemoteJobs \subseteq Jobs /\ UNCHANGED <<job, executions>>
  BY QueueAssumption DEF Jobs, AssignJob
<1>1. PICK j \in Jobs : j = starting[r]
  BY <1>a DEF AssignJob
<1>2. CASE ~(job[j].status = "queued" /\ assignee[j] = NoRunner)
  BY <1>1, <1>2, <1>a DEF AssignJob, TokenInv
<1>3. CASE job[j].status = "queued" /\ assignee[j] = NoRunner
  <2>1. /\ assignee' = [assignee EXCEPT ![j] = r]
        /\ token' = [token EXCEPT ![j] = issued + 1] /\ issued' = issued + 1
    BY <1>1, <1>3 DEF AssignJob
  <2>2. \/ work' = work
        \/ work' = [work EXCEPT ![r] = [job |-> j, token |-> issued + 1,
                                        phase |-> "received", result |-> "none"]]
    BY <1>1, <1>3 DEF AssignJob
  <2>3. /\ \A s \in Runners \ {r} : work'[s] = work[s]
        /\ \/ work'[r] = work[r]
           \/ /\ work'[r].job = j /\ work'[r].token = issued + 1 /\ work'[r].phase = "received"
    BY <2>2 DEF DirectTypeOK
  <2>4. /\ \A i \in Jobs \ {j} : token'[i] = token[i] /\ assignee'[i] = assignee[i]
        /\ token'[j] = issued + 1
    BY <2>1 DEF DirectTypeOK
  <2>5. /\ issued \in Nat /\ executions[j] = 0
        /\ \A i \in Jobs : token[i] \in Nat
        /\ \A s \in Runners : work[s].token \in Nat
    BY <1>3 DEF DirectTypeOK, WorkRow, TokenInv, NotStarted
  <2>6. \A s \in Runners : work[s].phase = "running" => work[s].job # j
    BY <1>3 DEF TokenInv, NotStarted
  <2>7. /\ \A i \in Jobs : token'[i] <= issued'
        /\ \A i \in Jobs : job'[i].status \in NotStarted => executions'[i] = 0
        /\ \A i \in Jobs : executions'[i] <= 1
    BY <1>a, <2>1, <2>4, <2>5 DEF TokenInv
  <2>8. \A s \in Runners : work'[s].phase # "free" =>
          work'[s].job \in Jobs /\ work'[s].token \in 1..issued'
    BY <2>1, <2>3, <2>5 DEF TokenInv
  <2>9. \A s, t \in Runners :
          s # t /\ work'[s].phase # "free" /\ work'[t].phase # "free" =>
              work'[s].token # work'[t].token
    BY <2>3, <2>5 DEF TokenInv
  <2>10. \A s \in Runners :
          work'[s].phase = "received" /\ token'[work'[s].job] = work'[s].token =>
              executions'[work'[s].job] = 0
    BY <1>a, <2>3, <2>4, <2>5 DEF TokenInv
  <2>11. \A s \in Runners : work'[s].phase = "running" =>
          assignee'[work'[s].job] = s /\ job'[work'[s].job].status \notin NotStarted
    BY <1>a, <2>3, <2>4, <2>6 DEF TokenInv
  <2> QED
    BY <2>7, <2>8, <2>9, <2>10, <2>11 DEF TokenInv
<1> QED
  BY <1>2, <1>3

LEMMA StartKeepsTokens ==
    ASSUME QueueTypeOK, DirectTypeOK, TokenInv, NEW r \in Runners, StartRemoteJob(r)
    PROVE  TokenInv'
<1>1. PICK j \in Jobs : j = work[r].job /\ assignee[j] = r /\ token[j] = work[r].token
  BY DEF StartRemoteJob, AssignmentMatches
<1>2. /\ work[r].phase = "received" /\ UNCHANGED <<assignee, token, issued>>
      /\ job' = [job EXCEPT ![j].status = IF @ = "queued" THEN "running" ELSE @]
      /\ job[j].status \in {"queued", "running", "cancelling"}
  BY <1>1 DEF StartRemoteJob
<1>3. /\ \A i \in Jobs \ {j} : job'[i] = job[i]
      /\ job'[j].status \notin NotStarted
  BY <1>2 DEF QueueTypeOK, NotStarted
<1>4. executions[j] = 0
  BY <1>1, <1>2 DEF TokenInv
<1>5. \A s \in Runners \ {r} : work[s].phase = "received" => work[s].token # token[j]
  BY <1>1, <1>2 DEF TokenInv
<1>6. /\ \A s \in Runners \ {r} : work'[s] = work[s]
      /\ work'[r].job = j /\ work'[r].token = work[r].token
      /\ work'[r].phase \in {"running", "reporting"}
  BY <1>1 DEF StartRemoteJob, Report, DirectTypeOK, WorkRow
<1>7. /\ \A i \in Jobs \ {j} : executions'[i] = executions[i]
      /\ executions'[j] \in {0, 1}
  BY <1>1, <1>4 DEF StartRemoteJob, DirectTypeOK
<1>8. /\ \A i \in Jobs : token'[i] <= issued'
      /\ \A i \in Jobs : job'[i].status \in NotStarted => executions'[i] = 0
      /\ \A i \in Jobs : executions'[i] <= 1
  BY <1>2, <1>3, <1>7 DEF TokenInv
<1>9. \A s \in Runners : work'[s].phase # "free" =>
        work'[s].job \in Jobs /\ work'[s].token \in 1..issued'
  BY <1>1, <1>2, <1>6 DEF TokenInv
<1>10. \A s, t \in Runners :
        s # t /\ work'[s].phase # "free" /\ work'[t].phase # "free" =>
            work'[s].token # work'[t].token
  BY <1>2, <1>6 DEF TokenInv
<1>11. \A s \in Runners :
        work'[s].phase = "received" /\ token'[work'[s].job] = work'[s].token =>
            executions'[work'[s].job] = 0
  BY <1>2, <1>5, <1>6, <1>7 DEF TokenInv
<1>12. \A s \in Runners : work'[s].phase = "running" =>
        assignee'[work'[s].job] = s /\ job'[work'[s].job].status \notin NotStarted
  BY <1>1, <1>2, <1>3, <1>6 DEF TokenInv
<1> QED
  BY <1>8, <1>9, <1>10, <1>11, <1>12 DEF TokenInv

LEMMA WorkersKeepTokens ==
    ASSUME QueueTypeOK, DirectTypeOK, TokenInv, [Next]_vars, NEW r \in Runners,
           GiveUpJob(r) \/ FinishPlaybooks(r) \/ CompleteRemoteJob(r) \/ CrashRunner(r)
    PROVE  TokenInv'
<1>1. /\ \A s \in Runners \ {r} : work'[s] = work[s]
      /\ \/ work'[r].phase = "free"
         \/ /\ work'[r].phase = "reporting" /\ work[r].phase # "free"
            /\ work'[r].job = work[r].job /\ work'[r].token = work[r].token
  <2>1. CASE GiveUpJob(r) \/ FinishPlaybooks(r)
    <3>1. PICK result : work' = Report(r, result) /\ work[r].phase # "free"
      BY <2>1 DEF GiveUpJob, FinishPlaybooks
    <3> QED
      BY <3>1 DEF Report, DirectTypeOK, WorkRow
  <2>2. CASE CompleteRemoteJob(r) \/ CrashRunner(r)
    BY <2>2 DEF CompleteRemoteJob, CrashRunner, DirectTypeOK, Free
  <2> QED
    BY <2>1, <2>2
<1>2. UNCHANGED <<assignee, issued, executions>>
  BY DEF GiveUpJob, FinishPlaybooks, CompleteRemoteJob, CrashRunner
<1>3. \A j \in Jobs : token'[j] \in {token[j], 0}
  BY DEF GiveUpJob, FinishPlaybooks, CompleteRemoteJob, CrashRunner, DirectTypeOK
<1>4. issued \in Nat /\ \A j \in Jobs : job'[j].status \in NotStarted => job[j].status \in NotStarted
  BY NobodyUnstarts DEF DirectTypeOK
<1>5. /\ \A j \in Jobs : token'[j] <= issued'
      /\ \A j \in Jobs : job'[j].status \in NotStarted => executions'[j] = 0
      /\ \A j \in Jobs : executions'[j] <= 1
  BY <1>2, <1>3, <1>4 DEF TokenInv
<1>6. /\ \A s \in Runners : work'[s].phase # "free" =>
            work'[s].job \in Jobs /\ work'[s].token \in 1..issued'
      /\ \A s, t \in Runners :
            s # t /\ work'[s].phase # "free" /\ work'[t].phase # "free" =>
                work'[s].token # work'[t].token
  BY <1>1, <1>2 DEF TokenInv
<1>7. \A s \in Runners :
        work'[s].phase = "received" /\ token'[work'[s].job] = work'[s].token =>
            executions'[work'[s].job] = 0
  <2>1. SUFFICES ASSUME NEW s \in Runners, work'[s].phase = "received",
                        token'[work'[s].job] = work'[s].token
                 PROVE  executions'[work'[s].job] = 0
    OBVIOUS
  <2>2. s # r /\ work'[s] = work[s] /\ work[s].job \in Jobs /\ work[s].token \in 1..issued
    BY <1>1, <2>1 DEF TokenInv
  <2>3. token[work[s].job] = work[s].token
    BY <1>3, <1>4, <2>1, <2>2
  <2> QED
    BY <1>2, <2>1, <2>2, <2>3 DEF TokenInv
<1>8. \A s \in Runners : work'[s].phase = "running" =>
        assignee'[work'[s].job] = s /\ job'[work'[s].job].status \notin NotStarted
  BY <1>1, <1>2, <1>4 DEF TokenInv
<1> QED
  BY <1>5, <1>6, <1>7, <1>8 DEF TokenInv

\* A Job that is requeued is one that no worker has started.
LEMMA RecoveryKeepsTokens ==
    ASSUME QueueTypeOK, DirectTypeOK, TokenInv, [Next]_vars, RecoveryStep
    PROVE  TokenInv'
<1>1. PICK j \in RemoteJobs : RecoverLostJob(j) \/ RecoverStaleJob(j)
  BY DEF RecoveryStep
<1>2. /\ token' = [token EXCEPT ![j] = 0] /\ UNCHANGED <<work, issued, executions>>
      /\ \/ UNCHANGED assignee
         \/ job[j].status = "queued" /\ assignee' = [assignee EXCEPT ![j] = NoRunner]
  BY <1>1 DEF RecoverLostJob, RecoverStaleJob
<1>3. /\ \A i \in Jobs : token'[i] \in {token[i], 0}
      /\ \A i \in Jobs : assignee'[i] = assignee[i] \/ job[i].status \in NotStarted
  BY <1>2 DEF DirectTypeOK, NotStarted
<1>4. issued \in Nat /\ \A i \in Jobs : job'[i].status \in NotStarted => job[i].status \in NotStarted
  BY NobodyUnstarts DEF DirectTypeOK
<1>5. \A s \in Runners :
        work'[s].phase = "received" /\ token'[work'[s].job] = work'[s].token =>
            executions'[work'[s].job] = 0
  BY <1>2, <1>3 DEF TokenInv
<1>6. \A s \in Runners : work'[s].phase = "running" =>
        assignee'[work'[s].job] = s /\ job'[work'[s].job].status \notin NotStarted
  BY <1>2, <1>3, <1>4 DEF TokenInv
<1>7. /\ \A i \in Jobs : token'[i] <= issued'
      /\ \A i \in Jobs : job'[i].status \in NotStarted => executions'[i] = 0
  BY <1>2, <1>3, <1>4 DEF TokenInv
<1> QED
  BY <1>2, <1>5, <1>6, <1>7 DEF TokenInv

LEMMA StepKeepsTokens ==
    ASSUME QueueTypeOK, DirectTypeOK, TokenInv, [Next]_vars
    PROVE  TokenInv'
<1>1. CASE UNCHANGED <<assignee, token, issued, work, executions>>
  BY <1>1, UntouchedTokens
<1>2. CASE QueueStep \/ UNCHANGED vars
  BY <1>1, <1>2 DEF QueueStep, directVars, vars
<1>3. CASE RunnerStep
  BY <1>1, <1>3, AssignmentKeepsTokens, StartKeepsTokens, WorkersKeepTokens
     DEF RunnerStep, PollForJob, ComeBack, directVars
<1>4. CASE RecoveryStep
  BY <1>4, RecoveryKeepsTokens
<1>5. CASE Disturbance
  BY <1>1, <1>5, WorkersKeepTokens DEF Disturbance, GoOffline, directVars
<1> QED
  BY <1>2, <1>3, <1>4, <1>5 DEF Next

-----------------------------------------------------------------------------
(* Theorems.                                                               *)

LEMMA InitialQueue == DirectInit => QueueInv /\ TokenInv
<1> SUFFICES ASSUME DirectInit PROVE QueueInv /\ TokenInv
  OBVIOUS
<1>1. /\ policy \in Policies /\ lock = Nobody /\ stamp = 0
      /\ launch = [l \in Launchers |-> Idle] /\ starting = [w \in Starters |-> NoJob]
      /\ assignee = [j \in Jobs |-> NoRunner]
  BY DEF DirectInit, Init
<1>2. PICK first \in {NoRow, OldJob} : job = [j \in Jobs |-> IF j = 1 THEN first ELSE NoRow]
  BY DEF DirectInit, Init
<1>3. NoRow \in JobRow /\ OldJob \in JobRow /\ Idle \in LaunchRow /\ MaxStamp \in Nat
  <2>1. MaxStamp \in Nat /\ 0 \in 0..MaxStamp
    BY QueueAssumption
  <2>2. Idle \in LaunchRow
    BY <2>1 DEF LaunchRow, Idle
  <2>3. NoRow \in JobRow
    BY <2>1 DEF JobRow, NoRow, JobStatuses
  <2>4. "queued" \in JobStatuses
    BY DEF JobStatuses, Active
  <2>5. OldJob \in JobRow
    BY <2>3, <2>4 DEF JobRow, OldJob
  <2> QED
    BY <2>1, <2>2, <2>3, <2>5
<1>4. job \in [Jobs -> JobRow]
  BY <1>2, <1>3
<1>5. QueueTypeOK
  BY <1>1, <1>3, <1>4 DEF QueueTypeOK, JobRow, LaunchRow
<1>6. DirectTypeOK
  BY DEF DirectInit, DirectTypeOK, Free, WorkRow, Phases
<1>7. \A j \in Jobs : /\ job[j].policy = "unrestricted" /\ job[j].queued_at = 0
                      /\ job[j].status = "none" \/ (j = 1 /\ job[j].status = "queued")
  BY <1>2 DEF NoRow, OldJob
<1>8. PrefixInv /\ StampInv /\ LockInv
  BY <1>1, <1>7, QueueAssumption DEF PrefixInv, StampInv, LockInv, Idle, Jobs
<1>9. AdmittedAlone
  BY <1>7 DEF AdmittedAlone
<1>10. TurnInv
  <2>1. \A j \in Jobs : ~HasTurn(j)
    BY <1>1, <1>7 DEF HasTurn, Executing, NoJob, Jobs
  <2> QED
    BY <2>1 DEF TurnInv
<1>11. TokenInv
  BY DEF DirectInit, TokenInv, Free
<1> QED
  BY <1>5, <1>6, <1>8, <1>9, <1>10, <1>11 DEF QueueInv

LEMMA StepKeepsQueue ==
    ASSUME QueueInv, [Next]_vars
    PROVE  QueueInv'
<1>1. QueueTypeOK' /\ DirectTypeOK'
  BY StepKeepsQueueTypes, StepKeepsDirectTypes DEF QueueInv
<1>2. CASE \E l \in Launchers : CommitLaunch(l) /\ UNCHANGED directVars
  BY <1>1, <1>2, CommitKeepsQueue DEF QueueInv
<1>3. CASE Advance /\ ~(LaunchStep /\ UNCHANGED directVars)
  BY <1>1, <1>3, TurnsNeedACheck, AdvanceKeepsQueue DEF QueueInv
<1>4. CASE LaunchStep /\ UNCHANGED directVars
  BY <1>1, <1>2, <1>4, LaunchKeepsQueue DEF LaunchStep, QueueInv
<1> QED
  BY <1>2, <1>3, <1>4, StepEffect DEF QueueInv

DirectInv == QueueInv /\ TokenInv

\* Everything that the queue, the turns and the tokens rest on holds in every state.
THEOREM QueueInvariant == Spec => []DirectInv
<1>1. DirectInv /\ [Next]_vars => DirectInv'
  BY StepKeepsQueue, StepKeepsTokens DEF DirectInv, QueueInv
<1>2. DirectInit => DirectInv
  BY InitialQueue DEF DirectInv
<1> QED
  BY <1>1, <1>2, PTL DEF Spec

\* Two Jobs that exclude each other are never both active if the later launch kept
\* its lock, however launches overlap (launch_blocking_job under locked_project).
THEOREM AdmissionIsExclusive == Spec => []AdmittedAlone
<1>1. DirectInv => AdmittedAlone
  BY DEF DirectInv, QueueInv
<1> QED
  BY <1>1, QueueInvariant, PTL

\* A serialized Job executes after those queued before it, although the look at the
\* queue and the claim are two transactions (serialized_blocking_job).
THEOREM SerializedJobsKeepTheirOrder == Spec => []SerializedInOrder
<1>1. DirectInv => SerializedInOrder
  BY DEF DirectInv, QueueInv, TurnInv, HasTurn, SerializedInOrder
<1> QED
  BY <1>1, QueueInvariant, PTL

\* As long as launches keep their lock no two Jobs wait for each other
\* (serialized_blocking_job, claim_next_remote_slice).
THEOREM NoMutualWaitUnderLock == Spec => []WaitingNeedsLateCommit
<1>1. DirectInv => WaitingNeedsLateCommit
  <2> SUFFICES ASSUME DirectInv, NEW i \in Jobs, NEW j \in Jobs, KeepsWaiting(i, j),
                      KeepsWaiting(j, i), job[i].locked, job[j].locked
               PROVE  FALSE
    BY DEF WaitingNeedsLateCommit
  <2>1. /\ i # j /\ job[i].policy = "serialized" /\ job[j].policy = "serialized"
        /\ job[i].status \in {"queued", "running"} /\ job[j].status \in {"queued", "running"}
        /\ ~(job[i].status = "queued" /\ Before(j, i))
        /\ ~(job[j].status = "queued" /\ Before(i, j))
    BY DEF KeepsWaiting
  <2>2. Before(i, j) \/ Before(j, i)
    BY <2>1, BeforeIsAnOrder DEF DirectInv, QueueInv
  <2>3. CASE Before(i, j)
    <3>1. HasTurn(j)
      BY <2>1, <2>3 DEF HasTurn, Executing
    <3> QED
      BY <2>1, <2>3, <3>1 DEF DirectInv, QueueInv, TurnInv
  <2>4. CASE Before(j, i)
    <3>1. HasTurn(i)
      BY <2>1, <2>4 DEF HasTurn, Executing
    <3> QED
      BY <2>1, <2>4, <3>1 DEF DirectInv, QueueInv, TurnInv
  <2> QED
    BY <2>2, <2>3, <2>4
<1> QED
  BY <1>1, QueueInvariant, PTL

\* The playbooks of a direct Job run once at most, whatever is lost, requeued or
\* restarted (start_remote_job, recover_lost_runner_jobs).
THEOREM PlaybooksRunOnce == Spec => []RunAtMostOnce
<1>1. DirectInv => RunAtMostOnce
  BY QueueAssumption DEF DirectInv, TokenInv, RunAtMostOnce, Jobs
<1> QED
  BY <1>1, QueueInvariant, PTL

\* A worker that runs playbooks is the one that its Job is assigned to
\* (assignment_matches, recover_lost_runner_jobs).
THEOREM RunnersAreKnown == Spec => []RunningWorkIsKnown
<1>1. DirectInv => RunningWorkIsKnown
  BY DEF DirectInv, TokenInv, RunningWorkIsKnown, NotStarted
<1> QED
  BY <1>1, QueueInvariant, PTL

\* Nothing moves a Job that has ended: no late claim, start, report or recovery.
THEOREM EndIsFinal == Spec => EndedJobsStayEnded
<1>1. DirectInv /\ [Next]_vars => [\A j \in Jobs : job[j].status = "ended" => job'[j].status = "ended"]_vars
  <2> SUFFICES ASSUME DirectInv, [Next]_vars, NEW j \in Jobs, job[j].status = "ended"
               PROVE  job'[j].status = "ended"
    OBVIOUS
  <2>1. CASE Advance
    BY <2>1 DEF Advance, Active, Executing
  <2>2. ASSUME NEW l \in Launchers, CommitLaunch(l)
        PROVE  job'[j].status = "ended"
    BY <2>2, JobIsInserted DEF DirectInv, QueueInv, Insertion, NextId
  <2> QED
    BY <2>1, <2>2, StepEffect DEF DirectInv, QueueInv
<1> QED
  BY <1>1, QueueInvariant, PTL DEF Spec, EndedJobsStayEnded

=============================================================================

----------------------------- MODULE Schedules ------------------------------
(***************************************************************************)
(* Project schedules: workers find due schedules, claim one with a         *)
(* conditional UPDATE, launch its Project, which may take long, and write  *)
(* the next occurrence.  Workers are stopped at any point, claims grow     *)
(* stale, and administrators edit and toggle what a worker has in          *)
(* hands.  A launch is one step here; ProjectQueue looks into it.          *)
(***************************************************************************)
EXTENDS Integers, FiniteSetsExt

CONSTANTS
    Schedules,
    Interval,    \* length of an interval
    End,         \* the last instant at which an occurrence may lie
    MaxTime,     \* bound on the clock
    StaleAfter,  \* age at which a claim no longer counts
    Workers,     \* scheduler processes, "run-scheduler --once" included
    MaxEdits,    \* bound on what administrators do
    MaxStops     \* bound on workers that are stopped in the middle

ASSUME ScheduleAssumption ==
    /\ Schedules # {}
    /\ Interval \in Nat \ {0} /\ StaleAfter \in Nat \ {0}
    /\ End \in Nat /\ MaxTime \in Nat /\ MaxEdits \in Nat /\ MaxStops \in Nat

Times == 0..MaxTime
None == -1

VARIABLES
    now,        \* the clock
    approved,   \* the Project passes the operational approval gate
    row,        \* schedule -> type, start, enabled, next_run_at, claimed_at
    worker,     \* worker -> the schedule in hands, how far, since when
    jobs,       \* schedule -> occurrence -> Jobs launched for it
    overtaken,  \* schedules claimed again over a stale claim, or saved while a
                \* worker had them in hands
    edits, stops

vars == <<now, approved, row, worker, jobs, overtaken, edits, stops>>

AtRest == [at |-> "rest", schedule |-> CHOOSE s \in Schedules : TRUE,
           occurrence |-> None, since |-> None]

\* A schedule runs once or at an interval; daily and weekly ones are intervals.
Kinds == {"once", "interval"}

\* calculate_next_run: the first occurrence after this instant, if there is one.
NextRun(kind, start, after) ==
    LET steps == (after - start) \div Interval + 1
        next == IF after < start THEN start
                ELSE IF kind = "once" THEN None ELSE start + Interval * steps
    IN IF kind = "interval" /\ next > End THEN None ELSE next

Init ==
    /\ now = 0
    /\ approved = TRUE
    /\ row \in [Schedules -> [kind : Kinds, start : {1}, enabled : {TRUE}, next : {1},
                            claimed : {None}]]
    /\ worker = [w \in Workers |-> AtRest]
    /\ jobs = [s \in Schedules |-> [t \in 0..(End + Interval) |-> 0]]
    /\ overtaken = {}
    /\ edits = 0 /\ stops = 0

Tick ==
    /\ now < MaxTime
    /\ now' = now + 1
    /\ UNCHANGED <<approved, row, worker, jobs, overtaken, edits, stops>>

Due(s) == row[s].enabled /\ row[s].next # None /\ row[s].next <= now

StaleClaim(s) == row[s].claimed # None /\ row[s].claimed < now - StaleAfter

\* Mutant: the claim forgets the condition on claimed_at.
ClaimSchedule_Unconditional(w, s) ==
    /\ worker[w].at = "rest"
    /\ Due(s)
    /\ row' = [row EXCEPT ![s].claimed = now]
    /\ worker' = [worker EXCEPT ![w] = [at |-> "claimed", schedule |-> s,
                                        occurrence |-> row[s].next, since |-> now]]
    /\ overtaken' = IF StaleClaim(s) THEN overtaken \cup {s} ELSE overtaken
    /\ UNCHANGED <<now, approved, jobs, edits, stops>>

\* Mutant: a claim never grows stale.
ClaimSchedule_Never(w, s) ==
    /\ worker[w].at = "rest"
    /\ Due(s)
    /\ row[s].claimed = None
    /\ row' = [row EXCEPT ![s].claimed = now]
    /\ worker' = [worker EXCEPT ![w] = [at |-> "claimed", schedule |-> s,
                                        occurrence |-> row[s].next, since |-> now]]
    /\ UNCHANGED <<now, approved, jobs, overtaken, edits, stops>>

ClaimSchedule(w, s) ==
    /\ worker[w].at = "rest"
    /\ Due(s)
    /\ row[s].claimed = None \/ StaleClaim(s)
    /\ row' = [row EXCEPT ![s].claimed = now]
    /\ worker' = [worker EXCEPT ![w] = [at |-> "claimed", schedule |-> s,
                                        occurrence |-> row[s].next, since |-> now]]
    /\ overtaken' = IF StaleClaim(s) THEN overtaken \cup {s} ELSE overtaken
    /\ UNCHANGED <<now, approved, jobs, edits, stops>>

\* The claim was cleared by an administrator in the meantime.
FindClaimGone(w) ==
    /\ worker[w].at = "claimed"
    /\ row[worker[w].schedule].claimed = None
    /\ worker' = [worker EXCEPT ![w] = AtRest]
    /\ UNCHANGED <<now, approved, row, jobs, overtaken, edits, stops>>

\* A Project that is not approved takes its schedule with it.
DisableUnapproved(w) ==
    LET s == worker[w].schedule IN
    /\ worker[w].at = "claimed"
    /\ row[s].claimed # None
    /\ ~approved
    /\ row' = [row EXCEPT ![s].enabled = FALSE, ![s].next = None, ![s].claimed = None]
    /\ worker' = [worker EXCEPT ![w] = AtRest]
    /\ UNCHANGED <<now, approved, jobs, overtaken, edits, stops>>

BeginLaunch(w) ==
    /\ worker[w].at = "claimed"
    /\ row[worker[w].schedule].claimed # None
    /\ approved
    /\ worker' = [worker EXCEPT ![w].at = "launching", ![w].since = now]
    /\ UNCHANGED <<now, approved, row, jobs, overtaken, edits, stops>>

\* The Job is committed; the schedule is not yet.
Launch(w) ==
    LET s == worker[w].schedule IN
    /\ worker[w].at = "launching"
    /\ worker' = [worker EXCEPT ![w].at = "launched"]
    /\ jobs' = [jobs EXCEPT ![s][worker[w].occurrence] = @ + 1]
    /\ UNCHANGED <<now, approved, row, overtaken, edits, stops>>

\* Mutant: a refused launch disables the schedule.
LaunchRefused_Disables(w) ==
    /\ worker[w].at = "launching"
    /\ worker' = [worker EXCEPT ![w].at = "launched"]
    /\ row' = [row EXCEPT ![worker[w].schedule].enabled = FALSE]
    /\ UNCHANGED <<now, approved, jobs, overtaken, edits, stops>>

\* The concurrency policy or a validation refuses the launch.
LaunchRefused(w) ==
    /\ worker[w].at = "launching"
    /\ worker' = [worker EXCEPT ![w].at = "launched"]
    /\ UNCHANGED <<now, approved, row, jobs, overtaken, edits, stops>>

\* Mutant: the next occurrence is counted from the one that was launched.
RecordRun_FromOccurrence(w) ==
    LET s == worker[w].schedule
        next == NextRun(row[s].kind, row[s].start, worker[w].occurrence) IN
    /\ worker[w].at = "launched"
    /\ row' = [row EXCEPT ![s].next = next, ![s].claimed = None,
                          ![s].enabled = @ /\ row[s].kind # "once" /\ next # None]
    /\ worker' = [worker EXCEPT ![w] = AtRest]
    /\ UNCHANGED <<now, approved, jobs, overtaken, edits, stops>>

\* Only the columns that the worker writes change; the rest is read afresh.
RecordRun(w) ==
    LET s == worker[w].schedule
        next == NextRun(row[s].kind, row[s].start, worker[w].since) IN
    /\ worker[w].at = "launched"
    /\ row' = [row EXCEPT ![s].next = next, ![s].claimed = None,
                          ![s].enabled = @ /\ row[s].kind # "once" /\ next # None]
    /\ worker' = [worker EXCEPT ![w] = AtRest]
    /\ UNCHANGED <<now, approved, jobs, overtaken, edits, stops>>

\* The worker is stopped, or an exception it does not expect ends it.
StopWorker(w) ==
    /\ stops < MaxStops
    /\ worker[w].at # "rest"
    /\ worker' = [worker EXCEPT ![w] = AtRest]
    /\ stops' = stops + 1
    /\ UNCHANGED <<now, approved, row, jobs, overtaken, edits>>

InHands(s) == \E w \in Workers : worker[w].at # "rest" /\ worker[w].schedule = s

\* An administrator saves the schedule: the claim goes, the next run is new.
SaveSchedule(s, kind, start, enabled) ==
    LET next == IF enabled THEN NextRun(kind, start, now) ELSE None IN
    /\ edits < MaxEdits
    /\ enabled => approved
    /\ row' = [row EXCEPT ![s] = [kind |-> kind, start |-> start, enabled |-> next # None,
                                  next |-> next, claimed |-> None]]
    /\ overtaken' = IF InHands(s) THEN overtaken \cup {s} ELSE overtaken
    /\ edits' = edits + 1
    /\ UNCHANGED <<now, approved, worker, jobs, stops>>

ToggleSchedule(s) == SaveSchedule(s, row[s].kind, row[s].start, ~row[s].enabled)
EditSchedule(s) ==
    \E kind \in Kinds, start \in 1..End, enabled \in BOOLEAN :
        SaveSchedule(s, kind, start, enabled)

ChangeApproval ==
    /\ edits < MaxEdits
    /\ edits' = edits + 1
    /\ approved' = ~approved
    /\ UNCHANGED <<now, row, worker, jobs, overtaken, stops>>

WorkerStep(w) ==
    \/ \E s \in Schedules : ClaimSchedule(w, s)
    \/ FindClaimGone(w) \/ DisableUnapproved(w) \/ BeginLaunch(w)
    \/ Launch(w) \/ LaunchRefused(w) \/ RecordRun(w)

Next ==
    \/ Tick \/ ChangeApproval
    \/ \E w \in Workers : WorkerStep(w) \/ StopWorker(w)
    \/ \E s \in Schedules : ToggleSchedule(s) \/ EditSchedule(s)

Spec == Init /\ [][Next]_vars

\* The service is restarted whenever it stops, and time passes.
Fairness == WF_vars(Tick) /\ \A w \in Workers : WF_vars(WorkerStep(w))

FairSpec == Spec /\ Fairness

-----------------------------------------------------------------------------
\* Types; an enabled schedule has a next run, whoever wrote it last.
TypeOK ==
    /\ \A s \in Schedules : row[s].enabled => row[s].next # None
    /\ now \in Times
    /\ approved \in BOOLEAN
    /\ row \in [Schedules -> [kind : Kinds, start : Nat, enabled : BOOLEAN, next : Nat \cup {None},
                              claimed : Times \cup {None}]]
    /\ worker \in [Workers -> [at : {"rest", "claimed", "launching", "launched"},
                               schedule : Schedules, occurrence : Nat \cup {None},
                               since : Times \cup {None}]]

\* An occurrence is launched twice only when the claim grew stale, for its
\* worker was stopped or took too long, or when the schedule was saved while a
\* worker had it in hands (claim_schedule, run_claimed_schedule).
OneJobPerOccurrence ==
    \A s \in Schedules : \A t \in DOMAIN jobs[s] : jobs[s][t] > 1 => s \in overtaken

\* After an outage the missed occurrences are made up by one launch: while a
\* schedule is not overtaken its next run is never moved back, nor to an
\* instant at which its last launch had already begun (calculate_next_run).
MissedRunsAreSkipped ==
    [][\A s \in Schedules :
          (row'[s].next # row[s].next /\ row'[s].next # None /\ s \notin overtaken') =>
              row'[s].next > (IF edits' # edits THEN now
                              ELSE Max({worker[w].since : w \in {v \in Workers :
                                            worker[v].schedule = s}}))]_vars

\* A due schedule does not stay due with the same occurrence: stopped workers
\* and stale claims delay it only, as far as the clock goes (claim_schedule
\* with stale_after_minutes).
DueRunsAreHandled ==
    \A s \in Schedules, t \in 1..End :
        (row[s].enabled /\ row[s].next = t) ~>
            \/ ~(row[s].enabled /\ row[s].next = t)
            \/ now = MaxTime /\ row[s].claimed >= MaxTime - StaleAfter

\* What an administrator saved is what the schedule does: while the schedule is
\* not overtaken, a worker disables it only when it has the due occurrence in
\* hands, and there is no later one or the Project is not approved.
SavedRunsAreKept ==
    [][\A s \in Schedules :
          (row[s].enabled /\ ~row'[s].enabled /\ edits' = edits /\ s \notin overtaken) =>
              /\ row[s].next <= now
              /\ row[s].kind = "once" \/ row'[s].next = None]_vars

=============================================================================

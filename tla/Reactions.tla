----------------------------- MODULE Reactions ------------------------------
(***************************************************************************)
(* Signals and the Reactions they cause.  A sender delivers a Signal until *)
(* it is acknowledged; the web worker that inserts it evaluates every      *)
(* enabled Reactor in turn; it may die between any two commits.  A Reactor *)
(* with a recovery window leaves a pending Reaction, which the runner's    *)
(* loop releases later unless a recovery Signal comes first.  A launched   *)
(* Job is committed before its Reaction is linked to it.  The audit        *)
(* records inside the handlers commit, so that each step here is one       *)
(* transaction; a launch is one too (ProjectQueue looks into it).          *)
(***************************************************************************)
EXTENDS Integers, Sequences, FiniteSets

CONSTANTS
    Signals,
    Reactors,
    Name,           \* the names of the Reactors, as numbers in their order
    Matches,        \* pairs <<signal, reactor>> that pass the match rules
    Recovers,       \* <<recovery signal, signal>> with equal correlation inputs
    SameHost,       \* pairs of Signals of one host
    Window,         \* recovery window of a Reactor, 0 without one
    Cooldown,       \* cooldown of a Reactor, 0 without one
    Limit,          \* maximum of concurrent Reactions of a Reactor
    MaxTime,        \* bound on the clock
    MaxCrashes,     \* bound on workers and runners that die
    Editable        \* bound: the Reactors that administrators change, once each

ASSUME ReactionAssumption ==
    /\ IsFiniteSet(Signals)
    /\ Name \in [Reactors -> Nat]
    /\ \A q, r \in Reactors : Name[q] = Name[r] => q = r
    /\ Matches \subseteq Signals \X Reactors
    /\ Recovers \subseteq Signals \X Signals /\ SameHost \subseteq Signals \X Signals
    /\ Window \in [Reactors -> Nat] /\ Cooldown \in [Reactors -> Nat]
    /\ Limit \in [Reactors -> Nat \ {0}]
    /\ MaxTime \in Nat /\ MaxCrashes \in Nat /\ Editable \subseteq Reactors

Pairs == Signals \X Reactors
Modes == {"disabled", "observe", "automatic"}
Ended == {"ended"}
RowStatuses == {"none", "observed", "failed", "suppressed", "recovered", "pending",
                "queued", "running"} \cup Ended
None == -1
NoReactor == CHOOSE r \in Reactors : TRUE     \* stands in where no Reactor is in hands

VARIABLES
    now,
    mode,       \* reactor -> disabled, observe or automatic
    signal,     \* signal -> the row: none, accepted or processed
    handler,    \* signal -> the request that evaluates it: how far, when received,
                \* the Reactors left, the one in hands, the Reactions to suppress;
                \* history: the Reactions that were pending when it was accepted
    row,        \* Reaction rows: status, when created, when due, linked Job
    jobs,       \* Reaction -> statuses of the Jobs launched for it
    release,    \* the runner's loop: how far, the Reaction in hands
    saved,      \* history: Reactions that a recovery Signal, accepted after them, was
                \* evaluated for before their window ended
    edited,     \* history: Reactors that administrators changed
    blind,      \* history: Reactors for which a launch began while another Job of
                \* theirs was not linked
    crashes

vars == <<now, mode, signal, handler, row, jobs, release, saved, edited,
          blind, crashes>>

NoRow == [status |-> "none", created |-> 0, due |-> None, job |-> 0]
NoHandler == [at |-> "none", received |-> 0, todo |-> {}, of |-> NoReactor, found |-> {},
              pending |-> {}]
AtRest == [at |-> "rest", of |-> CHOOSE p \in Pairs : TRUE]

Init ==
    /\ now = 0
    /\ mode = [r \in Reactors |-> "automatic"]
    /\ signal = [s \in Signals |-> "none"]
    /\ handler = [s \in Signals |-> NoHandler]
    /\ row = [p \in Pairs |-> NoRow]
    /\ jobs = [p \in Pairs |-> <<>>]
    /\ release = AtRest
    /\ saved = {} /\ edited = {} /\ blind = {} /\ crashes = 0

Tick ==
    /\ now < MaxTime
    /\ now' = now + 1
    /\ UNCHANGED <<mode, signal, handler, row, jobs, release, saved, edited, blind, crashes>>

-----------------------------------------------------------------------------
(* Delivery.                                                               *)

Accept(s) ==
    /\ signal' = [signal EXCEPT ![s] = "accepted"]
    /\ handler' = [handler EXCEPT ![s] = [NoHandler EXCEPT
            !.at = "evaluating", !.received = now,
            !.pending = {p \in Pairs : row[p].status = "pending"},
            !.todo = {r \in Reactors : mode[r] # "disabled"}]]
    /\ UNCHANGED <<now, mode, row, jobs, release, saved, edited, blind, crashes>>

\* The Signal is committed before it is evaluated.  One that is known already,
\* evaluated or not, is answered as a duplicate, and nothing changes.
Deliver(s) == signal[s] = "none" /\ Accept(s)

-----------------------------------------------------------------------------
(* Evaluation.                                                             *)

\* The cooldown looks for Reactions that are still queued.
CoolingDown(s, r) ==
    /\ Cooldown[r] > 0
    /\ \E q \in Signals : /\ <<s, q>> \in SameHost
                          /\ row[<<q, r>>].status = "queued"
                          /\ row[<<q, r>>].created >= now - Cooldown[r]

ActiveJobs(r) ==
    {q \in Signals : LET p == <<q, r>> IN
        row[p].job # 0 /\ jobs[p][row[p].job] \notin Ended}

\* Somebody is launching for the Reactor, or a Job of a dead one still runs.
Unlinked(r) ==
    \/ \E q \in Signals : handler[q].at \in {"launching", "launched"} /\ handler[q].of = r
    \/ release.at # "rest" /\ release.of[2] = r
    \/ \E q \in Signals : \E i \in DOMAIN jobs[<<q, r>>] :
           i # row[<<q, r>>].job /\ jobs[<<q, r>>][i] \notin Ended

\* Mutant: the concurrency limit is not looked at.
Suppressed_Unlimited(s, r) == CoolingDown(s, r)

\* _automatic_suppression
Suppressed(s, r) == CoolingDown(s, r) \/ Cardinality(ActiveJobs(r)) >= Limit[r]

\* Mutant: a Reaction that is due is too late for a recovery Signal by a tick.
PendingFor_Strict(s, r) ==
    {p \in Pairs : /\ p[2] = r /\ Window[r] > 0 /\ row[p].status = "pending"
                   /\ <<s, p[1]>> \in Recovers
                   /\ row[p].due > handler[s].received + 1
                   /\ row[p].created <= handler[s].received}

\* suppress_pending_reactions: what a recovery Signal finds for this Reactor.
PendingFor(s, r) ==
    {p \in Pairs : /\ p[2] = r /\ Window[r] > 0 /\ row[p].status = "pending"
                   /\ <<s, p[1]>> \in Recovers
                   /\ row[p].due >= handler[s].received
                   /\ row[p].created <= handler[s].received}

\* The next Reactor in the order of names, and what is pending for it.
FindPending(s) ==
    /\ handler[s].at = "evaluating"
    /\ \E r \in handler[s].todo :
        LET found == PendingFor(s, r) IN
        /\ \A q \in handler[s].todo : Name[r] <= Name[q]
        /\ handler' = [handler EXCEPT
               ![s].at = IF found = {} THEN "reacting" ELSE "suppressing",
               ![s].todo = @ \ {r}, ![s].of = r, ![s].found = found]
    /\ UNCHANGED <<now, mode, signal, row, jobs, release, saved, edited, blind, crashes>>

\* The rows are written whatever has become of them since they were found.
SuppressPending(s) ==
    /\ handler[s].at = "suppressing"
    /\ \E p \in handler[s].found :
        /\ row' = [row EXCEPT ![p].status = "recovered", ![p].due = None]
        /\ handler' = [handler EXCEPT
               ![s].found = @ \ {p},
               ![s].at = IF handler[s].found = {p} THEN "reacting" ELSE @]
    /\ UNCHANGED <<now, mode, signal, jobs, release, saved, edited, blind, crashes>>

EndOfReactor(s) == [handler EXCEPT ![s].at = "evaluating", ![s].of = NoReactor]

Ignores(s, r) == <<s, r>> \notin Matches \/ mode[r] = "disabled"

\* The rows that a Reactor may leave without a launch; preparation of the
\* Package may fail.
Outcomes(s, r) ==
    LET new(status, due) == [status |-> status, created |-> now, due |-> due, job |-> 0]
    IN {new("failed", None)} \cup
       (IF mode[r] = "observe" THEN {new("observed", None)}
        ELSE IF Suppressed(s, r) THEN {new("suppressed", None)}
        ELSE IF Window[r] > 0 THEN {new("pending", now + Window[r])}
        ELSE {})

\* run_reactor, where it launches nothing.
React(s) ==
    LET r == handler[s].of IN
    /\ handler[s].at = "reacting"
    /\ \/ Ignores(s, r) /\ row' = row
       \/ ~Ignores(s, r) /\ \E new \in Outcomes(s, r) : row' = [row EXCEPT ![<<s, r>>] = new]
    /\ handler' = EndOfReactor(s)
    /\ UNCHANGED <<now, mode, signal, jobs, release, saved, edited, blind, crashes>>

\* The preview refreshes the repositories and commits: the Reaction is visible
\* as failed.
BeginLaunch(s) ==
    LET r == handler[s].of IN
    /\ handler[s].at = "reacting" /\ <<s, r>> \in Matches
    /\ mode[r] = "automatic" /\ ~Suppressed(s, r) /\ Window[r] = 0
    /\ row' = [row EXCEPT ![<<s, r>>] = [NoRow EXCEPT !.status = "failed", !.created = now]]
    /\ handler' = [handler EXCEPT ![s].at = "launching"]
    /\ blind' = IF Unlinked(r) THEN blind \cup {r} ELSE blind
    /\ UNCHANGED <<now, mode, signal, jobs, release, saved, edited, crashes>>

\* queue_project_execution commits the Job; the Reaction does not know it yet.
CommitJob(s) ==
    /\ handler[s].at = "launching"
    /\ jobs' = [jobs EXCEPT ![<<s, handler[s].of>>] = Append(@, "queued")]
    /\ handler' = [handler EXCEPT ![s].at = "launched"]
    /\ UNCHANGED <<now, mode, signal, row, release, saved, edited, blind, crashes>>

\* The preview or the queue refuses: the Reaction stays failed.
RefuseJob(s) ==
    /\ handler[s].at = "launching"
    /\ handler' = EndOfReactor(s)
    /\ UNCHANGED <<now, mode, signal, row, jobs, release, saved, edited, blind, crashes>>

\* Mutant: the Reaction says queued and is not linked.
Linked_NoJob(p) == [row EXCEPT ![p].status = "queued", ![p].due = None]

Linked(p) == [row EXCEPT ![p].status = "queued", ![p].due = None, ![p].job = Len(jobs[p])]

LinkJob(s) ==
    /\ handler[s].at = "launched"
    /\ row' = Linked(<<s, handler[s].of>>)
    /\ handler' = EndOfReactor(s)
    /\ UNCHANGED <<now, mode, signal, jobs, release, saved, edited, blind, crashes>>

FinishSignal(s) ==
    /\ handler[s].at = "evaluating" /\ handler[s].todo = {}
    /\ signal' = [signal EXCEPT ![s] = "processed"]
    /\ handler' = [handler EXCEPT ![s] = NoHandler]
    /\ saved' = saved \cup {p \in handler[s].pending :
                    <<s, p[1]>> \in Recovers /\ now < row[p].created + Window[p[2]]}
    /\ UNCHANGED <<now, mode, row, jobs, release, edited, blind, crashes>>

-----------------------------------------------------------------------------
(* The runner's loop: process_due_reactions.                               *)

Due(p) == row[p].status = "pending" /\ row[p].due <= now

\* Mutant: a Reactor that was switched off is passed over.
SuppressDue_Enabled(p) ==
    /\ release.at = "rest" /\ Due(p)
    /\ mode[p[2]] = "automatic" /\ Suppressed(p[1], p[2])
    /\ row' = [row EXCEPT ![p].status = "suppressed", ![p].due = None]
    /\ UNCHANGED <<now, mode, signal, handler, jobs, release, saved, edited, blind, crashes>>

\* The Reactor was switched off, or a suppression applies now.
SuppressDue(p) ==
    /\ release.at = "rest" /\ Due(p)
    /\ mode[p[2]] # "automatic" \/ Suppressed(p[1], p[2])
    /\ row' = [row EXCEPT ![p].status = "suppressed", ![p].due = None]
    /\ UNCHANGED <<now, mode, signal, handler, jobs, release, saved, edited, blind, crashes>>

BeginRelease(p) ==
    /\ release.at = "rest" /\ Due(p)
    /\ mode[p[2]] = "automatic" /\ ~Suppressed(p[1], p[2])
    /\ release' = [at |-> "launching", of |-> p]
    /\ blind' = IF Unlinked(p[2]) THEN blind \cup {p[2]} ELSE blind
    /\ UNCHANGED <<now, mode, signal, handler, row, jobs, saved, edited, crashes>>

ReleaseJob ==
    /\ release.at = "launching"
    /\ jobs' = [jobs EXCEPT ![release.of] = Append(@, "queued")]
    /\ release' = [release EXCEPT !.at = "launched"]
    /\ UNCHANGED <<now, mode, signal, handler, row, saved, edited, blind, crashes>>

\* Preparation or launch fails: rolled back, and failed if still pending.
FailRelease ==
    /\ release.at = "launching"
    /\ row' = IF row[release.of].status = "pending"
              THEN [row EXCEPT ![release.of].status = "failed", ![release.of].due = None]
              ELSE row
    /\ release' = AtRest
    /\ UNCHANGED <<now, mode, signal, handler, jobs, saved, edited, blind, crashes>>

\* The row is written whatever a recovery Signal has made of it since.
LinkReleased ==
    /\ release.at = "launched"
    /\ row' = Linked(release.of)
    /\ release' = AtRest
    /\ UNCHANGED <<now, mode, signal, handler, jobs, saved, edited, blind, crashes>>

-----------------------------------------------------------------------------
(* Jobs, deaths and administrators.                                        *)

\* Mutant: the end of a Job is written past the listener.
AdvanceJob_Silent(p) ==
    \E i \in DOMAIN jobs[p] :
        /\ jobs[p][i] \notin Ended
        /\ LET next == IF jobs[p][i] = "queued" THEN "running" ELSE "ended" IN
           /\ jobs' = [jobs EXCEPT ![p][i] = next]
           /\ row' = IF row[p].job = i /\ next = "running" THEN [row EXCEPT ![p].status = next]
                     ELSE row
        /\ UNCHANGED <<now, mode, signal, handler, release, saved, edited, blind, crashes>>

\* Job.status is set: a Reaction that is linked follows.  The bulk UPDATE with
\* which the local runner starts a Job passes the listener by.
AdvanceJob(p) ==
    \E i \in DOMAIN jobs[p] :
        /\ jobs[p][i] \notin Ended
        /\ LET next == IF jobs[p][i] = "queued" THEN "running" ELSE "ended" IN
           /\ jobs' = [jobs EXCEPT ![p][i] = next]
           /\ \/ row' = IF row[p].job = i THEN [row EXCEPT ![p].status = next] ELSE row
              \/ next = "running" /\ row' = row
        /\ UNCHANGED <<now, mode, signal, handler, release, saved, edited, blind, crashes>>

\* The web worker dies, or an exception of one Reactor ends the evaluation:
\* the row that would record it breaks the unique constraint of the first.
LoseHandler(s) ==
    /\ crashes < MaxCrashes /\ handler[s].at # "none"
    /\ handler' = [handler EXCEPT ![s] = NoHandler]
    /\ crashes' = crashes + 1
    /\ UNCHANGED <<now, mode, signal, row, jobs, release, saved, edited, blind>>

CrashRunner ==
    /\ crashes < MaxCrashes /\ release.at # "rest"
    /\ release' = AtRest
    /\ crashes' = crashes + 1
    /\ UNCHANGED <<now, mode, signal, handler, row, jobs, saved, edited, blind>>

EditReactor(r) ==
    /\ r \in Editable \ edited
    /\ \E m \in Modes \ {mode[r]} : mode' = [mode EXCEPT ![r] = m]
    /\ edited' = edited \cup {r}
    /\ UNCHANGED <<now, signal, handler, row, jobs, release, saved, blind, crashes>>

HandlerStep(s) ==
    \/ FindPending(s) \/ SuppressPending(s) \/ React(s) \/ BeginLaunch(s)
    \/ CommitJob(s) \/ RefuseJob(s) \/ LinkJob(s) \/ FinishSignal(s)

ReleaseStep ==
    \/ \E p \in Pairs : SuppressDue(p) \/ BeginRelease(p)
    \/ ReleaseJob \/ FailRelease \/ LinkReleased

Next ==
    \/ Tick \/ ReleaseStep \/ CrashRunner
    \/ \E s \in Signals : Deliver(s) \/ HandlerStep(s) \/ LoseHandler(s)
    \/ \E p \in Pairs : AdvanceJob(p)
    \/ \E r \in Reactors : EditReactor(r)

Spec == Init /\ [][Next]_vars

\* The loop of the runner goes on, a request is served unless it is lost, and
\* a sender retries.
Fairness ==
    /\ WF_vars(Tick) /\ WF_vars(ReleaseStep)
    /\ \A s \in Signals : WF_vars(HandlerStep(s)) /\ WF_vars(Deliver(s))

FairSpec == Spec /\ Fairness

-----------------------------------------------------------------------------
Orphans(p) == Len(jobs[p]) - (IF row[p].job = 0 THEN 0 ELSE 1)

\* A Job that no Reaction knows comes from a worker or runner that died between
\* the two commits, or one is just there: at most one for each
\* (_queue_reaction).
UnknownJobsComeFromDeaths ==
    LET known == {p \in Pairs : Orphans(p) > 0} IN
    /\ \A p \in Pairs : Orphans(p) <= crashes + 1
    /\ Cardinality(known) <=
          crashes + Cardinality({s \in Signals : handler[s].at = "launched"})
                  + (IF release.at = "launched" THEN 1 ELSE 0)

\* A recovery Signal that was accepted over a pending Reaction, and evaluated
\* before its window ended, kept the Package from running, for good; unless an
\* administrator changed the Reactor (docs/REACTIONS.md "suppresses the pending
\* Reaction instead of running the Package").
RecoveryInTimeWins == \A p \in saved : p[2] \in edited \/ jobs[p] = <<>>

OpenJobs(p) == {i \in DOMAIN jobs[p] : jobs[p][i] \notin Ended}

\* The limit of concurrent Reactions holds for all Jobs of a Reactor, unless a
\* launch began while another Job was not linked yet or never would be
\* (_automatic_suppression counts linked Jobs, and reads before it commits).
LimitOfConcurrentReactions ==
    \A r \in Reactors \ blind :
        Cardinality({q \in Signals : OpenJobs(<<q, r>>) # {}}) <= Limit[r]

\* A Reaction tells what its Job does: when it says that it runs or has ended,
\* its linked Job does (sync_reaction_for_job).
ReactionFollowsJob ==
    \A p \in Pairs : row[p].status \in {"running"} \cup Ended =>
        row[p].job # 0 /\ jobs[p][row[p].job] = row[p].status

\* Nothing is left over: every Signal is evaluated to the end, unless a worker
\* died with it, and a pending Reaction whose time has come is settled whatever
\* died, for its deadline is in the database (_persist_signal commits first and
\* answers repetitions as duplicates; process_due_reactions).
EverythingIsSettled ==
    []<>(/\ \A s \in Signals : signal[s] = "processed" \/ crashes > 0
         /\ \A s \in Signals : handler[s].at = "none"
         /\ \A p \in Pairs : row[p].status = "pending" => row[p].due > MaxTime)

=============================================================================

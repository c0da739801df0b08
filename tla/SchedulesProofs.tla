-------------------------- MODULE SchedulesProofs ---------------------------
(***************************************************************************)
(* Theorems about Schedules for every interval, every number of workers    *)
(* and schedules, and every age at which claims grow stale.                *)
(***************************************************************************)
EXTENDS Schedules, TLAPS

\* The arithmetic of calculate_next_run: one step more than fit passes the instant.
LEMMA OneStepMorePasses ==
    ASSUME NEW d \in Nat, NEW length \in Nat \ {0}
    PROVE  length * (d \div length + 1) > d
BY SMTT(30)

\* The next run is always later, and never lies behind the end of an interval.
LEMMA NextRunIsLater ==
    ASSUME NEW kind \in Kinds, NEW start \in Nat, NEW after \in Nat
    PROVE  /\ NextRun(kind, start, after) \in Nat \cup {None}
           /\ NextRun(kind, start, after) # None => NextRun(kind, start, after) > after
           /\ kind = "interval" => NextRun(kind, start, after) <= End
<1>a. None \notin Nat /\ None <= End /\ None \in Int /\ End \in Nat
  BY ScheduleAssumption DEF None
<1>1. CASE after < start
  BY <1>1, <1>a DEF NextRun
<1>2. CASE after >= start
  <2> DEFINE d == after - start
             next == start + Interval * (d \div Interval + 1)
  <2>1. d \in Nat /\ Interval \in Nat \ {0} /\ Interval * (d \div Interval + 1) > d
    BY <1>2, OneStepMorePasses, ScheduleAssumption
  <2>2. d \div Interval + 1 \in Nat /\ Interval * (d \div Interval + 1) \in Nat
    BY <2>1
  <2>3. next \in Nat /\ next > after
    BY <2>1, <2>2
  <2>4. \/ kind = "once" /\ NextRun(kind, start, after) = None
        \/ kind = "interval" /\ NextRun(kind, start, after) = IF next > End THEN None ELSE next
    BY <1>2 DEF NextRun, Kinds
  <2> HIDE DEF next
  <2> QED
    BY <1>a, <2>3, <2>4
<1> QED
  BY <1>1, <1>2

-----------------------------------------------------------------------------
Row == [kind : Kinds, start : Nat, enabled : BOOLEAN, next : Nat \cup {None},
        claimed : Times \cup {None}]
Worker == [at : {"rest", "claimed", "launching", "launched"}, schedule : Schedules,
           occurrence : Nat \cup {None}, since : Times \cup {None}]

\* Types of the counters.
CountersOK ==
    /\ edits \in Nat /\ stops \in Nat
    /\ jobs \in [Schedules -> [0..(End + Interval) -> Nat]]

Holds(w, s) == worker[w].at # "rest" /\ worker[w].schedule = s
Launched(s) == {t \in 0..(End + Interval) : jobs[s][t] > 0}

\* What a worker has in hands was due when it was claimed, and is not launched
\* later than that.
HandsInv ==
    /\ \A s \in Schedules : \A t \in Launched(s) : t <= now
    /\ \A w \in Workers : worker[w].at # "rest" =>
          /\ worker[w].occurrence \in Nat /\ worker[w].since \in Times
          /\ worker[w].occurrence <= worker[w].since /\ worker[w].since <= now

\* As long as a schedule is not overtaken, one worker at most has it in hands, under
\* a claim, and nothing was launched that lies ahead of what is next.
ClaimInv(s) ==
    /\ \A v, w \in Workers : Holds(v, s) /\ Holds(w, s) => v = w
    /\ \A w \in Workers : Holds(w, s) =>
          /\ row[s].claimed # None
          /\ \A t \in Launched(s) :
                IF worker[w].at = "launched" THEN t <= worker[w].since
                ELSE t < worker[w].occurrence
    /\ (row[s].claimed = None /\ row[s].next # None) =>
          \A t \in Launched(s) : t < row[s].next
    /\ \A t \in 0..(End + Interval) : jobs[s][t] <= 1

ScheduleInv ==
    /\ TypeOK /\ CountersOK /\ HandsInv
    /\ \A s \in Schedules \ overtaken : ClaimInv(s)

LEMMA InitialSchedules == Init => ScheduleInv
<1> SUFFICES ASSUME Init PROVE ScheduleInv
  OBVIOUS
<1>a. 0 \in Times /\ None \notin Nat /\ MaxTime \in Nat /\ (CHOOSE s \in Schedules : TRUE) \in Schedules
  BY ScheduleAssumption DEF Times, None
<1>1. TypeOK
  <2>1. AtRest \in Worker
    BY <1>a DEF AtRest, Worker
  <2>2. \A s \in Schedules : row[s] \in Row /\ row[s].next # None
    <3>1. SUFFICES ASSUME NEW s \in Schedules PROVE row[s] \in Row /\ row[s].next # None
      OBVIOUS
    <3>2. row[s] \in [kind : Kinds, start : {1}, enabled : {TRUE}, next : {1}, claimed : {None}]
      BY DEF Init
    <3>3. row[s].kind \in Kinds
          /\ row[s] = [kind |-> row[s].kind, start |-> 1, enabled |-> TRUE, next |-> 1,
                       claimed |-> None]
      BY <3>2
    <3>4. row[s].next # None
      BY <1>a, <3>3
    <3>5. ASSUME NEW kind \in Kinds
          PROVE  [kind |-> kind, start |-> 1, enabled |-> TRUE, next |-> 1, claimed |-> None] \in Row
      BY DEF Row
    <3> QED
      BY <3>3, <3>4, <3>5, Zenon
  <2>3. row \in [Schedules -> Row]
    BY <1>a, <2>2 DEF Init
  <2> QED
    BY <1>a, <2>1, <2>2, <2>3 DEF Init, TypeOK, Row, Worker
<1>2. CountersOK /\ \A s \in Schedules : Launched(s) = {}
  BY ScheduleAssumption DEF Init, CountersOK, Launched
<1>3. HandsInv
  BY <1>2 DEF Init, HandsInv, AtRest
<1>4. \A s \in Schedules : ClaimInv(s)
  BY <1>2 DEF Init, ClaimInv, Holds, AtRest
<1> QED
  BY <1>1, <1>2, <1>3, <1>4 DEF ScheduleInv

-----------------------------------------------------------------------------
(* Types.                                                                  *)

LEMMA WorkerStepKeepsTypes ==
    ASSUME ScheduleInv, NEW w \in Workers, WorkerStep(w) \/ StopWorker(w)
    PROVE  TypeOK'
<1>a. /\ row \in [Schedules -> Row] /\ worker \in [Workers -> Worker]
      /\ worker[w] \in Worker /\ AtRest \in Worker
      /\ now \in Times /\ approved \in BOOLEAN /\ Times \subseteq Nat /\ None \notin Nat
      /\ \A s \in Schedules : row[s].enabled => row[s].next # None
  <2>1. Times \subseteq Nat /\ None \notin Nat /\ (CHOOSE s \in Schedules : TRUE) \in Schedules
    BY ScheduleAssumption DEF Times, None
  <2> QED
    BY <2>1 DEF ScheduleInv, TypeOK, Row, Worker, AtRest
<1>b. TypeOK' <=> /\ \A s \in Schedules : row'[s].enabled => row'[s].next # None
                  /\ row' \in [Schedules -> Row] /\ worker' \in [Workers -> Worker]
                  /\ now' \in Times /\ approved' \in BOOLEAN
  BY DEF TypeOK, Row, Worker
<1>1. ASSUME NEW s \in Schedules, ClaimSchedule(w, s)
      PROVE  TypeOK'
  <2>1. row' \in [Schedules -> Row] /\ \A t \in Schedules : row'[t].enabled => row'[t].next # None
    BY <1>1, <1>a DEF ClaimSchedule, Row
  <2>2. [at |-> "claimed", schedule |-> s, occurrence |-> row[s].next, since |-> now] \in Worker
    BY <1>a DEF Row, Worker
  <2>3. worker' \in [Workers -> Worker]
    BY <1>1, <1>a, <2>2 DEF ClaimSchedule
  <2> QED
    BY <1>1, <1>a, <1>b, <2>1, <2>3 DEF ClaimSchedule
<1>2. CASE FindClaimGone(w) \/ StopWorker(w)
  <2>1. worker' \in [Workers -> Worker] /\ UNCHANGED <<row, now, approved>>
    BY <1>2, <1>a DEF FindClaimGone, StopWorker
  <2> QED
    BY <1>a, <1>b, <2>1
<1>3. CASE DisableUnapproved(w)
  <2> DEFINE s == worker[w].schedule
  <2>a. s \in Schedules
    BY <1>a DEF Worker
  <2>b. row' = [row EXCEPT ![s].enabled = FALSE, ![s].next = None, ![s].claimed = None]
    BY <1>3 DEF DisableUnapproved
  <2> HIDE DEF s
  <2>c. /\ row[s] \in Row
        /\ row'[s] = [row[s] EXCEPT !.enabled = FALSE, !.next = None, !.claimed = None]
        /\ row' = [row EXCEPT ![s] = row'[s]]
    BY <1>a, <2>a, <2>b
  <2>d. row'[s] \in Row /\ row'[s].enabled = FALSE
    BY <2>c DEF Row
  <2>e. row' \in [Schedules -> Row] /\ \A t \in Schedules \ {s} : row'[t] = row[t]
    BY <1>a, <2>c, <2>d
  <2>1. row' \in [Schedules -> Row] /\ \A t \in Schedules : row'[t].enabled => row'[t].next # None
    BY <1>a, <2>d, <2>e
  <2>2. worker' \in [Workers -> Worker]
    BY <1>3, <1>a DEF DisableUnapproved
  <2> QED
    BY <1>3, <1>a, <1>b, <2>1, <2>2 DEF DisableUnapproved
<1>4. CASE BeginLaunch(w) \/ Launch(w) \/ LaunchRefused(w)
  <2>1. UNCHANGED <<row, now, approved>>
    BY <1>4 DEF BeginLaunch, Launch, LaunchRefused
  <2>2. worker' \in [Workers -> Worker]
    BY <1>4, <1>a DEF BeginLaunch, Launch, LaunchRefused, Worker
  <2> QED
    BY <1>a, <1>b, <2>1, <2>2
<1>5. CASE RecordRun(w)
  <2> DEFINE s == worker[w].schedule
             next == NextRun(row[s].kind, row[s].start, worker[w].since)
  <2>1. s \in Schedules /\ worker[w].since \in Nat /\ row[s].kind \in Kinds /\ row[s].start \in Nat
    BY <1>5, <1>a DEF RecordRun, ScheduleInv, HandsInv, Row, Worker
  <2>2. next \in Nat \cup {None}
    BY <2>1, NextRunIsLater
  <2>3. row' = [row EXCEPT ![s].next = next, ![s].claimed = None,
                           ![s].enabled = @ /\ row[s].kind # "once" /\ next # None]
    BY <1>5 DEF RecordRun
  <2> HIDE DEF next, s
  <2>4. (row[s].enabled /\ row[s].kind # "once" /\ next # None) \in BOOLEAN
    OBVIOUS
  <2>5. row' \in [Schedules -> Row]
    <3> DEFINE flag == row[s].enabled /\ row[s].kind # "once" /\ next # None
    <3>0. flag \in BOOLEAN
      OBVIOUS
    <3>1. row' = [row EXCEPT ![s].next = next, ![s].claimed = None, ![s].enabled = flag]
      BY <2>3, Zenon
    <3> HIDE DEF flag
    <3>2. /\ row[s] \in Row
          /\ row'[s] = [row[s] EXCEPT !.next = next, !.claimed = None, !.enabled = flag]
          /\ row' = [row EXCEPT ![s] = row'[s]]
      BY <1>a, <2>1, <3>1
    <3>3. row'[s] \in Row
      BY <2>2, <3>0, <3>2 DEF Row
    <3> QED
      BY <1>a, <3>2, <3>3
  <2>6. \A t \in Schedules : row'[t].enabled => row'[t].next # None
    BY <1>a, <2>1, <2>3 DEF Row
  <2>7. worker' \in [Workers -> Worker]
    BY <1>5, <1>a DEF RecordRun
  <2> QED
    BY <1>5, <1>a, <1>b, <2>5, <2>6, <2>7 DEF RecordRun
<1> QED
  BY <1>1, <1>2, <1>3, <1>4, <1>5 DEF WorkerStep

LEMMA SaveKeepsTypes ==
    ASSUME ScheduleInv, NEW s \in Schedules, NEW kind \in Kinds, NEW start \in Nat,
           NEW enabled \in BOOLEAN, SaveSchedule(s, kind, start, enabled)
    PROVE  /\ TypeOK'
           /\ row'[s].next # None => row'[s].next > now
           /\ \A t \in Schedules \ {s} : row'[t] = row[t]
<1> DEFINE next == IF enabled THEN NextRun(kind, start, now) ELSE None
           flag == next # None
<1>a. now \in Times /\ Times \subseteq Nat /\ None \notin Nat /\ row \in [Schedules -> Row]
  BY ScheduleAssumption DEF ScheduleInv, TypeOK, Times, None, Row
<1>1. next \in Nat \cup {None} /\ (next # None => next > now) /\ flag \in BOOLEAN
  BY <1>a, NextRunIsLater
<1>2. row' = [row EXCEPT ![s] = [kind |-> kind, start |-> start, enabled |-> flag,
                                 next |-> next, claimed |-> None]]
  BY DEF SaveSchedule
<1>3. UNCHANGED <<now, worker, approved>>
  BY DEF SaveSchedule
<1> HIDE DEF next, flag
<1>4. row'[s] = [kind |-> kind, start |-> start, enabled |-> flag, next |-> next,
                 claimed |-> None] /\ \A t \in Schedules \ {s} : row'[t] = row[t]
  BY <1>a, <1>2
<1>5. row'[s].next = next /\ (row'[s].enabled => row'[s].next # None)
  <2>1. row'[s].next = next /\ row'[s].enabled = flag
    BY <1>4
  <2>2. flag => next # None
    BY DEF flag
  <2> QED
    BY <2>1, <2>2
<1>6. [kind |-> kind, start |-> start, enabled |-> flag, next |-> next, claimed |-> None] \in Row
  BY <1>1 DEF Row
<1>7. row' \in [Schedules -> Row]
  BY <1>a, <1>2, <1>6
<1>8. \A t \in Schedules : row'[t].enabled => row'[t].next # None
  BY <1>4, <1>5 DEF ScheduleInv, TypeOK
<1>9. TypeOK'
  BY <1>3, <1>7, <1>8 DEF ScheduleInv, TypeOK, Row
<1> QED
  BY <1>1, <1>4, <1>5, <1>9

\* ToggleSchedule and EditSchedule.
LEMMA EditsSave ==
    ASSUME ScheduleInv, NEW s \in Schedules, ToggleSchedule(s) \/ EditSchedule(s)
    PROVE  \E kind \in Kinds, start \in Nat, enabled \in BOOLEAN :
              SaveSchedule(s, kind, start, enabled)
<1>1. row[s] \in Row
  BY DEF ScheduleInv, TypeOK, Row
<1>2. row[s].kind \in Kinds /\ row[s].start \in Nat
  BY <1>1 DEF Row
<1>3. (~row[s].enabled) \in BOOLEAN
  OBVIOUS
<1>4. CASE ToggleSchedule(s)
  BY <1>2, <1>3, <1>4 DEF ToggleSchedule
<1>5. CASE EditSchedule(s)
  <2>1. 1..End \subseteq Nat
    BY ScheduleAssumption
  <2> QED
    BY <1>5, <2>1 DEF EditSchedule
<1> QED
  BY <1>4, <1>5

\* A function that is updated inside its domain with a value of its range, or
\* outside of its domain, keeps its type.
LEMMA UpdateType ==
    ASSUME NEW D, NEW R, NEW f \in [D -> R], NEW x, NEW v, x \in D => v \in R
    PROVE  [f EXCEPT ![x] = v] \in [D -> R]
<1>1. \A y \in D : [f EXCEPT ![x] = v][y] = IF y = x THEN v ELSE f[y]
  OBVIOUS
<1>2. \A y \in D : [f EXCEPT ![x] = v][y] \in R
  BY <1>1
<1>3. [f EXCEPT ![x] = v] = [y \in D |-> [f EXCEPT ![x] = v][y]]
  OBVIOUS
<1> QED
  BY <1>2, <1>3

LEMMA StepKeepsTypes ==
    ASSUME ScheduleInv, [Next]_vars
    PROVE  TypeOK' /\ CountersOK'
<1>1. TypeOK'
  <2>1. CASE UNCHANGED <<row, worker>> /\ now' \in Times /\ approved' \in BOOLEAN
    BY <2>1 DEF ScheduleInv, TypeOK
  <2>2. CASE Tick
    BY <2>1, <2>2, ScheduleAssumption DEF Tick, Times, ScheduleInv, TypeOK
  <2>3. CASE ChangeApproval \/ UNCHANGED vars
    BY <2>1, <2>3 DEF ChangeApproval, vars, ScheduleInv, TypeOK
  <2>4. CASE \E w \in Workers : WorkerStep(w) \/ StopWorker(w)
    BY <2>4, WorkerStepKeepsTypes
  <2>5. CASE \E s \in Schedules : ToggleSchedule(s) \/ EditSchedule(s)
    BY <2>5, EditsSave, SaveKeepsTypes
  <2> QED
    BY <2>2, <2>3, <2>4, <2>5 DEF Next
<1>2. edits' \in Nat /\ stops' \in Nat
  <2>1. edits' \in {edits, edits + 1}
    BY DEF Next, WorkerStep, vars, Tick, ChangeApproval, ClaimSchedule, FindClaimGone,
           DisableUnapproved, BeginLaunch, Launch, LaunchRefused, RecordRun, StopWorker,
           ToggleSchedule, EditSchedule, SaveSchedule
  <2>2. stops' \in {stops, stops + 1}
    BY DEF Next, WorkerStep, vars, Tick, ChangeApproval, ClaimSchedule, FindClaimGone,
           DisableUnapproved, BeginLaunch, Launch, LaunchRefused, RecordRun, StopWorker,
           ToggleSchedule, EditSchedule, SaveSchedule
  <2> QED
    BY <2>1, <2>2 DEF ScheduleInv, CountersOK
<1>3. jobs' = jobs \/ \E w \in Workers : Launch(w)
  BY DEF Next, WorkerStep, vars, Tick, ChangeApproval, ClaimSchedule, FindClaimGone,
         DisableUnapproved, BeginLaunch, LaunchRefused, RecordRun, StopWorker, ToggleSchedule,
         EditSchedule, SaveSchedule
<1>4. ASSUME NEW w \in Workers, Launch(w)
      PROVE  jobs' \in [Schedules -> [0..(End + Interval) -> Nat]]
  <2> DEFINE s == worker[w].schedule
             t == worker[w].occurrence
  <2>1. jobs \in [Schedules -> [0..(End + Interval) -> Nat]]
    BY DEF ScheduleInv, CountersOK
  <2>2. jobs' = [jobs EXCEPT ![s] = [jobs[s] EXCEPT ![t] = jobs[s][t] + 1]] /\ s \in Schedules
    BY <1>4 DEF Launch, ScheduleInv, TypeOK
  <2> HIDE DEF s, t
  <2>3. [jobs[s] EXCEPT ![t] = jobs[s][t] + 1] \in [0..(End + Interval) -> Nat]
    <3>1. jobs[s] \in [0..(End + Interval) -> Nat]
      BY <2>1, <2>2
    <3> DEFINE D == 0..(End + Interval)
               v == jobs[s][t] + 1
    <3>2. t \in D => v \in Nat
      BY <3>1, ScheduleAssumption
    <3>3. jobs[s] \in [D -> Nat]
      BY <3>1
    <3> HIDE DEF v, D
    <3>4. [jobs[s] EXCEPT ![t] = v] \in [D -> Nat]
      BY <3>2, <3>3, UpdateType, Zenon
    <3> QED
      BY <3>4 DEF D, v
  <2> QED
    BY <2>1, <2>2, <2>3
<1> QED
  BY <1>1, <1>2, <1>3, <1>4 DEF ScheduleInv, CountersOK

-----------------------------------------------------------------------------
(* What workers have in hands.                                             *)

LEMMA PlainTypes ==
    ASSUME ScheduleInv
    PROVE  /\ row \in [Schedules -> Row] /\ worker \in [Workers -> Worker]
           /\ now \in Nat /\ None \notin Nat /\ Times \subseteq Nat /\ now \in Times
           /\ \A s \in Schedules : \A t \in 0..(End + Interval) : jobs[s][t] \in Nat
           /\ 0..(End + Interval) \subseteq Nat
           /\ \A w \in Workers : /\ worker[w].schedule \in Schedules
                                 /\ worker[w].at \in {"rest", "claimed", "launching", "launched"}
<1>1. Times \subseteq Nat /\ None \notin Nat /\ 0..(End + Interval) \subseteq Nat
  BY ScheduleAssumption DEF Times, None
<1>2. \A s \in Schedules : \A t \in 0..(End + Interval) : jobs[s][t] \in Nat
  BY ScheduleAssumption DEF ScheduleInv, CountersOK
<1>3. row \in [Schedules -> Row] /\ worker \in [Workers -> Worker] /\ now \in Times
  BY DEF ScheduleInv, TypeOK, Row, Worker
<1> QED
  BY <1>1, <1>2, <1>3 DEF Worker

\* What Launch does to the counters.
LEMMA LaunchCounts ==
    ASSUME ScheduleInv, NEW w \in Workers, Launch(w)
    PROVE  \A s \in Schedules : \A t \in 0..(End + Interval) :
              jobs'[s][t] = IF s = worker[w].schedule /\ t = worker[w].occurrence
                            THEN jobs[s][t] + 1 ELSE jobs[s][t]
<1> DEFINE s == worker[w].schedule
           t == worker[w].occurrence
<1>1. jobs \in [Schedules -> [0..(End + Interval) -> Nat]] /\ s \in Schedules
  BY PlainTypes DEF ScheduleInv, CountersOK
<1>2. jobs' = [jobs EXCEPT ![s] = [jobs[s] EXCEPT ![t] = jobs[s][t] + 1]]
  BY DEF Launch
<1> HIDE DEF s, t
<1>3. /\ jobs'[s] = [jobs[s] EXCEPT ![t] = jobs[s][t] + 1]
      /\ \A r \in Schedules \ {s} : jobs'[r] = jobs[r]
  BY <1>1, <1>2
<1>4. \A u \in 0..(End + Interval) : jobs'[s][u] = IF u = t THEN jobs[s][t] + 1 ELSE jobs[s][u]
  BY <1>1, <1>3
<1> QED
  BY <1>3, <1>4 DEF s, t

LEMMA HandsAreKept ==
    ASSUME ScheduleInv, [Next]_vars
    PROVE  HandsInv'
<1>a. HandsInv
  BY DEF ScheduleInv
<1>b. now' \in Nat /\ now' >= now
  <2>1. now' \in {now, now + 1}
    BY DEF Next, WorkerStep, vars, Tick, ChangeApproval, ClaimSchedule, FindClaimGone,
           DisableUnapproved, BeginLaunch, Launch, LaunchRefused, RecordRun, StopWorker,
           ToggleSchedule, EditSchedule, SaveSchedule
  <2>2. now \in Nat
    BY PlainTypes
  <2> QED
    BY <2>1, <2>2
<1>c. CASE UNCHANGED <<worker, jobs>>
  BY <1>a, <1>b, <1>c, PlainTypes DEF HandsInv, Launched
<1>1. CASE \/ Tick \/ ChangeApproval \/ UNCHANGED vars
          \/ \E s \in Schedules : ToggleSchedule(s) \/ EditSchedule(s)
  BY <1>c, <1>1 DEF Tick, ChangeApproval, vars, ToggleSchedule, EditSchedule, SaveSchedule
<1>2. ASSUME NEW w \in Workers, UNCHANGED <<jobs, now>>,
             \A v \in Workers \ {w} : worker'[v] = worker[v],
             worker'[w].at # "rest" =>
                 /\ worker'[w].occurrence \in Nat /\ worker'[w].since \in Times
                 /\ worker'[w].occurrence <= worker'[w].since /\ worker'[w].since <= now
      PROVE  HandsInv'
  BY <1>a, <1>2 DEF HandsInv, Launched
<1>3. ASSUME NEW w \in Workers, NEW s \in Schedules, ClaimSchedule(w, s)
      PROVE  HandsInv'
  <2>1. row[s].next \in Nat /\ row[s].next <= now
    BY <1>3, PlainTypes DEF ClaimSchedule, Due, Row
  <2>2. /\ \A v \in Workers \ {w} : worker'[v] = worker[v]
        /\ worker'[w].occurrence = row[s].next /\ worker'[w].since = now
        /\ UNCHANGED <<jobs, now>>
    BY <1>3, PlainTypes DEF ClaimSchedule
  <2> QED
    BY <1>2, <2>1, <2>2, PlainTypes
<1>4. ASSUME NEW w \in Workers, \/ FindClaimGone(w) \/ DisableUnapproved(w) \/ RecordRun(w)
                                \/ StopWorker(w)
      PROVE  HandsInv'
  <2>1. worker' = [worker EXCEPT ![w] = AtRest] /\ UNCHANGED <<jobs, now>>
    BY <1>4 DEF FindClaimGone, DisableUnapproved, RecordRun, StopWorker
  <2>2. (\A v \in Workers \ {w} : worker'[v] = worker[v]) /\ worker'[w].at = "rest"
    BY <2>1, PlainTypes DEF AtRest
  <2> QED
    BY <1>2, <2>1, <2>2
<1>5. ASSUME NEW w \in Workers, BeginLaunch(w) \/ LaunchRefused(w)
      PROVE  HandsInv'
  <2>1. /\ \A v \in Workers \ {w} : worker'[v] = worker[v]
        /\ worker[w].at # "rest" /\ UNCHANGED <<jobs, now>>
        /\ worker'[w].occurrence = worker[w].occurrence /\ worker'[w].since \in {now, worker[w].since}
    BY <1>5, PlainTypes DEF BeginLaunch, LaunchRefused, Worker
  <2>2. /\ worker[w].occurrence \in Nat /\ worker[w].since \in Times
        /\ worker[w].occurrence <= worker[w].since /\ worker[w].since <= now
    BY <1>a, <2>1 DEF HandsInv
  <2> QED
    BY <1>2, <2>1, <2>2, PlainTypes
<1>6. ASSUME NEW w \in Workers, Launch(w)
      PROVE  HandsInv'
  <2>1. /\ \A v \in Workers \ {w} : worker'[v] = worker[v]
        /\ worker[w].at = "launching" /\ now' = now
        /\ worker'[w].occurrence = worker[w].occurrence /\ worker'[w].since = worker[w].since
    BY <1>6, PlainTypes DEF Launch, Worker
  <2>2. \A s \in Schedules : \A t \in Launched(s)' : t \in Launched(s) \/ t = worker[w].occurrence
    BY <1>6, LaunchCounts DEF Launched
  <2>3. worker[w].occurrence <= now
    BY <1>a, <2>1, PlainTypes DEF HandsInv
  <2> QED
    BY <1>a, <2>1, <2>2, <2>3 DEF HandsInv
<1> QED
  BY <1>1, <1>3, <1>4, <1>5, <1>6 DEF Next, WorkerStep

-----------------------------------------------------------------------------
(* Claims.                                                                 *)

LEMMA ClaimsAreKept ==
    ASSUME ScheduleInv, [Next]_vars, NEW s \in Schedules, s \notin overtaken'
    PROVE  ClaimInv(s)'
<1>a. s \notin overtaken
  BY DEF Next, WorkerStep, vars, Tick, ChangeApproval, ClaimSchedule, FindClaimGone,
         DisableUnapproved, BeginLaunch, Launch, LaunchRefused, RecordRun, StopWorker,
         ToggleSchedule, EditSchedule, SaveSchedule
<1>b. ClaimInv(s) /\ HandsInv
  BY <1>a DEF ScheduleInv
<1>c. /\ \A v, w \in Workers : Holds(v, s) /\ Holds(w, s) => v = w
      /\ \A w \in Workers : Holds(w, s) => row[s].claimed # None
      /\ \A w \in Workers : Holds(w, s) => \A t \in Launched(s) :
            IF worker[w].at = "launched" THEN t <= worker[w].since ELSE t < worker[w].occurrence
      /\ (row[s].claimed = None /\ row[s].next # None) => \A t \in Launched(s) : t < row[s].next
      /\ \A t \in 0..(End + Interval) : jobs[s][t] <= 1
  BY <1>b DEF ClaimInv
<1>d. /\ \A w \in Workers : Holds(w, s) =>
            /\ worker[w].occurrence \in Nat /\ worker[w].since \in Nat
            /\ worker[w].occurrence <= worker[w].since /\ worker[w].since <= now
      /\ \A t \in Launched(s) : t \in Nat /\ t <= now
      /\ now \in Nat /\ None \notin Nat
  BY <1>b, PlainTypes DEF HandsInv, Holds, Launched
<1>1. ASSUME row'[s].next = row[s].next, row'[s].claimed = row[s].claimed, jobs'[s] = jobs[s],
             \A v \in Workers : Holds(v, s)' => worker'[v] = worker[v]
      PROVE  ClaimInv(s)'
  <2>1. \A v \in Workers : Holds(v, s)' => Holds(v, s)
    BY <1>1 DEF Holds
  <2>2. Launched(s)' = Launched(s)
    BY <1>1 DEF Launched
  <2> QED
    BY <1>1, <1>c, <2>1, <2>2 DEF ClaimInv
<1>2. CASE Tick \/ ChangeApproval \/ UNCHANGED vars
  BY <1>1, <1>2 DEF Tick, ChangeApproval, vars
<1>3. ASSUME NEW w \in Workers, FindClaimGone(w) \/ StopWorker(w)
      PROVE  ClaimInv(s)'
  <2>1. /\ \A v \in Workers \ {w} : worker'[v] = worker[v]
        /\ worker'[w].at = "rest" /\ UNCHANGED <<row, jobs>>
    BY <1>3, PlainTypes DEF FindClaimGone, StopWorker, AtRest
  <2> QED
    BY <1>1, <2>1 DEF Holds
<1>4. ASSUME NEW w \in Workers, NEW r \in Schedules, r # s, UNCHANGED jobs,
             \A v \in Workers \ {w} : worker'[v] = worker[v],
             worker'[w].at # "rest" => worker'[w].schedule = r, row'[s] = row[s]
      PROVE  ClaimInv(s)'
  BY <1>1, <1>4 DEF Holds
<1>5. ASSUME NEW w \in Workers, NEW r \in Schedules, ClaimSchedule(w, r)
      PROVE  ClaimInv(s)'
  <2>1. /\ \A v \in Workers \ {w} : worker'[v] = worker[v]
        /\ worker'[w].schedule = r /\ UNCHANGED jobs
        /\ worker'[w].at = "claimed" /\ worker'[w].occurrence = row[r].next
        /\ row'[r].claimed = now /\ row[r].next # None
        /\ \A q \in Schedules \ {r} : row'[q] = row[q]
    BY <1>5, PlainTypes DEF ClaimSchedule, Due, Row
  <2>2. CASE r # s
    BY <1>4, <2>1, <2>2
  <2>3. CASE r = s
    <3>1. row[s].claimed = None
      BY <1>5, <2>3 DEF ClaimSchedule
    <3>2. \A v \in Workers : Holds(v, s)' => v = w
      BY <1>c, <2>1, <3>1 DEF Holds
    <3>3. Launched(s)' = Launched(s)
      BY <2>1 DEF Launched
    <3>4. row'[s].claimed # None
      BY <1>d, <2>1, <2>3
    <3> QED
      BY <1>c, <2>1, <2>3, <3>1, <3>2, <3>3, <3>4 DEF ClaimInv
  <2> QED
    BY <2>2, <2>3
<1>6. ASSUME NEW w \in Workers, DisableUnapproved(w)
      PROVE  ClaimInv(s)'
  <2> DEFINE r == worker[w].schedule
  <2>1. /\ \A v \in Workers \ {w} : worker'[v] = worker[v]
        /\ worker'[w].at = "rest" /\ UNCHANGED jobs
        /\ row'[r].next = None
        /\ row'[r].claimed = None
        /\ \A q \in Schedules \ {r} : row'[q] = row[q]
        /\ r \in Schedules /\ worker[w].at # "rest"
    BY <1>6, PlainTypes DEF DisableUnapproved, AtRest, Row
  <2>2. CASE r # s
    BY <1>4, <2>1, <2>2
  <2>3. CASE r = s
    <3>1. \A v \in Workers : ~Holds(v, s)'
      BY <1>c, <2>1, <2>3 DEF Holds
    <3> QED
      BY <1>c, <2>1, <2>3, <3>1 DEF ClaimInv
  <2> QED
    BY <2>2, <2>3
<1>7. ASSUME NEW w \in Workers, BeginLaunch(w) \/ LaunchRefused(w)
      PROVE  ClaimInv(s)'
  <2> DEFINE r == worker[w].schedule
  <2>1. /\ \A v \in Workers \ {w} : worker'[v] = worker[v]
        /\ worker'[w].schedule = r /\ UNCHANGED <<row, jobs>>
        /\ worker'[w].occurrence = worker[w].occurrence
        /\ r \in Schedules /\ worker[w].at \in {"claimed", "launching"}
    BY <1>7, PlainTypes DEF BeginLaunch, LaunchRefused, Worker
  <2>2. worker'[w].at = "launched" => worker'[w].since = worker[w].since
    BY <1>7, PlainTypes DEF BeginLaunch, LaunchRefused, Worker
  <2>3. CASE r # s
    BY <1>4, <2>1, <2>3
  <2>4. CASE r = s
    <3>1. Holds(w, s) /\ worker[w].at # "launched"
      BY <2>1, <2>4 DEF Holds
    <3>2. \A v \in Workers : Holds(v, s)' => v = w
      BY <1>c, <2>1, <3>1 DEF Holds
    <3>3. Launched(s)' = Launched(s)
      BY <2>1 DEF Launched
    <3>4. \A t \in Launched(s) : t < worker[w].occurrence /\ t <= worker[w].since
      BY <1>c, <1>d, <3>1
    <3>5. row'[s].claimed # None
      BY <1>c, <2>1, <3>1
    <3> QED
      BY <1>c, <2>1, <2>2, <3>2, <3>3, <3>4, <3>5 DEF ClaimInv
  <2> QED
    BY <2>3, <2>4
<1>8. ASSUME NEW w \in Workers, Launch(w)
      PROVE  ClaimInv(s)'
  <2> DEFINE r == worker[w].schedule
  <2>1. /\ \A v \in Workers \ {w} : worker'[v] = worker[v]
        /\ worker'[w].schedule = r /\ UNCHANGED row
        /\ worker'[w].since = worker[w].since
        /\ worker[w].at = "launching" /\ worker'[w].at = "launched"
        /\ r \in Schedules
    BY <1>8, PlainTypes DEF Launch, Worker
  <2>2. CASE r # s
    <3>1. jobs'[s] = jobs[s]
      BY <1>8, <2>2 DEF Launch, ScheduleInv, CountersOK
    <3> QED
      BY <1>1, <2>1, <2>2, <3>1 DEF Holds
  <2>3. CASE r = s
    <3>1. Holds(w, s) /\ row[s].claimed # None
      BY <1>c, <2>1, <2>3 DEF Holds
    <3>2. \A v \in Workers : Holds(v, s)' => v = w
      BY <1>c, <2>1, <3>1 DEF Holds
    <3>3. \A t \in 0..(End + Interval) :
             jobs'[s][t] = IF t = worker[w].occurrence THEN jobs[s][t] + 1 ELSE jobs[s][t]
      BY <1>8, <2>3, LaunchCounts
    <3>4. \A t \in Launched(s) : t < worker[w].occurrence
      BY <1>c, <2>1, <3>1
    <3>5. \A t \in 0..(End + Interval) : jobs[s][t] \in Nat
      BY PlainTypes
    <3>6. \A t \in 0..(End + Interval) : jobs'[s][t] <= 1
      <4>1. ASSUME NEW t \in 0..(End + Interval)
            PROVE  jobs'[s][t] <= 1
        <5>1. CASE t = worker[w].occurrence
          <6>1. t \notin Launched(s) /\ t \in Nat
            BY <3>4, <5>1, PlainTypes
          <6> QED
            BY <3>3, <3>5, <5>1, <6>1 DEF Launched
        <5>2. CASE t # worker[w].occurrence
          BY <1>c, <3>3, <5>2
        <5> QED
          BY <5>1, <5>2
      <4> QED
        BY <4>1
    <3>7. \A t \in Launched(s)' : t \in Launched(s) \/ t = worker[w].occurrence
      BY <3>3 DEF Launched
    <3>8. \A t \in Launched(s)' : t <= worker'[w].since
      BY <1>d, <2>1, <3>1, <3>4, <3>7
    <3> QED
      BY <2>1, <3>1, <3>2, <3>6, <3>8 DEF ClaimInv
  <2> QED
    BY <2>2, <2>3
<1>9. ASSUME NEW w \in Workers, RecordRun(w)
      PROVE  ClaimInv(s)'
  <2> DEFINE r == worker[w].schedule
             next == NextRun(row[r].kind, row[r].start, worker[w].since)
  <2>1. /\ \A v \in Workers \ {w} : worker'[v] = worker[v]
        /\ worker'[w].at = "rest" /\ UNCHANGED jobs
        /\ row'[r].next = next
        /\ row'[r].claimed = None
        /\ \A q \in Schedules \ {r} : row'[q] = row[q]
        /\ r \in Schedules /\ worker[w].at = "launched"
    <3>1. /\ worker[w].at = "launched" /\ UNCHANGED jobs
          /\ worker' = [worker EXCEPT ![w] = AtRest]
          /\ \E flag : row' = [row EXCEPT ![r].next = next, ![r].claimed = None,
                                         ![r].enabled = flag]
      BY <1>9 DEF RecordRun
    <3> HIDE DEF r, next
    <3>2. r \in Schedules
      BY PlainTypes DEF r
    <3>3. (\A v \in Workers \ {w} : worker'[v] = worker[v]) /\ worker'[w].at = "rest"
      BY <3>1, PlainTypes DEF AtRest
    <3>4. PICK flag : row' = [row EXCEPT ![r].next = next, ![r].claimed = None,
                                         ![r].enabled = flag]
      BY <3>1
    <3>5. /\ row'[r] = [row[r] EXCEPT !.next = next, !.claimed = None, !.enabled = flag]
          /\ \A q \in Schedules \ {r} : row'[q] = row[q]
      BY <3>2, <3>4, PlainTypes
    <3>6. row'[r].next = next /\ row'[r].claimed = None
      BY <3>2, <3>5, PlainTypes DEF Row
    <3> QED
      BY <3>1, <3>2, <3>3, <3>5, <3>6
  <2>2. CASE r # s
    BY <1>4, <2>1, <2>2
  <2>3. CASE r = s
    <3>1. Holds(w, s)
      BY <2>1, <2>3 DEF Holds
    <3>2. \A v \in Workers : ~Holds(v, s)'
      BY <1>c, <2>1, <3>1 DEF Holds
    <3>3. Launched(s)' = Launched(s)
      BY <2>1 DEF Launched
    <3>4. row[r].kind \in Kinds /\ row[r].start \in Nat /\ worker[w].since \in Nat
      BY <1>d, <2>1, <3>1, PlainTypes DEF Row
    <3>5. next # None => next > worker[w].since /\ next \in Nat
      BY <3>4, NextRunIsLater
    <3> HIDE DEF next
    <3>6. \A t \in Launched(s) : t <= worker[w].since
      BY <1>c, <2>1, <3>1
    <3>7. next # None => \A t \in Launched(s) : t < next
      BY <1>d, <3>4, <3>5, <3>6
    <3> QED
      BY <1>c, <2>1, <2>3, <3>2, <3>3, <3>7 DEF ClaimInv
  <2> QED
    BY <2>2, <2>3
<1>10. ASSUME NEW r \in Schedules, ToggleSchedule(r) \/ EditSchedule(r)
       PROVE  ClaimInv(s)'
  <2>1. PICK kind \in Kinds, start \in Nat, enabled \in BOOLEAN :
            SaveSchedule(r, kind, start, enabled)
    BY <1>10, EditsSave
  <2>2. /\ row'[r].next # None => row'[r].next > now
        /\ \A q \in Schedules \ {r} : row'[q] = row[q]
        /\ TypeOK'
    BY <2>1, SaveKeepsTypes
  <2>3. UNCHANGED <<worker, jobs>>
    BY <2>1 DEF SaveSchedule
  <2>4. CASE r # s
    BY <1>1, <2>2, <2>3, <2>4
  <2>5. CASE r = s
    <3>1. \A v \in Workers : ~Holds(v, s)
      BY <2>1, <2>5 DEF SaveSchedule, InHands, Holds
    <3>2. Launched(s)' = Launched(s) /\ \A v \in Workers : ~Holds(v, s)'
      BY <2>3, <3>1 DEF Launched, Holds
    <3>3. row'[s].next \in Nat \cup {None}
      BY <2>2 DEF TypeOK
    <3>4. row'[s].next # None => \A t \in Launched(s) : t < row'[s].next
      BY <1>d, <2>2, <2>5, <3>3
    <3> QED
      BY <1>c, <2>3, <3>2, <3>4 DEF ClaimInv
  <2> QED
    BY <2>4, <2>5
<1> QED
  BY <1>2, <1>3, <1>5, <1>6, <1>7, <1>8, <1>9, <1>10 DEF Next, WorkerStep

-----------------------------------------------------------------------------
\* A schedule that was neither claimed over a stale claim nor saved under its
\* worker is in the hands of one worker at most, and whatever was launched for it
\* lies behind its next run (claim_schedule, run_claimed_schedule).
THEOREM ScheduleInvariant == Spec => []ScheduleInv
<1>1. Init => ScheduleInv
  BY InitialSchedules
<1>2. ScheduleInv /\ [Next]_vars => ScheduleInv'
  BY StepKeepsTypes, HandsAreKept, ClaimsAreKept DEF ScheduleInv
<1> QED
  BY <1>1, <1>2, PTL DEF Spec

\* The columns of a schedule agree: an enabled one has a next run, whoever of the
\* administrator and the workers wrote it last.
THEOREM SchedulesAreWellFormed == Spec => []TypeOK
<1>1. ScheduleInv => TypeOK
  BY DEF ScheduleInv
<1> QED
  BY <1>1, ScheduleInvariant, PTL

\* An occurrence is launched twice only over a stale claim, or when the schedule
\* was saved while a worker had it in hands (run_claimed_schedule).
THEOREM OccurrencesRunOnce == Spec => []OneJobPerOccurrence
<1>1. ScheduleInv => OneJobPerOccurrence
  <2> SUFFICES ASSUME ScheduleInv, NEW s \in Schedules, NEW t \in DOMAIN jobs[s], jobs[s][t] > 1
               PROVE  s \in overtaken
    BY DEF OneJobPerOccurrence
  <2>1. t \in 0..(End + Interval) /\ jobs[s][t] \in Nat
    BY PlainTypes DEF ScheduleInv, CountersOK
  <2> QED
    BY <2>1 DEF ScheduleInv, ClaimInv
<1> QED
  BY <1>1, ScheduleInvariant, PTL

-----------------------------------------------------------------------------
(* What workers write.                                                     *)

\* A worker that rests remembers nothing, and one that has a schedule in hands has
\* the occurrence that the row still names.
HeldRunInv ==
    /\ \A w \in Workers : worker[w].at = "rest" => worker[w] = AtRest
    /\ \A s \in Schedules \ overtaken : \A w \in Workers :
          Holds(w, s) => row[s].next = worker[w].occurrence

\* A schedule that is overtaken stays so.
LEMMA OvertakenStays ==
    ASSUME [Next]_vars
    PROVE  overtaken \subseteq overtaken'
BY DEF Next, WorkerStep, vars, Tick, ChangeApproval, ClaimSchedule, FindClaimGone,
       DisableUnapproved, BeginLaunch, Launch, LaunchRefused, RecordRun, StopWorker,
       ToggleSchedule, EditSchedule, SaveSchedule

\* A row that is not overtaken is written by the worker that has it in hands, when
\* it gives it back, and by an administrator while nobody has it.
LEMMA RowsChangeBy ==
    ASSUME ScheduleInv, [Next]_vars, NEW s \in Schedules, s \notin overtaken'
    PROVE  \/ row'[s].next = row[s].next /\ row'[s].enabled = row[s].enabled
           \/ /\ \E kind \in Kinds, start \in Nat, enabled \in BOOLEAN :
                     SaveSchedule(s, kind, start, enabled)
              /\ \A w \in Workers : ~Holds(w, s) /\ ~Holds(w, s)'
           \/ \E w \in Workers : /\ Holds(w, s) /\ DisableUnapproved(w)
                                 /\ \A v \in Workers : ~Holds(v, s)'
           \/ \E w \in Workers : /\ Holds(w, s) /\ RecordRun(w)
                                 /\ \A v \in Workers : ~Holds(v, s)'
<1>a. \A v, w \in Workers : Holds(v, s) /\ Holds(w, s) => v = w
  BY OvertakenStays DEF ScheduleInv, ClaimInv
<1>b. row \in [Schedules -> Row] /\ worker \in [Workers -> Worker]
  BY PlainTypes
<1>1. CASE Tick \/ ChangeApproval \/ UNCHANGED vars
  BY <1>1 DEF Tick, ChangeApproval, vars
<1>2. ASSUME NEW r \in Schedules, ToggleSchedule(r) \/ EditSchedule(r)
      PROVE  \/ row'[s].next = row[s].next /\ row'[s].enabled = row[s].enabled
             \/ /\ \E kind \in Kinds, start \in Nat, enabled \in BOOLEAN :
                       SaveSchedule(s, kind, start, enabled)
                /\ \A w \in Workers : ~Holds(w, s) /\ ~Holds(w, s)'
  <2>1. PICK kind \in Kinds, start \in Nat, enabled \in BOOLEAN :
            SaveSchedule(r, kind, start, enabled)
    BY <1>2, EditsSave
  <2>2. CASE r = s
    <3>1. ~InHands(s) /\ worker' = worker
      BY <2>1, <2>2 DEF SaveSchedule
    <3> QED
      BY <2>1, <2>2, <3>1 DEF InHands, Holds
  <2>3. CASE r # s
    BY <2>1, <2>3, SaveKeepsTypes
  <2> QED
    BY <2>2, <2>3
<1>3. ASSUME NEW w \in Workers, StopWorker(w) \/ WorkerStep(w),
             ~DisableUnapproved(w), ~RecordRun(w)
      PROVE  row'[s].next = row[s].next /\ row'[s].enabled = row[s].enabled
  <2>1. ASSUME NEW r \in Schedules, ClaimSchedule(w, r)
        PROVE  row'[s].next = row[s].next /\ row'[s].enabled = row[s].enabled
    BY <1>b, <2>1 DEF ClaimSchedule, Row
  <2>2. (\E r \in Schedules : ClaimSchedule(w, r)) \/ row' = row
    BY <1>3 DEF WorkerStep, StopWorker, FindClaimGone, BeginLaunch, Launch, LaunchRefused
  <2> QED
    BY <2>1, <2>2
<1>4. ASSUME NEW w \in Workers, DisableUnapproved(w) \/ RecordRun(w)
      PROVE  \/ row'[s].next = row[s].next /\ row'[s].enabled = row[s].enabled
             \/ Holds(w, s) /\ \A v \in Workers : ~Holds(v, s)'
  <2> DEFINE r == worker[w].schedule
  <2>1. /\ \A q \in Schedules \ {r} : row'[q] = row[q]
        /\ \A v \in Workers \ {w} : worker'[v] = worker[v]
        /\ worker'[w].at = "rest" /\ worker[w].at # "rest"
    <3>1. worker' = [worker EXCEPT ![w] = AtRest] /\ worker[w].at # "rest"
      BY <1>4 DEF DisableUnapproved, RecordRun
    <3>2. (\A v \in Workers \ {w} : worker'[v] = worker[v]) /\ worker'[w].at = "rest"
      BY <1>b, <3>1 DEF AtRest
    <3>3. \A q \in Schedules \ {r} : row'[q] = row[q]
      BY <1>4, <1>b DEF DisableUnapproved, RecordRun
    <3> QED
      BY <3>1, <3>2, <3>3
  <2>2. CASE r # s
    BY <2>1, <2>2
  <2>3. CASE r = s
    <3>1. Holds(w, s)
      BY <2>1, <2>3 DEF Holds
    <3>2. \A v \in Workers : ~Holds(v, s)'
      BY <1>a, <2>1, <3>1 DEF Holds
    <3> QED
      BY <3>1, <3>2
  <2> QED
    BY <2>2, <2>3
<1> QED
  BY <1>1, <1>2, <1>3, <1>4 DEF Next

LEMMA HeldRunsAreKept ==
    ASSUME ScheduleInv, HeldRunInv, [Next]_vars
    PROVE  HeldRunInv'
<1>a. /\ worker \in [Workers -> Worker]
      /\ \A w \in Workers : worker[w].at = "rest" => worker[w] = AtRest
  BY PlainTypes DEF HeldRunInv
<1>1. worker' = worker \/ \E w \in Workers : WorkerStep(w) \/ StopWorker(w)
  BY DEF Next, Tick, ChangeApproval, vars, ToggleSchedule, EditSchedule, SaveSchedule
<1>2. ASSUME NEW w \in Workers, WorkerStep(w) \/ StopWorker(w)
      PROVE  /\ \A v \in Workers \ {w} : worker'[v] = worker[v]
             /\ worker'[w].at = "rest" => worker'[w] = AtRest
             /\ \A s \in Schedules : Holds(w, s)' =>
                   \/ Holds(w, s) /\ worker'[w].occurrence = worker[w].occurrence
                   \/ ClaimSchedule(w, s) /\ worker'[w].occurrence = row[s].next
  <2>1. CASE FindClaimGone(w) \/ DisableUnapproved(w) \/ RecordRun(w) \/ StopWorker(w)
    <3>1. worker' = [worker EXCEPT ![w] = AtRest]
      BY <2>1 DEF FindClaimGone, DisableUnapproved, RecordRun, StopWorker
    <3> QED
      BY <1>a, <3>1 DEF Holds, AtRest
  <2>2. CASE BeginLaunch(w) \/ Launch(w) \/ LaunchRefused(w)
    <3>1. /\ \A v \in Workers \ {w} : worker'[v] = worker[v]
          /\ worker'[w].at # "rest" /\ worker[w].at # "rest"
          /\ worker'[w].schedule = worker[w].schedule
          /\ worker'[w].occurrence = worker[w].occurrence
      BY <1>a, <2>2 DEF BeginLaunch, Launch, LaunchRefused, Worker
    <3> QED
      BY <3>1 DEF Holds
  <2>3. ASSUME NEW r \in Schedules, ClaimSchedule(w, r)
        PROVE  /\ \A v \in Workers \ {w} : worker'[v] = worker[v]
               /\ worker'[w].at # "rest" /\ worker'[w].schedule = r
               /\ worker'[w].occurrence = row[r].next
    BY <1>a, <2>3 DEF ClaimSchedule
  <2>4. CASE \E r \in Schedules : ClaimSchedule(w, r)
    BY <2>3, <2>4 DEF Holds
  <2> QED
    BY <1>2, <2>1, <2>2, <2>4 DEF WorkerStep
<1>3. \A w \in Workers : worker'[w].at = "rest" => worker'[w] = AtRest
  BY <1>1, <1>2, <1>a
<1>4. ASSUME NEW s \in Schedules \ overtaken', NEW w \in Workers, Holds(w, s)'
      PROVE  row'[s].next = worker'[w].occurrence
  <2>1. row'[s].next = row[s].next
    BY <1>4, RowsChangeBy
  <2>2. Holds(w, s) => row[s].next = worker[w].occurrence
    BY <1>4, OvertakenStays DEF HeldRunInv
  <2>3. \/ Holds(w, s) /\ worker'[w].occurrence = worker[w].occurrence
        \/ worker'[w].occurrence = row[s].next
    BY <1>1, <1>2, <1>4 DEF Holds
  <2> QED
    BY <2>1, <2>2, <2>3
<1> QED
  BY <1>3, <1>4 DEF HeldRunInv

LEMMA HeldRunsAreNamed == Spec => []HeldRunInv
<1>1. Init => HeldRunInv
  BY DEF Init, HeldRunInv, Holds, AtRest
<1> QED
  BY <1>1, HeldRunsAreKept, ScheduleInvariant, PTL DEF Spec

\* The last instant at which a launch of the schedule began is that of its worker.
LEMMA SinceOfHolder ==
    ASSUME ScheduleInv, HeldRunInv, NEW s \in Schedules \ overtaken, NEW w \in Workers,
           Holds(w, s)
    PROVE  /\ worker[w].since \in Nat
           /\ Max({worker[x].since : x \in {v \in Workers : worker[v].schedule = s}})
                = worker[w].since
<1> DEFINE since == {worker[x].since : x \in {v \in Workers : worker[v].schedule = s}}
<1>1. worker[w].since \in Nat
  BY PlainTypes DEF ScheduleInv, HandsInv, Holds
<1>2. worker[w].since \in since
  BY DEF Holds
<1>3. ASSUME NEW v \in Workers, worker[v].schedule = s
      PROVE  worker[v].since = worker[w].since \/ worker[v].since = None
  <2>1. Holds(v, s) => v = w
    BY DEF ScheduleInv, ClaimInv
  <2>2. ~Holds(v, s) => worker[v].since = None
    <3>1. ~Holds(v, s) => worker[v] = AtRest
      BY <1>3 DEF Holds, HeldRunInv
    <3> QED
      BY <3>1 DEF AtRest
  <2> QED
    BY <2>1, <2>2
<1>4. \A t \in since : t = worker[w].since \/ t = None
  BY <1>3
<1> HIDE DEF since
<1>5. \A t \in since : worker[w].since >= t
  BY <1>1, <1>4 DEF None
<1>6. ASSUME NEW t \in since, \A u \in since : t >= u
      PROVE  t = worker[w].since
  BY <1>1, <1>2, <1>4, <1>6 DEF None
<1>7. Max(since) = worker[w].since
  BY <1>2, <1>5, <1>6 DEF Max
<1> QED
  BY <1>1, <1>7 DEF since

\* After an outage the missed occurrences are made up by one launch: the next run
\* that a worker writes lies after the beginning of its launch, and one that an
\* administrator saves lies ahead (calculate_next_run, run_claimed_schedule).
THEOREM MissedRunsAreNeverRepeated == Spec => MissedRunsAreSkipped
<1>1. ScheduleInv /\ HeldRunInv /\ [Next]_vars =>
        [\A s \in Schedules :
           (row'[s].next # row[s].next /\ row'[s].next # None /\ s \notin overtaken') =>
               row'[s].next > (IF edits' # edits THEN now
                               ELSE Max({worker[w].since : w \in {v \in Workers :
                                             worker[v].schedule = s}}))]_vars
  <2> SUFFICES ASSUME ScheduleInv, HeldRunInv, [Next]_vars, NEW s \in Schedules,
                      row'[s].next # row[s].next, row'[s].next # None, s \notin overtaken'
               PROVE  row'[s].next > (IF edits' # edits THEN now
                                      ELSE Max({worker[w].since : w \in {v \in Workers :
                                                    worker[v].schedule = s}}))
    OBVIOUS
  <2>1. ASSUME NEW kind \in Kinds, NEW start \in Nat, NEW enabled \in BOOLEAN,
               SaveSchedule(s, kind, start, enabled)
        PROVE  row'[s].next > now /\ edits' # edits
    <3>1. row'[s].next > now
      BY <2>1, SaveKeepsTypes
    <3>2. edits' = edits + 1 /\ edits \in Nat
      BY <2>1 DEF SaveSchedule, ScheduleInv, CountersOK
    <3> QED
      BY <3>1, <3>2
  <2>2. ASSUME NEW w \in Workers, Holds(w, s), RecordRun(w)
        PROVE  /\ edits' = edits
               /\ row'[s].next > Max({worker[x].since : x \in {v \in Workers :
                                            worker[v].schedule = s}})
    <3>1. /\ edits' = edits
          /\ row'[s].next = NextRun(row[s].kind, row[s].start, worker[w].since)
      BY <2>2, PlainTypes DEF RecordRun, Holds, Row
    <3>2. row[s].kind \in Kinds /\ row[s].start \in Nat
      BY PlainTypes DEF Row
    <3>3. s \in Schedules \ overtaken
      BY OvertakenStays
    <3>4. /\ worker[w].since \in Nat
          /\ Max({worker[x].since : x \in {v \in Workers : worker[v].schedule = s}})
               = worker[w].since
      BY <2>2, <3>3, SinceOfHolder
    <3>5. row'[s].next > worker[w].since
      BY <3>1, <3>2, <3>4, NextRunIsLater
    <3> QED
      BY <3>1, <3>4, <3>5
  <2>3. ASSUME NEW w \in Workers, Holds(w, s), DisableUnapproved(w)
        PROVE  row'[s].next = None
    BY <2>3, PlainTypes DEF DisableUnapproved, Holds, Row
  <2>4. \/ \E kind \in Kinds, start \in Nat, enabled \in BOOLEAN :
                SaveSchedule(s, kind, start, enabled)
        \/ \E w \in Workers : Holds(w, s) /\ RecordRun(w)
    BY <2>3, RowsChangeBy
  <2> QED
    BY <2>1, <2>2, <2>4
<1> QED
  BY <1>1, ScheduleInvariant, HeldRunsAreNamed, PTL DEF Spec, MissedRunsAreSkipped

\* No worker, however late it writes, disables a schedule but with its due occurrence
\* in hands, and when nothing follows it or the Project lost its approval
\* (run_claimed_schedule writes next_run_at and enabled of the row as it is).
THEOREM SavedRunsAreAlwaysKept == Spec => SavedRunsAreKept
<1>1. ScheduleInv /\ HeldRunInv /\ [Next]_vars =>
        [\A s \in Schedules :
           (row[s].enabled /\ ~row'[s].enabled /\ edits' = edits /\ s \notin overtaken) =>
               /\ row[s].next <= now
               /\ row[s].kind = "once" \/ row'[s].next = None]_vars
  <2> SUFFICES ASSUME ScheduleInv, HeldRunInv, [Next]_vars, NEW s \in Schedules,
                      row[s].enabled, ~row'[s].enabled, edits' = edits, s \notin overtaken
               PROVE  /\ row[s].next <= now
                      /\ row[s].kind = "once" \/ row'[s].next = None
    OBVIOUS
  <2>0. s \notin overtaken'
    <3>1. CASE overtaken' = overtaken
      BY <3>1
    <3>2. ASSUME NEW w \in Workers, NEW r \in Schedules, ClaimSchedule(w, r)
          PROVE  FALSE
      BY <3>2, PlainTypes DEF ClaimSchedule, Row
    <3>3. ASSUME NEW r \in Schedules, ToggleSchedule(r) \/ EditSchedule(r)
          PROVE  FALSE
      BY <3>3, EditsSave DEF SaveSchedule, ScheduleInv, CountersOK
    <3> QED
      BY <3>1, <3>2, <3>3 DEF Next, WorkerStep, vars, Tick, ChangeApproval, FindClaimGone,
         DisableUnapproved, BeginLaunch, Launch, LaunchRefused, RecordRun, StopWorker
  <2>1. ASSUME NEW kind \in Kinds, NEW start \in Nat, NEW enabled \in BOOLEAN,
               SaveSchedule(s, kind, start, enabled)
        PROVE  FALSE
    BY <2>1 DEF SaveSchedule, ScheduleInv, CountersOK
  <2>2. PICK w \in Workers : Holds(w, s) /\ (RecordRun(w) \/ DisableUnapproved(w))
    BY <2>0, <2>1, RowsChangeBy
  <2>3. row[s].next <= now
    <3>1. row[s].next = worker[w].occurrence
      BY <2>2, OvertakenStays DEF HeldRunInv
    <3>2. /\ worker[w].occurrence \in Nat /\ worker[w].since \in Nat
          /\ worker[w].occurrence <= worker[w].since /\ worker[w].since <= now
      BY <2>2, PlainTypes DEF ScheduleInv, HandsInv, Holds
    <3> QED
      BY <3>1, <3>2, PlainTypes
  <2>4. CASE DisableUnapproved(w)
    <3>1. row'[s].next = None
      BY <2>2, <2>4, PlainTypes DEF DisableUnapproved, Holds, Row
    <3> QED
      BY <2>3, <3>1
  <2>5. CASE RecordRun(w)
    <3> DEFINE next == NextRun(row[s].kind, row[s].start, worker[w].since)
    <3>1. row' = [row EXCEPT ![s].next = next, ![s].claimed = None,
                             ![s].enabled = @ /\ row[s].kind # "once" /\ next # None]
      BY <2>2, <2>5 DEF RecordRun, Holds
    <3>2. row \in [Schedules -> Row]
      BY PlainTypes
    <3> HIDE DEF next
    <3>3. /\ row'[s].next = next
          /\ row'[s].enabled = (row[s].enabled /\ row[s].kind # "once" /\ next # None)
      BY <3>1, <3>2 DEF Row
    <3>4. ~(row[s].kind # "once" /\ next # None)
      BY <3>3, Zenon
    <3> QED
      BY <2>3, <3>3, <3>4
  <2> QED
    BY <2>2, <2>4, <2>5
<1> QED
  BY <1>1, ScheduleInvariant, HeldRunsAreNamed, PTL DEF Spec, SavedRunsAreKept

=============================================================================

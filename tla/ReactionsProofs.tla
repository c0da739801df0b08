-------------------------- MODULE ReactionsProofs ---------------------------
(***************************************************************************)
(* Theorems about Reactions for any number of Signals and Reactors, any    *)
(* match and recovery rules, windows, cooldowns and limits, any number of  *)
(* deaths and any time.                                                    *)
(***************************************************************************)
EXTENDS Reactions, FiniteSetTheorems, TLAPS

-----------------------------------------------------------------------------
(* Types.                                                                  *)

ReactorPhases == {"suppressing", "reacting", "launching", "launched"}
LaunchPhases == {"launching", "launched"}
JobStatuses == {"queued", "running"} \cup Ended

Handlers ==
    [at : {"none", "evaluating"} \cup ReactorPhases, received : Nat, todo : SUBSET Reactors,
     of : Reactors \cup {NoReactor}, found : SUBSET Pairs, pending : SUBSET Pairs]
Rows == [status : RowStatuses, created : Nat, due : Nat \cup {None}, job : Nat]
Releases == [at : {"rest"} \cup LaunchPhases, of : Pairs \cup {AtRest.of}]

TypeInv ==
    /\ now \in Nat
    /\ mode \in [Reactors -> Modes]
    /\ signal \in [Signals -> {"none", "accepted", "processed"}]
    /\ handler \in [Signals -> Handlers]
    /\ \A s \in Signals : handler[s].at \in ReactorPhases => handler[s].of \in Reactors
    /\ row \in [Pairs -> Rows]
    /\ jobs \in [Pairs -> Seq(JobStatuses)]
    /\ \A p \in Pairs : row[p].job \in 0 .. Len(jobs[p])
    /\ release \in Releases
    /\ release.at # "rest" => release.of \in Pairs
    /\ saved \subseteq Pairs /\ edited \subseteq Reactors /\ blind \subseteq Reactors
    /\ crashes \in Nat

\* The handler of s becomes this one, the others stay.
HandlerBecomes(s, at, received, todo, of, found, pending) ==
    /\ handler' \in [Signals -> Handlers]
    /\ handler'[s].at = at /\ handler'[s].received = received /\ handler'[s].todo = todo
    /\ handler'[s].of = of /\ handler'[s].found = found /\ handler'[s].pending = pending
    /\ \A q \in Signals \ {s} : handler'[q] = handler[q]

\* The handler goes on; it keeps what it has read.
HandlerMoves(s, at, of, found) ==
    HandlerBecomes(s, at, handler[s].received, handler[s].todo, of, found, handler[s].pending)

\* The row of p becomes this one, the others stay.
RowBecomes(p, status, created, due, job) ==
    /\ row' \in [Pairs -> Rows]
    /\ row'[p].status = status /\ row'[p].created = created
    /\ row'[p].due = due /\ row'[p].job = job
    /\ \A q \in Pairs \ {p} : row'[q] = row[q]

LEMMA FieldTypes ==
    ASSUME TypeInv
    PROVE  /\ handler \in [Signals -> Handlers]
           /\ row \in [Pairs -> Rows]
           /\ jobs \in [Pairs -> Seq(JobStatuses)]
           /\ \A s \in Signals :
                 /\ handler[s].at \in {"none", "evaluating"} \cup ReactorPhases
                 /\ handler[s].received \in Nat
                 /\ handler[s].todo \in SUBSET Reactors
                 /\ handler[s].of \in Reactors \cup {NoReactor}
                 /\ handler[s].found \in SUBSET Pairs
                 /\ handler[s].pending \in SUBSET Pairs
           /\ \A p \in Pairs :
                 /\ row[p].status \in RowStatuses /\ row[p].created \in Nat
                 /\ row[p].due \in Nat \cup {None} /\ row[p].job \in 0 .. Len(jobs[p])
<1>1. handler \in [Signals -> Handlers] /\ row \in [Pairs -> Rows]
  BY DEF TypeInv
<1> QED
  BY <1>1 DEF TypeInv, Handlers, Rows

LEMMA NoHandlerType == NoHandler \in Handlers
  BY DEF NoHandler, Handlers, ReactorPhases, Pairs

-----------------------------------------------------------------------------
(* What each action does to the handlers and rows.                         *)

LEMMA DeliverHandler ==
    ASSUME TypeInv, NEW s \in Signals, Deliver(s)
    PROVE  HandlerBecomes(s, "evaluating", now, {r \in Reactors : mode[r] # "disabled"},
                          NoReactor, {}, {p \in Pairs : row[p].status = "pending"})
<1>1. handler \in [Signals -> Handlers] /\ now \in Nat
  BY DEF TypeInv
<1> DEFINE pending == {p \in Pairs : row[p].status = "pending"}
           todo == {r \in Reactors : mode[r] # "disabled"}
<1>2. handler' = [handler EXCEPT ![s] = [NoHandler EXCEPT
              !.at = "evaluating", !.received = now, !.pending = pending, !.todo = todo]]
  BY DEF Deliver, Accept
<1>3. pending \in SUBSET Pairs /\ todo \in SUBSET Reactors
  OBVIOUS
<1> HIDE DEF pending, todo
<1>4. [NoHandler EXCEPT !.at = "evaluating", !.received = now, !.pending = pending,
                        !.todo = todo] \in Handlers
  BY <1>1, <1>3 DEF NoHandler, Handlers
<1>5. HandlerBecomes(s, "evaluating", now, todo, NoReactor, {}, pending)
  BY <1>1, <1>2, <1>4 DEF HandlerBecomes, NoHandler
<1> QED
  BY <1>5 DEF pending, todo

LEMMA FindPendingHandler ==
    ASSUME TypeInv, NEW s \in Signals, FindPending(s)
    PROVE  \E r \in handler[s].todo :
              /\ r \in Reactors
              /\ HandlerBecomes(s, IF PendingFor(s, r) = {} THEN "reacting" ELSE "suppressing",
                                handler[s].received, handler[s].todo \ {r}, r,
                                PendingFor(s, r), handler[s].pending)
<1>1. handler \in [Signals -> Handlers]
  BY DEF TypeInv
<1>2. PICK r \in handler[s].todo :
          handler' = [handler EXCEPT
               ![s].at = IF PendingFor(s, r) = {} THEN "reacting" ELSE "suppressing",
               ![s].todo = @ \ {r}, ![s].of = r, ![s].found = PendingFor(s, r)]
  BY DEF FindPending
<1> DEFINE found == PendingFor(s, r)
           at == IF found = {} THEN "reacting" ELSE "suppressing"
<1>3. r \in Reactors /\ found \in SUBSET Pairs /\ at \in ReactorPhases
  BY <1>1 DEF Handlers, PendingFor, ReactorPhases
<1>4. handler' = [handler EXCEPT ![s].at = at, ![s].todo = @ \ {r}, ![s].of = r,
                                 ![s].found = found]
  BY <1>2
<1> HIDE DEF found, at
<1>5. HandlerBecomes(s, at, handler[s].received, handler[s].todo \ {r}, r, found,
                     handler[s].pending)
  BY <1>1, <1>3, <1>4 DEF HandlerBecomes, Handlers
<1> QED
  BY <1>3, <1>5 DEF found, at

LEMMA SuppressPendingHandler ==
    ASSUME TypeInv, NEW s \in Signals, SuppressPending(s)
    PROVE  \E p \in handler[s].found :
              /\ p \in Pairs
              /\ HandlerMoves(s, IF handler[s].found = {p} THEN "reacting" ELSE "suppressing",
                              handler[s].of, handler[s].found \ {p})
              /\ RowBecomes(p, "recovered", row[p].created, None, row[p].job)
<1>1. handler \in [Signals -> Handlers] /\ row \in [Pairs -> Rows]
  BY DEF TypeInv
<1>2. PICK p \in handler[s].found :
        /\ row' = [row EXCEPT ![p].status = "recovered", ![p].due = None]
        /\ handler' = [handler EXCEPT
               ![s].found = @ \ {p},
               ![s].at = IF handler[s].found = {p} THEN "reacting" ELSE @]
  BY DEF SuppressPending
<1> DEFINE at == IF handler[s].found = {p} THEN "reacting" ELSE "suppressing"
<1>3. /\ p \in Pairs /\ at \in ReactorPhases
      /\ handler' = [handler EXCEPT ![s].found = @ \ {p}, ![s].at = at]
  BY <1>1, <1>2 DEF SuppressPending, Handlers, ReactorPhases
<1> HIDE DEF at
<1>4. HandlerMoves(s, at, handler[s].of, handler[s].found \ {p})
  BY <1>1, <1>3 DEF HandlerMoves, HandlerBecomes, Handlers
<1>5. RowBecomes(p, "recovered", row[p].created, None, row[p].job)
  <2>1. row' = [row EXCEPT ![p].status = "recovered", ![p].due = None]
    BY <1>2
  <2>2. row' \in [Pairs -> Rows]
    BY <1>1, <2>1 DEF Rows, RowStatuses
  <2> QED
    BY <1>1, <1>3, <2>1, <2>2 DEF RowBecomes, Rows
<1> QED
  BY <1>2, <1>3, <1>4, <1>5 DEF at, HandlerMoves

LEMMA EndOfReactorHandler ==
    ASSUME TypeInv, NEW s \in Signals, handler' = EndOfReactor(s)
    PROVE  HandlerMoves(s, "evaluating", NoReactor, handler[s].found)
<1>1. handler \in [Signals -> Handlers]
  BY DEF TypeInv
<1>2. handler' = [handler EXCEPT ![s].at = "evaluating", ![s].of = NoReactor]
  BY DEF EndOfReactor
<1>3. /\ handler[s] \in Handlers
      /\ handler'[s] = [handler[s] EXCEPT !.at = "evaluating", !.of = NoReactor]
      /\ \A q \in Signals \ {s} : handler'[q] = handler[q]
      /\ handler' = [handler EXCEPT ![s] = handler'[s]]
  BY <1>1, <1>2
<1>4. handler'[s] \in Handlers
  BY <1>3, FieldTypes DEF Handlers, ReactorPhases
<1>5. handler' \in [Signals -> Handlers]
  BY <1>1, <1>3, <1>4
<1>6. /\ handler'[s].at = "evaluating" /\ handler'[s].of = NoReactor
      /\ handler'[s].received = handler[s].received /\ handler'[s].todo = handler[s].todo
      /\ handler'[s].found = handler[s].found /\ handler'[s].pending = handler[s].pending
  BY <1>3 DEF Handlers
<1> QED
  BY <1>3, <1>5, <1>6 DEF HandlerMoves, HandlerBecomes

LEMMA LaunchPhaseHandler ==
    ASSUME TypeInv, NEW s \in Signals, NEW at \in LaunchPhases,
           handler' = [handler EXCEPT ![s].at = at]
    PROVE  HandlerMoves(s, at, handler[s].of, handler[s].found)
<1>1. handler \in [Signals -> Handlers] /\ at \in ReactorPhases
  BY DEF TypeInv, LaunchPhases, ReactorPhases
<1> QED
  BY <1>1 DEF HandlerMoves, HandlerBecomes, Handlers

LEMMA EndedHandler ==
    ASSUME TypeInv, NEW s \in Signals, handler' = [handler EXCEPT ![s] = NoHandler]
    PROVE  HandlerBecomes(s, "none", 0, {}, NoReactor, {}, {})
<1>1. handler \in [Signals -> Handlers]
  BY DEF TypeInv
<1> QED
  BY <1>1, NoHandlerType DEF HandlerBecomes, NoHandler

\* The rows that a Reactor leaves without a launch.
ReactRow(s, r, status, due) ==
    /\ status \in {"failed", "observed", "suppressed", "pending"}
    /\ status = "pending" => Window[r] > 0 /\ due = now + Window[r]
    /\ due \in Nat \cup {None}
    /\ RowBecomes(<<s, r>>, status, now, due, 0)

LEMMA ReactRows ==
    ASSUME TypeInv, NEW s \in Signals, React(s)
    PROVE  /\ handler[s].at = "reacting" /\ handler[s].of \in Reactors
           /\ row' = row \/ \E status, due : ReactRow(s, handler[s].of, status, due)
<1>1. handler[s].at = "reacting" /\ handler[s].of \in Reactors
  BY DEF React, TypeInv, ReactorPhases
<1> DEFINE r == handler[s].of
<1>2. /\ row \in [Pairs -> Rows] /\ now \in Nat /\ <<s, r>> \in Pairs
      /\ Window[r] \in Nat
  BY <1>1, ReactionAssumption DEF TypeInv, Pairs
<1>3. ASSUME NEW new \in Outcomes(s, r), row' = [row EXCEPT ![<<s, r>>] = new]
      PROVE  \E status, due : ReactRow(s, r, status, due)
  <2>1. PICK status, due :
           /\ new = [status |-> status, created |-> now, due |-> due, job |-> 0]
           /\ \/ status \in {"failed", "observed", "suppressed"} /\ due = None
              \/ status = "pending" /\ Window[r] > 0 /\ due = now + Window[r]
    BY <1>3 DEF Outcomes
  <2>2. /\ due \in Nat \cup {None} /\ status \in RowStatuses
        /\ status \in {"failed", "observed", "suppressed", "pending"}
        /\ status = "pending" => Window[r] > 0 /\ due = now + Window[r]
    BY <1>2, <2>1 DEF RowStatuses
  <2>3. new \in Rows
    BY <1>2, <2>1, <2>2 DEF Rows
  <2>4. RowBecomes(<<s, r>>, status, now, due, 0)
    BY <1>2, <1>3, <2>1, <2>3 DEF RowBecomes
  <2> QED
    BY <2>2, <2>4 DEF ReactRow
<1>4. row' = row \/ \E new \in Outcomes(s, r) : row' = [row EXCEPT ![<<s, r>>] = new]
  BY DEF React
<1> QED
  BY <1>1, <1>3, <1>4

LEMMA BeginLaunchRow ==
    ASSUME TypeInv, NEW s \in Signals, BeginLaunch(s)
    PROVE  /\ handler[s].at = "reacting" /\ handler[s].of \in Reactors
           /\ Window[handler[s].of] = 0
           /\ HandlerMoves(s, "launching", handler[s].of, handler[s].found)
           /\ RowBecomes(<<s, handler[s].of>>, "failed", now, None, 0)
<1>1. handler[s].at = "reacting" /\ handler[s].of \in Reactors
  BY DEF BeginLaunch, TypeInv, ReactorPhases
<1>2. HandlerMoves(s, "launching", handler[s].of, handler[s].found)
  BY LaunchPhaseHandler DEF BeginLaunch, LaunchPhases
<1>3. row \in [Pairs -> Rows] /\ now \in Nat /\ <<s, handler[s].of>> \in Pairs
  BY <1>1 DEF TypeInv, Pairs
<1>4. [NoRow EXCEPT !.status = "failed", !.created = now] \in Rows
  BY <1>3 DEF NoRow, Rows, RowStatuses
<1>5. RowBecomes(<<s, handler[s].of>>, "failed", now, None, 0)
  BY <1>3, <1>4 DEF BeginLaunch, RowBecomes, NoRow
<1> QED
  BY <1>1, <1>2, <1>5 DEF BeginLaunch

LEMMA LinkedRow ==
    ASSUME TypeInv, NEW p \in Pairs, row' = Linked(p)
    PROVE  RowBecomes(p, "queued", row[p].created, None, Len(jobs[p]))
<1>1. row \in [Pairs -> Rows] /\ Len(jobs[p]) \in Nat
  BY DEF TypeInv
<1> QED
  BY <1>1 DEF Linked, RowBecomes, Rows, RowStatuses

\* One more Job is committed for p.
JobAppended(p) ==
    /\ jobs' \in [Pairs -> Seq(JobStatuses)]
    /\ jobs'[p] = Append(jobs[p], "queued")
    /\ \A q \in Pairs \ {p} : jobs'[q] = jobs[q]

LEMMA AppendedJob ==
    ASSUME TypeInv, NEW p \in Pairs, jobs' = [jobs EXCEPT ![p] = Append(@, "queued")]
    PROVE  JobAppended(p)
<1>1. jobs \in [Pairs -> Seq(JobStatuses)]
  BY DEF TypeInv
<1>2. Append(jobs[p], "queued") \in Seq(JobStatuses)
  BY <1>1 DEF JobStatuses
<1> QED
  BY <1>1, <1>2 DEF JobAppended

\* A Job of p goes on, and its Reaction follows unless it is started in bulk.
JobAdvanced(p, i, next) ==
    /\ i \in DOMAIN jobs[p]
    /\ \/ jobs[p][i] = "queued" /\ next = "running"
       \/ jobs[p][i] = "running" /\ next = "ended"
    /\ jobs' \in [Pairs -> Seq(JobStatuses)]
    /\ Len(jobs'[p]) = Len(jobs[p])
    /\ jobs'[p][i] = next
    /\ \A j \in DOMAIN jobs[p] \ {i} : jobs'[p][j] = jobs[p][j]
    /\ \A q \in Pairs \ {p} : jobs'[q] = jobs[q]
    /\ \/ row[p].job # i /\ row' = row
       \/ next = "running" /\ row' = row
       \/ row[p].job = i /\ RowBecomes(p, next, row[p].created, row[p].due, i)

LEMMA AdvancedJob ==
    ASSUME TypeInv, NEW p \in Pairs, AdvanceJob(p)
    PROVE  \E i, next : JobAdvanced(p, i, next)
<1>1. jobs \in [Pairs -> Seq(JobStatuses)] /\ row \in [Pairs -> Rows]
  BY DEF TypeInv
<1>2. PICK i \in DOMAIN jobs[p] :
        /\ jobs[p][i] \notin Ended
        /\ LET next == IF jobs[p][i] = "queued" THEN "running" ELSE "ended" IN
           /\ jobs' = [jobs EXCEPT ![p][i] = next]
           /\ \/ row' = IF row[p].job = i THEN [row EXCEPT ![p].status = next] ELSE row
              \/ next = "running" /\ row' = row
  BY DEF AdvanceJob
<1> DEFINE next == IF jobs[p][i] = "queued" THEN "running" ELSE "ended"
<1>3. jobs[p] \in Seq(JobStatuses) /\ jobs[p][i] \in {"queued", "running"}
  <2>1. jobs[p] \in Seq(JobStatuses)
    BY <1>1
  <2>2. jobs[p][i] \in JobStatuses
    BY <2>1
  <2> QED
    BY <1>2, <2>1, <2>2 DEF JobStatuses
<1>4. /\ jobs' = [jobs EXCEPT ![p][i] = next]
      /\ \/ row[p].job # i /\ row' = row
         \/ row[p].job = i /\ row' = [row EXCEPT ![p].status = next]
         \/ next = "running" /\ row' = row
      /\ next \in {"running", "ended"}
      /\ \/ jobs[p][i] = "queued" /\ next = "running"
         \/ jobs[p][i] = "running" /\ next = "ended"
  BY <1>2, <1>3
<1> HIDE DEF next
<1>5. /\ [jobs[p] EXCEPT ![i] = next] \in Seq(JobStatuses)
      /\ Len([jobs[p] EXCEPT ![i] = next]) = Len(jobs[p])
  BY <1>3, <1>4 DEF JobStatuses, Ended
<1>6. jobs' = [jobs EXCEPT ![p] = [jobs[p] EXCEPT ![i] = next]]
  BY <1>4
<1>7. /\ jobs' \in [Pairs -> Seq(JobStatuses)]
      /\ jobs'[p] = [jobs[p] EXCEPT ![i] = next]
      /\ \A q \in Pairs \ {p} : jobs'[q] = jobs[q]
  BY <1>1, <1>5, <1>6
<1>8. ASSUME row' = [row EXCEPT ![p].status = next]
      PROVE  RowBecomes(p, next, row[p].created, row[p].due, row[p].job)
  <2>1. row' \in [Pairs -> Rows]
    BY <1>1, <1>4, <1>8 DEF Rows, RowStatuses, Ended
  <2> QED
    BY <1>1, <1>8, <2>1 DEF RowBecomes, Rows
<1>9. JobAdvanced(p, i, next)
  BY <1>2, <1>3, <1>4, <1>5, <1>7, <1>8 DEF JobAdvanced
<1> QED
  BY <1>9

LEMMA SuppressedDue ==
    ASSUME TypeInv, NEW p \in Pairs, SuppressDue(p)
    PROVE  RowBecomes(p, "suppressed", row[p].created, None, row[p].job)
<1>1. row \in [Pairs -> Rows] /\ row' = [row EXCEPT ![p].status = "suppressed", ![p].due = None]
  BY DEF TypeInv, SuppressDue
<1>2. row' \in [Pairs -> Rows]
  BY <1>1 DEF Rows, RowStatuses
<1> QED
  BY <1>1, <1>2 DEF RowBecomes, Rows

LEMMA FailedRelease ==
    ASSUME TypeInv, FailRelease
    PROVE  /\ release.of \in Pairs /\ release.at = "launching"
           /\ \/ row' = row
              \/ /\ row[release.of].status = "pending"
                 /\ RowBecomes(release.of, "failed", row[release.of].created, None,
                               row[release.of].job)
<1>1. row \in [Pairs -> Rows] /\ release.of \in Pairs /\ release.at = "launching"
  BY DEF TypeInv, FailRelease
<1>2. ASSUME row' = [row EXCEPT ![release.of].status = "failed", ![release.of].due = None]
      PROVE  RowBecomes(release.of, "failed", row[release.of].created, None,
                        row[release.of].job)
  <2>1. row' \in [Pairs -> Rows]
    BY <1>1, <1>2 DEF Rows, RowStatuses
  <2> QED
    BY <1>1, <1>2, <2>1 DEF RowBecomes, Rows
<1> QED
  BY <1>1, <1>2 DEF FailRelease

-----------------------------------------------------------------------------
(* Types are kept.                                                         *)

LEMMA HandlerTypesKept ==
    ASSUME TypeInv, NEW s \in Signals, NEW at, NEW received, NEW todo, NEW of, NEW found,
           NEW pending, HandlerBecomes(s, at, received, todo, of, found, pending),
           at \in ReactorPhases => of \in Reactors
    PROVE  /\ handler' \in [Signals -> Handlers]
           /\ \A q \in Signals : handler'[q].at \in ReactorPhases => handler'[q].of \in Reactors
  BY DEF TypeInv, HandlerBecomes

LEMMA RowTypesKept ==
    ASSUME TypeInv, NEW p \in Pairs, NEW status, NEW created, NEW due,
           NEW job \in 0 .. Len(jobs[p]), RowBecomes(p, status, created, due, job)
    PROVE  /\ row' \in [Pairs -> Rows]
           /\ \A q \in Pairs : row'[q].job \in 0 .. Len(jobs[q])
  BY DEF TypeInv, RowBecomes

LEMMA AppendedTypes ==
    ASSUME TypeInv, NEW p \in Pairs, JobAppended(p)
    PROVE  \A q \in Pairs : row[q].job \in 0 .. Len(jobs'[q])
<1>1. jobs[p] \in Seq(JobStatuses) /\ row[p].job \in 0 .. Len(jobs[p])
  BY DEF TypeInv
<1>2. Len(Append(jobs[p], "queued")) = Len(jobs[p]) + 1 /\ Len(jobs[p]) \in Nat
  BY <1>1
<1>3. row[p].job \in 0 .. Len(jobs'[p])
  BY <1>1, <1>2 DEF JobAppended
<1> QED
  BY <1>3 DEF JobAppended, TypeInv

LEMMA HandlerStepTypes ==
    ASSUME TypeInv, NEW s \in Signals, Deliver(s) \/ HandlerStep(s) \/ LoseHandler(s)
    PROVE  TypeInv'
<1> USE DEF HandlerMoves
<1>1. CASE Deliver(s)
  <2>1. /\ handler' \in [Signals -> Handlers]
        /\ \A q \in Signals : handler'[q].at \in ReactorPhases => handler'[q].of \in Reactors
    BY <1>1, DeliverHandler, HandlerTypesKept DEF ReactorPhases
  <2> QED
    BY <1>1, <2>1 DEF TypeInv, Deliver, Accept
<1>2. CASE FindPending(s)
  <2>1. /\ handler' \in [Signals -> Handlers]
        /\ \A q \in Signals : handler'[q].at \in ReactorPhases => handler'[q].of \in Reactors
    BY <1>2, FindPendingHandler, HandlerTypesKept
  <2> QED
    BY <1>2, <2>1 DEF TypeInv, FindPending
<1>3. CASE SuppressPending(s)
  <2>1. PICK p \in Pairs :
              /\ HandlerMoves(s, IF handler[s].found = {p} THEN "reacting" ELSE "suppressing",
                              handler[s].of, handler[s].found \ {p})
              /\ RowBecomes(p, "recovered", row[p].created, None, row[p].job)
    BY <1>3, SuppressPendingHandler
  <2>2. handler[s].of \in Reactors /\ row[p].job \in 0 .. Len(jobs[p])
    BY <1>3, FieldTypes DEF TypeInv, SuppressPending, ReactorPhases
  <2>3. /\ handler' \in [Signals -> Handlers]
        /\ \A q \in Signals : handler'[q].at \in ReactorPhases => handler'[q].of \in Reactors
    BY <2>1, <2>2, HandlerTypesKept
  <2>4. /\ row' \in [Pairs -> Rows]
        /\ \A q \in Pairs : row'[q].job \in 0 .. Len(jobs[q])
    BY <2>1, <2>2, RowTypesKept
  <2> QED
    BY <1>3, <2>3, <2>4 DEF TypeInv, SuppressPending
<1>4. CASE React(s)
  <2>1. /\ handler' \in [Signals -> Handlers]
        /\ \A q \in Signals : handler'[q].at \in ReactorPhases => handler'[q].of \in Reactors
    BY <1>4, EndOfReactorHandler, HandlerTypesKept DEF React, ReactorPhases
  <2>2. <<s, handler[s].of>> \in Pairs /\ 0 \in 0 .. Len(jobs[<<s, handler[s].of>>])
    BY <1>4, ReactRows DEF Pairs, TypeInv
  <2>3. /\ row' \in [Pairs -> Rows]
        /\ \A q \in Pairs : row'[q].job \in 0 .. Len(jobs[q])
    BY <1>4, <2>2, ReactRows, RowTypesKept DEF ReactRow, TypeInv
  <2> QED
    BY <1>4, <2>1, <2>3 DEF TypeInv, React
<1>5. CASE BeginLaunch(s)
  <2>1. /\ handler' \in [Signals -> Handlers]
        /\ \A q \in Signals : handler'[q].at \in ReactorPhases => handler'[q].of \in Reactors
    BY <1>5, BeginLaunchRow, HandlerTypesKept
  <2>2. /\ <<s, handler[s].of>> \in Pairs /\ 0 \in 0 .. Len(jobs[<<s, handler[s].of>>])
        /\ handler[s].of \in Reactors
    BY <1>5, BeginLaunchRow DEF Pairs, TypeInv
  <2>3. /\ row' \in [Pairs -> Rows]
        /\ \A q \in Pairs : row'[q].job \in 0 .. Len(jobs[q])
    BY <1>5, <2>2, BeginLaunchRow, RowTypesKept
  <2> QED
    BY <1>5, <2>1, <2>2, <2>3 DEF TypeInv, BeginLaunch
<1>6. CASE CommitJob(s)
  <2>1. /\ handler' \in [Signals -> Handlers]
        /\ \A q \in Signals : handler'[q].at \in ReactorPhases => handler'[q].of \in Reactors
    BY <1>6, LaunchPhaseHandler, HandlerTypesKept
       DEF CommitJob, TypeInv, ReactorPhases, LaunchPhases
  <2>2. <<s, handler[s].of>> \in Pairs
    BY <1>6 DEF Pairs, TypeInv, CommitJob, ReactorPhases
  <2>3. JobAppended(<<s, handler[s].of>>)
    BY <1>6, <2>2, AppendedJob DEF CommitJob
  <2>4. \A q \in Pairs : row[q].job \in 0 .. Len(jobs'[q])
    BY <2>2, <2>3, AppendedTypes
  <2> QED
    BY <1>6, <2>1, <2>3, <2>4 DEF TypeInv, CommitJob, JobAppended
<1>7. CASE RefuseJob(s)
  <2>1. /\ handler' \in [Signals -> Handlers]
        /\ \A q \in Signals : handler'[q].at \in ReactorPhases => handler'[q].of \in Reactors
    BY <1>7, EndOfReactorHandler, HandlerTypesKept DEF RefuseJob, ReactorPhases
  <2> QED
    BY <1>7, <2>1 DEF TypeInv, RefuseJob
<1>8. CASE LinkJob(s)
  <2>1. /\ handler' \in [Signals -> Handlers]
        /\ \A q \in Signals : handler'[q].at \in ReactorPhases => handler'[q].of \in Reactors
    BY <1>8, EndOfReactorHandler, HandlerTypesKept DEF LinkJob, ReactorPhases
  <2>2. <<s, handler[s].of>> \in Pairs
    BY <1>8 DEF Pairs, TypeInv, LinkJob, ReactorPhases
  <2>3. Len(jobs[<<s, handler[s].of>>]) \in 0 .. Len(jobs[<<s, handler[s].of>>])
    BY <2>2 DEF TypeInv
  <2>4. /\ row' \in [Pairs -> Rows]
        /\ \A q \in Pairs : row'[q].job \in 0 .. Len(jobs[q])
    BY <1>8, <2>2, <2>3, LinkedRow, RowTypesKept DEF LinkJob
  <2> QED
    BY <1>8, <2>1, <2>4 DEF TypeInv, LinkJob
<1>9. CASE FinishSignal(s)
  <2>1. /\ handler' \in [Signals -> Handlers]
        /\ \A q \in Signals : handler'[q].at \in ReactorPhases => handler'[q].of \in Reactors
    BY <1>9, EndedHandler, HandlerTypesKept DEF FinishSignal, ReactorPhases
  <2>2. saved' \subseteq Pairs
    BY <1>9, FieldTypes DEF FinishSignal, TypeInv
  <2> QED
    BY <1>9, <2>1, <2>2 DEF TypeInv, FinishSignal
<1>10. CASE LoseHandler(s)
  <2>1. /\ handler' \in [Signals -> Handlers]
        /\ \A q \in Signals : handler'[q].at \in ReactorPhases => handler'[q].of \in Reactors
    BY <1>10, EndedHandler, HandlerTypesKept DEF LoseHandler, ReactorPhases
  <2> QED
    BY <1>10, <2>1 DEF TypeInv, LoseHandler
<1> QED
  BY <1>1, <1>2, <1>3, <1>4, <1>5, <1>6, <1>7, <1>8, <1>9, <1>10 DEF HandlerStep

LEMMA OtherStepTypes ==
    ASSUME TypeInv,
           \/ Tick \/ ReleaseStep \/ CrashRunner
           \/ \E p \in Pairs : AdvanceJob(p)
           \/ \E r \in Reactors : EditReactor(r)
    PROVE  TypeInv'
<1> USE DEF Releases, LaunchPhases
<1>1. CASE Tick
  BY <1>1 DEF TypeInv, Tick
<1>2. ASSUME NEW p \in Pairs, SuppressDue(p)
      PROVE  TypeInv'
  <2>1. row[p].job \in 0 .. Len(jobs[p])
    BY DEF TypeInv
  <2>2. /\ row' \in [Pairs -> Rows]
        /\ \A q \in Pairs : row'[q].job \in 0 .. Len(jobs[q])
    BY <1>2, <2>1, SuppressedDue, RowTypesKept
  <2> QED
    BY <1>2, <2>2 DEF TypeInv, SuppressDue
<1>3. ASSUME NEW p \in Pairs, BeginRelease(p)
      PROVE  TypeInv'
  <2>1. p[2] \in Reactors
    BY DEF Pairs
  <2> QED
    BY <1>3, <2>1 DEF TypeInv, BeginRelease
<1>4. CASE ReleaseJob
  <2>1. release.of \in Pairs
    BY <1>4 DEF TypeInv, ReleaseJob
  <2>2. JobAppended(release.of)
    BY <1>4, <2>1, AppendedJob DEF ReleaseJob
  <2>3. \A q \in Pairs : row[q].job \in 0 .. Len(jobs'[q])
    BY <2>1, <2>2, AppendedTypes
  <2>4. release' \in Releases /\ release'.of \in Pairs
    BY <1>4, <2>1 DEF TypeInv, ReleaseJob
  <2> QED
    BY <1>4, <2>2, <2>3, <2>4 DEF TypeInv, ReleaseJob, JobAppended
<1>5. CASE FailRelease
  <2>1. release.of \in Pairs /\ row[release.of].job \in 0 .. Len(jobs[release.of])
    BY <1>5, FailedRelease DEF TypeInv
  <2>2. /\ row' \in [Pairs -> Rows]
        /\ \A q \in Pairs : row'[q].job \in 0 .. Len(jobs[q])
    BY <1>5, <2>1, FailedRelease, RowTypesKept DEF TypeInv
  <2> QED
    BY <1>5, <2>2 DEF TypeInv, FailRelease, AtRest
<1>6. CASE LinkReleased
  <2>1. release.of \in Pairs /\ Len(jobs[release.of]) \in 0 .. Len(jobs[release.of])
    BY <1>6 DEF TypeInv, LinkReleased
  <2>2. /\ row' \in [Pairs -> Rows]
        /\ \A q \in Pairs : row'[q].job \in 0 .. Len(jobs[q])
    BY <1>6, <2>1, LinkedRow, RowTypesKept DEF LinkReleased
  <2> QED
    BY <1>6, <2>2 DEF TypeInv, LinkReleased, AtRest
<1>7. CASE CrashRunner
  BY <1>7 DEF TypeInv, CrashRunner, AtRest
<1>8. ASSUME NEW p \in Pairs, AdvanceJob(p)
      PROVE  TypeInv'
  <2>1. PICK i, next : JobAdvanced(p, i, next)
    BY <1>8, AdvancedJob
  <2>2. \A q \in Pairs : Len(jobs'[q]) = Len(jobs[q])
    BY <2>1 DEF JobAdvanced
  <2>3. /\ row' \in [Pairs -> Rows]
        /\ \A q \in Pairs : row'[q].job \in 0 .. Len(jobs[q])
    BY <2>1, RowTypesKept DEF JobAdvanced, TypeInv
  <2> QED
    BY <1>8, <2>1, <2>2, <2>3 DEF TypeInv, AdvanceJob, JobAdvanced
<1>9. ASSUME NEW r \in Reactors, EditReactor(r)
      PROVE  TypeInv'
  BY <1>9 DEF TypeInv, EditReactor
<1> QED
  BY <1>1, <1>2, <1>3, <1>4, <1>5, <1>6, <1>7, <1>8, <1>9 DEF ReleaseStep

LEMMA TypesKept == TypeInv /\ [Next]_vars => TypeInv'
<1>1. CASE UNCHANGED vars
  BY <1>1 DEF TypeInv, vars
<1> QED
  BY <1>1, HandlerStepTypes, OtherStepTypes DEF Next

LEMMA InitTypes == Init => TypeInv
<1> SUFFICES ASSUME Init PROVE TypeInv
  OBVIOUS
<1>1. handler \in [Signals -> Handlers] /\ \A s \in Signals : handler[s].at = "none"
  BY NoHandlerType DEF Init, NoHandler
<1>2. NoRow \in Rows /\ NoRow.job = 0
  BY DEF NoRow, Rows, RowStatuses, None
<1>3. /\ row \in [Pairs -> Rows] /\ jobs \in [Pairs -> Seq(JobStatuses)]
      /\ \A p \in Pairs : row[p].job \in 0 .. Len(jobs[p])
  BY <1>2 DEF Init
<1> QED
  BY <1>1, <1>3 DEF Init, TypeInv, Modes, Releases, AtRest, ReactorPhases

-----------------------------------------------------------------------------
(* How far handlers and rows have come.                                    *)

\* The request that evaluates s has not looked at r yet.
Unvisited(s, r) ==
    \/ signal[s] = "none"
    \/ r \in handler[s].todo
    \/ handler[s].at \in {"suppressing", "reacting"} /\ handler[s].of = r

HandlersInOrder ==
    \A s \in Signals :
        /\ signal[s] = "none" => handler[s].at = "none"
        /\ handler[s].at \in ReactorPhases => handler[s].of \notin handler[s].todo

\* No Reaction exists before its Reactor is looked at, and no Job before it.
UnvisitedRows ==
    /\ \A s \in Signals, r \in Reactors : Unvisited(s, r) => row[<<s, r>>].status = "none"
    /\ \A p \in Pairs : row[p].status = "none" => row[p].job = 0 /\ jobs[p] = <<>>

\* A request launches for its own Reaction only, which nobody else writes.
LaunchingRows ==
    \A s \in Signals : handler[s].at \in LaunchPhases =>
        LET p == <<s, handler[s].of>> IN
        row[p].status = "failed" /\ row[p].job = 0 /\ Window[p[2]] = 0

\* The loop launches for a Reaction that was pending; a recovery Signal may
\* have settled it since.
ReleasingRow ==
    release.at # "rest" =>
        LET p == release.of IN
        row[p].status \in {"pending", "recovered"} /\ row[p].job = 0 /\ Window[p[2]] > 0

PendingRows ==
    \A p \in Pairs : row[p].status = "pending" =>
        /\ row[p].job = 0 /\ Window[p[2]] > 0
        /\ row[p].due = row[p].created + Window[p[2]] /\ row[p].created <= now

FoundRows ==
    \A s \in Signals : \A p \in handler[s].found :
        Window[p[2]] > 0 /\ row[p].status # "none"

ProgressInv ==
    /\ HandlersInOrder
    /\ UnvisitedRows
    /\ LaunchingRows
    /\ ReleasingRow
    /\ PendingRows
    /\ FoundRows

LEMMA LaunchingStays ==
    ASSUME TypeInv, LaunchingRows,
           \A q \in Signals : handler'[q].at \in LaunchPhases => handler'[q] = handler[q],
           \A p \in Pairs :
               row[p].status = "failed" /\ row[p].job = 0 /\ Window[p[2]] = 0 => row'[p] = row[p]
    PROVE  LaunchingRows'
<1> SUFFICES ASSUME NEW q \in Signals, handler'[q].at \in LaunchPhases
             PROVE  LET p == <<q, handler'[q].of>> IN
                    row'[p].status = "failed" /\ row'[p].job = 0 /\ Window[p[2]] = 0
  BY DEF LaunchingRows
<1>1. handler'[q] = handler[q] /\ <<q, handler[q].of>> \in Pairs
  BY DEF TypeInv, Pairs, LaunchPhases, ReactorPhases
<1> QED
  BY <1>1 DEF LaunchingRows

LEMMA FoundStays ==
    ASSUME TypeInv, FoundRows,
           \A q \in Signals : handler'[q].found \subseteq handler[q].found,
           \A p \in Pairs : row[p].status # "none" => row'[p].status # "none"
    PROVE  FoundRows'
<1>1. \A q \in Signals : handler[q].found \subseteq Pairs
  BY FieldTypes
<1> QED
  BY <1>1 DEF FoundRows

LEMMA DeliverProgress ==
    ASSUME TypeInv, ProgressInv, NEW s \in Signals, Deliver(s)
    PROVE  ProgressInv'
<1>1. HandlerBecomes(s, "evaluating", now, {r \in Reactors : mode[r] # "disabled"},
                     NoReactor, {}, {p \in Pairs : row[p].status = "pending"})
  BY DeliverHandler
<1>2. /\ signal[s] = "none" /\ signal' = [signal EXCEPT ![s] = "accepted"]
      /\ UNCHANGED <<now, row, jobs, release>> /\ signal \in [Signals -> {"none", "accepted", "processed"}]
  BY DEF Deliver, Accept, TypeInv
<1>3. HandlersInOrder'
  BY <1>1, <1>2 DEF ProgressInv, HandlersInOrder, HandlerBecomes, ReactorPhases
<1>4. UnvisitedRows'
  BY <1>1, <1>2 DEF ProgressInv, UnvisitedRows, Unvisited, HandlerBecomes
<1>5. LaunchingRows'
  BY <1>1, <1>2 DEF ProgressInv, LaunchingRows, HandlerBecomes, LaunchPhases
<1>6. ReleasingRow' /\ PendingRows'
  BY <1>2 DEF ProgressInv, ReleasingRow, PendingRows
<1>7. FoundRows'
  BY <1>1, <1>2 DEF ProgressInv, FoundRows, HandlerBecomes
<1> QED
  BY <1>3, <1>4, <1>5, <1>6, <1>7 DEF ProgressInv

LEMMA FindPendingProgress ==
    ASSUME TypeInv, ProgressInv, NEW s \in Signals, FindPending(s)
    PROVE  ProgressInv'
<1>1. PICK r \in handler[s].todo :
         /\ r \in Reactors
         /\ HandlerBecomes(s, IF PendingFor(s, r) = {} THEN "reacting" ELSE "suppressing",
                           handler[s].received, handler[s].todo \ {r}, r,
                           PendingFor(s, r), handler[s].pending)
  BY FindPendingHandler
<1>2. UNCHANGED <<now, signal, row, jobs, release>> /\ handler[s].at = "evaluating"
  BY DEF FindPending
<1>3. HandlersInOrder'
  BY <1>1, <1>2 DEF ProgressInv, HandlersInOrder, HandlerBecomes
<1>4. UnvisitedRows'
  BY <1>1, <1>2 DEF ProgressInv, UnvisitedRows, Unvisited, HandlerBecomes
<1>5. LaunchingRows'
  BY <1>1, <1>2 DEF ProgressInv, LaunchingRows, HandlerBecomes, LaunchPhases
<1>6. ReleasingRow' /\ PendingRows'
  BY <1>2 DEF ProgressInv, ReleasingRow, PendingRows
<1>7. FoundRows'
  <2>1. \A p \in PendingFor(s, r) : Window[p[2]] > 0 /\ row[p].status # "none"
    BY DEF PendingFor
  <2> QED
    BY <1>1, <1>2, <2>1 DEF ProgressInv, FoundRows, HandlerBecomes
<1> QED
  BY <1>3, <1>4, <1>5, <1>6, <1>7 DEF ProgressInv

LEMMA SuppressPendingProgress ==
    ASSUME TypeInv, ProgressInv, NEW s \in Signals, SuppressPending(s)
    PROVE  ProgressInv'
<1>1. PICK p \in handler[s].found :
         /\ p \in Pairs
         /\ HandlerMoves(s, IF handler[s].found = {p} THEN "reacting" ELSE "suppressing",
                         handler[s].of, handler[s].found \ {p})
         /\ RowBecomes(p, "recovered", row[p].created, None, row[p].job)
  BY SuppressPendingHandler
<1>2. UNCHANGED <<now, signal, jobs, release>> /\ handler[s].at = "suppressing"
  BY DEF SuppressPending
<1>3. Window[p[2]] > 0 /\ row[p].status # "none"
  BY <1>1 DEF ProgressInv, FoundRows
<1>4. HandlersInOrder'
  BY <1>1, <1>2 DEF ProgressInv, HandlersInOrder, HandlerMoves, HandlerBecomes, ReactorPhases
<1>5. UnvisitedRows'
  BY <1>1, <1>2, <1>3
     DEF ProgressInv, UnvisitedRows, Unvisited, HandlerMoves, HandlerBecomes, RowBecomes, Pairs
<1>6. LaunchingRows'
  <2>1. \A q \in Signals : handler'[q].at \in LaunchPhases => handler'[q] = handler[q]
    BY <1>1, <1>2 DEF HandlerMoves, HandlerBecomes, LaunchPhases
  <2>2. \A q \in Pairs : Window[q[2]] = 0 => row'[q] = row[q]
    BY <1>1, <1>3 DEF RowBecomes
  <2> QED
    BY <2>1, <2>2, LaunchingStays DEF ProgressInv
<1>7. ReleasingRow'
  BY <1>1, <1>2 DEF TypeInv, ProgressInv, ReleasingRow, RowBecomes
<1>8. PendingRows'
  BY <1>1, <1>2 DEF ProgressInv, PendingRows, RowBecomes
<1>9. FoundRows'
  BY <1>1, <1>2, FieldTypes
     DEF ProgressInv, FoundRows, HandlerMoves, HandlerBecomes, RowBecomes
<1> QED
  BY <1>4, <1>5, <1>6, <1>7, <1>8, <1>9 DEF ProgressInv

\* A Reactor is done with: its Reaction has been written, or the Signal does not
\* concern it.
LEMMA ReactProgress ==
    ASSUME TypeInv, ProgressInv, NEW s \in Signals, React(s)
    PROVE  ProgressInv'
<1>1. /\ handler[s].at = "reacting" /\ handler[s].of \in Reactors
      /\ row' = row \/ \E status, due : ReactRow(s, handler[s].of, status, due)
      /\ HandlerMoves(s, "evaluating", NoReactor, handler[s].found)
      /\ UNCHANGED <<now, signal, jobs, release>>
  BY ReactRows, EndOfReactorHandler DEF React
<1> DEFINE r == handler[s].of
           p == <<s, r>>
<1>2. /\ p \in Pairs /\ p[2] = r /\ row[p].status = "none" /\ row[p].job = 0
      /\ signal[s] # "none" /\ r \notin handler[s].todo
  BY <1>1 DEF Pairs, ProgressInv, UnvisitedRows, Unvisited, HandlersInOrder, ReactorPhases
<1>3. HandlersInOrder'
  BY <1>1 DEF ProgressInv, HandlersInOrder, HandlerMoves, HandlerBecomes, ReactorPhases
<1>4. CASE row' = row
  <2>1. UnvisitedRows'
    BY <1>1, <1>2, <1>4
       DEF ProgressInv, UnvisitedRows, Unvisited, HandlerMoves, HandlerBecomes
  <2>2. LaunchingRows'
    BY <1>1, <1>4, LaunchingStays DEF ProgressInv, HandlerMoves, HandlerBecomes, LaunchPhases
  <2>3. ReleasingRow' /\ PendingRows'
    BY <1>1, <1>4 DEF ProgressInv, ReleasingRow, PendingRows
  <2>4. FoundRows'
    BY <1>1, <1>4 DEF ProgressInv, FoundRows, HandlerMoves, HandlerBecomes
  <2> QED
    BY <1>3, <2>1, <2>2, <2>3, <2>4 DEF ProgressInv
<1>5. ASSUME NEW status, NEW due, ReactRow(s, r, status, due)
      PROVE  ProgressInv'
  <2>1. /\ row'[p].status = status /\ row'[p].created = now /\ row'[p].due = due
        /\ row'[p].job = 0 /\ status # "none"
        /\ status = "pending" => Window[r] > 0 /\ due = now + Window[r]
        /\ \A q \in Pairs \ {p} : row'[q] = row[q]
    BY <1>5 DEF ReactRow, RowBecomes
  <2> HIDE DEF p
  <2>2. \A q \in Signals, t \in Reactors : Unvisited(q, t)' => Unvisited(q, t) /\ <<q, t>> # p
    BY <1>1, <1>2 DEF Unvisited, HandlerMoves, HandlerBecomes, p
  <2>3. \A q \in Signals, t \in Reactors : Unvisited(q, t)' => row'[<<q, t>>].status = "none"
    BY <2>1, <2>2 DEF ProgressInv, UnvisitedRows, Pairs
  <2>4. UnvisitedRows'
    BY <1>1, <1>2, <2>1, <2>3 DEF ProgressInv, UnvisitedRows
  <2>5. LaunchingRows'
    <3>1. \A q \in Signals : handler'[q].at \in LaunchPhases => handler'[q] = handler[q]
      BY <1>1 DEF HandlerMoves, HandlerBecomes, LaunchPhases
    <3> QED
      BY <1>2, <2>1, <3>1, LaunchingStays DEF ProgressInv
  <2>6. ReleasingRow'
    BY <1>1, <1>2, <2>1 DEF TypeInv, ProgressInv, ReleasingRow
  <2>7. PendingRows'
    BY <1>1, <1>2, <2>1 DEF TypeInv, ProgressInv, PendingRows
  <2>8. FoundRows'
    <3>1. \A q \in Signals : handler'[q].found \subseteq handler[q].found
      BY <1>1 DEF HandlerMoves, HandlerBecomes
    <3> QED
      BY <2>1, <3>1, FoundStays DEF ProgressInv
  <2> QED
    BY <1>3, <2>4, <2>5, <2>6, <2>7, <2>8 DEF ProgressInv
<1> QED
  BY <1>1, <1>4, <1>5

LEMMA BeginLaunchProgress ==
    ASSUME TypeInv, ProgressInv, NEW s \in Signals, BeginLaunch(s)
    PROVE  ProgressInv'
<1>1. /\ handler[s].at = "reacting" /\ handler[s].of \in Reactors
      /\ Window[handler[s].of] = 0
      /\ HandlerMoves(s, "launching", handler[s].of, handler[s].found)
      /\ RowBecomes(<<s, handler[s].of>>, "failed", now, None, 0)
      /\ UNCHANGED <<now, signal, jobs, release>>
  BY BeginLaunchRow DEF BeginLaunch
<1> DEFINE r == handler[s].of
           p == <<s, r>>
<1>2. /\ p \in Pairs /\ p[2] = r /\ row[p].status = "none" /\ row[p].job = 0
      /\ signal[s] # "none" /\ r \notin handler[s].todo
  BY <1>1 DEF Pairs, ProgressInv, UnvisitedRows, Unvisited, HandlersInOrder, ReactorPhases
<1>3. HandlersInOrder'
  BY <1>1, <1>2 DEF ProgressInv, HandlersInOrder, HandlerMoves, HandlerBecomes
<1>4. /\ row'[p].status = "failed" /\ row'[p].job = 0
      /\ \A q \in Pairs \ {p} : row'[q] = row[q]
  BY <1>1 DEF RowBecomes
<1> HIDE DEF p
<1>5. \A q \in Signals, t \in Reactors : Unvisited(q, t)' => Unvisited(q, t) /\ <<q, t>> # p
  BY <1>1, <1>2 DEF Unvisited, HandlerMoves, HandlerBecomes, p
<1>6. \A q \in Signals, t \in Reactors : Unvisited(q, t)' => row'[<<q, t>>].status = "none"
  BY <1>4, <1>5 DEF ProgressInv, UnvisitedRows, Pairs
<1>7. UnvisitedRows'
  BY <1>1, <1>2, <1>4, <1>6 DEF ProgressInv, UnvisitedRows
<1>8. LaunchingRows'
  <2> SUFFICES ASSUME NEW q \in Signals, handler'[q].at \in LaunchPhases
               PROVE  LET t == <<q, handler'[q].of>> IN
                      row'[t].status = "failed" /\ row'[t].job = 0 /\ Window[t[2]] = 0
    BY DEF LaunchingRows
  <2>1. CASE q = s
    BY <1>1, <1>4, <2>1 DEF HandlerMoves, HandlerBecomes, p
  <2>2. CASE q # s
    <3>1. handler'[q] = handler[q] /\ <<q, handler[q].of>> \in Pairs /\ <<q, handler[q].of>> # p
      BY <1>1, <2>2 DEF TypeInv, HandlerMoves, HandlerBecomes, Pairs, LaunchPhases, ReactorPhases, p
    <3> QED
      BY <1>4, <3>1 DEF ProgressInv, LaunchingRows
  <2> QED
    BY <2>1, <2>2
<1>9. ReleasingRow'
  BY <1>1, <1>2, <1>4 DEF TypeInv, ProgressInv, ReleasingRow
<1>10. PendingRows'
  BY <1>1, <1>4 DEF ProgressInv, PendingRows
<1>11. FoundRows'
  BY <1>1, <1>4, FieldTypes DEF ProgressInv, FoundRows, HandlerMoves, HandlerBecomes
<1> QED
  BY <1>3, <1>7, <1>8, <1>9, <1>10, <1>11 DEF ProgressInv

\* Steps of a handler behind the begin of its launch.
LEMMA LaunchProgress ==
    ASSUME TypeInv, ProgressInv, NEW s \in Signals, CommitJob(s) \/ RefuseJob(s) \/ LinkJob(s)
    PROVE  ProgressInv'
<1> DEFINE r == handler[s].of
           p == <<s, r>>
<1>1. /\ handler[s].at \in LaunchPhases
      /\ \/ HandlerMoves(s, "evaluating", NoReactor, handler[s].found)
         \/ handler[s].at = "launching" /\ HandlerMoves(s, "launched", r, handler[s].found)
      /\ row' = row \/ RowBecomes(p, "queued", row[p].created, None, Len(jobs[p]))
      /\ UNCHANGED <<now, signal, release>>
  <2>1. handler[s].at \in LaunchPhases
    BY DEF CommitJob, RefuseJob, LinkJob, LaunchPhases
  <2>2. p \in Pairs
    BY <2>1 DEF TypeInv, Pairs, LaunchPhases, ReactorPhases
  <2> QED
    BY <2>1, <2>2, EndOfReactorHandler, LaunchPhaseHandler, LinkedRow
       DEF CommitJob, RefuseJob, LinkJob, LaunchPhases
<1>2. /\ p \in Pairs /\ row[p].status = "failed" /\ row[p].job = 0 /\ Window[r] = 0
      /\ signal[s] # "none" /\ r \notin handler[s].todo
  BY <1>1 DEF Pairs, TypeInv, ProgressInv, LaunchingRows, HandlersInOrder, ReactorPhases, LaunchPhases
<1>3. /\ row'[p].status \in {"failed", "queued"}
      /\ \A q \in Pairs \ {p} : row'[q] = row[q]
  BY <1>1, <1>2 DEF RowBecomes
<1>4. \A q \in Pairs \ {p} : jobs'[q] = jobs[q]
  <2>1. CommitJob(s) => jobs' = [jobs EXCEPT ![p] = Append(@, "queued")]
    BY DEF CommitJob
  <2> QED
    BY <1>2, <2>1 DEF TypeInv, RefuseJob, LinkJob
<1>5. HandlersInOrder'
  BY <1>1, <1>2
     DEF ProgressInv, HandlersInOrder, HandlerMoves, HandlerBecomes, ReactorPhases, LaunchPhases
<1>6. \A q \in Signals, t \in Reactors : Unvisited(q, t)' => Unvisited(q, t)
  BY <1>1, <1>2 DEF Unvisited, HandlerMoves, HandlerBecomes, LaunchPhases
<1>7. UnvisitedRows'
  <2>1. \A q \in Signals, t \in Reactors : Unvisited(q, t)' => row'[<<q, t>>].status = "none"
    <3> SUFFICES ASSUME NEW q \in Signals, NEW t \in Reactors, Unvisited(q, t)'
                 PROVE  row'[<<q, t>>].status = "none"
      OBVIOUS
    <3>1. <<q, t>> \in Pairs /\ row[<<q, t>>].status = "none"
      BY <1>6 DEF ProgressInv, UnvisitedRows, Pairs
    <3>2. <<q, t>> # p
      BY <1>2, <3>1
    <3> QED
      BY <1>3, <3>1, <3>2
  <2>2. \A q \in Pairs : row'[q].status = "none" => row'[q].job = 0 /\ jobs'[q] = <<>>
    BY <1>3, <1>4 DEF ProgressInv, UnvisitedRows
  <2> QED
    BY <2>1, <2>2 DEF UnvisitedRows
<1>8. LaunchingRows'
  <2> SUFFICES ASSUME NEW q \in Signals, handler'[q].at \in LaunchPhases
               PROVE  LET t == <<q, handler'[q].of>> IN
                      row'[t].status = "failed" /\ row'[t].job = 0 /\ Window[t[2]] = 0
    BY DEF LaunchingRows
  <2>1. CASE q = s
    <3>1. handler'[s].at = "launched" /\ handler'[s].of = r /\ handler[s].at = "launching"
      BY <1>1, <2>1 DEF HandlerMoves, HandlerBecomes, LaunchPhases
    <3>2. row' = row
      BY <3>1 DEF CommitJob, RefuseJob, LinkJob
    <3> QED
      BY <1>2, <2>1, <3>1, <3>2
  <2>2. CASE q # s
    <3>1. handler'[q] = handler[q] /\ <<q, handler[q].of>> \in Pairs /\ <<q, handler[q].of>> # p
      BY <1>1, <2>2 DEF TypeInv, HandlerMoves, HandlerBecomes, Pairs, LaunchPhases, ReactorPhases
    <3> QED
      BY <1>3, <3>1 DEF ProgressInv, LaunchingRows
  <2> QED
    BY <2>1, <2>2
<1>9. ReleasingRow'
  <2>1. release.at # "rest" => release.of \in Pairs \ {p}
    BY <1>2 DEF TypeInv, ProgressInv, ReleasingRow
  <2> QED
    BY <1>1, <1>3, <2>1 DEF ProgressInv, ReleasingRow
<1>10. PendingRows'
  BY <1>1, <1>3 DEF ProgressInv, PendingRows
<1>11. FoundRows'
  <2>1. \A q \in Signals : handler'[q].found \subseteq handler[q].found
    BY <1>1 DEF HandlerMoves, HandlerBecomes
  <2>2. \A q \in Pairs : row[q].status # "none" => row'[q].status # "none"
    BY <1>3
  <2> QED
    BY <2>1, <2>2, FoundStays DEF ProgressInv
<1> QED
  BY <1>5, <1>7, <1>8, <1>9, <1>10, <1>11 DEF ProgressInv

LEMMA EndedHandlerProgress ==
    ASSUME TypeInv, ProgressInv, NEW s \in Signals, FinishSignal(s) \/ LoseHandler(s)
    PROVE  ProgressInv'
<1>1. /\ HandlerBecomes(s, "none", 0, {}, NoReactor, {}, {})
      /\ UNCHANGED <<now, row, jobs, release>> /\ handler[s].at # "none"
      /\ signal' = signal \/ signal' = [signal EXCEPT ![s] = "processed"]
  BY EndedHandler DEF FinishSignal, LoseHandler
<1>2. signal[s] # "none" /\ \A q \in Signals : signal'[q] = "none" => signal[q] = "none" /\ q # s
  BY <1>1 DEF TypeInv, ProgressInv, HandlersInOrder
<1>3. HandlersInOrder'
  BY <1>1, <1>2 DEF ProgressInv, HandlersInOrder, HandlerBecomes, ReactorPhases
<1>4. UnvisitedRows'
  BY <1>1, <1>2 DEF ProgressInv, UnvisitedRows, Unvisited, HandlerBecomes
<1>5. LaunchingRows'
  BY <1>1, LaunchingStays DEF ProgressInv, HandlerBecomes, LaunchPhases
<1>6. ReleasingRow' /\ PendingRows'
  BY <1>1 DEF ProgressInv, ReleasingRow, PendingRows
<1>7. FoundRows'
  BY <1>1 DEF ProgressInv, FoundRows, HandlerBecomes
<1> QED
  BY <1>3, <1>4, <1>5, <1>6, <1>7 DEF ProgressInv

\* The row of a Reaction that was written already is written again; handlers
\* stay, and the loop releases the same Reaction or rests.
LEMMA RowProgress ==
    ASSUME TypeInv, ProgressInv, NEW p \in Pairs, row[p].status # "none",
           row'[p].status \notin {"none", "pending"},
           \A q \in Pairs \ {p} : row'[q] = row[q],
           ~ (row[p].status = "failed" /\ row[p].job = 0),
           \A q \in Pairs \ {p} : jobs'[q] = jobs[q],
           UNCHANGED <<now, signal, handler>>,
           \/ release'.at = "rest"
           \/ release' = release /\ release.of # p
    PROVE  ProgressInv'
<1>1. HandlersInOrder'
  BY DEF ProgressInv, HandlersInOrder
<1>2. \A q \in Signals, t \in Reactors : Unvisited(q, t)' => Unvisited(q, t)
  BY DEF Unvisited
<1>3. UnvisitedRows'
  <2> SUFFICES ASSUME NEW q \in Signals, NEW t \in Reactors, Unvisited(q, t)'
               PROVE  row'[<<q, t>>].status = "none"
    BY DEF ProgressInv, UnvisitedRows
  <2>1. <<q, t>> \in Pairs /\ row[<<q, t>>].status = "none"
    BY <1>2 DEF ProgressInv, UnvisitedRows, Pairs
  <2> QED
    BY <2>1
<1>4. LaunchingRows'
  BY LaunchingStays DEF ProgressInv
<1>5. ReleasingRow'
  BY DEF TypeInv, ProgressInv, ReleasingRow
<1>6. PendingRows'
  BY DEF ProgressInv, PendingRows
<1>7. FoundRows'
  BY FoundStays DEF ProgressInv
<1> QED
  BY <1>1, <1>3, <1>4, <1>5, <1>6, <1>7 DEF ProgressInv

\* Rows and handlers stay; so does what the loop releases.
LEMMA QuietProgress ==
    ASSUME TypeInv, ProgressInv, UNCHANGED <<signal, handler, row>>,
           now' \in Nat, now' >= now,
           \A p \in Pairs : row[p].status = "none" => jobs'[p] = jobs[p],
           \/ release'.at = "rest"
           \/ release'.of = release.of /\ release.at # "rest"
           \/ release'.of \in Pairs /\ row[release'.of].status = "pending"
    PROVE  ProgressInv'
<1>1. HandlersInOrder' /\ FoundRows' /\ LaunchingRows'
  BY DEF ProgressInv, HandlersInOrder, FoundRows, LaunchingRows
<1>2. UnvisitedRows'
  BY DEF ProgressInv, UnvisitedRows, Unvisited
<1>3. ReleasingRow'
  BY DEF ProgressInv, ReleasingRow, PendingRows
<1>4. PendingRows'
  BY FieldTypes DEF TypeInv, ProgressInv, PendingRows
<1> QED
  BY <1>1, <1>2, <1>3, <1>4 DEF ProgressInv

LEMMA OtherStepProgress ==
    ASSUME TypeInv, ProgressInv,
           \/ Tick \/ ReleaseStep \/ CrashRunner
           \/ \E p \in Pairs : AdvanceJob(p)
           \/ \E r \in Reactors : EditReactor(r)
    PROVE  ProgressInv'
<1>1. CASE Tick \/ CrashRunner \/ \E r \in Reactors : EditReactor(r)
  <2>1. /\ UNCHANGED <<signal, handler, row, jobs>> /\ now' \in Nat /\ now' >= now
        /\ release' = release \/ release'.at = "rest"
    BY <1>1 DEF Tick, CrashRunner, EditReactor, AtRest, TypeInv
  <2> QED
    BY <2>1, QuietProgress
<1>2. ASSUME NEW p \in Pairs, SuppressDue(p)
      PROVE  ProgressInv'
  <2>1. /\ RowBecomes(p, "suppressed", row[p].created, None, row[p].job)
        /\ row[p].status = "pending" /\ release'.at = "rest"
        /\ UNCHANGED <<now, signal, handler, jobs>>
    BY <1>2, SuppressedDue DEF SuppressDue, Due
  <2>2. row'[p].status = "suppressed" /\ \A q \in Pairs \ {p} : row'[q] = row[q]
    BY <2>1 DEF RowBecomes
  <2> QED
    BY <2>1, <2>2, RowProgress
<1>3. ASSUME NEW p \in Pairs, BeginRelease(p)
      PROVE  ProgressInv'
  <2>1. /\ row[p].status = "pending" /\ release'.of = p
        /\ UNCHANGED <<now, signal, handler, row, jobs>> /\ now \in Nat
    BY <1>3 DEF BeginRelease, Due, TypeInv
  <2> QED
    BY <2>1, QuietProgress
<1>4. CASE ReleaseJob
  <2>1. /\ release.of \in Pairs /\ release.at # "rest" /\ release'.of = release.of
        /\ UNCHANGED <<now, signal, handler, row>> /\ now \in Nat
        /\ jobs' = [jobs EXCEPT ![release.of] = Append(@, "queued")]
    BY <1>4 DEF ReleaseJob, TypeInv, Releases
  <2>2. row[release.of].status # "none"
    BY <2>1 DEF ProgressInv, ReleasingRow
  <2>3. \A p \in Pairs : row[p].status = "none" => jobs'[p] = jobs[p]
    BY <2>1, <2>2 DEF TypeInv
  <2> QED
    BY <2>1, <2>3, QuietProgress
<1>5. CASE FailRelease
  <2>1. /\ release.of \in Pairs /\ release.at # "rest" /\ release'.at = "rest"
        /\ UNCHANGED <<now, signal, handler, jobs>> /\ now \in Nat
        /\ \/ row' = row
           \/ /\ row[release.of].status = "pending"
              /\ RowBecomes(release.of, "failed", row[release.of].created, None,
                            row[release.of].job)
    BY <1>5, FailedRelease DEF FailRelease, AtRest, TypeInv
  <2>2. CASE row' = row
    BY <2>1, <2>2, QuietProgress
  <2>3. CASE row' # row
    <3>1. /\ row[release.of].status = "pending" /\ row'[release.of].status = "failed"
          /\ \A q \in Pairs \ {release.of} : row'[q] = row[q]
      BY <2>1, <2>3 DEF RowBecomes
    <3> QED
      BY <2>1, <3>1, RowProgress
  <2> QED
    BY <2>2, <2>3
<1>6. CASE LinkReleased
  <2>1. /\ release.of \in Pairs /\ release.at # "rest" /\ release'.at = "rest"
        /\ UNCHANGED <<now, signal, handler, jobs>>
        /\ RowBecomes(release.of, "queued", row[release.of].created, None,
                      Len(jobs[release.of]))
    BY <1>6, LinkedRow DEF LinkReleased, AtRest, TypeInv
  <2>2. row[release.of].status \in {"pending", "recovered"}
    BY <2>1 DEF ProgressInv, ReleasingRow
  <2> QED
    <3>1. /\ row'[release.of].status = "queued"
          /\ \A q \in Pairs \ {release.of} : row'[q] = row[q]
      BY <2>1 DEF RowBecomes
    <3> QED
      BY <2>1, <2>2, <3>1, RowProgress
<1>7. ASSUME NEW p \in Pairs, AdvanceJob(p)
      PROVE  ProgressInv'
  <2>1. PICK i, next : JobAdvanced(p, i, next)
    BY <1>7, AdvancedJob
  <2>2. UNCHANGED <<now, signal, handler, release>> /\ now \in Nat
    BY <1>7 DEF AdvanceJob, TypeInv
  <2>3. i # 0 /\ jobs[p] # <<>>
    BY <2>1 DEF JobAdvanced, TypeInv
  <2>4. row[p].status # "none"
    BY <2>3 DEF ProgressInv, UnvisitedRows
  <2>5. \A q \in Pairs \ {p} : jobs'[q] = jobs[q]
    BY <2>1 DEF JobAdvanced
  <2>6. CASE row' = row
    BY <2>2, <2>4, <2>5, <2>6, QuietProgress
  <2>7. CASE row' # row
    <3>1. row[p].job = i /\ RowBecomes(p, next, row[p].created, row[p].due, i)
          /\ next \in {"running", "ended"}
      BY <2>1, <2>7 DEF JobAdvanced
    <3>2. release.at # "rest" => release.of # p
      BY <2>3, <3>1 DEF ProgressInv, ReleasingRow
    <3> QED
      <4>1. /\ row'[p].status \in {"running", "ended"}
            /\ \A q \in Pairs \ {p} : row'[q] = row[q]
        BY <3>1 DEF RowBecomes
      <4> QED
        BY <2>2, <2>3, <2>4, <2>5, <3>1, <3>2, <4>1, RowProgress
  <2> QED
    BY <2>6, <2>7
<1> QED
  BY <1>1, <1>2, <1>3, <1>4, <1>5, <1>6, <1>7 DEF ReleaseStep

LEMMA ProgressKept == TypeInv /\ ProgressInv /\ [Next]_vars => ProgressInv'
<1> SUFFICES ASSUME TypeInv, ProgressInv, [Next]_vars
             PROVE  ProgressInv'
  OBVIOUS
<1>1. CASE UNCHANGED vars
  <2>1. UNCHANGED <<now, signal, handler, row, jobs, release>> /\ now \in Nat
    BY <1>1 DEF vars, TypeInv
  <2> QED
    BY <2>1 DEF ProgressInv, HandlersInOrder, UnvisitedRows, Unvisited, LaunchingRows, ReleasingRow,
                PendingRows, FoundRows
<1>2. ASSUME NEW s \in Signals, Deliver(s) \/ HandlerStep(s) \/ LoseHandler(s)
      PROVE  ProgressInv'
  BY <1>2, DeliverProgress, FindPendingProgress, SuppressPendingProgress, ReactProgress,
     BeginLaunchProgress, LaunchProgress, EndedHandlerProgress DEF HandlerStep
<1> QED
  BY <1>1, <1>2, OtherStepProgress DEF Next

LEMMA InitProgress == Init => ProgressInv
  BY DEF Init, ProgressInv, HandlersInOrder, UnvisitedRows, LaunchingRows, ReleasingRow, PendingRows,
         FoundRows, NoHandler, NoRow, AtRest, ReactorPhases, LaunchPhases, Pairs

-----------------------------------------------------------------------------
(* ReactionFollowsJob.                                                     *)

\* Reactions are written to other statuses, and Jobs are appended only.
LEMMA FollowStays ==
    ASSUME TypeInv, ReactionFollowsJob,
           \A p \in Pairs : row'[p].status \in {"running"} \cup Ended => row'[p] = row[p],
           \A p \in Pairs : jobs'[p] = jobs[p] \/ jobs'[p] = Append(jobs[p], "queued")
    PROVE  ReactionFollowsJob'
<1> SUFFICES ASSUME NEW p \in Pairs, row'[p].status \in {"running"} \cup Ended
             PROVE  row'[p].job # 0 /\ jobs'[p][row'[p].job] = row'[p].status
  BY DEF ReactionFollowsJob
<1>1. /\ row'[p] = row[p] /\ row[p].job # 0 /\ jobs[p][row[p].job] = row[p].status
      /\ row[p].job \in 0 .. Len(jobs[p]) /\ jobs[p] \in Seq(JobStatuses)
  BY DEF ReactionFollowsJob, TypeInv
<1>2. Append(jobs[p], "queued")[row[p].job] = jobs[p][row[p].job]
  BY <1>1
<1> QED
  BY <1>1, <1>2

LEMMA FollowKept == TypeInv /\ ProgressInv /\ ReactionFollowsJob /\ [Next]_vars => ReactionFollowsJob'
<1> SUFFICES ASSUME TypeInv, ProgressInv, ReactionFollowsJob, [Next]_vars
             PROVE  ReactionFollowsJob'
  OBVIOUS
<1>1. ASSUME row' = row, UNCHANGED jobs
      PROVE  ReactionFollowsJob'
  BY <1>1 DEF ReactionFollowsJob
<1>2. ASSUME NEW p \in Pairs, NEW status, NEW created, NEW due, NEW job,
             RowBecomes(p, status, created, due, job), status \notin {"running"} \cup Ended,
             jobs' = jobs
      PROVE  ReactionFollowsJob'
  BY <1>2, FollowStays DEF RowBecomes
<1>3. CASE UNCHANGED vars
  BY <1>1, <1>3 DEF vars
<1>4. CASE Tick \/ CrashRunner
  BY <1>1, <1>4 DEF Tick, CrashRunner
<1>5. ASSUME NEW s \in Signals,
             \/ Deliver(s) \/ FindPending(s) \/ RefuseJob(s) \/ FinishSignal(s) \/ LoseHandler(s)
      PROVE  ReactionFollowsJob'
  BY <1>1, <1>5 DEF Deliver, Accept, FindPending, RefuseJob, FinishSignal, LoseHandler
<1>6. ASSUME NEW s \in Signals, SuppressPending(s)
      PROVE  ReactionFollowsJob'
  <2>1. PICK p \in Pairs : RowBecomes(p, "recovered", row[p].created, None, row[p].job)
    BY <1>6, SuppressPendingHandler
  <2> QED
    BY <1>2, <1>6, <2>1 DEF SuppressPending, Ended
<1>7. ASSUME NEW s \in Signals, React(s)
      PROVE  ReactionFollowsJob'
  <2>1. handler[s].of \in Reactors /\ <<s, handler[s].of>> \in Pairs /\ jobs' = jobs
    BY <1>7, ReactRows DEF React, Pairs
  <2>2. CASE row' = row
    BY <1>1, <2>1, <2>2
  <2>3. ASSUME NEW status, NEW due, ReactRow(s, handler[s].of, status, due)
        PROVE  ReactionFollowsJob'
    BY <1>2, <2>1, <2>3 DEF ReactRow, Ended
  <2> QED
    BY <1>7, <2>2, <2>3, ReactRows
<1>8. ASSUME NEW s \in Signals, BeginLaunch(s)
      PROVE  ReactionFollowsJob'
  <2>1. /\ <<s, handler[s].of>> \in Pairs /\ jobs' = jobs
        /\ RowBecomes(<<s, handler[s].of>>, "failed", now, None, 0)
    BY <1>8, BeginLaunchRow DEF BeginLaunch, Pairs
  <2> QED
    BY <1>2, <2>1 DEF Ended
<1>9. ASSUME NEW s \in Signals, CommitJob(s)
      PROVE  ReactionFollowsJob'
  <2>1. /\ <<s, handler[s].of>> \in Pairs /\ row' = row
        /\ jobs' = [jobs EXCEPT ![<<s, handler[s].of>>] = Append(@, "queued")]
    BY <1>9 DEF CommitJob, Pairs, TypeInv, ReactorPhases
  <2>2. JobAppended(<<s, handler[s].of>>)
    BY <2>1, AppendedJob
  <2>3. \A p \in Pairs : jobs'[p] = jobs[p] \/ jobs'[p] = Append(jobs[p], "queued")
    BY <2>2 DEF JobAppended
  <2>4. \A p \in Pairs : row'[p].status \in {"running"} \cup Ended => row'[p] = row[p]
    BY <2>1
  <2> QED
    BY <2>3, <2>4, FollowStays
<1>10. ASSUME NEW s \in Signals, LinkJob(s)
       PROVE  ReactionFollowsJob'
  <2>1. /\ <<s, handler[s].of>> \in Pairs /\ jobs' = jobs /\ row' = Linked(<<s, handler[s].of>>)
    BY <1>10 DEF LinkJob, Pairs, TypeInv, ReactorPhases
  <2> QED
    BY <1>2, <2>1, LinkedRow DEF Ended
<1>11. ASSUME NEW p \in Pairs, SuppressDue(p) \/ BeginRelease(p)
       PROVE  ReactionFollowsJob'
  <2>1. CASE BeginRelease(p)
    BY <1>1, <2>1 DEF BeginRelease
  <2>2. CASE SuppressDue(p)
    <3>1. RowBecomes(p, "suppressed", row[p].created, None, row[p].job)
      BY <2>2, SuppressedDue
    <3>2. jobs' = jobs /\ "suppressed" \notin {"running"} \cup Ended
      BY <2>2 DEF SuppressDue, Ended
    <3> QED
      BY <1>2, <3>1, <3>2
  <2> QED
    BY <1>11, <2>1, <2>2
<1>12. CASE ReleaseJob
  <2>1. /\ release.of \in Pairs /\ row' = row
        /\ jobs' = [jobs EXCEPT ![release.of] = Append(@, "queued")]
    BY <1>12 DEF ReleaseJob, TypeInv
  <2>2. JobAppended(release.of)
    BY <2>1, AppendedJob
  <2>3. \A p \in Pairs : jobs'[p] = jobs[p] \/ jobs'[p] = Append(jobs[p], "queued")
    BY <2>2 DEF JobAppended
  <2>4. \A p \in Pairs : row'[p].status \in {"running"} \cup Ended => row'[p] = row[p]
    BY <2>1
  <2> QED
    BY <2>3, <2>4, FollowStays
<1>13. CASE FailRelease
  <2>1. CASE row' = row
    BY <1>1, <1>13, <2>1 DEF FailRelease
  <2>2. CASE row' # row
    BY <1>2, <1>13, <2>2, FailedRelease DEF FailRelease, Ended
  <2> QED
    BY <2>1, <2>2
<1>14. CASE LinkReleased
  <2>1. release.of \in Pairs /\ jobs' = jobs /\ row' = Linked(release.of)
    BY <1>14 DEF LinkReleased, TypeInv
  <2> QED
    BY <1>2, <2>1, LinkedRow DEF Ended
<1>15. ASSUME NEW p \in Pairs, AdvanceJob(p)
       PROVE  ReactionFollowsJob'
  <2>1. PICK i, next : JobAdvanced(p, i, next)
    BY <1>15, AdvancedJob
  <2> SUFFICES ASSUME NEW q \in Pairs, row'[q].status \in {"running"} \cup Ended
               PROVE  row'[q].job # 0 /\ jobs'[q][row'[q].job] = row'[q].status
    BY DEF ReactionFollowsJob
  <2>2. CASE q # p
    <3>1. row'[q] = row[q] /\ jobs'[q] = jobs[q]
      BY <2>1, <2>2 DEF JobAdvanced, RowBecomes
    <3> QED
      BY <3>1 DEF ReactionFollowsJob
  <2>3. CASE q = p /\ row' = row
    <3>1. /\ row[p].job # 0 /\ jobs[p][row[p].job] = row[p].status
          /\ row[p].status \in {"running"} \cup Ended
          /\ row[p].job \in 0 .. Len(jobs[p]) /\ jobs[p] \in Seq(JobStatuses)
      BY <2>3 DEF ReactionFollowsJob, TypeInv
    <3>2. row[p].job # i
      <4> SUFFICES ASSUME row[p].job = i PROVE FALSE
        OBVIOUS
      <4>1. jobs[p][i] = "running" /\ next = "ended" /\ row[p].status = "running"
        BY <2>1, <3>1 DEF JobAdvanced, Ended
      <4>2. row'[p].status = "ended"
        BY <2>1, <4>1 DEF JobAdvanced, RowBecomes
      <4> QED
        BY <2>3, <4>1, <4>2
    <3>3. row[p].job \in DOMAIN jobs[p] \ {i}
      BY <3>1, <3>2
    <3> QED
      BY <2>1, <2>3, <3>1, <3>3 DEF JobAdvanced
  <2>4. CASE q = p /\ row' # row
    <3>1. row'[p].job = i /\ row'[p].status = next /\ jobs'[p][i] = next /\ i \in DOMAIN jobs[p]
      BY <2>1, <2>4 DEF JobAdvanced, RowBecomes
    <3> QED
      BY <2>4, <3>1 DEF TypeInv
  <2> QED
    BY <2>2, <2>3, <2>4
<1>16. ASSUME NEW r \in Reactors, EditReactor(r)
       PROVE  ReactionFollowsJob'
  BY <1>1, <1>16 DEF EditReactor
<1> QED
  BY <1>3, <1>4, <1>5, <1>6, <1>7, <1>8, <1>9, <1>10, <1>11, <1>12, <1>13, <1>14, <1>15, <1>16
     DEF Next, ReleaseStep, HandlerStep

\* The inductive invariant of Reactions: the types, and how far handlers, rows
\* and the release loop have come together.
THEOREM ReactionsInvariant == Spec => [](TypeInv /\ ProgressInv)
<1>1. Init => TypeInv /\ ProgressInv
  BY InitTypes, InitProgress
<1>2. TypeInv /\ ProgressInv /\ [Next]_vars => TypeInv' /\ ProgressInv'
  BY TypesKept, ProgressKept
<1> QED
  BY <1>1, <1>2, PTL DEF Spec

\* A Reaction that says that its Job runs or has ended is linked to a Job that
\* does (sync_reaction_for_job), whatever recovery Signals and the release loop
\* write to it.
THEOREM ReactionsTellTheTruth == Spec => []ReactionFollowsJob
<1>1. Init => ReactionFollowsJob
  BY DEF Init, ReactionFollowsJob, NoRow, Ended
<1> QED
  BY <1>1, FollowKept, ReactionsInvariant, PTL DEF Spec

-----------------------------------------------------------------------------
(* UnknownJobsComeFromDeaths.                                              *)

HandlerLaunched(p) == handler[p[1]].at = "launched" /\ handler[p[1]].of = p[2]
LoopLaunched(p) == release.at = "launched" /\ release.of = p
Launched(p) == HandlerLaunched(p) \/ LoopLaunched(p)

\* The Jobs of p that nobody will link.
Abandoned(p) == Orphans(p) - (IF Launched(p) THEN 1 ELSE 0)
AbandonedPairs == {p \in Pairs : Abandoned(p) # 0}

DeathInv ==
    /\ \A p \in Pairs : Abandoned(p) \in 0 .. crashes
    /\ IsFiniteSet(AbandonedPairs) /\ Cardinality(AbandonedPairs) <= crashes

LEMMA AbandonedSame ==
    ASSUME NEW p \in Pairs, row'[p].job = 0 <=> row[p].job = 0, Len(jobs'[p]) = Len(jobs[p]),
           Launched(p)' <=> Launched(p)
    PROVE  Abandoned(p)' = Abandoned(p)
  BY DEF Abandoned, Orphans

LEMMA DeathsStay ==
    ASSUME DeathInv, \A p \in Pairs : Abandoned(p)' = Abandoned(p), crashes' = crashes
    PROVE  DeathInv'
<1>1. AbandonedPairs' = AbandonedPairs
  BY DEF AbandonedPairs
<1> QED
  BY <1>1 DEF DeathInv

\* A death abandons one Job at most.
LEMMA OneMoreDeath ==
    ASSUME TypeInv, DeathInv, UNCHANGED <<row, jobs>>, crashes' = crashes + 1,
           NEW p, \A q \in Pairs \ {p} : Launched(q)' <=> Launched(q),
           \A q \in Pairs : Launched(q)' => Launched(q)
    PROVE  DeathInv'
<1>1. \A q \in Pairs : Abandoned(q)' = Abandoned(q) \/ Abandoned(q)' = Abandoned(q) + 1
  BY FieldTypes DEF Abandoned, Orphans
<1>2. crashes \in Nat /\ AbandonedPairs' \subseteq AbandonedPairs \cup {p}
  <2>1. \A q \in Pairs \ {p} : Abandoned(q)' = Abandoned(q)
    BY AbandonedSame
  <2> QED
    BY <2>1 DEF AbandonedPairs, TypeInv
<1>3. /\ IsFiniteSet(AbandonedPairs \cup {p})
      /\ Cardinality(AbandonedPairs \cup {p}) \in Nat
      /\ Cardinality(AbandonedPairs \cup {p}) <= crashes + 1
  <2> DEFINE W == AbandonedPairs
  <2>1. IsFiniteSet(W) /\ Cardinality(W) \in Nat /\ Cardinality(W) <= crashes
    BY FS_CardinalityType DEF DeathInv
  <2> HIDE DEF W
  <2>2. IsFiniteSet(W \cup {p}) /\ Cardinality(W \cup {p}) \in Nat
    BY <2>1, FS_AddElement, FS_CardinalityType
  <2>3. Cardinality(W \cup {p}) = IF p \in W THEN Cardinality(W) ELSE Cardinality(W) + 1
    BY <2>1, FS_AddElement
  <2> QED
    BY <1>2, <2>1, <2>2, <2>3 DEF W
<1>4. /\ IsFiniteSet(AbandonedPairs')
      /\ Cardinality(AbandonedPairs') <= Cardinality(AbandonedPairs \cup {p})
      /\ Cardinality(AbandonedPairs') \in Nat
  BY <1>2, <1>3, FS_Subset, FS_CardinalityType
<1>5. \A q \in Pairs : Abandoned(q)' \in 0 .. (crashes + 1)
  BY <1>1, <1>2 DEF DeathInv
<1> QED
  BY <1>2, <1>3, <1>4, <1>5 DEF DeathInv

\* A handler and the loop never launch for the same Reaction.
LEMMA LaunchesApart ==
    ASSUME TypeInv, ProgressInv, NEW s \in Signals, handler[s].at \in LaunchPhases,
           release.at # "rest"
    PROVE  release.of # <<s, handler[s].of>>
  BY DEF ProgressInv, LaunchingRows, ReleasingRow

LEMMA HandlerStepDeaths ==
    ASSUME TypeInv, ProgressInv, DeathInv, NEW s \in Signals, Deliver(s) \/ HandlerStep(s)
    PROVE  DeathInv'
<1>1. crashes' = crashes /\ release' = release
  BY DEF Deliver, Accept, HandlerStep, FindPending, SuppressPending, React, BeginLaunch,
         CommitJob, RefuseJob, LinkJob, FinishSignal
<1>2. ASSUME \A q \in Signals \ {s} : handler'[q] = handler[q], handler[s].at # "launched",
             handler'[s].at # "launched", jobs' = jobs,
             \A p \in Pairs : row'[p].job = 0 <=> row[p].job = 0
      PROVE  DeathInv'
  <2>1. \A p \in Pairs : Launched(p)' <=> Launched(p)
    BY <1>1, <1>2 DEF Launched, HandlerLaunched, LoopLaunched, Pairs
  <2>2. \A p \in Pairs : Abandoned(p)' = Abandoned(p)
    BY <1>2, <2>1, AbandonedSame
  <2> QED
    BY <1>1, <2>2, DeathsStay
<1>3. CASE Deliver(s)
  <2>1. handler[s].at = "none"
    BY <1>3 DEF Deliver, ProgressInv, HandlersInOrder
  <2> QED
    BY <1>2, <1>3, <2>1, DeliverHandler DEF Deliver, Accept, HandlerBecomes
<1>4. CASE FindPending(s)
  BY <1>2, <1>4, FindPendingHandler DEF FindPending, HandlerBecomes
<1>5. CASE SuppressPending(s)
  <2>1. PICK p \in Pairs :
              /\ HandlerMoves(s, IF handler[s].found = {p} THEN "reacting" ELSE "suppressing",
                              handler[s].of, handler[s].found \ {p})
              /\ RowBecomes(p, "recovered", row[p].created, None, row[p].job)
    BY <1>5, SuppressPendingHandler
  <2>2. \A q \in Pairs : row'[q].job = row[q].job
    BY <2>1 DEF RowBecomes
  <2> QED
    BY <1>2, <1>5, <2>1, <2>2 DEF SuppressPending, HandlerMoves, HandlerBecomes
<1>6. CASE React(s) \/ BeginLaunch(s)
  <2> DEFINE p == <<s, handler[s].of>>
  <2>1. handler[s].at = "reacting" /\ handler[s].of \in Reactors /\ jobs' = jobs
    BY <1>6, ReactRows, BeginLaunchRow DEF React, BeginLaunch
  <2>2. p \in Pairs /\ row[p].job = 0
    BY <2>1 DEF Pairs, ProgressInv, UnvisitedRows, Unvisited
  <2>3. row' = row \/ \E status, due : RowBecomes(p, status, now, due, 0)
    BY <1>6, ReactRows, BeginLaunchRow DEF ReactRow
  <2>4. \A q \in Pairs : row'[q].job = row[q].job
    BY <2>2, <2>3 DEF RowBecomes
  <2>5. /\ handler'[s].at # "launched"
        /\ \A q \in Signals \ {s} : handler'[q] = handler[q]
    BY <1>6, EndOfReactorHandler, BeginLaunchRow DEF React, HandlerMoves, HandlerBecomes
  <2> QED
    BY <1>2, <2>1, <2>4, <2>5
<1>7. CASE RefuseJob(s)
  BY <1>2, <1>7, EndOfReactorHandler DEF RefuseJob, HandlerMoves, HandlerBecomes
<1>8. CASE FinishSignal(s)
  BY <1>2, <1>8, EndedHandler DEF FinishSignal, HandlerBecomes
<1>9. CASE CommitJob(s) \/ LinkJob(s)
  <2>p. PICK p : p = <<s, handler[s].of>>
    OBVIOUS
  <2>1. handler[s].at \in LaunchPhases
    BY <1>9 DEF CommitJob, LinkJob, LaunchPhases
  <2>2. /\ p \in Pairs /\ p[1] = s /\ p[2] = handler[s].of /\ row[p].job = 0
        /\ jobs[p] \in Seq(JobStatuses)
        /\ ~ LoopLaunched(p)
    BY <2>p, <2>1, LaunchesApart
       DEF TypeInv, Pairs, LaunchPhases, ReactorPhases, ProgressInv, LaunchingRows, LoopLaunched
  <2>3. \A q \in Signals \ {s} : handler'[q] = handler[q]
    BY <1>9, EndOfReactorHandler, LaunchPhaseHandler
       DEF CommitJob, LinkJob, LaunchPhases, HandlerMoves, HandlerBecomes
  <2>4. \A q \in Pairs \ {p} : row'[q] = row[q] /\ jobs'[q] = jobs[q]
    BY <1>9, <2>p, <2>2, AppendedJob, LinkedRow DEF CommitJob, LinkJob, JobAppended, RowBecomes
  <2>5. ASSUME NEW q \in Pairs \ {p}
        PROVE  Abandoned(q)' = Abandoned(q)
    <3>1. q[1] = s => ~ HandlerLaunched(q)' /\ ~ HandlerLaunched(q)
      <4> SUFFICES ASSUME q[1] = s PROVE ~ HandlerLaunched(q)' /\ ~ HandlerLaunched(q)
        OBVIOUS
      <4>1. q[2] # handler[s].of
        BY <2>p, <2>2 DEF Pairs
      <4>2. handler'[s].at = "launched" => handler'[s].of = handler[s].of
        BY <1>9, <2>1, EndOfReactorHandler, LaunchPhaseHandler
           DEF CommitJob, LinkJob, LaunchPhases, HandlerMoves, HandlerBecomes
      <4> QED
        BY <4>1, <4>2 DEF HandlerLaunched
    <3>2. q[1] \in Signals
      BY DEF Pairs
    <3>3. Launched(q)' <=> Launched(q)
      BY <1>1, <2>3, <3>1, <3>2 DEF Launched, HandlerLaunched, LoopLaunched
    <3> QED
      BY <2>4, <3>3, AbandonedSame
  <2>6. Abandoned(p)' = Abandoned(p)
    <3>1. ~ LoopLaunched(p)'
      BY <1>1, <2>2 DEF LoopLaunched
    <3>2. CASE CommitJob(s)
      <4>1. /\ handler[s].at = "launching" /\ handler'[s].at = "launched"
            /\ handler'[s].of = handler[s].of /\ row' = row
        BY <3>2, LaunchPhaseHandler DEF CommitJob, LaunchPhases, HandlerMoves, HandlerBecomes
      <4>2. jobs'[p] = Append(jobs[p], "queued")
        BY <2>p, <2>2, <3>2, AppendedJob DEF CommitJob, JobAppended
      <4>3. Len(jobs'[p]) = Len(jobs[p]) + 1 /\ Len(jobs[p]) \in Nat
        BY <2>2, <4>2
      <4>4. Launched(p)' /\ ~ Launched(p)
        BY <2>2, <4>1 DEF Launched, HandlerLaunched
      <4> QED
        BY <4>1, <4>3, <4>4 DEF Abandoned, Orphans
    <3>3. CASE LinkJob(s)
      <4>1. handler[s].at = "launched" /\ handler'[s].at = "evaluating" /\ jobs' = jobs
        BY <3>3, EndOfReactorHandler DEF LinkJob, HandlerMoves, HandlerBecomes
      <4>2. Launched(p) /\ ~ Launched(p)'
        BY <2>2, <3>1, <4>1 DEF Launched, HandlerLaunched
      <4>3. row'[p].job = Len(jobs[p]) /\ Len(jobs[p]) \in Nat
        BY <2>p, <2>2, <3>3, LinkedRow DEF LinkJob, RowBecomes
      <4>4. Len(jobs[p]) # 0
        <5>1. Abandoned(p) >= 0 /\ crashes \in Nat
          BY <2>2 DEF DeathInv, TypeInv
        <5> QED
          BY <2>2, <4>2, <4>3, <5>1 DEF Abandoned, Orphans
      <4> QED
        BY <2>2, <4>1, <4>2, <4>3, <4>4 DEF Abandoned, Orphans
    <3> QED
      BY <1>9, <3>2, <3>3
  <2> QED
    BY <1>1, <2>5, <2>6, DeathsStay
<1> QED
  BY <1>3, <1>4, <1>5, <1>6, <1>7, <1>8, <1>9 DEF HandlerStep

LEMMA DyingDeaths ==
    ASSUME TypeInv, DeathInv, CrashRunner \/ \E s \in Signals : LoseHandler(s)
    PROVE  DeathInv'
<1>1. ASSUME NEW s \in Signals, LoseHandler(s)
      PROVE  DeathInv'
  <2>1. /\ crashes' = crashes + 1 /\ UNCHANGED <<row, jobs, release>>
        /\ HandlerBecomes(s, "none", 0, {}, NoReactor, {}, {})
    BY <1>1, EndedHandler DEF LoseHandler
  <2>2. handler'[s].at = "none" /\ \A q \in Signals \ {s} : handler'[q] = handler[q]
    BY <2>1 DEF HandlerBecomes
  <2>3. PICK p : p = <<s, handler[s].of>>
    OBVIOUS
  <2>4. \A q \in Pairs : q # p => (HandlerLaunched(q)' <=> HandlerLaunched(q))
    BY <2>2, <2>3 DEF HandlerLaunched, Pairs
  <2>5. \A q \in Pairs : HandlerLaunched(q)' => HandlerLaunched(q)
    BY <2>2 DEF HandlerLaunched, Pairs
  <2>6. /\ \A q \in Pairs \ {p} : Launched(q)' <=> Launched(q)
        /\ \A q \in Pairs : Launched(q)' => Launched(q)
    BY <2>1, <2>4, <2>5 DEF Launched, LoopLaunched
  <2> QED
    BY <2>1, <2>6, OneMoreDeath
<1>2. CASE CrashRunner
  <2>1. /\ crashes' = crashes + 1 /\ UNCHANGED <<row, jobs, handler>> /\ release'.at = "rest"
    BY <1>2 DEF CrashRunner, AtRest
  <2>2. PICK p : p = release.of
    OBVIOUS
  <2>3. /\ \A q \in Pairs \ {p} : Launched(q)' <=> Launched(q)
        /\ \A q \in Pairs : Launched(q)' => Launched(q)
    BY <2>1, <2>2 DEF Launched, LoopLaunched, HandlerLaunched
  <2> QED
    BY <2>1, <2>3, OneMoreDeath
<1> QED
  BY <1>1, <1>2

LEMMA LoopDeaths ==
    ASSUME TypeInv, ProgressInv, DeathInv,
           \/ Tick \/ ReleaseStep
           \/ \E p \in Pairs : AdvanceJob(p)
           \/ \E r \in Reactors : EditReactor(r)
    PROVE  DeathInv'
<1>1. handler' = handler /\ crashes' = crashes
  BY DEF Tick, ReleaseStep, SuppressDue, BeginRelease, ReleaseJob, FailRelease, LinkReleased,
         AdvanceJob, EditReactor
<1>2. ASSUME \A p \in Pairs : row'[p].job = row[p].job,
             \A p \in Pairs : Len(jobs'[p]) = Len(jobs[p]),
             \/ release' = release
             \/ release.at # "launched" /\ release'.at # "launched"
      PROVE  DeathInv'
  <2>1. \A p \in Pairs : Launched(p)' <=> Launched(p)
    BY <1>1, <1>2 DEF Launched, HandlerLaunched, LoopLaunched
  <2>2. \A p \in Pairs : Abandoned(p)' = Abandoned(p)
    BY <1>2, <2>1, AbandonedSame
  <2> QED
    BY <1>1, <2>2, DeathsStay
<1>3. CASE Tick \/ \E r \in Reactors : EditReactor(r)
  <2>1. UNCHANGED <<row, jobs, release>>
    BY <1>3 DEF Tick, EditReactor
  <2> QED
    BY <1>2, <2>1
<1>4. ASSUME NEW p \in Pairs, BeginRelease(p)
      PROVE  DeathInv'
  BY <1>2, <1>4 DEF BeginRelease
<1>5. ASSUME NEW p \in Pairs, SuppressDue(p)
      PROVE  DeathInv'
  <2>1. \A q \in Pairs : row'[q].job = row[q].job
    BY <1>5, SuppressedDue DEF RowBecomes
  <2>2. jobs' = jobs /\ release' = release
    BY <1>5 DEF SuppressDue
  <2> QED
    BY <1>2, <2>1, <2>2
<1>6. CASE FailRelease
  <2>1. \A q \in Pairs : row'[q].job = row[q].job
    BY <1>6, FailedRelease DEF RowBecomes
  <2>2. jobs' = jobs /\ release.at = "launching" /\ release'.at = "rest"
    BY <1>6 DEF FailRelease, AtRest
  <2> QED
    BY <1>2, <2>1, <2>2
<1>7. ASSUME NEW p \in Pairs, AdvanceJob(p)
      PROVE  DeathInv'
  <2>1. PICK i, next : JobAdvanced(p, i, next)
    BY <1>7, AdvancedJob
  <2>2. \A q \in Pairs : row'[q].job = row[q].job
    BY <2>1 DEF JobAdvanced, RowBecomes
  <2>3. \A q \in Pairs : Len(jobs'[q]) = Len(jobs[q])
    BY <2>1 DEF JobAdvanced
  <2>4. release' = release
    BY <1>7 DEF AdvanceJob
  <2> QED
    BY <1>2, <2>2, <2>3, <2>4
<1>8. CASE ReleaseJob \/ LinkReleased
  <2>1. PICK p : p = release.of
    OBVIOUS
  <2>2. /\ p \in Pairs /\ row[p].job = 0 /\ jobs[p] \in Seq(JobStatuses)
        /\ release.at \in LaunchPhases /\ release.at # "rest"
    BY <1>8, <2>1 DEF TypeInv, ReleaseJob, LinkReleased, ProgressInv, ReleasingRow, LaunchPhases
  <2>3. ~ HandlerLaunched(p) /\ ~ HandlerLaunched(p)'
    <3>1. \A s \in Signals : handler[s].at \in LaunchPhases => p # <<s, handler[s].of>>
      BY <2>1, <2>2, LaunchesApart
    <3> QED
      BY <1>1, <2>2, <3>1 DEF HandlerLaunched, Pairs, LaunchPhases
  <2>4. \A q \in Pairs \ {p} : row'[q] = row[q] /\ jobs'[q] = jobs[q]
    BY <1>8, <2>1, <2>2, AppendedJob, LinkedRow DEF ReleaseJob, LinkReleased, JobAppended, RowBecomes
  <2>5. release'.at = "rest" \/ release'.of = p
    BY <1>8, <2>1 DEF ReleaseJob, LinkReleased, AtRest, TypeInv, Releases
  <2>6. \A q \in Pairs \ {p} : Abandoned(q)' = Abandoned(q)
    <3>1. \A q \in Pairs \ {p} : Launched(q)' <=> Launched(q)
      BY <1>1, <2>1, <2>5 DEF Launched, HandlerLaunched, LoopLaunched
    <3>2. \A q \in Pairs \ {p} :
             /\ row'[q].job = 0 <=> row[q].job = 0
             /\ Len(jobs'[q]) = Len(jobs[q])
      BY <2>4
    <3> QED
      BY <3>1, <3>2, AbandonedSame
  <2>7. Abandoned(p)' = Abandoned(p)
    <3>1. CASE ReleaseJob
      <4>1. /\ release.at = "launching" /\ release'.at = "launched"
            /\ release'.of = p /\ row' = row
        BY <2>1, <3>1 DEF ReleaseJob, TypeInv, Releases
      <4>2. jobs'[p] = Append(jobs[p], "queued")
        BY <2>1, <2>2, <3>1, AppendedJob DEF ReleaseJob, JobAppended
      <4>3. Len(jobs'[p]) = Len(jobs[p]) + 1 /\ Len(jobs[p]) \in Nat
        BY <2>2, <4>2
      <4>4. Launched(p)' /\ ~ Launched(p)
        BY <2>3, <4>1 DEF Launched, LoopLaunched
      <4> QED
        BY <4>1, <4>3, <4>4 DEF Abandoned, Orphans
    <3>2. CASE LinkReleased
      <4>1. release.at = "launched" /\ release'.at = "rest" /\ jobs' = jobs
        BY <3>2 DEF LinkReleased, AtRest
      <4>2. Launched(p) /\ ~ Launched(p)'
        BY <2>1, <2>3, <4>1 DEF Launched, LoopLaunched
      <4>3. row'[p].job = Len(jobs[p]) /\ Len(jobs[p]) \in Nat
        BY <2>1, <2>2, <3>2, LinkedRow DEF LinkReleased, RowBecomes
      <4>4. Len(jobs[p]) # 0
        <5>1. Abandoned(p) >= 0 /\ crashes \in Nat
          BY <2>2 DEF DeathInv, TypeInv
        <5> QED
          BY <2>2, <4>2, <4>3, <5>1 DEF Abandoned, Orphans
      <4> QED
        BY <2>2, <4>1, <4>2, <4>3, <4>4 DEF Abandoned, Orphans
    <3> QED
      BY <1>8, <3>1, <3>2
  <2> QED
    BY <1>1, <2>6, <2>7, DeathsStay
<1> QED
  BY <1>3, <1>4, <1>5, <1>6, <1>7, <1>8 DEF ReleaseStep

LEMMA DeathsKept == TypeInv /\ ProgressInv /\ DeathInv /\ [Next]_vars => DeathInv'
<1> SUFFICES ASSUME TypeInv, ProgressInv, DeathInv, [Next]_vars
             PROVE  DeathInv'
  OBVIOUS
<1>1. CASE UNCHANGED vars
  <2>1. \A p \in Pairs : Abandoned(p)' = Abandoned(p)
    BY <1>1 DEF vars, Abandoned, Orphans, Launched, HandlerLaunched, LoopLaunched
  <2>2. crashes' = crashes
    BY <1>1 DEF vars
  <2> QED
    BY <2>1, <2>2, DeathsStay
<1> QED
  BY <1>1, HandlerStepDeaths, DyingDeaths, LoopDeaths DEF Next

LEMMA InitDeaths == Init => DeathInv
<1> SUFFICES ASSUME Init PROVE DeathInv
  OBVIOUS
<1>1. \A p \in Pairs : Abandoned(p) = 0
  BY DEF Init, Abandoned, Orphans, Launched, HandlerLaunched, LoopLaunched, NoHandler, NoRow, AtRest,
         Pairs
<1>2. AbandonedPairs = {}
  BY <1>1 DEF AbandonedPairs
<1> QED
  BY <1>1, <1>2, FS_EmptySet DEF DeathInv, Init

LEMMA DeathsExplainJobs == TypeInv /\ DeathInv => UnknownJobsComeFromDeaths
<1> SUFFICES ASSUME TypeInv, DeathInv PROVE UnknownJobsComeFromDeaths
  OBVIOUS
<1> DEFINE known == {p \in Pairs : Orphans(p) > 0}
           launching == {s \in Signals : handler[s].at = "launched"}
           byHandler == {p \in Pairs : HandlerLaunched(p)}
           byLoop == {p \in Pairs : LoopLaunched(p)}
           k == IF release.at = "launched" THEN 1 ELSE 0
<1>1. \A p \in Pairs : Orphans(p) <= crashes + 1
  BY FieldTypes DEF DeathInv, Abandoned, Orphans, TypeInv
<1>2. known \subseteq (AbandonedPairs \cup byHandler) \cup byLoop
  <2>1. \A p \in Pairs : Orphans(p) \in Int
    BY FieldTypes DEF Orphans
  <2>2. \A p \in Pairs : Abandoned(p) = 0 /\ ~ Launched(p) => Orphans(p) = 0
    BY <2>1 DEF Abandoned
  <2> QED
    BY <2>2 DEF AbandonedPairs, Launched
<1>3. /\ IsFiniteSet(byHandler) /\ Cardinality(byHandler) \in Nat
      /\ Cardinality(launching) \in Nat /\ Cardinality(byHandler) <= Cardinality(launching)
  <2>1. IsFiniteSet(launching)
    BY ReactionAssumption, FS_Subset
  <2> DEFINE f == [s \in launching |-> <<s, handler[s].of>>]
  <2>2. f \in Surjection(launching, byHandler)
    <3>1. \A s \in launching : <<s, handler[s].of>> \in byHandler
      BY DEF HandlerLaunched, Pairs, TypeInv, ReactorPhases
    <3>2. \A p \in byHandler : p[1] \in launching /\ p = <<p[1], handler[p[1]].of>>
      BY DEF HandlerLaunched, Pairs
    <3> HIDE DEF launching, byHandler
    <3>3. f \in [launching -> byHandler] /\ \A p \in byHandler : \E s \in launching : f[s] = p
      BY <3>1, <3>2
    <3> QED
      BY <3>3 DEF Surjection
  <2> HIDE DEF f, launching, byHandler
  <2> QED
    BY <2>1, <2>2, FS_Surjection, FS_CardinalityType
<1>4. IsFiniteSet(byLoop) /\ Cardinality(byLoop) \in Nat /\ Cardinality(byLoop) <= k
  <2>1. CASE release.at = "launched"
    <3>1. byLoop \subseteq {release.of}
      BY DEF LoopLaunched
    <3> HIDE DEF byLoop
    <3>2. IsFiniteSet({release.of}) /\ Cardinality({release.of}) = 1
      BY FS_Singleton
    <3> QED
      BY <2>1, <3>1, <3>2, FS_Subset, FS_CardinalityType
  <2>2. CASE release.at # "launched"
    <3>1. byLoop = {}
      BY <2>2 DEF LoopLaunched
    <3> HIDE DEF byLoop
    <3> QED
      BY <2>2, <3>1, FS_EmptySet
  <2> QED
    BY <2>1, <2>2
<1>5. /\ IsFiniteSet(AbandonedPairs) /\ Cardinality(AbandonedPairs) \in Nat
      /\ Cardinality(AbandonedPairs) <= crashes /\ crashes \in Nat
  BY FS_CardinalityType DEF DeathInv, TypeInv
<1> HIDE DEF known, launching, byHandler, byLoop
<1>6. /\ IsFiniteSet(AbandonedPairs \cup byHandler)
      /\ Cardinality(AbandonedPairs \cup byHandler) \in Nat
      /\ Cardinality(AbandonedPairs \cup byHandler) <= crashes + Cardinality(launching)
  <2> DEFINE W == AbandonedPairs
  <2>1. IsFiniteSet(W) /\ Cardinality(W) \in Nat /\ Cardinality(W) <= crashes /\ crashes \in Nat
    BY <1>5
  <2> HIDE DEF W
  <2>2. Cardinality(W \cap byHandler) \in Nat
    BY <2>1, FS_Subset, FS_CardinalityType
  <2>3. /\ IsFiniteSet(W \cup byHandler)
        /\ Cardinality(W \cup byHandler)
              = Cardinality(W) + Cardinality(byHandler) - Cardinality(W \cap byHandler)
    BY <1>3, <2>1, FS_Union
  <2>4. Cardinality(W \cup byHandler) \in Nat
    BY <2>3, FS_CardinalityType
  <2>5. Cardinality(W \cup byHandler) <= crashes + Cardinality(launching)
    BY <1>3, <2>1, <2>2, <2>3
  <2> QED
    BY <2>3, <2>4, <2>5 DEF W
<1>7. Cardinality(known) <= crashes + Cardinality(launching) + k
  <2> DEFINE U == AbandonedPairs \cup byHandler
  <2>1. Cardinality(U \cap byLoop) \in Nat
    BY <1>4, FS_Subset, FS_CardinalityType
  <2>2. IsFiniteSet(U) /\ Cardinality(U) \in Nat /\ Cardinality(U) <= crashes + Cardinality(launching)
    BY <1>6
  <2>3. known \subseteq U \cup byLoop
    BY <1>2
  <2> HIDE DEF U
  <2>4. /\ IsFiniteSet(U \cup byLoop)
        /\ Cardinality(U \cup byLoop) = Cardinality(U) + Cardinality(byLoop) - Cardinality(U \cap byLoop)
    BY <1>4, <2>2, FS_Union
  <2>5. Cardinality(known) <= Cardinality(U \cup byLoop) /\ Cardinality(known) \in Nat
    BY <2>3, <2>4, FS_Subset, FS_CardinalityType
  <2>6. k \in Nat
    OBVIOUS
  <2> HIDE DEF k
  <2> QED
    BY <1>3, <1>4, <1>5, <2>1, <2>2, <2>4, <2>5, <2>6
<1> QED
  BY <1>1, <1>7 DEF UnknownJobsComeFromDeaths, known, launching

\* A Job that no Reaction knows comes from a worker or runner that died between
\* the commit of the Job and of its link, or one is just there (_queue_reaction).
THEOREM OnlyDeathsLoseJobs == Spec => []UnknownJobsComeFromDeaths
<1>1. Init => DeathInv
  BY InitDeaths
<1> QED
  BY <1>1, DeathsKept, DeathsExplainJobs, ReactionsInvariant, PTL DEF Spec

-----------------------------------------------------------------------------
(* RecoveryInTimeWins.                                                     *)

Releasing(p) == release.at # "rest" /\ release.of = p

\* All that may happen to the row of p.
RowStep(p) ==
    \/ row'[p] = row[p]
    \/ row[p].status = "none" /\ row'[p].status # "none"
    \/ /\ row'[p].created = row[p].created
       /\ row[p].status # "none" /\ row'[p].status # "none"
       /\ \/ row'[p].status = "recovered"
          \/ row[p].status = "pending" /\ row[p].due <= now
          \/ Releasing(p)
          \/ row[p].status = "failed" /\ Window[p[2]] = 0
          \/ jobs[p] # <<>>

\* All that may happen to its Jobs.
JobStep(p) ==
    \/ jobs'[p] = jobs[p]
    \/ jobs[p] # <<>>
    \/ Window[p[2]] = 0
    \/ Releasing(p)

\* What the loop may take up.
LoopStep(p) ==
    Releasing(p)' => \/ Releasing(p)
                     \/ row[p].status = "pending" /\ row[p].due <= now

LEMMA HandlerRowSteps ==
    ASSUME TypeInv, ProgressInv, NEW s \in Signals,
           Deliver(s) \/ HandlerStep(s) \/ LoseHandler(s), NEW p \in Pairs
    PROVE  RowStep(p) /\ JobStep(p) /\ LoopStep(p)
<1>1. LoopStep(p)
  <2>1. release' = release
    BY DEF Deliver, Accept, HandlerStep, FindPending, SuppressPending, React, BeginLaunch,
           CommitJob, RefuseJob, LinkJob, FinishSignal, LoseHandler
  <2> QED
    BY <2>1 DEF LoopStep, Releasing
<1>2. CASE Deliver(s) \/ FindPending(s) \/ RefuseJob(s) \/ FinishSignal(s) \/ LoseHandler(s)
  <2>1. row' = row /\ jobs' = jobs
    BY <1>2 DEF Deliver, Accept, FindPending, RefuseJob, FinishSignal, LoseHandler
  <2> QED
    BY <1>1, <2>1 DEF RowStep, JobStep
<1>3. CASE SuppressPending(s)
  <2>1. jobs' = jobs
    BY <1>3 DEF SuppressPending
  <2>2. PICK q \in handler[s].found :
              q \in Pairs /\ RowBecomes(q, "recovered", row[q].created, None, row[q].job)
    BY <1>3, SuppressPendingHandler
  <2>3. row[q].status # "none"
    BY <2>2 DEF ProgressInv, FoundRows
  <2> QED
    BY <1>1, <2>1, <2>2, <2>3 DEF RowStep, JobStep, RowBecomes
<1>4. CASE React(s) \/ BeginLaunch(s)
  <2> DEFINE q == <<s, handler[s].of>>
  <2>1. handler[s].at = "reacting" /\ handler[s].of \in Reactors /\ jobs' = jobs
    BY <1>4, ReactRows, BeginLaunchRow DEF React, BeginLaunch
  <2>2. q \in Pairs /\ row[q].status = "none"
    BY <2>1 DEF Pairs, ProgressInv, UnvisitedRows, Unvisited
  <2>3. \/ row' = row
        \/ \E status, due : status # "none" /\ RowBecomes(q, status, now, due, 0)
    BY <1>4, ReactRows, BeginLaunchRow DEF ReactRow
  <2> HIDE DEF q
  <2> QED
    BY <1>1, <2>1, <2>2, <2>3 DEF RowStep, JobStep, RowBecomes
<1>5. CASE CommitJob(s) \/ LinkJob(s)
  <2> DEFINE q == <<s, handler[s].of>>
  <2>1. handler[s].at \in LaunchPhases
    BY <1>5 DEF CommitJob, LinkJob, LaunchPhases
  <2>2. q \in Pairs /\ row[q].status = "failed" /\ Window[q[2]] = 0
    BY <2>1 DEF TypeInv, Pairs, LaunchPhases, ReactorPhases, ProgressInv, LaunchingRows
  <2>3. \/ jobs' = jobs /\ RowBecomes(q, "queued", row[q].created, None, Len(jobs[q]))
        \/ row' = row /\ JobAppended(q)
    BY <1>5, <2>2, AppendedJob, LinkedRow DEF CommitJob, LinkJob
  <2> HIDE DEF q
  <2> QED
    BY <1>1, <2>2, <2>3 DEF RowStep, JobStep, RowBecomes, JobAppended
<1> QED
  BY <1>2, <1>3, <1>4, <1>5 DEF HandlerStep

LEMMA OtherRowSteps ==
    ASSUME TypeInv, ProgressInv,
           \/ Tick \/ ReleaseStep \/ CrashRunner
           \/ \E p \in Pairs : AdvanceJob(p)
           \/ \E r \in Reactors : EditReactor(r),
           NEW p \in Pairs
    PROVE  RowStep(p) /\ JobStep(p) /\ LoopStep(p)
<1>1. CASE Tick \/ CrashRunner \/ \E r \in Reactors : EditReactor(r)
  <2>1. row' = row /\ jobs' = jobs /\ (release' = release \/ release'.at = "rest")
    BY <1>1 DEF Tick, CrashRunner, EditReactor, AtRest
  <2> QED
    BY <2>1 DEF RowStep, JobStep, LoopStep, Releasing
<1>2. ASSUME NEW q \in Pairs, SuppressDue(q) \/ BeginRelease(q)
      PROVE  RowStep(p) /\ JobStep(p) /\ LoopStep(p)
  <2>1. row[q].status = "pending" /\ row[q].due <= now /\ jobs' = jobs
    BY <1>2 DEF SuppressDue, BeginRelease, Due
  <2>2. /\ row' = row \/ RowBecomes(q, "suppressed", row[q].created, None, row[q].job)
        /\ release' = release \/ release'.of = q
    BY <1>2, SuppressedDue DEF SuppressDue, BeginRelease
  <2> QED
    BY <2>1, <2>2 DEF RowStep, JobStep, LoopStep, Releasing, RowBecomes
<1>3. CASE ReleaseJob \/ FailRelease \/ LinkReleased
  <2>1. release.of \in Pairs /\ release.at # "rest"
    BY <1>3 DEF ReleaseJob, FailRelease, LinkReleased, TypeInv
  <2>2. row[release.of].status # "none"
    BY <2>1 DEF ProgressInv, ReleasingRow
  <2>3. \/ row' = row
        \/ \E status, job : /\ status # "none"
                            /\ RowBecomes(release.of, status, row[release.of].created, None, job)
    BY <1>3, <2>1, FailedRelease, LinkedRow DEF ReleaseJob, LinkReleased
  <2>4. \A q \in Pairs \ {release.of} : jobs'[q] = jobs[q]
    BY <1>3, <2>1, AppendedJob DEF ReleaseJob, FailRelease, LinkReleased, JobAppended
  <2>5. release'.at = "rest" \/ release'.of = release.of
    BY <1>3 DEF ReleaseJob, FailRelease, LinkReleased, AtRest, TypeInv, Releases
  <2> QED
    BY <2>1, <2>2, <2>3, <2>4, <2>5 DEF RowStep, JobStep, LoopStep, Releasing, RowBecomes
<1>4. ASSUME NEW q \in Pairs, AdvanceJob(q)
      PROVE  RowStep(p) /\ JobStep(p) /\ LoopStep(p)
  <2>1. PICK i, next : JobAdvanced(q, i, next)
    BY <1>4, AdvancedJob
  <2>2. release' = release
    BY <1>4 DEF AdvanceJob
  <2>3. jobs[q] # <<>>
    BY <2>1 DEF JobAdvanced, TypeInv
  <2>4. row[q].status # "none" /\ next # "none"
    BY <2>1, <2>3 DEF ProgressInv, UnvisitedRows, JobAdvanced
  <2>5. \A t \in Pairs \ {q} : jobs'[t] = jobs[t] /\ row'[t] = row[t]
    BY <2>1 DEF JobAdvanced, RowBecomes
  <2>6. \/ row'[q] = row[q]
        \/ row'[q].status # "none" /\ row'[q].created = row[q].created
    BY <2>1, <2>4 DEF JobAdvanced, RowBecomes
  <2> QED
    BY <2>2, <2>3, <2>4, <2>5, <2>6 DEF RowStep, JobStep, LoopStep, Releasing
<1> QED
  BY <1>1, <1>2, <1>3, <1>4 DEF ReleaseStep

LEMMA RowSteps ==
    ASSUME TypeInv, ProgressInv, [Next]_vars
    PROVE  /\ \A p \in Pairs : RowStep(p) /\ JobStep(p) /\ LoopStep(p)
           /\ now' >= now /\ now' \in Nat /\ edited \subseteq edited'
<1>1. \A p \in Pairs : RowStep(p) /\ JobStep(p) /\ LoopStep(p)
  <2>1. CASE UNCHANGED vars
    BY <2>1 DEF vars, RowStep, JobStep, LoopStep, Releasing
  <2> QED
    BY <2>1, HandlerRowSteps, OtherRowSteps DEF Next
<1>2. now \in Nat /\ (now' = now \/ now' = now + 1)
  BY DEF TypeInv, Next, vars, Tick, ReleaseStep, CrashRunner, Deliver, Accept, HandlerStep, LoseHandler,
         FindPending, SuppressPending, React, BeginLaunch, CommitJob, RefuseJob, LinkJob, FinishSignal,
         SuppressDue, BeginRelease, ReleaseJob, FailRelease, LinkReleased, AdvanceJob, EditReactor
<1>3. edited \subseteq edited'
  BY DEF Next, vars, Tick, ReleaseStep, CrashRunner, Deliver, Accept, HandlerStep, LoseHandler,
         FindPending, SuppressPending, React, BeginLaunch, CommitJob, RefuseJob, LinkJob, FinishSignal,
         SuppressDue, BeginRelease, ReleaseJob, FailRelease, LinkReleased, AdvanceJob, EditReactor
<1> QED
  BY <1>1, <1>2, <1>3

Deadline(p) == row[p].created + Window[p[2]]

AutomaticModes == \A r \in Reactors \ edited : mode[r] = "automatic"

\* No Job is released before the window of its Reaction has ended.
LateJobs ==
    \A p \in Pairs :
        Releasing(p) \/ (Window[p[2]] > 0 /\ jobs[p] # <<>>) => Deadline(p) <= now

\* What was pending when s was accepted, it found in time.
PendingKnown ==
    \A s \in Signals : \A p \in handler[s].pending :
        /\ Window[p[2]] > 0 /\ row[p].status # "none"
        /\ row[p].created <= handler[s].received /\ handler[s].received <= now

\* s recovers p, and its window has not ended.
InTime(s, p) == <<s, p[1]>> \in Recovers /\ p[2] \notin edited /\ now < Deadline(p)

\* The request that evaluates s has yet to come to p.
Ahead(s, p) ==
    \/ p[2] \in handler[s].todo
    \/ handler[s].at = "suppressing" /\ handler[s].of = p[2] /\ p \in handler[s].found

Recovering ==
    \A s \in Signals : \A p \in handler[s].pending :
        InTime(s, p) => \/ row[p].status = "recovered"
                        \/ row[p].status = "pending" /\ Ahead(s, p)

\* It settled p for good.
SavedRows ==
    \A p \in saved : p[2] \notin edited =>
        /\ row[p].status = "recovered" /\ Window[p[2]] > 0 /\ jobs[p] = <<>>
        /\ ~ Releasing(p)

RecoveryInv == AutomaticModes /\ LateJobs /\ PendingKnown /\ Recovering /\ SavedRows

LEMMA NumberTypes ==
    ASSUME TypeInv
    PROVE  /\ now \in Nat
           /\ \A p \in Pairs : row[p].created \in Nat /\ Window[p[2]] \in Nat /\ Deadline(p) \in Nat
           /\ \A s \in Signals : handler[s].received \in Nat /\ handler[s].pending \subseteq Pairs
<1>1. \A p \in Pairs : Window[p[2]] \in Nat
  BY ReactionAssumption DEF Pairs
<1> QED
  BY <1>1, FieldTypes DEF TypeInv, Deadline

\* A pending Reaction whose time has come is past its deadline.
LEMMA DueIsLate ==
    ASSUME TypeInv, ProgressInv, NEW p \in Pairs, row[p].status = "pending", row[p].due <= now
    PROVE  Deadline(p) <= now
  BY DEF ProgressInv, PendingRows, Deadline

\* A row that exists keeps its deadline.
LEMMA DeadlineStays ==
    ASSUME NEW p \in Pairs, RowStep(p), row[p].status # "none"
    PROVE  Deadline(p)' = Deadline(p) /\ row'[p].status # "none" /\ row'[p].created = row[p].created
  BY DEF RowStep, Deadline

LEMMA LateJobsKept ==
    ASSUME TypeInv, ProgressInv, RecoveryInv, [Next]_vars
    PROVE  LateJobs'
<1> SUFFICES ASSUME NEW p \in Pairs, \/ Releasing(p)'
                                     \/ Window[p[2]] > 0 /\ jobs'[p] # <<>>
             PROVE  Deadline(p)' <= now'
  BY DEF LateJobs
<1>1. /\ RowStep(p) /\ JobStep(p) /\ LoopStep(p)
      /\ now' >= now /\ now' \in Nat /\ now \in Nat /\ Deadline(p) \in Nat
  BY RowSteps, NumberTypes
<1>2. /\ row[p].status # "none" /\ Deadline(p) <= now
  <2>1. row[p].status = "none" => jobs[p] = <<>> /\ ~ Releasing(p)
    BY DEF ProgressInv, UnvisitedRows, ReleasingRow, Releasing
  <2>2. CASE Releasing(p)
    BY <2>1, <2>2 DEF RecoveryInv, LateJobs
  <2>3. CASE ~ Releasing(p) /\ Releasing(p)'
    BY <1>1, <2>3, DueIsLate DEF LoopStep
  <2>4. CASE ~ Releasing(p) /\ ~ Releasing(p)'
    <3>1. Window[p[2]] > 0 /\ jobs[p] # <<>>
      BY <1>1, <2>4 DEF JobStep
    <3> QED
      BY <2>1, <3>1 DEF RecoveryInv, LateJobs
  <2> QED
    BY <2>2, <2>3, <2>4
<1> QED
  BY <1>1, <1>2, DeadlineStays

\* A Reaction that is settled, or whose window has not ended, stays until a
\* recovery Signal settles it.
LEMMA HeldRowStays ==
    ASSUME TypeInv, ProgressInv, [Next]_vars, NEW p \in Pairs, Window[p[2]] > 0, jobs[p] = <<>>,
           ~ Releasing(p),
           \/ row[p].status = "recovered"
           \/ row[p].status = "pending" /\ now < Deadline(p)
    PROVE  /\ row'[p].status = row[p].status \/ row'[p].status = "recovered"
           /\ jobs'[p] = <<>> /\ ~ Releasing(p)'
<1>1. /\ RowStep(p) /\ JobStep(p) /\ LoopStep(p)
      /\ now \in Nat /\ Deadline(p) \in Nat
  BY RowSteps, NumberTypes
<1>2. ~ (row[p].status = "pending" /\ row[p].due <= now)
  BY <1>1, DueIsLate
<1> QED
  BY <1>1, <1>2 DEF RowStep, JobStep, LoopStep

\* The handlers of s: what it does with what it has read.
LEMMA HandlerKnows ==
    ASSUME TypeInv, ProgressInv, [Next]_vars, NEW s \in Signals
    PROVE  \/ Deliver(s)
           \/ handler'[s].pending = {}
           \/ /\ handler'[s].pending = handler[s].pending
              /\ handler'[s].received = handler[s].received
<1>1. CASE handler' = handler
  BY <1>1
<1>2. ASSUME NEW q \in Signals, Deliver(q) \/ HandlerStep(q) \/ LoseHandler(q)
      PROVE  \/ Deliver(s)
             \/ handler'[s].pending = {}
             \/ /\ handler'[s].pending = handler[s].pending
                /\ handler'[s].received = handler[s].received
  <2>1. CASE Deliver(q)
    BY <2>1, DeliverHandler DEF HandlerBecomes
  <2>2. CASE FindPending(q)
    BY <2>2, FindPendingHandler DEF HandlerBecomes
  <2>3. CASE SuppressPending(q)
    BY <2>3, SuppressPendingHandler DEF HandlerMoves, HandlerBecomes
  <2>4. CASE React(q) \/ RefuseJob(q) \/ LinkJob(q)
    BY <2>4, EndOfReactorHandler DEF React, RefuseJob, LinkJob, HandlerMoves, HandlerBecomes
  <2>5. CASE BeginLaunch(q) \/ CommitJob(q)
    BY <2>5, BeginLaunchRow, LaunchPhaseHandler
       DEF CommitJob, LaunchPhases, HandlerMoves, HandlerBecomes
  <2>6. CASE FinishSignal(q) \/ LoseHandler(q)
    BY <2>6, EndedHandler DEF FinishSignal, LoseHandler, HandlerBecomes
  <2> QED
    BY <1>2, <2>1, <2>2, <2>3, <2>4, <2>5, <2>6 DEF HandlerStep
<1>3. CASE \/ UNCHANGED vars \/ Tick \/ ReleaseStep \/ CrashRunner
           \/ \E p \in Pairs : AdvanceJob(p)
           \/ \E r \in Reactors : EditReactor(r)
  BY <1>1, <1>3 DEF vars, Tick, ReleaseStep, SuppressDue, BeginRelease, ReleaseJob, FailRelease,
                    LinkReleased, CrashRunner, AdvanceJob, EditReactor
<1> QED
  BY <1>2, <1>3 DEF Next

LEMMA PendingKnownKept ==
    ASSUME TypeInv, ProgressInv, RecoveryInv, [Next]_vars
    PROVE  PendingKnown'
<1> SUFFICES ASSUME NEW s \in Signals, NEW p \in handler'[s].pending
             PROVE  /\ Window[p[2]] > 0 /\ row'[p].status # "none"
                    /\ row'[p].created <= handler'[s].received /\ handler'[s].received <= now'
  BY DEF PendingKnown
<1>1. CASE Deliver(s)
  <2>1. row' = row /\ now' = now /\ now \in Nat
    BY <1>1 DEF Deliver, Accept, TypeInv
  <2>2. /\ handler'[s].received = now
        /\ handler'[s].pending = {q \in Pairs : row[q].status = "pending"}
    BY <1>1, DeliverHandler DEF HandlerBecomes
  <2> QED
    BY <2>1, <2>2 DEF ProgressInv, PendingRows
<1>2. CASE /\ handler'[s].pending = handler[s].pending
           /\ handler'[s].received = handler[s].received
  <2>1. /\ Window[p[2]] > 0 /\ row[p].status # "none" /\ p \in Pairs
        /\ row[p].created <= handler[s].received /\ handler[s].received <= now
        /\ now \in Nat /\ handler[s].received \in Nat
    BY <1>2, NumberTypes DEF RecoveryInv, PendingKnown
  <2>2. RowStep(p) /\ now' >= now /\ now' \in Nat
    BY <2>1, RowSteps
  <2> QED
    BY <1>2, <2>1, <2>2, DeadlineStays
<1> QED
  BY <1>1, <1>2, HandlerKnows

\* A request does not pass over what it has to settle.
LEMMA AheadStays ==
    ASSUME TypeInv, ProgressInv, [Next]_vars, NEW s \in Signals, NEW p \in handler[s].pending,
           p \in handler'[s].pending, p \in PendingFor(s, p[2]), Ahead(s, p),
           row'[p].status # "recovered", ~ Deliver(s)
    PROVE  Ahead(s, p)'
<1>1. p \in Pairs /\ handler \in [Signals -> Handlers]
  BY NumberTypes DEF TypeInv
<1>2. CASE handler'[s] = handler[s]
  BY <1>2 DEF Ahead
<1>3. CASE handler'[s] # handler[s]
  <2>1. HandlerStep(s) \/ LoseHandler(s)
    <3>1. ASSUME NEW q \in Signals \ {s}, Deliver(q) \/ HandlerStep(q) \/ LoseHandler(q)
          PROVE  handler'[s] = handler[s]
      BY <1>1, <3>1 DEF Deliver, Accept, HandlerStep, FindPending, SuppressPending, React, BeginLaunch,
             CommitJob, RefuseJob, LinkJob, FinishSignal, LoseHandler, EndOfReactor
    <3>2. ASSUME \/ UNCHANGED vars \/ Tick \/ ReleaseStep \/ CrashRunner
                 \/ \E q \in Pairs : AdvanceJob(q)
                 \/ \E r \in Reactors : EditReactor(r)
          PROVE  handler' = handler
      BY <3>2 DEF vars, Tick, ReleaseStep, SuppressDue, BeginRelease, ReleaseJob, FailRelease,
                        LinkReleased, CrashRunner, AdvanceJob, EditReactor
    <3> QED
      BY <1>3, <3>1, <3>2 DEF Next
  <2>2. CASE FindPending(s)
    <3>1. PICK r \in handler[s].todo :
              HandlerBecomes(s, IF PendingFor(s, r) = {} THEN "reacting" ELSE "suppressing",
                             handler[s].received, handler[s].todo \ {r}, r,
                             PendingFor(s, r), handler[s].pending)
      BY <2>2, FindPendingHandler
    <3>2. p[2] \in handler[s].todo
      BY <2>2 DEF Ahead, FindPending
    <3> QED
      BY <3>1, <3>2 DEF Ahead, HandlerBecomes
  <2>3. CASE SuppressPending(s)
    <3>1. PICK q \in handler[s].found :
              /\ q \in Pairs
              /\ HandlerMoves(s, IF handler[s].found = {q} THEN "reacting" ELSE "suppressing",
                              handler[s].of, handler[s].found \ {q})
              /\ RowBecomes(q, "recovered", row[q].created, None, row[q].job)
      BY <2>3, SuppressPendingHandler
    <3>2. p # q
      BY <1>1, <3>1 DEF RowBecomes
    <3> QED
      BY <3>1, <3>2 DEF Ahead, HandlerMoves, HandlerBecomes
  <2>4. CASE \/ React(s) \/ RefuseJob(s) \/ LinkJob(s) \/ BeginLaunch(s) \/ CommitJob(s)
    <3>1. p[2] \in handler[s].todo
      BY <2>4 DEF Ahead, React, RefuseJob, LinkJob, BeginLaunch, CommitJob
    <3>2. handler'[s].todo = handler[s].todo
      BY <2>4, EndOfReactorHandler, BeginLaunchRow, LaunchPhaseHandler
         DEF React, RefuseJob, LinkJob, CommitJob, LaunchPhases, HandlerMoves, HandlerBecomes
    <3> QED
      BY <3>1, <3>2 DEF Ahead
  <2>5. CASE FinishSignal(s) \/ LoseHandler(s)
    BY <2>5, EndedHandler DEF FinishSignal, LoseHandler, HandlerBecomes
  <2> QED
    BY <2>1, <2>2, <2>3, <2>4, <2>5 DEF HandlerStep
<1> QED
  BY <1>2, <1>3

\* What is in time is held: it is neither due nor launched.
LEMMA InTimeIsHeld ==
    ASSUME TypeInv, ProgressInv, RecoveryInv, NEW s \in Signals, NEW p \in handler[s].pending,
           InTime(s, p)
    PROVE  /\ p \in Pairs /\ Window[p[2]] > 0 /\ jobs[p] = <<>> /\ ~ Releasing(p)
           /\ row[p].status = "pending" => p \in PendingFor(s, p[2])
<1>1. /\ p \in Pairs /\ now \in Nat /\ Deadline(p) \in Nat /\ now < Deadline(p)
      /\ handler[s].received \in Nat
  BY NumberTypes DEF InTime
<1>2. /\ Window[p[2]] > 0 /\ row[p].created <= handler[s].received
      /\ handler[s].received <= now
  BY DEF RecoveryInv, PendingKnown
<1>3. jobs[p] = <<>> /\ ~ Releasing(p)
  BY <1>1, <1>2 DEF RecoveryInv, LateJobs
<1>4. row[p].status = "pending" => row[p].due = Deadline(p)
  BY <1>1 DEF ProgressInv, PendingRows, Deadline
<1>5. row[p].status = "pending" => p \in PendingFor(s, p[2])
  BY <1>1, <1>2, <1>4 DEF PendingFor, InTime
<1> QED
  BY <1>1, <1>2, <1>3, <1>5

LEMMA RecoveringKept ==
    ASSUME TypeInv, ProgressInv, RecoveryInv, [Next]_vars
    PROVE  Recovering'
<1> SUFFICES ASSUME NEW s \in Signals, NEW p \in handler'[s].pending, InTime(s, p)'
             PROVE  \/ row'[p].status = "recovered"
                    \/ row'[p].status = "pending" /\ Ahead(s, p)'
  BY DEF Recovering
<1>1. CASE Deliver(s)
  <2>1. row' = row /\ mode' = mode /\ edited' = edited
    BY <1>1 DEF Deliver, Accept
  <2>2. /\ handler'[s].todo = {r \in Reactors : mode[r] # "disabled"}
        /\ handler'[s].pending = {q \in Pairs : row[q].status = "pending"}
    BY <1>1, DeliverHandler DEF HandlerBecomes
  <2>3. p[2] \in Reactors \ edited
    BY <2>1, <2>2 DEF Pairs, InTime
  <2>4. mode[p[2]] = "automatic"
    BY <2>3 DEF RecoveryInv, AutomaticModes
  <2> QED
    BY <2>1, <2>2, <2>3, <2>4 DEF Ahead
<1>2. CASE /\ ~ Deliver(s)
           /\ handler'[s].pending = handler[s].pending
           /\ handler'[s].received = handler[s].received
  <2>1. p \in handler[s].pending /\ p \in Pairs /\ row[p].status # "none"
    BY <1>2, NumberTypes DEF RecoveryInv, PendingKnown
  <2>2. /\ RowStep(p) /\ now' >= now /\ now' \in Nat /\ now \in Nat /\ edited \subseteq edited'
        /\ Deadline(p) \in Nat
    BY <2>1, RowSteps, NumberTypes
  <2>3. InTime(s, p)
    BY <2>1, <2>2, DeadlineStays DEF InTime
  <2>4. /\ Window[p[2]] > 0 /\ jobs[p] = <<>> /\ ~ Releasing(p)
        /\ row[p].status = "pending" => p \in PendingFor(s, p[2])
    BY <2>1, <2>3, InTimeIsHeld
  <2>5. \/ row[p].status = "recovered"
        \/ row[p].status = "pending" /\ Ahead(s, p) /\ now < Deadline(p)
    BY <2>1, <2>3 DEF RecoveryInv, Recovering, InTime
  <2>6. row'[p].status = row[p].status \/ row'[p].status = "recovered"
    BY <2>1, <2>4, <2>5, HeldRowStays
  <2> QED
    BY <1>2, <2>1, <2>4, <2>5, <2>6, AheadStays
<1> QED
  BY <1>1, <1>2, HandlerKnows

LEMMA SavedRowsKept ==
    ASSUME TypeInv, ProgressInv, RecoveryInv, [Next]_vars
    PROVE  SavedRows'
<1> SUFFICES ASSUME NEW p \in saved', p[2] \notin edited'
             PROVE  /\ row'[p].status = "recovered" /\ Window[p[2]] > 0 /\ jobs'[p] = <<>>
                    /\ ~ Releasing(p)'
  BY DEF SavedRows
<1>1. p[2] \notin edited
  BY RowSteps
<1>2. CASE p \in saved
  <2>1. p \in Pairs
    BY <1>2 DEF TypeInv
  <2>2. /\ row[p].status = "recovered" /\ Window[p[2]] > 0 /\ jobs[p] = <<>>
        /\ ~ Releasing(p)
    BY <1>1, <1>2 DEF RecoveryInv, SavedRows
  <2> QED
    BY <2>1, <2>2, HeldRowStays
<1>3. CASE p \notin saved
  <2>1. PICK s \in Signals : FinishSignal(s)
    BY <1>3 DEF Next, vars, Tick, ReleaseStep, CrashRunner, Deliver, Accept, HandlerStep, LoseHandler,
         FindPending, SuppressPending, React, BeginLaunch, CommitJob, RefuseJob, LinkJob,
         SuppressDue, BeginRelease, ReleaseJob, FailRelease, LinkReleased, AdvanceJob, EditReactor
  <2>2. /\ p \in handler[s].pending /\ InTime(s, p)
        /\ handler[s].at = "evaluating" /\ handler[s].todo = {}
        /\ UNCHANGED <<row, jobs, release>>
    BY <1>1, <1>3, <2>1 DEF FinishSignal, InTime, Deadline
  <2>3. Window[p[2]] > 0 /\ jobs[p] = <<>> /\ ~ Releasing(p)
    BY <2>2, InTimeIsHeld
  <2>4. row[p].status = "recovered"
    BY <2>2 DEF RecoveryInv, Recovering, Ahead
  <2> QED
    BY <2>2, <2>3, <2>4 DEF Releasing
<1> QED
  BY <1>2, <1>3

LEMMA AutomaticModesKept ==
    ASSUME TypeInv, RecoveryInv, [Next]_vars
    PROVE  AutomaticModes'
<1>1. ASSUME NEW r \in Reactors, EditReactor(r)
      PROVE  AutomaticModes'
  BY <1>1 DEF EditReactor, RecoveryInv, AutomaticModes, TypeInv
<1>2. CASE UNCHANGED <<mode, edited>>
  BY <1>2 DEF RecoveryInv, AutomaticModes
<1> QED
  BY <1>1, <1>2
     DEF Next, vars, Tick, ReleaseStep, CrashRunner, Deliver, Accept, HandlerStep, LoseHandler,
         FindPending, SuppressPending, React, BeginLaunch, CommitJob, RefuseJob, LinkJob, FinishSignal,
         SuppressDue, BeginRelease, ReleaseJob, FailRelease, LinkReleased, AdvanceJob

LEMMA RecoveryKept == TypeInv /\ ProgressInv /\ RecoveryInv /\ [Next]_vars => RecoveryInv'
  BY LateJobsKept, PendingKnownKept, RecoveringKept, SavedRowsKept, AutomaticModesKept DEF RecoveryInv

LEMMA InitRecovery == Init => RecoveryInv
  BY DEF Init, RecoveryInv, AutomaticModes, LateJobs, PendingKnown, Recovering, SavedRows,
         Releasing, NoHandler, AtRest

\* A recovery Signal that was accepted over a pending Reaction, and evaluated
\* before its window ended, kept its Package from running, for good, unless an
\* administrator changed the Reactor (suppress_pending_reactions).
THEOREM RecoveryInTimeAlwaysWins == Spec => []RecoveryInTimeWins
<1>1. RecoveryInv => RecoveryInTimeWins
  BY DEF RecoveryInv, SavedRows, RecoveryInTimeWins
<1> QED
  BY <1>1, InitRecovery, RecoveryKept, ReactionsInvariant, PTL DEF Spec

-----------------------------------------------------------------------------
(* LimitOfConcurrentReactions.                                             *)

\* The Signals for which a Job of r has not ended.
Open(r) == {q \in Signals : OpenJobs(<<q, r>>) # {}}

HandlerLaunches(s, r) == handler[s].at \in LaunchPhases /\ handler[s].of = r

\* Somebody has looked at the limit, and has not committed the Job yet.
AboutToCommit(r) ==
    \/ \E s \in Signals : handler[s].at = "launching" /\ handler[s].of = r
    \/ release.at = "launching" /\ release.of[2] = r

OneLauncher ==
    \A r \in Reactors \ blind : \A s, t \in Signals :
        HandlerLaunches(s, r) /\ HandlerLaunches(t, r) => s = t

WithinLimit ==
    \A r \in Reactors \ blind :
        /\ Cardinality(Open(r)) <= Limit[r]
        /\ AboutToCommit(r) => Cardinality(Open(r)) < Limit[r]

LimitInv == OneLauncher /\ WithinLimit

LEMMA OpenIsFinite ==
    ASSUME NEW r \in Reactors
    PROVE  /\ IsFiniteSet(Open(r)) /\ Cardinality(Open(r)) \in Nat
           /\ Limit[r] \in Nat
<1>1. IsFiniteSet(Open(r)) /\ Limit[r] \in Nat
  BY ReactionAssumption, FS_Subset DEF Open
<1> QED
  BY <1>1, FS_CardinalityType

\* No Job is opened.
LEMMA NothingOpened ==
    ASSUME TypeInv, LimitInv, NEW r \in Reactors \ blind, Open(r)' \subseteq Open(r),
           AboutToCommit(r)' => AboutToCommit(r) \/ Cardinality(Open(r)) < Limit[r]
    PROVE  /\ Cardinality(Open(r)') <= Limit[r]
           /\ AboutToCommit(r)' => Cardinality(Open(r)') < Limit[r]
<1>1. IsFiniteSet(Open(r)) /\ Cardinality(Open(r)) \in Nat /\ Limit[r] \in Nat
  BY OpenIsFinite
<1>2. Cardinality(Open(r)') <= Cardinality(Open(r)) /\ Cardinality(Open(r)') \in Nat
  BY <1>1, FS_Subset, FS_CardinalityType
<1> QED
  BY <1>1, <1>2 DEF LimitInv, WithinLimit

\* The Job of the one that looked at the limit is opened.
LEMMA OneOpened ==
    ASSUME TypeInv, LimitInv, NEW r \in Reactors \ blind, NEW q, Open(r)' \subseteq Open(r) \cup {q},
           AboutToCommit(r), ~ AboutToCommit(r)'
    PROVE  /\ Cardinality(Open(r)') <= Limit[r]
           /\ AboutToCommit(r)' => Cardinality(Open(r)') < Limit[r]
<1> DEFINE O == Open(r)
<1>1. /\ IsFiniteSet(O) /\ Cardinality(O) \in Nat /\ Limit[r] \in Nat
      /\ Cardinality(O) < Limit[r]
  BY OpenIsFinite DEF LimitInv, WithinLimit
<1>2. Open(r)' \subseteq O \cup {q}
  OBVIOUS
<1> HIDE DEF O
<1>3. /\ IsFiniteSet(O \cup {q}) /\ Cardinality(O \cup {q}) \in Nat
      /\ Cardinality(O \cup {q}) = IF q \in O THEN Cardinality(O) ELSE Cardinality(O) + 1
  BY <1>1, FS_AddElement, FS_CardinalityType
<1>4. Cardinality(Open(r)') <= Cardinality(O \cup {q}) /\ Cardinality(Open(r)') \in Nat
  BY <1>2, <1>3, FS_Subset, FS_CardinalityType
<1> QED
  BY <1>1, <1>3, <1>4

\* Who looks at the limit while every Job is linked sees all of them.
LEMMA LimitIsSeen ==
    ASSUME TypeInv, NEW r \in Reactors, ~ Unlinked(r), NEW s, ~ Suppressed(s, r)
    PROVE  Cardinality(Open(r)) < Limit[r]
<1>1. Open(r) \subseteq ActiveJobs(r)
  <2> SUFFICES ASSUME NEW q \in Signals, OpenJobs(<<q, r>>) # {}
               PROVE  q \in ActiveJobs(r)
    BY DEF Open
  <2>1. PICK i \in DOMAIN jobs[<<q, r>>] : jobs[<<q, r>>][i] \notin Ended
    BY DEF OpenJobs
  <2>2. i = row[<<q, r>>].job
    BY <2>1 DEF Unlinked
  <2>3. i # 0
    BY <2>1 DEF TypeInv, Pairs
  <2> QED
    BY <2>1, <2>2, <2>3 DEF ActiveJobs
<1>2. IsFiniteSet(ActiveJobs(r)) /\ Cardinality(ActiveJobs(r)) \in Nat
  <2>1. IsFiniteSet(ActiveJobs(r))
    BY ReactionAssumption, FS_Subset DEF ActiveJobs
  <2> QED
    BY <2>1, FS_CardinalityType
<1>3. Cardinality(Open(r)) <= Cardinality(ActiveJobs(r)) /\ Cardinality(Open(r)) \in Nat
  BY <1>1, <1>2, FS_Subset, OpenIsFinite
<1>4. Cardinality(ActiveJobs(r)) < Limit[r]
  BY <1>2, OpenIsFinite DEF Suppressed
<1> QED
  BY <1>2, <1>3, <1>4, OpenIsFinite

\* What a step may do to the launches and Jobs of r, as long as r is not blind.
LEMMA LaunchesStay ==
    ASSUME TypeInv, ProgressInv, LimitInv, NEW r \in Reactors \ blind,
           UNCHANGED jobs,
           \A s \in Signals : HandlerLaunches(s, r)' => HandlerLaunches(s, r),
           \A s \in Signals : (handler[s].at = "launching" /\ handler[s].of = r)'
                                 => handler[s].at = "launching" /\ handler[s].of = r,
           (release.at = "launching" /\ release.of[2] = r)'
               => \/ release.at = "launching" /\ release.of[2] = r
                  \/ Cardinality(Open(r)) < Limit[r]
    PROVE  /\ \A s, t \in Signals : HandlerLaunches(s, r)' /\ HandlerLaunches(t, r)' => s = t
           /\ Cardinality(Open(r)') <= Limit[r]
           /\ AboutToCommit(r)' => Cardinality(Open(r)') < Limit[r]
<1>1. Open(r)' = Open(r)
  BY DEF Open, OpenJobs
<1>2. AboutToCommit(r)' => AboutToCommit(r) \/ Cardinality(Open(r)) < Limit[r]
  BY DEF AboutToCommit
<1> QED
  BY <1>1, <1>2, NothingOpened DEF LimitInv, OneLauncher

LimitOf(r) ==
    /\ \A s, t \in Signals : HandlerLaunches(s, r) /\ HandlerLaunches(t, r) => s = t
    /\ Cardinality(Open(r)) <= Limit[r]
    /\ AboutToCommit(r) => Cardinality(Open(r)) < Limit[r]

LEMMA LimitIsLocal == LimitInv <=> \A r \in Reactors \ blind : LimitOf(r)
  BY DEF LimitInv, OneLauncher, WithinLimit, LimitOf

LEMMA HandlerLimits ==
    ASSUME TypeInv, ProgressInv, LimitInv, NEW s \in Signals,
           Deliver(s) \/ HandlerStep(s) \/ LoseHandler(s), NEW r \in Reactors \ blind'
    PROVE  LimitOf(r)'
<1>1. /\ r \in Reactors \ blind /\ release' = release
      /\ \A q \in Signals : q # s => handler'[q] = handler[q]
  <2>1. blind \subseteq blind'
    BY DEF Deliver, Accept, HandlerStep, FindPending, SuppressPending, React, BeginLaunch,
           CommitJob, RefuseJob, LinkJob, FinishSignal, LoseHandler
  <2>2. release' = release
    BY DEF Deliver, Accept, HandlerStep, FindPending, SuppressPending, React, BeginLaunch,
           CommitJob, RefuseJob, LinkJob, FinishSignal, LoseHandler
  <2>3. \A q \in Signals : q # s => handler'[q] = handler[q]
    BY FieldTypes DEF Deliver, Accept, HandlerStep, FindPending, SuppressPending, React, BeginLaunch,
           CommitJob, RefuseJob, LinkJob, FinishSignal, LoseHandler, EndOfReactor
  <2> QED
    BY <2>1, <2>2, <2>3
<1>2. ASSUME jobs' = jobs, handler'[s].at \notin LaunchPhases
      PROVE  LimitOf(r)'
  <2>1. \A q \in Signals : HandlerLaunches(q, r)' => HandlerLaunches(q, r)
    BY <1>1, <1>2 DEF HandlerLaunches
  <2>2. \A q \in Signals : (handler[q].at = "launching" /\ handler[q].of = r)'
                              => handler[q].at = "launching" /\ handler[q].of = r
    BY <1>1, <1>2 DEF LaunchPhases
  <2> QED
    BY <1>1, <1>2, <2>1, <2>2, LaunchesStay DEF LimitOf
<1>3. CASE Deliver(s)
  BY <1>2, <1>3, DeliverHandler DEF Deliver, Accept, HandlerBecomes, LaunchPhases
<1>4. CASE FindPending(s)
  BY <1>2, <1>4, FindPendingHandler DEF FindPending, HandlerBecomes, LaunchPhases
<1>5. CASE SuppressPending(s)
  BY <1>2, <1>5, SuppressPendingHandler DEF SuppressPending, HandlerMoves, HandlerBecomes, LaunchPhases
<1>6. CASE React(s) \/ RefuseJob(s) \/ LinkJob(s)
  BY <1>2, <1>6, EndOfReactorHandler
     DEF React, RefuseJob, LinkJob, HandlerMoves, HandlerBecomes, LaunchPhases
<1>7. CASE FinishSignal(s) \/ LoseHandler(s)
  BY <1>2, <1>7, EndedHandler DEF FinishSignal, LoseHandler, HandlerBecomes, LaunchPhases
<1>8. CASE BeginLaunch(s)
  <2>1. /\ handler'[s].at = "launching" /\ handler'[s].of = handler[s].of
        /\ jobs' = jobs /\ handler[s].at = "reacting"
    BY <1>8, BeginLaunchRow DEF BeginLaunch, HandlerMoves, HandlerBecomes
  <2>2. CASE handler[s].of # r
    <3>1. \A q \in Signals : HandlerLaunches(q, r)' => HandlerLaunches(q, r)
      BY <1>1, <2>1, <2>2 DEF HandlerLaunches
    <3>2. \A q \in Signals : (handler[q].at = "launching" /\ handler[q].of = r)'
                                => handler[q].at = "launching" /\ handler[q].of = r
      BY <1>1, <2>1, <2>2
    <3> QED
      BY <1>1, <2>1, <3>1, <3>2, LaunchesStay DEF LimitOf
  <2>3. CASE handler[s].of = r
    <3>1. ~ Unlinked(r) /\ ~ Suppressed(s, r)
      BY <1>8, <2>3 DEF BeginLaunch
    <3>2. Cardinality(Open(r)) < Limit[r]
      BY <1>1, <3>1, LimitIsSeen
    <3>3. Open(r)' = Open(r)
      BY <2>1 DEF Open, OpenJobs
    <3>4. \A q \in Signals : HandlerLaunches(q, r)' => q = s
      BY <1>1, <3>1 DEF HandlerLaunches, Unlinked, LaunchPhases
    <3> QED
      BY <1>1, <3>2, <3>3, <3>4, OpenIsFinite DEF LimitOf
  <2> QED
    BY <2>2, <2>3
<1>9. CASE CommitJob(s)
  <2>1. /\ handler'[s].at = "launched" /\ handler'[s].of = handler[s].of
        /\ handler[s].at = "launching" /\ handler[s].of \in Reactors
        /\ Window[handler[s].of] = 0
    <3>1. handler[s].at = "launching" /\ handler[s].of \in Reactors
      BY <1>9 DEF CommitJob, TypeInv, ReactorPhases
    <3>2. Window[handler[s].of] = 0
      BY <3>1 DEF ProgressInv, LaunchingRows, LaunchPhases
    <3> QED
      BY <1>9, <3>1, <3>2, LaunchPhaseHandler DEF CommitJob, LaunchPhases, HandlerMoves, HandlerBecomes
  <2>2. \A q \in Signals : HandlerLaunches(q, r)' => HandlerLaunches(q, r)
    BY <1>1, <2>1 DEF HandlerLaunches, LaunchPhases
  <2>3. \A q \in Signals, t \in Reactors :
            <<q, t>> # <<s, handler[s].of>> => jobs'[<<q, t>>] = jobs[<<q, t>>]
    <3>1. <<s, handler[s].of>> \in Pairs
      BY <2>1 DEF Pairs
    <3>2. JobAppended(<<s, handler[s].of>>)
      BY <1>9, <3>1, AppendedJob DEF CommitJob
    <3> QED
      BY <3>2 DEF JobAppended, Pairs
  <2>4. \A q, t \in Signals : HandlerLaunches(q, r)' /\ HandlerLaunches(t, r)' => q = t
    BY <1>1, <2>2 DEF LimitInv, OneLauncher
  <2>5. CASE handler[s].of # r
    <3>1. Open(r)' = Open(r)
      BY <1>1, <2>3, <2>5 DEF Open, OpenJobs
    <3>2. AboutToCommit(r)' => AboutToCommit(r)
      BY <1>1, <2>1, <2>5 DEF AboutToCommit
    <3> QED
      BY <1>1, <2>4, <3>1, <3>2, NothingOpened DEF LimitOf
  <2>6. CASE handler[s].of = r
    <3>1. Open(r)' \subseteq Open(r) \cup {s}
      BY <1>1, <2>3, <2>6 DEF Open, OpenJobs
    <3>2. AboutToCommit(r)
      BY <2>1, <2>6 DEF AboutToCommit
    <3>3. ~ AboutToCommit(r)'
      <4>1. \A q \in Signals : HandlerLaunches(q, r) => q = s
        BY <1>1, <2>1, <2>6 DEF LimitInv, OneLauncher, HandlerLaunches, LaunchPhases
      <4>2. \A q \in Signals : ~ (handler'[q].at = "launching" /\ handler'[q].of = r)
        BY <1>1, <2>1, <4>1 DEF HandlerLaunches, LaunchPhases
      <4>3. ~ (release'.at = "launching" /\ release'.of[2] = r)
        BY <1>1, <2>1, <2>6, ReactionAssumption DEF ProgressInv, ReleasingRow
      <4> QED
        BY <4>2, <4>3 DEF AboutToCommit
    <3> QED
      BY <1>1, <2>4, <3>1, <3>2, <3>3, OneOpened DEF LimitOf
  <2> QED
    BY <2>5, <2>6
<1> QED
  BY <1>3, <1>4, <1>5, <1>6, <1>7, <1>8, <1>9 DEF HandlerStep

LEMMA OtherLimits ==
    ASSUME TypeInv, ProgressInv, LimitInv,
           \/ Tick \/ ReleaseStep \/ CrashRunner
           \/ \E p \in Pairs : AdvanceJob(p)
           \/ \E r \in Reactors : EditReactor(r),
           NEW r \in Reactors \ blind'
    PROVE  LimitOf(r)'
<1>1. r \in Reactors \ blind /\ handler' = handler
  <2>1. blind \subseteq blind' /\ handler' = handler
    BY DEF Tick, ReleaseStep, SuppressDue, BeginRelease, ReleaseJob, FailRelease, LinkReleased,
           CrashRunner, AdvanceJob, EditReactor
  <2> QED
    BY <2>1
<1>2. \A q \in Signals : HandlerLaunches(q, r)' <=> HandlerLaunches(q, r)
  BY <1>1 DEF HandlerLaunches
<1>3. ASSUME jobs' = jobs,
             \/ release' = release
             \/ release'.at # "launching"
             \/ Cardinality(Open(r)) < Limit[r]
             \/ release'.of[2] # r
      PROVE  LimitOf(r)'
  <2>1. Open(r)' = Open(r)
    BY <1>3 DEF Open, OpenJobs
  <2>2. AboutToCommit(r)' => AboutToCommit(r) \/ Cardinality(Open(r)) < Limit[r]
    BY <1>1, <1>3 DEF AboutToCommit
  <2> QED
    BY <1>1, <1>2, <2>1, <2>2, NothingOpened DEF LimitOf, LimitInv, OneLauncher
<1>4. CASE Tick \/ \E q \in Reactors : EditReactor(q)
  <2>1. jobs' = jobs /\ release' = release
    BY <1>4 DEF Tick, EditReactor
  <2> QED
    BY <1>3, <2>1
<1>5. CASE CrashRunner \/ FailRelease \/ LinkReleased
  <2>1. jobs' = jobs /\ release'.at # "launching"
    BY <1>5 DEF CrashRunner, FailRelease, LinkReleased, AtRest
  <2> QED
    BY <1>3, <2>1
<1>6. ASSUME NEW p \in Pairs, SuppressDue(p)
      PROVE  LimitOf(r)'
  <2>1. jobs' = jobs /\ release' = release
    BY <1>6 DEF SuppressDue
  <2> QED
    BY <1>3, <2>1
<1>7. ASSUME NEW p \in Pairs, BeginRelease(p)
      PROVE  LimitOf(r)'
  <2>1. jobs' = jobs /\ release'.of = p
    BY <1>7 DEF BeginRelease
  <2>2. CASE p[2] # r
    BY <1>3, <2>1, <2>2
  <2>3. CASE p[2] = r
    <3>1. ~ Unlinked(r) /\ ~ Suppressed(p[1], r)
      BY <1>7, <2>3 DEF BeginRelease
    <3>2. Cardinality(Open(r)) < Limit[r]
      BY <1>1, <3>1, LimitIsSeen
    <3> QED
      BY <1>3, <2>1, <3>2
  <2> QED
    BY <2>2, <2>3
<1>8. CASE ReleaseJob
  <2>1. /\ release.of \in Pairs /\ release.at = "launching" /\ release'.at = "launched"
        /\ Window[release.of[2]] > 0
    BY <1>8 DEF ReleaseJob, TypeInv, Releases, ProgressInv, ReleasingRow
  <2>2. \A q \in Pairs : q # release.of => jobs'[q] = jobs[q]
    BY <1>8, <2>1, AppendedJob DEF ReleaseJob, JobAppended
  <2>3. ~ (release'.at = "launching" /\ release'.of[2] = r)
    BY <2>1
  <2>4. CASE release.of[2] # r
    <3>1. \A q \in Signals : jobs'[<<q, r>>] = jobs[<<q, r>>]
      BY <1>1, <2>2, <2>4 DEF Pairs
    <3>2. Open(r)' = Open(r)
      BY <3>1 DEF Open, OpenJobs
    <3>3. AboutToCommit(r)' => AboutToCommit(r)
      BY <1>1, <2>3 DEF AboutToCommit
    <3> QED
      BY <1>1, <1>2, <3>2, <3>3, NothingOpened DEF LimitOf, LimitInv, OneLauncher
  <2>5. CASE release.of[2] = r
    <3>1. PICK s : s = release.of[1]
      OBVIOUS
    <3>2. \A q \in Signals : q # s => jobs'[<<q, r>>] = jobs[<<q, r>>]
      BY <1>1, <2>2, <3>1 DEF Pairs
    <3>3. Open(r)' \subseteq Open(r) \cup {s}
      BY <3>2 DEF Open, OpenJobs
    <3>4. AboutToCommit(r)
      BY <2>1, <2>5 DEF AboutToCommit
    <3>5. \A q \in Signals : ~ HandlerLaunches(q, r)
      <4>1. Window[r] > 0
        BY <2>1, <2>5
      <4>2. \A q \in Signals : HandlerLaunches(q, r) => Window[r] = 0
        BY DEF ProgressInv, LaunchingRows, HandlerLaunches
      <4> QED
        BY <4>1, <4>2
    <3>6. ~ AboutToCommit(r)'
      BY <1>1, <2>3, <3>5 DEF AboutToCommit, HandlerLaunches, LaunchPhases
    <3> QED
      BY <1>1, <1>2, <3>3, <3>4, <3>5, <3>6, OneOpened DEF LimitOf
  <2> QED
    BY <2>4, <2>5
<1>9. ASSUME NEW p \in Pairs, AdvanceJob(p)
      PROVE  LimitOf(r)'
  <2>1. PICK i, next : JobAdvanced(p, i, next)
    BY <1>9, AdvancedJob
  <2>2. release' = release
    BY <1>9 DEF AdvanceJob
  <2>3. \A q \in Pairs : OpenJobs(q) = {} => OpenJobs(q)' = {}
    <3> SUFFICES ASSUME NEW q \in Pairs, NEW j \in OpenJobs(q)'
                 PROVE  OpenJobs(q) # {}
      OBVIOUS
    <3>1. CASE q # p
      BY <2>1, <3>1 DEF JobAdvanced, OpenJobs
    <3>2. CASE q = p
      <4>1. jobs[p] \in Seq(JobStatuses) /\ jobs'[p] \in Seq(JobStatuses)
        BY <2>1 DEF JobAdvanced, TypeInv
      <4>2. DOMAIN jobs'[p] = DOMAIN jobs[p]
        BY <2>1, <4>1 DEF JobAdvanced
      <4>3. j \in DOMAIN jobs'[p] /\ jobs'[p][j] # "ended"
        BY <3>2 DEF OpenJobs, Ended
      <4>4. jobs[p][j] # "ended" /\ j \in DOMAIN jobs[p]
        BY <2>1, <4>2, <4>3 DEF JobAdvanced
      <4> QED
        BY <3>2, <4>4 DEF OpenJobs, Ended
    <3> QED
      BY <3>1, <3>2
  <2>4. Open(r)' \subseteq Open(r)
    BY <1>1, <2>3 DEF Open, Pairs
  <2>5. AboutToCommit(r)' => AboutToCommit(r)
    BY <1>1, <2>2 DEF AboutToCommit
  <2> QED
    BY <1>1, <1>2, <2>4, <2>5, NothingOpened DEF LimitOf, LimitInv, OneLauncher
<1> QED
  BY <1>4, <1>5, <1>6, <1>7, <1>8, <1>9 DEF ReleaseStep

LEMMA LimitKept == TypeInv /\ ProgressInv /\ LimitInv /\ [Next]_vars => LimitInv'
<1> SUFFICES ASSUME TypeInv, ProgressInv, LimitInv, [Next]_vars,
                    NEW r \in Reactors \ blind'
             PROVE  LimitOf(r)'
  BY LimitIsLocal DEF LimitOf, LimitInv, OneLauncher, WithinLimit
<1>1. CASE UNCHANGED vars
  <2>1. LimitOf(r)
    BY <1>1, LimitIsLocal DEF vars
  <2> QED
    BY <1>1, <2>1 DEF vars, LimitOf, HandlerLaunches, Open, OpenJobs, AboutToCommit
<1> QED
  BY <1>1, HandlerLimits, OtherLimits DEF Next

LEMMA InitLimit == Init => LimitInv
<1> SUFFICES ASSUME Init PROVE LimitInv
  OBVIOUS
<1>1. \A r \in Reactors : Open(r) = {} /\ ~ AboutToCommit(r)
  BY DEF Init, Open, OpenJobs, AboutToCommit, NoHandler, AtRest, Pairs
<1>2. \A s \in Signals, r \in Reactors : ~ HandlerLaunches(s, r)
  BY DEF Init, HandlerLaunches, LaunchPhases, NoHandler
<1>3. Cardinality({}) = 0 /\ \A r \in Reactors : Limit[r] \in Nat \ {0}
  BY FS_EmptySet, ReactionAssumption
<1> QED
  BY <1>1, <1>2, <1>3 DEF LimitInv, OneLauncher, WithinLimit

\* The limit of concurrent Reactions holds for all Jobs of a Reactor, unless a
\* launch began while another of its Jobs was not linked (_automatic_suppression
\* counts linked Jobs, and reads before the launch commits).
THEOREM LimitAlwaysHolds == Spec => []LimitOfConcurrentReactions
<1>1. LimitInv => LimitOfConcurrentReactions
  BY DEF LimitInv, WithinLimit, Open, LimitOfConcurrentReactions
<1> QED
  BY <1>1, InitLimit, LimitKept, ReactionsInvariant, PTL DEF Spec

=============================================================================

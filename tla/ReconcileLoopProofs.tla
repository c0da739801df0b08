------------------------- MODULE ReconcileLoopProofs -------------------------
(***************************************************************************)
(* The loop of reconcile_non_runnable_steps computes the reconciliation:   *)
(* in every finite workflow it stops, and at the only fixpoint.            *)
(***************************************************************************)
EXTENDS ReconcileLoop, FiniteSetTheorems, TLAPS

-----------------------------------------------------------------------------
(* The rules of the workflow.                                              *)

\* The dependency state of a step is a function of the statuses of its
\* dependencies (dependency_state reads no other step).
LEMMA DependencyStateIsLocal ==
    ASSUME NEW s \in Positions, NEW f, NEW g,
           \A d \in deps[s] : d \in Positions =>
               \/ f[d] = g[d]
               \/ f[d] \notin W!TerminalStepStatuses /\ g[d] \notin W!TerminalStepStatuses
    PROVE  W!DependencyState(s, f) = W!DependencyState(s, g)
<1>1. CASE ~(deps[s] \subseteq Positions)
  BY <1>1 DEF W!DependencyState
<1>2. CASE deps[s] \subseteq Positions
  <2>1. \A d \in deps[s] :
           \/ f[d] = g[d]
           \/ f[d] \notin W!TerminalStepStatuses /\ g[d] \notin W!TerminalStepStatuses
    BY <1>2
  <2>2. (\E d \in deps[s] : f[d] \notin W!TerminalStepStatuses)
             <=> (\E d \in deps[s] : g[d] \notin W!TerminalStepStatuses)
    BY <2>1
  <2>3. (\A d \in deps[s] : f[d] \in W!TerminalStepStatuses)
            => \A d \in deps[s] : f[d] = g[d]
    BY <2>1
  <2>4. (\A d \in deps[s] : f[d] \in W!TerminalStepStatuses) =>
        /\ (\E d \in deps[s] : f[d] = "failed") <=> (\E d \in deps[s] : g[d] = "failed")
        /\ (\A d \in deps[s] : f[d] = "successful") <=> (\A d \in deps[s] : g[d] = "successful")
    BY <2>3
  <2> QED
    BY <2>2, <2>4 DEF W!DependencyState
<1> QED
  BY <1>1, <1>2

\* Two fixpoints agree: for a step where they did not would have a dependency
\* where they do not, and the dependencies contain no cycle.
LEMMA FixpointIsUnique ==
    ASSUME Acyclic(deps), NEW st, NEW ss,
           NEW f, NEW g,
           W!Reconciles(st, ss, f), W!Reconciles(st, ss, g)
    PROVE  \A s \in Positions : f[s] = g[s]
<1> DEFINE Differ == {s \in Positions : f[s] # g[s]}
<1>1. SUFFICES ASSUME Differ # {} PROVE FALSE
  OBVIOUS
<1>2. PICK s \in Differ : deps[s] \cap Differ = {}
  <2>1. Differ \in SUBSET Positions
    OBVIOUS
  <2> QED
    BY <1>1, <2>1 DEF Acyclic
<1>3. \A d \in deps[s] : d \in Positions => f[d] = g[d]
  BY <1>2
<1>4. W!DependencyState(s, f) = W!DependencyState(s, g)
  BY <1>2, <1>3, DependencyStateIsLocal
<1>5. W!PendingStepBecomes(s, f, ss) = W!PendingStepBecomes(s, g, ss)
  BY <1>4 DEF W!PendingStepBecomes
<1>6. f[s] = g[s]
  BY <1>2, <1>5 DEF W!Reconciles
<1> QED
  BY <1>2, <1>6

-----------------------------------------------------------------------------
(* The loop.                                                               *)

Undecided(st) == {s \in Positions : st[s] = "pending"}

\* A step that has its result keeps it: the dependencies it was read from have
\* ended.
Settled(st) ==
    \A s \in Positions :
        IF given[s] # "pending" THEN st[s] = given[s]
        ELSE st[s] # "pending" =>
                /\ st[s] \in {"blocked", "skipped", "successful"}
                /\ st[s] = W!PendingStepBecomes(s, st, givenSlices)

\* A pass that has changed nothing leaves no step behind that could change.
NothingLeftBehind ==
    ~progress => \A s \in Undecided(step) \ remaining :
                     W!PendingStepBecomes(s, step, givenSlices) = "pending"

\* Every pass but the last one settles a step.
PassesAreBounded ==
    /\ pass \in Nat
    /\ pass # 0 => pass + Cardinality(Undecided(step)) + (IF progress THEN 1 ELSE 0)
                       <= 1 + Cardinality(Undecided(given))

\* The inductive invariant.
LoopInv ==
    /\ Acyclic(deps)
    /\ step \in [Positions -> Statuses \cup {"blocked", "skipped", "successful"}]
    /\ given \in [Positions -> Statuses]
    /\ remaining \subseteq Positions
    /\ progress \in BOOLEAN
    /\ Settled(step)
    /\ slice = W!SlicesFollow(given, step, givenSlices)
    /\ NothingLeftBehind
    /\ PassesAreBounded
    /\ pass = 0 => remaining = {} /\ ~progress

\* A step that does not wait does not notice that a pending step changes
\* (dependency_state waits for every dependency that has not ended).
LEMMA DecidedStepStays ==
    ASSUME NEW s \in Positions, NEW f, NEW g, NEW u,
           W!DependencyState(s, f) # "waiting",
           f[u] = "pending",
           \A t \in Positions \ {u} : g[t] = f[t]
    PROVE  W!DependencyState(s, g) = W!DependencyState(s, f)
<1>1. CASE ~(deps[s] \subseteq Positions) \/ deps[s] = {}
  BY <1>1 DEF W!DependencyState
<1>2. CASE deps[s] \subseteq Positions /\ deps[s] # {}
  <2>1. \A d \in deps[s] : f[d] \in W!TerminalStepStatuses
    BY <1>2 DEF W!DependencyState
  <2>2. u \notin deps[s]
    BY <2>1 DEF W!TerminalStepStatuses
  <2>3. \A d \in deps[s] : d \in Positions => g[d] = f[d]
    BY <2>2
  <2> QED
    BY <2>3, DependencyStateIsLocal
<1> QED
  BY <1>1, <1>2

LEMMA SettledStepsStay ==
    ASSUME NEW f, NEW g, NEW u, NEW ss,
           f[u] = "pending",
           \A t \in Positions \ {u} : g[t] = f[t]
    PROVE  \A s \in Positions : W!PendingStepBecomes(s, f, ss) # "pending" =>
               W!PendingStepBecomes(s, g, ss) = W!PendingStepBecomes(s, f, ss)
<1> SUFFICES ASSUME NEW s \in Positions, W!PendingStepBecomes(s, f, ss) # "pending"
             PROVE  W!PendingStepBecomes(s, g, ss) = W!PendingStepBecomes(s, f, ss)
  OBVIOUS
<1>1. W!DependencyState(s, f) # "waiting"
  BY DEF W!PendingStepBecomes
<1>2. W!DependencyState(s, g) = W!DependencyState(s, f)
  BY <1>1, DecidedStepStays
<1> QED
  BY <1>2 DEF W!PendingStepBecomes

\* The slices of a step that is still pending are as they were given, so the
\* loop judges it as if it had changed none.
LEMMA PendingStepHasItsSlices ==
    ASSUME NEW s \in Positions, step[s] = "pending",
           slice = W!SlicesFollow(given, step, givenSlices)
    PROVE  /\ \A x \in Slices : StepOf[x] = s => slice[x] = givenSlices[x]
           /\ W!NoOpStep(s, slice) = W!NoOpStep(s, givenSlices)
           /\ W!PendingStepBecomes(s, step, slice) = W!PendingStepBecomes(s, step, givenSlices)
<1>1. \A x \in Slices : StepOf[x] = s => slice[x] = givenSlices[x]
  BY DEF W!SlicesFollow
<1>2. W!SlicesOf(s, slice) = W!SlicesOf(s, givenSlices)
  BY <1>1 DEF W!SlicesOf
<1>3. \A x \in W!SlicesOf(s, slice) : slice[x] = givenSlices[x]
  BY <1>1 DEF W!SlicesOf
<1>4. W!NoOpStep(s, slice) = W!NoOpStep(s, givenSlices)
  BY <1>2, <1>3 DEF W!NoOpStep
<1> QED
  BY <1>1, <1>4 DEF W!PendingStepBecomes

LEMMA UndecidedIsFinite ==
    ASSUME NEW st
    PROVE  IsFiniteSet(Undecided(st)) /\ Cardinality(Undecided(st)) \in Nat
<1>1. Undecided(st) \subseteq Positions
  BY DEF Undecided
<1>2. IsFiniteSet(Undecided(st))
  BY <1>1, FS_Subset, LoopAssumption
<1> QED
  BY <1>2, FS_CardinalityType

LEMMA LoopInitInv ==
    ASSUME Init
    PROVE  LoopInv
<1>1. /\ step = given /\ slice = givenSlices /\ remaining = Positions
      /\ progress = FALSE /\ pass = 1 /\ given \in [Positions -> Statuses]
      /\ givenSlices = [x \in Slices |-> givenSlices[x]] /\ Acyclic(deps)
  BY DEF Init
<1>2. slice = W!SlicesFollow(given, step, givenSlices)
  BY <1>1, LoopAssumption DEF W!SlicesFollow
<1>3. Settled(step) /\ NothingLeftBehind
  BY <1>1 DEF Settled, NothingLeftBehind, Undecided
<1>4. PassesAreBounded
  BY <1>1, UndecidedIsFinite DEF PassesAreBounded
<1>5. step \in [Positions -> Statuses \cup {"blocked", "skipped", "successful"}]
  <2>1. given = [t \in Positions |-> given[t]] /\ \A t \in Positions : given[t] \in Statuses
    BY <1>1
  <2> QED
    BY <1>1, <2>1
<1>6. remaining \subseteq Positions /\ (pass = 0 => remaining = {} /\ ~progress)
  BY <1>1
<1>7. progress \in BOOLEAN
  BY <1>1, Zenon
<1> QED
  BY <1>1, <1>2, <1>3, <1>4, <1>5, <1>6, <1>7 DEF LoopInv

\* What the loop makes of the steps and the slices when it settles s:
\* reconcile_non_runnable_steps writes the result to the step and, where it is
\* blocked or skipped, to its pending slices too.
SettlesInto(s, result, st, ss) ==
    /\ st = [step EXCEPT ![s] = result]
    /\ ss = [x \in Slices |-> IF /\ StepOf[x] = s /\ slice[x] = "pending"
                                 /\ result \in {"blocked", "skipped"}
                              THEN result ELSE slice[x]]

LEMMA SettlingAStep ==
    ASSUME LoopInv, NEW s \in Positions, step[s] = "pending",
           NEW result \in {"blocked", "skipped", "successful"},
           result = W!PendingStepBecomes(s, step, givenSlices),
           NEW st, NEW ss, SettlesInto(s, result, st, ss)
    PROVE  /\ st \in [Positions -> Statuses \cup {"blocked", "skipped", "successful"}]
           /\ Settled(st)
           /\ ss = W!SlicesFollow(given, st, givenSlices)
           /\ Cardinality(Undecided(st)) = Cardinality(Undecided(step)) - 1
<1>1. /\ step \in [Positions -> Statuses \cup {"blocked", "skipped", "successful"}]
      /\ Settled(step) /\ slice = W!SlicesFollow(given, step, givenSlices)
  BY DEF LoopInv
<1>2. /\ st[s] = result /\ \A t \in Positions \ {s} : st[t] = step[t]
      /\ st \in [Positions -> Statuses \cup {"blocked", "skipped", "successful"}]
  BY <1>1 DEF SettlesInto
<1>3. given[s] = "pending"
  BY <1>1 DEF Settled
<1>4. \A t \in Positions : W!PendingStepBecomes(t, step, givenSlices) # "pending" =>
          W!PendingStepBecomes(t, st, givenSlices) = W!PendingStepBecomes(t, step, givenSlices)
  BY <1>2, SettledStepsStay
<1>5. Settled(st)
  <2> SUFFICES ASSUME NEW t \in Positions
               PROVE  IF given[t] # "pending" THEN st[t] = given[t]
                      ELSE st[t] # "pending" =>
                              /\ st[t] \in {"blocked", "skipped", "successful"}
                              /\ st[t] = W!PendingStepBecomes(t, st, givenSlices)
    BY DEF Settled
  <2>1. CASE t = s
    BY <1>2, <1>3, <1>4, <2>1
  <2>2. CASE t # s /\ given[t] # "pending"
    BY <1>1, <1>2, <2>2 DEF Settled
  <2>3. CASE t # s /\ given[t] = "pending" /\ step[t] # "pending"
    <3>1. /\ step[t] \in {"blocked", "skipped", "successful"}
          /\ step[t] = W!PendingStepBecomes(t, step, givenSlices)
      BY <1>1, <2>3 DEF Settled
    <3> QED
      BY <1>2, <1>4, <2>3, <3>1
  <2>4. CASE t # s /\ given[t] = "pending" /\ step[t] = "pending"
    BY <1>2, <2>4
  <2> QED
    BY <2>1, <2>2, <2>3, <2>4
<1>6. ss = W!SlicesFollow(given, st, givenSlices)
  <2>1. ASSUME NEW x \in Slices
        PROVE  ss[x] = W!SlicesFollow(given, st, givenSlices)[x]
    <3>1. CASE StepOf[x] = s
      <4>1. slice[x] = givenSlices[x]
        BY <1>1, <3>1, PendingStepHasItsSlices
      <4>2. W!SlicesFollow(given, st, givenSlices)[x]
                = IF result \in {"blocked", "skipped"} /\ givenSlices[x] = "pending"
                  THEN result ELSE givenSlices[x]
        BY <1>2, <1>3, <3>1 DEF W!SlicesFollow
      <4> QED
        BY <3>1, <4>1, <4>2 DEF SettlesInto
    <3>2. CASE StepOf[x] # s
      <4>1. st[StepOf[x]] = step[StepOf[x]]
        BY <1>2, <3>2, LoopAssumption
      <4>2. W!SlicesFollow(given, st, givenSlices)[x] = W!SlicesFollow(given, step, givenSlices)[x]
        BY <4>1 DEF W!SlicesFollow
      <4> QED
        BY <1>1, <3>2, <4>2 DEF SettlesInto
    <3> QED
      BY <3>1, <3>2
  <2>2. W!SlicesFollow(given, st, givenSlices)
            = [x \in Slices |-> W!SlicesFollow(given, st, givenSlices)[x]]
    BY DEF W!SlicesFollow
  <2>3. ss = [x \in Slices |-> ss[x]]
    BY DEF SettlesInto
  <2> QED
    BY <2>1, <2>2, <2>3
<1>7. Cardinality(Undecided(st)) = Cardinality(Undecided(step)) - 1
  <2>1. Undecided(st) = Undecided(step) \ {s} /\ s \in Undecided(step)
    BY <1>2 DEF Undecided
  <2> QED
    BY <2>1, UndecidedIsFinite, FS_RemoveElement
<1> QED
  BY <1>2, <1>5, <1>6, <1>7

\* The loop settles s and asks for another pass.
Settles(s, result) ==
    /\ SettlesInto(s, result, step', slice')
    /\ progress' = TRUE
    /\ remaining' = remaining \ {s}
    /\ UNCHANGED <<deps, failureOnly, zeroHost, given, givenSlices, pass>>

LEMMA SettlingKeepsLoopInv ==
    ASSUME LoopInv, pass > 0,
           NEW s \in Positions, step[s] = "pending",
           NEW result \in {"blocked", "skipped", "successful"},
           result = W!PendingStepBecomes(s, step, givenSlices),
           Settles(s, result)
    PROVE  LoopInv'
<1>1. PICK st, ss : st = step' /\ ss = slice'
  OBVIOUS
<1>2. /\ step' = st /\ slice' = ss /\ progress' = TRUE /\ remaining' = remaining \ {s}
      /\ UNCHANGED <<deps, failureOnly, zeroHost, given, givenSlices, pass>> /\ SettlesInto(s, result, st, ss)
  BY <1>1 DEF Settles
<1>3. /\ st \in [Positions -> Statuses \cup {"blocked", "skipped", "successful"}]
      /\ Settled(st)
      /\ ss = W!SlicesFollow(given, st, givenSlices)
      /\ Cardinality(Undecided(st)) = Cardinality(Undecided(step)) - 1
  BY <1>2, SettlingAStep
<1>4. Settled(step)' /\ (slice = W!SlicesFollow(given, step, givenSlices))'
  <2>1. (slice = W!SlicesFollow(given, step, givenSlices))'
    BY <1>2, <1>3 DEF W!SlicesFollow
  <2>2. \A t : W!PendingStepBecomes(t, step, givenSlices)'
                    = W!PendingStepBecomes(t, st, givenSlices)
    BY <1>2 DEF W!PendingStepBecomes, W!DependencyState, W!NoOpStep, W!SlicesOf
  <2> QED
    BY <1>2, <1>3, <2>1, <2>2 DEF Settled
<1>5. PassesAreBounded'
  <2>1. /\ Cardinality(Undecided(step)) \in Nat /\ Cardinality(Undecided(given)) \in Nat
        /\ pass \in Nat
        /\ pass + Cardinality(Undecided(step)) + (IF progress THEN 1 ELSE 0)
               <= 1 + Cardinality(Undecided(given))
    BY UndecidedIsFinite DEF LoopInv, PassesAreBounded
  <2>2. pass + Cardinality(Undecided(step)) <= 1 + Cardinality(Undecided(given))
    BY <2>1
  <2>3. pass + Cardinality(Undecided(st)) + 1 <= 1 + Cardinality(Undecided(given))
    BY <1>3, <2>1, <2>2
  <2>4. Undecided(step)' = Undecided(st) /\ Undecided(given)' = Undecided(given)
    BY <1>2 DEF Undecided
  <2> QED
    BY <1>2, <2>1, <2>3, <2>4 DEF PassesAreBounded
<1>6. NothingLeftBehind'
  BY <1>2 DEF NothingLeftBehind
<1>7. remaining' \subseteq Positions /\ (pass = 0 => remaining = {} /\ ~progress)'
  BY <1>2 DEF LoopInv
<1>8. progress' \in BOOLEAN
  BY <1>2, Zenon
<1> QED
  BY <1>2, <1>3, <1>4, <1>5, <1>6, <1>7, <1>8 DEF LoopInv

LEMMA UnchangedLoopRows ==
    ASSUME LoopInv, UNCHANGED <<deps, failureOnly, zeroHost, given, givenSlices, step, slice>>
    PROVE  /\ Settled(step)'
           /\ (slice = W!SlicesFollow(given, step, givenSlices))'
           /\ UNCHANGED <<Undecided(step), Undecided(given)>>
           /\ \A s : UNCHANGED W!PendingStepBecomes(s, step, givenSlices)
<1>1. \A s : W!PendingStepBecomes(s, step, givenSlices)' = W!PendingStepBecomes(s, step, givenSlices)
  BY DEF W!PendingStepBecomes, W!DependencyState, W!NoOpStep, W!SlicesOf
<1>2. UNCHANGED <<Undecided(step), Undecided(given)>>
  BY DEF Undecided
<1>3. Settled(step)'
  BY <1>1 DEF LoopInv, Settled
<1>4. (slice = W!SlicesFollow(given, step, givenSlices))'
  BY DEF LoopInv, W!SlicesFollow
<1> QED
  BY <1>1, <1>2, <1>3, <1>4

LEMMA LoopKeepsInv ==
    ASSUME LoopInv, [Next]_vars
    PROVE  LoopInv'
<1>0. pass \in Nat
  BY DEF LoopInv, PassesAreBounded
<1>1. ASSUME NEW s \in Positions, NotToRun(s)
      PROVE  LoopInv'
  <2>1. PICK result : result = W!DependencyState(s, step)
    OBVIOUS
  <2>2. /\ step[s] = "pending" /\ result \in {"blocked", "skipped"} /\ pass > 0
        /\ step' = [step EXCEPT ![s] = result]
        /\ slice' = [x \in Slices |->
                        IF StepOf[x] = s /\ slice[x] = "pending" THEN result ELSE slice[x]]
        /\ progress' = TRUE /\ remaining' = remaining \ {s}
        /\ UNCHANGED <<deps, failureOnly, zeroHost, given, givenSlices, pass>>
    BY <1>1, <2>1 DEF NotToRun, workflow
  <2>3. Settles(s, result)
    BY <2>2 DEF Settles, SettlesInto
  <2>4. result = W!PendingStepBecomes(s, step, givenSlices)
    BY <2>1, <2>2 DEF W!PendingStepBecomes
  <2> QED
    BY <2>2, <2>3, <2>4, SettlingKeepsLoopInv
<1>2. ASSUME NEW s \in Positions, NothingToRun(s)
      PROVE  LoopInv'
  <2>1. /\ step[s] = "pending" /\ pass > 0
        /\ W!DependencyState(s, step) = "eligible" /\ W!NoOpStep(s, slice)
        /\ step' = [step EXCEPT ![s] = "successful"]
        /\ progress' = TRUE /\ remaining' = remaining \ {s}
        /\ UNCHANGED <<deps, failureOnly, zeroHost, given, givenSlices, pass>> /\ slice' = slice
    BY <1>2 DEF NothingToRun, workflow
  <2>2. slice = W!SlicesFollow(given, step, givenSlices)
    BY DEF LoopInv
  <2>3. W!NoOpStep(s, givenSlices)
    BY <2>1, <2>2, PendingStepHasItsSlices
  <2>4. "successful" = W!PendingStepBecomes(s, step, givenSlices)
    BY <2>1, <2>3 DEF W!PendingStepBecomes
  <2>5. slice' = [x \in Slices |-> slice[x]]
    BY <2>1, <2>2 DEF W!SlicesFollow
  <2>6. Settles(s, "successful")
    BY <2>1, <2>5 DEF Settles, SettlesInto
  <2> QED
    BY <2>1, <2>4, <2>6, SettlingKeepsLoopInv
<1>3. ASSUME NEW s \in Positions, LeaveStep(s)
      PROVE  LoopInv'
  <2>1. /\ step[s] # "pending" \/ W!PendingStepBecomes(s, step, slice) = "pending"
        /\ remaining' = remaining \ {s} /\ pass > 0
        /\ UNCHANGED <<deps, failureOnly, zeroHost, given, givenSlices, step, slice, progress, pass>>
    BY <1>3 DEF LeaveStep, workflow
  <2>2. step[s] = "pending" => W!PendingStepBecomes(s, step, givenSlices) = "pending"
    BY <2>1, PendingStepHasItsSlices DEF LoopInv
  <2>3. NothingLeftBehind'
    BY <2>1, <2>2, UnchangedLoopRows DEF LoopInv, NothingLeftBehind, Undecided
  <2>4. PassesAreBounded'
    BY <2>1, UnchangedLoopRows DEF LoopInv, PassesAreBounded
  <2> QED
    BY <1>0, <2>1, <2>3, <2>4, UnchangedLoopRows DEF LoopInv
<1>4. CASE NextPass
  <2>1. /\ pass > 0 /\ progress /\ remaining' = Positions /\ progress' = FALSE /\ pass' = pass + 1
        /\ UNCHANGED <<deps, failureOnly, zeroHost, given, givenSlices, step, slice>>
    BY <1>4 DEF NextPass, workflow
  <2>2. UNCHANGED <<Undecided(step), Undecided(given)>>
    BY <2>1, UnchangedLoopRows
  <2>3. PassesAreBounded'
    BY <1>0, <2>1, <2>2, UndecidedIsFinite DEF LoopInv, PassesAreBounded
  <2>4. NothingLeftBehind'
    BY <2>1 DEF NothingLeftBehind, Undecided
  <2>5. progress' \in BOOLEAN
    BY <2>1, Zenon
  <2> QED
    BY <1>0, <2>1, <2>3, <2>4, <2>5, UnchangedLoopRows DEF LoopInv
<1>5. CASE EndLoop
  <2>1. /\ remaining = {} /\ ~progress /\ pass' = 0
        /\ UNCHANGED <<deps, failureOnly, zeroHost, given, givenSlices, step, slice, remaining, progress>>
    BY <1>5 DEF EndLoop, workflow
  <2>2. PassesAreBounded'
    BY <2>1 DEF PassesAreBounded
  <2>3. NothingLeftBehind'
    BY <2>1, UnchangedLoopRows DEF LoopInv, NothingLeftBehind
  <2> QED
    BY <2>1, <2>2, <2>3, UnchangedLoopRows DEF LoopInv
<1>6. CASE UNCHANGED vars
  <2>1. UNCHANGED <<deps, failureOnly, zeroHost, given, givenSlices, step, slice, remaining, progress, pass>>
    BY <1>6 DEF vars, workflow
  <2>2. PassesAreBounded'
    BY <2>1, UnchangedLoopRows DEF LoopInv, PassesAreBounded
  <2>3. NothingLeftBehind'
    BY <2>1, UnchangedLoopRows DEF LoopInv, NothingLeftBehind
  <2> QED
    BY <2>1, <2>2, <2>3, UnchangedLoopRows DEF LoopInv
<1> QED
  BY <1>1, <1>2, <1>3, <1>4, <1>5, <1>6 DEF Next

\* Once the loop is over every step has what the final statuses make of it.
LEMMA EndOfLoop ==
    ASSUME LoopInv, pass = 0
    PROVE  /\ step \in W!Reconcilings(given)
           /\ W!Reconciles(given, givenSlices, step)
<1>1. /\ step \in [Positions -> Statuses \cup {"blocked", "skipped", "successful"}]
      /\ Settled(step)
  BY DEF LoopInv
<1>2. \A s \in Undecided(step) : W!PendingStepBecomes(s, step, givenSlices) = "pending"
  BY DEF LoopInv, NothingLeftBehind
<1>3. W!Reconciles(given, givenSlices, step)
  <2> SUFFICES ASSUME NEW s \in Positions
               PROVE  step[s] = IF given[s] = "pending"
                                THEN W!PendingStepBecomes(s, step, givenSlices)
                                ELSE given[s]
    BY DEF W!Reconciles
  <2>1. CASE given[s] # "pending"
    BY <1>1, <2>1 DEF Settled
  <2>2. CASE given[s] = "pending" /\ step[s] = "pending"
    BY <1>2, <2>2 DEF Undecided
  <2>3. CASE given[s] = "pending" /\ step[s] # "pending"
    BY <1>1, <2>3 DEF Settled
  <2> QED
    BY <2>1, <2>2, <2>3
<1>4. step \in W!Reconcilings(given)
  <2> DEFINE Pending == {s \in Positions : given[s] = "pending"}
             f == [s \in Pending |-> step[s]]
             result == [s \in Positions |-> IF given[s] = "pending" THEN f[s] ELSE given[s]]
  <2>1. \A s \in Pending : step[s] \in {"pending", "blocked", "skipped", "successful"}
    BY <1>1 DEF Settled
  <2>2. f \in [Pending -> {"pending", "blocked", "skipped", "successful"}]
    BY <2>1
  <2>3. result \in W!Reconcilings(given)
    BY <2>2 DEF W!Reconcilings
  <2>4. \A s \in Positions : result[s] = step[s]
    BY <1>1 DEF Settled
  <2>5. result = step
    BY <1>1, <2>4
  <2> QED
    BY <2>3, <2>5
<1> QED
  BY <1>3, <1>4

LEMMA LoopInvIsEnough ==
    ASSUME LoopInv
    PROVE  LoopFindsTheFixpoint
<1>1. pass <= 1 + Cardinality(Undecided(given))
  BY UndecidedIsFinite DEF LoopInv, PassesAreBounded
<1>2. ASSUME pass = 0
      PROVE  {final \in W!Reconcilings(given) : W!Reconciles(given, givenSlices, final)} = {step}
  <2>1. step \in W!Reconcilings(given) /\ W!Reconciles(given, givenSlices, step)
    BY <1>2, EndOfLoop
  <2>2. ASSUME NEW final \in W!Reconcilings(given), W!Reconciles(given, givenSlices, final)
        PROVE  final = step
    <3>1. final = [s \in Positions |-> final[s]] /\ step = [s \in Positions |-> step[s]]
      BY <2>1 DEF W!Reconcilings
    <3>2. \A s \in Positions : final[s] = step[s]
      BY <2>1, <2>2, FixpointIsUnique DEF LoopInv
    <3> QED
      BY <3>1, <3>2
  <2> QED
    BY <2>1, <2>2
<1>3. slice = W!SlicesFollow(given, step, givenSlices)
  BY DEF LoopInv
<1>4. Undecided(given) = {s \in Positions : given[s] = "pending"}
  BY DEF Undecided
<1>5. pass <= 1 + Cardinality({s \in Positions : given[s] = "pending"})
  BY <1>1, <1>4
<1>6. ASSUME pass = 0
      PROVE  /\ {final \in W!Reconcilings(given) :
                     W!Reconciles(given, givenSlices, final)} = {step}
             /\ slice = W!SlicesFollow(given, step, givenSlices)
  BY <1>2, <1>3, <1>6
<1> QED
  BY <1>5, <1>6 DEF LoopFindsTheFixpoint

\* The loop of reconcile_non_runnable_steps makes at most one pass more than
\* there are pending steps, and it stops at the only reconciliation of the
\* statuses it was given, with the slices of the blocked and skipped steps, and
\* only those, following: for every finite workflow, in whatever order its
\* positions lie along the dependencies, all given statuses and all slices.
THEOREM TheLoopFindsTheFixpoint == Spec => []LoopFindsTheFixpoint
<1>1. Init => LoopInv
  BY LoopInitInv
<1>2. LoopInv /\ [Next]_vars => LoopInv'
  BY LoopKeepsInv
<1>3. LoopInv => LoopFindsTheFixpoint
  BY LoopInvIsEnough
<1> QED
  BY <1>1, <1>2, <1>3, PTL DEF Spec

=============================================================================

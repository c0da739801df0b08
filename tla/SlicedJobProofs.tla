-------------------------- MODULE SlicedJobProofs ---------------------------
(***************************************************************************)
(* Theorems about SlicedJob for every workflow, plan of slices, set of     *)
(* runners, number of claims and choice of disturbances.                   *)
(*                                                                         *)
(* The first part is about JobRows: what every transaction does to the     *)
(* types and invariants of the rows.  The second part combines these       *)
(* lemmas into theorems about the system that runs the transactions.       *)
(***************************************************************************)
EXTENDS SlicedJobInvariants, FiniteSetTheorems, TLAPS

-----------------------------------------------------------------------------
(* The workflow rules.                                                     *)

\* The dependency state of a step is a function of the statuses of its
\* dependencies (dependency_state reads no other step).
LEMMA DependencyStateIsLocal ==
    ASSUME NEW s \in Steps, NEW f, NEW g,
           \A d \in Deps[s] : d \in Steps =>
               \/ f[d] = g[d]
               \/ f[d] \notin TerminalStepStatuses /\ g[d] \notin TerminalStepStatuses
    PROVE  DependencyState(s, f) = DependencyState(s, g)
<1>1. CASE ~(Deps[s] \subseteq Steps)
  BY <1>1 DEF DependencyState
<1>2. CASE Deps[s] \subseteq Steps
  <2>1. \A d \in Deps[s] :
           \/ f[d] = g[d]
           \/ f[d] \notin TerminalStepStatuses /\ g[d] \notin TerminalStepStatuses
    BY <1>2
  <2>2. (\E d \in Deps[s] : f[d] \notin TerminalStepStatuses)
             <=> (\E d \in Deps[s] : g[d] \notin TerminalStepStatuses)
    BY <2>1
  <2>3. (\A d \in Deps[s] : f[d] \in TerminalStepStatuses)
            => \A d \in Deps[s] : f[d] = g[d]
    BY <2>1
  <2>4. (\A d \in Deps[s] : f[d] \in TerminalStepStatuses) =>
        /\ (\E d \in Deps[s] : f[d] = "failed") <=> (\E d \in Deps[s] : g[d] = "failed")
        /\ (\A d \in Deps[s] : f[d] = "successful") <=> (\A d \in Deps[s] : g[d] = "successful")
    BY <2>3
  <2> QED
    BY <2>2, <2>4 DEF DependencyState
<1> QED
  BY <1>1, <1>2

\* A reconciliation has one result, whatever the order in which the loop of
\* reconcile_non_runnable_steps visits the steps: two fixpoints differ nowhere,
\* for a step where they did would have a dependency where they do, and the
\* dependencies contain no cycle.
THEOREM ReconciliationIsUnique ==
    ASSUME NEW st, NEW ss,
           NEW f, NEW g,
           Reconciles(st, ss, f), Reconciles(st, ss, g)
    PROVE  \A s \in Steps : f[s] = g[s]
<1> DEFINE Differ == {s \in Steps : f[s] # g[s]}
<1>1. SUFFICES ASSUME Differ # {} PROVE FALSE
  OBVIOUS
<1>2. PICK s \in Differ : Deps[s] \cap Differ = {}
  <2>1. Differ \in SUBSET Steps
    OBVIOUS
  <2> QED
    BY <1>1, <2>1, AcyclicAssumption
<1>3. \A d \in Deps[s] : d \in Steps => f[d] = g[d]
  BY <1>2
<1>4. DependencyState(s, f) = DependencyState(s, g)
  BY <1>2, <1>3, DependencyStateIsLocal
<1>5. PendingStepBecomes(s, f, ss) = PendingStepBecomes(s, g, ss)
  BY <1>4 DEF PendingStepBecomes
<1>6. f[s] = g[s]
  BY <1>2, <1>5 DEF Reconciles
<1> QED
  BY <1>2, <1>6

-----------------------------------------------------------------------------
(* The reconciliation and aggregation operators.                           *)

\* A reconciliation (reconcile_non_runnable_steps) changes pending steps only,
\* and none of them starts to run.
LEMMA ReconcilingFacts ==
    ASSUME NEW st \in [Steps -> StepStatuses],
           NEW final \in Reconcilings(st)
    PROVE  /\ final \in [Steps -> StepStatuses]
           /\ \A s \in Steps :
                \/ final[s] = st[s]
                \/ st[s] = "pending" /\ final[s] \in {"blocked", "skipped", "successful"}
<1>1. PICK f \in [{s \in Steps : st[s] = "pending"} ->
                    {"pending", "blocked", "skipped", "successful"}] :
          final = [s \in Steps |-> IF st[s] = "pending" THEN f[s] ELSE st[s]]
  BY DEF Reconcilings
<1> QED
  BY <1>1 DEF StepStatuses, TerminalStepStatuses

\* Slices follow their step into "blocked" or "skipped" and nowhere else.
LEMMA SlicesFollowFacts ==
    ASSUME NEW st \in [Steps -> StepStatuses],
           NEW final \in [Steps -> StepStatuses],
           NEW ss \in [Slices -> SliceStatuses]
    PROVE  /\ SlicesFollow(st, final, ss) \in [Slices -> SliceStatuses]
           /\ \A x \in Slices :
                \/ SlicesFollow(st, final, ss)[x] = ss[x]
                \/ /\ ss[x] = "pending" /\ st[StepOf[x]] = "pending"
                   /\ SlicesFollow(st, final, ss)[x] \in {"blocked", "skipped"}
  BY WorkflowAssumption DEF SlicesFollow, SliceStatuses

\* A pending step that a reconciliation ends has no pending slice left: blocked
\* and skipped steps take their slices along, a no-op step has none.
LEMMA ReconcileLeavesNoPending ==
    ASSUME NEW st \in [Steps -> StepStatuses],
           NEW ss \in [Slices -> SliceStatuses],
           NEW final \in Reconcilings(st),
           Reconciles(st, ss, final),
           \A x \in Slices : ss[x] = "pending" => st[StepOf[x]] \in {"pending", "running"},
           NEW x \in Slices, SlicesFollow(st, final, ss)[x] = "pending"
    PROVE  final[StepOf[x]] \in {"pending", "running"}
<1>2. /\ final \in [Steps -> StepStatuses]
      /\ \A s \in Steps :
           \/ final[s] = st[s]
           \/ st[s] = "pending" /\ final[s] \in {"blocked", "skipped", "successful"}
  BY ReconcilingFacts
<1>3. StepOf[x] \in Steps
  BY WorkflowAssumption
<1>4. ss[x] = "pending"
  BY <1>2, SlicesFollowFacts
<1>5. ~(st[StepOf[x]] = "pending" /\ final[StepOf[x]] \in {"blocked", "skipped"})
  BY <1>4 DEF SlicesFollow
<1>6. ASSUME st[StepOf[x]] = "pending", final[StepOf[x]] = "successful"
      PROVE  FALSE
  <2>1. PendingStepBecomes(StepOf[x], final, ss) = "successful"
    BY <1>3, <1>6 DEF Reconciles
  <2>2. NoOpStep(StepOf[x], ss)
    BY <2>1 DEF PendingStepBecomes
  <2>3. x \in SlicesOf(StepOf[x], ss)
    BY <1>4 DEF SlicesOf
  <2> QED
    BY <1>4, <2>2, <2>3 DEF NoOpStep
<1> QED
  BY <1>2, <1>3, <1>4, <1>5, <1>6

\* _aggregate_step ends the step, and only when all of its slices are final.
LEMMA AggregateStepFacts ==
    ASSUME NEW st \in [Steps -> StepStatuses], NEW s \in Steps, NEW ss
    PROVE  /\ AggregateStep(s, st, ss) \in [Steps -> StepStatuses]
           /\ \A t \in Steps \ {s} : AggregateStep(s, st, ss)[t] = st[t]
           /\ \/ AggregateStep(s, st, ss)[s] = st[s]
              \/ /\ AllSlicesFinal(s, ss)
                 /\ AggregateStep(s, st, ss)[s] \in TerminalStepStatuses
<1>1. SliceVerdict(s, ss) \in TerminalStepStatuses
  BY DEF SliceVerdict, TerminalStepStatuses
<1>2. TerminalStepStatuses \subseteq StepStatuses
  BY DEF StepStatuses
<1> QED
  BY <1>1, <1>2 DEF AggregateStep

\* update_job_oversight_state leaves the status or pauses an open Job that has
\* no running step.
LEMMA UpdateOversightFacts ==
    ASSUME NEW j \in JobStatuses, NEW st, NEW ok
    PROVE  \/ UpdateOversight(j, st, ok) = j
           \/ /\ UpdateOversight(j, st, ok) = "waiting_oversight"
              /\ j \notin TerminalJobStatuses \cup {"cancelling"}
              /\ \A s \in Steps : st[s] # "running"
  BY DEF UpdateOversight

\* _finalize_job_if_complete ends the Job exactly when every step has ended.
LEMMA FinalizeFacts ==
    ASSUME NEW j \in JobStatuses, NEW st
    PROVE  /\ (\E s \in Steps : st[s] \notin TerminalStepStatuses)
                => FinalizeJob(j, st) = j
           /\ (\A s \in Steps : st[s] \in TerminalStepStatuses)
                => FinalizeJob(j, st) \in TerminalJobStatuses
           /\ FinalizeJob(j, st) \in JobStatuses
  BY DEF FinalizeJob, TerminalJobStatuses, JobStatuses

-----------------------------------------------------------------------------
(* Settle: the tail of every transaction that ends a slice or a step.      *)

\* What Settle leaves alone: slices other than pending ones of pending steps,
\* steps that are not pending, and a Job that has ended or is cancelling is
\* never paused or reopened.
LEMMA SettleFacts ==
    ASSUME job \in JobStatuses,
           NEW st \in [Steps -> StepStatuses],
           NEW ss \in [Slices -> SliceStatuses],
           Settle(st, ss)
    PROVE  /\ step' \in [Steps -> StepStatuses]
           /\ slice' \in [Slices -> SliceStatuses]
           /\ job' \in JobStatuses
           /\ \A s \in Steps :
                \/ step'[s] = st[s]
                \/ st[s] = "pending" /\ step'[s] \in {"blocked", "skipped", "successful"}
           /\ \A x \in Slices :
                \/ slice'[x] = ss[x]
                \/ /\ ss[x] = "pending" /\ st[StepOf[x]] = "pending"
                   /\ slice'[x] \in {"blocked", "skipped"}
           /\ \/ job' = job
              \/ job' \in TerminalJobStatuses /\ \A s \in Steps : step'[s] \in TerminalStepStatuses
              \/ /\ job' = "waiting_oversight"
                 /\ job \notin TerminalJobStatuses \cup {"cancelling"}
                 /\ \A s \in Steps : step'[s] # "running"
           /\ (\A s \in Steps : step'[s] \in TerminalStepStatuses) => job' \in TerminalJobStatuses
<1>1. PICK final \in Reconcilings(st) :
          /\ step' = final
          /\ slice' = SlicesFollow(st, final, ss)
          /\ job' = FinalizeJob(UpdateOversight(job, final, approved), final)
  BY DEF Settle
<1>2. /\ final \in [Steps -> StepStatuses]
      /\ \A s \in Steps :
           \/ final[s] = st[s]
           \/ st[s] = "pending" /\ final[s] \in {"blocked", "skipped", "successful"}
  BY ReconcilingFacts
<1>3. /\ SlicesFollow(st, final, ss) \in [Slices -> SliceStatuses]
      /\ \A x \in Slices :
           \/ SlicesFollow(st, final, ss)[x] = ss[x]
           \/ /\ ss[x] = "pending" /\ st[StepOf[x]] = "pending"
              /\ SlicesFollow(st, final, ss)[x] \in {"blocked", "skipped"}
  BY <1>2, SlicesFollowFacts
<1> DEFINE paused == UpdateOversight(job, final, approved)
<1>4. \/ paused = job
      \/ /\ paused = "waiting_oversight"
         /\ job \notin TerminalJobStatuses \cup {"cancelling"}
         /\ \A s \in Steps : final[s] # "running"
  BY UpdateOversightFacts
<1>5. paused \in JobStatuses
  BY <1>4 DEF JobStatuses
<1> HIDE DEF paused
<1>6. /\ (\E s \in Steps : final[s] \notin TerminalStepStatuses)
            => FinalizeJob(paused, final) = paused
      /\ (\A s \in Steps : final[s] \in TerminalStepStatuses)
            => FinalizeJob(paused, final) \in TerminalJobStatuses
      /\ FinalizeJob(paused, final) \in JobStatuses
  BY <1>5, FinalizeFacts
<1>7. job' = FinalizeJob(paused, final)
  BY <1>1 DEF paused
<1>8. /\ \/ job' = job
         \/ job' \in TerminalJobStatuses /\ \A s \in Steps : step'[s] \in TerminalStepStatuses
         \/ /\ job' = "waiting_oversight"
            /\ job \notin TerminalJobStatuses \cup {"cancelling"}
            /\ \A s \in Steps : step'[s] # "running"
      /\ (\A s \in Steps : step'[s] \in TerminalStepStatuses) => job' \in TerminalJobStatuses
      /\ job' \in JobStatuses
  BY <1>1, <1>4, <1>6, <1>7
<1> QED
  BY <1>1, <1>2, <1>3, <1>8

\* The same for the transactions that end in Settle.
LEMMA SettleLeavesNoPending ==
    ASSUME NEW st \in [Steps -> StepStatuses],
           NEW ss \in [Slices -> SliceStatuses],
           Settle(st, ss),
           \A x \in Slices : ss[x] = "pending" => st[StepOf[x]] \in {"pending", "running"}
    PROVE  PendingSlicesOfOpenSteps'
  BY ReconcileLeavesNoPending DEF Settle, PendingSlicesOfOpenSteps

\* A live slice that ends keeps the invariants of the rows
\* (fail_pending_remote_slice, _complete_slice, mark_lost_remote_slice).
LEMMA EndSliceFacts ==
    ASSUME RowsTypeOK, RowsInv,
           NEW x \in Slices, slice[x] \in LiveSliceStatuses,
           NEW status \in FinalSliceStatuses,
           EndSlice(x, status),
           refresher' = refresher
    PROVE  /\ step' \in [Steps -> StepStatuses]
           /\ slice' \in [Slices -> SliceStatuses]
           /\ job' \in JobStatuses
           /\ RowsInv'
           /\ CoverInv => CoverInv'
           /\ slice'[x] = status
           /\ \A y \in Slices \ {x} :
                \/ slice'[y] = slice[y]
                \/ slice[y] = "pending" /\ slice'[y] \in {"blocked", "skipped"}
<1> DEFINE ss == [slice EXCEPT ![x] = status]
           s  == StepOf[x]
           st == AggregateStep(s, step, ss)
<1>1. /\ s \in Steps /\ step \in [Steps -> StepStatuses] /\ job \in JobStatuses
      /\ slice \in [Slices -> SliceStatuses]
  BY WorkflowAssumption DEF RowsTypeOK
<1>2. ss \in [Slices -> SliceStatuses]
  BY <1>1 DEF SliceStatuses
<1>3. st \in [Steps -> StepStatuses]
  BY <1>1, AggregateStepFacts
<1>4. Settle(st, ss)
  BY DEF EndSlice
<1>5. /\ \A t \in Steps \ {s} : st[t] = step[t]
      /\ \/ st[s] = step[s]
         \/ AllSlicesFinal(s, ss) /\ st[s] \in TerminalStepStatuses
  BY <1>1, AggregateStepFacts
<1>6. /\ ss[x] = status
      /\ \A y \in Slices \ {x} : ss[y] = slice[y]
  BY <1>1
<1>7. ASSUME NEW y \in Slices, ss[y] \notin FinalSliceStatuses, ss[y] # "absent"
      PROVE  st[StepOf[y]] = step[StepOf[y]]
  <2>1. StepOf[y] \in Steps
    BY WorkflowAssumption
  <2>2. CASE StepOf[y] = s
    <3>1. ~AllSlicesFinal(s, ss)
      BY <1>7, <2>2 DEF AllSlicesFinal, SlicesOf
    <3> QED
      BY <1>5, <2>2, <3>1
  <2> QED
    BY <1>5, <2>1, <2>2
<1> HIDE DEF ss, st
<1>8. /\ step' \in [Steps -> StepStatuses]
      /\ slice' \in [Slices -> SliceStatuses]
      /\ job' \in JobStatuses
      /\ \A t \in Steps :
           \/ step'[t] = st[t]
           \/ st[t] = "pending" /\ step'[t] \in {"blocked", "skipped", "successful"}
      /\ \A y \in Slices :
           \/ slice'[y] = ss[y]
           \/ /\ ss[y] = "pending" /\ st[StepOf[y]] = "pending"
              /\ slice'[y] \in {"blocked", "skipped"}
      /\ \/ job' = job
         \/ job' \in TerminalJobStatuses /\ \A t \in Steps : step'[t] \in TerminalStepStatuses
         \/ /\ job' = "waiting_oversight"
            /\ job \notin TerminalJobStatuses \cup {"cancelling"}
            /\ \A t \in Steps : step'[t] # "running"
  BY <1>1, <1>2, <1>3, <1>4, SettleFacts
<1>9. slice'[x] = status
  BY <1>6, <1>8 DEF FinalSliceStatuses
<1>10. \A y \in Slices \ {x} :
          \/ slice'[y] = slice[y]
          \/ slice[y] = "pending" /\ slice'[y] \in {"blocked", "skipped"}
  BY <1>6, <1>8
<1>11. ActiveSlicesOfRunningSteps'
  <2> SUFFICES ASSUME NEW y \in Slices, slice'[y] \in ActiveSliceStatuses
               PROVE  step'[StepOf[y]] = "running"
    BY DEF ActiveSlicesOfRunningSteps, ActiveSliceStatuses
  <2>1. /\ y # x /\ ss[y] = slice[y] /\ slice[y] \in ActiveSliceStatuses
        /\ ss[y] \notin FinalSliceStatuses /\ ss[y] # "absent"
    BY <1>6, <1>8, <1>9 DEF ActiveSliceStatuses, FinalSliceStatuses
  <2>2. st[StepOf[y]] = "running"
    BY <1>7, <2>1 DEF RowsInv, ActiveSlicesOfRunningSteps
  <2> QED
    BY <1>8, <2>2, WorkflowAssumption
<1>12. IdleJobRunsNothing'
  <2>1. ASSUME job' = job, job \in {"queued", "waiting_oversight"}, NEW t \in Steps
        PROVE  step'[t] # "running"
    <3>1. st[t] # "running"
      BY <1>5, <2>1 DEF RowsInv, IdleJobRunsNothing, TerminalStepStatuses
    <3> QED
      BY <1>8, <3>1
  <2> QED
    BY <1>8, <2>1 DEF IdleJobRunsNothing, TerminalJobStatuses
<1>13. EndedJobHasEndedSteps'
  <2>1. ASSUME job' = job, job \in TerminalJobStatuses, NEW t \in Steps
        PROVE  step'[t] \in TerminalStepStatuses
    <3>1. st[t] \in TerminalStepStatuses
      BY <1>5, <2>1 DEF RowsInv, EndedJobHasEndedSteps
    <3> QED
      BY <1>8, <3>1 DEF TerminalStepStatuses
  <2> QED
    BY <1>8, <2>1 DEF EndedJobHasEndedSteps, TerminalJobStatuses
<1>14. RefreshFollowsTheSlices'
  <2> SUFFICES ASSUME NEW t \in Steps, refresher[t] # "none"
               PROVE  /\ AllSlicesFinal(t, slice')
                      /\ step'[t] = "running" \/ job' \in TerminalJobStatuses
    BY DEF RefreshFollowsTheSlices, AllSlicesFinal, SlicesOf
  <2>1. AllSlicesFinal(t, slice) /\ (step[t] = "running" \/ job \in TerminalJobStatuses)
    BY DEF RowsInv, RefreshFollowsTheSlices
  <2>2. t # s
    BY <2>1 DEF AllSlicesFinal, SlicesOf, LiveSliceStatuses, FinalSliceStatuses
  <2>3. \A y \in Slices : StepOf[y] = t =>
            y # x /\ (slice'[y] = slice[y] \/ slice[y] = "pending")
    BY <1>10, <2>2
  <2>4. \A y \in SlicesOf(t, slice) : slice'[y] = slice[y]
    BY <2>1, <2>3 DEF AllSlicesFinal, SlicesOf, FinalSliceStatuses
  <2>5. \A y \in Slices : StepOf[y] = t /\ slice[y] = "absent" => slice'[y] = "absent"
    BY <2>3
  <2>6. SlicesOf(t, slice') = SlicesOf(t, slice)
    BY <2>4, <2>5 DEF SlicesOf
  <2>7. AllSlicesFinal(t, slice')
    BY <2>1, <2>4, <2>6 DEF AllSlicesFinal
  <2>8. step[t] = "running" => step'[t] = "running"
    BY <1>5, <1>8, <2>2
  <2>9. job \in TerminalJobStatuses => job' \in TerminalJobStatuses
    BY <1>8
  <2> QED
    BY <2>1, <2>7, <2>8, <2>9
<1>15. ASSUME CoverInv PROVE CoverInv'
  <2>1. \A y \in Slices : slice'[y] = "absent" => slice[y] = "absent"
    BY <1>9, <1>10 DEF FinalSliceStatuses
  <2>2. EveryStepHasSlices'
    <3> SUFFICES ASSUME NEW t \in Steps PROVE SlicesOf(t, slice') # {}
      BY DEF EveryStepHasSlices, SlicesOf
    <3>1. PICK y \in Slices : StepOf[y] = t /\ slice[y] # "absent"
      BY <1>15 DEF CoverInv, EveryStepHasSlices, SlicesOf
    <3> QED
      BY <2>1, <3>1 DEF SlicesOf
  <2>3. ASSUME NEW y \in Slices, ss[y] = "pending"
        PROVE  st[StepOf[y]] \in {"pending", "running"}
    BY <1>6, <1>7, <1>15, <2>3 DEF CoverInv, PendingSlicesOfOpenSteps, FinalSliceStatuses
  <2>4. PendingSlicesOfOpenSteps'
    BY <1>2, <1>3, <1>4, <2>3, SettleLeavesNoPending
  <2> QED
    BY <2>2, <2>4 DEF CoverInv
<1> QED
  BY <1>8, <1>9, <1>10, <1>11, <1>12, <1>13, <1>14, <1>15 DEF RowsInv

-----------------------------------------------------------------------------
(* Claiming.                                                               *)

\* What the reconciliation of a claim request may assume and leaves behind.
LEMMA ReconciledRows ==
    ASSUME RowsTypeOK, RowsInv,
           NEW final \in Reconcilings(step),
           Reconciles(step, slice, final)
    PROVE  /\ final \in [Steps -> StepStatuses]
           /\ SlicesFollow(step, final, slice) \in [Slices -> SliceStatuses]
           /\ \A s \in Steps :
                \/ final[s] = step[s]
                \/ step[s] = "pending" /\ final[s] \in {"blocked", "skipped", "successful"}
           /\ \A x \in Slices :
                \/ SlicesFollow(step, final, slice)[x] = slice[x]
                \/ /\ slice[x] = "pending"
                   /\ SlicesFollow(step, final, slice)[x] \in {"blocked", "skipped"}
           /\ \A x \in Slices :
                SlicesFollow(step, final, slice)[x] \in ActiveSliceStatuses
                    => final[StepOf[x]] = "running"
           /\ CoverInv => \A x \in Slices :
                SlicesFollow(step, final, slice)[x] = "pending"
                    => final[StepOf[x]] \in {"pending", "running"}
<1>1. step \in [Steps -> StepStatuses] /\ slice \in [Slices -> SliceStatuses]
  BY DEF RowsTypeOK
<1>2. /\ final \in [Steps -> StepStatuses]
      /\ \A s \in Steps :
           \/ final[s] = step[s]
           \/ step[s] = "pending" /\ final[s] \in {"blocked", "skipped", "successful"}
  BY <1>1, ReconcilingFacts
<1>3. /\ SlicesFollow(step, final, slice) \in [Slices -> SliceStatuses]
      /\ \A x \in Slices :
           \/ SlicesFollow(step, final, slice)[x] = slice[x]
           \/ /\ slice[x] = "pending"
              /\ SlicesFollow(step, final, slice)[x] \in {"blocked", "skipped"}
  BY <1>1, <1>2, SlicesFollowFacts
<1>4. ASSUME NEW x \in Slices, SlicesFollow(step, final, slice)[x] \in ActiveSliceStatuses
      PROVE  final[StepOf[x]] = "running"
  <2>1. slice[x] \in ActiveSliceStatuses
    BY <1>3, <1>4 DEF ActiveSliceStatuses
  <2>2. step[StepOf[x]] = "running"
    BY <2>1 DEF RowsInv, ActiveSlicesOfRunningSteps
  <2> QED
    BY <1>2, <2>2, WorkflowAssumption
<1>5. ASSUME CoverInv, NEW x \in Slices, SlicesFollow(step, final, slice)[x] = "pending"
      PROVE  final[StepOf[x]] \in {"pending", "running"}
  BY <1>1, <1>5, ReconcileLeavesNoPending DEF CoverInv, PendingSlicesOfOpenSteps
<1> QED
  BY <1>2, <1>3, <1>4, <1>5

\* Rows on which only pending slices of steps other than those being refreshed
\* have changed, and no slice has vanished, keep RefreshFollowsTheSlices and
\* EveryStepHasSlices.
LEMMA FinalSlicesStay ==
    ASSUME RowsTypeOK, RefreshFollowsTheSlices,
           refresher' = refresher,
           \A x \in Slices : slice'[x] = slice[x]
                             \/ (slice[x] \in LiveSliceStatuses /\ slice'[x] # "absent"),
           \A s \in Steps : step[s] = "running" => step'[s] = "running" \/ job' \in TerminalJobStatuses,
           job \in TerminalJobStatuses => job' \in TerminalJobStatuses
    PROVE  /\ RefreshFollowsTheSlices'
           /\ EveryStepHasSlices => EveryStepHasSlices'
<1>1. ASSUME NEW s \in Steps, refresher[s] # "none"
      PROVE  /\ AllSlicesFinal(s, slice')
             /\ step'[s] = "running" \/ job' \in TerminalJobStatuses
  <2>1. AllSlicesFinal(s, slice) /\ (step[s] = "running" \/ job \in TerminalJobStatuses)
    BY <1>1 DEF RefreshFollowsTheSlices
  <2>2. \A x \in Slices : StepOf[x] = s => slice'[x] = slice[x]
    BY <2>1 DEF AllSlicesFinal, SlicesOf, FinalSliceStatuses, LiveSliceStatuses
  <2>3. SlicesOf(s, slice') = SlicesOf(s, slice)
    BY <2>2 DEF SlicesOf
  <2>4. AllSlicesFinal(s, slice')
    BY <2>1, <2>2, <2>3 DEF AllSlicesFinal, SlicesOf
  <2> QED
    BY <1>1, <2>1, <2>4
<1>2. RefreshFollowsTheSlices'
  BY <1>1 DEF RefreshFollowsTheSlices, AllSlicesFinal, SlicesOf
<1>3. ASSUME EveryStepHasSlices, NEW s \in Steps
      PROVE  SlicesOf(s, slice') # {}
  <2>1. PICK x \in Slices : StepOf[x] = s /\ slice[x] # "absent"
    BY <1>3 DEF EveryStepHasSlices, SlicesOf
  <2> QED
    BY <2>1 DEF SlicesOf
<1>4. EveryStepHasSlices => EveryStepHasSlices'
  BY <1>3 DEF EveryStepHasSlices, SlicesOf
<1> QED
  BY <1>2, <1>4

LEMMA PollJobKeepsRows ==
    ASSUME RowsTypeOK, RowsInv, PollJob
    PROVE  RowsTypeOK' /\ RowsInv' /\ (CoverInv => CoverInv')
<1>1. PICK final \in Reconcilings(step) :
          /\ Reconciles(step, slice, final)
          /\ step' = final
          /\ slice' = SlicesFollow(step, final, slice)
          /\ job' = UpdateOversight(job, final, approved)
  BY DEF PollJob
<1>2. /\ step' \in [Steps -> StepStatuses]
      /\ slice' \in [Slices -> SliceStatuses]
      /\ \A s \in Steps :
           \/ step'[s] = step[s]
           \/ step[s] = "pending" /\ step'[s] \in {"blocked", "skipped", "successful"}
      /\ \A x \in Slices :
           \/ slice'[x] = slice[x]
           \/ slice[x] = "pending" /\ slice'[x] \in {"blocked", "skipped"}
      /\ \A x \in Slices :
           slice'[x] \in ActiveSliceStatuses => step'[StepOf[x]] = "running"
      /\ CoverInv => \A x \in Slices :
           slice'[x] = "pending" => step'[StepOf[x]] \in {"pending", "running"}
  BY <1>1, ReconciledRows
<1>3. /\ job \in {"queued", "running"} /\ job \in JobStatuses
      /\ UNCHANGED <<started, approved, token, owner, refresher, targets>>
  BY DEF PollJob, RowsTypeOK
<1>4. /\ job' \in JobStatuses \ TerminalJobStatuses
      /\ job' = job \/ \A s \in Steps : step'[s] # "running"
  BY <1>1, <1>3, UpdateOversightFacts DEF JobStatuses, TerminalJobStatuses
<1>5. RowsTypeOK'
  BY <1>2, <1>3, <1>4 DEF RowsTypeOK
<1>6. RefreshFollowsTheSlices' /\ (EveryStepHasSlices => EveryStepHasSlices')
  <2>1. \A x \in Slices : slice'[x] = slice[x]
                          \/ (slice[x] \in LiveSliceStatuses /\ slice'[x] # "absent")
    BY <1>2 DEF LiveSliceStatuses
  <2>2. \A s \in Steps : step[s] = "running" => step'[s] = "running" \/ job' \in TerminalJobStatuses
    BY <1>2
  <2>3. job \notin TerminalJobStatuses
    BY <1>3 DEF TerminalJobStatuses
  <2> QED
    BY <1>3, <2>1, <2>2, <2>3, FinalSlicesStay DEF RowsInv
<1>7. IdleJobRunsNothing'
  BY <1>2, <1>4 DEF RowsInv, IdleJobRunsNothing
<1> QED
  BY <1>2, <1>4, <1>5, <1>6, <1>7
     DEF RowsInv, CoverInv, ActiveSlicesOfRunningSteps, EndedJobHasEndedSteps,
         PendingSlicesOfOpenSteps

\* Handing out a pending slice makes it active and its step running.
LEMMA DispatchKeepsRows ==
    ASSUME RowsTypeOK, RowsInv,
           NEW x \in Slices, NEW status \in ActiveSliceStatuses,
           NEW runner \in Runners \cup {Local},
           NEW final \in Reconcilings(step),
           Dispatch(x, status, runner, final)
    PROVE  /\ token' \in [Slices -> Tokens \cup {NoToken}] => RowsTypeOK'
           /\ RowsInv'
           /\ CoverInv => CoverInv'
           /\ slice[x] = "pending" /\ slice'[x] = status
           /\ \A y \in Slices \ {x} :
                \/ slice'[y] = slice[y]
                \/ slice[y] = "pending" /\ slice'[y] \in {"blocked", "skipped"}
<1> DEFINE ss == SlicesFollow(step, final, slice)
           s  == StepOf[x]
<1>1. /\ job \in {"queued", "running"}
      /\ Reconciles(step, slice, final)
      /\ slice[x] = "pending"
      /\ slice' = [ss EXCEPT ![x] = status]
      /\ owner' = [owner EXCEPT ![x] = runner]
      /\ job' = "running"
      /\ started' = TRUE
      /\ step' = [final EXCEPT ![s] = "running"]
      /\ UNCHANGED <<approved, refresher, targets>>
  BY DEF Dispatch
<1>2. /\ final \in [Steps -> StepStatuses]
      /\ ss \in [Slices -> SliceStatuses]
      /\ \A t \in Steps :
           \/ final[t] = step[t]
           \/ step[t] = "pending" /\ final[t] \in {"blocked", "skipped", "successful"}
      /\ \A y \in Slices :
           \/ ss[y] = slice[y]
           \/ slice[y] = "pending" /\ ss[y] \in {"blocked", "skipped"}
      /\ \A y \in Slices : ss[y] \in ActiveSliceStatuses => final[StepOf[y]] = "running"
      /\ CoverInv => \A y \in Slices :
           ss[y] = "pending" => final[StepOf[y]] \in {"pending", "running"}
  BY <1>1, ReconciledRows
<1>3. s \in Steps /\ \A y \in Slices : StepOf[y] \in Steps
  BY WorkflowAssumption
<1> HIDE DEF ss, s
<1>4. /\ slice'[x] = status
      /\ \A y \in Slices \ {x} : slice'[y] = ss[y]
      /\ slice' \in [Slices -> SliceStatuses]
  BY <1>1, <1>2 DEF ActiveSliceStatuses, SliceStatuses, LiveSliceStatuses
<1>5. /\ step'[s] = "running"
      /\ \A t \in Steps \ {s} : step'[t] = final[t]
      /\ step' \in [Steps -> StepStatuses]
  BY <1>1, <1>2, <1>3 DEF StepStatuses
<1>6. token' \in [Slices -> Tokens \cup {NoToken}] => RowsTypeOK'
  <2>1. owner' \in [Slices -> Runners \cup {Local, NoRunner}]
    BY <1>1 DEF RowsTypeOK
  <2> QED
    BY <1>1, <1>4, <1>5, <2>1 DEF RowsTypeOK, JobStatuses
<1>7. ActiveSlicesOfRunningSteps'
  BY <1>2, <1>3, <1>4, <1>5 DEF ActiveSlicesOfRunningSteps, s
<1>8. IdleJobRunsNothing' /\ EndedJobHasEndedSteps'
  BY <1>1 DEF IdleJobRunsNothing, EndedJobHasEndedSteps, TerminalJobStatuses
<1>9. RefreshFollowsTheSlices' /\ (EveryStepHasSlices => EveryStepHasSlices')
  <2>1. \A y \in Slices : slice'[y] = slice[y]
                          \/ (slice[y] \in LiveSliceStatuses /\ slice'[y] # "absent")
    BY <1>1, <1>2, <1>4 DEF LiveSliceStatuses, ActiveSliceStatuses
  <2>2. \A t \in Steps : step[t] = "running" => step'[t] = "running" \/ job' \in TerminalJobStatuses
    BY <1>2, <1>5
  <2>3. job \notin TerminalJobStatuses
    BY <1>1 DEF TerminalJobStatuses
  <2> QED
    BY <1>1, <2>1, <2>2, <2>3, FinalSlicesStay DEF RowsInv
<1>10. CoverInv => CoverInv'
  BY <1>2, <1>3, <1>4, <1>5, <1>9
     DEF CoverInv, PendingSlicesOfOpenSteps, ActiveSliceStatuses, s
<1>11. \A y \in Slices \ {x} :
          \/ slice'[y] = slice[y]
          \/ slice[y] = "pending" /\ slice'[y] \in {"blocked", "skipped"}
  BY <1>2, <1>4
<1> QED
  BY <1>1, <1>4, <1>6, <1>7, <1>8, <1>9, <1>10, <1>11 DEF RowsInv

LEMMA ClaimRemoteSliceKeepsRows ==
    ASSUME RowsTypeOK, RowsInv, NEW x \in Slices, NEW t \in Tokens,
           ClaimRemoteSlice(x, t)
    PROVE  /\ RowsTypeOK' /\ RowsInv' /\ (CoverInv => CoverInv')
           /\ slice[x] = "pending" /\ slice'[x] = "assigned"
           /\ \A y \in Slices \ {x} :
                \/ slice'[y] = slice[y]
                \/ slice[y] = "pending" /\ slice'[y] \in {"blocked", "skipped"}
<1>1. PICK final \in Reconcilings(step) : Dispatch(x, "assigned", Target[x], final)
  BY DEF ClaimRemoteSlice
<1>2. Target[x] \in Runners \cup {Local}
  BY RowsAssumption
<1>3. token' \in [Slices -> Tokens \cup {NoToken}]
  BY DEF ClaimRemoteSlice, RowsTypeOK
<1> QED
  BY <1>1, <1>2, <1>3, DispatchKeepsRows DEF ActiveSliceStatuses

LEMMA StartLocalSliceKeepsRows ==
    ASSUME RowsTypeOK, RowsInv, NEW x \in Slices, StartLocalSlice(x)
    PROVE  /\ RowsTypeOK' /\ RowsInv' /\ (CoverInv => CoverInv')
           /\ slice[x] = "pending" /\ slice'[x] = "running"
           /\ \A y \in Slices \ {x} :
                \/ slice'[y] = slice[y]
                \/ slice[y] = "pending" /\ slice'[y] \in {"blocked", "skipped"}
<1>1. PICK final \in Reconcilings(step) : Dispatch(x, "running", Local, final)
  BY DEF StartLocalSlice
<1>2. token' \in [Slices -> Tokens \cup {NoToken}]
  BY DEF StartLocalSlice, RowsTypeOK
<1> QED
  BY <1>1, <1>2, DispatchKeepsRows DEF ActiveSliceStatuses

-----------------------------------------------------------------------------
(* Starting, failing and completing slices.                                *)

LEMMA StartRemoteSliceKeepsRows ==
    ASSUME RowsTypeOK, RowsInv, NEW x \in Slices, NEW t \in Tokens, StartRemoteSlice(x, t)
    PROVE  RowsTypeOK' /\ RowsInv' /\ (CoverInv => CoverInv')
<1>1. /\ slice[x] \in ActiveSliceStatuses
      /\ slice' = [slice EXCEPT ![x] = "running"]
      /\ UNCHANGED <<job, started, step, approved, token, owner, refresher, targets>>
  BY DEF StartRemoteSlice, StartAccepted, ActiveSliceStatuses
<1>2. slice' \in [Slices -> SliceStatuses]
  BY <1>1 DEF RowsTypeOK, SliceStatuses, LiveSliceStatuses
<1>3. slice'[x] = "running" /\ \A y \in Slices \ {x} : slice'[y] = slice[y]
  BY <1>1 DEF RowsTypeOK
<1>4. RefreshFollowsTheSlices' /\ (EveryStepHasSlices => EveryStepHasSlices')
  <2>1. \A y \in Slices : slice'[y] = slice[y]
                          \/ (slice[y] \in LiveSliceStatuses /\ slice'[y] # "absent")
    BY <1>1, <1>3 DEF LiveSliceStatuses, ActiveSliceStatuses
  <2> QED
    BY <1>1, <2>1, FinalSlicesStay DEF RowsInv
<1>5. ActiveSlicesOfRunningSteps'
  BY <1>1, <1>3 DEF RowsInv, ActiveSlicesOfRunningSteps, ActiveSliceStatuses
<1>6. PendingSlicesOfOpenSteps => PendingSlicesOfOpenSteps'
  BY <1>1, <1>3 DEF PendingSlicesOfOpenSteps
<1> QED
  BY <1>1, <1>2, <1>4, <1>5, <1>6
     DEF RowsTypeOK, RowsInv, CoverInv, IdleJobRunsNothing, EndedJobHasEndedSteps

\* The failure of a claim request may hit a slice in any status; a failed slice
\* is never worse for the rows than what it was.
LEMMA FailClaimedSliceKeepsRows ==
    ASSUME RowsTypeOK, RowsInv, NEW x \in Slices, FailClaimedSlice(x)
    PROVE  RowsTypeOK' /\ RowsInv' /\ (CoverInv => CoverInv')
<1>1. /\ slice' = [slice EXCEPT ![x] = "failed"]
      /\ token' = [token EXCEPT ![x] = NoToken]
      /\ UNCHANGED <<job, started, step, approved, owner, refresher, targets>>
  BY DEF FailClaimedSlice
<1>2. RowsTypeOK'
  BY <1>1 DEF RowsTypeOK, SliceStatuses, FinalSliceStatuses
<1>3. slice'[x] = "failed" /\ \A y \in Slices \ {x} : slice'[y] = slice[y]
  BY <1>1 DEF RowsTypeOK
<1>4. RefreshFollowsTheSlices'
  <2>1. ASSUME NEW s \in Steps, AllSlicesFinal(s, slice)
        PROVE  AllSlicesFinal(s, slice')
    <3>1. SlicesOf(s, slice) # {}
      BY <2>1 DEF AllSlicesFinal
    <3>2. SlicesOf(s, slice') # {}
      BY <1>3, <3>1 DEF SlicesOf
    <3>3. ASSUME NEW y \in SlicesOf(s, slice')
          PROVE  slice'[y] \in FinalSliceStatuses
      BY <1>3, <2>1 DEF AllSlicesFinal, SlicesOf, FinalSliceStatuses
    <3> QED
      BY <3>2, <3>3 DEF AllSlicesFinal
  <2> QED
    BY <1>1, <2>1 DEF RowsInv, RefreshFollowsTheSlices, AllSlicesFinal, SlicesOf
<1>5. EveryStepHasSlices => EveryStepHasSlices'
  BY <1>3 DEF EveryStepHasSlices, SlicesOf
<1>6. ActiveSlicesOfRunningSteps'
  BY <1>1, <1>3 DEF RowsInv, ActiveSlicesOfRunningSteps, ActiveSliceStatuses
<1>7. PendingSlicesOfOpenSteps => PendingSlicesOfOpenSteps'
  BY <1>1, <1>3 DEF PendingSlicesOfOpenSteps
<1> QED
  BY <1>1, <1>2, <1>4, <1>5, <1>6, <1>7
     DEF RowsInv, CoverInv, IdleJobRunsNothing, EndedJobHasEndedSteps

LEMMA FailPendingSliceKeepsRows ==
    ASSUME RowsTypeOK, RowsInv, NEW x \in Slices, FailPendingSlice(x)
    PROVE  /\ RowsTypeOK' /\ RowsInv' /\ (CoverInv => CoverInv')
           /\ slice[x] = "pending" /\ slice'[x] = "failed"
           /\ \A y \in Slices \ {x} :
                \/ slice'[y] = slice[y]
                \/ slice[y] = "pending" /\ slice'[y] \in {"blocked", "skipped"}
<1>1. /\ slice[x] = "pending" /\ EndSlice(x, "failed")
      /\ token' = [token EXCEPT ![x] = NoToken]
      /\ UNCHANGED <<started, approved, owner, refresher, targets>>
  BY DEF FailPendingSlice
<1>2. /\ slice[x] \in LiveSliceStatuses /\ "failed" \in FinalSliceStatuses
  BY <1>1 DEF LiveSliceStatuses, FinalSliceStatuses
<1>3. /\ step' \in [Steps -> StepStatuses]
      /\ slice' \in [Slices -> SliceStatuses]
      /\ job' \in JobStatuses
      /\ RowsInv'
      /\ CoverInv => CoverInv'
      /\ slice'[x] = "failed"
      /\ \A y \in Slices \ {x} :
           \/ slice'[y] = slice[y]
           \/ slice[y] = "pending" /\ slice'[y] \in {"blocked", "skipped"}
  BY <1>1, <1>2, EndSliceFacts
<1> QED
  BY <1>1, <1>3 DEF RowsTypeOK

LEMMA MarkLostSliceKeepsRows ==
    ASSUME RowsTypeOK, RowsInv, NEW x \in Slices, MarkLostSlice(x)
    PROVE  /\ RowsTypeOK' /\ RowsInv' /\ (CoverInv => CoverInv')
           /\ slice[x] \in LiveSliceStatuses /\ slice'[x] \in {"cancelled", "failed"}
           /\ \A y \in Slices \ {x} :
                \/ slice'[y] = slice[y]
                \/ slice[y] = "pending" /\ slice'[y] \in {"blocked", "skipped"}
<1> DEFINE status == IF job = "cancelling" THEN "cancelled" ELSE "failed"
<1>1. /\ slice[x] \in LiveSliceStatuses /\ EndSlice(x, status)
      /\ token' = [token EXCEPT ![x] = NoToken]
      /\ owner' = [owner EXCEPT ![x] = IF @ = NoRunner THEN Target[x] ELSE @]
      /\ UNCHANGED <<started, approved, refresher, targets>>
  BY DEF MarkLostSlice
<1>2. status \in FinalSliceStatuses /\ status \in {"cancelled", "failed"}
  BY DEF FinalSliceStatuses
<1> HIDE DEF status
<1>3. /\ step' \in [Steps -> StepStatuses]
      /\ slice' \in [Slices -> SliceStatuses]
      /\ job' \in JobStatuses
      /\ RowsInv'
      /\ CoverInv => CoverInv'
      /\ slice'[x] = status
      /\ \A y \in Slices \ {x} :
           \/ slice'[y] = slice[y]
           \/ slice[y] = "pending" /\ slice'[y] \in {"blocked", "skipped"}
  BY <1>1, <1>2, EndSliceFacts
<1>4. owner' \in [Slices -> Runners \cup {Local, NoRunner}]
  BY <1>1, RowsAssumption DEF RowsTypeOK
<1> QED
  BY <1>1, <1>2, <1>3, <1>4 DEF RowsTypeOK

\* A completion is accepted only of an active slice; it either ends the slice
\* or begins the inventory refresh of its step.
LEMMA CompleteSliceKeepsRows ==
    ASSUME RowsTypeOK, RowsInv, NEW x \in Slices, slice[x] \in ActiveSliceStatuses,
           NEW requested \in FinalSliceStatuses, NEW process \in {"server", "local"},
           CompleteSlice(x, requested, process)
    PROVE  /\ RowsTypeOK' /\ RowsInv' /\ (CoverInv => CoverInv')
           /\ slice'[x] \in FinalSliceStatuses
           /\ \A y \in Slices \ {x} :
                \/ slice'[y] = slice[y]
                \/ slice[y] = "pending" /\ slice'[y] \in {"blocked", "skipped"}
<1> DEFINE status == IF job = "cancelling" /\ requested = "successful"
                     THEN "cancelled" ELSE requested
           s  == StepOf[x]
           ss == [slice EXCEPT ![x] = status]
<1>1. token' = [token EXCEPT ![x] = NoToken] /\ UNCHANGED <<started, approved, owner>>
  BY DEF CompleteSlice
<1>2. /\ status \in FinalSliceStatuses /\ s \in Steps
      /\ slice[x] \in LiveSliceStatuses
  BY WorkflowAssumption DEF FinalSliceStatuses, LiveSliceStatuses, ActiveSliceStatuses
<1>3. CASE /\ EndSlice(x, status)
           /\ UNCHANGED <<refresher, targets>>
  <2> HIDE DEF status
  <2>1. /\ step' \in [Steps -> StepStatuses]
        /\ slice' \in [Slices -> SliceStatuses]
        /\ job' \in JobStatuses
        /\ RowsInv'
        /\ CoverInv => CoverInv'
        /\ slice'[x] = status
        /\ \A y \in Slices \ {x} :
             \/ slice'[y] = slice[y]
             \/ slice[y] = "pending" /\ slice'[y] \in {"blocked", "skipped"}
    BY <1>2, <1>3, EndSliceFacts
  <2> QED
    BY <1>1, <1>2, <1>3, <2>1 DEF RowsTypeOK
<1>4. CASE /\ AllSlicesFinal(s, ss)
           /\ slice' = ss
           /\ step' = [step EXCEPT ![s] = "running"]
           /\ refresher' = [refresher EXCEPT ![s] = process]
           /\ targets' = [targets EXCEPT ![s] = RefreshTargets(s, step)]
           /\ UNCHANGED job
  <2>1. step[s] = "running"
    BY DEF RowsInv, ActiveSlicesOfRunningSteps
  <2>2. step' = step
    BY <1>2, <1>4, <2>1 DEF RowsTypeOK
  <2>3. slice'[x] = status /\ \A y \in Slices \ {x} : slice'[y] = slice[y]
    BY <1>4 DEF RowsTypeOK
  <2>4. RowsTypeOK'
    <3>1. slice' \in [Slices -> SliceStatuses]
      BY <1>2, <1>4 DEF RowsTypeOK, SliceStatuses
    <3>2. targets' \in [Steps -> SUBSET Steps]
      BY <1>4 DEF RowsTypeOK, RefreshTargets
    <3>3. refresher' \in [Steps -> Refreshers]
      BY <1>4 DEF RowsTypeOK, Refreshers
    <3> QED
      BY <1>1, <1>4, <2>2, <3>1, <3>2, <3>3 DEF RowsTypeOK
  <2> HIDE DEF status
  <2>5. ActiveSlicesOfRunningSteps'
    BY <1>2, <2>2, <2>3
       DEF RowsInv, ActiveSlicesOfRunningSteps, ActiveSliceStatuses, FinalSliceStatuses
  <2>6. RefreshFollowsTheSlices'
    <3> SUFFICES ASSUME NEW t \in Steps, refresher'[t] # "none"
                 PROVE  /\ AllSlicesFinal(t, slice')
                        /\ step[t] = "running" \/ job \in TerminalJobStatuses
      BY <1>4, <2>2 DEF RefreshFollowsTheSlices, AllSlicesFinal, SlicesOf
    <3>1. CASE t = s
      BY <1>4, <2>1, <3>1
    <3>2. CASE t # s
      <4>1. refresher[t] # "none"
        BY <1>4, <3>2 DEF RowsTypeOK
      <4>2. \A y \in Slices : StepOf[y] = t => slice'[y] = slice[y]
        BY <2>3, <3>2
      <4>3. SlicesOf(t, slice') = SlicesOf(t, slice)
        BY <4>2 DEF SlicesOf
      <4> QED
        BY <4>1, <4>2, <4>3 DEF RowsInv, RefreshFollowsTheSlices, AllSlicesFinal, SlicesOf
    <3> QED
      BY <3>1, <3>2
  <2>7. IdleJobRunsNothing' /\ EndedJobHasEndedSteps'
    BY <1>4, <2>2 DEF RowsInv, IdleJobRunsNothing, EndedJobHasEndedSteps
  <2>8. CoverInv => CoverInv'
    <3>1. EveryStepHasSlices => EveryStepHasSlices'
      BY <1>2, <2>3 DEF EveryStepHasSlices, SlicesOf, FinalSliceStatuses
    <3>2. PendingSlicesOfOpenSteps => PendingSlicesOfOpenSteps'
      BY <1>2, <2>2, <2>3 DEF PendingSlicesOfOpenSteps, FinalSliceStatuses
    <3> QED
      BY <3>1, <3>2 DEF CoverInv
  <2> QED
    BY <1>2, <2>3, <2>4, <2>5, <2>6, <2>7, <2>8 DEF RowsInv
<1> QED
  BY <1>3, <1>4 DEF CompleteSlice

-----------------------------------------------------------------------------
(* The inventory refresh between two steps.                                *)

\* A refresh ends the step it follows.  ss are the slices after the replan: only
\* pending or absent ones of other steps without final slices may differ.
LEMMA EndRefreshKeepsRows ==
    ASSUME RowsTypeOK, RowsInv, NEW s \in Steps, refresher[s] # "none",
           NEW verdict \in {"successful", "failed"},
           NEW ss \in [Slices -> SliceStatuses],
           \A x \in Slices : \/ ss[x] = slice[x]
                             \/ /\ slice[x] \in {"pending", "absent"}
                                /\ ss[x] \in {"pending", "absent"}
                                /\ ~AllSlicesFinal(StepOf[x], slice),
           EndRefresh(s, ss, verdict),
           owner' \in [Slices -> Runners \cup {Local, NoRunner}]
    PROVE  /\ RowsTypeOK' /\ RowsInv'
           /\ \A x \in Slices :
                \/ slice'[x] = slice[x]
                \/ /\ slice[x] \in {"pending", "absent"}
                   /\ slice'[x] \in {"pending", "absent", "blocked", "skipped"}
           /\ (/\ \A t \in Steps : SlicesOf(t, ss) # {}
               /\ \A x \in Slices : ss[x] = "pending" => step[StepOf[x]] \in {"pending", "running"})
                => CoverInv'
<1> DEFINE st == [step EXCEPT ![s] = verdict]
<1>1. /\ Settle(st, ss)
      /\ refresher' = [refresher EXCEPT ![s] = "none"]
      /\ targets' = [targets EXCEPT ![s] = {}]
      /\ UNCHANGED <<started, approved, token>>
  BY DEF EndRefresh
<1>2. /\ st \in [Steps -> StepStatuses] /\ st[s] = verdict
      /\ \A t \in Steps \ {s} : st[t] = step[t]
      /\ job \in JobStatuses
  BY DEF RowsTypeOK, StepStatuses, TerminalStepStatuses
<1>3. AllSlicesFinal(s, slice) /\ (step[s] = "running" \/ job \in TerminalJobStatuses)
  BY DEF RowsInv, RefreshFollowsTheSlices
<1>4. \A x \in Slices : StepOf[x] \in Steps
  BY WorkflowAssumption
<1> HIDE DEF st
<1>5. /\ step' \in [Steps -> StepStatuses]
      /\ slice' \in [Slices -> SliceStatuses]
      /\ job' \in JobStatuses
      /\ \A t \in Steps :
           \/ step'[t] = st[t]
           \/ st[t] = "pending" /\ step'[t] \in {"blocked", "skipped", "successful"}
      /\ \A x \in Slices :
           \/ slice'[x] = ss[x]
           \/ ss[x] = "pending" /\ slice'[x] \in {"blocked", "skipped"}
      /\ \/ job' = job
         \/ job' \in TerminalJobStatuses /\ \A t \in Steps : step'[t] \in TerminalStepStatuses
         \/ /\ job' = "waiting_oversight"
            /\ job \notin TerminalJobStatuses \cup {"cancelling"}
            /\ \A t \in Steps : step'[t] # "running"
  BY <1>1, <1>2, SettleFacts
<1>6. RowsTypeOK'
  <2>1. refresher' \in [Steps -> Refreshers]
    BY <1>1 DEF RowsTypeOK, Refreshers
  <2>2. targets' \in [Steps -> SUBSET Steps]
    BY <1>1 DEF RowsTypeOK
  <2> QED
    BY <1>1, <1>5, <2>1, <2>2 DEF RowsTypeOK
<1>7. \A x \in Slices :
         \/ slice'[x] = slice[x]
         \/ /\ slice[x] \in {"pending", "absent"}
            /\ slice'[x] \in {"pending", "absent", "blocked", "skipped"}
  BY <1>5
<1>8. ActiveSlicesOfRunningSteps'
  <2> SUFFICES ASSUME NEW x \in Slices, slice'[x] \in ActiveSliceStatuses
               PROVE  step'[StepOf[x]] = "running"
    BY DEF ActiveSlicesOfRunningSteps
  <2>1. slice[x] \in ActiveSliceStatuses
    BY <1>7 DEF ActiveSliceStatuses
  <2>2. StepOf[x] # s
    BY <1>3, <2>1 DEF AllSlicesFinal, SlicesOf, ActiveSliceStatuses, FinalSliceStatuses
  <2>3. step[StepOf[x]] = "running"
    BY <2>1 DEF RowsInv, ActiveSlicesOfRunningSteps
  <2> QED
    BY <1>2, <1>4, <1>5, <2>2, <2>3
<1>9. IdleJobRunsNothing'
  <2>1. job \notin {"queued", "waiting_oversight"}
    BY <1>3 DEF RowsInv, IdleJobRunsNothing, TerminalJobStatuses
  <2> QED
    BY <1>5, <2>1 DEF IdleJobRunsNothing, TerminalJobStatuses
<1>10. EndedJobHasEndedSteps'
  <2>1. ASSUME job \in TerminalJobStatuses, NEW t \in Steps
        PROVE  step'[t] \in TerminalStepStatuses
    <3>1. st[t] \in TerminalStepStatuses
      BY <1>2, <2>1 DEF RowsInv, EndedJobHasEndedSteps, TerminalStepStatuses
    <3> QED
      BY <1>5, <3>1 DEF TerminalStepStatuses
  <2> QED
    BY <1>5, <2>1 DEF EndedJobHasEndedSteps, TerminalJobStatuses
<1>11. RefreshFollowsTheSlices'
  <2> SUFFICES ASSUME NEW t \in Steps, refresher'[t] # "none"
               PROVE  /\ AllSlicesFinal(t, slice')
                      /\ step'[t] = "running" \/ job' \in TerminalJobStatuses
    BY DEF RefreshFollowsTheSlices, AllSlicesFinal, SlicesOf
  <2>1. t # s /\ refresher[t] # "none"
    BY <1>1 DEF RowsTypeOK
  <2>2. AllSlicesFinal(t, slice) /\ (step[t] = "running" \/ job \in TerminalJobStatuses)
    BY <2>1 DEF RowsInv, RefreshFollowsTheSlices
  <2>3. ASSUME NEW x \in Slices, StepOf[x] = t
        PROVE  slice'[x] = slice[x]
    <3>1. ss[x] = slice[x]
      BY <2>2, <2>3
    <3>2. slice[x] # "pending"
      BY <2>2, <2>3 DEF AllSlicesFinal, SlicesOf, FinalSliceStatuses
    <3> QED
      BY <1>5, <3>1, <3>2
  <2>4. SlicesOf(t, slice') = SlicesOf(t, slice)
    BY <2>3 DEF SlicesOf
  <2>5. AllSlicesFinal(t, slice')
    BY <2>2, <2>3, <2>4 DEF AllSlicesFinal, SlicesOf
  <2>6. step[t] = "running" => step'[t] = "running"
    BY <1>2, <1>5, <2>1
  <2>7. job \in TerminalJobStatuses => job' \in TerminalJobStatuses
    BY <1>5
  <2> QED
    BY <2>2, <2>5, <2>6, <2>7
<1>12. ASSUME \A t \in Steps : SlicesOf(t, ss) # {},
              \A x \in Slices : ss[x] = "pending" => step[StepOf[x]] \in {"pending", "running"}
       PROVE  CoverInv'
  <2>1. EveryStepHasSlices'
    <3> SUFFICES ASSUME NEW t \in Steps PROVE SlicesOf(t, slice') # {}
      BY DEF EveryStepHasSlices, SlicesOf
    <3>1. PICK x \in Slices : StepOf[x] = t /\ ss[x] # "absent"
      BY <1>12 DEF SlicesOf
    <3> QED
      BY <1>5, <3>1 DEF SlicesOf
  <2>2. ASSUME NEW x \in Slices, ss[x] = "pending"
        PROVE  st[StepOf[x]] \in {"pending", "running"}
    <3>1. StepOf[x] # s
      BY <1>3, <2>2 DEF AllSlicesFinal, SlicesOf, FinalSliceStatuses
    <3> QED
      BY <1>2, <1>4, <1>12, <2>2, <3>1
  <2>3. PendingSlicesOfOpenSteps'
    BY <1>1, <1>2, <2>2, SettleLeavesNoPending
  <2> QED
    BY <2>1, <2>3 DEF CoverInv
<1> QED
  BY <1>6, <1>7, <1>8, <1>9, <1>10, <1>11, <1>12 DEF RowsInv

LEMMA RefreshSucceedsKeepsRows ==
    ASSUME RowsTypeOK, RowsInv, NEW s \in Steps, NEW plan \in SUBSET Slices,
           RefreshSucceeds(s, plan)
    PROVE  /\ RowsTypeOK' /\ RowsInv'
           /\ \A x \in Slices :
                \/ slice'[x] = slice[x]
                \/ /\ slice[x] \in {"pending", "absent"}
                   /\ slice'[x] \in {"pending", "absent", "blocked", "skipped"}
           /\ CoverInv /\ (\A t \in targets[s] : \E x \in plan : StepOf[x] = t) => CoverInv'
<1> DEFINE replanned == {x \in Slices : StepOf[x] \in targets[s]}
           ss == [x \in Slices |-> IF x \notin replanned THEN slice[x]
                                   ELSE IF x \in plan THEN "pending" ELSE "absent"]
<1>1. /\ refresher[s] # "none" /\ ReplanAllowed(s)
      /\ EndRefresh(s, ss, "successful")
      /\ owner' = [x \in Slices |-> IF x \in replanned THEN NoRunner ELSE owner[x]]
  BY DEF RefreshSucceeds
<1>2. \A x \in replanned : slice[x] \in {"pending", "absent"}
  BY <1>1 DEF ReplanAllowed, SlicesOf
<1>3. \A x \in replanned : ~AllSlicesFinal(StepOf[x], slice)
  BY <1>1 DEF ReplanAllowed, AllSlicesFinal, FinalSliceStatuses
<1>4. ss \in [Slices -> SliceStatuses]
  BY DEF RowsTypeOK, SliceStatuses, LiveSliceStatuses
<1>5. owner' \in [Slices -> Runners \cup {Local, NoRunner}]
  BY <1>1 DEF RowsTypeOK
<1>6. \A x \in Slices : \/ ss[x] = slice[x]
                        \/ /\ slice[x] \in {"pending", "absent"}
                           /\ ss[x] \in {"pending", "absent"}
                           /\ ~AllSlicesFinal(StepOf[x], slice)
  BY <1>2, <1>3
<1>7. ASSUME CoverInv, \A t \in targets[s] : \E x \in plan : StepOf[x] = t
      PROVE  /\ \A t \in Steps : SlicesOf(t, ss) # {}
             /\ \A x \in Slices : ss[x] = "pending" => step[StepOf[x]] \in {"pending", "running"}
  <2>1. ASSUME NEW t \in Steps PROVE SlicesOf(t, ss) # {}
    <3>1. CASE t \in targets[s]
      <4>1. PICK x \in plan : StepOf[x] = t
        BY <1>7, <3>1
      <4> QED
        BY <3>1, <4>1 DEF SlicesOf
    <3>2. CASE t \notin targets[s]
      <4>1. PICK x \in Slices : StepOf[x] = t /\ slice[x] # "absent"
        BY <1>7 DEF CoverInv, EveryStepHasSlices, SlicesOf
      <4> QED
        BY <3>2, <4>1 DEF SlicesOf
    <3> QED
      BY <3>1, <3>2
  <2>2. ASSUME NEW x \in Slices, ss[x] = "pending"
        PROVE  step[StepOf[x]] \in {"pending", "running"}
    <3>1. CASE x \notin replanned
      BY <1>7, <2>2, <3>1 DEF CoverInv, PendingSlicesOfOpenSteps
    <3>2. CASE x \in replanned
      <4>1. PICK y \in Slices : StepOf[y] = StepOf[x] /\ slice[y] # "absent"
        BY <1>7, WorkflowAssumption DEF CoverInv, EveryStepHasSlices, SlicesOf
      <4>2. slice[y] = "pending"
        BY <1>2, <3>2, <4>1
      <4> QED
        BY <1>7, <4>1, <4>2 DEF CoverInv, PendingSlicesOfOpenSteps
    <3> QED
      BY <3>1, <3>2
  <2> QED
    BY <2>1, <2>2
<1> HIDE DEF ss, replanned
<1> QED
  BY <1>1, <1>4, <1>5, <1>6, <1>7, EndRefreshKeepsRows

LEMMA RefreshFailsKeepsRows ==
    ASSUME RowsTypeOK, RowsInv, NEW s \in Steps, RefreshFails(s)
    PROVE  /\ RowsTypeOK' /\ RowsInv' /\ (CoverInv => CoverInv')
           /\ \A x \in Slices :
                \/ slice'[x] = slice[x]
                \/ /\ slice[x] \in {"pending", "absent"}
                   /\ slice'[x] \in {"pending", "absent", "blocked", "skipped"}
<1>1. /\ refresher[s] # "none" /\ EndRefresh(s, slice, "failed") /\ owner' = owner
      /\ slice \in [Slices -> SliceStatuses]
      /\ owner \in [Slices -> Runners \cup {Local, NoRunner}]
  BY DEF RefreshFails, RowsTypeOK
<1> QED
  BY <1>1, EndRefreshKeepsRows DEF CoverInv, EveryStepHasSlices, PendingSlicesOfOpenSteps

LEMMA RefreshAbandonedKeepsRows ==
    ASSUME RowsTypeOK, RowsInv, NEW S \in SUBSET Steps, RefreshAbandoned(S)
    PROVE  RowsTypeOK' /\ RowsInv' /\ (CoverInv => CoverInv')
<1>1. /\ refresher' = [s \in Steps |-> IF s \in S THEN "none" ELSE refresher[s]]
      /\ targets' = [s \in Steps |-> IF s \in S THEN {} ELSE targets[s]]
      /\ UNCHANGED <<job, started, step, approved, slice, token, owner>>
  BY DEF RefreshAbandoned
<1>2. RowsTypeOK'
  BY <1>1 DEF RowsTypeOK, Refreshers
<1>3. RefreshFollowsTheSlices'
  BY <1>1 DEF RowsInv, RefreshFollowsTheSlices, AllSlicesFinal, SlicesOf
<1> QED
  BY <1>1, <1>2, <1>3
     DEF RowsInv, CoverInv, ActiveSlicesOfRunningSteps, IdleJobRunsNothing,
         EndedJobHasEndedSteps, EveryStepHasSlices, PendingSlicesOfOpenSteps, SlicesOf

-----------------------------------------------------------------------------
(* Draining, Oversight, cancellation, and the first state.                 *)

LEMMA UnassignNotStartedKeepsRows ==
    ASSUME RowsTypeOK, RowsInv, NEW r \in Runners, UnassignNotStarted(r)
    PROVE  RowsTypeOK' /\ RowsInv' /\ (CoverInv => CoverInv')
<1> DEFINE revoked == {x \in Slices : owner[x] = r /\ slice[x] = "assigned"}
<1>1. /\ slice' = [x \in Slices |-> IF x \in revoked THEN "pending" ELSE slice[x]]
      /\ token' = [x \in Slices |-> IF x \in revoked THEN NoToken ELSE token[x]]
      /\ owner' = [x \in Slices |-> IF x \in revoked THEN NoRunner ELSE owner[x]]
      /\ UNCHANGED <<job, started, step, approved, refresher, targets>>
  BY DEF UnassignNotStarted
<1>2. \A x \in Slices : \/ slice'[x] = slice[x]
                        \/ slice[x] = "assigned" /\ slice'[x] = "pending"
  BY <1>1
<1>3. RowsTypeOK'
  <2>1. slice' \in [Slices -> SliceStatuses]
    BY <1>1 DEF RowsTypeOK, SliceStatuses, LiveSliceStatuses
  <2>2. token' \in [Slices -> Tokens \cup {NoToken}]
    BY <1>1 DEF RowsTypeOK
  <2>3. owner' \in [Slices -> Runners \cup {Local, NoRunner}]
    BY <1>1 DEF RowsTypeOK
  <2> QED
    BY <1>1, <2>1, <2>2, <2>3 DEF RowsTypeOK
<1>4. RefreshFollowsTheSlices' /\ (EveryStepHasSlices => EveryStepHasSlices')
  <2>1. \A x \in Slices : slice'[x] = slice[x]
                          \/ (slice[x] \in LiveSliceStatuses /\ slice'[x] # "absent")
    BY <1>2 DEF LiveSliceStatuses
  <2> QED
    BY <1>1, <2>1, FinalSlicesStay DEF RowsInv
<1>5. ActiveSlicesOfRunningSteps'
  BY <1>1, <1>2 DEF RowsInv, ActiveSlicesOfRunningSteps, ActiveSliceStatuses
<1>6. PendingSlicesOfOpenSteps => PendingSlicesOfOpenSteps'
  BY <1>1, <1>2
     DEF RowsInv, ActiveSlicesOfRunningSteps, ActiveSliceStatuses, PendingSlicesOfOpenSteps
<1> QED
  BY <1>1, <1>3, <1>4, <1>5, <1>6
     DEF RowsInv, CoverInv, IdleJobRunsNothing, EndedJobHasEndedSteps

LEMMA ApproveOversightKeepsRows ==
    ASSUME RowsTypeOK, RowsInv, ApproveOversight
    PROVE  RowsTypeOK' /\ RowsInv' /\ (CoverInv => CoverInv')
<1>1. /\ job = "waiting_oversight"
      /\ approved' = approved \cup OversightCandidates(step, approved)
      /\ job' \in {"running", "queued"}
      /\ UNCHANGED <<started, step, slice, token, owner, refresher, targets>>
  BY DEF ApproveOversight
<1>2. RowsTypeOK'
  BY <1>1 DEF RowsTypeOK, OversightCandidates, JobStatuses
<1>3. job \notin TerminalJobStatuses
  BY <1>1 DEF TerminalJobStatuses
<1> QED
  BY <1>1, <1>2, <1>3
     DEF RowsInv, CoverInv, ActiveSlicesOfRunningSteps, IdleJobRunsNothing,
         EndedJobHasEndedSteps, RefreshFollowsTheSlices, AllSlicesFinal, SlicesOf,
         EveryStepHasSlices, PendingSlicesOfOpenSteps, TerminalJobStatuses

LEMMA CancelIdleJobKeepsRows ==
    ASSUME RowsTypeOK, RowsInv, CancelIdleJob
    PROVE  RowsTypeOK' /\ RowsInv' /\ (CoverInv => CoverInv')
<1> DEFINE stopped == {x \in Slices : slice[x] \in {"pending", "assigned"}}
<1>1. /\ job \in {"queued", "waiting_oversight"}
      /\ job' = "cancelled"
      /\ step' = [s \in Steps |-> IF step[s] = "pending" THEN "cancelled" ELSE step[s]]
      /\ slice' = [x \in Slices |-> IF x \in stopped THEN "cancelled" ELSE slice[x]]
      /\ token' = [x \in Slices |-> IF x \in stopped THEN NoToken ELSE token[x]]
      /\ UNCHANGED <<started, approved, owner, refresher, targets>>
  BY DEF CancelIdleJob
<1>2. \A s \in Steps : step[s] # "running"
  BY <1>1 DEF RowsInv, IdleJobRunsNothing
<1>3. RowsTypeOK'
  <2>1. step' \in [Steps -> StepStatuses]
    BY <1>1 DEF RowsTypeOK, StepStatuses, TerminalStepStatuses
  <2>2. slice' \in [Slices -> SliceStatuses]
    BY <1>1 DEF RowsTypeOK, SliceStatuses, FinalSliceStatuses
  <2>3. token' \in [Slices -> Tokens \cup {NoToken}]
    BY <1>1 DEF RowsTypeOK
  <2> QED
    BY <1>1, <2>1, <2>2, <2>3 DEF RowsTypeOK, JobStatuses, TerminalJobStatuses
<1>4. \A x \in Slices : slice'[x] \notin {"pending", "assigned", "running"}
  <2>1. \A x \in Slices : slice[x] # "running"
    BY <1>2, WorkflowAssumption DEF RowsInv, ActiveSlicesOfRunningSteps, ActiveSliceStatuses
  <2> QED
    BY <1>1, <2>1
<1>5. EndedJobHasEndedSteps'
  <2>1. \A s \in Steps : step[s] \in StepStatuses
    BY DEF RowsTypeOK
  <2> QED
    BY <1>1, <1>2, <2>1 DEF EndedJobHasEndedSteps, TerminalStepStatuses, StepStatuses
<1>6. RefreshFollowsTheSlices' /\ (EveryStepHasSlices => EveryStepHasSlices')
  <2>1. \A x \in Slices : slice'[x] = slice[x]
                          \/ (slice[x] \in LiveSliceStatuses /\ slice'[x] # "absent")
    BY <1>1 DEF LiveSliceStatuses
  <2>2. job' \in TerminalJobStatuses
    BY <1>1 DEF TerminalJobStatuses
  <2> QED
    BY <1>1, <2>1, <2>2, FinalSlicesStay DEF RowsInv
<1> QED
  BY <1>1, <1>3, <1>4, <1>5, <1>6
     DEF RowsInv, CoverInv, ActiveSlicesOfRunningSteps, IdleJobRunsNothing,
         PendingSlicesOfOpenSteps, ActiveSliceStatuses

LEMMA CancelRunningJobKeepsRows ==
    ASSUME RowsTypeOK, RowsInv, CancelRunningJob
    PROVE  RowsTypeOK' /\ RowsInv' /\ (CoverInv => CoverInv')
<1> DEFINE ss == [x \in Slices |-> IF slice[x] = "pending" THEN "cancelled" ELSE slice[x]]
<1>1. /\ job = "running"
      /\ job' = "cancelling"
      /\ slice' = ss
      /\ UNCHANGED <<started, approved, token, owner, refresher, targets>>
  BY DEF CancelRunningJob
<1>2. step' \in [Steps -> StepStatuses]
      /\ \A s \in Steps : step[s] # "pending" => step'[s] = step[s]
  BY DEF CancelRunningJob, RowsTypeOK, StepStatuses, TerminalStepStatuses
<1>3. ss \in [Slices -> SliceStatuses]
  BY DEF RowsTypeOK, SliceStatuses, FinalSliceStatuses
<1>4. RowsTypeOK'
  BY <1>1, <1>2, <1>3 DEF RowsTypeOK, JobStatuses
<1>5. \A x \in Slices : slice'[x] = slice[x] \/ (slice[x] = "pending" /\ slice'[x] = "cancelled")
  BY <1>1
<1>6. \A x \in Slices : slice'[x] # "pending"
  BY <1>1
<1>7. RefreshFollowsTheSlices' /\ (EveryStepHasSlices => EveryStepHasSlices')
  <2>1. \A x \in Slices : slice'[x] = slice[x]
                          \/ (slice[x] \in LiveSliceStatuses /\ slice'[x] # "absent")
    BY <1>5 DEF LiveSliceStatuses
  <2>2. job \notin TerminalJobStatuses
    BY <1>1 DEF TerminalJobStatuses
  <2> QED
    BY <1>1, <1>2, <2>1, <2>2, FinalSlicesStay DEF RowsInv
<1>8. ActiveSlicesOfRunningSteps'
  BY <1>2, <1>5, WorkflowAssumption
     DEF RowsInv, ActiveSlicesOfRunningSteps, ActiveSliceStatuses
<1> QED
  BY <1>1, <1>4, <1>6, <1>7, <1>8
     DEF RowsInv, CoverInv, IdleJobRunsNothing, EndedJobHasEndedSteps,
         PendingSlicesOfOpenSteps, TerminalJobStatuses

LEMMA FinalizeAbandonedCancellationKeepsRows ==
    ASSUME RowsTypeOK, RowsInv, FinalizeAbandonedCancellation
    PROVE  RowsTypeOK' /\ RowsInv' /\ (CoverInv => CoverInv')
<1> DEFINE stopped == {x \in Slices : slice[x] \notin FinalSliceStatuses \cup {"absent"}}
<1>1. /\ job' = "cancelled"
      /\ step' = [s \in Steps |->
                    IF step[s] \in TerminalStepStatuses THEN step[s] ELSE "cancelled"]
      /\ slice' = [x \in Slices |-> IF x \in stopped THEN "cancelled" ELSE slice[x]]
      /\ token' = [x \in Slices |-> IF x \in stopped THEN NoToken ELSE token[x]]
      /\ UNCHANGED <<started, approved, owner, refresher, targets>>
  BY DEF FinalizeAbandonedCancellation
<1>2. RowsTypeOK'
  <2>1. step' \in [Steps -> StepStatuses]
    BY <1>1 DEF RowsTypeOK, StepStatuses, TerminalStepStatuses
  <2>2. slice' \in [Slices -> SliceStatuses]
    BY <1>1 DEF RowsTypeOK, SliceStatuses, FinalSliceStatuses
  <2>3. token' \in [Slices -> Tokens \cup {NoToken}]
    BY <1>1 DEF RowsTypeOK
  <2> QED
    BY <1>1, <2>1, <2>2, <2>3 DEF RowsTypeOK, JobStatuses, TerminalJobStatuses
<1>3. \A x \in Slices : slice'[x] \in FinalSliceStatuses \cup {"absent"}
  BY <1>1 DEF FinalSliceStatuses
<1>4. EndedJobHasEndedSteps'
  BY <1>1 DEF EndedJobHasEndedSteps, TerminalStepStatuses
<1>5. RefreshFollowsTheSlices'
  <2>1. ASSUME NEW s \in Steps, AllSlicesFinal(s, slice)
        PROVE  AllSlicesFinal(s, slice')
    <3>1. \A x \in Slices : slice[x] \in FinalSliceStatuses => slice'[x] = slice[x]
      BY <1>1
    <3>2. \A x \in Slices : slice[x] = "absent" => slice'[x] = "absent"
      BY <1>1
    <3>3. \A x \in Slices : StepOf[x] = s => slice'[x] = slice[x]
      BY <2>1, <3>1, <3>2 DEF AllSlicesFinal, SlicesOf
    <3>4. SlicesOf(s, slice') = SlicesOf(s, slice)
      BY <3>3 DEF SlicesOf
    <3> QED
      BY <2>1, <3>3, <3>4 DEF AllSlicesFinal, SlicesOf
  <2>2. job' \in TerminalJobStatuses
    BY <1>1 DEF TerminalJobStatuses
  <2> QED
    BY <1>1, <2>1, <2>2 DEF RowsInv, RefreshFollowsTheSlices, AllSlicesFinal, SlicesOf
<1>6. EveryStepHasSlices => EveryStepHasSlices'
  <2>1. \A x \in Slices : slice'[x] = "absent" => slice[x] = "absent"
    BY <1>1
  <2> QED
    BY <2>1 DEF EveryStepHasSlices, SlicesOf
<1> QED
  BY <1>1, <1>2, <1>3, <1>4, <1>5, <1>6
     DEF RowsInv, CoverInv, ActiveSlicesOfRunningSteps, IdleJobRunsNothing,
         PendingSlicesOfOpenSteps, ActiveSliceStatuses, FinalSliceStatuses

LEMMA RowsInitCorrect ==
    ASSUME RowsInit
    PROVE  /\ RowsTypeOK /\ RowsInv
           /\ (\A s \in Steps : \E x \in InitialPlan : StepOf[x] = s) => CoverInv
<1>1. /\ job = "queued" /\ started = FALSE
      /\ step = [s \in Steps |-> "pending"]
      /\ approved = {s \in Steps : ~OversightRequiredBefore(s)}
      /\ slice = [x \in Slices |-> IF x \notin InitialPlan THEN "absent"
                                   ELSE IF x \in ZeroHost THEN "successful"
                                   ELSE "pending"]
      /\ token = [x \in Slices |-> NoToken]
      /\ owner = [x \in Slices |-> NoRunner]
      /\ refresher = [s \in Steps |-> "none"]
      /\ targets = [s \in Steps |-> {}]
  BY DEF RowsInit, InitialSlices
<1>2. RowsTypeOK
  BY <1>1 DEF RowsTypeOK, JobStatuses, StepStatuses, SliceStatuses, LiveSliceStatuses,
              FinalSliceStatuses, Refreshers
<1>3. RowsInv
  BY <1>1, WorkflowAssumption
     DEF RowsInv, ActiveSlicesOfRunningSteps, ActiveSliceStatuses, IdleJobRunsNothing,
         EndedJobHasEndedSteps, RefreshFollowsTheSlices, TerminalJobStatuses
<1>4. ASSUME \A s \in Steps : \E x \in InitialPlan : StepOf[x] = s
      PROVE  CoverInv
  <2>1. EveryStepHasSlices
    BY <1>1, <1>4, RowsAssumption DEF EveryStepHasSlices, SlicesOf
  <2>2. PendingSlicesOfOpenSteps
    BY <1>1, WorkflowAssumption DEF PendingSlicesOfOpenSteps
  <2> QED
    BY <2>1, <2>2 DEF CoverInv
<1> QED
  BY <1>2, <1>3, <1>4

-----------------------------------------------------------------------------
(* Every step of the system is one of these transactions, the failure of a *)
(* claim or the end of refreshing processes, or leaves the rows alone.     *)

Transaction ==
    \/ PollJob
    \/ \E x \in Slices, t \in Tokens : ClaimRemoteSlice(x, t)
    \/ \E x \in Slices : StartLocalSlice(x)
    \/ \E x \in Slices, t \in Tokens : StartRemoteSlice(x, t)
    \/ \E x \in Slices : FailPendingSlice(x)
    \/ \E x \in Slices, requested \in FinalSliceStatuses, process \in {"server", "local"} :
          slice[x] \in ActiveSliceStatuses /\ CompleteSlice(x, requested, process)
    \/ \E x \in Slices : MarkLostSlice(x)
    \/ \E s \in Steps, plan \in SUBSET Slices : RefreshSucceeds(s, plan)
    \/ \E s \in Steps : RefreshFails(s)
    \/ \E r \in Runners : UnassignNotStarted(r)
    \/ ApproveOversight
    \/ CancelIdleJob
    \/ CancelRunningJob
    \/ FinalizeAbandonedCancellation

\* A step that waits for nothing has dependencies that exist and have ended.
LEMMA EligibleFacts ==
    ASSUME NEW s \in Steps, NEW st, DependencyState(s, st) = "eligible"
    PROVE  \A d \in Deps[s] : d \in Steps /\ st[d] \in TerminalStepStatuses
<1>1. Deps[s] \subseteq Steps
  BY DEF DependencyState
<1>2. Deps[s] # {} => ~\E d \in Deps[s] : st[d] \notin TerminalStepStatuses
  BY <1>1 DEF DependencyState
<1> QED
  BY <1>1, <1>2

\* Whether a step is a no-op is a matter of its own slices.
LEMMA NoOpStepIsLocal ==
    ASSUME NEW s \in Steps, NEW f, NEW g,
           \A x \in Slices : StepOf[x] = s => f[x] = g[x]
    PROVE  NoOpStep(s, f) <=> NoOpStep(s, g)
<1>1. SlicesOf(s, f) = SlicesOf(s, g)
  BY DEF SlicesOf
<1> QED
  BY <1>1 DEF NoOpStep, SlicesOf

\* What a reconciliation leaves has nothing to reconcile: the second one of two
\* requests in a row changes nothing.
LEMMA ReconciledTwice ==
    ASSUME NEW st \in [Steps -> StepStatuses],
           NEW ss \in [Slices -> SliceStatuses],
           NEW final \in Reconcilings(st),
           Reconciles(st, ss, final)
    PROVE  Reconciles(final, SlicesFollow(st, final, ss), final)
<1> DEFINE follow == SlicesFollow(st, final, ss)
<1>1. ASSUME NEW s \in Steps, final[s] = "pending"
      PROVE  PendingStepBecomes(s, final, follow) = "pending"
  <2>1. st[s] = "pending"
    BY <1>1, ReconcilingFacts
  <2>2. PendingStepBecomes(s, final, ss) = "pending"
    BY <1>1, <2>1 DEF Reconciles
  <2>3. \A x \in Slices : StepOf[x] = s => follow[x] = ss[x]
    BY <1>1 DEF SlicesFollow
  <2>4. NoOpStep(s, follow) <=> NoOpStep(s, ss)
    BY <2>3, NoOpStepIsLocal
  <2> QED
    BY <2>2, <2>4 DEF PendingStepBecomes
<1> QED
  BY <1>1 DEF Reconciles

\* A pending step that a reconciliation makes successful is a no-op whose
\* dependencies ended as it asks for.
LEMMA ReconciledSuccess ==
    ASSUME NEW st \in [Steps -> StepStatuses], NEW ss,
           NEW final \in Reconcilings(st),
           Reconciles(st, ss, final),
           NEW s \in Steps, st[s] # "successful", final[s] = "successful"
    PROVE  DependencyState(s, final) = "eligible" /\ NoOpStep(s, ss)
<1>1. st[s] = "pending"
  BY ReconcilingFacts
<1>2. PendingStepBecomes(s, final, ss) = "successful"
  BY <1>1 DEF Reconciles
<1> QED
  BY <1>2 DEF PendingStepBecomes

\* The same of Settle, which every transaction that ends a slice or a step
\* ends in.
LEMMA SettleReconciles ==
    ASSUME NEW st \in [Steps -> StepStatuses],
           NEW ss \in [Slices -> SliceStatuses],
           Settle(st, ss)
    PROVE  /\ Reconciles(step', slice', step')
           /\ \A s \in Steps : st[s] # "successful" /\ step'[s] = "successful" =>
                DependencyState(s, step') = "eligible" /\ NoOpStep(s, ss)
<1>1. PICK final \in Reconcilings(st) :
          /\ Reconciles(st, ss, final)
          /\ step' = final
          /\ slice' = SlicesFollow(st, final, ss)
  BY DEF Settle
<1>2. Reconciles(final, SlicesFollow(st, final, ss), final)
  BY <1>1, ReconciledTwice
<1>3. \A s \in Steps : st[s] # "successful" /\ final[s] = "successful" =>
          DependencyState(s, final) = "eligible" /\ NoOpStep(s, ss)
  BY <1>1, ReconciledSuccess
<1> QED
  BY <1>1, <1>2, <1>3

-----------------------------------------------------------------------------
(* BegunStepsAreSettled: what a step was started for does not change.      *)

EndedStepsStay ==
    \A d \in Steps : step[d] \in TerminalStepStatuses /\ refresher[d] = "none" =>
        step'[d] = step[d] /\ refresher'[d] = "none"

NewlyBegunAreSettled ==
    \A s \in Steps : step'[s] \in {"running", "successful"} \/ refresher'[s] # "none" =>
        \/ Begun(s)
        \/ /\ DependencyState(s, step') = "eligible"
           /\ \A d \in Deps[s] : refresher'[d] = "none"

LEMMA BegunStaySettled ==
    ASSUME BegunStepsAreSettled, EndedStepsStay, NewlyBegunAreSettled
    PROVE  BegunStepsAreSettled'
<1> SUFFICES ASSUME NEW s \in Steps,
                    step'[s] \in {"running", "successful"} \/ refresher'[s] # "none"
             PROVE  /\ DependencyState(s, step') = "eligible"
                    /\ \A d \in Deps[s] : refresher'[d] = "none"
  BY DEF BegunStepsAreSettled, Begun, DependencyState
<1>1. CASE Begun(s)
  <2>1. /\ DependencyState(s, step) = "eligible"
        /\ \A d \in Deps[s] : refresher[d] = "none"
    BY <1>1 DEF BegunStepsAreSettled
  <2>2. \A d \in Deps[s] : d \in Steps /\ step[d] \in TerminalStepStatuses
    BY <2>1, EligibleFacts
  <2>3. \A d \in Deps[s] : step'[d] = step[d] /\ refresher'[d] = "none"
    BY <2>1, <2>2 DEF EndedStepsStay
  <2>4. DependencyState(s, step') = DependencyState(s, step)
    BY <2>3, DependencyStateIsLocal
  <2> QED
    BY <2>1, <2>3, <2>4
<1> QED
  BY <1>1 DEF NewlyBegunAreSettled

\* Transactions that cancel open steps or end refreshes begin nothing.
LEMMA CancellingBeginsNothing ==
    ASSUME BegunStepsAreSettled,
           \A s \in Steps :
             \/ step'[s] = step[s]
             \/ step[s] \notin TerminalStepStatuses /\ step'[s] = "cancelled",
           \A s \in Steps : refresher'[s] \in {refresher[s], "none"}
    PROVE  BegunStepsAreSettled'
<1>1. EndedStepsStay
  BY DEF EndedStepsStay
<1>2. NewlyBegunAreSettled
  BY DEF NewlyBegunAreSettled, Begun
<1> QED
  BY <1>1, <1>2, BegunStaySettled

\* A refreshed step runs, or nothing of the Job is pending any more.
RefreshedStepsRun(st, refreshed) ==
    \A d \in Steps : refreshed[d] # "none" =>
        st[d] = "running" \/ \A s \in Steps : st[s] # "pending"

LEMMA RefreshedRunOrNothingPends ==
    ASSUME RowsInv
    PROVE  RefreshedStepsRun(step, refresher)
  BY DEF RowsInv, RefreshFollowsTheSlices, EndedJobHasEndedSteps, RefreshedStepsRun,
         TerminalStepStatuses

LEMMA SettleKeepsBegun ==
    ASSUME RowsTypeOK, BegunStepsAreSettled,
           NEW st \in [Steps -> StepStatuses],
           NEW ss \in [Slices -> SliceStatuses],
           Settle(st, ss),
           \A s \in Steps : st[s] \in {"running", "successful"} => Begun(s),
           \A d \in Steps : step[d] \in TerminalStepStatuses /\ refresher[d] = "none" =>
               st[d] = step[d],
           \A d \in Steps : refresher'[d] # "none" => refresher[d] # "none",
           RefreshedStepsRun(st, refresher')
    PROVE  BegunStepsAreSettled'
<1>1. \A s \in Steps :
           \/ step'[s] = st[s]
           \/ st[s] = "pending" /\ step'[s] \in {"blocked", "skipped", "successful"}
  BY SettleFacts DEF RowsTypeOK
<1>2. \A s \in Steps : st[s] # "successful" /\ step'[s] = "successful" =>
          DependencyState(s, step') = "eligible"
  BY SettleReconciles
<1>3. EndedStepsStay
  <2> SUFFICES ASSUME NEW d \in Steps,
                      step[d] \in TerminalStepStatuses, refresher[d] = "none"
               PROVE  step'[d] = step[d] /\ refresher'[d] = "none"
    BY DEF EndedStepsStay
  <2>1. st[d] = step[d] /\ st[d] # "pending"
    BY DEF TerminalStepStatuses
  <2> QED
    BY <1>1, <2>1
<1>4. NewlyBegunAreSettled
  <2> SUFFICES ASSUME NEW s \in Steps, ~Begun(s),
                      step'[s] \in {"running", "successful"} \/ refresher'[s] # "none"
               PROVE  /\ DependencyState(s, step') = "eligible"
                      /\ \A d \in Deps[s] : refresher'[d] = "none"
    BY DEF NewlyBegunAreSettled
  <2>1. refresher'[s] = "none"
    BY DEF Begun
  <2>2. st[s] = "pending" /\ step'[s] = "successful"
    BY <1>1, <2>1
  <2>3. DependencyState(s, step') = "eligible"
    BY <1>2, <2>2
  <2>4. \A d \in Deps[s] : d \in Steps /\ step'[d] \in TerminalStepStatuses
    BY <2>3, EligibleFacts
  <2>5. ASSUME NEW d \in Deps[s], refresher'[d] # "none"
        PROVE  FALSE
    <3>1. d \in Steps /\ step'[d] \in TerminalStepStatuses
      BY <2>4
    <3>2. st[d] = "running"
      BY <2>2, <2>5, <3>1 DEF RefreshedStepsRun
    <3> QED
      BY <1>1, <3>1, <3>2 DEF TerminalStepStatuses
  <2> QED
    BY <2>3, <2>5
<1> QED
  BY <1>3, <1>4, BegunStaySettled

\* A slice that ends makes its step successful only if the step has begun: what
\* ends a slice that nobody has started fails or cancels it.
LEMMA EndSliceKeepsBegun ==
    ASSUME RowsTypeOK, RowsInv, CoverInv, BegunStepsAreSettled,
           NEW x \in Slices, NEW status \in FinalSliceStatuses,
           \/ slice[x] \in ActiveSliceStatuses
           \/ slice[x] = "pending" /\ status # "successful",
           EndSlice(x, status),
           refresher' = refresher
    PROVE  BegunStepsAreSettled'
<1> DEFINE ss == [slice EXCEPT ![x] = status]
           s  == StepOf[x]
           st == AggregateStep(s, step, ss)
<1>1. /\ s \in Steps /\ step \in [Steps -> StepStatuses]
      /\ ss \in [Slices -> SliceStatuses]
  BY WorkflowAssumption DEF RowsTypeOK, SliceStatuses
<1>2. /\ st \in [Steps -> StepStatuses]
      /\ \A t \in Steps \ {s} : st[t] = step[t]
      /\ st[s] = step[s] \/ (AllSlicesFinal(s, ss) /\ st[s] \in TerminalStepStatuses)
  BY <1>1, AggregateStepFacts
<1>3. Settle(st, ss)
  BY DEF EndSlice
<1>4. step[s] \in {"pending", "running"}
  BY DEF RowsInv, ActiveSlicesOfRunningSteps, CoverInv, PendingSlicesOfOpenSteps
<1>5. refresher[s] = "none"
  BY <1>1 DEF RowsInv, RefreshFollowsTheSlices, AllSlicesFinal, SlicesOf,
              ActiveSliceStatuses, FinalSliceStatuses
<1>6. st[s] = "successful" => step[s] = "running"
  <2>1. CASE slice[x] \in ActiveSliceStatuses
    BY <2>1 DEF RowsInv, ActiveSlicesOfRunningSteps
  <2>2. CASE slice[x] = "pending" /\ status # "successful"
    <3>1. x \in SlicesOf(s, ss) /\ ss[x] \in {"failed", "cancelled"}
      BY <2>2 DEF SlicesOf, FinalSliceStatuses, RowsTypeOK
    <3>2. SliceVerdict(s, ss) # "successful"
      BY <3>1 DEF SliceVerdict
    <3> QED
      BY <1>1, <1>4, <3>2 DEF AggregateStep
  <2> QED
    BY <2>1, <2>2
<1> HIDE DEF ss, st
<1>7. \A t \in Steps : st[t] \in {"running", "successful"} => Begun(t)
  BY <1>2, <1>4, <1>6 DEF Begun, TerminalStepStatuses
<1>8. \A d \in Steps : step[d] \in TerminalStepStatuses => st[d] = step[d]
  BY <1>2, <1>4 DEF TerminalStepStatuses
<1>9. RefreshedStepsRun(st, refresher')
  <2>1. RefreshedStepsRun(step, refresher)
    BY RefreshedRunOrNothingPends
  <2>2. \A t \in Steps : st[t] = "pending" => step[t] = "pending"
    BY <1>2 DEF TerminalStepStatuses
  <2> QED
    BY <1>2, <1>5, <2>1, <2>2 DEF RefreshedStepsRun
<1> QED
  BY <1>1, <1>2, <1>3, <1>7, <1>8, <1>9, SettleKeepsBegun

LEMMA EndRefreshKeepsBegun ==
    ASSUME RowsTypeOK, RowsInv, BegunStepsAreSettled,
           NEW s \in Steps, refresher[s] # "none",
           NEW ss \in [Slices -> SliceStatuses],
           NEW verdict \in {"successful", "failed"},
           EndRefresh(s, ss, verdict)
    PROVE  BegunStepsAreSettled'
<1> DEFINE st == [step EXCEPT ![s] = verdict]
<1>1. Settle(st, ss) /\ refresher' = [refresher EXCEPT ![s] = "none"]
  BY DEF EndRefresh
<1>2. /\ st \in [Steps -> StepStatuses] /\ st[s] = verdict
      /\ \A t \in Steps \ {s} : st[t] = step[t]
      /\ refresher'[s] = "none"
      /\ \A t \in Steps \ {s} : refresher'[t] = refresher[t]
  BY <1>1 DEF RowsTypeOK, StepStatuses, TerminalStepStatuses
<1> HIDE DEF st
<1>3. RefreshedStepsRun(st, refresher')
  <2>1. RefreshedStepsRun(step, refresher)
    BY RefreshedRunOrNothingPends
  <2> QED
    BY <1>2, <2>1 DEF RefreshedStepsRun
<1>4. \A t \in Steps : st[t] \in {"running", "successful"} => Begun(t)
  BY <1>2 DEF Begun
<1>5. \A d \in Steps : step[d] \in TerminalStepStatuses /\ refresher[d] = "none" =>
          st[d] = step[d]
  BY <1>2
<1> QED
  BY <1>1, <1>2, <1>3, <1>4, <1>5, SettleKeepsBegun

\* What a claim request leaves of the steps begins nothing but no-ops.
LEMMA PollKeepsBegun ==
    ASSUME RowsTypeOK, RowsInv, BegunStepsAreSettled,
           NEW final \in Reconcilings(step),
           Reconciles(step, slice, final)
    PROVE  \A s \in Steps : final[s] \in {"running", "successful"} =>
               /\ DependencyState(s, final) = "eligible"
               /\ \A d \in Deps[s] : refresher[d] = "none"
<1> SUFFICES ASSUME NEW s \in Steps, final[s] \in {"running", "successful"}
             PROVE  /\ DependencyState(s, final) = "eligible"
                    /\ \A d \in Deps[s] : refresher[d] = "none"
  OBVIOUS
<1>1. \A t \in Steps :
           \/ final[t] = step[t]
           \/ step[t] = "pending" /\ final[t] \in {"blocked", "skipped", "successful"}
  BY ReconcilingFacts DEF RowsTypeOK
<1>2. CASE Begun(s)
  <2>1. /\ DependencyState(s, step) = "eligible"
        /\ \A d \in Deps[s] : refresher[d] = "none"
    BY <1>2 DEF BegunStepsAreSettled
  <2>2. \A d \in Deps[s] : d \in Steps /\ step[d] \in TerminalStepStatuses
    BY <2>1, EligibleFacts
  <2>3. \A d \in Deps[s] : final[d] = step[d]
    BY <1>1, <2>2 DEF TerminalStepStatuses
  <2>4. DependencyState(s, final) = DependencyState(s, step)
    BY <2>3, DependencyStateIsLocal
  <2> QED
    BY <2>1, <2>4
<1>3. CASE ~Begun(s)
  <2>1. step[s] = "pending" /\ final[s] = "successful"
    BY <1>1, <1>3 DEF Begun
  <2>2. DependencyState(s, final) = "eligible"
    BY <2>1, ReconciledSuccess DEF RowsTypeOK
  <2>3. \A d \in Deps[s] : d \in Steps /\ final[d] \in TerminalStepStatuses
    BY <2>2, EligibleFacts
  <2>4. \A d \in Steps : refresher[d] # "none" => step[d] = "running"
    BY <2>1, RefreshedRunOrNothingPends DEF RefreshedStepsRun
  <2>5. ASSUME NEW d \in Deps[s], refresher[d] # "none"
        PROVE  FALSE
    BY <1>1, <2>3, <2>4, <2>5 DEF TerminalStepStatuses
  <2> QED
    BY <2>2, <2>5
<1> QED
  BY <1>2, <1>3

LEMMA PollJobKeepsBegun ==
    ASSUME RowsTypeOK, RowsInv, BegunStepsAreSettled, PollJob
    PROVE  BegunStepsAreSettled'
<1>1. PICK final \in Reconcilings(step) :
          Reconciles(step, slice, final) /\ step' = final
  BY DEF PollJob
<1>2. \A s \in Steps : final[s] \in {"running", "successful"} =>
          /\ DependencyState(s, final) = "eligible"
          /\ \A d \in Deps[s] : refresher[d] = "none"
  BY <1>1, PollKeepsBegun
<1>3. refresher' = refresher
  BY DEF PollJob
<1>4. \A t \in Steps :
           \/ final[t] = step[t]
           \/ step[t] = "pending" /\ final[t] \in {"blocked", "skipped", "successful"}
  BY ReconcilingFacts DEF RowsTypeOK
<1>5. EndedStepsStay
  BY <1>1, <1>3, <1>4 DEF EndedStepsStay, TerminalStepStatuses
<1>6. NewlyBegunAreSettled
  BY <1>1, <1>2, <1>3 DEF NewlyBegunAreSettled, Begun
<1> QED
  BY <1>5, <1>6, BegunStaySettled

\* A slice is handed out of a step that has begun or whose dependencies ended
\* as it asks for.
LEMMA DispatchKeepsBegun ==
    ASSUME RowsTypeOK, RowsInv, BegunStepsAreSettled,
           NEW x \in Slices, NEW status, NEW runner,
           NEW final \in Reconcilings(step),
           final[StepOf[x]] = "pending" => DependencyState(StepOf[x], final) = "eligible",
           Dispatch(x, status, runner, final)
    PROVE  BegunStepsAreSettled'
<1> DEFINE s == StepOf[x]
<1>1. /\ job \in {"queued", "running"}
      /\ Reconciles(step, slice, final)
      /\ final[s] \in {"pending", "running"}
      /\ step' = [final EXCEPT ![s] = "running"]
      /\ refresher' = refresher
  BY DEF Dispatch
<1>2. s \in Steps
  BY WorkflowAssumption
<1>3. /\ final \in [Steps -> StepStatuses]
      /\ \A t \in Steps :
           \/ final[t] = step[t]
           \/ step[t] = "pending" /\ final[t] \in {"blocked", "skipped", "successful"}
  BY ReconcilingFacts DEF RowsTypeOK
<1>4. step'[s] = "running" /\ \A t \in Steps \ {s} : step'[t] = final[t]
  BY <1>1, <1>2, <1>3
<1>5. DependencyState(s, final) = "eligible"
  BY <1>1, <1>2, PollKeepsBegun
<1>6. \A t \in Steps : DependencyState(t, step') = DependencyState(t, final)
  <2> SUFFICES ASSUME NEW t \in Steps
               PROVE  DependencyState(t, step') = DependencyState(t, final)
    OBVIOUS
  <2>1. \A d \in Deps[t] : d \in Steps =>
           \/ step'[d] = final[d]
           \/ step'[d] \notin TerminalStepStatuses /\ final[d] \notin TerminalStepStatuses
    BY <1>1, <1>4 DEF TerminalStepStatuses
  <2> QED
    BY <2>1, DependencyStateIsLocal
<1>7. \A d \in Deps[s] : refresher[d] = "none"
  <2>1. \A d \in Deps[s] : d \in Steps /\ final[d] \in TerminalStepStatuses
    BY <1>2, <1>5, EligibleFacts
  <2>2. \A d \in Steps : refresher[d] # "none" => step[d] = "running"
    BY <1>1 DEF RowsInv, RefreshFollowsTheSlices, TerminalJobStatuses
  <2>3. \A d \in Deps[s] : step[d] # "running"
    BY <1>3, <2>1 DEF TerminalStepStatuses
  <2> QED
    BY <2>1, <2>2, <2>3
<1>8. EndedStepsStay
  <2> SUFFICES ASSUME NEW d \in Steps, step[d] \in TerminalStepStatuses, refresher[d] = "none"
               PROVE  step'[d] = step[d] /\ refresher'[d] = "none"
    BY DEF EndedStepsStay
  <2>1. final[d] = step[d]
    BY <1>3 DEF TerminalStepStatuses
  <2>2. d # s
    BY <1>1, <2>1 DEF TerminalStepStatuses
  <2> QED
    BY <1>1, <1>4, <2>1, <2>2
<1>9. NewlyBegunAreSettled
  <2> SUFFICES ASSUME NEW t \in Steps, ~Begun(t),
                      step'[t] \in {"running", "successful"} \/ refresher'[t] # "none"
               PROVE  /\ DependencyState(t, step') = "eligible"
                      /\ \A d \in Deps[t] : refresher'[d] = "none"
    BY DEF NewlyBegunAreSettled
  <2>1. CASE t = s
    BY <1>1, <1>5, <1>6, <1>7, <2>1
  <2>2. CASE t # s
    <3>1. final[t] \in {"running", "successful"}
      BY <1>1, <1>4, <2>2 DEF Begun
    <3> QED
      BY <1>1, <1>6, <3>1, PollKeepsBegun
  <2> QED
    BY <2>1, <2>2
<1> QED
  BY <1>8, <1>9, BegunStaySettled

LEMMA CompleteSliceKeepsBegun ==
    ASSUME RowsTypeOK, RowsInv, CoverInv, BegunStepsAreSettled,
           NEW x \in Slices, slice[x] \in ActiveSliceStatuses,
           NEW requested \in FinalSliceStatuses, NEW process,
           CompleteSlice(x, requested, process)
    PROVE  BegunStepsAreSettled'
<1> DEFINE status == IF job = "cancelling" /\ requested = "successful"
                     THEN "cancelled" ELSE requested
           s  == StepOf[x]
<1>1. status \in FinalSliceStatuses
  BY DEF FinalSliceStatuses
<1>2. CASE EndSlice(x, status) /\ UNCHANGED refresher
  <2> HIDE DEF status
  <2> QED
    BY <1>1, <1>2, EndSliceKeepsBegun
<1>3. CASE /\ step' = [step EXCEPT ![s] = "running"]
           /\ refresher' = [refresher EXCEPT ![s] = process]
  <2>1. s \in Steps /\ step[s] = "running"
    BY WorkflowAssumption DEF RowsInv, ActiveSlicesOfRunningSteps
  <2>2. step' = step /\ \A t \in Steps \ {s} : refresher'[t] = refresher[t]
    BY <1>3, <2>1 DEF RowsTypeOK
  <2>3. EndedStepsStay
    BY <2>1, <2>2 DEF EndedStepsStay, TerminalStepStatuses
  <2>4. NewlyBegunAreSettled
    BY <2>1, <2>2 DEF NewlyBegunAreSettled, Begun
  <2> QED
    BY <2>3, <2>4, BegunStaySettled
<1>4. \/ /\ step' = [step EXCEPT ![s] = "running"]
         /\ refresher' = [refresher EXCEPT ![s] = process]
      \/ EndSlice(x, status) /\ UNCHANGED refresher
  BY DEF CompleteSlice
<1> QED
  BY <1>2, <1>3, <1>4

\* Every transaction keeps what its begun steps were started for.
LEMMA TransactionKeepsBegun ==
    ASSUME RowsTypeOK, RowsInv, CoverInv, BegunStepsAreSettled, Transaction
    PROVE  BegunStepsAreSettled'
<1>1. CASE PollJob
  BY <1>1, PollJobKeepsBegun
<1>2. CASE \E x \in Slices, t \in Tokens : ClaimRemoteSlice(x, t)
  <2>1. PICK x \in Slices, final \in Reconcilings(step) :
            /\ DependencyState(StepOf[x], final) = "eligible"
            /\ Dispatch(x, "assigned", Target[x], final)
    BY <1>2 DEF ClaimRemoteSlice
  <2> QED
    BY <2>1, DispatchKeepsBegun
<1>3. CASE \E x \in Slices : StartLocalSlice(x)
  <2>1. PICK x \in Slices, final \in Reconcilings(step) :
            /\ final[StepOf[x]] = "pending" => DependencyState(StepOf[x], final) = "eligible"
            /\ Dispatch(x, "running", Local, final)
    BY <1>3 DEF StartLocalSlice
  <2> QED
    BY <2>1, DispatchKeepsBegun
<1>4. CASE \E x \in Slices, t \in Tokens : StartRemoteSlice(x, t)
  BY <1>4, CancellingBeginsNothing DEF StartRemoteSlice
<1>5. CASE \E x \in Slices : FailPendingSlice(x)
  <2>1. PICK x \in Slices : FailPendingSlice(x)
    BY <1>5
  <2>2. slice[x] = "pending" /\ EndSlice(x, "failed") /\ refresher' = refresher
    BY <2>1 DEF FailPendingSlice
  <2> QED
    BY <2>2, EndSliceKeepsBegun DEF FinalSliceStatuses
<1>6. CASE \E x \in Slices, requested \in FinalSliceStatuses, process \in {"server", "local"} :
              slice[x] \in ActiveSliceStatuses /\ CompleteSlice(x, requested, process)
  BY <1>6, CompleteSliceKeepsBegun
<1>7. CASE \E x \in Slices : MarkLostSlice(x)
  <2>1. PICK x \in Slices : MarkLostSlice(x)
    BY <1>7
  <2>2. /\ slice[x] \in LiveSliceStatuses /\ refresher' = refresher
        /\ \E status \in {"cancelled", "failed"} : EndSlice(x, status)
    BY <2>1 DEF MarkLostSlice
  <2> QED
    BY <2>2, EndSliceKeepsBegun DEF FinalSliceStatuses, LiveSliceStatuses, ActiveSliceStatuses
<1>8. CASE \E s \in Steps, plan \in SUBSET Slices : RefreshSucceeds(s, plan)
  <2>1. PICK s \in Steps, plan \in SUBSET Slices : RefreshSucceeds(s, plan)
    BY <1>8
  <2> DEFINE replanned == {x \in Slices : StepOf[x] \in targets[s]}
             ss == [x \in Slices |-> IF x \notin replanned THEN slice[x]
                                     ELSE IF x \in plan THEN "pending" ELSE "absent"]
  <2>2. refresher[s] # "none" /\ EndRefresh(s, ss, "successful")
    BY <2>1 DEF RefreshSucceeds
  <2>3. ss \in [Slices -> SliceStatuses]
    BY DEF RowsTypeOK, SliceStatuses, LiveSliceStatuses
  <2> HIDE DEF ss
  <2> QED
    BY <2>2, <2>3, EndRefreshKeepsBegun
<1>9. CASE \E s \in Steps : RefreshFails(s)
  BY <1>9, EndRefreshKeepsBegun DEF RefreshFails, RowsTypeOK
<1>10. CASE \E r \in Runners : UnassignNotStarted(r)
  BY <1>10, CancellingBeginsNothing DEF UnassignNotStarted
<1>11. CASE ApproveOversight
  BY <1>11, CancellingBeginsNothing DEF ApproveOversight
<1>12. CASE CancelIdleJob
  BY <1>12, CancellingBeginsNothing DEF CancelIdleJob, TerminalStepStatuses
<1>13. CASE CancelRunningJob
  BY <1>13, CancellingBeginsNothing DEF CancelRunningJob, TerminalStepStatuses
<1>14. CASE FinalizeAbandonedCancellation
  BY <1>14, CancellingBeginsNothing DEF FinalizeAbandonedCancellation
<1> QED
  BY <1>1, <1>2, <1>3, <1>4, <1>5, <1>6, <1>7, <1>8, <1>9, <1>10, <1>11, <1>12, <1>13, <1>14
     DEF Transaction

-----------------------------------------------------------------------------
(* SuccessIsOfAllSlices: a successful step has successful slices only.     *)

AllSlicesSuccessful(s, ss) == \A x \in SlicesOf(s, ss) : ss[x] = "successful"

\* Transactions that end no step with success and spare the successful slices.
LEMMA SuccessStays ==
    ASSUME SuccessIsOfAllSlices,
           \A s \in Steps : step'[s] = "successful" \/ refresher'[s] # "none" =>
               step[s] = "successful" \/ refresher[s] # "none",
           \A x \in Slices : slice'[x] = slice[x] \/ slice[x] \notin {"successful", "absent"}
    PROVE  SuccessIsOfAllSlices'
<1> SUFFICES ASSUME NEW s \in Steps, step'[s] = "successful" \/ refresher'[s] # "none",
                    NEW x \in Slices, StepOf[x] = s, slice'[x] # "absent"
             PROVE  slice'[x] = "successful"
  BY DEF SuccessIsOfAllSlices, SlicesOf
<1>1. \A y \in SlicesOf(s, slice) : slice[y] = "successful"
  BY DEF SuccessIsOfAllSlices
<1> QED
  BY <1>1 DEF SlicesOf

\* A reconciliation makes successful what has only successful slices.
LEMMA ReconcileKeepsSuccess ==
    ASSUME NEW st \in [Steps -> StepStatuses],
           NEW ss \in [Slices -> SliceStatuses],
           NEW final \in Reconcilings(st),
           Reconciles(st, ss, final),
           NEW refreshed,
           \A s \in Steps : st[s] = "successful" \/ refreshed[s] # "none" =>
               AllSlicesSuccessful(s, ss)
    PROVE  \A s \in Steps : final[s] = "successful" \/ refreshed[s] # "none" =>
               AllSlicesSuccessful(s, SlicesFollow(st, final, ss))
<1> DEFINE follow == SlicesFollow(st, final, ss)
<1> SUFFICES ASSUME NEW s \in Steps, final[s] = "successful" \/ refreshed[s] # "none"
             PROVE  AllSlicesSuccessful(s, follow)
  OBVIOUS
<1>1. AllSlicesSuccessful(s, ss)
  <2>1. CASE st[s] = "successful" \/ refreshed[s] # "none"
    BY <2>1
  <2>2. CASE st[s] # "successful" /\ final[s] = "successful"
    <3>1. NoOpStep(s, ss)
      BY <2>2, ReconciledSuccess
    <3> QED
      BY <3>1 DEF NoOpStep, AllSlicesSuccessful
  <2> QED
    BY <2>1, <2>2
<1>2. final \in [Steps -> StepStatuses]
  BY ReconcilingFacts
<1>3. \A x \in Slices : follow[x] = ss[x] \/ ss[x] = "pending"
  BY <1>2, SlicesFollowFacts
<1> HIDE DEF follow
<1> QED
  BY <1>1, <1>3 DEF AllSlicesSuccessful, SlicesOf

LEMMA SettleKeepsSuccess ==
    ASSUME NEW st \in [Steps -> StepStatuses],
           NEW ss \in [Slices -> SliceStatuses],
           Settle(st, ss),
           \A s \in Steps : st[s] = "successful" \/ refresher'[s] # "none" =>
               AllSlicesSuccessful(s, ss)
    PROVE  SuccessIsOfAllSlices'
<1>1. PICK final \in Reconcilings(st) :
          /\ Reconciles(st, ss, final)
          /\ step' = final
          /\ slice' = SlicesFollow(st, final, ss)
  BY DEF Settle
<1>2. \A s \in Steps : final[s] = "successful" \/ refresher'[s] # "none" =>
          AllSlicesSuccessful(s, SlicesFollow(st, final, ss))
  BY <1>1, ReconcileKeepsSuccess
<1> QED
  BY <1>1, <1>2 DEF SuccessIsOfAllSlices, AllSlicesSuccessful, SlicesOf

\* _aggregate_step: success is of all slices, and a step that is successful
\* already has no live slice that could end.
LEMMA EndSliceKeepsSuccess ==
    ASSUME RowsTypeOK, SuccessIsOfAllSlices,
           NEW x \in Slices, slice[x] \in LiveSliceStatuses,
           NEW status \in FinalSliceStatuses,
           EndSlice(x, status),
           refresher' = refresher
    PROVE  SuccessIsOfAllSlices'
<1> DEFINE ss == [slice EXCEPT ![x] = status]
           s  == StepOf[x]
           st == AggregateStep(s, step, ss)
<1>1. /\ s \in Steps /\ step \in [Steps -> StepStatuses]
      /\ ss \in [Slices -> SliceStatuses]
      /\ \A y \in Slices \ {x} : ss[y] = slice[y]
  BY WorkflowAssumption DEF RowsTypeOK, SliceStatuses
<1>2. /\ st \in [Steps -> StepStatuses]
      /\ \A t \in Steps \ {s} : st[t] = step[t]
  BY <1>1, AggregateStepFacts
<1>3. Settle(st, ss)
  BY DEF EndSlice
<1>4. step[s] # "successful" /\ refresher[s] = "none"
  <2>1. x \in SlicesOf(s, slice) /\ slice[x] # "successful"
    BY DEF SlicesOf, LiveSliceStatuses
  <2> QED
    BY <1>1, <2>1 DEF SuccessIsOfAllSlices
<1>5. st[s] = "successful" => AllSlicesSuccessful(s, ss)
  <2> SUFFICES ASSUME st[s] = "successful" PROVE AllSlicesSuccessful(s, ss)
    OBVIOUS
  <2>1. AllSlicesFinal(s, ss) /\ SliceVerdict(s, ss) = "successful"
    BY <1>1, <1>4 DEF AggregateStep
  <2> QED
    BY <2>1 DEF AllSlicesFinal, SliceVerdict, AllSlicesSuccessful, FinalSliceStatuses
<1> HIDE DEF st
<1>6. \A t \in Steps : st[t] = "successful" \/ refresher'[t] # "none" =>
          AllSlicesSuccessful(t, ss)
  <2> SUFFICES ASSUME NEW t \in Steps, t # s, step[t] = "successful" \/ refresher[t] # "none"
               PROVE  AllSlicesSuccessful(t, ss)
    BY <1>2, <1>4, <1>5
  <2>1. \A y \in SlicesOf(t, slice) : slice[y] = "successful"
    BY DEF SuccessIsOfAllSlices
  <2>2. \A y \in Slices : StepOf[y] = t => ss[y] = slice[y]
    BY <1>1
  <2> HIDE DEF ss
  <2> QED
    BY <2>1, <2>2 DEF AllSlicesSuccessful, SlicesOf
<1> HIDE DEF ss
<1> QED
  BY <1>1, <1>2, <1>3, <1>6, SettleKeepsSuccess

\* The end of a refresh replaces slices of steps that are not successful only.
LEMMA EndRefreshKeepsSuccess ==
    ASSUME RowsTypeOK, SuccessIsOfAllSlices,
           NEW s \in Steps, refresher[s] # "none",
           NEW ss \in [Slices -> SliceStatuses],
           \A x \in Slices :
               \/ ss[x] = slice[x]
               \/ step[StepOf[x]] # "successful" /\ refresher[StepOf[x]] = "none",
           NEW verdict \in {"successful", "failed"},
           EndRefresh(s, ss, verdict)
    PROVE  SuccessIsOfAllSlices'
<1> DEFINE st == [step EXCEPT ![s] = verdict]
<1>1. Settle(st, ss) /\ refresher' = [refresher EXCEPT ![s] = "none"]
  BY DEF EndRefresh
<1>2. /\ st \in [Steps -> StepStatuses]
      /\ \A t \in Steps \ {s} : st[t] = step[t]
      /\ \A t \in Steps \ {s} : refresher'[t] = refresher[t]
  BY <1>1 DEF RowsTypeOK, StepStatuses, TerminalStepStatuses
<1> HIDE DEF st
<1>3. \A t \in Steps : step[t] = "successful" \/ refresher[t] # "none" =>
          AllSlicesSuccessful(t, ss)
  BY DEF SuccessIsOfAllSlices, AllSlicesSuccessful, SlicesOf
<1>4. refresher'[s] = "none"
  BY <1>1 DEF RowsTypeOK
<1>5. \A t \in Steps : st[t] = "successful" \/ refresher'[t] # "none" =>
          AllSlicesSuccessful(t, ss)
  BY <1>2, <1>3, <1>4
<1> QED
  BY <1>1, <1>2, <1>5, SettleKeepsSuccess

LEMMA DispatchKeepsSuccess ==
    ASSUME RowsTypeOK, SuccessIsOfAllSlices,
           NEW x \in Slices, NEW status, NEW runner,
           NEW final \in Reconcilings(step),
           Dispatch(x, status, runner, final)
    PROVE  SuccessIsOfAllSlices'
<1> DEFINE s  == StepOf[x]
           ss == SlicesFollow(step, final, slice)
<1>1. /\ Reconciles(step, slice, final)
      /\ final[s] \in {"pending", "running"}
      /\ slice[x] = "pending"
      /\ slice' = [ss EXCEPT ![x] = status]
      /\ step' = [final EXCEPT ![s] = "running"]
      /\ refresher' = refresher
  BY DEF Dispatch
<1>2. s \in Steps /\ final \in [Steps -> StepStatuses]
  BY WorkflowAssumption, ReconcilingFacts DEF RowsTypeOK
<1>3. ss \in [Slices -> SliceStatuses]
  BY <1>2, SlicesFollowFacts DEF RowsTypeOK
<1>4. \A t \in Steps : step[t] = "successful" \/ refresher[t] # "none" =>
          AllSlicesSuccessful(t, slice)
  BY DEF SuccessIsOfAllSlices, AllSlicesSuccessful
<1>5. \A t \in Steps : final[t] = "successful" \/ refresher[t] # "none" =>
          AllSlicesSuccessful(t, ss)
  BY <1>1, <1>4, ReconcileKeepsSuccess DEF RowsTypeOK
<1> HIDE DEF ss
<1>6. refresher[s] = "none"
  BY <1>1, <1>2, <1>4 DEF AllSlicesSuccessful, SlicesOf
<1>7. \A y \in Slices : StepOf[y] # s => slice'[y] = ss[y]
  BY <1>1, <1>3
<1>8. /\ step'[s] = "running"
      /\ \A t \in Steps \ {s} : step'[t] = final[t]
  BY <1>1, <1>2
<1> SUFFICES ASSUME NEW t \in Steps, step'[t] = "successful" \/ refresher'[t] # "none",
                    NEW y \in Slices, StepOf[y] = t, slice'[y] # "absent"
             PROVE  slice'[y] = "successful"
  BY DEF SuccessIsOfAllSlices, SlicesOf
<1>9. t # s /\ (final[t] = "successful" \/ refresher[t] # "none")
  BY <1>1, <1>6, <1>8
<1> QED
  BY <1>5, <1>7, <1>9 DEF AllSlicesSuccessful, SlicesOf

LEMMA CompleteSliceKeepsSuccess ==
    ASSUME RowsTypeOK, RowsInv, SuccessIsOfAllSlices,
           NEW x \in Slices, slice[x] \in ActiveSliceStatuses,
           NEW requested \in FinalSliceStatuses, NEW process,
           CompleteSlice(x, requested, process)
    PROVE  SuccessIsOfAllSlices'
<1> DEFINE status == IF job = "cancelling" /\ requested = "successful"
                     THEN "cancelled" ELSE requested
           s  == StepOf[x]
           ss == [slice EXCEPT ![x] = status]
<1>1. status \in FinalSliceStatuses /\ slice[x] \in LiveSliceStatuses
  BY DEF FinalSliceStatuses, LiveSliceStatuses, ActiveSliceStatuses
<1>2. CASE EndSlice(x, status) /\ UNCHANGED refresher
  <2> HIDE DEF status
  <2> QED
    BY <1>1, <1>2, EndSliceKeepsSuccess
<1>3. CASE /\ AllSlicesFinal(s, ss)
           /\ SliceVerdict(s, ss) = "successful"
           /\ slice' = ss
           /\ step' = [step EXCEPT ![s] = "running"]
           /\ refresher' = [refresher EXCEPT ![s] = process]
  <2>1. s \in Steps
    BY WorkflowAssumption
  <2>2. \A y \in SlicesOf(s, ss) : ss[y] = "successful"
    BY <1>3 DEF AllSlicesFinal, SliceVerdict, FinalSliceStatuses
  <2>3. \A y \in Slices : StepOf[y] # s => slice'[y] = slice[y]
    BY <1>3 DEF RowsTypeOK
  <2>4. \A t \in Steps \ {s} : step'[t] = step[t] /\ refresher'[t] = refresher[t]
    BY <1>3 DEF RowsTypeOK
  <2>5. slice' = ss
    BY <1>3
  <2> HIDE DEF ss
  <2> SUFFICES ASSUME NEW t \in Steps, step'[t] = "successful" \/ refresher'[t] # "none",
                      NEW y \in Slices, StepOf[y] = t, slice'[y] # "absent"
               PROVE  slice'[y] = "successful"
    BY DEF SuccessIsOfAllSlices, SlicesOf
  <2>6. CASE t = s
    BY <2>2, <2>5, <2>6 DEF SlicesOf
  <2>7. CASE t # s
    BY <2>3, <2>4, <2>7 DEF SuccessIsOfAllSlices, SlicesOf
  <2> QED
    BY <2>6, <2>7
<1>4. \/ /\ AllSlicesFinal(s, ss)
         /\ SliceVerdict(s, ss) = "successful"
         /\ slice' = ss
         /\ step' = [step EXCEPT ![s] = "running"]
         /\ refresher' = [refresher EXCEPT ![s] = process]
      \/ EndSlice(x, status) /\ UNCHANGED refresher
  BY DEF CompleteSlice
<1> QED
  BY <1>2, <1>3, <1>4

LEMMA TransactionKeepsSuccess ==
    ASSUME RowsTypeOK, RowsInv, CoverInv, SuccessIsOfAllSlices, Transaction
    PROVE  SuccessIsOfAllSlices'
<1>1. CASE PollJob
  <2>1. PICK final \in Reconcilings(step) :
            /\ Reconciles(step, slice, final)
            /\ step' = final
            /\ slice' = SlicesFollow(step, final, slice)
    BY <1>1 DEF PollJob
  <2>2. \A s \in Steps : final[s] = "successful" \/ refresher[s] # "none" =>
            AllSlicesSuccessful(s, SlicesFollow(step, final, slice))
    <3>1. \A s \in Steps : step[s] = "successful" \/ refresher[s] # "none" =>
              AllSlicesSuccessful(s, slice)
      BY DEF SuccessIsOfAllSlices, AllSlicesSuccessful
    <3> QED
      BY <2>1, <3>1, ReconcileKeepsSuccess DEF RowsTypeOK
  <2>3. refresher' = refresher
    BY <1>1 DEF PollJob
  <2> QED
    BY <2>1, <2>2, <2>3 DEF SuccessIsOfAllSlices, AllSlicesSuccessful, SlicesOf
<1>2. CASE \/ \E x \in Slices, t \in Tokens : ClaimRemoteSlice(x, t)
           \/ \E x \in Slices : StartLocalSlice(x)
  BY <1>2, DispatchKeepsSuccess DEF ClaimRemoteSlice, StartLocalSlice
<1>3. CASE \E x \in Slices, t \in Tokens : StartRemoteSlice(x, t)
  BY <1>3, SuccessStays DEF StartRemoteSlice, StartAccepted, RowsTypeOK
<1>4. CASE \E x \in Slices : FailPendingSlice(x)
  BY <1>4, EndSliceKeepsSuccess DEF FailPendingSlice, LiveSliceStatuses, FinalSliceStatuses
<1>5. CASE \E x \in Slices, requested \in FinalSliceStatuses, process \in {"server", "local"} :
              slice[x] \in ActiveSliceStatuses /\ CompleteSlice(x, requested, process)
  BY <1>5, CompleteSliceKeepsSuccess
<1>6. CASE \E x \in Slices : MarkLostSlice(x)
  <2>1. PICK x \in Slices : MarkLostSlice(x)
    BY <1>6
  <2>2. /\ slice[x] \in LiveSliceStatuses /\ refresher' = refresher
        /\ \E status \in {"cancelled", "failed"} : EndSlice(x, status)
    BY <2>1 DEF MarkLostSlice
  <2> QED
    BY <2>2, EndSliceKeepsSuccess DEF FinalSliceStatuses
<1>7. CASE \E s \in Steps, plan \in SUBSET Slices : RefreshSucceeds(s, plan)
  <2>1. PICK s \in Steps, plan \in SUBSET Slices : RefreshSucceeds(s, plan)
    BY <1>7
  <2> DEFINE replanned == {x \in Slices : StepOf[x] \in targets[s]}
             ss == [x \in Slices |-> IF x \notin replanned THEN slice[x]
                                     ELSE IF x \in plan THEN "pending" ELSE "absent"]
  <2>2. refresher[s] # "none" /\ EndRefresh(s, ss, "successful") /\ ReplanAllowed(s)
    BY <2>1 DEF RefreshSucceeds
  <2>3. ss \in [Slices -> SliceStatuses]
    BY DEF RowsTypeOK, SliceStatuses, LiveSliceStatuses
  <2>4. ASSUME NEW t \in targets[s]
        PROVE  step[t] # "successful" /\ refresher[t] = "none"
    <3>1. t \in Steps
      BY DEF RowsTypeOK
    <3>2. PICK x \in SlicesOf(t, slice) : TRUE
      BY <3>1 DEF CoverInv, EveryStepHasSlices
    <3>3. slice[x] = "pending"
      BY <2>2, <3>2 DEF ReplanAllowed
    <3> QED
      BY <3>1, <3>2, <3>3 DEF SuccessIsOfAllSlices
  <2>5. \A x \in Slices :
            \/ ss[x] = slice[x]
            \/ step[StepOf[x]] # "successful" /\ refresher[StepOf[x]] = "none"
    BY <2>4
  <2> HIDE DEF ss
  <2> QED
    BY <2>2, <2>3, <2>5, EndRefreshKeepsSuccess
<1>8. CASE \E s \in Steps : RefreshFails(s)
  BY <1>8, EndRefreshKeepsSuccess DEF RefreshFails, RowsTypeOK
<1>9. CASE \E r \in Runners : UnassignNotStarted(r)
  BY <1>9, SuccessStays DEF UnassignNotStarted
<1>10. CASE ApproveOversight
  BY <1>10, SuccessStays DEF ApproveOversight
<1>11. CASE CancelIdleJob
  BY <1>11, SuccessStays DEF CancelIdleJob
<1>12. CASE CancelRunningJob
  BY <1>12, SuccessStays DEF CancelRunningJob
<1>13. CASE FinalizeAbandonedCancellation
  BY <1>13, SuccessStays DEF FinalizeAbandonedCancellation, FinalSliceStatuses
<1> QED
  BY <1>1, <1>2, <1>3, <1>4, <1>5, <1>6, <1>7, <1>8, <1>9, <1>10, <1>11, <1>12, <1>13
     DEF Transaction

-----------------------------------------------------------------------------
(* NoStepLeftBehind: a running step has somebody who brings it to an end.  *)

TendedInv == NoStepLeftBehind /\ BlockedSlicesOfBlockedSteps

Tended(s, ss, refreshed) ==
    (\E x \in SlicesOf(s, ss) : ss[x] \in LiveSliceStatuses) \/ refreshed[s] # "none"

\* Transactions that begin no step and block no slice.
LEMMA TendedStays ==
    ASSUME TendedInv,
           job' \notin TerminalJobStatuses => job \notin TerminalJobStatuses,
           \A s \in Steps : job' = "running" /\ step'[s] = "running" =>
               job = "running" /\ step[s] = "running",
           \A s \in Steps : step[s] \in {"blocked", "skipped"} => step'[s] = step[s],
           \A s \in Steps : refresher[s] # "none" => refresher'[s] # "none",
           \A x \in Slices :
               \/ slice'[x] = slice[x]
               \/ slice[x] \in ActiveSliceStatuses /\ slice'[x] \in LiveSliceStatuses
               \/ slice'[x] \in FinalSliceStatuses /\ job' # "running"
    PROVE  TendedInv'
<1>1. BlockedSlicesOfBlockedSteps'
  BY WorkflowAssumption DEF TendedInv, BlockedSlicesOfBlockedSteps, LiveSliceStatuses, FinalSliceStatuses
<1>2. ASSUME NEW s \in Steps, job' = "running", step'[s] = "running"
      PROVE  Tended(s, slice', refresher')
  <2>1. Tended(s, slice, refresher)
    BY <1>2 DEF TendedInv, NoStepLeftBehind, Tended
  <2> QED
    BY <1>2, <2>1 DEF Tended, SlicesOf, LiveSliceStatuses
<1>3. NoStepLeftBehind'
  BY <1>2 DEF NoStepLeftBehind, Tended, SlicesOf
<1> QED
  BY <1>1, <1>3 DEF TendedInv

\* A reconciliation blocks slices with their steps and leaves running ones alone.
LEMMA ReconcileKeepsTended ==
    ASSUME NEW st \in [Steps -> StepStatuses],
           NEW ss \in [Slices -> SliceStatuses],
           NEW final \in Reconcilings(st),
           \A x \in Slices : ss[x] \in {"blocked", "skipped"} =>
               st[StepOf[x]] \in {"blocked", "skipped"}
    PROVE  /\ \A x \in Slices : SlicesFollow(st, final, ss)[x] \in {"blocked", "skipped"} =>
                final[StepOf[x]] \in {"blocked", "skipped"}
           /\ \A x \in Slices : final[StepOf[x]] = "running" =>
                SlicesFollow(st, final, ss)[x] = ss[x]
           /\ \A s \in Steps : final[s] = "running" => st[s] = "running"
<1>1. \A t \in Steps :
           \/ final[t] = st[t]
           \/ st[t] = "pending" /\ final[t] \in {"blocked", "skipped", "successful"}
  BY ReconcilingFacts
<1> QED
  BY <1>1, WorkflowAssumption DEF SlicesFollow

LEMMA SettleKeepsTended ==
    ASSUME job \in JobStatuses,
           NEW st \in [Steps -> StepStatuses],
           NEW ss \in [Slices -> SliceStatuses],
           Settle(st, ss),
           \A x \in Slices :
               job \notin TerminalJobStatuses /\ ss[x] \in {"blocked", "skipped"} =>
                   st[StepOf[x]] \in {"blocked", "skipped"},
           \A s \in Steps : job = "running" /\ st[s] = "running" => Tended(s, ss, refresher')
    PROVE  TendedInv'
<1>1. PICK final \in Reconcilings(st) :
          step' = final /\ slice' = SlicesFollow(st, final, ss)
  BY DEF Settle
<1>2. /\ job' \notin TerminalJobStatuses => job \notin TerminalJobStatuses
      /\ job' = "running" => job = "running"
  <2>1. \/ job' = job
        \/ job' \in TerminalJobStatuses /\ \A s \in Steps : step'[s] \in TerminalStepStatuses
        \/ /\ job' = "waiting_oversight"
           /\ job \notin TerminalJobStatuses \cup {"cancelling"}
           /\ \A s \in Steps : step'[s] # "running"
    BY SettleFacts
  <2> QED
    BY <2>1 DEF TerminalJobStatuses
<1>3. CASE job' \in TerminalJobStatuses
  BY <1>3 DEF TendedInv, NoStepLeftBehind, BlockedSlicesOfBlockedSteps, TerminalJobStatuses
<1>4. CASE job' \notin TerminalJobStatuses
  <2>1. /\ \A x \in Slices : slice'[x] \in {"blocked", "skipped"} =>
             step'[StepOf[x]] \in {"blocked", "skipped"}
        /\ \A x \in Slices : step'[StepOf[x]] = "running" => slice'[x] = ss[x]
        /\ \A s \in Steps : step'[s] = "running" => st[s] = "running"
    BY <1>1, <1>2, <1>4, ReconcileKeepsTended
  <2>2. ASSUME NEW s \in Steps, job' = "running", step'[s] = "running"
        PROVE  Tended(s, slice', refresher')
    <3>1. Tended(s, ss, refresher')
      BY <1>2, <2>1, <2>2
    <3>2. \A x \in Slices : StepOf[x] = s => slice'[x] = ss[x]
      BY <2>1, <2>2
    <3> QED
      BY <3>1, <3>2 DEF Tended, SlicesOf
  <2> QED
    BY <2>1, <2>2 DEF TendedInv, NoStepLeftBehind, BlockedSlicesOfBlockedSteps, Tended, SlicesOf
<1> QED
  BY <1>3, <1>4

\* _aggregate_step: with its last live slice a running step ends.
LEMMA EndSliceKeepsTended ==
    ASSUME RowsTypeOK, TendedInv,
           NEW x \in Slices, slice[x] \in LiveSliceStatuses,
           NEW status \in FinalSliceStatuses,
           EndSlice(x, status),
           refresher' = refresher
    PROVE  TendedInv'
<1> DEFINE ss == [slice EXCEPT ![x] = status]
           s  == StepOf[x]
           st == AggregateStep(s, step, ss)
<1>1. /\ s \in Steps /\ step \in [Steps -> StepStatuses]
      /\ ss \in [Slices -> SliceStatuses]
      /\ ss[x] = status
      /\ \A y \in Slices \ {x} : ss[y] = slice[y]
  BY WorkflowAssumption DEF RowsTypeOK, SliceStatuses
<1>2. /\ st \in [Steps -> StepStatuses]
      /\ \A t \in Steps \ {s} : st[t] = step[t]
      /\ AllSlicesFinal(s, ss) => st[s] \in TerminalStepStatuses
      /\ ~AllSlicesFinal(s, ss) => st[s] = step[s]
  <2>1. /\ st \in [Steps -> StepStatuses]
        /\ \A t \in Steps \ {s} : st[t] = step[t]
    BY <1>1, AggregateStepFacts
  <2>2. AllSlicesFinal(s, ss) => st = [step EXCEPT ![s] = SliceVerdict(s, ss)]
    BY DEF AggregateStep
  <2>3. ~AllSlicesFinal(s, ss) => st = step
    BY DEF AggregateStep
  <2>4. SliceVerdict(s, ss) \in TerminalStepStatuses
    BY DEF SliceVerdict, TerminalStepStatuses
  <2> HIDE DEF st, ss
  <2> QED
    BY <1>1, <2>1, <2>2, <2>3, <2>4
<1>3. Settle(st, ss)
  BY DEF EndSlice
<1> HIDE DEF st, ss
<1>4. ASSUME NEW y \in Slices, job \notin TerminalJobStatuses, ss[y] \in {"blocked", "skipped"}
      PROVE  st[StepOf[y]] \in {"blocked", "skipped"}
  <2>1. y # x /\ slice[y] \in {"blocked", "skipped"}
    BY <1>1, <1>4 DEF FinalSliceStatuses
  <2>2. step[StepOf[y]] \in {"blocked", "skipped"}
    BY <1>4, <2>1 DEF TendedInv, BlockedSlicesOfBlockedSteps
  <2>3. StepOf[y] = s => ~AllSlicesFinal(s, ss)
    BY <1>4 DEF AllSlicesFinal, SlicesOf, FinalSliceStatuses
  <2> QED
    BY <1>2, <2>2, <2>3, WorkflowAssumption
<1>5. ASSUME NEW t \in Steps, job = "running", st[t] = "running"
      PROVE  Tended(t, ss, refresher')
  <2>1. CASE t = s
    <3>1. ~AllSlicesFinal(s, ss) /\ step[s] = "running"
      BY <1>2, <1>5, <2>1 DEF TerminalStepStatuses
    <3>2. x \in SlicesOf(s, ss)
      BY <1>1 DEF SlicesOf, FinalSliceStatuses
    <3>3. PICK y \in SlicesOf(s, ss) : ss[y] \notin FinalSliceStatuses
      BY <3>1, <3>2 DEF AllSlicesFinal
    <3>4. y # x /\ y \in Slices /\ StepOf[y] = s /\ slice[y] = ss[y] /\ ss[y] # "absent"
      BY <1>1, <3>3 DEF SlicesOf
    <3>5. ss[y] \notin {"blocked", "skipped"}
      BY <1>5, <3>1, <3>4 DEF TendedInv, BlockedSlicesOfBlockedSteps, TerminalJobStatuses
    <3>6. ss[y] \in LiveSliceStatuses
      BY <1>1, <3>3, <3>4, <3>5 DEF SliceStatuses
    <3> QED
      BY <2>1, <3>3, <3>6 DEF Tended
  <2>2. CASE t # s
    <3>1. Tended(t, slice, refresher)
      BY <1>2, <1>5, <2>2 DEF TendedInv, NoStepLeftBehind, Tended
    <3>2. \A y \in Slices : StepOf[y] = t => ss[y] = slice[y]
      BY <1>1, <2>2
    <3> QED
      BY <3>1, <3>2 DEF Tended, SlicesOf
  <2> QED
    BY <2>1, <2>2
<1> QED
  BY <1>1, <1>2, <1>3, <1>4, <1>5, SettleKeepsTended DEF RowsTypeOK

\* After a replan the replanned steps have pending slices.
LEMMA EndRefreshKeepsTended ==
    ASSUME RowsTypeOK, RowsInv, TendedInv,
           NEW s \in Steps, refresher[s] # "none",
           NEW ss \in [Slices -> SliceStatuses],
           NEW T \in SUBSET Steps,
           \A t \in T : \E x \in SlicesOf(t, ss) : ss[x] = "pending",
           \A x \in Slices :
               \/ ss[x] = slice[x]
               \/ StepOf[x] \in T /\ ss[x] \in {"pending", "absent"},
           NEW verdict \in {"successful", "failed"},
           EndRefresh(s, ss, verdict)
    PROVE  TendedInv'
<1> DEFINE st == [step EXCEPT ![s] = verdict]
<1>1. Settle(st, ss) /\ refresher' = [refresher EXCEPT ![s] = "none"]
  BY DEF EndRefresh
<1>2. /\ st \in [Steps -> StepStatuses] /\ st[s] = verdict
      /\ \A t \in Steps \ {s} : st[t] = step[t]
      /\ \A t \in Steps \ {s} : refresher'[t] = refresher[t]
  BY <1>1 DEF RowsTypeOK, StepStatuses, TerminalStepStatuses
<1> HIDE DEF st
<1>3. ASSUME NEW x \in Slices, job \notin TerminalJobStatuses, ss[x] \in {"blocked", "skipped"}
      PROVE  st[StepOf[x]] \in {"blocked", "skipped"}
  <2>1. slice[x] \in {"blocked", "skipped"}
    BY <1>3
  <2>2. step[StepOf[x]] \in {"blocked", "skipped"}
    BY <1>3, <2>1 DEF TendedInv, BlockedSlicesOfBlockedSteps
  <2>3. StepOf[x] # s
    BY <1>3, <2>2 DEF RowsInv, RefreshFollowsTheSlices
  <2> QED
    BY <1>2, <2>2, <2>3, WorkflowAssumption
<1>4. ASSUME NEW t \in Steps, job = "running", st[t] = "running"
      PROVE  Tended(t, ss, refresher')
  <2>1. t # s /\ step[t] = "running"
    BY <1>2, <1>4
  <2>2. CASE t \in T
    BY <2>2 DEF Tended, LiveSliceStatuses
  <2>3. CASE t \notin T
    <3>1. Tended(t, slice, refresher)
      BY <1>4, <2>1 DEF TendedInv, NoStepLeftBehind, Tended
    <3>2. \A y \in Slices : StepOf[y] = t => ss[y] = slice[y]
      BY <2>3
    <3> QED
      BY <1>2, <2>1, <3>1, <3>2 DEF Tended, SlicesOf
  <2> QED
    BY <2>2, <2>3
<1>5. /\ job \in JobStatuses
      /\ \A x \in Slices :
             job \notin TerminalJobStatuses /\ ss[x] \in {"blocked", "skipped"} =>
                 st[StepOf[x]] \in {"blocked", "skipped"}
      /\ \A t \in Steps : job = "running" /\ st[t] = "running" => Tended(t, ss, refresher')
  BY <1>3, <1>4 DEF RowsTypeOK
<1> QED
  BY <1>1, <1>2, <1>5, SettleKeepsTended

\* A claim request that finds nothing leaves the running steps alone.
LEMMA PollJobKeepsTended ==
    ASSUME RowsTypeOK, TendedInv, PollJob
    PROVE  TendedInv'
<1>1. PICK final \in Reconcilings(step) :
          /\ step' = final
          /\ slice' = SlicesFollow(step, final, slice)
          /\ job' = UpdateOversight(job, final, approved)
          /\ job \in {"queued", "running"}
          /\ refresher' = refresher
  BY DEF PollJob
<1>2. job' = "running" => job = "running"
  BY <1>1, UpdateOversightFacts DEF RowsTypeOK
<1>3. /\ \A x \in Slices : slice'[x] \in {"blocked", "skipped"} =>
           step'[StepOf[x]] \in {"blocked", "skipped"}
      /\ \A x \in Slices : step'[StepOf[x]] = "running" => slice'[x] = slice[x]
      /\ \A s \in Steps : step'[s] = "running" => step[s] = "running"
  <2>1. \A x \in Slices : slice[x] \in {"blocked", "skipped"} =>
            step[StepOf[x]] \in {"blocked", "skipped"}
    BY <1>1 DEF TendedInv, BlockedSlicesOfBlockedSteps, TerminalJobStatuses
  <2> QED
    BY <1>1, <2>1, ReconcileKeepsTended DEF RowsTypeOK
<1>4. ASSUME NEW s \in Steps, job' = "running", step'[s] = "running"
      PROVE  Tended(s, slice', refresher')
  <2>1. Tended(s, slice, refresher)
    BY <1>2, <1>3, <1>4 DEF TendedInv, NoStepLeftBehind, Tended
  <2>2. \A x \in Slices : StepOf[x] = s => slice'[x] = slice[x]
    BY <1>3, <1>4
  <2> QED
    BY <1>1, <2>1, <2>2 DEF Tended, SlicesOf
<1> QED
  BY <1>3, <1>4 DEF TendedInv, NoStepLeftBehind, BlockedSlicesOfBlockedSteps, Tended, SlicesOf

LEMMA DispatchKeepsTended ==
    ASSUME RowsTypeOK, RowsInv, TendedInv,
           NEW x \in Slices, NEW status \in ActiveSliceStatuses, NEW runner,
           NEW final \in Reconcilings(step),
           Dispatch(x, status, runner, final)
    PROVE  TendedInv'
<1> DEFINE s  == StepOf[x]
           ss == SlicesFollow(step, final, slice)
<1>1. /\ job \in {"queued", "running"}
      /\ Reconciles(step, slice, final)
      /\ final[s] \in {"pending", "running"}
      /\ slice' = [ss EXCEPT ![x] = status]
      /\ step' = [final EXCEPT ![s] = "running"]
      /\ refresher' = refresher
  BY DEF Dispatch
<1>2. /\ final \in [Steps -> StepStatuses] /\ ss \in [Slices -> SliceStatuses]
      /\ s \in Steps
  BY <1>1, ReconciledRows, WorkflowAssumption
<1>3. /\ \A y \in Slices : ss[y] \in {"blocked", "skipped"} =>
           final[StepOf[y]] \in {"blocked", "skipped"}
      /\ \A y \in Slices : final[StepOf[y]] = "running" => ss[y] = slice[y]
      /\ \A t \in Steps : final[t] = "running" => step[t] = "running"
  <2>1. \A y \in Slices : slice[y] \in {"blocked", "skipped"} =>
            step[StepOf[y]] \in {"blocked", "skipped"}
    BY <1>1 DEF TendedInv, BlockedSlicesOfBlockedSteps, TerminalJobStatuses
  <2> QED
    BY <2>1, ReconcileKeepsTended DEF RowsTypeOK
<1> HIDE DEF ss
<1>4. /\ slice'[x] = status /\ \A y \in Slices \ {x} : slice'[y] = ss[y]
      /\ step'[s] = "running" /\ \A t \in Steps \ {s} : step'[t] = final[t]
  BY <1>1, <1>2
<1>5. BlockedSlicesOfBlockedSteps'
  <2> SUFFICES ASSUME NEW y \in Slices, slice'[y] \in {"blocked", "skipped"}
               PROVE  step'[StepOf[y]] \in {"blocked", "skipped"}
    BY DEF BlockedSlicesOfBlockedSteps
  <2>1. y # x /\ ss[y] \in {"blocked", "skipped"}
    BY <1>4 DEF ActiveSliceStatuses
  <2>2. final[StepOf[y]] \in {"blocked", "skipped"}
    BY <1>3, <2>1
  <2> QED
    BY <1>1, <1>4, <2>2, WorkflowAssumption
<1>6. ASSUME NEW t \in Steps, step'[t] = "running"
      PROVE  Tended(t, slice', refresher')
  <2>1. CASE t = s
    <3>1. x \in SlicesOf(t, slice') /\ slice'[x] \in LiveSliceStatuses
      BY <1>4, <2>1 DEF SlicesOf, ActiveSliceStatuses, LiveSliceStatuses
    <3> QED
      BY <3>1 DEF Tended
  <2>2. CASE t # s
    <3>1. final[t] = "running" /\ step[t] = "running"
      BY <1>3, <1>4, <1>6, <2>2
    <3>2. job = "running"
      BY <1>1, <3>1 DEF RowsInv, IdleJobRunsNothing
    <3>3. Tended(t, slice, refresher)
      BY <3>1, <3>2 DEF TendedInv, NoStepLeftBehind, Tended
    <3>4. \A y \in Slices : StepOf[y] = t => slice'[y] = slice[y]
      BY <1>3, <1>4, <2>2, <3>1
    <3> QED
      BY <1>1, <3>3, <3>4 DEF Tended, SlicesOf
  <2> QED
    BY <2>1, <2>2
<1> QED
  BY <1>5, <1>6 DEF TendedInv, NoStepLeftBehind, Tended, SlicesOf

\* A step whose refresh begins is tended by the process inside it.
LEMMA CompleteSliceKeepsTended ==
    ASSUME RowsTypeOK, RowsInv, TendedInv,
           NEW x \in Slices, slice[x] \in ActiveSliceStatuses,
           NEW requested \in FinalSliceStatuses, NEW process, process # "none",
           CompleteSlice(x, requested, process)
    PROVE  TendedInv'
<1> DEFINE status == IF job = "cancelling" /\ requested = "successful"
                     THEN "cancelled" ELSE requested
           s  == StepOf[x]
           ss == [slice EXCEPT ![x] = status]
<1>1. status \in FinalSliceStatuses /\ slice[x] \in LiveSliceStatuses
  BY DEF FinalSliceStatuses, LiveSliceStatuses, ActiveSliceStatuses
<1>2. CASE EndSlice(x, status) /\ UNCHANGED refresher
  <2> HIDE DEF status
  <2> QED
    BY <1>1, <1>2, EndSliceKeepsTended
<1>3. CASE /\ slice' = ss /\ job' = job
           /\ step' = [step EXCEPT ![s] = "running"]
           /\ refresher' = [refresher EXCEPT ![s] = process]
  <2>1. s \in Steps /\ step[s] = "running"
    BY WorkflowAssumption DEF RowsInv, ActiveSlicesOfRunningSteps
  <2>2. step' = step /\ \A t \in Steps \ {s} : refresher'[t] = refresher[t]
    BY <1>3, <2>1 DEF RowsTypeOK
  <2>3. /\ refresher'[s] = process
        /\ slice'[x] = status /\ \A y \in Slices \ {x} : slice'[y] = slice[y]
    BY <1>3, <2>1 DEF RowsTypeOK
  <2> HIDE DEF status
  <2>4. BlockedSlicesOfBlockedSteps'
    BY <1>1, <1>3, <2>2, <2>3
       DEF TendedInv, BlockedSlicesOfBlockedSteps, FinalSliceStatuses
  <2>5. ASSUME NEW t \in Steps, job' = "running", step'[t] = "running"
        PROVE  Tended(t, slice', refresher')
    <3>1. CASE t = s
      BY <2>3, <3>1 DEF Tended
    <3>2. CASE t # s
      <4>1. Tended(t, slice, refresher)
        BY <1>3, <2>2, <2>5 DEF TendedInv, NoStepLeftBehind, Tended
      <4>2. \A y \in Slices : StepOf[y] = t => slice'[y] = slice[y]
        BY <2>3, <3>2
      <4> QED
        BY <2>2, <3>2, <4>1, <4>2 DEF Tended, SlicesOf
    <3> QED
      BY <3>1, <3>2
  <2> QED
    BY <2>4, <2>5 DEF TendedInv, NoStepLeftBehind, Tended, SlicesOf
<1>4. \/ /\ slice' = ss /\ job' = job
         /\ step' = [step EXCEPT ![s] = "running"]
         /\ refresher' = [refresher EXCEPT ![s] = process]
      \/ EndSlice(x, status) /\ UNCHANGED refresher
  BY DEF CompleteSlice
<1> QED
  BY <1>2, <1>3, <1>4

LEMMA RefreshSucceedsKeepsTended ==
    ASSUME RowsTypeOK, RowsInv, TendedInv, EveryStepHasSlices',
           NEW s \in Steps, NEW plan \in SUBSET Slices, RefreshSucceeds(s, plan)
    PROVE  TendedInv'
<1> DEFINE replanned == {x \in Slices : StepOf[x] \in targets[s]}
           ss == [x \in Slices |-> IF x \notin replanned THEN slice[x]
                                   ELSE IF x \in plan THEN "pending" ELSE "absent"]
<1>1. refresher[s] # "none" /\ EndRefresh(s, ss, "successful")
  BY DEF RefreshSucceeds
<1>2. ss \in [Slices -> SliceStatuses] /\ targets[s] \in SUBSET Steps
  BY DEF RowsTypeOK, SliceStatuses, LiveSliceStatuses
<1>3. \A x \in Slices :
          \/ ss[x] = slice[x]
          \/ StepOf[x] \in targets[s] /\ ss[x] \in {"pending", "absent"}
  OBVIOUS
<1>4. \A x \in Slices : StepOf[x] \in targets[s] => ss[x] \in {"pending", "absent"}
  OBVIOUS
<1> HIDE DEF ss
<1>5. \A x \in Slices : ss[x] = "absent" => slice'[x] = "absent"
  <2> DEFINE st == [step EXCEPT ![s] = "successful"]
  <2>1. st \in [Steps -> StepStatuses] /\ Settle(st, ss)
    BY <1>1 DEF EndRefresh, RowsTypeOK, StepStatuses, TerminalStepStatuses
  <2> HIDE DEF st
  <2> QED
    BY <1>2, <2>1, SettleFacts DEF RowsTypeOK
<1>6. \A t \in targets[s] : \E x \in SlicesOf(t, ss) : ss[x] = "pending"
  <2> SUFFICES ASSUME NEW t \in targets[s]
               PROVE  \E x \in SlicesOf(t, ss) : ss[x] = "pending"
    OBVIOUS
  <2>1. PICK x \in Slices : StepOf[x] = t /\ slice'[x] # "absent"
    BY <1>2 DEF EveryStepHasSlices, SlicesOf
  <2>2. ss[x] = "pending"
    BY <1>4, <1>5, <2>1
  <2> QED
    BY <2>1, <2>2 DEF SlicesOf
<1> QED
  BY <1>1, <1>2, <1>3, <1>6, EndRefreshKeepsTended

\* No transaction leaves a step behind.
LEMMA TransactionKeepsTended ==
    ASSUME RowsTypeOK, RowsInv, TendedInv, EveryStepHasSlices', Transaction
    PROVE  TendedInv'
<1>1. CASE PollJob
  BY <1>1, PollJobKeepsTended
<1>2. CASE \/ \E x \in Slices, t \in Tokens : ClaimRemoteSlice(x, t)
           \/ \E x \in Slices : StartLocalSlice(x)
  BY <1>2, DispatchKeepsTended DEF ClaimRemoteSlice, StartLocalSlice, ActiveSliceStatuses
<1>3. CASE \E x \in Slices, t \in Tokens : StartRemoteSlice(x, t)
  <2>1. PICK x \in Slices : /\ slice[x] \in {"assigned", "running"}
                            /\ slice' = [slice EXCEPT ![x] = "running"]
                            /\ UNCHANGED <<job, step, refresher>>
    BY <1>3 DEF StartRemoteSlice, StartAccepted
  <2>2. \A y \in Slices :
           \/ slice'[y] = slice[y]
           \/ slice[y] \in ActiveSliceStatuses /\ slice'[y] \in LiveSliceStatuses
    BY <2>1 DEF RowsTypeOK, ActiveSliceStatuses, LiveSliceStatuses
  <2> QED
    BY <2>1, <2>2, TendedStays
<1>4. CASE \E x \in Slices : FailPendingSlice(x)
  BY <1>4, EndSliceKeepsTended DEF FailPendingSlice, LiveSliceStatuses, FinalSliceStatuses
<1>5. CASE \E x \in Slices, requested \in FinalSliceStatuses, process \in {"server", "local"} :
              slice[x] \in ActiveSliceStatuses /\ CompleteSlice(x, requested, process)
  BY <1>5, CompleteSliceKeepsTended
<1>6. CASE \E x \in Slices : MarkLostSlice(x)
  <2>1. PICK x \in Slices : MarkLostSlice(x)
    BY <1>6
  <2>2. /\ slice[x] \in LiveSliceStatuses /\ refresher' = refresher
        /\ \E status \in {"cancelled", "failed"} : EndSlice(x, status)
    BY <2>1 DEF MarkLostSlice
  <2> QED
    BY <2>2, EndSliceKeepsTended DEF FinalSliceStatuses
<1>7. CASE \E s \in Steps, plan \in SUBSET Slices : RefreshSucceeds(s, plan)
  BY <1>7, RefreshSucceedsKeepsTended
<1>8. CASE \E s \in Steps : RefreshFails(s)
  <2>1. PICK s \in Steps : RefreshFails(s)
    BY <1>8
  <2>2. refresher[s] # "none" /\ EndRefresh(s, slice, "failed")
    BY <2>1 DEF RefreshFails
  <2>3. slice \in [Slices -> SliceStatuses]
    BY DEF RowsTypeOK
  <2> QED
    BY <2>2, <2>3, EndRefreshKeepsTended, {} \in SUBSET Steps
<1>9. CASE \E r \in Runners : UnassignNotStarted(r)
  <2>1. /\ \A x \in Slices : \/ slice'[x] = slice[x]
                             \/ slice[x] = "assigned" /\ slice'[x] = "pending"
        /\ UNCHANGED <<job, step, refresher>>
    BY <1>9 DEF UnassignNotStarted
  <2> QED
    BY <2>1, TendedStays DEF ActiveSliceStatuses, LiveSliceStatuses
<1>10. CASE ApproveOversight
  <2>1. /\ job = "waiting_oversight" /\ job \notin TerminalJobStatuses
        /\ UNCHANGED <<step, slice, refresher>>
    BY <1>10 DEF ApproveOversight, TerminalJobStatuses
  <2>2. \A s \in Steps : step'[s] # "running"
    BY <2>1 DEF RowsInv, IdleJobRunsNothing
  <2> QED
    BY <2>1, <2>2, TendedStays
<1>11. CASE CancelIdleJob
  BY <1>11, TendedStays DEF CancelIdleJob, TerminalJobStatuses, FinalSliceStatuses
<1>12. CASE CancelRunningJob
  <2>1. /\ job = "running" /\ job' = "cancelling" /\ refresher' = refresher
        /\ \A x \in Slices : slice'[x] = slice[x] \/ slice'[x] = "cancelled"
        /\ \A s \in Steps : step[s] # "pending" => step'[s] = step[s]
    BY <1>12 DEF CancelRunningJob
  <2> QED
    BY <2>1, TendedStays DEF TerminalJobStatuses, FinalSliceStatuses
<1>13. CASE FinalizeAbandonedCancellation
  BY <1>13, TendedStays
     DEF FinalizeAbandonedCancellation, TerminalJobStatuses, TerminalStepStatuses, FinalSliceStatuses
<1> QED
  BY <1>1, <1>2, <1>3, <1>4, <1>5, <1>6, <1>7, <1>8, <1>9, <1>10, <1>11, <1>12, <1>13
     DEF Transaction

-----------------------------------------------------------------------------
(* LastStepEndsJob: the polls of an open Job find nothing to reconcile.    *)

\* No transaction returns a step to "pending".
LEMMA StepsNeverPendAgain ==
    ASSUME RowsTypeOK, Transaction,
           NEW s \in Steps, step'[s] = "pending"
    PROVE  step[s] = "pending"
<1>1. ASSUME NEW st \in [Steps -> StepStatuses], NEW ss \in [Slices -> SliceStatuses],
             Settle(st, ss)
      PROVE  st[s] = "pending"
  BY <1>1, SettleFacts DEF RowsTypeOK
<1>2. ASSUME NEW x \in Slices, NEW status \in FinalSliceStatuses, EndSlice(x, status)
      PROVE  step[s] = "pending"
  <2> DEFINE ss == [slice EXCEPT ![x] = status]
             st == AggregateStep(StepOf[x], step, ss)
  <2>1. ss \in [Slices -> SliceStatuses] /\ Settle(st, ss)
    BY <1>2 DEF RowsTypeOK, SliceStatuses, EndSlice
  <2> HIDE DEF ss
  <2>2. step \in [Steps -> StepStatuses] /\ StepOf[x] \in Steps
    BY WorkflowAssumption DEF RowsTypeOK
  <2>3. /\ st \in [Steps -> StepStatuses]
        /\ \A t \in Steps \ {StepOf[x]} : st[t] = step[t]
        /\ st[StepOf[x]] = step[StepOf[x]] \/ st[StepOf[x]] \in TerminalStepStatuses
    BY <2>2, AggregateStepFacts
  <2> HIDE DEF st
  <2>4. st[s] = step[s] \/ st[s] \in TerminalStepStatuses
    BY <2>3
  <2> QED
    BY <1>1, <2>1, <2>3, <2>4 DEF TerminalStepStatuses
<1>3. CASE PollJob
  BY <1>3, ReconcilingFacts DEF PollJob, RowsTypeOK
<1>4. CASE \/ \E x \in Slices, t \in Tokens : ClaimRemoteSlice(x, t)
           \/ \E x \in Slices : StartLocalSlice(x)
  <2>1. PICK x \in Slices, final \in Reconcilings(step) :
            step' = [final EXCEPT ![StepOf[x]] = "running"]
    BY <1>4 DEF ClaimRemoteSlice, StartLocalSlice, Dispatch
  <2>2. step[s] = final[s] \/ step[s] = "pending"
    BY ReconcilingFacts DEF RowsTypeOK
  <2>3. final \in [Steps -> StepStatuses]
    BY ReconcilingFacts DEF RowsTypeOK
  <2>4. step'[s] = final[s] \/ step'[s] = "running"
    BY <2>1, <2>3
  <2> QED
    BY <2>2, <2>4
<1>5. CASE \E x \in Slices : FailPendingSlice(x)
  BY <1>2, <1>5 DEF FailPendingSlice, FinalSliceStatuses
<1>6. CASE \E x \in Slices, requested \in FinalSliceStatuses, process \in {"server", "local"} :
              slice[x] \in ActiveSliceStatuses /\ CompleteSlice(x, requested, process)
  <2>1. PICK x \in Slices, requested \in FinalSliceStatuses, process \in {"server", "local"} :
            CompleteSlice(x, requested, process)
    BY <1>6
  <2>2. \/ step' = [step EXCEPT ![StepOf[x]] = "running"]
        \/ \E status \in FinalSliceStatuses : EndSlice(x, status)
    BY <2>1 DEF CompleteSlice, FinalSliceStatuses
  <2> QED
    BY <1>2, <2>2 DEF RowsTypeOK
<1>7. CASE \E x \in Slices : MarkLostSlice(x)
  BY <1>2, <1>7 DEF MarkLostSlice, FinalSliceStatuses
<1>8. CASE \/ \E r \in Steps, plan \in SUBSET Slices : RefreshSucceeds(r, plan)
           \/ \E r \in Steps : RefreshFails(r)
  <2>1. PICK r \in Steps, verdict \in {"successful", "failed"}, ss \in [Slices -> SliceStatuses] :
            Settle([step EXCEPT ![r] = verdict], ss)
    <3>1. CASE \E r \in Steps : RefreshFails(r)
      BY <3>1 DEF RefreshFails, EndRefresh, RowsTypeOK
    <3>2. CASE \E r \in Steps, plan \in SUBSET Slices : RefreshSucceeds(r, plan)
      <4>1. PICK r \in Steps, plan \in SUBSET Slices : RefreshSucceeds(r, plan)
        BY <3>2
      <4> DEFINE replanned == {x \in Slices : StepOf[x] \in targets[r]}
                 ss == [x \in Slices |-> IF x \notin replanned THEN slice[x]
                                         ELSE IF x \in plan THEN "pending" ELSE "absent"]
      <4>2. Settle([step EXCEPT ![r] = "successful"], ss)
        BY <4>1 DEF RefreshSucceeds, EndRefresh
      <4>3. ss \in [Slices -> SliceStatuses]
        BY DEF RowsTypeOK, SliceStatuses, LiveSliceStatuses
      <4> HIDE DEF ss
      <4> QED
        BY <4>2, <4>3
    <3> QED
      BY <1>8, <3>1, <3>2
  <2> DEFINE st == [step EXCEPT ![r] = verdict]
  <2>2. /\ st \in [Steps -> StepStatuses]
        /\ st[s] = step[s] \/ st[s] = verdict
    BY DEF RowsTypeOK, StepStatuses, TerminalStepStatuses
  <2>3. Settle(st, ss)
    BY <2>1
  <2> HIDE DEF st
  <2> QED
    BY <1>1, <2>2, <2>3
<1>9. CASE \/ \E x \in Slices, t \in Tokens : StartRemoteSlice(x, t)
           \/ \E r \in Runners : UnassignNotStarted(r)
           \/ ApproveOversight
  BY <1>9 DEF StartRemoteSlice, UnassignNotStarted, ApproveOversight
<1>10. CASE CancelIdleJob \/ CancelRunningJob \/ FinalizeAbandonedCancellation
  BY <1>10 DEF CancelIdleJob, CancelRunningJob, FinalizeAbandonedCancellation
<1> QED
  BY <1>3, <1>4, <1>5, <1>6, <1>7, <1>8, <1>9, <1>10 DEF Transaction

\* Whatever becomes of the slices of other steps: a pending step has nothing to
\* turn into as long as its dependencies are as before.
LEMMA ReconciledFrame ==
    ASSUME NEW st, NEW ss, Reconciles(st, ss, st),
           NEW st2, NEW ss2,
           \A s \in Steps : st2[s] # st[s] =>
               st2[s] # "pending" /\ st2[s] \notin TerminalStepStatuses
                   /\ st[s] \notin TerminalStepStatuses,
           \A x \in Slices : st2[StepOf[x]] = "pending" => ss2[x] = ss[x]
    PROVE  Reconciles(st2, ss2, st2)
<1> SUFFICES ASSUME NEW s \in Steps, st2[s] = "pending"
             PROVE  PendingStepBecomes(s, st2, ss2) = "pending"
  BY DEF Reconciles
<1>1. st[s] = "pending"
  OBVIOUS
<1>2. PendingStepBecomes(s, st, ss) = "pending"
  BY <1>1 DEF Reconciles
<1>3. DependencyState(s, st2) = DependencyState(s, st)
  BY DependencyStateIsLocal
<1>4. NoOpStep(s, ss2) <=> NoOpStep(s, ss)
  BY NoOpStepIsLocal
<1> QED
  BY <1>2, <1>3, <1>4 DEF PendingStepBecomes

OpenJobStatuses == {"queued", "running", "waiting_oversight"}

\* Some step of the Job as it was queued can be neither skipped nor blocked nor
\* left out as a no-op: a claim request finds work.
WorkIsLeft ==
    \A final \in [Steps -> StepStatuses] :
        Reconciles([s \in Steps |-> "pending"], InitialSlices, final)
            => \E s \in Steps : final[s] = "pending"

SettledInv == NothingToReconcile /\ LastStepEndsJob

\* Transactions that leave the steps, and the slices of pending steps, alone.
LEMMA SettledStays ==
    ASSUME RowsTypeOK, SettledInv,
           step' = step,
           \A x \in Slices : step[StepOf[x]] = "pending" => slice'[x] = slice[x],
           slice' \in [Slices -> SliceStatuses],
           job' \in OpenJobStatuses => job \in OpenJobStatuses,
           job' = job \/ job \in OpenJobStatuses
    PROVE  SettledInv'
<1>1. LastStepEndsJob'
  BY DEF SettledInv, LastStepEndsJob, OpenJobStatuses, TerminalJobStatuses
<1>2. ASSUME job' \in OpenJobStatuses
      PROVE  Untouched' \/ Reconciles(step', slice', step')
  <2>1. Untouched \/ Reconciles(step, slice, step)
    BY <1>2 DEF SettledInv, NothingToReconcile, OpenJobStatuses
  <2>2. CASE Untouched
    <3>1. \A x \in Slices : slice'[x] = slice[x]
      BY <2>2, WorkflowAssumption DEF Untouched
    <3>2. slice' = slice
      BY <3>1 DEF RowsTypeOK
    <3> QED
      BY <2>2, <3>2 DEF Untouched, InitialSlices
  <2>3. CASE Reconciles(step, slice, step)
    BY <2>3, ReconciledFrame
  <2> QED
    BY <2>1, <2>2, <2>3
<1> QED
  BY <1>1, <1>2 DEF SettledInv, NothingToReconcile, OpenJobStatuses

LEMMA SettleSettles ==
    ASSUME job \in JobStatuses,
           NEW st \in [Steps -> StepStatuses], NEW ss \in [Slices -> SliceStatuses],
           Settle(st, ss)
    PROVE  SettledInv'
<1>1. Reconciles(step', slice', step')
  BY SettleReconciles
<1>2. (\A s \in Steps : step'[s] \in TerminalStepStatuses) => job' \in TerminalJobStatuses
  BY SettleFacts
<1> QED
  BY <1>1, <1>2 DEF SettledInv, NothingToReconcile, LastStepEndsJob

LEMMA EndSliceSettles ==
    ASSUME RowsTypeOK,
           NEW x \in Slices, NEW status \in FinalSliceStatuses,
           EndSlice(x, status)
    PROVE  SettledInv'
<1> DEFINE ss == [slice EXCEPT ![x] = status]
           st == AggregateStep(StepOf[x], step, ss)
<1>1. ss \in [Slices -> SliceStatuses] /\ Settle(st, ss)
  BY DEF RowsTypeOK, SliceStatuses, EndSlice
<1> HIDE DEF ss
<1>2. st \in [Steps -> StepStatuses]
  BY AggregateStepFacts, WorkflowAssumption DEF RowsTypeOK
<1> HIDE DEF st
<1> QED
  BY <1>1, <1>2, SettleSettles DEF RowsTypeOK

\* A claim request that finds nothing finds a Job that was reconciled before,
\* or one whose first step can begin.
LEMMA PollJobSettles ==
    ASSUME RowsTypeOK, WorkIsLeft, SettledInv, PollJob
    PROVE  SettledInv'
<1>1. PICK final \in Reconcilings(step) :
          /\ Reconciles(step, slice, final)
          /\ step' = final
          /\ slice' = SlicesFollow(step, final, slice)
          /\ job \in {"queued", "running"}
  BY DEF PollJob
<1>2. final \in [Steps -> StepStatuses]
  BY ReconcilingFacts DEF RowsTypeOK
<1>3. Reconciles(step', slice', step')
  BY <1>1, ReconciledTwice DEF RowsTypeOK
<1>4. \E s \in Steps : final[s] \notin TerminalStepStatuses
  <2>1. Untouched \/ Reconciles(step, slice, step)
    BY <1>1 DEF SettledInv, NothingToReconcile
  <2>2. CASE Untouched
    <3>1. Reconciles([s \in Steps |-> "pending"], InitialSlices, final)
      BY <1>1, <2>2 DEF Untouched
    <3> QED
      BY <1>2, <3>1 DEF WorkIsLeft, TerminalStepStatuses
  <2>3. CASE Reconciles(step, slice, step)
    <3>1. \A s \in Steps : final[s] = step[s]
      BY <1>1, <2>3, ReconciliationIsUnique
    <3>2. job \notin TerminalJobStatuses \cup {"cancelling"}
      BY <1>1 DEF TerminalJobStatuses
    <3> QED
      BY <3>1, <3>2 DEF SettledInv, LastStepEndsJob
  <2> QED
    BY <2>1, <2>2, <2>3
<1> QED
  BY <1>1, <1>3, <1>4 DEF SettledInv, NothingToReconcile, LastStepEndsJob

LEMMA DispatchSettles ==
    ASSUME RowsTypeOK,
           NEW x \in Slices, NEW status, NEW runner,
           NEW final \in Reconcilings(step),
           Dispatch(x, status, runner, final)
    PROVE  SettledInv'
<1> DEFINE s  == StepOf[x]
           ss == SlicesFollow(step, final, slice)
<1>1. /\ Reconciles(step, slice, final)
      /\ final[s] \in {"pending", "running"}
      /\ slice' = [ss EXCEPT ![x] = status]
      /\ step' = [final EXCEPT ![s] = "running"]
  BY DEF Dispatch
<1>2. /\ final \in [Steps -> StepStatuses]
      /\ s \in Steps
  BY ReconcilingFacts, WorkflowAssumption DEF RowsTypeOK
<1>3. ss \in [Slices -> SliceStatuses]
  BY <1>2, SlicesFollowFacts DEF RowsTypeOK
<1>4. Reconciles(final, ss, final)
  BY <1>1, ReconciledTwice DEF RowsTypeOK
<1> HIDE DEF ss
<1>5. /\ \A y \in Slices \ {x} : slice'[y] = ss[y]
      /\ step'[s] = "running" /\ \A t \in Steps \ {s} : step'[t] = final[t]
  BY <1>1, <1>2, <1>3
<1>6. Reconciles(step', slice', step')
  <2>1. \A t \in Steps : step'[t] # final[t] =>
           step'[t] # "pending" /\ step'[t] \notin TerminalStepStatuses
               /\ final[t] \notin TerminalStepStatuses
    BY <1>1, <1>5 DEF TerminalStepStatuses
  <2>2. \A y \in Slices : step'[StepOf[y]] = "pending" => slice'[y] = ss[y]
    BY <1>5
  <2> QED
    BY <1>4, <2>1, <2>2, ReconciledFrame
<1> QED
  BY <1>2, <1>5, <1>6 DEF SettledInv, NothingToReconcile, LastStepEndsJob, TerminalStepStatuses

\* Between two transactions an open Job has a step that has not ended, and its
\* claim requests reconcile nothing but the first time.
LEMMA TransactionSettles ==
    ASSUME RowsTypeOK, ActiveSlicesOfRunningSteps, RowsTypeOK', WorkIsLeft, SettledInv, Transaction
    PROVE  SettledInv'
<1> USE DEF OpenJobStatuses
<1>0. slice' \in [Slices -> SliceStatuses]
  BY DEF RowsTypeOK
<1>1. CASE PollJob
  BY <1>1, PollJobSettles
<1>2. CASE \/ \E x \in Slices, t \in Tokens : ClaimRemoteSlice(x, t)
           \/ \E x \in Slices : StartLocalSlice(x)
  BY <1>2, DispatchSettles DEF ClaimRemoteSlice, StartLocalSlice
<1>3. CASE \E x \in Slices, t \in Tokens : StartRemoteSlice(x, t)
  <2>1. PICK x \in Slices : /\ slice[x] \in {"assigned", "running"}
                            /\ slice' = [slice EXCEPT ![x] = "running"]
                            /\ UNCHANGED <<job, step>>
    BY <1>3 DEF StartRemoteSlice, StartAccepted
  <2>2. step[StepOf[x]] = "running"
    BY <2>1 DEF ActiveSlicesOfRunningSteps, ActiveSliceStatuses
  <2>3. \A y \in Slices : step[StepOf[y]] = "pending" => slice'[y] = slice[y]
    BY <2>1, <2>2 DEF RowsTypeOK
  <2> QED
    BY <1>0, <2>1, <2>3, SettledStays
<1>4. CASE \E x \in Slices : FailPendingSlice(x)
  BY <1>4, EndSliceSettles DEF FailPendingSlice, FinalSliceStatuses
<1>5. CASE \E x \in Slices, requested \in FinalSliceStatuses, process \in {"server", "local"} :
              slice[x] \in ActiveSliceStatuses /\ CompleteSlice(x, requested, process)
  <2>1. PICK x \in Slices, requested \in FinalSliceStatuses, process \in {"server", "local"} :
            slice[x] \in ActiveSliceStatuses /\ CompleteSlice(x, requested, process)
    BY <1>5
  <2>2. \/ /\ step' = [step EXCEPT ![StepOf[x]] = "running"]
           /\ \E status \in FinalSliceStatuses : slice' = [slice EXCEPT ![x] = status]
           /\ job' = job
        \/ \E status \in FinalSliceStatuses : EndSlice(x, status)
    BY <2>1 DEF CompleteSlice, FinalSliceStatuses
  <2>3. step[StepOf[x]] = "running"
    BY <2>1 DEF ActiveSlicesOfRunningSteps
  <2>4. CASE \E status \in FinalSliceStatuses : EndSlice(x, status)
    BY <2>4, EndSliceSettles
  <2>5. CASE /\ step' = [step EXCEPT ![StepOf[x]] = "running"]
             /\ \E status \in FinalSliceStatuses : slice' = [slice EXCEPT ![x] = status]
             /\ job' = job
    <3>1. step' = step
      BY <2>3, <2>5 DEF RowsTypeOK
    <3>2. \A y \in Slices : step[StepOf[y]] = "pending" => slice'[y] = slice[y]
      BY <2>3, <2>5 DEF RowsTypeOK
    <3> QED
      BY <1>0, <2>5, <3>1, <3>2, SettledStays
  <2> QED
    BY <2>2, <2>4, <2>5
<1>6. CASE \E x \in Slices : MarkLostSlice(x)
  BY <1>6, EndSliceSettles DEF MarkLostSlice, FinalSliceStatuses
<1>7. CASE \E s \in Steps, plan \in SUBSET Slices : RefreshSucceeds(s, plan)
  <2>1. PICK s \in Steps, plan \in SUBSET Slices : RefreshSucceeds(s, plan)
    BY <1>7
  <2> DEFINE replanned == {x \in Slices : StepOf[x] \in targets[s]}
             ss == [x \in Slices |-> IF x \notin replanned THEN slice[x]
                                     ELSE IF x \in plan THEN "pending" ELSE "absent"]
             st == [step EXCEPT ![s] = "successful"]
  <2>2. Settle(st, ss)
    BY <2>1 DEF RefreshSucceeds, EndRefresh
  <2>3. ss \in [Slices -> SliceStatuses] /\ st \in [Steps -> StepStatuses]
    BY DEF RowsTypeOK, SliceStatuses, LiveSliceStatuses, StepStatuses, TerminalStepStatuses
  <2> HIDE DEF ss, st
  <2> QED
    BY <2>2, <2>3, SettleSettles DEF RowsTypeOK
<1>8. CASE \E s \in Steps : RefreshFails(s)
  <2>1. PICK s \in Steps : RefreshFails(s)
    BY <1>8
  <2> DEFINE st == [step EXCEPT ![s] = "failed"]
  <2>2. Settle(st, slice)
    BY <2>1 DEF RefreshFails, EndRefresh
  <2>3. st \in [Steps -> StepStatuses]
    BY DEF RowsTypeOK, StepStatuses, TerminalStepStatuses
  <2> HIDE DEF st
  <2> QED
    BY <2>2, <2>3, SettleSettles DEF RowsTypeOK
<1>9. CASE \E r \in Runners : UnassignNotStarted(r)
  <2>1. /\ \A x \in Slices : slice'[x] = slice[x] \/ slice[x] = "assigned"
        /\ UNCHANGED <<job, step>>
    BY <1>9 DEF UnassignNotStarted
  <2>2. \A x \in Slices : step[StepOf[x]] = "pending" => slice'[x] = slice[x]
    BY <2>1 DEF ActiveSlicesOfRunningSteps, ActiveSliceStatuses
  <2> QED
    BY <1>0, <2>1, <2>2, SettledStays
<1>10. CASE ApproveOversight
  BY <1>0, <1>10, SettledStays DEF ApproveOversight
<1>11. CASE CancelIdleJob \/ CancelRunningJob \/ FinalizeAbandonedCancellation
  BY <1>11 DEF CancelIdleJob, CancelRunningJob, FinalizeAbandonedCancellation,
               SettledInv, NothingToReconcile, LastStepEndsJob, TerminalJobStatuses
<1> QED
  BY <1>1, <1>2, <1>3, <1>4, <1>5, <1>6, <1>7, <1>8, <1>9, <1>10, <1>11
     DEF Transaction

-----------------------------------------------------------------------------
(* OversightRespected: only a dispatch lets a step run.                    *)

Dispatched(s) ==
    \E x \in Slices, status \in ActiveSliceStatuses, runner \in Runners \cup {Local},
       final \in Reconcilings(step) :
        /\ StepOf[x] = s
        /\ final[s] = "pending" => DependencyState(s, final) = "eligible"
        /\ Dispatch(x, status, runner, final)

LEMMA DispatchRunsOneStep ==
    ASSUME RowsTypeOK, NEW x \in Slices, NEW status \in ActiveSliceStatuses,
           NEW runner \in Runners \cup {Local}, NEW final \in Reconcilings(step),
           final[StepOf[x]] = "pending" => DependencyState(StepOf[x], final) = "eligible",
           Dispatch(x, status, runner, final),
           NEW s \in Steps, step'[s] = "running"
    PROVE  step[s] = "running" \/ Dispatched(s)
<1>1. final \in [Steps -> StepStatuses] /\ (final[s] = "running" => step[s] = "running")
  BY ReconcilingFacts DEF RowsTypeOK
<1>2. step' = [final EXCEPT ![StepOf[x]] = "running"]
  BY DEF Dispatch
<1>3. CASE StepOf[x] = s
  BY <1>3 DEF Dispatched
<1>4. CASE StepOf[x] # s
  BY <1>1, <1>2, <1>4
<1> QED
  BY <1>3, <1>4

LEMMA OnlyDispatchRunsSteps ==
    ASSUME RowsTypeOK, ActiveSlicesOfRunningSteps, Transaction,
           NEW s \in Steps, step'[s] = "running"
    PROVE  step[s] = "running" \/ Dispatched(s)
<1>1. ASSUME NEW st \in [Steps -> StepStatuses], NEW ss \in [Slices -> SliceStatuses],
             Settle(st, ss)
      PROVE  st[s] = "running"
  BY <1>1, SettleFacts DEF RowsTypeOK
<1>2. ASSUME NEW x \in Slices, NEW status \in FinalSliceStatuses, EndSlice(x, status)
      PROVE  step[s] = "running"
  <2> DEFINE ss == [slice EXCEPT ![x] = status]
             st == AggregateStep(StepOf[x], step, ss)
  <2>1. ss \in [Slices -> SliceStatuses] /\ Settle(st, ss)
    BY <1>2 DEF RowsTypeOK, SliceStatuses, EndSlice
  <2> HIDE DEF ss
  <2>2. step \in [Steps -> StepStatuses] /\ StepOf[x] \in Steps
    BY WorkflowAssumption DEF RowsTypeOK
  <2>3. /\ st \in [Steps -> StepStatuses]
        /\ \A t \in Steps \ {StepOf[x]} : st[t] = step[t]
        /\ st[StepOf[x]] = step[StepOf[x]] \/ st[StepOf[x]] \in TerminalStepStatuses
    BY <2>2, AggregateStepFacts
  <2> HIDE DEF st
  <2>4. st[s] = step[s] \/ st[s] \in TerminalStepStatuses
    BY <2>3
  <2> QED
    BY <1>1, <2>1, <2>3, <2>4 DEF TerminalStepStatuses
<1>3. CASE PollJob
  BY <1>3, ReconcilingFacts DEF PollJob, RowsTypeOK
<1>4. CASE \E x \in Slices, t \in Tokens : ClaimRemoteSlice(x, t)
  <2>1. PICK x \in Slices, final \in Reconcilings(step) :
            /\ DependencyState(StepOf[x], final) = "eligible"
            /\ Dispatch(x, "assigned", Target[x], final)
    BY <1>4 DEF ClaimRemoteSlice
  <2>2. Target[x] \in Runners \cup {Local} /\ "assigned" \in ActiveSliceStatuses
    BY RowsAssumption DEF ActiveSliceStatuses
  <2> QED
    BY <2>1, <2>2, DispatchRunsOneStep
<1>5. CASE \E x \in Slices : StartLocalSlice(x)
  <2>1. PICK x \in Slices, final \in Reconcilings(step) :
            /\ final[StepOf[x]] = "pending" => DependencyState(StepOf[x], final) = "eligible"
            /\ Dispatch(x, "running", Local, final)
    BY <1>5 DEF StartLocalSlice
  <2>2. "running" \in ActiveSliceStatuses
    BY DEF ActiveSliceStatuses
  <2> QED
    BY <2>1, <2>2, DispatchRunsOneStep
<1>6. CASE \E x \in Slices : FailPendingSlice(x)
  BY <1>2, <1>6 DEF FailPendingSlice, FinalSliceStatuses
<1>7. CASE \E x \in Slices, requested \in FinalSliceStatuses, process \in {"server", "local"} :
              slice[x] \in ActiveSliceStatuses /\ CompleteSlice(x, requested, process)
  <2>1. PICK x \in Slices, requested \in FinalSliceStatuses, process \in {"server", "local"} :
            slice[x] \in ActiveSliceStatuses /\ CompleteSlice(x, requested, process)
    BY <1>7
  <2>2. \/ step' = [step EXCEPT ![StepOf[x]] = "running"]
        \/ \E status \in FinalSliceStatuses : EndSlice(x, status)
    BY <2>1 DEF CompleteSlice, FinalSliceStatuses
  <2>3. step[StepOf[x]] = "running"
    BY <2>1 DEF ActiveSlicesOfRunningSteps
  <2> QED
    BY <1>2, <2>2, <2>3 DEF RowsTypeOK
<1>8. CASE \E x \in Slices : MarkLostSlice(x)
  BY <1>2, <1>8 DEF MarkLostSlice, FinalSliceStatuses
<1>9. CASE \E r \in Steps : RefreshFails(r)
  <2>1. PICK r \in Steps : RefreshFails(r)
    BY <1>9
  <2> DEFINE st == [step EXCEPT ![r] = "failed"]
  <2>2. Settle(st, slice)
    BY <2>1 DEF RefreshFails, EndRefresh
  <2>3. st \in [Steps -> StepStatuses] /\ (st[s] = "running" => step[s] = "running")
    BY DEF RowsTypeOK, StepStatuses, TerminalStepStatuses
  <2> HIDE DEF st
  <2> QED
    BY <1>1, <2>2, <2>3 DEF RowsTypeOK
<1>10. CASE \E r \in Steps, plan \in SUBSET Slices : RefreshSucceeds(r, plan)
  <2>1. PICK r \in Steps, plan \in SUBSET Slices : RefreshSucceeds(r, plan)
    BY <1>10
  <2> DEFINE replanned == {x \in Slices : StepOf[x] \in targets[r]}
             ss == [x \in Slices |-> IF x \notin replanned THEN slice[x]
                                     ELSE IF x \in plan THEN "pending" ELSE "absent"]
             st == [step EXCEPT ![r] = "successful"]
  <2>2. Settle(st, ss)
    BY <2>1 DEF RefreshSucceeds, EndRefresh
  <2>3. ss \in [Slices -> SliceStatuses]
    BY DEF RowsTypeOK, SliceStatuses, LiveSliceStatuses
  <2>4. st \in [Steps -> StepStatuses] /\ (st[s] = "running" => step[s] = "running")
    BY DEF RowsTypeOK, StepStatuses, TerminalStepStatuses
  <2> HIDE DEF ss, st
  <2> QED
    BY <1>1, <2>2, <2>3, <2>4
<1>11. CASE \/ \E x \in Slices, t \in Tokens : StartRemoteSlice(x, t)
            \/ \E r \in Runners : UnassignNotStarted(r)
            \/ ApproveOversight
  BY <1>11 DEF StartRemoteSlice, UnassignNotStarted, ApproveOversight
<1>12. CASE CancelIdleJob \/ CancelRunningJob \/ FinalizeAbandonedCancellation
  BY <1>12 DEF CancelIdleJob, CancelRunningJob, FinalizeAbandonedCancellation
<1> QED
  BY <1>3, <1>4, <1>5, <1>6, <1>7, <1>8, <1>9, <1>10, <1>11, <1>12 DEF Transaction

LEMMA OnlyApprovalApproves ==
    ASSUME Transaction
    PROVE  approved' = approved \/ ApproveOversight
BY DEF Transaction, PollJob, ClaimRemoteSlice, StartLocalSlice, Dispatch, StartRemoteSlice,
       FailPendingSlice, CompleteSlice, MarkLostSlice, RefreshSucceeds, RefreshFails, EndRefresh,
       UnassignNotStarted, CancelIdleJob, CancelRunningJob, FinalizeAbandonedCancellation

\* A step that starts behind an Oversight boundary has no parallel step that
\* could be running while the boundary is due: it comes before or after every
\* other step, or starts together with it.
BoundariesAreSequential ==
    \A s, t \in Steps : OversightRequiredBefore(s) /\ s # t =>
        \/ t \in Deps[s] \/ s \in Deps[t] \/ Deps[s] = Deps[t]
        \/ /\ FailureOnly = {}
           /\ t \in DependencyAncestors(s) \/ s \in DependencyAncestors(t)

OversightInv ==
    /\ OversightRespected
    /\ ApprovedTogether
    /\ \A s \in Steps : ~OversightRequiredBefore(s) => s \in approved

\* Without failure branches an eligible step has successful ancestors only.
LEMMA AncestorsWereSuccessful ==
    ASSUME FailureOnly = {}, NEW st,
           \A b \in Steps : st[b] = "successful" => DependencyState(b, st) = "eligible",
           NEW s \in Steps, DependencyState(s, st) = "eligible",
           NEW a \in DependencyAncestors(s)
    PROVE  st[a] = "successful"
<1> DEFINE A == {b \in Steps : st[b] = "successful"}
<1>1. ASSUME NEW b \in Steps, DependencyState(b, st) = "eligible"
      PROVE  Deps[b] \cap Steps \subseteq A
  BY <1>1 DEF DependencyState
<1>2. \A b \in A : Deps[b] \cap Steps \subseteq A
  BY <1>1
<1>3. Deps[s] \cap Steps \subseteq A
  BY <1>1
<1>4. a \in A
  BY <1>2, <1>3 DEF DependencyAncestors
<1> QED
  BY <1>4

\* Two steps with the same dependencies are eligible together only if both or
\* neither of them are failure branches.
LEMMA BranchesExclude ==
    ASSUME NEW s \in Steps, NEW t \in Steps, NEW st,
           Deps[s] = Deps[t], Deps[s] # {},
           DependencyState(s, st) = "eligible", DependencyState(t, st) = "eligible"
    PROVE  s \in FailureOnly <=> t \in FailureOnly
BY DEF DependencyState

LEMMA DispatchedIsApproved ==
    ASSUME RowsTypeOK, RowsInv, BegunStepsAreSettled, BoundariesAreSequential, OversightInv,
           NEW s \in Steps, Dispatched(s)
    PROVE  s \in approved
<1>1. PICK x \in Slices, status \in ActiveSliceStatuses, runner \in Runners \cup {Local},
           final \in Reconcilings(step) :
          /\ StepOf[x] = s
          /\ final[s] = "pending" => DependencyState(s, final) = "eligible"
          /\ Dispatch(x, status, runner, final)
  BY DEF Dispatched
<1>2. /\ job \in {"queued", "running"}
      /\ Reconciles(step, slice, final)
      /\ UpdateOversight(job, final, approved) = job
      /\ final[s] \in {"pending", "running"}
  BY <1>1 DEF Dispatch
<1>3. \A t \in Steps :
           \/ final[t] = step[t]
           \/ step[t] = "pending" /\ final[t] \in {"blocked", "skipped", "successful"}
  BY ReconcilingFacts DEF RowsTypeOK
<1>4. \A b \in Steps : final[b] \in {"running", "successful"} =>
          DependencyState(b, final) = "eligible"
  BY <1>2, PollKeepsBegun
<1>5. CASE final[s] = "running"
  BY <1>3, <1>5 DEF OversightInv, OversightRespected
<1>6. CASE final[s] = "pending"
  <2> SUFFICES ASSUME s \notin approved
               PROVE  FALSE
    OBVIOUS
  <2>1. step[s] = "pending" /\ DependencyState(s, final) = "eligible"
    BY <1>1, <1>3, <1>6
  <2>2. OversightRequiredBefore(s)
    BY DEF OversightInv
  <2>3. s \in OversightCandidates(final, approved)
    BY <1>6, <2>1, <2>2 DEF OversightCandidates
  <2>4. PICK t \in Steps : final[t] = "running"
    BY <1>2, <2>3 DEF UpdateOversight, TerminalJobStatuses
  <2>5. t # s /\ step[t] = "running" /\ t \in approved
    BY <1>3, <1>6, <2>4 DEF OversightInv, OversightRespected
  <2>6. DependencyState(t, final) = "eligible"
    BY <1>4, <2>4
  <2>7. t \notin Deps[s]
    BY <2>1, <2>4, EligibleFacts DEF TerminalStepStatuses
  <2>8. s \notin Deps[t]
    BY <1>6, <2>6, EligibleFacts DEF TerminalStepStatuses
  <2>9. Deps[s] # Deps[t]
    <3> SUFFICES ASSUME Deps[s] = Deps[t]
                 PROVE  FALSE
      OBVIOUS
    <3>1. Deps[s] # {}
      BY <2>2 DEF OversightRequiredBefore
    <3>2. s \in FailureOnly <=> t \in FailureOnly
      BY <2>1, <2>6, <3>1, BranchesExclude
    <3> QED
      BY <2>1, <2>5, <3>2 DEF OversightInv, ApprovedTogether
  <2>10. FailureOnly = {} => t \notin DependencyAncestors(s) /\ s \notin DependencyAncestors(t)
    <3>1. FailureOnly = {} /\ t \in DependencyAncestors(s) => final[t] = "successful"
      BY <1>4, <2>1, AncestorsWereSuccessful
    <3>2. FailureOnly = {} /\ s \in DependencyAncestors(t) => final[s] = "successful"
      BY <1>4, <2>6, AncestorsWereSuccessful
    <3> QED
      BY <1>6, <2>4, <3>1, <3>2
  <2> QED
    BY <2>2, <2>5, <2>7, <2>8, <2>9, <2>10 DEF BoundariesAreSequential
<1> QED
  BY <1>2, <1>5, <1>6

\* Every transaction respects the boundaries.
LEMMA TransactionKeepsOversight ==
    ASSUME RowsTypeOK, RowsInv, BegunStepsAreSettled, BoundariesAreSequential, OversightInv,
           Transaction
    PROVE  OversightInv'
<1>1. \/ approved' = approved
      \/ approved' = approved \cup OversightCandidates(step, approved) /\ step' = step
  BY OnlyApprovalApproves DEF ApproveOversight
<1>2. approved \subseteq approved'
  BY <1>1
<1>3. OversightRespected'
  <2> SUFFICES ASSUME NEW s \in Steps, step'[s] = "running"
               PROVE  s \in approved
    BY <1>2 DEF OversightRespected
  <2>1. step[s] = "running" \/ Dispatched(s)
    BY OnlyDispatchRunsSteps DEF RowsInv
  <2> QED
    BY <2>1, DispatchedIsApproved DEF OversightInv, OversightRespected
<1>4. ApprovedTogether'
  <2> SUFFICES ASSUME NEW s \in Steps, NEW t \in Steps,
                      Deps[s] = Deps[t], s \in FailureOnly <=> t \in FailureOnly,
                      t \in approved', step'[s] = "pending"
               PROVE  s \in approved'
    BY DEF ApprovedTogether
  <2>1. step[s] = "pending"
    BY StepsNeverPendAgain
  <2>2. CASE t \in approved
    BY <1>2, <2>1, <2>2 DEF OversightInv, ApprovedTogether
  <2>3. CASE t \notin approved
    <3>1. /\ t \in OversightCandidates(step, approved)
          /\ approved' = approved \cup OversightCandidates(step, approved)
      BY <1>1, <2>3
    <3>2. DependencyState(t, step) = "eligible" /\ OversightRequiredBefore(t)
      BY <3>1 DEF OversightCandidates
    <3>3. DependencyState(s, step) = DependencyState(t, step)
      BY DEF DependencyState
    <3>4. OversightRequiredBefore(s)
      BY <3>2 DEF OversightRequiredBefore
    <3> QED
      BY <2>1, <3>1, <3>2, <3>3, <3>4 DEF OversightCandidates
  <2> QED
    BY <2>2, <2>3
<1> QED
  BY <1>2, <1>3, <1>4 DEF OversightInv

-----------------------------------------------------------------------------
(* The system: who runs the transactions and when.                         *)

\* The part of TypeOK that is not about the rows.
EnvironmentTypeOK ==
    /\ age \in [AllRunners -> Ages]
    /\ draining \in SUBSET Runners
    /\ reported \in [AllRunners -> Nat]
    /\ silent \in SUBSET AllRunners
    /\ justStarted \in SUBSET Slices
    /\ up \in SUBSET Runners
    /\ work \in [Tokens -> WorkPhases]
    /\ workSlice \in [Tokens -> Slices \cup {NoSlice}]
    /\ result \in [Tokens -> FinalSliceStatuses]
    /\ local \in {"down", "recovering", "idle"} \cup Slices
    /\ starts \in [Slices -> Nat]
    /\ disturbances \in Nat

LEMMA TypeParts == TypeOK <=> RowsTypeOK /\ EnvironmentTypeOK
  BY DEF TypeOK, EnvironmentTypeOK

\* What every step has to keep of the rows.  A replan may leave a step without
\* slices only when a refreshed inventory has no host for it.
RowsKept ==
    /\ RowsTypeOK'
    /\ RowsInv'
    /\ "empty_replan" \notin Faults /\ CoverInv => CoverInv'

LEMMA RowsUnchanged ==
    ASSUME RowsTypeOK, RowsInv, UNCHANGED rowVars
    PROVE  RowsKept
  BY DEF RowsKept, rowVars, RowsTypeOK, RowsInv, CoverInv, ActiveSlicesOfRunningSteps,
         IdleJobRunsNothing, EndedJobHasEndedSteps, RefreshFollowsTheSlices,
         AllSlicesFinal, SlicesOf, EveryStepHasSlices, PendingSlicesOfOpenSteps

LEMMA ActiveWorkersFinite ==
    ASSUME NEW r
    PROVE  Cardinality(ActiveWorkers(r)) \in Nat
<1>1. ActiveWorkers(r) \subseteq Tokens
  BY DEF ActiveWorkers, IssuedTo
<1> QED
  BY <1>1, EnvironmentAssumption, FS_Subset, FS_CardinalityType

LEMMA TargetFacts ==
    ASSUME NEW x \in Slices
    PROVE  Target[x] \in AllRunners /\ Local \in AllRunners /\ Runners \subseteq AllRunners
  BY RowsAssumption DEF AllRunners

-----------------------------------------------------------------------------
(* The rows and the types are kept by every step.                          *)

LEMMA RemoteStepKeepsTypes ==
    ASSUME TypeOK, RowsInv, IssuedTokensHaveSlices, RemoteStep
    PROVE  RowsKept /\ EnvironmentTypeOK' /\ IssuedTokensHaveSlices'
<1> USE TypeParts
<1> USE DEF IssuedTokensHaveSlices
<1>1. ASSUME NEW x \in Slices, NEW t \in Tokens, ClaimSlice(x, t)
      PROVE  RowsKept /\ EnvironmentTypeOK' /\ IssuedTokensHaveSlices'
  <2>1. /\ ClaimRemoteSlice(x, t)
        /\ work' = [work EXCEPT ![t] = "preparing"]
        /\ workSlice' = [workSlice EXCEPT ![t] = x]
        /\ UNCHANGED <<runnerVars, up, result, local, starts, disturbances>>
    BY <1>1 DEF ClaimSlice
  <2>2. RowsKept
    BY <2>1, ClaimRemoteSliceKeepsRows DEF RowsKept
  <2> QED
    BY <2>1, <2>2 DEF EnvironmentTypeOK, runnerVars, WorkPhases
<1>2. ASSUME NEW t \in Tokens, ArtifactPreparationFails(t)
      PROVE  RowsKept /\ EnvironmentTypeOK' /\ IssuedTokensHaveSlices'
  <2>1. /\ work[t] = "preparing" /\ workSlice[t] \in Slices
        /\ FailClaimedSlice(workSlice[t])
        /\ work' = [work EXCEPT ![t] = "gone"]
        /\ disturbances' = disturbances + 1
        /\ UNCHANGED <<runnerVars, up, workSlice, result, local, starts>>
    BY <1>2 DEF ArtifactPreparationFails, Disturb
  <2>2. RowsKept
    BY <2>1, FailClaimedSliceKeepsRows DEF RowsKept
  <2> QED
    BY <2>1, <2>2 DEF EnvironmentTypeOK, runnerVars, WorkPhases
<1>3. ASSUME NEW t \in Tokens,
             ReceiveAssignment(t) \/ LoseAssignment(t) \/ AbandonAssignment(t)
               \/ \E status \in FinalSliceStatuses : FinishExecution(t, status)
      PROVE  RowsKept /\ EnvironmentTypeOK' /\ IssuedTokensHaveSlices'
  <2>1. /\ UNCHANGED <<rowVars, runnerVars, up, workSlice, local, starts>>
        /\ work[t] # "free"
        /\ \E phase \in {"held", "gone", "spooled"} : work' = [work EXCEPT ![t] = phase]
        /\ \/ UNCHANGED result
           \/ \E status \in FinalSliceStatuses : result' = [result EXCEPT ![t] = status]
        /\ disturbances' \in {disturbances, disturbances + 1}
    BY <1>3 DEF ReceiveAssignment, LoseAssignment, AbandonAssignment, FinishExecution,
                Disturb, FinalSliceStatuses
  <2>2. RowsKept
    BY <2>1, RowsUnchanged
  <2>3. work' \in [Tokens -> WorkPhases] /\ IssuedTokensHaveSlices'
    BY <2>1 DEF EnvironmentTypeOK, WorkPhases
  <2>4. result' \in [Tokens -> FinalSliceStatuses]
    BY <2>1 DEF EnvironmentTypeOK
  <2> QED
    BY <2>1, <2>2, <2>3, <2>4 DEF EnvironmentTypeOK, runnerVars
<1>4. ASSUME NEW t \in Tokens, StartExecution(t) \/ LoseStartAnswer(t)
      PROVE  RowsKept /\ EnvironmentTypeOK' /\ IssuedTokensHaveSlices'
  <2> DEFINE x == workSlice[t]
  <2>1. /\ work[t] = "held" /\ x \in Slices
        /\ StartRemoteSlice(x, t)
        /\ \E phase \in {"executing", "spooled"} : work' = [work EXCEPT ![t] = phase]
        /\ starts' \in {starts, [starts EXCEPT ![x] = @ + 1]}
        /\ result' \in {result, [result EXCEPT ![t] = "failed"]}
        /\ disturbances' \in {disturbances, disturbances + 1}
        /\ justStarted' = justStarted \cup {x}
        /\ UNCHANGED <<age, draining, reported, silent, up, workSlice, local>>
    BY <1>4 DEF StartExecution, LoseStartAnswer, Disturb
  <2>2. RowsKept
    BY <2>1, StartRemoteSliceKeepsRows DEF RowsKept
  <2>3. work' \in [Tokens -> WorkPhases] /\ IssuedTokensHaveSlices'
    BY <2>1 DEF EnvironmentTypeOK, WorkPhases
  <2>4. starts' \in [Slices -> Nat]
    BY <2>1 DEF EnvironmentTypeOK
  <2>5. result' \in [Tokens -> FinalSliceStatuses]
    BY <2>1 DEF EnvironmentTypeOK, FinalSliceStatuses
  <2> QED
    BY <2>1, <2>2, <2>3, <2>4, <2>5 DEF EnvironmentTypeOK
<1>5. ASSUME NEW t \in Tokens, DeliverCompletion(t)
      PROVE  RowsKept /\ EnvironmentTypeOK' /\ IssuedTokensHaveSlices'
  <2> DEFINE x == workSlice[t]
  <2>1. /\ work[t] = "spooled" /\ x \in Slices
        /\ \/ UNCHANGED rowVars
           \/ CompletionAccepted(x, t) /\ CompleteSlice(x, result[t], "server")
        /\ work' \in {work, [work EXCEPT ![t] = "gone"]}
        /\ disturbances' \in {disturbances, disturbances + 1}
        /\ UNCHANGED <<runnerVars, up, workSlice, result, local, starts>>
    BY <1>5 DEF DeliverCompletion, Disturb
  <2>2. RowsKept
    <3>1. CASE UNCHANGED rowVars
      BY <3>1, RowsUnchanged
    <3>2. CASE CompletionAccepted(x, t) /\ CompleteSlice(x, result[t], "server")
      <4>1. slice[x] \in ActiveSliceStatuses
        BY <3>2 DEF CompletionAccepted, ActiveSliceStatuses
      <4>2. result[t] \in FinalSliceStatuses
        BY DEF EnvironmentTypeOK
      <4> QED
        BY <2>1, <3>2, <4>1, <4>2, CompleteSliceKeepsRows DEF RowsKept
    <3> QED
      BY <2>1, <3>1, <3>2
  <2> QED
    BY <2>1, <2>2 DEF EnvironmentTypeOK, runnerVars, WorkPhases
<1>6. ASSUME NEW r \in Runners, CrashRunner(r)
      PROVE  RowsKept /\ EnvironmentTypeOK' /\ IssuedTokensHaveSlices'
  <2>1. /\ up' = up \ {r}
        /\ work' = [t \in Tokens |->
                      IF t \in IssuedTo(r) /\ work[t] \in {"preparing", "held", "executing"}
                      THEN "gone" ELSE work[t]]
        /\ disturbances' = disturbances + 1
        /\ UNCHANGED <<rowVars, runnerVars, workSlice, result, local, starts>>
    BY <1>6 DEF CrashRunner, Disturb
  <2>2. RowsKept
    BY <2>1, RowsUnchanged
  <2>3. work' \in [Tokens -> WorkPhases] /\ IssuedTokensHaveSlices'
    BY <2>1 DEF EnvironmentTypeOK, WorkPhases, IssuedTo
  <2> QED
    BY <2>1, <2>2, <2>3 DEF EnvironmentTypeOK, runnerVars
<1>7. ASSUME NEW r \in Runners, RestartRunner(r)
      PROVE  RowsKept /\ EnvironmentTypeOK' /\ IssuedTokensHaveSlices'
  <2>1. UNCHANGED rowVars
    BY <1>7 DEF RestartRunner
  <2>2. RowsKept
    BY <2>1, RowsUnchanged
  <2> QED
    BY <1>7, <2>2 DEF RestartRunner, EnvironmentTypeOK, runnerVars
<1>8. ASSUME NEW r \in Runners, RunnerHeartbeat(r)
      PROVE  RowsKept /\ EnvironmentTypeOK' /\ IssuedTokensHaveSlices'
  <2>1. /\ age' = [age EXCEPT ![r] = "healthy"]
        /\ reported' = [reported EXCEPT ![r] = Cardinality(ActiveWorkers(r))]
        /\ silent' \in {silent, silent \ {r}}
        /\ justStarted' = {x \in justStarted : Target[x] # r}
        /\ UNCHANGED <<rowVars, draining, workVars, local, starts, disturbances>>
    BY <1>8 DEF RunnerHeartbeat
  <2>2. RowsKept
    BY <2>1, RowsUnchanged
  <2>3. reported' \in [AllRunners -> Nat]
    BY <2>1, ActiveWorkersFinite DEF EnvironmentTypeOK
  <2>4. age' \in [AllRunners -> Ages]
    BY <2>1 DEF EnvironmentTypeOK, Ages
  <2> QED
    BY <2>1, <2>2, <2>3, <2>4 DEF EnvironmentTypeOK, workVars
<1>9. ASSUME NEW r \in AllRunners, HeartbeatAges(r)
      PROVE  RowsKept /\ EnvironmentTypeOK' /\ IssuedTokensHaveSlices'
  <2>1. /\ \E older \in {"warning", "offline"} : age' = [age EXCEPT ![r] = older]
        /\ disturbances' \in {disturbances, disturbances + 1}
        /\ UNCHANGED <<rowVars, draining, reported, silent, justStarted, workVars, local, starts>>
    BY <1>9 DEF HeartbeatAges, Disturb
  <2>2. RowsKept
    BY <2>1, RowsUnchanged
  <2>3. age' \in [AllRunners -> Ages]
    BY <2>1 DEF EnvironmentTypeOK, Ages
  <2> QED
    BY <2>1, <2>2, <2>3 DEF EnvironmentTypeOK, workVars
<1> QED
  BY <1>1, <1>2, <1>3, <1>4, <1>5, <1>6, <1>7, <1>8, <1>9 DEF RemoteStep

LEMMA ServerStepKeepsTypes ==
    ASSUME TypeOK, RowsInv, IssuedTokensHaveSlices, ServerStep
    PROVE  RowsKept /\ EnvironmentTypeOK' /\ IssuedTokensHaveSlices'
<1> USE TypeParts
<1>1. ASSUME RowsKept,
             UNCHANGED <<age, reported, justStarted, workVars, local, starts>>,
             draining' \in SUBSET Runners, silent' \in SUBSET AllRunners,
             disturbances' \in {disturbances, disturbances + 1}
      PROVE  RowsKept /\ EnvironmentTypeOK' /\ IssuedTokensHaveSlices'
  BY <1>1 DEF EnvironmentTypeOK, workVars, IssuedTokensHaveSlices
<1>2. ASSUME PollWithoutClaim
      PROVE  RowsKept /\ EnvironmentTypeOK' /\ IssuedTokensHaveSlices'
  <2>1. RowsKept
    BY <1>2, PollJobKeepsRows DEF PollWithoutClaim, RowsKept
  <2> QED
    BY <1>1, <1>2, <2>1 DEF PollWithoutClaim, runnerVars, EnvironmentTypeOK
<1>3. ASSUME NEW x \in Slices, EnvironmentOutOfDate(x)
      PROVE  RowsKept /\ EnvironmentTypeOK' /\ IssuedTokensHaveSlices'
  <2>1. RowsKept
    BY <1>3, FailPendingSliceKeepsRows DEF EnvironmentOutOfDate, RowsKept
  <2> QED
    BY <1>1, <1>3, <2>1 DEF EnvironmentOutOfDate, Disturb, runnerVars, EnvironmentTypeOK
<1>4. ASSUME NEW x \in Slices, RecoverLostSlice(x) \/ RecoverStaleSlice(x)
      PROVE  RowsKept /\ EnvironmentTypeOK' /\ IssuedTokensHaveSlices'
  <2>1. RowsKept
    BY <1>4, MarkLostSliceKeepsRows DEF RecoverLostSlice, RecoverStaleSlice, RowsKept
  <2> QED
    BY <1>1, <1>4, <2>1 DEF RecoverLostSlice, RecoverStaleSlice, runnerVars, EnvironmentTypeOK
<1>5. ASSUME RecoverStaleCancelling
      PROVE  RowsKept /\ EnvironmentTypeOK' /\ IssuedTokensHaveSlices'
  <2>1. RowsKept
    BY <1>5, FinalizeAbandonedCancellationKeepsRows DEF RecoverStaleCancelling, RowsKept
  <2> QED
    BY <1>1, <1>5, <2>1 DEF RecoverStaleCancelling, runnerVars, EnvironmentTypeOK
<1>6. ASSUME CancelJob
      PROVE  RowsKept /\ EnvironmentTypeOK' /\ IssuedTokensHaveSlices'
  <2>1. RowsKept
    BY <1>6, CancelIdleJobKeepsRows, CancelRunningJobKeepsRows DEF CancelJob, RowsKept
  <2>2. silent' \in SUBSET AllRunners
    BY <1>6 DEF CancelJob, EnvironmentTypeOK
  <2> QED
    BY <1>1, <1>6, <2>1, <2>2 DEF CancelJob, EnvironmentTypeOK
<1>7. ASSUME ContinueJob
      PROVE  RowsKept /\ EnvironmentTypeOK' /\ IssuedTokensHaveSlices'
  <2>1. RowsKept
    BY <1>7, ApproveOversightKeepsRows DEF ContinueJob, RowsKept
  <2> QED
    BY <1>1, <1>7, <2>1 DEF ContinueJob, runnerVars, EnvironmentTypeOK
<1>8. ASSUME NEW r \in Runners, DrainRunner(r)
      PROVE  RowsKept /\ EnvironmentTypeOK' /\ IssuedTokensHaveSlices'
  <2>1. RowsKept
    BY <1>8, UnassignNotStartedKeepsRows DEF DrainRunner, RowsKept
  <2> QED
    BY <1>1, <1>8, <2>1 DEF DrainRunner, Disturb, EnvironmentTypeOK
<1>9. ASSUME NEW r \in Runners, ReleaseDrain(r)
      PROVE  RowsKept /\ EnvironmentTypeOK' /\ IssuedTokensHaveSlices'
  <2>1. RowsKept
    BY <1>9, RowsUnchanged DEF ReleaseDrain
  <2> QED
    BY <1>1, <1>9, <2>1 DEF ReleaseDrain, EnvironmentTypeOK
<1>10. ASSUME NEW s \in Steps, RefreshInventories(s)
       PROVE  RowsKept /\ EnvironmentTypeOK' /\ IssuedTokensHaveSlices'
  <2>1. RowsKept
    <3>1. CASE RefreshFails(s)
      BY <3>1, RefreshFailsKeepsRows DEF RowsKept
    <3>2. CASE \E plan \in Plans(s) : RefreshSucceeds(s, plan)
      <4>1. PICK plan \in Plans(s) : RefreshSucceeds(s, plan)
        BY <3>2
      <4>2. plan \in SUBSET Slices
        BY <4>1 DEF Plans
      <4>3. "empty_replan" \notin Faults => \A t \in targets[s] : \E x \in plan : StepOf[x] = t
        BY <4>1 DEF Plans
      <4> QED
        BY <4>1, <4>2, <4>3, RefreshSucceedsKeepsRows DEF RowsKept
    <3> QED
      BY <1>10, <3>1, <3>2 DEF RefreshInventories
  <2> QED
    BY <1>1, <1>10, <2>1 DEF RefreshInventories, runnerVars, EnvironmentTypeOK
<1>11. ASSUME NEW s \in Steps, RefreshCrashes(s)
       PROVE  RowsKept /\ EnvironmentTypeOK' /\ IssuedTokensHaveSlices'
  <2>1. RowsKept
    BY <1>11, RefreshAbandonedKeepsRows DEF RefreshCrashes, RowsKept
  <2> QED
    BY <1>1, <1>11, <2>1 DEF RefreshCrashes, Disturb, runnerVars, EnvironmentTypeOK
<1> QED
  BY <1>2, <1>3, <1>4, <1>5, <1>6, <1>7, <1>8, <1>9, <1>10, <1>11 DEF ServerStep

LEMMA LocalStepKeepsTypes ==
    ASSUME TypeOK, RowsInv, IssuedTokensHaveSlices, LocalStep
    PROVE  RowsKept /\ EnvironmentTypeOK' /\ IssuedTokensHaveSlices'
<1> USE TypeParts
<1>1. ASSUME RowsKept,
             UNCHANGED <<draining, justStarted, workVars>>,
             age' \in [AllRunners -> Ages], reported' \in [AllRunners -> Nat],
             silent' \in SUBSET AllRunners,
             local' \in {"down", "recovering", "idle"} \cup Slices,
             starts' \in [Slices -> Nat],
             disturbances' \in {disturbances, disturbances + 1}
      PROVE  RowsKept /\ EnvironmentTypeOK' /\ IssuedTokensHaveSlices'
  BY <1>1 DEF EnvironmentTypeOK, workVars, IssuedTokensHaveSlices
<1>2. ASSUME NEW x \in Slices, ClaimLocalSlice(x)
      PROVE  RowsKept /\ EnvironmentTypeOK' /\ IssuedTokensHaveSlices'
  <2>1. RowsKept
    BY <1>2, StartLocalSliceKeepsRows DEF ClaimLocalSlice, RowsKept
  <2>2. starts' \in [Slices -> Nat]
    BY <1>2 DEF ClaimLocalSlice, EnvironmentTypeOK
  <2> QED
    BY <1>1, <1>2, <2>1, <2>2 DEF ClaimLocalSlice, runnerVars, EnvironmentTypeOK
<1>3. ASSUME NEW x \in Slices, RecoverLocalSlice(x)
      PROVE  RowsKept /\ EnvironmentTypeOK' /\ IssuedTokensHaveSlices'
  <2>1. slice[x] \in ActiveSliceStatuses
    BY <1>3 DEF RecoverLocalSlice, OrphanedLocalSlices, ActiveSliceStatuses
  <2>2. RowsKept
    BY <1>3, <2>1, CompleteSliceKeepsRows DEF RecoverLocalSlice, RowsKept, FinalSliceStatuses
  <2> QED
    BY <1>1, <1>3, <2>2 DEF RecoverLocalSlice, runnerVars, EnvironmentTypeOK
<1>4. ASSUME NEW status \in FinalSliceStatuses, FinishLocalSlice(status)
      PROVE  RowsKept /\ EnvironmentTypeOK' /\ IssuedTokensHaveSlices'
  <2>1. RowsKept
    <3>1. CASE slice[local] = "running"
      <4>1. local \in Slices /\ CompleteSlice(local, status, "local")
        BY <1>4, <3>1 DEF FinishLocalSlice
      <4> QED
        BY <3>1, <4>1, CompleteSliceKeepsRows DEF RowsKept, ActiveSliceStatuses
    <3>2. CASE slice[local] # "running"
      BY <1>4, <3>2, RowsUnchanged DEF FinishLocalSlice
    <3> QED
      BY <3>1, <3>2
  <2> QED
    BY <1>1, <1>4, <2>1 DEF FinishLocalSlice, runnerVars, EnvironmentTypeOK
<1>5. ASSUME LocalHeartbeat
      PROVE  RowsKept /\ EnvironmentTypeOK' /\ IssuedTokensHaveSlices'
  <2>1. RowsKept
    BY <1>5, RowsUnchanged DEF LocalHeartbeat
  <2>2. age' \in [AllRunners -> Ages] /\ reported' \in [AllRunners -> Nat]
    BY <1>5 DEF LocalHeartbeat, EnvironmentTypeOK, Ages
  <2> QED
    BY <1>1, <1>5, <2>1, <2>2 DEF LocalHeartbeat, EnvironmentTypeOK
<1>6. ASSUME CrashLocalRunner
      PROVE  RowsKept /\ EnvironmentTypeOK' /\ IssuedTokensHaveSlices'
  <2>1. RowsKept
    BY <1>6, RefreshAbandonedKeepsRows DEF CrashLocalRunner, RowsKept
  <2> QED
    BY <1>1, <1>6, <2>1 DEF CrashLocalRunner, Disturb, runnerVars, EnvironmentTypeOK
<1>7. ASSUME RestartLocalRunner
      PROVE  RowsKept /\ EnvironmentTypeOK' /\ IssuedTokensHaveSlices'
  <2>1. RowsKept
    BY <1>7, RowsUnchanged DEF RestartLocalRunner
  <2>2. age' \in [AllRunners -> Ages] /\ reported' \in [AllRunners -> Nat]
    BY <1>7 DEF RestartLocalRunner, EnvironmentTypeOK, Ages
  <2> QED
    BY <1>1, <1>7, <2>1, <2>2 DEF RestartLocalRunner, EnvironmentTypeOK
<1>8. ASSUME EndLocalRecovery
      PROVE  RowsKept /\ EnvironmentTypeOK' /\ IssuedTokensHaveSlices'
  <2>1. RowsKept
    BY <1>8, RowsUnchanged DEF EndLocalRecovery
  <2> QED
    BY <1>1, <1>8, <2>1 DEF EndLocalRecovery, runnerVars, EnvironmentTypeOK
<1> QED
  BY <1>2, <1>3, <1>4, <1>5, <1>6, <1>7, <1>8 DEF LocalStep

-----------------------------------------------------------------------------
(* Type correctness and the end of a Job.                                  *)

TypeInv == TypeOK /\ RowsInv /\ IssuedTokensHaveSlices

LEMMA InitTypes ==
    ASSUME Init
    PROVE  TypeInv
<1>1. RowsTypeOK /\ RowsInv
  BY RowsInitCorrect DEF Init
<1>2. EnvironmentTypeOK
  BY DEF Init, EnvironmentTypeOK, Ages, WorkPhases, FinalSliceStatuses
<1>3. IssuedTokensHaveSlices
  BY DEF Init, IssuedTokensHaveSlices
<1> QED
  BY <1>1, <1>2, <1>3, TypeParts DEF TypeInv

LEMMA StepKeepsTypes ==
    ASSUME TypeInv, [Next]_vars
    PROVE  TypeInv' /\ RowsKept
<1>1. CASE Next
  <2>1. RowsKept /\ EnvironmentTypeOK' /\ IssuedTokensHaveSlices'
    BY <1>1, RemoteStepKeepsTypes, ServerStepKeepsTypes, LocalStepKeepsTypes
       DEF Next, TypeInv
  <2> QED
    BY <2>1 DEF TypeInv, RowsKept, TypeOK, EnvironmentTypeOK
<1>2. CASE UNCHANGED vars
  <2>1. UNCHANGED rowVars
    BY <1>2 DEF vars
  <2>2. RowsKept
    BY <2>1, RowsUnchanged, TypeParts DEF TypeInv
  <2>3. EnvironmentTypeOK' /\ IssuedTokensHaveSlices'
    BY <1>2, TypeParts
       DEF TypeInv, vars, runnerVars, workVars, EnvironmentTypeOK, IssuedTokensHaveSlices
  <2> QED
    BY <2>2, <2>3 DEF TypeInv, RowsKept, TypeOK, EnvironmentTypeOK
<1> QED
  BY <1>1, <1>2

LEMMA TypeInvAlways == Spec => []TypeInv
<1>1. TypeInv /\ [Next]_vars => TypeInv'
  BY StepKeepsTypes
<1> QED
  BY <1>1, InitTypes, PTL DEF Spec

\* Every variable keeps its type, whatever the workflow and the disturbances:
\* statuses stay within the columns' values, runners and slices within those
\* of the Job.
THEOREM TypeCorrect == Spec => []TypeOK
<1>1. TypeInv => TypeOK
  BY DEF TypeInv
<1> QED
  BY <1>1, TypeInvAlways, PTL

\* The initial plan gives every step a slice and no replan takes all slices
\* from one.
PlansCoverSteps ==
    /\ "empty_replan" \notin Faults
    /\ \A s \in Steps : \E x \in InitialPlan : StepOf[x] = s

LEMMA SettledWhenEnded == TypeInv /\ CoverInv => EndedJobIsSettled
<1> SUFFICES ASSUME TypeInv, CoverInv, job \in TerminalJobStatuses
             PROVE  /\ \A s \in Steps : step[s] \in TerminalStepStatuses
                    /\ \A x \in Slices : slice[x] \notin LiveSliceStatuses
  BY DEF EndedJobIsSettled
<1>1. \A s \in Steps : step[s] \in TerminalStepStatuses
  BY DEF TypeInv, RowsInv, EndedJobHasEndedSteps
<1>2. ASSUME NEW x \in Slices PROVE slice[x] \notin LiveSliceStatuses
  <2>1. step[StepOf[x]] \in TerminalStepStatuses
    BY <1>1, WorkflowAssumption
  <2>2. slice[x] \notin ActiveSliceStatuses
    BY <2>1 DEF TypeInv, RowsInv, ActiveSlicesOfRunningSteps, TerminalStepStatuses
  <2>3. slice[x] # "pending"
    BY <2>1 DEF CoverInv, PendingSlicesOfOpenSteps, TerminalStepStatuses
  <2> QED
    BY <2>2, <2>3 DEF LiveSliceStatuses, ActiveSliceStatuses
<1> QED
  BY <1>1, <1>2

\* When a Job of which every step has slices ends (by _finalize_job_if_complete,
\* by cancel_job or by the recovery of a stale cancellation), every step has
\* ended and nothing is left to claim, start or complete.
THEOREM EndedJobIsSettledAlways ==
    ASSUME PlansCoverSteps
    PROVE  Spec => []EndedJobIsSettled
<1>1. Init => TypeInv /\ CoverInv
  BY InitTypes, RowsInitCorrect DEF Init, PlansCoverSteps
<1>2. TypeInv /\ CoverInv /\ [Next]_vars => TypeInv' /\ CoverInv'
  BY StepKeepsTypes DEF RowsKept, PlansCoverSteps
<1>3. TypeInv /\ CoverInv => EndedJobIsSettled
  BY SettledWhenEnded
<1> QED
  BY <1>1, <1>2, <1>3, PTL DEF Spec

-----------------------------------------------------------------------------
(* Tokens and playbook starts.                                             *)

Startable == {"pending", "assigned", "absent"}

\* A step that hands out no token and starts no playbook: tokens only vanish,
\* and exactly those of slices that are no longer active; no slice becomes
\* startable that was not; workers only move on.
LEMMA QuietStepKeepsStarts ==
    ASSUME TypeInv, StartInv,
           \A x \in Slices : token'[x] \in {token[x], NoToken},
           \A x \in Slices :
              token'[x] # NoToken <=> Target[x] # Local /\ slice'[x] \in {"assigned", "running"},
           \A x \in Slices : slice'[x] \in Startable => slice[x] \in Startable,
           \A x \in Slices : \/ token'[x] = NoToken
                             \/ slice'[x] = slice[x],
           \A t \in Tokens : \/ work'[t] = work[t]
                             \/ /\ work[t] # "free"
                                /\ work'[t] # "free"
                                /\ work'[t] \in {"preparing", "held"}
                                     => work[t] \in {"preparing", "held"},
           UNCHANGED <<workSlice, starts>>
    PROVE  StartInv'
<1>1. \A x \in Slices : token[x] \in Tokens \cup {NoToken}
  BY DEF TypeInv, TypeOK, RowsTypeOK
<1>2. IssuedTokensHaveSlices'
  BY DEF StartInv, IssuedTokensHaveSlices
<1>3. TokenNamesItsSlice'
  BY <1>1 DEF StartInv, TokenNamesItsSlice
<1>4. UnstartedIsAssigned'
  BY <1>1 DEF StartInv, UnstartedIsAssigned
<1>5. FreshWhileStartable'
  BY DEF StartInv, FreshWhileStartable, Startable
<1>6. TokenMeansAssigned'
  BY DEF StartInv, TokenMeansAssigned
<1>7. StartedAtMostOnce'
  BY DEF StartInv, StartedAtMostOnce
<1> QED
  BY <1>2, <1>3, <1>4, <1>5, <1>6, <1>7 DEF StartInv

\* One slice ends, and with it others may be blocked or skipped.
LEMMA EndedSliceKeepsStarts ==
    ASSUME TypeInv, StartInv,
           NEW x \in Slices, slice'[x] \in FinalSliceStatuses,
           \A y \in Slices \ {x} :
              \/ slice'[y] = slice[y]
              \/ slice[y] = "pending" /\ slice'[y] \in {"blocked", "skipped"},
           token' = [token EXCEPT ![x] = NoToken],
           \A t \in Tokens : \/ work'[t] = work[t]
                             \/ work[t] # "free" /\ work'[t] = "gone",
           UNCHANGED <<workSlice, starts>>
    PROVE  StartInv'
<1>1. token \in [Slices -> Tokens \cup {NoToken}]
  BY DEF TypeInv, TypeOK, RowsTypeOK
<1>2. /\ token'[x] = NoToken
      /\ \A y \in Slices \ {x} : token'[y] = token[y]
  BY <1>1
<1>3. \A y \in Slices :
         token[y] # NoToken <=> Target[y] # Local /\ slice[y] \in {"assigned", "running"}
  BY DEF StartInv, TokenMeansAssigned
<1>4. \A y \in Slices :
         token'[y] # NoToken <=> Target[y] # Local /\ slice'[y] \in {"assigned", "running"}
  BY <1>2, <1>3 DEF FinalSliceStatuses
<1>5. \A y \in Slices : slice'[y] \in Startable => slice[y] \in Startable
  BY DEF Startable, FinalSliceStatuses
<1>6. \A y \in Slices : token'[y] = NoToken \/ slice'[y] = slice[y]
  BY <1>2, <1>3
<1> QED
  BY <1>2, <1>4, <1>5, <1>6, QuietStepKeepsStarts

\* Nothing but pending slices changes, and no token.
LEMMA PendingChangeKeepsStarts ==
    ASSUME TypeInv, StartInv,
           \A x \in Slices :
              \/ slice'[x] = slice[x]
              \/ /\ slice[x] \in {"pending", "absent"}
                 /\ slice'[x] \in {"pending", "absent", "blocked", "skipped", "cancelled"},
           UNCHANGED token,
           \A t \in Tokens : \/ work'[t] = work[t]
                             \/ /\ work[t] # "free"
                                /\ work'[t] # "free"
                                /\ work'[t] \in {"preparing", "held"}
                                     => work[t] \in {"preparing", "held"},
           UNCHANGED <<workSlice, starts>>
    PROVE  StartInv'
<1>1. \A x \in Slices :
         token[x] # NoToken <=> Target[x] # Local /\ slice[x] \in {"assigned", "running"}
  BY DEF StartInv, TokenMeansAssigned
<1>2. \A x \in Slices :
         token'[x] # NoToken <=> Target[x] # Local /\ slice'[x] \in {"assigned", "running"}
  BY <1>1
<1>3. \A x \in Slices : slice'[x] \in Startable => slice[x] \in Startable
  BY DEF Startable
<1>4. \A x \in Slices : token'[x] = NoToken \/ slice'[x] = slice[x]
  BY <1>1
<1> QED
  BY <1>2, <1>3, <1>4, QuietStepKeepsStarts

\* A set of slices is stopped or returned to the queue and loses its tokens.
LEMMA RevokedSlicesKeepStarts ==
    ASSUME TypeInv, StartInv,
           NEW R \in SUBSET Slices, NEW status \in {"pending", "cancelled"},
           status = "pending" => \A x \in R : slice[x] = "assigned",
           slice' = [x \in Slices |-> IF x \in R THEN status ELSE slice[x]],
           token' = [x \in Slices |-> IF x \in R THEN NoToken ELSE token[x]],
           UNCHANGED <<work, workSlice, starts>>
    PROVE  StartInv'
<1>1. \A x \in Slices :
         token[x] # NoToken <=> Target[x] # Local /\ slice[x] \in {"assigned", "running"}
  BY DEF StartInv, TokenMeansAssigned
<1>2. \A x \in Slices :
         token'[x] # NoToken <=> Target[x] # Local /\ slice'[x] \in {"assigned", "running"}
  BY <1>1
<1>3. \A x \in Slices : slice'[x] \in Startable => slice[x] \in Startable
  BY DEF Startable
<1> QED
  BY <1>2, <1>3, QuietStepKeepsStarts

\* A claim hands out a token that was never issued for a slice that was never
\* started.
LEMMA ClaimKeepsStarts ==
    ASSUME TypeInv, StartInv, NEW x \in Slices, NEW t \in Tokens, ClaimSlice(x, t)
    PROVE  StartInv'
<1>1. /\ Target[x] \in up /\ work[t] = "free" /\ ClaimRemoteSlice(x, t)
      /\ work' = [work EXCEPT ![t] = "preparing"]
      /\ workSlice' = [workSlice EXCEPT ![t] = x]
      /\ starts' = starts
  BY DEF ClaimSlice
<1>2. /\ token \in [Slices -> Tokens \cup {NoToken}]
      /\ work \in [Tokens -> WorkPhases]
      /\ workSlice \in [Tokens -> Slices \cup {NoSlice}]
      /\ up \subseteq Runners
  BY DEF TypeInv, TypeOK, RowsTypeOK
<1>3. /\ slice[x] = "pending" /\ slice'[x] = "assigned"
      /\ \A y \in Slices \ {x} :
           \/ slice'[y] = slice[y]
           \/ slice[y] = "pending" /\ slice'[y] \in {"blocked", "skipped"}
  BY <1>1, ClaimRemoteSliceKeepsRows, TypeParts DEF TypeInv
<1>4. token' = [token EXCEPT ![x] = t] /\ Target[x] # Local
  BY <1>1 DEF ClaimRemoteSlice
<1>5. /\ token'[x] = t /\ t # NoToken
      /\ \A y \in Slices \ {x} : token'[y] = token[y]
      /\ work'[t] = "preparing" /\ workSlice'[t] = x
      /\ \A u \in Tokens \ {t} : work'[u] = work[u] /\ workSlice'[u] = workSlice[u]
  BY <1>1, <1>2, <1>4, RowsAssumption
<1>6. \A y \in Slices : token[y] # t
  BY <1>1, <1>5 DEF StartInv, TokenNamesItsSlice
<1>7. \A y \in Slices :
         token[y] # NoToken <=> Target[y] # Local /\ slice[y] \in {"assigned", "running"}
  BY DEF StartInv, TokenMeansAssigned
<1>8. IssuedTokensHaveSlices'
  BY <1>5 DEF StartInv, IssuedTokensHaveSlices
<1>9. TokenNamesItsSlice'
  BY <1>2, <1>5, <1>6 DEF StartInv, TokenNamesItsSlice
<1>10. UnstartedIsAssigned'
  BY <1>2, <1>3, <1>5, <1>6 DEF StartInv, UnstartedIsAssigned
<1>11. FreshWhileStartable'
  BY <1>1, <1>3 DEF StartInv, FreshWhileStartable
<1>12. TokenMeansAssigned'
  <2>1. \A y \in Slices :
          token'[y] # NoToken <=> Target[y] # Local /\ slice'[y] \in {"assigned", "running"}
    BY <1>3, <1>4, <1>5, <1>7
  <2>2. \A y, z \in Slices : token'[y] = token'[z] /\ token'[y] # NoToken => y = z
    BY <1>5, <1>6 DEF StartInv, TokenMeansAssigned
  <2> QED
    BY <2>1, <2>2 DEF TokenMeansAssigned
<1>13. StartedAtMostOnce'
  BY <1>1 DEF StartInv, StartedAtMostOnce
<1> QED
  BY <1>8, <1>9, <1>10, <1>11, <1>12, <1>13 DEF StartInv

\* A worker starts its playbook, or loses the answer that allows it to: the
\* slice was assigned to it and was never started.
LEMMA StartKeepsStarts ==
    ASSUME TypeInv, StartInv, NEW t \in Tokens, StartExecution(t) \/ LoseStartAnswer(t)
    PROVE  StartInv'
<1> DEFINE x == workSlice[t]
<1>1. /\ work[t] = "held" /\ x \in Slices
      /\ token[x] = t /\ slice' = [slice EXCEPT ![x] = "running"]
      /\ token' = token
      /\ \E phase \in {"executing", "spooled"} : work' = [work EXCEPT ![t] = phase]
      /\ starts' = starts \/ starts' = [starts EXCEPT ![x] = @ + 1]
      /\ workSlice' = workSlice
  BY DEF StartExecution, LoseStartAnswer, StartRemoteSlice, StartAccepted, AssignmentMatches,
         TypeInv, IssuedTokensHaveSlices
<1> HIDE DEF x
<1>2. /\ token \in [Slices -> Tokens \cup {NoToken}]
      /\ work \in [Tokens -> WorkPhases]
      /\ slice \in [Slices -> SliceStatuses]
      /\ starts \in [Slices -> Nat]
      /\ t # NoToken
  BY RowsAssumption DEF TypeInv, TypeOK, RowsTypeOK
<1>3. slice[x] = "assigned"
  BY <1>1, <1>2 DEF StartInv, UnstartedIsAssigned
<1>4. starts[x] = 0
  BY <1>1, <1>3 DEF StartInv, FreshWhileStartable
<1>5. \A y \in Slices \ {x} : token[y] # t
  BY <1>1, <1>2 DEF StartInv, TokenMeansAssigned
<1>6. /\ slice'[x] = "running"
      /\ \A y \in Slices \ {x} : slice'[y] = slice[y] /\ starts'[y] = starts[y]
      /\ starts'[x] <= 1
      /\ work'[t] \in {"executing", "spooled"}
      /\ \A u \in Tokens \ {t} : work'[u] = work[u]
  BY <1>1, <1>2, <1>4
<1>7. IssuedTokensHaveSlices'
  BY <1>1, <1>6 DEF StartInv, IssuedTokensHaveSlices
<1>8. TokenNamesItsSlice'
  BY <1>1, <1>2, <1>6 DEF StartInv, TokenNamesItsSlice
<1>9. UnstartedIsAssigned'
  BY <1>1, <1>2, <1>5, <1>6 DEF StartInv, UnstartedIsAssigned
<1>10. FreshWhileStartable'
  BY <1>6 DEF StartInv, FreshWhileStartable
<1>11. TokenMeansAssigned'
  BY <1>1, <1>3, <1>6 DEF StartInv, TokenMeansAssigned
<1>12. StartedAtMostOnce'
  BY <1>6 DEF StartInv, StartedAtMostOnce
<1> QED
  BY <1>7, <1>8, <1>9, <1>10, <1>11, <1>12 DEF StartInv

\* The local runner starts a pending slice at once, without a token.
LEMMA LocalClaimKeepsStarts ==
    ASSUME TypeInv, StartInv, NEW x \in Slices, ClaimLocalSlice(x)
    PROVE  StartInv'
<1>1. /\ StartLocalSlice(x) /\ Target[x] = Local
      /\ starts' = [starts EXCEPT ![x] = @ + 1]
      /\ token' = token /\ work' = work /\ workSlice' = workSlice
  BY DEF ClaimLocalSlice, StartLocalSlice, workVars
<1>2. /\ slice[x] = "pending" /\ slice'[x] = "running"
      /\ \A y \in Slices \ {x} :
           \/ slice'[y] = slice[y]
           \/ slice[y] = "pending" /\ slice'[y] \in {"blocked", "skipped"}
  BY <1>1, StartLocalSliceKeepsRows, TypeParts DEF TypeInv
<1>3. /\ starts[x] = 0 /\ starts \in [Slices -> Nat]
  BY <1>2 DEF StartInv, FreshWhileStartable, TypeInv, TypeOK
<1>4. starts'[x] = 1 /\ \A y \in Slices \ {x} : starts'[y] = starts[y]
  BY <1>1, <1>3
<1>5. \A y \in Slices :
         token[y] # NoToken <=> Target[y] # Local /\ slice[y] \in {"assigned", "running"}
  BY DEF StartInv, TokenMeansAssigned
<1>6. \A y \in Slices : token[y] # NoToken => slice'[y] = slice[y]
  BY <1>1, <1>2, <1>5
<1>7. IssuedTokensHaveSlices' /\ TokenNamesItsSlice'
  BY <1>1 DEF StartInv, IssuedTokensHaveSlices, TokenNamesItsSlice
<1>8. UnstartedIsAssigned'
  BY <1>1, <1>6 DEF StartInv, UnstartedIsAssigned
<1>9. FreshWhileStartable'
  BY <1>2, <1>4 DEF StartInv, FreshWhileStartable
<1>10. TokenMeansAssigned'
  <2>1. \A y \in Slices :
          token[y] # NoToken <=> Target[y] # Local /\ slice'[y] \in {"assigned", "running"}
    BY <1>1, <1>2, <1>5
  <2> QED
    BY <1>1, <2>1 DEF StartInv, TokenMeansAssigned
<1>11. StartedAtMostOnce'
  BY <1>4 DEF StartInv, StartedAtMostOnce
<1> QED
  BY <1>7, <1>8, <1>9, <1>10, <1>11 DEF StartInv

LEMMA RemoteStepKeepsStarts ==
    ASSUME TypeInv, StartInv, RemoteStep
    PROVE  StartInv'
<1> USE TypeParts DEF TypeInv
<1>1. /\ token \in [Slices -> Tokens \cup {NoToken}]
      /\ slice \in [Slices -> SliceStatuses]
      /\ work \in [Tokens -> WorkPhases]
      /\ result \in [Tokens -> FinalSliceStatuses]
      /\ \A t \in Tokens : work[t] # "free" => workSlice[t] \in Slices
  BY DEF RowsTypeOK, EnvironmentTypeOK, IssuedTokensHaveSlices
<1>2. ASSUME NEW t \in Tokens, ArtifactPreparationFails(t)
      PROVE  StartInv'
  <2> DEFINE x == workSlice[t]
  <2>1. /\ work[t] = "preparing" /\ x \in Slices
        /\ slice' = [slice EXCEPT ![x] = "failed"]
        /\ token' = [token EXCEPT ![x] = NoToken]
        /\ work' = [work EXCEPT ![t] = "gone"]
        /\ UNCHANGED <<workSlice, starts>>
    BY <1>1, <1>2 DEF ArtifactPreparationFails, FailClaimedSlice
  <2> HIDE DEF x
  <2>2. /\ slice'[x] \in FinalSliceStatuses
        /\ \A y \in Slices \ {x} : slice'[y] = slice[y]
        /\ \A u \in Tokens : work'[u] = work[u] \/ (work[u] # "free" /\ work'[u] = "gone")
    BY <1>1, <2>1 DEF FinalSliceStatuses
  <2> QED
    BY <2>1, <2>2, EndedSliceKeepsStarts
<1>3. ASSUME NEW t \in Tokens,
             ReceiveAssignment(t) \/ LoseAssignment(t) \/ AbandonAssignment(t)
               \/ \E status \in FinalSliceStatuses : FinishExecution(t, status)
      PROVE  StartInv'
  <2>1. /\ UNCHANGED <<slice, token, workSlice, starts>>
        /\ work[t] # "free"
        /\ \/ work[t] = "preparing" /\ work' = [work EXCEPT ![t] = "held"]
           \/ work' = [work EXCEPT ![t] = "gone"]
           \/ work' = [work EXCEPT ![t] = "spooled"]
    BY <1>3 DEF ReceiveAssignment, LoseAssignment, AbandonAssignment, FinishExecution, rowVars
  <2>2. \A u \in Tokens : \/ work'[u] = work[u]
                          \/ /\ work[u] # "free"
                             /\ work'[u] # "free"
                             /\ work'[u] \in {"preparing", "held"}
                                  => work[u] \in {"preparing", "held"}
    BY <1>1, <2>1
  <2> QED
    BY <2>1, <2>2, PendingChangeKeepsStarts
<1>4. ASSUME NEW t \in Tokens, DeliverCompletion(t)
      PROVE  StartInv'
  <2> DEFINE x == workSlice[t]
  <2>1. /\ work[t] = "spooled" /\ x \in Slices
        /\ \/ UNCHANGED rowVars
           \/ CompletionAccepted(x, t) /\ CompleteSlice(x, result[t], "server")
        /\ work' \in {work, [work EXCEPT ![t] = "gone"]}
        /\ UNCHANGED <<workSlice, starts>>
    BY <1>1, <1>4 DEF DeliverCompletion
  <2> HIDE DEF x
  <2>2. \A u \in Tokens : work'[u] = work[u] \/ (work[u] # "free" /\ work'[u] = "gone")
    BY <1>1, <2>1
  <2>3. CASE UNCHANGED rowVars
    BY <2>1, <2>2, <2>3, PendingChangeKeepsStarts DEF rowVars
  <2>4. CASE CompletionAccepted(x, t) /\ CompleteSlice(x, result[t], "server")
    <3>1. slice[x] \in ActiveSliceStatuses
      BY <2>4 DEF CompletionAccepted, ActiveSliceStatuses
    <3>2. /\ slice'[x] \in FinalSliceStatuses
          /\ \A y \in Slices \ {x} :
               \/ slice'[y] = slice[y]
               \/ slice[y] = "pending" /\ slice'[y] \in {"blocked", "skipped"}
      BY <1>1, <2>1, <2>4, <3>1, CompleteSliceKeepsRows
    <3>3. token' = [token EXCEPT ![x] = NoToken]
      BY <2>4 DEF CompleteSlice
    <3> QED
      BY <2>1, <2>2, <3>2, <3>3, EndedSliceKeepsStarts
  <2> QED
    BY <2>1, <2>3, <2>4
<1>5. ASSUME NEW r \in Runners, CrashRunner(r)
      PROVE  StartInv'
  <2>1. /\ UNCHANGED <<slice, token, workSlice, starts>>
        /\ \A u \in Tokens : \/ work'[u] = work[u]
                             \/ work[u] # "free" /\ work'[u] = "gone"
    BY <1>5 DEF CrashRunner, rowVars, IssuedTo
  <2> QED
    BY <2>1, PendingChangeKeepsStarts
<1>6. ASSUME (\E r \in Runners : RestartRunner(r) \/ RunnerHeartbeat(r))
               \/ \E r \in AllRunners : HeartbeatAges(r)
      PROVE  StartInv'
  <2>1. UNCHANGED <<slice, token, work, workSlice, starts>>
    BY <1>6 DEF RestartRunner, RunnerHeartbeat, HeartbeatAges, rowVars, workVars
  <2> QED
    BY <2>1, PendingChangeKeepsStarts
<1> QED
  BY <1>2, <1>3, <1>4, <1>5, <1>6, ClaimKeepsStarts, StartKeepsStarts DEF RemoteStep

LEMMA ServerStepKeepsStarts ==
    ASSUME TypeInv, StartInv, ServerStep
    PROVE  StartInv'
<1> USE TypeParts DEF TypeInv
<1>1. /\ token \in [Slices -> Tokens \cup {NoToken}]
      /\ slice \in [Slices -> SliceStatuses]
      /\ step \in [Steps -> StepStatuses]
  BY DEF RowsTypeOK
<1>2. ASSUME PollWithoutClaim
      PROVE  StartInv'
  <2>1. PICK final \in Reconcilings(step) :
           slice' = SlicesFollow(step, final, slice)
    BY <1>2 DEF PollWithoutClaim, PollJob
  <2>2. final \in [Steps -> StepStatuses]
    BY <1>1, ReconcilingFacts
  <2>3. \A x \in Slices : \/ slice'[x] = slice[x]
                          \/ slice[x] = "pending" /\ slice'[x] \in {"blocked", "skipped"}
    BY <1>1, <2>1, <2>2, SlicesFollowFacts
  <2>4. UNCHANGED <<token, work, workSlice, starts>>
    BY <1>2 DEF PollWithoutClaim, PollJob, workVars
  <2> QED
    BY <2>3, <2>4, PendingChangeKeepsStarts
<1>3. ASSUME NEW x \in Slices, EnvironmentOutOfDate(x)
      PROVE  StartInv'
  <2>1. FailPendingSlice(x) /\ UNCHANGED <<work, workSlice, starts>>
    BY <1>3 DEF EnvironmentOutOfDate, workVars
  <2>2. /\ slice'[x] = "failed"
        /\ \A y \in Slices \ {x} :
             \/ slice'[y] = slice[y]
             \/ slice[y] = "pending" /\ slice'[y] \in {"blocked", "skipped"}
    BY <2>1, FailPendingSliceKeepsRows
  <2>3. token' = [token EXCEPT ![x] = NoToken]
    BY <2>1 DEF FailPendingSlice
  <2> QED
    BY <2>1, <2>2, <2>3, EndedSliceKeepsStarts DEF FinalSliceStatuses
<1>4. ASSUME NEW x \in Slices, RecoverLostSlice(x) \/ RecoverStaleSlice(x)
      PROVE  StartInv'
  <2>1. MarkLostSlice(x) /\ UNCHANGED <<work, workSlice, starts>>
    BY <1>4 DEF RecoverLostSlice, RecoverStaleSlice, workVars
  <2>2. /\ slice'[x] \in {"cancelled", "failed"}
        /\ \A y \in Slices \ {x} :
             \/ slice'[y] = slice[y]
             \/ slice[y] = "pending" /\ slice'[y] \in {"blocked", "skipped"}
    BY <2>1, MarkLostSliceKeepsRows
  <2>3. token' = [token EXCEPT ![x] = NoToken]
    BY <2>1 DEF MarkLostSlice
  <2> QED
    BY <2>1, <2>2, <2>3, EndedSliceKeepsStarts DEF FinalSliceStatuses
<1>5. ASSUME RecoverStaleCancelling
      PROVE  StartInv'
  <2> DEFINE R == {x \in Slices : slice[x] \notin FinalSliceStatuses \cup {"absent"}}
  <2>1. /\ slice' = [x \in Slices |-> IF x \in R THEN "cancelled" ELSE slice[x]]
        /\ token' = [x \in Slices |-> IF x \in R THEN NoToken ELSE token[x]]
        /\ UNCHANGED <<work, workSlice, starts>>
    BY <1>5 DEF RecoverStaleCancelling, FinalizeAbandonedCancellation, workVars
  <2> HIDE DEF R
  <2>2. R \in SUBSET Slices
    BY DEF R
  <2> QED
    BY <2>1, <2>2, RevokedSlicesKeepStarts
<1>6. ASSUME CancelJob
      PROVE  StartInv'
  <2>1. UNCHANGED <<work, workSlice, starts>>
    BY <1>6 DEF CancelJob, workVars
  <2>2. CASE CancelIdleJob
    <3> DEFINE R == {x \in Slices : slice[x] \in {"pending", "assigned"}}
    <3>1. /\ slice' = [x \in Slices |-> IF x \in R THEN "cancelled" ELSE slice[x]]
          /\ token' = [x \in Slices |-> IF x \in R THEN NoToken ELSE token[x]]
      BY <2>2 DEF CancelIdleJob
    <3> HIDE DEF R
    <3>2. R \in SUBSET Slices
      BY DEF R
    <3> QED
      BY <2>1, <3>1, <3>2, RevokedSlicesKeepStarts
  <2>3. CASE CancelRunningJob
    <3>1. /\ slice' = [x \in Slices |-> IF slice[x] = "pending" THEN "cancelled" ELSE slice[x]]
          /\ UNCHANGED token
      BY <2>3 DEF CancelRunningJob
    <3> QED
      BY <2>1, <3>1, PendingChangeKeepsStarts
  <2> QED
    BY <1>6, <2>2, <2>3 DEF CancelJob
<1>7. ASSUME ContinueJob \/ \E r \in Runners : ReleaseDrain(r)
      PROVE  StartInv'
  <2>1. UNCHANGED <<slice, token, work, workSlice, starts>>
    BY <1>7 DEF ContinueJob, ApproveOversight, ReleaseDrain, rowVars, workVars
  <2> QED
    BY <2>1, PendingChangeKeepsStarts
<1>8. ASSUME NEW r \in Runners, DrainRunner(r)
      PROVE  StartInv'
  <2> DEFINE R == {x \in Slices : owner[x] = r /\ slice[x] = "assigned"}
  <2>1. /\ slice' = [x \in Slices |-> IF x \in R THEN "pending" ELSE slice[x]]
        /\ token' = [x \in Slices |-> IF x \in R THEN NoToken ELSE token[x]]
        /\ UNCHANGED <<work, workSlice, starts>>
    BY <1>8 DEF DrainRunner, UnassignNotStarted, workVars
  <2>2. R \in SUBSET Slices /\ \A x \in R : slice[x] = "assigned"
    OBVIOUS
  <2> HIDE DEF R
  <2> QED
    BY <2>1, <2>2, RevokedSlicesKeepStarts
<1>9. ASSUME NEW s \in Steps, RefreshInventories(s)
      PROVE  StartInv'
  <2>1. UNCHANGED <<token, work, workSlice, starts>>
    BY <1>9 DEF RefreshInventories, RefreshSucceeds, RefreshFails, EndRefresh, workVars
  <2>2. \A x \in Slices :
           \/ slice'[x] = slice[x]
           \/ /\ slice[x] \in {"pending", "absent"}
              /\ slice'[x] \in {"pending", "absent", "blocked", "skipped"}
    <3>1. CASE RefreshFails(s)
      BY <3>1, RefreshFailsKeepsRows
    <3>2. CASE \E plan \in Plans(s) : RefreshSucceeds(s, plan)
      <4>1. PICK plan \in Plans(s) : RefreshSucceeds(s, plan)
        BY <3>2
      <4>2. plan \in SUBSET Slices
        BY <4>1 DEF Plans
      <4> QED
        BY <4>1, <4>2, RefreshSucceedsKeepsRows
    <3> QED
      BY <1>9, <3>1, <3>2 DEF RefreshInventories
  <2> QED
    BY <2>1, <2>2, PendingChangeKeepsStarts
<1>10. ASSUME NEW s \in Steps, RefreshCrashes(s)
       PROVE  StartInv'
  <2>1. UNCHANGED <<slice, token, work, workSlice, starts>>
    BY <1>10 DEF RefreshCrashes, RefreshAbandoned, workVars
  <2> QED
    BY <2>1, PendingChangeKeepsStarts
<1> QED
  BY <1>2, <1>3, <1>4, <1>5, <1>6, <1>7, <1>8, <1>9, <1>10 DEF ServerStep

LEMMA LocalStepKeepsStarts ==
    ASSUME TypeInv, StartInv, LocalStep
    PROVE  StartInv'
<1> USE TypeParts DEF TypeInv
<1>1. ASSUME NEW x \in Slices, slice[x] = "running",
             NEW status \in FinalSliceStatuses,
             CompleteSlice(x, status, "local"), UNCHANGED <<work, workSlice, starts>>
      PROVE  StartInv'
  <2>1. /\ slice'[x] \in FinalSliceStatuses
        /\ \A y \in Slices \ {x} :
             \/ slice'[y] = slice[y]
             \/ slice[y] = "pending" /\ slice'[y] \in {"blocked", "skipped"}
    BY <1>1, CompleteSliceKeepsRows DEF ActiveSliceStatuses
  <2>2. token' = [token EXCEPT ![x] = NoToken]
    BY <1>1 DEF CompleteSlice
  <2> QED
    BY <1>1, <2>1, <2>2, EndedSliceKeepsStarts
<1>2. ASSUME NEW x \in Slices, RecoverLocalSlice(x)
      PROVE  StartInv'
  <2>1. /\ slice[x] = "running" /\ UNCHANGED <<work, workSlice, starts>>
        /\ \E status \in FinalSliceStatuses : CompleteSlice(x, status, "local")
    BY <1>2 DEF RecoverLocalSlice, OrphanedLocalSlices, workVars, FinalSliceStatuses
  <2> QED
    BY <1>1, <2>1
<1>3. ASSUME NEW status \in FinalSliceStatuses, FinishLocalSlice(status)
      PROVE  StartInv'
  <2>1. local \in Slices /\ UNCHANGED <<work, workSlice, starts>>
    BY <1>3 DEF FinishLocalSlice, workVars
  <2>2. CASE slice[local] = "running"
    BY <1>1, <1>3, <2>1, <2>2 DEF FinishLocalSlice
  <2>3. CASE slice[local] # "running"
    <3>1. UNCHANGED <<slice, token>>
      BY <1>3, <2>3 DEF FinishLocalSlice, rowVars
    <3> QED
      BY <2>1, <3>1, PendingChangeKeepsStarts
  <2> QED
    BY <2>2, <2>3
<1>4. ASSUME LocalHeartbeat \/ CrashLocalRunner \/ RestartLocalRunner \/ EndLocalRecovery
      PROVE  StartInv'
  <2>1. UNCHANGED <<slice, token, work, workSlice, starts>>
    BY <1>4 DEF LocalHeartbeat, CrashLocalRunner, RestartLocalRunner, EndLocalRecovery,
                RefreshAbandoned, rowVars, workVars
  <2> QED
    BY <2>1, PendingChangeKeepsStarts
<1> QED
  BY <1>2, <1>3, <1>4, LocalClaimKeepsStarts DEF LocalStep

LEMMA StartInvAlways == Spec => []StartInv
<1>1. Init => StartInv
  BY DEF Init, RowsInit, InitialSlices, StartInv, IssuedTokensHaveSlices, TokenNamesItsSlice,
         UnstartedIsAssigned, FreshWhileStartable, TokenMeansAssigned, StartedAtMostOnce
<1>2. TypeInv /\ StartInv /\ [Next]_vars => StartInv'
  <2>1. CASE Next
    BY <2>1, RemoteStepKeepsStarts, ServerStepKeepsStarts, LocalStepKeepsStarts DEF Next
  <2>2. CASE UNCHANGED vars
    BY <2>2, PendingChangeKeepsStarts DEF vars, rowVars, workVars
  <2> QED
    BY <2>1, <2>2
<1> QED
  BY <1>1, <1>2, TypeInvAlways, PTL DEF Spec

\* No playbook is started twice for the same slice, in whatever way claims,
\* starts and completions are lost, runners crash or are drained and
\* assignments are handed out again.
THEOREM PlaybooksStartAtMostOnce == Spec => []StartedAtMostOnce
<1>1. StartInv => StartedAtMostOnce
  BY DEF StartInv
<1> QED
  BY <1>1, StartInvAlways, PTL

\* Dispatch tokens are valid exactly while a remote slice is assigned or runs,
\* and name one slice each.
THEOREM TokensMeanAssigned == Spec => []TokenMeansAssigned
<1>1. StartInv => TokenMeansAssigned
  BY DEF StartInv
<1> QED
  BY <1>1, StartInvAlways, PTL

-----------------------------------------------------------------------------
(* What every step of the system is to the rows.                           *)

\* A claim whose artefacts cannot be prepared.
ClaimFails ==
    /\ "artifact" \in Faults
    /\ \E t \in Tokens : work[t] # "free" /\ FailClaimedSlice(workSlice[t])

\* Processes that refresh inventories end without a result.
RefreshDies ==
    /\ Faults \cap {"refresh_crash", "local_crash"} # {}
    /\ \E S \in SUBSET Steps : RefreshAbandoned(S)

RowsStep == (UNCHANGED rowVars) \/ Transaction \/ ClaimFails \/ RefreshDies

LEMMA RemoteStepsAreTransactions ==
    ASSUME TypeInv, RemoteStep
    PROVE  RowsStep
<1>1. ASSUME NEW x \in Slices, NEW t \in Tokens, ClaimSlice(x, t)
      PROVE  RowsStep
  BY <1>1 DEF ClaimSlice, RowsStep, Transaction
<1>2. ASSUME NEW t \in Tokens, ArtifactPreparationFails(t)
      PROVE  RowsStep
  BY <1>2 DEF ArtifactPreparationFails, Disturb, RowsStep, ClaimFails
<1>3. ASSUME NEW t \in Tokens, StartExecution(t) \/ LoseStartAnswer(t)
      PROVE  RowsStep
  <2>1. workSlice[t] \in Slices /\ StartRemoteSlice(workSlice[t], t)
    BY <1>3 DEF StartExecution, LoseStartAnswer, TypeInv, IssuedTokensHaveSlices
  <2> QED
    BY <2>1 DEF RowsStep, Transaction
<1>4. ASSUME NEW t \in Tokens, DeliverCompletion(t)
      PROVE  RowsStep
  <2>1. /\ workSlice[t] \in Slices /\ result[t] \in FinalSliceStatuses
        /\ \/ UNCHANGED rowVars
           \/ /\ CompletionAccepted(workSlice[t], t)
              /\ CompleteSlice(workSlice[t], result[t], "server")
    BY <1>4 DEF DeliverCompletion, TypeInv, TypeOK, IssuedTokensHaveSlices
  <2>2. CompletionAccepted(workSlice[t], t) => slice[workSlice[t]] \in ActiveSliceStatuses
    BY DEF CompletionAccepted, ActiveSliceStatuses
  <2> QED
    BY <2>1, <2>2 DEF RowsStep, Transaction
<1>5. ASSUME NEW t \in Tokens,
             ReceiveAssignment(t) \/ LoseAssignment(t) \/ AbandonAssignment(t)
               \/ \E status \in FinalSliceStatuses : FinishExecution(t, status)
      PROVE  RowsStep
  BY <1>5 DEF ReceiveAssignment, LoseAssignment, AbandonAssignment, FinishExecution, RowsStep
<1>6. ASSUME \/ \E r \in Runners : CrashRunner(r) \/ RestartRunner(r) \/ RunnerHeartbeat(r)
             \/ \E r \in AllRunners : HeartbeatAges(r)
      PROVE  RowsStep
  BY <1>6 DEF CrashRunner, RestartRunner, RunnerHeartbeat, HeartbeatAges, RowsStep
<1> QED
  BY <1>1, <1>2, <1>3, <1>4, <1>5, <1>6 DEF RemoteStep

LEMMA ServerStepsAreTransactions ==
    ASSUME TypeInv, ServerStep
    PROVE  RowsStep
<1>1. ASSUME PollWithoutClaim \/ CancelJob \/ ContinueJob \/ RecoverStaleCancelling
      PROVE  RowsStep
  BY <1>1 DEF PollWithoutClaim, CancelJob, ContinueJob, RecoverStaleCancelling, RowsStep,
              Transaction
<1>2. ASSUME NEW x \in Slices,
             EnvironmentOutOfDate(x) \/ RecoverLostSlice(x) \/ RecoverStaleSlice(x)
      PROVE  RowsStep
  BY <1>2 DEF EnvironmentOutOfDate, RecoverLostSlice, RecoverStaleSlice, RowsStep, Transaction
<1>3. ASSUME NEW r \in Runners, DrainRunner(r) \/ ReleaseDrain(r)
      PROVE  RowsStep
  BY <1>3 DEF DrainRunner, ReleaseDrain, RowsStep, Transaction
<1>4. ASSUME NEW s \in Steps, RefreshInventories(s)
      PROVE  RowsStep
  <2>1. RefreshFails(s) \/ \E plan \in SUBSET Slices : RefreshSucceeds(s, plan)
    BY <1>4 DEF RefreshInventories, Plans
  <2> QED
    BY <2>1 DEF RowsStep, Transaction
<1>5. ASSUME NEW s \in Steps, RefreshCrashes(s)
      PROVE  RowsStep
  <2>1. "refresh_crash" \in Faults /\ RefreshAbandoned({s}) /\ {s} \in SUBSET Steps
    BY <1>5 DEF RefreshCrashes, Disturb
  <2> QED
    BY <2>1 DEF RowsStep, RefreshDies
<1> QED
  BY <1>1, <1>2, <1>3, <1>4, <1>5 DEF ServerStep

LEMMA LocalStepsAreTransactions ==
    ASSUME TypeInv, LocalStep
    PROVE  RowsStep
<1>1. ASSUME NEW x \in Slices, ClaimLocalSlice(x)
      PROVE  RowsStep
  BY <1>1 DEF ClaimLocalSlice, RowsStep, Transaction
<1>2. ASSUME NEW x \in Slices, RecoverLocalSlice(x)
      PROVE  RowsStep
  <2>1. /\ slice[x] \in ActiveSliceStatuses
        /\ \E status \in FinalSliceStatuses : CompleteSlice(x, status, "local")
    BY <1>2 DEF RecoverLocalSlice, OrphanedLocalSlices, ActiveSliceStatuses, FinalSliceStatuses
  <2> QED
    BY <2>1 DEF RowsStep, Transaction
<1>3. ASSUME NEW status \in FinalSliceStatuses, FinishLocalSlice(status)
      PROVE  RowsStep
  <2>1. CASE slice[local] = "running"
    <3>1. local \in Slices /\ slice[local] \in ActiveSliceStatuses
          /\ CompleteSlice(local, status, "local")
      BY <1>3, <2>1 DEF FinishLocalSlice, ActiveSliceStatuses
    <3> QED
      BY <3>1 DEF RowsStep, Transaction
  <2>2. CASE slice[local] # "running"
    BY <1>3, <2>2 DEF FinishLocalSlice, RowsStep
  <2> QED
    BY <2>1, <2>2
<1>4. ASSUME LocalHeartbeat \/ RestartLocalRunner \/ EndLocalRecovery
      PROVE  RowsStep
  BY <1>4 DEF LocalHeartbeat, RestartLocalRunner, EndLocalRecovery, RowsStep
<1>5. ASSUME CrashLocalRunner
      PROVE  RowsStep
  <2> DEFINE S == {s \in Steps : refresher[s] = "local"}
  <2>1. "local_crash" \in Faults /\ RefreshAbandoned(S) /\ S \in SUBSET Steps
    BY <1>5 DEF CrashLocalRunner, Disturb
  <2> HIDE DEF S
  <2> QED
    BY <2>1 DEF RowsStep, RefreshDies
<1> QED
  BY <1>1, <1>2, <1>3, <1>4, <1>5 DEF LocalStep

LEMMA StepsAreTransactions ==
    ASSUME TypeInv, [Next]_vars
    PROVE  RowsStep
<1>1. CASE Next
  BY <1>1, RemoteStepsAreTransactions, ServerStepsAreTransactions, LocalStepsAreTransactions DEF Next
<1>2. CASE UNCHANGED vars
  BY <1>2 DEF vars, RowsStep
<1> QED
  BY <1>1, <1>2

LEMMA CoverInvAlways ==
    ASSUME PlansCoverSteps
    PROVE  /\ Init => TypeInv /\ CoverInv
           /\ TypeInv /\ CoverInv /\ [Next]_vars => TypeInv' /\ CoverInv'
<1>1. Init => TypeInv /\ CoverInv
  BY InitTypes, RowsInitCorrect DEF Init, PlansCoverSteps
<1>2. TypeInv /\ CoverInv /\ [Next]_vars => TypeInv' /\ CoverInv'
  BY StepKeepsTypes DEF RowsKept, PlansCoverSteps
<1> QED
  BY <1>1, <1>2

LEMMA TypesOfRows == TypeInv => RowsTypeOK /\ RowsInv /\ ActiveSlicesOfRunningSteps
  BY TypeParts DEF TypeInv, RowsInv

\* Claims that fail and refreshes that die begin no step.
LEMMA BegunStepsAreSettledKept ==
    ASSUME TypeInv, CoverInv, BegunStepsAreSettled, [Next]_vars
    PROVE  BegunStepsAreSettled'
<1>1. RowsStep
  BY StepsAreTransactions
<1>2. CASE Transaction
  BY <1>2, TypesOfRows, TransactionKeepsBegun
<1>3. CASE UNCHANGED rowVars
  BY <1>3, CancellingBeginsNothing DEF rowVars
<1>4. CASE ClaimFails
  <2>1. UNCHANGED <<step, refresher>>
    BY <1>4 DEF ClaimFails, FailClaimedSlice
  <2> QED
    BY <2>1, CancellingBeginsNothing
<1>5. CASE RefreshDies
  <2>1. step' = step /\ \A s \in Steps : refresher'[s] \in {refresher[s], "none"}
    BY <1>5 DEF RefreshDies, RefreshAbandoned
  <2> QED
    BY <2>1, CancellingBeginsNothing
<1> QED
  BY <1>1, <1>2, <1>3, <1>4, <1>5 DEF RowsStep

\* A step starts, or is taken for done, only after its dependencies have ended
\* the way its branch asks for (dependency_state), and nothing that happens
\* later, a refresh of the inventory between two steps included, takes that back.
THEOREM DependenciesAlwaysRespected ==
    ASSUME PlansCoverSteps
    PROVE  Spec => []DependenciesRespected
<1>1. Init => BegunStepsAreSettled
  BY DEF Init, RowsInit, BegunStepsAreSettled, Begun
<1>2. TypeInv /\ CoverInv /\ BegunStepsAreSettled /\ [Next]_vars => BegunStepsAreSettled'
  BY BegunStepsAreSettledKept
<1>3. BegunStepsAreSettled => DependenciesRespected
  BY DEF BegunStepsAreSettled, DependenciesRespected, Begun
<1> QED
  BY <1>1, <1>2, <1>3, CoverInvAlways, PTL DEF Spec

\* A step whose boundary was not approved does not run, provided that it has no
\* parallel step: the Job pauses between steps only (update_oversight).
THEOREM BoundariesNeedApproval ==
    ASSUME PlansCoverSteps, BoundariesAreSequential
    PROVE  Spec => []OversightRespected
<1>1. Init => BegunStepsAreSettled /\ OversightInv
  BY DEF Init, RowsInit, BegunStepsAreSettled, Begun, OversightInv, OversightRespected,
         ApprovedTogether, OversightRequiredBefore
<1>2. TypeInv /\ CoverInv /\ BegunStepsAreSettled /\ [Next]_vars => BegunStepsAreSettled'
  BY BegunStepsAreSettledKept
<1>3. TypeInv /\ BegunStepsAreSettled /\ OversightInv /\ [Next]_vars => OversightInv'
  <2> SUFFICES ASSUME TypeInv, BegunStepsAreSettled, OversightInv, [Next]_vars
               PROVE  OversightInv'
    OBVIOUS
  <2>1. CASE Transaction
    BY <2>1, TypesOfRows, TransactionKeepsOversight
  <2>2. CASE ~Transaction
    <3>1. UNCHANGED <<step, approved>>
      BY <2>2, StepsAreTransactions
         DEF RowsStep, rowVars, ClaimFails, FailClaimedSlice, RefreshDies, RefreshAbandoned
    <3> QED
      BY <3>1 DEF OversightInv, OversightRespected, ApprovedTogether
  <2> QED
    BY <2>1, <2>2
<1>4. OversightInv => OversightRespected
  BY DEF OversightInv
<1> QED
  BY <1>1, <1>2, <1>3, <1>4, CoverInvAlways, PTL DEF Spec

\* A successful step has successful slices only.  The failure of a claim is left
\* out: it is written whatever has become of the slice since the claim.
THEOREM SuccessAlwaysMeansAllSlices ==
    ASSUME PlansCoverSteps, "artifact" \notin Faults
    PROVE  Spec => []SuccessMeansAllSlices
<1>1. Init => SuccessIsOfAllSlices
  BY DEF Init, RowsInit, SuccessIsOfAllSlices
<1>2. TypeInv /\ CoverInv /\ SuccessIsOfAllSlices /\ [Next]_vars => SuccessIsOfAllSlices'
  <2> SUFFICES ASSUME TypeInv, CoverInv, SuccessIsOfAllSlices, [Next]_vars
               PROVE  SuccessIsOfAllSlices'
    OBVIOUS
  <2>1. CASE Transaction
    BY <2>1, TypesOfRows, TransactionKeepsSuccess
  <2>2. CASE ~Transaction
    <3>1. /\ UNCHANGED <<step, slice>>
          /\ \A s \in Steps : refresher'[s] \in {refresher[s], "none"}
      BY <2>2, StepsAreTransactions DEF RowsStep, rowVars, ClaimFails, RefreshDies, RefreshAbandoned
    <3> QED
      BY <3>1, SuccessStays
  <2> QED
    BY <2>1, <2>2
<1>3. SuccessIsOfAllSlices => SuccessMeansAllSlices
  BY DEF SuccessIsOfAllSlices, SuccessMeansAllSlices
<1> QED
  BY <1>1, <1>2, <1>3, CoverInvAlways, PTL DEF Spec

-----------------------------------------------------------------------------
(* Without post-step refreshes nobody is inside one.                       *)

NothingIsRefreshed == RefreshAfter = {} => \A s \in Steps : refresher[s] = "none"

LEMMA NothingIsRefreshedKept ==
    ASSUME TypeInv, NothingIsRefreshed, [Next]_vars
    PROVE  NothingIsRefreshed'
<1> SUFFICES ASSUME RefreshAfter = {}, \A s \in Steps : refresher[s] = "none"
             PROVE  \A s \in Steps : refresher'[s] = "none"
  BY DEF NothingIsRefreshed
<1>1. CASE Transaction
  <2>1. refresher' = refresher \/ \E s \in Steps : refresher[s] # "none"
    BY <1>1 DEF Transaction, PollJob, ClaimRemoteSlice, StartLocalSlice, Dispatch,
         StartRemoteSlice, FailPendingSlice, CompleteSlice, MarkLostSlice, RefreshSucceeds,
         RefreshFails, UnassignNotStarted, ApproveOversight, CancelIdleJob, CancelRunningJob,
         FinalizeAbandonedCancellation
  <2> QED
    BY <2>1
<1>2. CASE ~Transaction
  BY <1>2, StepsAreTransactions
     DEF RowsStep, rowVars, ClaimFails, FailClaimedSlice, RefreshDies, RefreshAbandoned
<1> QED
  BY <1>1, <1>2

\* Every running step of a running Job has a slice that can still end it, or a
\* process inside its refresh.  A refresh that dies and a claim whose artefacts
\* cannot be prepared leave steps behind, so they are excluded.
THEOREM NoStepIsLeftBehind ==
    ASSUME PlansCoverSteps, "artifact" \notin Faults,
           RefreshAfter = {} \/ Faults \cap {"refresh_crash", "local_crash"} = {}
    PROVE  Spec => []NoStepLeftBehind
<1>1. Init => TendedInv /\ NothingIsRefreshed
  BY DEF Init, RowsInit, InitialSlices, TendedInv, NoStepLeftBehind, BlockedSlicesOfBlockedSteps,
         NothingIsRefreshed
<1>2. /\ TypeInv /\ CoverInv /\ NothingIsRefreshed /\ TendedInv /\ [Next]_vars
           => NothingIsRefreshed' /\ TendedInv'
  <2> SUFFICES ASSUME TypeInv, CoverInv, NothingIsRefreshed, TendedInv, [Next]_vars
               PROVE  TendedInv'
    BY NothingIsRefreshedKept
  <2>1. CoverInv'
    BY CoverInvAlways
  <2>2. CASE Transaction
    BY <2>1, <2>2, TypesOfRows, TransactionKeepsTended DEF CoverInv
  <2>3. CASE ~Transaction
    <3>1. /\ UNCHANGED <<job, step, slice>>
          /\ \A s \in Steps : refresher'[s] = refresher[s]
      <4>1. CASE UNCHANGED rowVars
        BY <4>1 DEF rowVars
      <4>2. CASE RefreshDies
        <5>1. \A s \in Steps : refresher[s] = "none"
          BY <4>2 DEF RefreshDies, NothingIsRefreshed
        <5> QED
          BY <4>2, <5>1 DEF RefreshDies, RefreshAbandoned
      <4> QED
        BY <2>3, <4>1, <4>2, StepsAreTransactions DEF RowsStep, ClaimFails
    <3> QED
      BY <3>1 DEF TendedInv, NoStepLeftBehind, BlockedSlicesOfBlockedSteps, SlicesOf
  <2> QED
    BY <2>2, <2>3
<1>3. TendedInv => NoStepLeftBehind
  BY DEF TendedInv
<1> QED
  BY <1>1, <1>2, <1>3, CoverInvAlways, PTL DEF Spec

-----------------------------------------------------------------------------
(* The Job ends with its last step.                                        *)

\* Tokens are issued by claims.
LEMMA RemoteStepIssues ==
    ASSUME TypeInv, RemoteStep, NEW t \in Tokens, work'[t] # "free"
    PROVE  \/ work[t] # "free" /\ workSlice'[t] = workSlice[t]
           \/ \E x \in Slices : ClaimSlice(x, t) /\ workSlice'[t] = x
<1> USE DEF TypeInv, TypeOK
<1>1. ASSUME NEW x \in Slices, NEW u \in Tokens, ClaimSlice(x, u)
      PROVE  \/ work[t] # "free" /\ workSlice'[t] = workSlice[t]
             \/ \E y \in Slices : ClaimSlice(y, t) /\ workSlice'[t] = y
  <2>1. /\ work' = [work EXCEPT ![u] = "preparing"]
        /\ workSlice' = [workSlice EXCEPT ![u] = x]
    BY <1>1 DEF ClaimSlice
  <2>2. CASE t = u
    BY <1>1, <2>1, <2>2
  <2>3. CASE t # u
    BY <2>1, <2>3
  <2> QED
    BY <2>2, <2>3
<1>2. ASSUME NEW u \in Tokens,
             \/ ArtifactPreparationFails(u) \/ ReceiveAssignment(u) \/ LoseAssignment(u)
             \/ StartExecution(u) \/ AbandonAssignment(u) \/ LoseStartAnswer(u)
             \/ \E status \in FinalSliceStatuses : FinishExecution(u, status)
             \/ DeliverCompletion(u)
      PROVE  work[t] # "free" /\ workSlice'[t] = workSlice[t]
  <2>1. /\ work[u] # "free" /\ workSlice' = workSlice
        /\ \A v \in Tokens \ {u} : work'[v] = work[v]
    BY <1>2 DEF ArtifactPreparationFails, ReceiveAssignment, LoseAssignment, StartExecution,
                AbandonAssignment, LoseStartAnswer, FinishExecution, DeliverCompletion
  <2> QED
    BY <2>1
<1>3. ASSUME \/ \E r \in Runners : CrashRunner(r) \/ RestartRunner(r) \/ RunnerHeartbeat(r)
             \/ \E r \in AllRunners : HeartbeatAges(r)
      PROVE  work[t] # "free" /\ workSlice'[t] = workSlice[t]
  BY <1>3 DEF CrashRunner, RestartRunner, RunnerHeartbeat, HeartbeatAges, workVars, IssuedTo
<1> QED
  BY <1>1, <1>2, <1>3 DEF RemoteStep

LEMMA OthersIssueNothing ==
    ASSUME ServerStep \/ LocalStep \/ UNCHANGED vars
    PROVE  UNCHANGED <<up, work, workSlice, result>>
<1>1. CASE ServerStep
  BY <1>1 DEF ServerStep, PollWithoutClaim, EnvironmentOutOfDate, RecoverLostSlice,
       RecoverStaleSlice, RecoverStaleCancelling, CancelJob, ContinueJob, DrainRunner,
       ReleaseDrain, RefreshInventories, RefreshCrashes, workVars
<1>2. CASE LocalStep
  BY <1>2 DEF LocalStep, ClaimLocalSlice, RecoverLocalSlice, FinishLocalSlice, LocalHeartbeat,
       CrashLocalRunner, RestartLocalRunner, EndLocalRecovery, workVars
<1> QED
  BY <1>1, <1>2 DEF vars, workVars

LEMMA IssuedSlicesOfBegunStepsKept ==
    ASSUME TypeInv, IssuedSlicesOfBegunSteps, [Next]_vars
    PROVE  IssuedSlicesOfBegunSteps'
<1> SUFFICES ASSUME NEW t \in Tokens, work'[t] # "free"
             PROVE  step'[StepOf[workSlice'[t]]] # "pending"
  BY DEF IssuedSlicesOfBegunSteps
<1>1. \/ work[t] # "free" /\ workSlice'[t] = workSlice[t]
      \/ \E x \in Slices : ClaimSlice(x, t) /\ workSlice'[t] = x
  BY RemoteStepIssues, OthersIssueNothing DEF Next
<1>2. CASE work[t] # "free" /\ workSlice'[t] = workSlice[t]
  <2>1. StepOf[workSlice[t]] \in Steps
    BY <1>2, WorkflowAssumption DEF TypeInv, IssuedTokensHaveSlices
  <2>2. step[StepOf[workSlice[t]]] # "pending"
    BY <1>2 DEF IssuedSlicesOfBegunSteps
  <2>3. Transaction \/ step' = step
    BY StepsAreTransactions
       DEF RowsStep, rowVars, ClaimFails, FailClaimedSlice, RefreshDies, RefreshAbandoned
  <2> QED
    BY <1>2, <2>1, <2>2, <2>3, StepsNeverPendAgain, TypesOfRows
<1>3. CASE \E x \in Slices : ClaimSlice(x, t) /\ workSlice'[t] = x
  <2>1. PICK x \in Slices : ClaimSlice(x, t) /\ workSlice'[t] = x
    BY <1>3
  <2>2. PICK final \in Reconcilings(step) : step' = [final EXCEPT ![StepOf[x]] = "running"]
    BY <2>1 DEF ClaimSlice, ClaimRemoteSlice, Dispatch
  <2>3. final \in [Steps -> StepStatuses] /\ StepOf[x] \in Steps
    BY TypesOfRows, ReconcilingFacts, WorkflowAssumption DEF RowsTypeOK
  <2> QED
    BY <2>1, <2>2, <2>3
<1> QED
  BY <1>1, <1>2, <1>3

\* A Job does not stay open after its last step: with a step that the first
\* request finds runnable, whichever transaction ends the last step ends the Job.
THEOREM LastStepAlwaysEndsJob ==
    ASSUME WorkIsLeft
    PROVE  Spec => []LastStepEndsJob
<1>1. Init => IssuedSlicesOfBegunSteps /\ SettledInv
  <2> SUFFICES ASSUME Init
               PROVE  IssuedSlicesOfBegunSteps /\ SettledInv
    OBVIOUS
  <2>1. IssuedSlicesOfBegunSteps
    BY DEF Init, IssuedSlicesOfBegunSteps
  <2>2. Untouched /\ step = [s \in Steps |-> "pending"]
    BY DEF Init, RowsInit, Untouched
  <2>3. \E s \in Steps : TRUE
    <3> SUFFICES ASSUME Steps = {}
                 PROVE  FALSE
      OBVIOUS
    <3> QED
      BY <2>2, InitTypes, TypesOfRows DEF WorkIsLeft, Reconciles, RowsTypeOK
  <2>4. LastStepEndsJob
    BY <2>2, <2>3 DEF LastStepEndsJob, TerminalStepStatuses
  <2> QED
    BY <2>1, <2>2, <2>4 DEF SettledInv, NothingToReconcile
<1>2. TypeInv /\ IssuedSlicesOfBegunSteps /\ SettledInv /\ [Next]_vars
        => IssuedSlicesOfBegunSteps' /\ SettledInv'
  <2> SUFFICES ASSUME TypeInv, IssuedSlicesOfBegunSteps, SettledInv, [Next]_vars
               PROVE  SettledInv'
    BY IssuedSlicesOfBegunStepsKept
  <2>1. RowsTypeOK /\ ActiveSlicesOfRunningSteps /\ RowsTypeOK'
    BY StepKeepsTypes, TypesOfRows DEF RowsKept
  <2>2. CASE Transaction
    BY <2>1, <2>2, TransactionSettles
  <2>3. CASE ClaimFails
    <3>1. PICK t \in Tokens : work[t] # "free" /\ FailClaimedSlice(workSlice[t])
      BY <2>3 DEF ClaimFails
    <3>2. /\ step[StepOf[workSlice[t]]] # "pending"
          /\ slice' = [slice EXCEPT ![workSlice[t]] = "failed"]
          /\ UNCHANGED <<job, step>>
      BY <3>1 DEF IssuedSlicesOfBegunSteps, FailClaimedSlice
    <3>3. \A x \in Slices : step[StepOf[x]] = "pending" => slice'[x] = slice[x]
      BY <2>1, <3>2 DEF RowsTypeOK
    <3> QED
      BY <2>1, <3>2, <3>3, SettledStays DEF RowsTypeOK
  <2>4. CASE (UNCHANGED rowVars) \/ RefreshDies
    <3>1. UNCHANGED <<job, step, slice>>
      BY <2>4 DEF rowVars, RefreshDies, RefreshAbandoned
    <3> QED
      BY <2>1, <3>1, SettledStays DEF RowsTypeOK
  <2> QED
    BY <2>2, <2>3, <2>4, StepsAreTransactions DEF RowsStep
<1>3. SettledInv => LastStepEndsJob
  BY DEF SettledInv
<1> QED
  BY <1>1, <1>2, <1>3, TypeInvAlways, PTL DEF Spec

-----------------------------------------------------------------------------
(* The status column and JobLifecycle.                                     *)

\* What happens to the status of a Job that has not ended.
StatusStep ==
    \/ Lifecycle!Next
    \/ UNCHANGED <<job, started>>

\* The end of a refresh settles a Job that has ended meanwhile once more.
EndIsRewritten ==
    /\ job \in TerminalJobStatuses /\ job' \in TerminalJobStatuses
    /\ \E s \in Steps : refresher[s] # "none"
    /\ started' = started

LEMMA SettleFollowsLifecycle ==
    ASSUME job \in JobStatuses, NEW st \in [Steps -> StepStatuses],
           NEW ss \in [Slices -> SliceStatuses], Settle(st, ss),
           started' = started, job' = "running" => job = "running"
    PROVE  /\ job \notin TerminalJobStatuses => StatusStep
           /\ job \in TerminalJobStatuses => job' \in TerminalJobStatuses
<1>1. PICK final : job' = FinalizeJob(UpdateOversight(job, final, approved), final)
  BY DEF Settle
<1>2. \/ job' = job
      \/ job' \in TerminalJobStatuses
      \/ job' = "waiting_oversight" /\ job \notin TerminalJobStatuses \cup {"cancelling"}
  BY SettleFacts
<1>3. job = "cancelling" => job' \in {"cancelling", "cancelled"}
  BY <1>1 DEF UpdateOversight, FinalizeJob
<1>4. ASSUME job \notin TerminalJobStatuses
      PROVE  StatusStep
  <2>1. CASE job' = job
    BY <2>1 DEF StatusStep
  <2>2. CASE job' \in TerminalJobStatuses
    <3>1. Lifecycle!End
      BY <1>3, <1>4, <2>2 DEF Lifecycle!End, Lifecycle!Ended, JobStatuses, TerminalJobStatuses
    <3> QED
      BY <3>1 DEF StatusStep, Lifecycle!Next
  <2>3. CASE job' = "waiting_oversight" /\ job \notin TerminalJobStatuses \cup {"cancelling"}
    <3>1. job' = job \/ Lifecycle!Pause
      BY <2>3 DEF Lifecycle!Pause, JobStatuses, TerminalJobStatuses
    <3> QED
      BY <3>1 DEF StatusStep, Lifecycle!Next
  <2> QED
    BY <1>2, <2>1, <2>2, <2>3
<1>5. job \in TerminalJobStatuses => job' \in TerminalJobStatuses
  BY <1>2
<1> QED
  BY <1>4, <1>5

LEMMA EndSliceFollowsLifecycle ==
    ASSUME RowsTypeOK, EndedJobIsSettled,
           NEW x \in Slices, slice[x] \in LiveSliceStatuses,
           NEW status \in FinalSliceStatuses,
           EndSlice(x, status), started' = started
    PROVE  StatusStep
<1> DEFINE ss == [slice EXCEPT ![x] = status]
           st == AggregateStep(StepOf[x], step, ss)
<1>1. ss \in [Slices -> SliceStatuses] /\ Settle(st, ss)
  BY DEF RowsTypeOK, SliceStatuses, EndSlice
<1> HIDE DEF ss
<1>2. st \in [Steps -> StepStatuses]
  BY AggregateStepFacts, WorkflowAssumption DEF RowsTypeOK
<1> HIDE DEF st
<1>3. job \notin TerminalJobStatuses /\ job \in JobStatuses
  BY DEF EndedJobIsSettled, RowsTypeOK
<1>4. job' = "running" => job = "running"
  BY <1>1, <1>2, <1>3, SettleFacts DEF TerminalJobStatuses
<1> QED
  BY <1>1, <1>2, <1>3, <1>4, SettleFollowsLifecycle

LEMMA EndRefreshFollowsLifecycle ==
    ASSUME RowsTypeOK, NEW s \in Steps, refresher[s] # "none",
           NEW ss \in [Slices -> SliceStatuses],
           NEW verdict \in {"successful", "failed"}, EndRefresh(s, ss, verdict)
    PROVE  StatusStep \/ EndIsRewritten
<1> DEFINE st == [step EXCEPT ![s] = verdict]
<1>1. Settle(st, ss) /\ started' = started
  BY DEF EndRefresh
<1>2. st \in [Steps -> StepStatuses] /\ job \in JobStatuses
  BY DEF RowsTypeOK, StepStatuses, TerminalStepStatuses
<1> HIDE DEF st
<1>3. job' = "running" => job = "running"
  BY <1>1, <1>2, SettleFacts DEF TerminalJobStatuses
<1>4. /\ job \notin TerminalJobStatuses => StatusStep
      /\ job \in TerminalJobStatuses => job' \in TerminalJobStatuses
  BY <1>1, <1>2, <1>3, SettleFollowsLifecycle
<1> QED
  BY <1>1, <1>4 DEF EndIsRewritten

LEMMA DispatchFollowsLifecycle ==
    ASSUME RunningJobHasStarted, RowsTypeOK,
           NEW x, NEW status, NEW runner, NEW final, Dispatch(x, status, runner, final)
    PROVE  StatusStep
<1>1. job \in {"queued", "running"} /\ job' = "running" /\ started' = TRUE
  BY DEF Dispatch
<1>2. CASE job = "queued"
  BY <1>1, <1>2 DEF StatusStep, Lifecycle!Next, Lifecycle!Begin
<1>3. CASE job = "running"
  BY <1>1, <1>3 DEF StatusStep, RunningJobHasStarted, RowsTypeOK
<1> QED
  BY <1>1, <1>2, <1>3

LEMMA TransactionFollowsLifecycle ==
    ASSUME RowsTypeOK, EndedJobIsSettled, RunningJobHasStarted, Transaction
    PROVE  StatusStep \/ EndIsRewritten
<1>1. CASE PollJob
  <2>1. PICK final : job' = UpdateOversight(job, final, approved)
                     /\ job \in {"queued", "running"} /\ started' = started
    BY <1>1 DEF PollJob
  <2>2. job' = job \/ Lifecycle!Pause
    BY <2>1, UpdateOversightFacts DEF RowsTypeOK, Lifecycle!Pause
  <2> QED
    BY <2>1, <2>2 DEF StatusStep, Lifecycle!Next
<1>2. CASE \/ \E x \in Slices, t \in Tokens : ClaimRemoteSlice(x, t)
           \/ \E x \in Slices : StartLocalSlice(x)
  BY <1>2, DispatchFollowsLifecycle DEF ClaimRemoteSlice, StartLocalSlice
<1>3. CASE \/ \E x \in Slices, t \in Tokens : StartRemoteSlice(x, t)
           \/ \E r \in Runners : UnassignNotStarted(r)
  BY <1>3 DEF StartRemoteSlice, UnassignNotStarted, StatusStep
<1>4. CASE \E x \in Slices : FailPendingSlice(x)
  BY <1>4, EndSliceFollowsLifecycle DEF FailPendingSlice, LiveSliceStatuses, FinalSliceStatuses
<1>5. CASE \E x \in Slices, requested \in FinalSliceStatuses, process \in {"server", "local"} :
              slice[x] \in ActiveSliceStatuses /\ CompleteSlice(x, requested, process)
  <2>1. PICK x \in Slices, requested \in FinalSliceStatuses, process \in {"server", "local"} :
            slice[x] \in ActiveSliceStatuses /\ CompleteSlice(x, requested, process)
    BY <1>5
  <2>2. /\ started' = started
        /\ \/ job' = job
           \/ \E status \in FinalSliceStatuses : EndSlice(x, status)
    BY <2>1 DEF CompleteSlice, FinalSliceStatuses
  <2>3. slice[x] \in LiveSliceStatuses
    BY <2>1 DEF LiveSliceStatuses, ActiveSliceStatuses
  <2> QED
    BY <2>2, <2>3, EndSliceFollowsLifecycle DEF StatusStep
<1>6. CASE \E x \in Slices : MarkLostSlice(x)
  <2>1. PICK x \in Slices : MarkLostSlice(x)
    BY <1>6
  <2>2. /\ slice[x] \in LiveSliceStatuses /\ started' = started
        /\ \E status \in FinalSliceStatuses : EndSlice(x, status)
    BY <2>1 DEF MarkLostSlice, FinalSliceStatuses
  <2> QED
    BY <2>2, EndSliceFollowsLifecycle
<1>7. CASE \E s \in Steps, plan \in SUBSET Slices : RefreshSucceeds(s, plan)
  <2>1. PICK s \in Steps, plan \in SUBSET Slices : RefreshSucceeds(s, plan)
    BY <1>7
  <2> DEFINE replanned == {x \in Slices : StepOf[x] \in targets[s]}
             ss == [x \in Slices |-> IF x \notin replanned THEN slice[x]
                                     ELSE IF x \in plan THEN "pending" ELSE "absent"]
  <2>2. refresher[s] # "none" /\ EndRefresh(s, ss, "successful")
    BY <2>1 DEF RefreshSucceeds
  <2>3. ss \in [Slices -> SliceStatuses]
    BY DEF RowsTypeOK, SliceStatuses, LiveSliceStatuses
  <2> HIDE DEF ss
  <2> QED
    BY <2>2, <2>3, EndRefreshFollowsLifecycle
<1>8. CASE \E s \in Steps : RefreshFails(s)
  BY <1>8, EndRefreshFollowsLifecycle DEF RefreshFails, RowsTypeOK
<1>9. CASE ApproveOversight
  BY <1>9 DEF ApproveOversight, StatusStep, Lifecycle!Next, Lifecycle!Resume
<1>10. CASE CancelIdleJob
  BY <1>10 DEF CancelIdleJob, StatusStep, Lifecycle!Next, Lifecycle!End, Lifecycle!Ended
<1>11. CASE CancelRunningJob
  BY <1>11 DEF CancelRunningJob, StatusStep, Lifecycle!Next, Lifecycle!AskToStop
<1>12. CASE FinalizeAbandonedCancellation
  BY <1>12 DEF FinalizeAbandonedCancellation, StatusStep, Lifecycle!Next, Lifecycle!End
<1> QED
  BY <1>1, <1>2, <1>3, <1>4, <1>5, <1>6, <1>7, <1>8, <1>9, <1>10, <1>11, <1>12
     DEF Transaction

LEMMA RunningJobHasStartedKept ==
    ASSUME RunningJobHasStarted, StatusStep \/ EndIsRewritten
    PROVE  RunningJobHasStarted'
  BY DEF RunningJobHasStarted, StatusStep, EndIsRewritten, Lifecycle!Next, Lifecycle!Begin,
         Lifecycle!Pause, Lifecycle!Resume, Lifecycle!AskToStop, Lifecycle!End, Lifecycle!Ended,
         TerminalJobStatuses

LEMMA StepFollowsLifecycle ==
    ASSUME TypeInv, CoverInv, RunningJobHasStarted, [Next]_vars
    PROVE  StatusStep \/ EndIsRewritten
<1>1. CASE Transaction
  BY <1>1, TypesOfRows, SettledWhenEnded, TransactionFollowsLifecycle
<1>2. CASE ~Transaction
  BY <1>2, StepsAreTransactions
     DEF RowsStep, rowVars, ClaimFails, FailClaimedSlice, RefreshDies, RefreshAbandoned, StatusStep
<1> QED
  BY <1>1, <1>2

\* Seen through its status column, a Job of which every step has slices behaves
\* as JobLifecycle allows, except that the end of a post-step refresh may give
\* a Job that was ended meanwhile (_finalize_abandoned_cancellation) another
\* final status.
THEOREM LifecycleUpToRefreshes ==
    ASSUME PlansCoverSteps
    PROVE  Spec => Lifecycle!Init /\ [][Lifecycle!Next \/ EndIsRewritten]_<<job, started>>
<1>1. Init => Lifecycle!Init /\ RunningJobHasStarted
  BY DEF Init, RowsInit, Lifecycle!Init, RunningJobHasStarted
<1>2. TypeInv /\ CoverInv /\ RunningJobHasStarted /\ [Next]_vars
        => RunningJobHasStarted' /\ [Lifecycle!Next \/ EndIsRewritten]_<<job, started>>
  BY StepFollowsLifecycle, RunningJobHasStartedKept DEF StatusStep
<1> QED
  BY <1>1, <1>2, CoverInvAlways, PTL DEF Spec

\* Without post-step refreshes SlicedJob implements JobLifecycle: whatever
\* happens to slices, runners and workers, a Job that was asked to stop ends
\* cancelled and a Job that has ended stays as it ended.
THEOREM LifecycleIsImplemented ==
    ASSUME PlansCoverSteps, RefreshAfter = {}
    PROVE  Spec => ImplementsLifecycle
<1>1. Init => Lifecycle!Init /\ RunningJobHasStarted /\ NothingIsRefreshed
  BY DEF Init, RowsInit, Lifecycle!Init, RunningJobHasStarted, NothingIsRefreshed
<1>2. TypeInv /\ CoverInv /\ RunningJobHasStarted /\ NothingIsRefreshed /\ [Next]_vars
        => /\ RunningJobHasStarted' /\ NothingIsRefreshed'
           /\ [Lifecycle!Next]_<<job, started>>
  BY StepFollowsLifecycle, RunningJobHasStartedKept, NothingIsRefreshedKept
     DEF StatusStep, EndIsRewritten, NothingIsRefreshed
<1>3. ImplementsLifecycle <=> Lifecycle!Init /\ [][Lifecycle!Next]_<<job, started>>
  BY DEF ImplementsLifecycle, Lifecycle!Spec
<1> QED
  BY <1>1, <1>2, <1>3, CoverInvAlways, PTL DEF Spec

-----------------------------------------------------------------------------
(* LiveWorkIsSpared: what the server has heard of a worker.                *)

\* Transactions that hand nothing out, start nothing and ask nobody to stop.
QuietRows ==
    /\ \A x \in Slices : slice'[x] \in ActiveSliceStatuses =>
           slice'[x] = slice[x] /\ token'[x] = token[x]
    /\ job' = "cancelling" => job = "cancelling"

LEMMA SettleAsksNoStop ==
    ASSUME RowsTypeOK, NEW st \in [Steps -> StepStatuses],
           NEW ss \in [Slices -> SliceStatuses], Settle(st, ss)
    PROVE  job' = "cancelling" => job = "cancelling"
  BY SettleFacts DEF RowsTypeOK, TerminalJobStatuses

LEMMA EndSliceAsksNoStop ==
    ASSUME RowsTypeOK, NEW x \in Slices, NEW status \in FinalSliceStatuses, EndSlice(x, status)
    PROVE  job' = "cancelling" => job = "cancelling"
<1> DEFINE ss == [slice EXCEPT ![x] = status]
           st == AggregateStep(StepOf[x], step, ss)
<1>1. ss \in [Slices -> SliceStatuses] /\ Settle(st, ss)
  BY DEF RowsTypeOK, SliceStatuses, EndSlice
<1> HIDE DEF ss
<1>2. st \in [Steps -> StepStatuses]
  BY AggregateStepFacts, WorkflowAssumption DEF RowsTypeOK
<1> HIDE DEF st
<1> QED
  BY <1>1, <1>2, SettleAsksNoStop

\* One slice ends and loses its token, pending ones may follow their steps.
LEMMA EndedSliceIsQuiet ==
    ASSUME RowsTypeOK, NEW x \in Slices,
           slice'[x] \in FinalSliceStatuses,
           \A y \in Slices \ {x} :
               \/ slice'[y] = slice[y]
               \/ slice[y] = "pending" /\ slice'[y] \in {"blocked", "skipped"},
           token' = [token EXCEPT ![x] = NoToken],
           job' = "cancelling" => job = "cancelling"
    PROVE  QuietRows
  BY DEF QuietRows, RowsTypeOK, ActiveSliceStatuses, FinalSliceStatuses

LEMMA CompleteSliceIsQuiet ==
    ASSUME RowsTypeOK, RowsInv, NEW x \in Slices, slice[x] \in ActiveSliceStatuses,
           NEW requested \in FinalSliceStatuses, NEW process \in {"server", "local"},
           CompleteSlice(x, requested, process)
    PROVE  QuietRows
<1>1. /\ slice'[x] \in FinalSliceStatuses
      /\ \A y \in Slices \ {x} :
           \/ slice'[y] = slice[y]
           \/ slice[y] = "pending" /\ slice'[y] \in {"blocked", "skipped"}
  BY CompleteSliceKeepsRows
<1>2. /\ token' = [token EXCEPT ![x] = NoToken]
      /\ job' = job \/ \E status \in FinalSliceStatuses : EndSlice(x, status)
  BY DEF CompleteSlice, FinalSliceStatuses
<1>3. job' = "cancelling" => job = "cancelling"
  BY <1>2, EndSliceAsksNoStop
<1> QED
  BY <1>1, <1>2, <1>3, EndedSliceIsQuiet

LEMMA FailPendingSliceIsQuiet ==
    ASSUME RowsTypeOK, RowsInv, NEW x \in Slices, FailPendingSlice(x)
    PROVE  QuietRows
<1>1. /\ slice'[x] = "failed"
      /\ \A y \in Slices \ {x} :
           \/ slice'[y] = slice[y]
           \/ slice[y] = "pending" /\ slice'[y] \in {"blocked", "skipped"}
  BY FailPendingSliceKeepsRows
<1>2. token' = [token EXCEPT ![x] = NoToken] /\ EndSlice(x, "failed")
  BY DEF FailPendingSlice
<1> QED
  BY <1>1, <1>2, EndSliceAsksNoStop, EndedSliceIsQuiet DEF FinalSliceStatuses

LEMMA MarkLostSliceIsQuiet ==
    ASSUME RowsTypeOK, RowsInv, NEW x \in Slices, MarkLostSlice(x)
    PROVE  QuietRows
<1>1. /\ slice'[x] \in FinalSliceStatuses
      /\ \A y \in Slices \ {x} :
           \/ slice'[y] = slice[y]
           \/ slice[y] = "pending" /\ slice'[y] \in {"blocked", "skipped"}
  BY MarkLostSliceKeepsRows DEF FinalSliceStatuses
<1>2. /\ token' = [token EXCEPT ![x] = NoToken]
      /\ \E status \in FinalSliceStatuses : EndSlice(x, status)
  BY DEF MarkLostSlice, FinalSliceStatuses
<1> QED
  BY <1>1, <1>2, EndSliceAsksNoStop, EndedSliceIsQuiet

LEMMA RefreshIsQuiet ==
    ASSUME RowsTypeOK, RowsInv, NEW s \in Steps,
           RefreshFails(s) \/ \E plan \in SUBSET Slices : RefreshSucceeds(s, plan)
    PROVE  QuietRows
<1>1. \A x \in Slices :
          \/ slice'[x] = slice[x]
          \/ /\ slice[x] \in {"pending", "absent"}
             /\ slice'[x] \in {"pending", "absent", "blocked", "skipped"}
  BY RefreshFailsKeepsRows, RefreshSucceedsKeepsRows
<1>2. token' = token
  BY DEF RefreshFails, RefreshSucceeds, EndRefresh
<1>3. PICK verdict, ss : EndRefresh(s, ss, verdict)
  BY DEF RefreshFails, RefreshSucceeds
<1>4. job' = "cancelling" => job = "cancelling"
  <2>1. PICK final : job' = FinalizeJob(UpdateOversight(job, final, approved), final)
    BY <1>3 DEF EndRefresh, Settle
  <2>2. FinalizeJob(UpdateOversight(job, final, approved), final)
          \in {job, "waiting_oversight"} \cup TerminalJobStatuses
    BY DEF FinalizeJob, UpdateOversight, TerminalJobStatuses
  <2> QED
    BY <2>1, <2>2 DEF TerminalJobStatuses
<1> QED
  BY <1>1, <1>2, <1>4 DEF QuietRows, ActiveSliceStatuses

LEMMA PollJobIsQuiet ==
    ASSUME RowsTypeOK, RowsInv, PollJob
    PROVE  QuietRows
<1>1. PICK final \in Reconcilings(step) :
          /\ Reconciles(step, slice, final)
          /\ slice' = SlicesFollow(step, final, slice)
          /\ job' = UpdateOversight(job, final, approved)
          /\ token' = token
  BY DEF PollJob
<1>2. \A x \in Slices : \/ slice'[x] = slice[x]
                        \/ slice[x] = "pending" /\ slice'[x] \in {"blocked", "skipped"}
  BY <1>1, ReconciledRows
<1>3. job' \in {job, "waiting_oversight"}
  BY <1>1 DEF UpdateOversight
<1> QED
  BY <1>1, <1>2, <1>3 DEF QuietRows, ActiveSliceStatuses

LEMMA StoppedSlicesAreQuiet ==
    ASSUME CancelIdleJob \/ FinalizeAbandonedCancellation
           \/ (\E r \in Runners : UnassignNotStarted(r))
           \/ ApproveOversight \/ (\E S : RefreshAbandoned(S)) \/ UNCHANGED rowVars
    PROVE  QuietRows
<1>1. CASE CancelIdleJob
  BY <1>1 DEF CancelIdleJob, QuietRows, ActiveSliceStatuses
<1>2. CASE FinalizeAbandonedCancellation
  BY <1>2 DEF FinalizeAbandonedCancellation, QuietRows, ActiveSliceStatuses
<1>3. CASE \E r \in Runners : UnassignNotStarted(r)
  BY <1>3 DEF UnassignNotStarted, QuietRows, ActiveSliceStatuses
<1>4. CASE ApproveOversight
  BY <1>4 DEF ApproveOversight, QuietRows
<1>5. CASE (\E S : RefreshAbandoned(S)) \/ UNCHANGED rowVars
  BY <1>5 DEF RefreshAbandoned, QuietRows, rowVars
<1> QED
  BY <1>1, <1>2, <1>3, <1>4, <1>5

-----------------------------------------------------------------------------

\* A step that hands out nothing, starts nothing and reports nothing.
LEMMA QuietStepSpares ==
    ASSUME TypeInv, SpareInv,
           \A x \in Slices : Target[x] # Local /\ slice'[x] \in ActiveSliceStatuses =>
               slice'[x] = slice[x] /\ token'[x] = token[x],
           job' = "cancelling" => job = "cancelling" \/ silent' = AllRunners,
           workSlice' = workSlice,
           \A t \in Tokens :
               \/ work'[t] = work[t]
               \/ work[t] = "preparing" /\ work'[t] = "held"
               \/ work[t] # "free" /\ work'[t] \in {"spooled", "gone"},
           local' \in Slices => Target[local'] = Local,
           \A r \in Runners : r \in silent => r \in silent',
           \A r \in Runners : reported'[r] = reported[r],
           justStarted \subseteq justStarted'
    PROVE  SpareInv'
<1>1. RemoteAssignments /\ PreparedSlicesWait /\ ExecutionIsReported /\ StopFindsAllCounted
  BY DEF SpareInv
<1>2. \A t \in Tokens : work[t] # "free" =>
          workSlice[t] \in Slices /\ Target[workSlice[t]] \in Runners
            /\ Target[workSlice[t]] # Local
  BY <1>1, RowsAssumption DEF RemoteAssignments, TypeInv, IssuedTokensHaveSlices
<1>3. \A t \in Tokens : work'[t] # "free" => work[t] # "free"
  OBVIOUS
<1>4. RemoteAssignments'
  BY <1>2, <1>3 DEF RemoteAssignments
<1>5. PreparedSlicesWait'
  <2> SUFFICES ASSUME NEW t \in Tokens, work'[t] = "preparing"
               PROVE  /\ slice'[workSlice[t]] # "running"
                      /\ slice'[workSlice[t]] = "assigned" => token'[workSlice[t]] = t
    BY DEF PreparedSlicesWait
  <2>1. work[t] = "preparing"
    OBVIOUS
  <2> QED
    BY <1>1, <1>2, <2>1 DEF PreparedSlicesWait, ActiveSliceStatuses
<1>6. ExecutionIsReported'
  <2> SUFFICES ASSUME NEW t \in Tokens, work'[t] = "executing"
               PROVE  workSlice[t] \in justStarted' \/ reported'[Target[workSlice[t]]] > 0
    BY DEF ExecutionIsReported
  <2>1. work[t] = "executing"
    OBVIOUS
  <2> QED
    BY <1>1, <1>2, <2>1 DEF ExecutionIsReported
<1>7. StopFindsAllCounted'
  <2> SUFFICES ASSUME job' = "cancelling", NEW t \in Tokens, work'[t] # "free",
                      Target[workSlice[t]] \notin silent'
               PROVE  /\ work'[t] # "preparing"
                      /\ work'[t] \in {"held", "executing"} =>
                           reported'[Target[workSlice[t]]] > 0
    BY DEF StopFindsAllCounted
  <2>1. job = "cancelling" /\ Target[workSlice[t]] \notin silent
    BY <1>2, <1>3 DEF AllRunners
  <2>2. /\ work[t] # "preparing"
        /\ work[t] \in {"held", "executing"} => reported[Target[workSlice[t]]] > 0
    BY <1>1, <1>3, <2>1 DEF StopFindsAllCounted
  <2> QED
    BY <1>2, <1>3, <2>2
<1> QED
  BY <1>4, <1>5, <1>6, <1>7 DEF SpareInv

\* A claim is answered only when no answer to an earlier one is under way.
LEMMA ClaimSpares ==
    ASSUME TypeInv, SpareInv, NEW x \in Slices, NEW t \in Tokens, ClaimSlice(x, t)
    PROVE  SpareInv'
<1>1. /\ Target[x] # Local
      /\ \A u \in IssuedTo(Target[x]) : work[u] # "preparing"
      /\ work[t] = "free"
      /\ work' = [work EXCEPT ![t] = "preparing"]
      /\ workSlice' = [workSlice EXCEPT ![t] = x]
      /\ token' = [token EXCEPT ![x] = t]
      /\ UNCHANGED <<reported, justStarted, local>>
      /\ ClaimRemoteSlice(x, t)
  BY DEF ClaimSlice, ClaimRemoteSlice, runnerVars
<1>2. /\ slice'[x] = "assigned"
      /\ \A y \in Slices \ {x} :
           \/ slice'[y] = slice[y]
           \/ slice[y] = "pending" /\ slice'[y] \in {"blocked", "skipped"}
  BY <1>1, TypesOfRows, ClaimRemoteSliceKeepsRows
<1>3. job' = "running"
  BY <1>1 DEF ClaimRemoteSlice, Dispatch
<1>4. /\ token'[x] = t /\ \A y \in Slices \ {x} : token'[y] = token[y]
      /\ work'[t] = "preparing" /\ workSlice'[t] = x
      /\ \A u \in Tokens \ {t} : work'[u] = work[u] /\ workSlice'[u] = workSlice[u]
  BY <1>1 DEF TypeInv, TypeOK, RowsTypeOK
<1>5. RemoteAssignments'
  BY <1>1, <1>4 DEF SpareInv, RemoteAssignments
<1>6. PreparedSlicesWait'
  <2> SUFFICES ASSUME NEW u \in Tokens, work'[u] = "preparing"
               PROVE  /\ slice'[workSlice'[u]] # "running"
                      /\ slice'[workSlice'[u]] = "assigned" => token'[workSlice'[u]] = u
    BY DEF PreparedSlicesWait
  <2>1. CASE u = t
    BY <1>2, <1>4, <2>1
  <2>2. CASE u # t
    <3>1. work[u] = "preparing" /\ workSlice'[u] = workSlice[u]
      BY <1>4, <2>2
    <3>2. workSlice[u] \in Slices /\ workSlice[u] # x
      BY <1>1, <3>1 DEF IssuedTo, TypeInv, IssuedTokensHaveSlices
    <3> QED
      BY <1>2, <1>4, <3>1, <3>2 DEF SpareInv, PreparedSlicesWait
  <2> QED
    BY <2>1, <2>2
<1>7. ExecutionIsReported'
  <2> SUFFICES ASSUME NEW u \in Tokens, work'[u] = "executing"
               PROVE  workSlice'[u] \in justStarted' \/ reported'[Target[workSlice'[u]]] > 0
    BY DEF ExecutionIsReported
  <2>1. u # t
    BY <1>4
  <2> QED
    BY <1>1, <1>4, <2>1 DEF SpareInv, ExecutionIsReported
<1>8. StopFindsAllCounted'
  BY <1>3 DEF StopFindsAllCounted
<1> QED
  BY <1>5, <1>6, <1>7, <1>8 DEF SpareInv

\* The worker that starts a slice holds its assignment, so that no other answer
\* for the slice is under way.
LEMMA StartSpares ==
    ASSUME TypeInv, SpareInv, NEW t \in Tokens, StartExecution(t) \/ LoseStartAnswer(t)
    PROVE  SpareInv'
<1> DEFINE x == workSlice[t]
<1>1. /\ work[t] = "held" /\ x \in Slices /\ token[x] = t
      /\ slice[x] \in {"assigned", "running"}
      /\ slice' = [slice EXCEPT ![x] = "running"]
      /\ \E phase \in {"executing", "spooled"} : work' = [work EXCEPT ![t] = phase]
      /\ justStarted' = justStarted \cup {x}
      /\ UNCHANGED <<job, token, workSlice, reported, silent, local>>
  BY DEF StartExecution, LoseStartAnswer, StartRemoteSlice, StartAccepted, AssignmentMatches,
         TypeInv, IssuedTokensHaveSlices
<1> HIDE DEF x
<1>2. /\ slice'[x] = "running" /\ \A y \in Slices \ {x} : slice'[y] = slice[y]
      /\ work'[t] \in {"executing", "spooled"}
      /\ \A u \in Tokens \ {t} : work'[u] = work[u]
  BY <1>1 DEF TypeInv, TypeOK, RowsTypeOK
<1>3. RemoteAssignments'
  BY <1>1, <1>2 DEF SpareInv, RemoteAssignments
<1>4. PreparedSlicesWait'
  <2> SUFFICES ASSUME NEW u \in Tokens, work'[u] = "preparing"
               PROVE  /\ slice'[workSlice[u]] # "running"
                      /\ slice'[workSlice[u]] = "assigned" => token'[workSlice[u]] = u
    BY <1>1 DEF PreparedSlicesWait
  <2>1. u # t /\ work[u] = "preparing"
    BY <1>2
  <2>2. workSlice[u] \in Slices
    BY <2>1 DEF TypeInv, IssuedTokensHaveSlices
  <2>3. workSlice[u] # x
    BY <1>1, <2>1 DEF SpareInv, PreparedSlicesWait
  <2> QED
    BY <1>1, <1>2, <2>1, <2>2, <2>3 DEF SpareInv, PreparedSlicesWait
<1>5. ExecutionIsReported'
  BY <1>1, <1>2 DEF SpareInv, ExecutionIsReported, x
<1>6. StopFindsAllCounted'
  BY <1>1, <1>2 DEF SpareInv, StopFindsAllCounted
<1> QED
  BY <1>3, <1>4, <1>5, <1>6 DEF SpareInv

\* A heartbeat counts every worker that holds or executes a slice.
LEMMA HeartbeatSpares ==
    ASSUME TypeInv, SpareInv, NEW r \in Runners, RunnerHeartbeat(r)
    PROVE  SpareInv'
<1>1. /\ reported' = [reported EXCEPT ![r] = Cardinality(ActiveWorkers(r))]
      /\ silent' = IF \E t \in IssuedTo(r) : work[t] = "preparing"
                   THEN silent ELSE silent \ {r}
      /\ justStarted' = {x \in justStarted : Target[x] # r}
      /\ UNCHANGED <<job, slice, token, work, workSlice, local>>
  BY DEF RunnerHeartbeat, rowVars, workVars
<1>2. /\ reported'[r] = Cardinality(ActiveWorkers(r))
      /\ \A q \in AllRunners \ {r} : reported'[q] = reported[q]
  BY <1>1 DEF TypeInv, TypeOK, AllRunners
<1>3. ASSUME NEW t \in ActiveWorkers(r)
      PROVE  reported'[r] > 0
  <2>1. IsFiniteSet(ActiveWorkers(r))
    BY EnvironmentAssumption, FS_Subset DEF ActiveWorkers, IssuedTo
  <2>2. Cardinality(ActiveWorkers(r)) \in Nat /\ Cardinality(ActiveWorkers(r)) # 0
    BY <1>3, <2>1, FS_CardinalityType, FS_EmptySet
  <2> QED
    BY <1>2, <2>2
<1>4. \A t \in Tokens : work[t] # "free" =>
          workSlice[t] \in Slices /\ Target[workSlice[t]] \in AllRunners
  BY TargetFacts DEF TypeInv, IssuedTokensHaveSlices
<1>5. RemoteAssignments' /\ PreparedSlicesWait'
  BY <1>1 DEF SpareInv, RemoteAssignments, PreparedSlicesWait
<1>6. ExecutionIsReported'
  <2> SUFFICES ASSUME NEW t \in Tokens, work[t] = "executing"
               PROVE  workSlice[t] \in justStarted' \/ reported'[Target[workSlice[t]]] > 0
    BY <1>1 DEF ExecutionIsReported
  <2>1. CASE Target[workSlice[t]] = r
    BY <1>3, <2>1 DEF ActiveWorkers, IssuedTo
  <2>2. CASE Target[workSlice[t]] # r
    BY <1>1, <1>2, <1>4, <2>2 DEF SpareInv, ExecutionIsReported
  <2> QED
    BY <2>1, <2>2
<1>7. StopFindsAllCounted'
  <2> SUFFICES ASSUME job = "cancelling", NEW t \in Tokens, work[t] # "free",
                      Target[workSlice[t]] \notin silent'
               PROVE  /\ work[t] # "preparing"
                      /\ work[t] \in {"held", "executing"} =>
                           reported'[Target[workSlice[t]]] > 0
    BY <1>1 DEF StopFindsAllCounted
  <2>1. CASE Target[workSlice[t]] = r
    <3>1. t \in IssuedTo(r)
      BY <2>1 DEF IssuedTo
    <3>2. work[t] # "preparing"
      BY <1>1, <2>1, <3>1 DEF SpareInv, StopFindsAllCounted
    <3> QED
      BY <1>3, <2>1, <3>1, <3>2 DEF ActiveWorkers
  <2>2. CASE Target[workSlice[t]] # r
    <3>1. Target[workSlice[t]] \notin silent
      BY <1>1, <2>2
    <3> QED
      BY <1>2, <1>4, <2>2, <3>1 DEF SpareInv, StopFindsAllCounted
  <2> QED
    BY <2>1, <2>2
<1> QED
  BY <1>5, <1>6, <1>7 DEF SpareInv

LEMMA RemoteStepSpares ==
    ASSUME TypeInv, SpareInv, RemoteStep
    PROVE  SpareInv'
<1>1. RowsTypeOK /\ RowsInv /\ work \in [Tokens -> WorkPhases]
      /\ \A t \in Tokens : work[t] # "free" => workSlice[t] \in Slices
  BY TypesOfRows DEF TypeInv, TypeOK, IssuedTokensHaveSlices
<1>2. RemoteAssignments
  BY DEF SpareInv
<1>3. ASSUME NEW t \in Tokens, ArtifactPreparationFails(t)
      PROVE  SpareInv'
  <2>1. /\ work[t] = "preparing" /\ workSlice[t] \in Slices
        /\ slice' = [slice EXCEPT ![workSlice[t]] = "failed"]
        /\ token' = [token EXCEPT ![workSlice[t]] = NoToken]
        /\ work' = [work EXCEPT ![t] = "gone"]
        /\ UNCHANGED <<job, workSlice, local, silent, reported, justStarted>>
    BY <1>1, <1>3 DEF ArtifactPreparationFails, FailClaimedSlice, runnerVars
  <2>2. \A y \in Slices : slice'[y] \in ActiveSliceStatuses =>
            slice'[y] = slice[y] /\ token'[y] = token[y]
    BY <1>1, <2>1 DEF ActiveSliceStatuses, RowsTypeOK
  <2> QED
    BY <1>1, <1>2, <2>1, <2>2, QuietStepSpares DEF RemoteAssignments
<1>4. ASSUME NEW t \in Tokens,
             ReceiveAssignment(t) \/ LoseAssignment(t) \/ AbandonAssignment(t)
               \/ \E status \in FinalSliceStatuses : FinishExecution(t, status)
      PROVE  SpareInv'
  <2>1. /\ UNCHANGED <<job, slice, token, workSlice, local, silent, reported, justStarted>>
        /\ work[t] # "free"
        /\ \/ work[t] = "preparing" /\ work' = [work EXCEPT ![t] = "held"]
           \/ work' = [work EXCEPT ![t] = "gone"]
           \/ work' = [work EXCEPT ![t] = "spooled"]
    BY <1>4 DEF ReceiveAssignment, LoseAssignment, AbandonAssignment, FinishExecution, rowVars,
                runnerVars
  <2> QED
    BY <1>1, <1>2, <2>1, QuietStepSpares DEF RemoteAssignments
<1>5. ASSUME NEW t \in Tokens, DeliverCompletion(t)
      PROVE  SpareInv'
  <2>1. /\ work[t] = "spooled" /\ workSlice[t] \in Slices /\ result[t] \in FinalSliceStatuses
        /\ \/ UNCHANGED rowVars
           \/ /\ CompletionAccepted(workSlice[t], t)
              /\ CompleteSlice(workSlice[t], result[t], "server")
        /\ work' = work \/ work' = [work EXCEPT ![t] = "gone"]
        /\ UNCHANGED <<workSlice, local, silent, reported, justStarted>>
    BY <1>1, <1>5 DEF DeliverCompletion, runnerVars, TypeInv, TypeOK
  <2>2. CompletionAccepted(workSlice[t], t) => slice[workSlice[t]] \in ActiveSliceStatuses
    BY DEF CompletionAccepted, ActiveSliceStatuses
  <2>3. QuietRows
    BY <1>1, <2>1, <2>2, CompleteSliceIsQuiet, StoppedSlicesAreQuiet
  <2> QED
    BY <1>1, <1>2, <2>1, <2>3, QuietStepSpares DEF QuietRows, RemoteAssignments
<1>6. ASSUME NEW r \in Runners, CrashRunner(r)
      PROVE  SpareInv'
  <2>1. /\ UNCHANGED <<job, slice, token, workSlice, local, silent, reported, justStarted>>
        /\ \A t \in Tokens : \/ work'[t] = work[t]
                             \/ work[t] # "free" /\ work'[t] = "gone"
    BY <1>6 DEF CrashRunner, rowVars, runnerVars, IssuedTo
  <2> QED
    BY <1>2, <2>1, QuietStepSpares DEF RemoteAssignments
<1>7. ASSUME \/ \E r \in Runners : RestartRunner(r)
             \/ \E r \in AllRunners : HeartbeatAges(r)
      PROVE  SpareInv'
  <2>1. UNCHANGED <<job, slice, token, work, workSlice, local, silent, reported, justStarted>>
    BY <1>7 DEF RestartRunner, HeartbeatAges, rowVars, runnerVars, workVars
  <2> QED
    BY <1>2, <2>1, QuietStepSpares DEF RemoteAssignments
<1> QED
  BY <1>3, <1>4, <1>5, <1>6, <1>7, ClaimSpares, StartSpares, HeartbeatSpares DEF RemoteStep

LEMMA ServerStepSpares ==
    ASSUME TypeInv, SpareInv, ServerStep
    PROVE  SpareInv'
<1>1. RowsTypeOK /\ RowsInv
  BY TypesOfRows
<1>2. RemoteAssignments
  BY DEF SpareInv
<1>3. ASSUME UNCHANGED <<workVars, local, reported, silent, justStarted>>, QuietRows
      PROVE  SpareInv'
  BY <1>2, <1>3, QuietStepSpares DEF QuietRows, workVars, RemoteAssignments
<1>4. CASE PollWithoutClaim
  BY <1>1, <1>3, <1>4, PollJobIsQuiet DEF PollWithoutClaim, runnerVars
<1>5. ASSUME NEW x \in Slices, EnvironmentOutOfDate(x)
      PROVE  SpareInv'
  BY <1>1, <1>3, <1>5, FailPendingSliceIsQuiet DEF EnvironmentOutOfDate, runnerVars
<1>6. ASSUME NEW x \in Slices, RecoverLostSlice(x) \/ RecoverStaleSlice(x)
      PROVE  SpareInv'
  BY <1>1, <1>3, <1>6, MarkLostSliceIsQuiet DEF RecoverLostSlice, RecoverStaleSlice, runnerVars
<1>7. CASE \/ RecoverStaleCancelling
           \/ ContinueJob
           \/ CancelJob /\ CancelIdleJob
           \/ \E r \in Runners : DrainRunner(r) \/ ReleaseDrain(r)
  <2>1. QuietRows
    BY <1>7, StoppedSlicesAreQuiet
       DEF RecoverStaleCancelling, ContinueJob, DrainRunner, ReleaseDrain
  <2>2. UNCHANGED <<workVars, local, reported, silent, justStarted>>
    BY <1>7 DEF RecoverStaleCancelling, ContinueJob, CancelJob, CancelIdleJob, CancelRunningJob,
                DrainRunner, ReleaseDrain, runnerVars
  <2> QED
    BY <1>3, <2>1, <2>2
<1>8. CASE CancelJob /\ CancelRunningJob
  <2>1. /\ \A x \in Slices : slice'[x] = slice[x] \/ slice'[x] = "cancelled"
        /\ token' = token
        /\ UNCHANGED <<workVars, local, reported, justStarted>>
        /\ silent' = AllRunners
    BY <1>8 DEF CancelJob, CancelIdleJob, CancelRunningJob
  <2> QED
    BY <1>2, <2>1, QuietStepSpares DEF workVars, ActiveSliceStatuses, AllRunners, RemoteAssignments
<1>9. ASSUME NEW s \in Steps, RefreshInventories(s)
      PROVE  SpareInv'
  <2>1. RefreshFails(s) \/ \E plan \in SUBSET Slices : RefreshSucceeds(s, plan)
    BY <1>9 DEF RefreshInventories, Plans
  <2> QED
    BY <1>1, <1>3, <1>9, <2>1, RefreshIsQuiet DEF RefreshInventories, runnerVars
<1>10. ASSUME NEW s \in Steps, RefreshCrashes(s)
       PROVE  SpareInv'
  BY <1>3, <1>10, StoppedSlicesAreQuiet DEF RefreshCrashes, runnerVars
<1> QED
  BY <1>4, <1>5, <1>6, <1>7, <1>8, <1>9, <1>10 DEF ServerStep, CancelJob

LEMMA LocalStepSpares ==
    ASSUME TypeInv, SpareInv, LocalStep
    PROVE  SpareInv'
<1>1. RowsTypeOK /\ RowsInv
  BY TypesOfRows
<1>2. RemoteAssignments
  BY DEF SpareInv
<1>3. ASSUME QuietRows, UNCHANGED <<workVars, justStarted>>,
             local' \in {local, "idle", "down", "recovering"},
             \A r \in Runners : r \in silent => r \in silent',
             \A r \in Runners : reported'[r] = reported[r]
      PROVE  SpareInv'
  <2>1. local' \in Slices => Target[local'] = Local
    BY <1>2, <1>3, EnvironmentAssumption DEF RemoteAssignments
  <2> QED
    BY <1>3, <2>1, QuietStepSpares DEF QuietRows, workVars
<1>4. ASSUME NEW x \in Slices, ClaimLocalSlice(x)
      PROVE  SpareInv'
  <2>1. /\ StartLocalSlice(x) /\ Target[x] = Local /\ local' = x
        /\ UNCHANGED <<token, work, workSlice, silent, reported, justStarted>>
        /\ job' = "running"
    BY <1>4 DEF ClaimLocalSlice, StartLocalSlice, Dispatch, runnerVars, workVars
  <2>2. \A y \in Slices : Target[y] # Local /\ slice'[y] \in ActiveSliceStatuses =>
            slice'[y] = slice[y]
    BY <1>1, <2>1, StartLocalSliceKeepsRows DEF ActiveSliceStatuses
  <2> QED
    BY <2>1, <2>2, QuietStepSpares
<1>5. ASSUME NEW x \in Slices, RecoverLocalSlice(x)
      PROVE  SpareInv'
  <2>1. /\ slice[x] \in ActiveSliceStatuses
        /\ \E status \in FinalSliceStatuses : CompleteSlice(x, status, "local")
    BY <1>5 DEF RecoverLocalSlice, OrphanedLocalSlices, ActiveSliceStatuses, FinalSliceStatuses
  <2> QED
    BY <1>1, <1>3, <1>5, <2>1, CompleteSliceIsQuiet DEF RecoverLocalSlice, runnerVars
<1>6. ASSUME NEW status \in FinalSliceStatuses, FinishLocalSlice(status)
      PROVE  SpareInv'
  <2>1. QuietRows
    <3>1. CASE slice[local] = "running"
      BY <1>1, <1>6, <3>1, CompleteSliceIsQuiet DEF FinishLocalSlice, ActiveSliceStatuses
    <3>2. CASE slice[local] # "running"
      BY <1>6, <3>2, StoppedSlicesAreQuiet DEF FinishLocalSlice
    <3> QED
      BY <3>1, <3>2
  <2> QED
    BY <1>3, <1>6, <2>1 DEF FinishLocalSlice, runnerVars
<1>7. ASSUME LocalHeartbeat \/ RestartLocalRunner
      PROVE  SpareInv'
  <2>1. QuietRows
    BY <1>7, StoppedSlicesAreQuiet DEF LocalHeartbeat, RestartLocalRunner
  <2>2. /\ UNCHANGED <<workVars, justStarted>>
        /\ local' \in {local, "idle", "down", "recovering"}
        /\ silent' = silent \ {Local}
        /\ \E n \in Nat : reported' = [reported EXCEPT ![Local] = n]
    BY <1>7 DEF LocalHeartbeat, RestartLocalRunner
  <2>3. \A r \in Runners : /\ r \in silent => r \in silent'
                           /\ reported'[r] = reported[r]
    BY <2>2, RowsAssumption DEF TypeInv, TypeOK, AllRunners
  <2> QED
    BY <1>3, <2>1, <2>2, <2>3
<1>8. ASSUME CrashLocalRunner \/ EndLocalRecovery
      PROVE  SpareInv'
  <2>1. QuietRows
    BY <1>8, StoppedSlicesAreQuiet DEF CrashLocalRunner, EndLocalRecovery
  <2> QED
    BY <1>3, <1>8, <2>1 DEF CrashLocalRunner, EndLocalRecovery, runnerVars
<1> QED
  BY <1>4, <1>5, <1>6, <1>7, <1>8 DEF LocalStep

-----------------------------------------------------------------------------

\* Worker t executes slice x, as the rows say, on a runner that is heard of.
LiveWork(t, x) ==
    /\ workSlice[t] = x /\ work[t] = "executing"
    /\ slice[x] = "running" /\ token[x] = t
    /\ age[Target[x]] # "offline"

LEMMA RecoveriesSpare ==
    ASSUME TypeInv, SpareInv, NEW t \in Tokens, NEW x \in Slices, LiveWork(t, x)
    PROVE  /\ ~RecoverLostSlice(x)
           /\ ~RecoverStaleSlice(x)
           /\ ~RecoverStaleCancelling
<1>1. /\ workSlice[t] = x /\ work[t] = "executing" /\ slice[x] = "running"
      /\ age[Target[x]] # "offline"
  BY DEF LiveWork
<1>2. x \in justStarted \/ reported[Target[x]] > 0
  BY <1>1 DEF SpareInv, ExecutionIsReported
<1>3. ~RecoverLostSlice(x)
  BY <1>1 DEF RecoverLostSlice, Offline
<1>4. ~RecoverStaleSlice(x)
  BY <1>2 DEF RecoverStaleSlice
<1>5. ASSUME RecoverStaleCancelling
      PROVE  FALSE
  <2>1. /\ job = "cancelling"
        /\ \A r \in silent : age[r] = "offline"
        /\ ~ReportsActiveWork(Target[x])
    BY <1>1, <1>5 DEF RecoverStaleCancelling, FinalizeAbandonedCancellation, JobMayStillBeExecuting
  <2>2. reported[Target[x]] > 0
    BY <1>1, <2>1 DEF SpareInv, StopFindsAllCounted
  <2> QED
    BY <1>1, <2>1, <2>2 DEF ReportsActiveWork, Offline
<1> QED
  BY <1>3, <1>4, <1>5

\* The transactions of a step of somebody else: slice y ends, others may follow
\* while they are pending.
LEMMA OthersSpare ==
    ASSUME TypeInv, NEW x \in Slices, slice[x] = "running", NEW y \in Slices, y # x,
           \/ MarkLostSlice(y)
           \/ FailPendingSlice(y)
           \/ slice[y] \in ActiveSliceStatuses
              /\ \E status \in FinalSliceStatuses, process \in {"server", "local"} :
                     CompleteSlice(y, status, process)
           \/ \E t \in Tokens : ClaimRemoteSlice(y, t)
           \/ StartLocalSlice(y)
    PROVE  slice'[x] = "running"
<1>1. \/ slice'[x] = slice[x]
      \/ slice[x] = "pending"
  BY TypesOfRows, MarkLostSliceKeepsRows, FailPendingSliceKeepsRows, CompleteSliceKeepsRows,
     ClaimRemoteSliceKeepsRows, StartLocalSliceKeepsRows
<1> QED
  BY <1>1

LEMMA PendingIsSpared ==
    ASSUME TypeInv, NEW x \in Slices, slice[x] = "running",
           \/ PollJob \/ CancelIdleJob \/ CancelRunningJob \/ ApproveOversight
           \/ \E r \in Runners : UnassignNotStarted(r)
           \/ \E t \in Tokens, y \in Slices : StartRemoteSlice(y, t)
           \/ \E s \in Steps : RefreshFails(s)
           \/ \E s \in Steps, plan \in SUBSET Slices : RefreshSucceeds(s, plan)
           \/ \E S : RefreshAbandoned(S)
           \/ UNCHANGED rowVars
    PROVE  slice'[x] = "running"
<1> USE TypesOfRows
<1>1. CASE PollJob
  <2>1. PICK final \in Reconcilings(step) :
            Reconciles(step, slice, final) /\ slice' = SlicesFollow(step, final, slice)
    BY <1>1 DEF PollJob
  <2>2. slice'[x] = slice[x] \/ slice[x] = "pending"
    BY <2>1, ReconciledRows
  <2> QED
    BY <2>2
<1>2. CASE CancelIdleJob \/ CancelRunningJob \/ ApproveOversight
  BY <1>2 DEF CancelIdleJob, CancelRunningJob, ApproveOversight
<1>3. CASE \E r \in Runners : UnassignNotStarted(r)
  BY <1>3 DEF UnassignNotStarted
<1>4. CASE \E t \in Tokens, y \in Slices : StartRemoteSlice(y, t)
  BY <1>4 DEF StartRemoteSlice, RowsTypeOK
<1>5. CASE \/ \E s \in Steps : RefreshFails(s)
           \/ \E s \in Steps, plan \in SUBSET Slices : RefreshSucceeds(s, plan)
  <2>1. slice'[x] = slice[x] \/ slice[x] \in {"pending", "absent"}
    BY <1>5, RefreshFailsKeepsRows, RefreshSucceedsKeepsRows
  <2> QED
    BY <2>1
<1>6. CASE (\E S : RefreshAbandoned(S)) \/ UNCHANGED rowVars
  BY <1>6 DEF RefreshAbandoned, rowVars
<1> QED
  BY <1>1, <1>2, <1>3, <1>4, <1>5, <1>6

LEMMA StepSparesLiveWork ==
    ASSUME TypeInv, SpareInv, [Next]_vars, NEW t \in Tokens, NEW x \in Slices,
           LiveWork(t, x), work'[t] = "executing"
    PROVE  slice'[x] = "running"
<1>1. /\ workSlice[t] = x /\ work[t] = "executing" /\ slice[x] = "running" /\ token[x] = t
      /\ Target[x] # Local
  BY DEF LiveWork, SpareInv, RemoteAssignments
<1>2. \A u \in Tokens : work[u] # "free" => workSlice[u] \in Slices
  BY DEF TypeInv, IssuedTokensHaveSlices
<1>3. CASE RemoteStep
  <2>1. ASSUME NEW y \in Slices, NEW u \in Tokens, ClaimSlice(y, u)
        PROVE  slice'[x] = "running"
    <3>1. ClaimRemoteSlice(y, u) /\ slice[y] = "pending"
      BY <2>1 DEF ClaimSlice, ClaimRemoteSlice, Dispatch
    <3> QED
      BY <1>1, <3>1, OthersSpare
  <2>2. ASSUME NEW u \in Tokens, ArtifactPreparationFails(u)
        PROVE  slice'[x] = "running"
    <3>1. /\ work[u] = "preparing"
          /\ slice' = [slice EXCEPT ![workSlice[u]] = "failed"]
      BY <2>2 DEF ArtifactPreparationFails, FailClaimedSlice
    <3>2. workSlice[u] # x
      BY <1>1, <3>1 DEF SpareInv, PreparedSlicesWait
    <3> QED
      BY <1>1, <3>1, <3>2, TypesOfRows DEF RowsTypeOK
  <2>3. ASSUME NEW u \in Tokens, DeliverCompletion(u)
        PROVE  slice'[x] = "running"
    <3>1. /\ work[u] = "spooled" /\ workSlice[u] \in Slices /\ result[u] \in FinalSliceStatuses
          /\ \/ UNCHANGED rowVars
             \/ /\ CompletionAccepted(workSlice[u], u)
                /\ CompleteSlice(workSlice[u], result[u], "server")
      BY <1>2, <2>3 DEF DeliverCompletion, TypeInv, TypeOK
    <3>2. CASE UNCHANGED rowVars
      BY <1>1, <3>2 DEF rowVars
    <3>3. CASE CompletionAccepted(workSlice[u], u) /\ CompleteSlice(workSlice[u], result[u], "server")
      <4>1. token[workSlice[u]] = u /\ slice[workSlice[u]] \in ActiveSliceStatuses
        BY <3>3 DEF CompletionAccepted, AssignmentMatches, ActiveSliceStatuses
      <4>2. workSlice[u] # x
        BY <1>1, <3>1, <4>1
      <4> QED
        BY <1>1, <3>1, <3>3, <4>1, <4>2, OthersSpare
    <3> QED
      BY <3>1, <3>2, <3>3
  <2>4. ASSUME NEW u \in Tokens, StartExecution(u) \/ LoseStartAnswer(u)
        PROVE  slice'[x] = "running"
    <3>1. StartRemoteSlice(workSlice[u], u) /\ workSlice[u] \in Slices
      BY <1>2, <2>4 DEF StartExecution, LoseStartAnswer
    <3> QED
      BY <1>1, <3>1, PendingIsSpared
  <2>5. ASSUME \/ \E u \in Tokens :
                    \/ ReceiveAssignment(u) \/ LoseAssignment(u) \/ AbandonAssignment(u)
                    \/ \E status \in FinalSliceStatuses : FinishExecution(u, status)
               \/ \E r \in Runners : CrashRunner(r) \/ RestartRunner(r) \/ RunnerHeartbeat(r)
               \/ \E r \in AllRunners : HeartbeatAges(r)
        PROVE  slice'[x] = "running"
    <3>1. UNCHANGED rowVars
      BY <2>5 DEF ReceiveAssignment, LoseAssignment, AbandonAssignment, FinishExecution,
                  CrashRunner, RestartRunner, RunnerHeartbeat, HeartbeatAges
    <3> QED
      BY <1>1, <3>1 DEF rowVars
  <2> QED
    BY <1>3, <2>1, <2>2, <2>3, <2>4, <2>5 DEF RemoteStep
<1>4. CASE ServerStep
  <2>1. ASSUME PollWithoutClaim \/ CancelJob \/ ContinueJob
               \/ \E r \in Runners : DrainRunner(r) \/ ReleaseDrain(r)
        PROVE  slice'[x] = "running"
    BY <1>1, <2>1, PendingIsSpared
       DEF PollWithoutClaim, CancelJob, ContinueJob, DrainRunner, ReleaseDrain
  <2>2. ASSUME NEW y \in Slices,
               EnvironmentOutOfDate(y) \/ RecoverLostSlice(y) \/ RecoverStaleSlice(y)
        PROVE  slice'[x] = "running"
    <3>1. y # x /\ (FailPendingSlice(y) \/ MarkLostSlice(y))
      BY <1>1, <2>2, RecoveriesSpare
         DEF EnvironmentOutOfDate, FailPendingSlice, RecoverLostSlice, RecoverStaleSlice
    <3> QED
      BY <1>1, <3>1, OthersSpare
  <2>3. ASSUME NEW s \in Steps, RefreshInventories(s) \/ RefreshCrashes(s)
        PROVE  slice'[x] = "running"
    <3>1. \/ RefreshFails(s) \/ \E plan \in SUBSET Slices : RefreshSucceeds(s, plan)
          \/ \E S : RefreshAbandoned(S)
      BY <2>3 DEF RefreshInventories, RefreshCrashes, Plans
    <3> QED
      BY <1>1, <3>1, PendingIsSpared
  <2> QED
    BY <1>4, <2>1, <2>2, <2>3, RecoveriesSpare DEF ServerStep
<1>5. CASE LocalStep
  <2>1. ASSUME NEW y \in Slices, ClaimLocalSlice(y)
        PROVE  slice'[x] = "running"
    <3>1. StartLocalSlice(y) /\ y # x
      BY <1>1, <2>1 DEF ClaimLocalSlice, StartLocalSlice
    <3> QED
      BY <1>1, <3>1, OthersSpare
  <2>2. ASSUME NEW y \in Slices, RecoverLocalSlice(y)
        PROVE  slice'[x] = "running"
    <3>1. /\ slice[y] \in ActiveSliceStatuses /\ Target[y] = Local
          /\ \E status \in FinalSliceStatuses : CompleteSlice(y, status, "local")
      BY <2>2 DEF RecoverLocalSlice, OrphanedLocalSlices, ActiveSliceStatuses, FinalSliceStatuses
    <3> QED
      BY <1>1, <3>1, OthersSpare
  <2>3. ASSUME NEW status \in FinalSliceStatuses, FinishLocalSlice(status)
        PROVE  slice'[x] = "running"
    <3>1. local \in Slices /\ Target[local] = Local
      BY <2>3 DEF FinishLocalSlice, SpareInv, RemoteAssignments
    <3>2. CASE slice[local] = "running"
      BY <1>1, <2>3, <3>1, <3>2, OthersSpare DEF FinishLocalSlice, ActiveSliceStatuses
    <3>3. CASE slice[local] # "running"
      BY <1>1, <2>3, <3>3 DEF FinishLocalSlice, rowVars
    <3> QED
      BY <3>2, <3>3
  <2>4. ASSUME LocalHeartbeat \/ RestartLocalRunner \/ EndLocalRecovery \/ CrashLocalRunner
        PROVE  slice'[x] = "running"
    <3>1. (UNCHANGED rowVars) \/ \E S : RefreshAbandoned(S)
      BY <2>4 DEF LocalHeartbeat, RestartLocalRunner, EndLocalRecovery, CrashLocalRunner
    <3> QED
      BY <1>1, <3>1, PendingIsSpared
  <2> QED
    BY <1>5, <2>1, <2>2, <2>3, <2>4 DEF LocalStep
<1>6. CASE UNCHANGED vars
  BY <1>1, <1>6 DEF vars, rowVars
<1> QED
  BY <1>3, <1>4, <1>5, <1>6 DEF Next

\* No recovery pass, no cancellation and no late answer to a claim ends a slice
\* that a worker executes on a runner that is heard of.
THEOREM LiveWorkIsAlwaysSpared == Spec => LiveWorkIsSpared
<1>1. Init => SpareInv
  BY EnvironmentAssumption DEF Init, RowsInit, SpareInv, RemoteAssignments, PreparedSlicesWait, ExecutionIsReported,
         StopFindsAllCounted
<1>2. TypeInv /\ SpareInv /\ [Next]_vars => SpareInv'
  <2>1. CASE UNCHANGED vars
    <3>1. SpareInv => SpareInv'
      BY <2>1 DEF vars, rowVars, runnerVars, workVars, SpareInv, RemoteAssignments,
           PreparedSlicesWait, ExecutionIsReported, StopFindsAllCounted
    <3> QED
      BY <3>1
  <2> QED
    BY <2>1, RemoteStepSpares, ServerStepSpares, LocalStepSpares DEF Next
<1>3. TypeInv /\ SpareInv /\ [Next]_vars =>
        [\A t \in Tokens :
            LET x == workSlice[t] IN
            /\ work[t] = "executing" /\ work'[t] = "executing"
            /\ slice[x] = "running" /\ token[x] = t
            /\ age[Target[x]] # "offline"
            => slice'[x] = "running"]_vars
  <2> SUFFICES ASSUME TypeInv, SpareInv, [Next]_vars, NEW t \in Tokens,
                      work[t] = "executing", work'[t] = "executing",
                      slice[workSlice[t]] = "running", token[workSlice[t]] = t,
                      age[Target[workSlice[t]]] # "offline"
               PROVE  slice'[workSlice[t]] = "running"
    OBVIOUS
  <2>1. workSlice[t] \in Slices
    BY DEF TypeInv, IssuedTokensHaveSlices
  <2> QED
    BY <2>1, StepSparesLiveWork DEF LiveWork
<1> QED
  BY <1>1, <1>2, <1>3, TypeInvAlways, PTL DEF Spec, LiveWorkIsSpared

=============================================================================

---------------------------- MODULE JobLifecycle ----------------------------
(***************************************************************************)
(* What a Job promises to everything that only looks at its status column  *)
(* (the Jobs page, the API, launch concurrency, Reactions, retention):     *)
(* which status may follow which.  A Job that was asked to stop ends       *)
(* cancelled, a Job that has begun is never queued again, and a Job that   *)
(* has ended stays as it ended.                                            *)
(***************************************************************************)
VARIABLES status,  \* Job.status
          begun    \* Job.started_at is set

Ended == {"successful", "failed", "cancelled"}

Init == status = "queued" /\ begun = FALSE

Begin ==
    /\ status = "queued"
    /\ status' = "running"
    /\ begun' = TRUE

Pause ==
    /\ status \in {"queued", "running"}
    /\ status' = "waiting_oversight"
    /\ UNCHANGED begun

Resume ==
    /\ status = "waiting_oversight"
    /\ status' = IF begun THEN "running" ELSE "queued"
    /\ UNCHANGED begun

AskToStop ==
    /\ status = "running"
    /\ status' = "cancelling"
    /\ UNCHANGED begun

End ==
    /\ \/ status \in {"queued", "running", "waiting_oversight"} /\ status' \in Ended
       \/ status = "cancelling" /\ status' = "cancelled"
    /\ UNCHANGED begun

Next == Begin \/ Pause \/ Resume \/ AskToStop \/ End

Spec == Init /\ [][Next]_<<status, begun>>

=============================================================================

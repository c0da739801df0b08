----------------------------- MODULE Governance -----------------------------
(***************************************************************************)
(* The approval of one Project: technical review and management approval   *)
(* of a captured revision, the staleness that edits cause, exemption, the  *)
(* system-wide switch, and the gate in front of operational launches.      *)
(* Nothing here takes a lock: a request reads, decides what to write, and  *)
(* commits later.  One request at a time may be that slow; all others are  *)
(* one step.                                                               *)
(***************************************************************************)
EXTENDS Integers, Sequences, FiniteSets

CONSTANTS
    Users, Developers, Reviewers, Approvers,
    Configs,        \* what an edit of the Project may make of it
    Commits,        \* what its repository may be at
    Routes,         \* ways to launch, of "package", "schedule", "api", "reaction"
    Refreshing,     \* a step refreshes its repository before each run
    MaxReviews, MaxApprovals, MaxChanges, MaxJobs   \* bounds

ASSUME GovernanceAssumption ==
    /\ Developers \subseteq Users /\ Reviewers \subseteq Users /\ Approvers \subseteq Users
    /\ Routes \subseteq {"package", "schedule", "api", "reaction"}
    /\ Refreshing \in BOOLEAN
    /\ MaxReviews \in Nat /\ MaxApprovals \in Nat /\ MaxChanges \in Nat /\ MaxJobs \in Nat

States == {"development", "review_requested", "technically_approved", "approved", "stale"}
Definitions == Configs \X Commits
Decided == {"approved", "rejected", "stale"}
Statuses == {"pending"} \cup Decided

VARIABLES
    fourEyes,       \* the system-wide switch
    required,       \* project.approval_required
    state,          \* project.approval_state
    definition,     \* the executable definition: configuration and commit
    reviews,        \* technical reviews: revision, requester, reviewer, status
    approvals,      \* management approvals: review, requester, approver, status
    slow,           \* what the slow request will write, if there is one
    launch,         \* the operational launch under way: its route, whether approval
                    \* applies, the definition approved when it passed the gate
    jobs,           \* operational Jobs: route, applies, whether what they run was
                    \* approved, whether it was changed after the gate
    lapses,         \* history: "race", a slow request committed after another;
                    \* "suspended", an edit while the workflow was switched off
    changes         \* counts edits, synchronizations, exemptions and switches

vars == <<fourEyes, required, state, definition, reviews, approvals, slow, launch, jobs,
          lapses, changes>>

\* What a request writes: a set is empty where it leaves the column alone.
NoWrites == [state |-> {}, config |-> {}, required |-> {}, review |-> {}, approval |-> {},
             newReview |-> {}, newApproval |-> {}]
NoRequest == [busy |-> FALSE, crossed |-> FALSE, writes |-> NoWrites]
NoLaunch == [at |-> "rest", route |-> "package", applies |-> FALSE, covered |-> {},
             changed |-> FALSE]

Init ==
    /\ fourEyes = TRUE /\ required = TRUE
    /\ state = "development"
    /\ definition \in Definitions
    /\ reviews = <<>> /\ approvals = <<>>
    /\ slow = NoRequest /\ launch = NoLaunch
    /\ jobs = {} /\ lapses = {} /\ changes = 0

-----------------------------------------------------------------------------
(* The records.                                                            *)

With(rows, status) == {i \in DOMAIN rows : rows[i].status = status}
Latest(ids) == CHOOSE i \in ids : \A j \in ids : j <= i

Revision(approval) == reviews[approval.review].revision

\* The definition that the latest of these approvals approved, in a set.
ApprovedRevision ==
    LET done == With(approvals, "approved")
    IN IF done = {} THEN {} ELSE {Revision(approvals[Latest(done)])}

\* Mutant: the gate trusts the state of the Project.
GateIsOpen_State == fourEyes /\ required => state = "approved"

\* project_operational_approval_error
GateIsOpen ==
    fourEyes /\ required => state = "approved" /\ definition \in ApprovedRevision

-----------------------------------------------------------------------------
(* The requests, each as the set of what it may write: none if refused. A *)
(* column that is given the value that was read is not written.           *)

Stale(ids) == {<<i, "stale">> : i \in ids}

\* refresh_project_review_staleness, then request_project_review.  A revision
\* takes the next number of the Project.
ReviewRequests(u, v) ==
    LET pending == With(reviews, "pending")
        outdated == {i \in pending : reviews[i].revision # definition} IN
    IF /\ fourEyes /\ required
       /\ u \in Developers /\ v \in Reviewers /\ u # v
       /\ pending = {} \/ Latest(pending) \in outdated
    THEN {[NoWrites EXCEPT
              !.state = {"review_requested"} \ (IF pending = {} THEN {state} ELSE {}),
              !.review = Stale(pending),
              !.newReview = {<<Len(reviews) + 1,
                  [revision |-> definition, requester |-> u, reviewer |-> v,
                   status |-> "pending"]>>}]}
    ELSE {}

Verdict(verdict, good) ==
    (IF verdict = "approved" THEN {good} ELSE {"development"}) \ {state}

\* decide_project_review
ReviewDecisions(i, u, verdict) ==
    LET r == reviews[i] IN
    IF /\ fourEyes /\ required
       /\ r.status = "pending" /\ u = r.reviewer /\ u # r.requester /\ u \in Reviewers
    THEN IF r.revision # definition
         THEN {[NoWrites EXCEPT !.review = Stale({i}), !.state = {"stale"} \ {state}]}
         ELSE {[NoWrites EXCEPT !.review = {<<i, verdict>>},
                                !.state = Verdict(verdict, "technically_approved")]}
    ELSE {}

\* Mutant: the technical reviewer may be asked to approve as well.
ApprovalRequests_SamePerson(u, v) ==
    LET reviewed == With(reviews, "approved") IN
    IF /\ fourEyes /\ required
       /\ state = "technically_approved"
       /\ u \in Developers /\ v \in Approvers /\ u # v
       /\ reviewed # {} /\ reviews[Latest(reviewed)].revision = definition
       /\ With(approvals, "pending") = {}
    THEN {[NoWrites EXCEPT !.newApproval =
              {[review |-> Latest(reviewed), requester |-> u, approver |-> v,
                status |-> "pending"]}]}
    ELSE {}

\* request_project_management_approval
ApprovalRequests(u, v) ==
    LET reviewed == With(reviews, "approved") IN
    IF /\ fourEyes /\ required
       /\ state = "technically_approved"
       /\ u \in Developers /\ v \in Approvers /\ u # v
       /\ reviewed # {} /\ reviews[Latest(reviewed)].revision = definition
       /\ v # reviews[Latest(reviewed)].reviewer
       /\ With(approvals, "pending") = {}
    THEN {[NoWrites EXCEPT !.newApproval =
              {[review |-> Latest(reviewed), requester |-> u, approver |-> v,
                status |-> "pending"]}]}
    ELSE {}

\* decide_project_management_approval: the approval_state is not looked at.
ApprovalDecisions(i, u, verdict) ==
    LET a == approvals[i] IN
    IF /\ fourEyes /\ required
       /\ a.status = "pending" /\ u = a.approver /\ u # a.requester
       /\ u # reviews[a.review].reviewer /\ u \in Approvers
    THEN IF Revision(a) # definition
         THEN {[NoWrites EXCEPT !.approval = Stale({i}), !.state = {"stale"} \ {state}]}
         ELSE {[NoWrites EXCEPT !.approval = {<<i, verdict>>},
                                !.state = Verdict(verdict, "approved")]}
    ELSE {}

\* The revision that the state of the Project rests on, and the decisions that
\* an edit away from it closes.
SupportOf ==
    LET reviewing == With(reviews, "pending")
        reviewed == With(reviews, "approved")
        approving == With(approvals, "pending") IN
    CASE state = "review_requested" ->
            [revision |-> {reviews[i].revision : i \in {j \in reviewing : j = Latest(reviewing)}},
             review |-> {j \in reviewing : j = Latest(reviewing)}, approval |-> {}]
      [] state = "technically_approved" /\ approving # {} ->
            [revision |-> {Revision(approvals[Latest(approving)])},
             review |-> {}, approval |-> {Latest(approving)}]
      [] state = "technically_approved" /\ approving = {} ->
            [revision |-> {reviews[i].revision : i \in {j \in reviewed : j = Latest(reviewed)}},
             review |-> {}, approval |-> {}]
      [] OTHER -> [revision |-> ApprovedRevision, review |-> {}, approval |-> {}]

\* Mutant: an edit of an approved Project leaves its state.
ProjectEdits_KeepApproved(config) ==
    LET stale == fourEyes /\ required
                 /\ state \in {"review_requested", "technically_approved"}
                 /\ <<config, definition[2]>> \notin SupportOf.revision IN
    {[NoWrites EXCEPT !.config = {config},
                      !.state = IF stale THEN {"stale"} ELSE {},
                      !.review = IF stale THEN Stale(SupportOf.review) ELSE {},
                      !.approval = IF stale THEN Stale(SupportOf.approval) ELSE {}]}

\* The Project is saved, then refresh_project_approval_staleness looks at it.
ProjectEdits(config) ==
    LET stale == fourEyes /\ required /\ state \notin {"development", "stale"}
                 /\ <<config, definition[2]>> \notin SupportOf.revision IN
    {[NoWrites EXCEPT !.config = {config},
                      !.state = IF stale THEN {"stale"} ELSE {},
                      !.review = IF stale THEN Stale(SupportOf.review) ELSE {},
                      !.approval = IF stale THEN Stale(SupportOf.approval) ELSE {}]}

\* set_project_approval_required: the latest pending decisions are closed.
Exemptions ==
    LET last(rows) == {i \in With(rows, "pending") : i = Latest(With(rows, "pending"))} IN
    IF ~(fourEyes /\ required) THEN {}
    ELSE {[NoWrites EXCEPT !.required = {FALSE}, !.state = {"development"} \ {state},
              !.review = Stale(last(reviews)), !.approval = Stale(last(approvals))]}

\* Mutant: the state is restored whatever became of the definition.
Reinstatements_Always ==
    IF required \/ ~fourEyes THEN {}
    ELSE {[NoWrites EXCEPT !.required = {TRUE}, !.state = {"approved"}]}

\* An approval that still matches is restored.
Reinstatements ==
    IF required \/ ~fourEyes THEN {}
    ELSE {[NoWrites EXCEPT !.required = {TRUE},
              !.state = {IF definition \in ApprovedRevision THEN "approved" ELSE "development"}
                        \ {state}]}

-----------------------------------------------------------------------------
(* Commits.                                                                *)

Written(set, old) == IF set = {} THEN old ELSE CHOOSE x \in set : TRUE

Marked(rows, marks) ==
    [i \in DOMAIN rows |->
        [rows[i] EXCEPT !.status = Written({m[2] : m \in {n \in marks : n[1] = i}}, @)]]

\* A revision number that is taken refuses the whole request.
Accepted(w) == \A new \in w.newReview : new[1] = Len(reviews) + 1

Write(w) ==
    /\ Accepted(w)
    /\ state' = Written(w.state, state)
    /\ required' = Written(w.required, required)
    /\ definition' = <<Written(w.config, definition[1]), definition[2]>>
    /\ reviews' = LET rows == Marked(reviews, w.review)
                  IN IF w.newReview = {} THEN rows
                     ELSE Append(rows, (CHOOSE new \in w.newReview : TRUE)[2])
    /\ approvals' = LET rows == Marked(approvals, w.approval)
                    IN IF w.newApproval = {} THEN rows
                       ELSE Append(rows, CHOOSE new \in w.newApproval : TRUE)
    /\ launch' = IF launch.at = "rest" THEN launch
                 ELSE [launch EXCEPT !.changed = @ \/ w.config # {}]
    /\ UNCHANGED <<fourEyes, jobs>>

Suspended(w) == IF w.config # {} /\ ~fourEyes THEN {"suspended"} ELSE {}

\* A request that reads and commits before any other one commits.
Commit(w) ==
    /\ Write(w)
    /\ slow' = [slow EXCEPT !.crossed = slow.busy]
    /\ lapses' = lapses \cup Suspended(w)

\* A request that has read everything and commits later.
Delay(w) ==
    /\ ~slow.busy
    /\ slow' = [busy |-> TRUE, crossed |-> FALSE, writes |-> w]
    /\ UNCHANGED <<fourEyes, required, state, definition, reviews, approvals, launch, jobs, lapses>>

Submit(w) == Commit(w) \/ Delay(w)

CommitSlow ==
    /\ slow.busy
    /\ Write(slow.writes)
    /\ slow' = NoRequest
    /\ lapses' = lapses \cup Suspended(slow.writes)
                        \cup (IF slow.crossed THEN {"race"} ELSE {})
    /\ UNCHANGED changes

\* The constraint on revision numbers, or an error, rolls it back.
RollBackSlow ==
    /\ slow.busy
    /\ slow' = NoRequest
    /\ UNCHANGED <<fourEyes, required, state, definition, reviews, approvals, launch, jobs,
                   lapses, changes>>

RequestReview ==
    /\ Len(reviews) < MaxReviews
    /\ \E u, v \in Users : \E w \in ReviewRequests(u, v) : Submit(w)
    /\ UNCHANGED changes

DecideReview ==
    /\ \E i \in DOMAIN reviews, u \in Users, verdict \in {"approved", "rejected"} :
          \E w \in ReviewDecisions(i, u, verdict) : Submit(w)
    /\ UNCHANGED changes

RequestApproval ==
    /\ Len(approvals) < MaxApprovals
    /\ \E u, v \in Users : \E w \in ApprovalRequests(u, v) : Submit(w)
    /\ UNCHANGED changes

DecideApproval ==
    /\ \E i \in DOMAIN approvals, u \in Users, verdict \in {"approved", "rejected"} :
          \E w \in ApprovalDecisions(i, u, verdict) : Submit(w)
    /\ UNCHANGED changes

Counted == changes < MaxChanges /\ changes' = changes + 1

EditProject == Counted /\ \E c \in Configs \ {definition[1]} : \E w \in ProjectEdits(c) : Submit(w)
ExemptProject == Counted /\ \E w \in Exemptions : Submit(w)
ReinstateProject == Counted /\ \E w \in Reinstatements : Submit(w)

\* The repository moves: nobody tells the Project.
SyncRepository ==
    /\ Counted
    /\ \E c \in Commits \ {definition[2]} : definition' = <<definition[1], c>>
    /\ slow' = [slow EXCEPT !.crossed = slow.busy]
    /\ launch' = IF launch.at = "rest" THEN launch ELSE [launch EXCEPT !.changed = TRUE]
    /\ UNCHANGED <<fourEyes, required, state, reviews, approvals, jobs, lapses>>

SwitchWorkflow ==
    /\ Counted
    /\ fourEyes' = ~fourEyes
    /\ slow' = [slow EXCEPT !.crossed = slow.busy]
    /\ UNCHANGED <<required, state, definition, reviews, approvals, launch, jobs, lapses>>

-----------------------------------------------------------------------------
(* Operational launches.                                                   *)

Gated == {"package", "schedule"}

\* The dispatch API and Reactors launch Packages without asking.
BeginLaunch(route) ==
    /\ launch.at = "rest" /\ Cardinality(jobs) < MaxJobs
    /\ route \in Gated => GateIsOpen
    /\ launch' = [at |-> "passed", route |-> route, applies |-> fourEyes /\ required,
                  covered |-> ApprovedRevision,
                  changed |-> FALSE]
    /\ UNCHANGED <<fourEyes, required, state, definition, reviews, approvals, slow, jobs,
                   lapses, changes>>

\* queue_project_execution: repositories are refreshed, then the steps are
\* copied into the Job.
QueueJob ==
    /\ launch.at = "passed"
    /\ \E c \in (IF Refreshing THEN Commits ELSE {definition[2]}) :
        /\ definition' = <<definition[1], c>>
        /\ jobs' = jobs \cup {[route |-> launch.route, applies |-> launch.applies,
                               approved |-> definition' \in launch.covered,
                               changed |-> launch.changed \/ c # definition[2]]}
        /\ slow' = [slow EXCEPT !.crossed = slow.busy /\ (@ \/ c # definition[2])]
    /\ launch' = NoLaunch
    /\ UNCHANGED <<fourEyes, required, state, reviews, approvals, lapses, changes>>

Next ==
    \/ RequestReview \/ DecideReview \/ RequestApproval \/ DecideApproval
    \/ EditProject \/ ExemptProject \/ ReinstateProject
    \/ SyncRepository \/ SwitchWorkflow
    \/ CommitSlow \/ RollBackSlow
    \/ \E route \in Routes : BeginLaunch(route)
    \/ QueueJob

Spec == Init /\ [][Next]_vars

-----------------------------------------------------------------------------
\* Types; revisions are numbered without gaps, which leaves one review pending
\* at most, however requests race (uq_project_revision_sequence).
TypeOK ==
    /\ fourEyes \in BOOLEAN /\ required \in BOOLEAN /\ state \in States
    /\ definition \in Definitions
    /\ reviews \in Seq([revision : Definitions, requester : Users, reviewer : Users,
                        status : Statuses])
    /\ approvals \in Seq([review : DOMAIN reviews, requester : Users, approver : Users,
                          status : Statuses])
    /\ lapses \subseteq {"race", "suspended"}
    /\ Cardinality(With(reviews, "pending")) <= 1

\* Two pairs of eyes: whoever reviewed a revision neither asked for the review
\* nor approves it, and whoever approves it did not ask for the approval
\* (docs/APPROVALS.md, "The workflow enforces separation of duties").
TwoPairsOfEyes ==
    /\ \A i \in DOMAIN reviews : reviews[i].requester # reviews[i].reviewer
    /\ \A i \in DOMAIN approvals :
          approvals[i].approver \notin {approvals[i].requester,
                                        reviews[approvals[i].review].reviewer}

\* Only a management approval that somebody granted makes a Project approved,
\* and it rests on a granted review, however requests race and the requirement
\* comes and goes (set_project_approval_required restores it).
ApprovedHasItsRecords ==
    state = "approved" => "race" \in lapses \/ \E i \in With(approvals, "approved") :
                              reviews[approvals[i].review].status = "approved"

\* An edit is noticed: while the state is approved, the configuration is the
\* one that was approved last, unless requests raced or the workflow was
\* suspended (refresh_project_approval_staleness).
EditsAreNoticed ==
    (state = "approved" /\ lapses = {}) =>
        \E d \in ApprovedRevision : d[1] = definition[1]

\* No decision stays pending while a Project is exempt, so that none resumes
\* later (project_approval_exemption.py, "cannot unexpectedly resume later").
ExemptionClosesDecisions ==
    (~required /\ "race" \notin lapses) =>
        With(reviews, "pending") = {} /\ With(approvals, "pending") = {}

\* Decisions are history: without a race none is ever rewritten
\* (docs/APPROVALS.md, "They are not rewritten or deleted").
HistoryIsKept ==
    [][\A i \in DOMAIN reviews, j \in DOMAIN approvals :
          "race" \notin lapses' =>
              /\ reviews[i].status \in Decided => reviews'[i] = reviews[i]
              /\ approvals[j].status \in Decided => approvals'[j] = approvals[j]]_vars

\* A Job that passed the gate runs a definition that was approved then, unless
\* it was changed between the gate and the Job, which takes the last word only
\* of the launch's own refresh or of an edit (project_operational_approval).
GatedJobsRunApprovedWork ==
    \A j \in jobs : (j.route \in Gated /\ j.applies) => j.approved \/ j.changed

=============================================================================

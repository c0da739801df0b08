-------------------------- MODULE GovernanceProofs --------------------------
(***************************************************************************)
(* Theorems about Governance: for any people, configurations and commits,  *)
(* and any number of reviews, approvals and changes.                       *)
(***************************************************************************)
EXTENDS Governance, FiniteSetTheorems, WellFoundedInduction, TLAPS

-----------------------------------------------------------------------------
(* The latest of some rows is one of them: numbers are well-founded.       *)

LEMMA SmallestExists ==
    ASSUME NEW T \in SUBSET Nat, T # {}
    PROVE  \E x \in T : \A y \in T : x <= y
<1> DEFINE R == OpToRel(<, Nat)
<1>1. R = {ss \in Nat \X Nat : ss[1] < ss[2]}
  BY Zenon DEF OpToRel
<1>2. IsWellFoundedOn(R, Nat)
  BY NatLessThanWellFounded, Zenon
<1> HIDE DEF R
<1>3. PICK x \in T : \A y \in T : ~(<<y, x>> \in R)
  BY <1>2, WFMin, Zenon
<1>4. \A y \in T : y \in Nat /\ x \in Nat /\ ~(y < x)
  BY <1>1, <1>3
<1> QED
  BY <1>4

LEMMA LatestIsLatest ==
    ASSUME NEW n \in Nat, NEW ids \in SUBSET (1..n), ids # {}
    PROVE  /\ Latest(ids) \in ids
           /\ \A j \in ids : j <= Latest(ids)
<1> DEFINE T == {n - i : i \in ids}
<1>1. T \in SUBSET Nat
  <2>1. \A i \in ids : n - i \in Nat
    OBVIOUS
  <2> QED
    BY <2>1
<1>2. T # {}
  OBVIOUS
<1>3. \A i \in ids : n - i \in T
  OBVIOUS
<1>4. \A y \in T : \E i \in ids : y = n - i
  OBVIOUS
<1> HIDE DEF T
<1>5. PICK m \in T : \A y \in T : m <= y
  BY <1>1, <1>2, SmallestExists
<1>6. PICK x \in ids : m = n - x
  BY <1>4, <1>5
<1>7. \A j \in ids : j <= x
  BY <1>3, <1>5, <1>6
<1>8. \E i \in ids : \A j \in ids : j <= i
  BY <1>7
<1> QED
  BY <1>8 DEF Latest

-----------------------------------------------------------------------------
ReviewRow == [revision : Definitions, requester : Users, reviewer : Users, status : Statuses]
ApprovalRow == [review : Nat, requester : Users, approver : Users, status : Statuses]

AllRoutes == {"package", "schedule", "api", "reaction"}

Types ==
    /\ fourEyes \in BOOLEAN /\ required \in BOOLEAN /\ state \in States
    /\ definition \in Definitions
    /\ reviews \in Seq(ReviewRow)
    /\ approvals \in Seq(ApprovalRow)
    /\ \A i \in DOMAIN approvals : approvals[i].review \in DOMAIN reviews
    /\ lapses \subseteq {"race", "suspended"}
    /\ slow.busy \in BOOLEAN /\ slow.crossed \in BOOLEAN
    /\ slow = [busy |-> slow.busy, crossed |-> slow.crossed, writes |-> slow.writes]
    /\ launch \in [at : {"rest", "passed"}, route : AllRoutes, applies : BOOLEAN,
                   covered : SUBSET Definitions, changed : BOOLEAN]

OnePendingReview == \A i, j \in With(reviews, "pending") : i = j

\* What holds of the writes of a request whatever was committed since it read.
LastingOK(w) ==
    /\ w.state \subseteq States /\ w.config \subseteq Configs /\ w.required \subseteq BOOLEAN
    /\ \A m \in w.review \cup w.approval : m[2] \in Decided
    /\ \A n \in w.newReview :
          /\ n[2] \in ReviewRow /\ n[2].status = "pending" /\ n[2].requester # n[2].reviewer
          /\ n[1] \in Nat /\ n[1] <= Len(reviews) + 1
          /\ n[1] = Len(reviews) + 1 =>
                \A i \in With(reviews, "pending") : \E m \in w.review : m[1] = i
    /\ \A a \in w.newApproval :
          /\ a \in ApprovalRow /\ a.status = "pending" /\ a.review \in DOMAIN reviews
          /\ a.approver # a.requester /\ a.approver # reviews[a.review].reviewer

\* What holds of them as long as nothing else was committed: decisions close what is
\* pending, a request opens what it may, and only an approval of the definition, an
\* old one or the one that is written, makes the Project approved.
FreshDecisions(w) ==
    /\ \A m \in w.review : m[1] \in With(reviews, "pending")
    /\ \A m \in w.approval : m[1] \in With(approvals, "pending")
    /\ \A m \in w.approval : m[2] = "approved" =>
          /\ w.approval = {m} /\ w.config = {}
          /\ Revision(approvals[m[1]]) = definition
FreshRequests(w) ==
    /\ \A a \in w.newApproval : reviews[a.review].status = "approved"
    /\ w.newApproval # {} => With(approvals, "pending") = {}
    /\ w.newReview \cup w.newApproval # {} => required /\ w.required = {}
FreshState(w) ==
    /\ w.required = {} \/ w.required = {TRUE} \/ w.required = {FALSE}
    /\ w.required = {FALSE} =>
          /\ w.state \subseteq {"development"} /\ (w.state = {} => state = "development")
          /\ \A i \in With(reviews, "pending") : \E m \in w.review : m[1] = i
          /\ \A i \in With(approvals, "pending") : \E m \in w.approval : m[1] = i
    /\ "approved" \in w.state =>
          /\ required \/ w.required = {TRUE}
          /\ w.config = {}
          /\ \/ w.approval # {} /\ \A m \in w.approval : m[2] = "approved"
             \/ w.approval = {} /\ definition \in ApprovedRevision
    /\ (w.state = {} /\ state = "approved" /\ fourEyes /\ required) =>
          \A c \in w.config : <<c, definition[2]>> \in ApprovedRevision
FreshOK(w) == FreshDecisions(w) /\ FreshRequests(w) /\ FreshState(w)

NoRace == "race" \notin lapses

SlowInv ==
    slow.busy => LastingOK(slow.writes) /\ (NoRace /\ ~slow.crossed => FreshOK(slow.writes))

\* As long as no two requests have raced, approvals rest on granted reviews, the
\* pending one is the last, and an exempt Project has nothing that could resume.
RecordsInv ==
    /\ \A i \in DOMAIN approvals : reviews[approvals[i].review].status = "approved"
    /\ \A i \in With(approvals, "pending") : i = Len(approvals)
    /\ ~required => /\ state # "approved"
                    /\ With(reviews, "pending") = {} /\ With(approvals, "pending") = {}
    /\ state = "approved" => With(approvals, "approved") # {}

LaunchInv ==
    /\ (launch.at = "passed" /\ launch.route \in Gated /\ launch.applies) =>
          definition \in launch.covered \/ launch.changed
    /\ GatedJobsRunApprovedWork

GovernanceInv ==
    /\ Types /\ TwoPairsOfEyes /\ OnePendingReview /\ SlowInv /\ LaunchInv
    /\ NoRace => RecordsInv
    /\ EditsAreNoticed

-----------------------------------------------------------------------------
(* What Write does to the rows.                                            *)

LEMMA PlainTypes ==
    ASSUME Types
    PROVE  /\ Len(reviews) \in Nat /\ DOMAIN reviews = 1..Len(reviews)
           /\ Len(approvals) \in Nat /\ DOMAIN approvals = 1..Len(approvals)
           /\ \A i \in DOMAIN reviews : reviews[i] \in ReviewRow
           /\ \A i \in DOMAIN approvals : approvals[i] \in ApprovalRow
           /\ With(reviews, "pending") \subseteq DOMAIN reviews
           /\ With(approvals, "pending") \subseteq DOMAIN approvals
           /\ With(approvals, "approved") \subseteq DOMAIN approvals
           /\ With(reviews, "approved") \subseteq DOMAIN reviews
BY DEF Types, With

LEMMA MarkedReviews ==
    ASSUME Types, NEW marks, \A m \in marks : m[2] \in Decided
    PROVE  /\ Marked(reviews, marks) \in Seq(ReviewRow)
           /\ Len(Marked(reviews, marks)) = Len(reviews)
           /\ \A i \in DOMAIN reviews :
                 /\ Marked(reviews, marks)[i].revision = reviews[i].revision
                 /\ Marked(reviews, marks)[i].requester = reviews[i].requester
                 /\ Marked(reviews, marks)[i].reviewer = reviews[i].reviewer
                 /\ (\A m \in marks : m[1] # i) => Marked(reviews, marks)[i] = reviews[i]
                 /\ (\E m \in marks : m[1] = i) =>
                       \E m \in marks : m[1] = i /\ Marked(reviews, marks)[i].status = m[2]
<1> DEFINE set(i) == {m[2] : m \in {n \in marks : n[1] = i}}
           rows == Marked(reviews, marks)
<1>1. rows = [i \in DOMAIN reviews |-> [reviews[i] EXCEPT !.status = Written(set(i), reviews[i].status)]]
  BY DEF Marked
<1>2. ASSUME NEW i \in DOMAIN reviews
      PROVE  /\ Written(set(i), reviews[i].status) \in Statuses
             /\ set(i) = {} => Written(set(i), reviews[i].status) = reviews[i].status
             /\ set(i) # {} => Written(set(i), reviews[i].status) \in set(i)
  <2>1. reviews[i].status \in Statuses
    BY PlainTypes DEF ReviewRow
  <2>2. set(i) \subseteq Decided /\ Decided \subseteq Statuses
    BY DEF Statuses
  <2>3. set(i) # {} => (CHOOSE x \in set(i) : TRUE) \in set(i)
    OBVIOUS
  <2> HIDE DEF set
  <2> QED
    BY <2>1, <2>2, <2>3 DEF Written
<1>3. \A i \in DOMAIN reviews : /\ (\A m \in marks : m[1] # i) => set(i) = {}
                                /\ (\E m \in marks : m[1] = i) => set(i) # {}
                                /\ \A x \in set(i) : \E m \in marks : m[1] = i /\ x = m[2]
  OBVIOUS
<1> HIDE DEF set, rows
<1>4. ASSUME NEW i \in DOMAIN reviews
      PROVE  /\ rows[i] \in ReviewRow /\ rows[i].revision = reviews[i].revision
             /\ rows[i].requester = reviews[i].requester /\ rows[i].reviewer = reviews[i].reviewer
             /\ rows[i].status = Written(set(i), reviews[i].status)
             /\ set(i) = {} => rows[i] = reviews[i]
  <2>1. reviews[i] \in ReviewRow
    BY PlainTypes
  <2>2. rows[i] = [reviews[i] EXCEPT !.status = Written(set(i), reviews[i].status)]
    BY <1>1
  <2> QED
    BY <1>2, <2>1, <2>2 DEF ReviewRow
<1>5. DOMAIN rows = 1..Len(reviews) /\ rows = [i \in 1..Len(reviews) |-> rows[i]]
  BY <1>1, PlainTypes
<1>6. rows \in [1..Len(reviews) -> ReviewRow]
  BY <1>4, <1>5, PlainTypes
<1>7. rows \in Seq(ReviewRow) /\ Len(rows) = Len(reviews)
  BY <1>5, <1>6, PlainTypes
<1> QED
  BY <1>2, <1>3, <1>4, <1>7 DEF rows

LEMMA MarkedApprovals ==
    ASSUME Types, NEW marks, \A m \in marks : m[2] \in Decided
    PROVE  /\ Marked(approvals, marks) \in Seq(ApprovalRow)
           /\ Len(Marked(approvals, marks)) = Len(approvals)
           /\ \A i \in DOMAIN approvals :
                 /\ Marked(approvals, marks)[i].review = approvals[i].review
                 /\ Marked(approvals, marks)[i].requester = approvals[i].requester
                 /\ Marked(approvals, marks)[i].approver = approvals[i].approver
                 /\ (\A m \in marks : m[1] # i) => Marked(approvals, marks)[i] = approvals[i]
                 /\ (\E m \in marks : m[1] = i) =>
                       \E m \in marks : m[1] = i /\ Marked(approvals, marks)[i].status = m[2]
<1> DEFINE set(i) == {m[2] : m \in {n \in marks : n[1] = i}}
           rows == Marked(approvals, marks)
<1>1. rows = [i \in DOMAIN approvals |->
                 [approvals[i] EXCEPT !.status = Written(set(i), approvals[i].status)]]
  BY DEF Marked
<1>2. ASSUME NEW i \in DOMAIN approvals
      PROVE  /\ Written(set(i), approvals[i].status) \in Statuses
             /\ set(i) = {} => Written(set(i), approvals[i].status) = approvals[i].status
             /\ set(i) # {} => Written(set(i), approvals[i].status) \in set(i)
  <2>1. approvals[i].status \in Statuses
    BY PlainTypes DEF ApprovalRow
  <2>2. set(i) \subseteq Decided /\ Decided \subseteq Statuses
    BY DEF Statuses
  <2>3. set(i) # {} => (CHOOSE x \in set(i) : TRUE) \in set(i)
    OBVIOUS
  <2> HIDE DEF set
  <2> QED
    BY <2>1, <2>2, <2>3 DEF Written
<1>3. \A i \in DOMAIN approvals : /\ (\A m \in marks : m[1] # i) => set(i) = {}
                                  /\ (\E m \in marks : m[1] = i) => set(i) # {}
                                  /\ \A x \in set(i) : \E m \in marks : m[1] = i /\ x = m[2]
  OBVIOUS
<1> HIDE DEF set, rows
<1>4. ASSUME NEW i \in DOMAIN approvals
      PROVE  /\ rows[i] \in ApprovalRow /\ rows[i].review = approvals[i].review
             /\ rows[i].requester = approvals[i].requester
             /\ rows[i].approver = approvals[i].approver
             /\ rows[i].status = Written(set(i), approvals[i].status)
             /\ set(i) = {} => rows[i] = approvals[i]
  <2>1. approvals[i] \in ApprovalRow
    BY PlainTypes
  <2>2. rows[i] = [approvals[i] EXCEPT !.status = Written(set(i), approvals[i].status)]
    BY <1>1
  <2> QED
    BY <1>2, <2>1, <2>2 DEF ApprovalRow
<1>5. DOMAIN rows = 1..Len(approvals) /\ rows = [i \in 1..Len(approvals) |-> rows[i]]
  BY <1>1, PlainTypes
<1>6. rows \in [1..Len(approvals) -> ApprovalRow]
  BY <1>4, <1>5, PlainTypes
<1>7. rows \in Seq(ApprovalRow) /\ Len(rows) = Len(approvals)
  BY <1>5, <1>6, PlainTypes
<1> QED
  BY <1>2, <1>3, <1>4, <1>7 DEF rows

LEMMA WrittenIs ==
    ASSUME NEW set, NEW old
    PROVE  (set = {} => Written(set, old) = old) /\ (set # {} => Written(set, old) \in set)
<1>1. set # {} => (CHOOSE x \in set : TRUE) \in set
  OBVIOUS
<1> QED
  BY <1>1 DEF Written

LEMMA WriteReviews ==
    ASSUME Types, NEW w, LastingOK(w), Write(w)
    PROVE  /\ reviews' \in Seq(ReviewRow)
           /\ Len(reviews') = IF w.newReview = {} THEN Len(reviews) ELSE Len(reviews) + 1
           /\ w.newReview # {} => \E n \in w.newReview : /\ n[1] = Len(reviews) + 1
                                                         /\ reviews'[Len(reviews) + 1] = n[2]
           /\ \A i \in DOMAIN reviews :
                 /\ reviews'[i].revision = reviews[i].revision
                 /\ reviews'[i].requester = reviews[i].requester
                 /\ reviews'[i].reviewer = reviews[i].reviewer
                 /\ (\A m \in w.review : m[1] # i) => reviews'[i] = reviews[i]
                 /\ (\E m \in w.review : m[1] = i) =>
                       \E m \in w.review : m[1] = i /\ reviews'[i].status = m[2]
<1> DEFINE rows == Marked(reviews, w.review)
<1>1. \A m \in w.review : m[2] \in Decided
  BY DEF LastingOK
<1>2. /\ rows \in Seq(ReviewRow) /\ Len(rows) = Len(reviews)
      /\ \A i \in DOMAIN reviews :
            /\ rows[i].revision = reviews[i].revision
            /\ rows[i].requester = reviews[i].requester
            /\ rows[i].reviewer = reviews[i].reviewer
            /\ (\A m \in w.review : m[1] # i) => rows[i] = reviews[i]
            /\ (\E m \in w.review : m[1] = i) =>
                  \E m \in w.review : m[1] = i /\ rows[i].status = m[2]
  BY <1>1, MarkedReviews
<1>3. reviews' = IF w.newReview = {} THEN rows
                 ELSE Append(rows, (CHOOSE new \in w.newReview : TRUE)[2])
  BY DEF Write
<1> HIDE DEF rows
<1>4. CASE w.newReview = {}
  <2>1. reviews' = rows
    BY <1>3, <1>4
  <2> QED
    BY <1>2, <1>4, <2>1
<1>5. CASE w.newReview # {}
  <2>1. PICK n \in w.newReview : n = (CHOOSE new \in w.newReview : TRUE)
    BY <1>5
  <2>2. n[1] = Len(reviews) + 1 /\ n[2] \in ReviewRow
    BY <2>1 DEF Write, Accepted, LastingOK
  <2>3. reviews' = Append(rows, n[2])
    BY <1>3, <1>5, <2>1
  <2>4. /\ reviews' \in Seq(ReviewRow) /\ Len(reviews') = Len(reviews) + 1
        /\ reviews'[Len(reviews) + 1] = n[2]
        /\ \A i \in DOMAIN reviews : reviews'[i] = rows[i]
    BY <1>2, <2>2, <2>3, PlainTypes
  <2> QED
    BY <1>2, <1>5, <2>2, <2>4
<1> QED
  BY <1>4, <1>5

LEMMA WriteApprovals ==
    ASSUME Types, NEW w, LastingOK(w), Write(w)
    PROVE  /\ approvals' \in Seq(ApprovalRow)
           /\ Len(approvals') = IF w.newApproval = {} THEN Len(approvals) ELSE Len(approvals) + 1
           /\ w.newApproval # {} => \E a \in w.newApproval : approvals'[Len(approvals) + 1] = a
           /\ \A i \in DOMAIN approvals :
                 /\ approvals'[i].review = approvals[i].review
                 /\ approvals'[i].requester = approvals[i].requester
                 /\ approvals'[i].approver = approvals[i].approver
                 /\ (\A m \in w.approval : m[1] # i) => approvals'[i] = approvals[i]
                 /\ (\E m \in w.approval : m[1] = i) =>
                       \E m \in w.approval : m[1] = i /\ approvals'[i].status = m[2]
<1> DEFINE rows == Marked(approvals, w.approval)
<1>1. \A m \in w.approval : m[2] \in Decided
  BY DEF LastingOK
<1>2. /\ rows \in Seq(ApprovalRow) /\ Len(rows) = Len(approvals)
      /\ \A i \in DOMAIN approvals :
            /\ rows[i].review = approvals[i].review
            /\ rows[i].requester = approvals[i].requester
            /\ rows[i].approver = approvals[i].approver
            /\ (\A m \in w.approval : m[1] # i) => rows[i] = approvals[i]
            /\ (\E m \in w.approval : m[1] = i) =>
                  \E m \in w.approval : m[1] = i /\ rows[i].status = m[2]
  BY <1>1, MarkedApprovals
<1>3. approvals' = IF w.newApproval = {} THEN rows
                   ELSE Append(rows, CHOOSE new \in w.newApproval : TRUE)
  BY DEF Write
<1> HIDE DEF rows
<1>4. CASE w.newApproval = {}
  <2>1. approvals' = rows
    BY <1>3, <1>4
  <2> QED
    BY <1>2, <1>4, <2>1
<1>5. CASE w.newApproval # {}
  <2>1. PICK a \in w.newApproval : a = (CHOOSE new \in w.newApproval : TRUE)
    BY <1>5
  <2>2. a \in ApprovalRow
    BY <2>1 DEF LastingOK
  <2>3. approvals' = Append(rows, a)
    BY <1>3, <1>5, <2>1
  <2>4. /\ approvals' \in Seq(ApprovalRow) /\ Len(approvals') = Len(approvals) + 1
        /\ approvals'[Len(approvals) + 1] = a
        /\ \A i \in DOMAIN approvals : approvals'[i] = rows[i]
    BY <1>2, <2>2, <2>3, PlainTypes
  <2> QED
    BY <1>2, <1>5, <2>4
<1> QED
  BY <1>4, <1>5

LEMMA WriteProject ==
    ASSUME Types, NEW w, LastingOK(w), Write(w)
    PROVE  /\ state' \in States /\ required' \in BOOLEAN /\ definition' \in Definitions
           /\ IF w.state = {} THEN state' = state ELSE state' \in w.state
           /\ IF w.required = {} THEN required' = required ELSE required' \in w.required
           /\ w.config = {} => definition' = definition
           /\ w.config # {} => \E c \in w.config : definition' = <<c, definition[2]>>
           /\ UNCHANGED <<fourEyes, jobs>>
<1>1. w.state \subseteq States /\ w.required \subseteq BOOLEAN /\ w.config \subseteq Configs
  BY DEF LastingOK
<1>2. /\ state' = Written(w.state, state) /\ required' = Written(w.required, required)
      /\ definition' = <<Written(w.config, definition[1]), definition[2]>>
      /\ UNCHANGED <<fourEyes, jobs>>
  BY DEF Write
<1>3. definition[1] \in Configs /\ definition[2] \in Commits /\ definition = <<definition[1], definition[2]>>
  BY DEF Types, Definitions
<1>4. state \in States /\ required \in BOOLEAN
  BY DEF Types
<1>5. state' \in States /\ IF w.state = {} THEN state' = state ELSE state' \in w.state
  BY <1>1, <1>2, <1>4, WrittenIs
<1>6. required' \in BOOLEAN /\ IF w.required = {} THEN required' = required ELSE required' \in w.required
  BY <1>1, <1>2, <1>4, WrittenIs
<1>7. CASE w.config = {}
  <2>1. definition' = definition
    BY <1>2, <1>3, <1>7, WrittenIs
  <2> QED
    BY <1>2, <1>5, <1>6, <1>7, <2>1 DEF Types
<1>8. CASE w.config # {}
  <2>1. PICK c \in w.config : definition' = <<c, definition[2]>>
    BY <1>2, <1>8, WrittenIs
  <2>2. definition' \in Definitions
    BY <1>1, <1>3, <2>1 DEF Definitions
  <2> QED
    BY <1>2, <1>5, <1>6, <1>8, <2>1, <2>2
<1> QED
  BY <1>7, <1>8

-----------------------------------------------------------------------------
(* What every write keeps, in whatever order requests commit.              *)

\* A row that is pending after a write is new, or was pending and is not marked.
LEMMA PendingAfterWrite ==
    ASSUME Types, NEW w, LastingOK(w), Write(w)
    PROVE  /\ \A i \in With(reviews, "pending")' :
                 \/ i = Len(reviews) + 1 /\ w.newReview # {}
                 \/ i \in With(reviews, "pending") /\ \A m \in w.review : m[1] # i
           /\ \A i \in With(approvals, "pending")' :
                 \/ i = Len(approvals) + 1 /\ w.newApproval # {}
                 \/ i \in With(approvals, "pending") /\ \A m \in w.approval : m[1] # i
<1>a. "pending" \notin Decided /\ \A m \in w.review \cup w.approval : m[2] \in Decided
  BY DEF Decided, LastingOK
<1>1. ASSUME NEW i \in With(reviews, "pending")'
      PROVE  \/ i = Len(reviews) + 1 /\ w.newReview # {}
             \/ i \in With(reviews, "pending") /\ \A m \in w.review : m[1] # i
  <2>1. i \in 1..Len(reviews') /\ reviews'[i].status = "pending"
    BY WriteReviews DEF With
  <2>2. CASE i \in DOMAIN reviews
    <3>1. \A m \in w.review : m[1] # i
      BY <1>a, <2>1, <2>2, WriteReviews
    <3>2. reviews'[i] = reviews[i]
      BY <2>2, <3>1, WriteReviews
    <3> QED
      BY <2>1, <2>2, <3>1, <3>2 DEF With
  <2>3. CASE i \notin DOMAIN reviews
    BY <2>1, <2>3, WriteReviews, PlainTypes
  <2> QED
    BY <2>2, <2>3
<1>2. ASSUME NEW i \in With(approvals, "pending")'
      PROVE  \/ i = Len(approvals) + 1 /\ w.newApproval # {}
             \/ i \in With(approvals, "pending") /\ \A m \in w.approval : m[1] # i
  <2>1. i \in 1..Len(approvals') /\ approvals'[i].status = "pending"
    BY WriteApprovals DEF With
  <2>2. CASE i \in DOMAIN approvals
    <3>1. \A m \in w.approval : m[1] # i
      BY <1>a, <2>1, <2>2, WriteApprovals
    <3>2. approvals'[i] = approvals[i]
      BY <2>2, <3>1, WriteApprovals
    <3> QED
      BY <2>1, <2>2, <3>1, <3>2 DEF With
  <2>3. CASE i \notin DOMAIN approvals
    BY <2>1, <2>3, WriteApprovals, PlainTypes
  <2> QED
    BY <2>2, <2>3
<1> QED
  BY <1>1, <1>2

LEMMA WriteKeepsRows ==
    ASSUME Types, TwoPairsOfEyes, OnePendingReview, NEW w, LastingOK(w), Write(w)
    PROVE  /\ \A i \in DOMAIN approvals' : approvals'[i].review \in DOMAIN reviews'
           /\ TwoPairsOfEyes' /\ OnePendingReview'
<1>a. /\ DOMAIN reviews' = 1..Len(reviews') /\ DOMAIN approvals' = 1..Len(approvals')
      /\ DOMAIN reviews \subseteq DOMAIN reviews'
      /\ DOMAIN reviews' \subseteq DOMAIN reviews \cup {Len(reviews) + 1}
      /\ DOMAIN approvals' \subseteq DOMAIN approvals \cup {Len(approvals) + 1}
  BY WriteReviews, WriteApprovals, PlainTypes
<1>b. \A i \in DOMAIN reviews : reviews'[i].requester = reviews[i].requester
                                /\ reviews'[i].reviewer = reviews[i].reviewer
  BY WriteReviews
<1>c. \A i \in DOMAIN approvals : /\ approvals'[i].review = approvals[i].review
                                  /\ approvals'[i].requester = approvals[i].requester
                                  /\ approvals'[i].approver = approvals[i].approver
                                  /\ approvals[i].review \in DOMAIN reviews
  BY WriteApprovals DEF Types
<1>1. ASSUME NEW i \in DOMAIN reviews'
      PROVE  reviews'[i].requester # reviews'[i].reviewer
  <2>1. CASE i \in DOMAIN reviews
    BY <1>b, <2>1 DEF TwoPairsOfEyes
  <2>2. CASE i \notin DOMAIN reviews
    <3>1. i = Len(reviews) + 1 /\ w.newReview # {}
      BY <1>a, <2>2, WriteReviews, PlainTypes
    <3> QED
      BY <3>1, WriteReviews DEF LastingOK
  <2> QED
    BY <2>1, <2>2
<1>2. ASSUME NEW i \in DOMAIN approvals'
      PROVE  /\ approvals'[i].review \in DOMAIN reviews'
             /\ approvals'[i].approver # approvals'[i].requester
             /\ approvals'[i].approver # reviews'[approvals'[i].review].reviewer
  <2>1. CASE i \in DOMAIN approvals
    BY <1>a, <1>b, <1>c, <2>1 DEF TwoPairsOfEyes
  <2>2. CASE i \notin DOMAIN approvals
    <3>1. i = Len(approvals) + 1 /\ w.newApproval # {}
      BY <1>a, <2>2, WriteApprovals, PlainTypes
    <3>2. PICK a \in w.newApproval : approvals'[i] = a
      BY <3>1, WriteApprovals
    <3>3. a.review \in DOMAIN reviews /\ a.approver # a.requester
          /\ a.approver # reviews[a.review].reviewer
      BY <3>2 DEF LastingOK
    <3> QED
      BY <1>a, <1>b, <3>2, <3>3
  <2> QED
    BY <2>1, <2>2
<1>3. TwoPairsOfEyes'
  BY <1>1, <1>2 DEF TwoPairsOfEyes
<1>4. OnePendingReview'
  <2> SUFFICES ASSUME NEW i \in With(reviews, "pending")', NEW j \in With(reviews, "pending")'
               PROVE  i = j
    BY DEF OnePendingReview
  <2>1. CASE w.newReview = {}
    BY <2>1, PendingAfterWrite DEF OnePendingReview
  <2>2. CASE w.newReview # {}
    <3>1. \A k \in With(reviews, "pending") : \E m \in w.review : m[1] = k
      BY <2>2, WriteReviews DEF LastingOK
    <3>2. i = Len(reviews) + 1 /\ j = Len(reviews) + 1
      BY <3>1, PendingAfterWrite
    <3> QED
      BY <3>2
  <2> QED
    BY <2>1, <2>2
<1> QED
  BY <1>2, <1>3, <1>4

\* What another request has read and not yet committed stays acceptable.
LEMMA LastingLasts ==
    ASSUME Types, NEW v, LastingOK(v),
           UNCHANGED reviews \/ \E w : LastingOK(w) /\ Write(w)
    PROVE  LastingOK(v)'
<1>1. CASE UNCHANGED reviews
  BY <1>1 DEF LastingOK, With
<1>2. ASSUME NEW w, LastingOK(w), Write(w)
      PROVE  LastingOK(v)'
  <2>1. /\ Len(reviews') \in Nat /\ DOMAIN reviews' = 1..Len(reviews')
        /\ Len(reviews') >= Len(reviews) /\ Len(reviews) \in Nat
        /\ DOMAIN reviews \subseteq DOMAIN reviews'
        /\ \A i \in DOMAIN reviews : reviews'[i].reviewer = reviews[i].reviewer
    BY <1>2, WriteReviews, PlainTypes
  <2>2. ASSUME NEW n \in v.newReview
        PROVE  /\ n[2] \in ReviewRow /\ n[2].status = "pending" /\ n[2].requester # n[2].reviewer
               /\ n[1] \in Nat /\ n[1] <= Len(reviews') + 1
               /\ n[1] = Len(reviews') + 1 =>
                     \A i \in With(reviews, "pending")' : \E m \in v.review : m[1] = i
    <3>1. n[1] \in Nat /\ n[1] <= Len(reviews) + 1
      BY DEF LastingOK
    <3>2. ASSUME n[1] = Len(reviews') + 1, NEW i \in With(reviews, "pending")'
          PROVE  \E m \in v.review : m[1] = i
      <4>1. Len(reviews') = Len(reviews)
        BY <2>1, <3>1, <3>2
      <4>2. w.newReview = {}
        <5>1. Len(reviews') = IF w.newReview = {} THEN Len(reviews) ELSE Len(reviews) + 1
          BY <1>2, WriteReviews
        <5> QED
          BY <2>1, <4>1, <5>1
      <4>3. i \in With(reviews, "pending")
        BY <1>2, <3>2, <4>2, PendingAfterWrite
      <4> QED
        BY <3>2, <4>1, <4>3 DEF LastingOK
    <3> QED
      BY <2>1, <3>1, <3>2 DEF LastingOK
  <2>3. \A a \in v.newApproval :
          /\ a \in ApprovalRow /\ a.status = "pending" /\ a.review \in DOMAIN reviews'
          /\ a.approver # a.requester /\ a.approver # reviews'[a.review].reviewer
    BY <2>1 DEF LastingOK
  <2>4. /\ v.state \subseteq States /\ v.config \subseteq Configs /\ v.required \subseteq BOOLEAN
        /\ \A m \in v.review \cup v.approval : m[2] \in Decided
    BY DEF LastingOK
  <2>5. \A n \in v.newReview :
          /\ n[2] \in ReviewRow /\ n[2].status = "pending" /\ n[2].requester # n[2].reviewer
          /\ n[1] \in Nat /\ n[1] <= Len(reviews') + 1
          /\ n[1] = Len(reviews') + 1 =>
                \A i \in With(reviews, "pending")' : \E m \in v.review : m[1] = i
    BY <2>2
  <2> QED
    BY <2>3, <2>4, <2>5, Zenon DEF LastingOK
<1> QED
  BY <1>1, <1>2

-----------------------------------------------------------------------------
(* What the requests may write.                                            *)

LEMMA LatestRow ==
    ASSUME Types, NEW st
    PROVE  /\ With(reviews, st) # {} => Latest(With(reviews, st)) \in With(reviews, st)
           /\ With(approvals, st) # {} => Latest(With(approvals, st)) \in With(approvals, st)
<1>1. With(reviews, st) \subseteq 1..Len(reviews) /\ With(approvals, st) \subseteq 1..Len(approvals)
  BY PlainTypes DEF With
<1> QED
  BY <1>1, LatestIsLatest, PlainTypes

LEMMA StaleMarks ==
    ASSUME NEW ids
    PROVE  /\ \A m \in Stale(ids) : m[2] = "stale" /\ m[1] \in ids
           /\ \A i \in ids : \E m \in Stale(ids) : m[1] = i
<1>1. \A m \in Stale(ids) : \E i \in ids : m = <<i, "stale">>
  BY DEF Stale
<1>2. \A i \in ids : <<i, "stale">> \in Stale(ids)
  BY DEF Stale
<1>3. ASSUME NEW m \in Stale(ids)
      PROVE  m[2] = "stale" /\ m[1] \in ids
  <2>1. PICK i \in ids : m = <<i, "stale">>
    BY <1>1
  <2> QED
    BY <2>1
<1>4. ASSUME NEW i \in ids
      PROVE  \E m \in Stale(ids) : m[1] = i
  <2>1. <<i, "stale">> \in Stale(ids) /\ <<i, "stale">>[1] = i
    BY <1>2
  <2> QED
    BY <2>1
<1> QED
  BY <1>3, <1>4

LEMMA ReviewRequestsAreGood ==
    ASSUME GovernanceInv, NEW u \in Users, NEW v \in Users, NEW w \in ReviewRequests(u, v)
    PROVE  LastingOK(w) /\ FreshOK(w)
<1> DEFINE row == [revision |-> definition, requester |-> u, reviewer |-> v, status |-> "pending"]
           pending == With(reviews, "pending")
<1>1. /\ w.state \subseteq {"review_requested"} /\ w.config = {} /\ w.required = {}
      /\ w.review = Stale(pending) /\ w.approval = {}
      /\ w.newReview = {<<Len(reviews) + 1, row>>} /\ w.newApproval = {}
      /\ required /\ u # v
  <2>1. /\ required /\ u # v
        /\ \E given : w = [NoWrites EXCEPT
               !.state = {"review_requested"} \ given,
               !.review = Stale(pending), !.newReview = {<<Len(reviews) + 1, row>>}]
    BY DEF ReviewRequests
  <2> HIDE DEF row, pending
  <2>2. PICK given : w = [NoWrites EXCEPT
               !.state = {"review_requested"} \ given,
               !.review = Stale(pending), !.newReview = {<<Len(reviews) + 1, row>>}]
    BY <2>1
  <2> QED
    BY <2>1, <2>2 DEF NoWrites
<1>2. row \in ReviewRow /\ row.status = "pending" /\ row.requester # row.reviewer
  BY <1>1 DEF GovernanceInv, Types, ReviewRow, Statuses
<1> HIDE DEF row
<1>3. /\ \A m \in w.review : m[2] = "stale" /\ m[1] \in pending
      /\ \A i \in pending : \E m \in w.review : m[1] = i
  BY <1>1, StaleMarks
<1>5. Len(reviews) + 1 \in Nat /\ "stale" \in Decided /\ "review_requested" \in States
  BY PlainTypes DEF GovernanceInv, Decided, States
<1>6. LastingOK(w)
  BY <1>1, <1>2, <1>3, <1>5 DEF LastingOK
<1>7. FreshDecisions(w) /\ FreshRequests(w) /\ FreshState(w)
  BY <1>1, <1>3 DEF FreshDecisions, FreshRequests, FreshState
<1> QED
  BY <1>6, <1>7 DEF FreshOK

LEMMA ReviewDecisionsAreGood ==
    ASSUME GovernanceInv, NEW i \in DOMAIN reviews, NEW u \in Users,
           NEW verdict \in {"approved", "rejected"}, NEW w \in ReviewDecisions(i, u, verdict)
    PROVE  LastingOK(w) /\ FreshOK(w)
<1>1. /\ w.state \subseteq {"stale", "technically_approved", "development"}
      /\ w.config = {} /\ w.required = {} /\ w.approval = {}
      /\ w.newReview = {} /\ w.newApproval = {}
      /\ \E st \in Decided : w.review = {<<i, st>>}
      /\ reviews[i].status = "pending"
  <2>1. /\ reviews[i].status = "pending"
        /\ \/ w = [NoWrites EXCEPT !.review = Stale({i}), !.state = {"stale"} \ {state}]
           \/ w = [NoWrites EXCEPT !.review = {<<i, verdict>>},
                                   !.state = Verdict(verdict, "technically_approved")]
    BY DEF ReviewDecisions
  <2>2. Stale({i}) = {<<i, "stale">>} /\ "stale" \in Decided /\ verdict \in Decided
    BY DEF Stale, Decided
  <2>3. Verdict(verdict, "technically_approved") \subseteq {"technically_approved", "development"}
    BY DEF Verdict
  <2>4. CASE w = [NoWrites EXCEPT !.review = Stale({i}), !.state = {"stale"} \ {state}]
    BY <2>1, <2>2, <2>4 DEF NoWrites
  <2>5. CASE w = [NoWrites EXCEPT !.review = {<<i, verdict>>},
                                  !.state = Verdict(verdict, "technically_approved")]
    BY <2>1, <2>2, <2>3, <2>5 DEF NoWrites
  <2> QED
    BY <2>1, <2>4, <2>5
<1>2. LastingOK(w)
  BY <1>1 DEF LastingOK, States
<1>3. i \in With(reviews, "pending")
  BY <1>1 DEF With
<1>4. FreshDecisions(w)
  BY <1>1, <1>3 DEF FreshDecisions
<1>5. FreshRequests(w) /\ FreshState(w)
  BY <1>1 DEF FreshRequests, FreshState
<1> QED
  BY <1>2, <1>4, <1>5 DEF FreshOK

LEMMA ApprovalRequestsAreGood ==
    ASSUME GovernanceInv, NEW u \in Users, NEW v \in Users, NEW w \in ApprovalRequests(u, v)
    PROVE  LastingOK(w) /\ FreshOK(w)
<1> DEFINE reviewed == With(reviews, "approved")
           row == [review |-> Latest(reviewed), requester |-> u, approver |-> v,
                   status |-> "pending"]
<1>1. /\ w.state = {} /\ w.config = {} /\ w.required = {} /\ w.review = {} /\ w.approval = {}
      /\ w.newReview = {} /\ w.newApproval = {row}
      /\ required /\ u # v /\ reviewed # {} /\ v # reviews[Latest(reviewed)].reviewer
      /\ With(approvals, "pending") = {} /\ state = "technically_approved"
  BY DEF ApprovalRequests, NoWrites
<1>2. Latest(reviewed) \in reviewed
  BY <1>1, LatestRow DEF GovernanceInv
<1>3. Latest(reviewed) \in Nat /\ Latest(reviewed) \in DOMAIN reviews
      /\ reviews[Latest(reviewed)].status = "approved"
  BY <1>2, PlainTypes DEF GovernanceInv, With
<1>4. /\ row \in ApprovalRow /\ row.status = "pending" /\ row.review = Latest(reviewed)
      /\ row.requester = u /\ row.approver = v
  BY <1>3 DEF ApprovalRow, Statuses
<1> HIDE DEF row, reviewed
<1>5. LastingOK(w)
  BY <1>1, <1>3, <1>4 DEF LastingOK
<1>6. FreshDecisions(w) /\ FreshRequests(w) /\ FreshState(w)
  BY <1>1, <1>3, <1>4 DEF FreshDecisions, FreshRequests, FreshState
<1> QED
  BY <1>5, <1>6 DEF FreshOK

LEMMA ApprovalDecisionsAreGood ==
    ASSUME GovernanceInv, NEW i \in DOMAIN approvals, NEW u \in Users,
           NEW verdict \in {"approved", "rejected"}, NEW w \in ApprovalDecisions(i, u, verdict)
    PROVE  LastingOK(w) /\ FreshOK(w)
<1>1. /\ approvals[i].status = "pending" /\ required
      /\ w.config = {} /\ w.required = {} /\ w.review = {}
      /\ w.newReview = {} /\ w.newApproval = {}
      /\ w.state \subseteq {"stale", "approved", "development"}
      /\ \E st \in Decided : /\ w.approval = {<<i, st>>}
                             /\ st = "approved" => Revision(approvals[i]) = definition
                             /\ "approved" \in w.state => st = "approved"
  <2>1. /\ approvals[i].status = "pending" /\ required
        /\ \/ w = [NoWrites EXCEPT !.approval = Stale({i}), !.state = {"stale"} \ {state}]
           \/ /\ w = [NoWrites EXCEPT !.approval = {<<i, verdict>>},
                                      !.state = Verdict(verdict, "approved")]
              /\ Revision(approvals[i]) = definition
    BY DEF ApprovalDecisions
  <2>2. Stale({i}) = {<<i, "stale">>} /\ "stale" \in Decided /\ verdict \in Decided
    BY DEF Stale, Decided
  <2>3. /\ Verdict(verdict, "approved") \subseteq {"approved", "development"}
        /\ "approved" \in Verdict(verdict, "approved") => verdict = "approved"
    BY DEF Verdict
  <2>4. CASE w = [NoWrites EXCEPT !.approval = Stale({i}), !.state = {"stale"} \ {state}]
    BY <2>1, <2>2, <2>4 DEF NoWrites
  <2>5. CASE /\ w = [NoWrites EXCEPT !.approval = {<<i, verdict>>},
                                     !.state = Verdict(verdict, "approved")]
             /\ Revision(approvals[i]) = definition
    BY <2>1, <2>2, <2>3, <2>5 DEF NoWrites
  <2> QED
    BY <2>1, <2>4, <2>5
<1>2. LastingOK(w)
  BY <1>1 DEF LastingOK, States
<1>3. i \in With(approvals, "pending")
  BY <1>1 DEF With
<1>4. FreshDecisions(w)
  BY <1>1, <1>3 DEF FreshDecisions
<1>5. "approved" \in w.state => w.approval # {} /\ \A m \in w.approval : m[2] = "approved"
  <2>1. PICK st \in Decided : /\ w.approval = {<<i, st>>}
                              /\ "approved" \in w.state => st = "approved"
    BY <1>1
  <2>2. ASSUME NEW m \in w.approval, "approved" \in w.state
        PROVE  m[2] = "approved"
    <3>1. m = <<i, st>> /\ st = "approved"
      BY <2>1, <2>2
    <3>2. m[2] = st
      BY <3>1
    <3> QED
      BY <3>1, <3>2
  <2>3. w.approval # {}
    BY <2>1
  <2> QED
    BY <2>2, <2>3
<1>6. FreshRequests(w) /\ FreshState(w)
  BY <1>1, <1>5 DEF FreshRequests, FreshState
<1> QED
  BY <1>2, <1>4, <1>6 DEF FreshOK

LEMMA SupportIsPending ==
    ASSUME Types
    PROVE  /\ SupportOf.review \subseteq With(reviews, "pending")
           /\ SupportOf.approval \subseteq With(approvals, "pending")
           /\ state = "approved" => SupportOf.revision = ApprovedRevision
<1>1. CASE state = "review_requested"
  BY <1>1 DEF SupportOf
<1>2. CASE state = "technically_approved" /\ With(approvals, "pending") # {}
  BY <1>2, LatestRow DEF SupportOf
<1>3. CASE state = "technically_approved" /\ With(approvals, "pending") = {}
  BY <1>3 DEF SupportOf
<1>4. CASE state \notin {"review_requested", "technically_approved"}
  BY <1>4 DEF SupportOf
<1> QED
  BY <1>1, <1>2, <1>3, <1>4

LEMMA ProjectEditsAreGood ==
    ASSUME GovernanceInv, NEW c \in Configs, NEW w \in ProjectEdits(c)
    PROVE  LastingOK(w) /\ FreshOK(w)
<1> DEFINE stale == fourEyes /\ required /\ state \notin {"development", "stale"}
                    /\ <<c, definition[2]>> \notin SupportOf.revision
<1>1. /\ w.config = {c} /\ w.state = (IF stale THEN {"stale"} ELSE {}) /\ w.required = {}
      /\ w.review = (IF stale THEN Stale(SupportOf.review) ELSE {})
      /\ w.approval = (IF stale THEN Stale(SupportOf.approval) ELSE {})
      /\ w.newReview = {} /\ w.newApproval = {}
  BY DEF ProjectEdits, NoWrites
<1>2. /\ \A m \in w.review : m[2] = "stale" /\ m[1] \in With(reviews, "pending")
      /\ \A m \in w.approval : m[2] = "stale" /\ m[1] \in With(approvals, "pending")
  BY <1>1, StaleMarks, SupportIsPending DEF GovernanceInv
<1>3. LastingOK(w)
  BY <1>1, <1>2 DEF LastingOK, States, Decided
<1>4. FreshDecisions(w)
  BY <1>2 DEF FreshDecisions
<1>5. (w.state = {} /\ state = "approved" /\ fourEyes /\ required) =>
         <<c, definition[2]>> \in ApprovedRevision
  BY <1>1, SupportIsPending DEF GovernanceInv
<1>6. "approved" \notin w.state
  BY <1>1
<1> HIDE DEF stale
<1>7. FreshRequests(w) /\ FreshState(w)
  BY <1>1, <1>5, <1>6 DEF FreshRequests, FreshState
<1> QED
  BY <1>3, <1>4, <1>7 DEF FreshOK

LEMMA ExemptionsAreGood ==
    ASSUME GovernanceInv, NEW w \in Exemptions
    PROVE  LastingOK(w) /\ (NoRace => FreshOK(w))
<1> DEFINE lastReview == {i \in With(reviews, "pending") : i = Latest(With(reviews, "pending"))}
           lastApproval == {i \in With(approvals, "pending") : i = Latest(With(approvals, "pending"))}
<1>1. /\ w.config = {} /\ w.state = {"development"} \ {state} /\ w.required = {FALSE}
      /\ w.review = Stale(lastReview) /\ w.approval = Stale(lastApproval)
      /\ w.newReview = {} /\ w.newApproval = {}
  BY DEF Exemptions, NoWrites
<1>2. lastReview = With(reviews, "pending")
  BY LatestRow DEF GovernanceInv, OnePendingReview
<1>3. NoRace => lastApproval = With(approvals, "pending")
  BY LatestRow DEF GovernanceInv, RecordsInv
<1>4. lastApproval \subseteq With(approvals, "pending")
  OBVIOUS
<1> HIDE DEF lastReview, lastApproval
<1>5. /\ \A m \in w.review : m[2] = "stale" /\ m[1] \in With(reviews, "pending")
      /\ \A m \in w.approval : m[2] = "stale" /\ m[1] \in With(approvals, "pending")
      /\ \A i \in With(reviews, "pending") : \E m \in w.review : m[1] = i
      /\ NoRace => \A i \in With(approvals, "pending") : \E m \in w.approval : m[1] = i
  BY <1>1, <1>2, <1>3, <1>4, StaleMarks
<1>6. LastingOK(w)
  BY <1>1, <1>5 DEF LastingOK, States, Decided
<1>7. FreshDecisions(w)
  BY <1>5 DEF FreshDecisions
<1>8. NoRace => FreshRequests(w) /\ FreshState(w)
  BY <1>1, <1>5 DEF FreshRequests, FreshState
<1> QED
  BY <1>6, <1>7, <1>8 DEF FreshOK

LEMMA ReinstatementsAreGood ==
    ASSUME GovernanceInv, NEW w \in Reinstatements
    PROVE  LastingOK(w) /\ FreshOK(w)
<1>1. /\ w.config = {} /\ w.required = {TRUE} /\ w.review = {} /\ w.approval = {}
      /\ w.state \subseteq {"approved", "development"}
      /\ "approved" \in w.state => definition \in ApprovedRevision
      /\ w.newReview = {} /\ w.newApproval = {}
  <2> DEFINE new == IF definition \in ApprovedRevision THEN "approved" ELSE "development"
  <2>1. w = [NoWrites EXCEPT !.required = {TRUE}, !.state = {new} \ {state}]
    BY DEF Reinstatements
  <2>2. new \in {"approved", "development"} /\ (new = "approved" => definition \in ApprovedRevision)
    OBVIOUS
  <2> HIDE DEF new
  <2>3. w.state = {new} \ {state}
    BY <2>1 DEF NoWrites
  <2>4. /\ w.config = {} /\ w.required = {TRUE} /\ w.review = {} /\ w.approval = {}
        /\ w.newReview = {} /\ w.newApproval = {}
    BY <2>1 DEF NoWrites
  <2> QED
    BY <2>2, <2>3, <2>4
<1>2. LastingOK(w)
  BY <1>1 DEF LastingOK, States
<1>3. FreshDecisions(w) /\ FreshRequests(w)
  BY <1>1 DEF FreshDecisions, FreshRequests
<1>4. {TRUE} # {FALSE}
  OBVIOUS
<1>5. FreshState(w)
  BY <1>1, <1>4, Zenon DEF FreshState
<1> QED
  BY <1>2, <1>3, <1>5 DEF FreshOK

-----------------------------------------------------------------------------
(* What a write keeps that commits before any other one.                   *)

LEMMA NewApprovalIsNext ==
    ASSUME Types, NEW w, LastingOK(w), Write(w), NEW i \in DOMAIN approvals', i \notin DOMAIN approvals
    PROVE  i = Len(approvals) + 1 /\ w.newApproval # {}
<1>1. /\ DOMAIN approvals' = 1..Len(approvals') /\ DOMAIN approvals = 1..Len(approvals)
      /\ Len(approvals) \in Nat
  BY WriteApprovals, PlainTypes
<1>2. /\ w.newApproval = {} => Len(approvals') = Len(approvals)
      /\ w.newApproval # {} => Len(approvals') = Len(approvals) + 1
  BY WriteApprovals
<1>3. w.newApproval # {}
  BY <1>1, <1>2
<1>4. Len(approvals') = Len(approvals) + 1
  BY <1>2, <1>3
<1>5. i \in 1..(Len(approvals) + 1) /\ i \notin 1..Len(approvals)
  BY <1>1, <1>4
<1> QED
  BY <1>1, <1>3, <1>5

LEMMA DecidedRowsStay ==
    ASSUME Types, NEW w, LastingOK(w), FreshDecisions(w), Write(w)
    PROVE  /\ \A i \in DOMAIN reviews : reviews[i].status # "pending" => reviews'[i] = reviews[i]
           /\ \A i \in DOMAIN approvals :
                 approvals[i].status # "pending" => approvals'[i] = approvals[i]
BY WriteReviews, WriteApprovals DEF FreshDecisions, With

LEMMA FreshWriteKeepsRecords ==
    ASSUME Types, RecordsInv, NEW w, LastingOK(w), FreshOK(w), Write(w)
    PROVE  RecordsInv'
<1>a. FreshDecisions(w) /\ FreshRequests(w) /\ FreshState(w)
  BY DEF FreshOK
<1>b. /\ DOMAIN approvals' = 1..Len(approvals') /\ DOMAIN approvals = 1..Len(approvals)
      /\ Len(approvals) \in Nat /\ Len(approvals') \in Nat
      /\ DOMAIN approvals \subseteq DOMAIN approvals'
  BY WriteApprovals, PlainTypes
<1>1. ASSUME NEW i \in DOMAIN approvals'
      PROVE  reviews'[approvals'[i].review].status = "approved"
  <2>1. CASE i \in DOMAIN approvals
    <3>1. approvals'[i].review = approvals[i].review /\ approvals[i].review \in DOMAIN reviews
      BY <2>1, WriteApprovals DEF Types
    <3>2. reviews[approvals[i].review].status = "approved"
      BY <2>1 DEF RecordsInv
    <3> QED
      BY <1>a, <3>1, <3>2, DecidedRowsStay
  <2>2. CASE i \notin DOMAIN approvals
    <3>1. i = Len(approvals) + 1 /\ w.newApproval # {}
      BY <2>2, NewApprovalIsNext
    <3>2. PICK a \in w.newApproval : approvals'[i] = a
      BY <3>1, WriteApprovals
    <3>3. a.review \in DOMAIN reviews /\ reviews[a.review].status = "approved"
      BY <1>a, <3>2 DEF LastingOK, FreshRequests
    <3> QED
      BY <1>a, <3>2, <3>3, DecidedRowsStay
  <2> QED
    BY <2>1, <2>2
<1>2. ASSUME NEW i \in With(approvals, "pending")'
      PROVE  i = Len(approvals')
  <2>1. Len(approvals') = IF w.newApproval = {} THEN Len(approvals) ELSE Len(approvals) + 1
    BY WriteApprovals
  <2>2. CASE i = Len(approvals) + 1 /\ w.newApproval # {}
    BY <2>1, <2>2
  <2>3. CASE i \in With(approvals, "pending")
    <3>1. w.newApproval = {} /\ i = Len(approvals)
      BY <1>a, <2>3 DEF FreshRequests, RecordsInv
    <3> QED
      BY <2>1, <3>1
  <2> QED
    BY <2>2, <2>3, PendingAfterWrite
<1>3. ASSUME ~required'
      PROVE  state' # "approved" /\ With(reviews, "pending")' = {} /\ With(approvals, "pending")' = {}
  <2>1. w.required = {FALSE} \/ (w.required = {} /\ ~required)
    BY <1>a, <1>3, WriteProject DEF FreshState
  <2>2. w.newReview = {} /\ w.newApproval = {}
    BY <1>a, <2>1 DEF FreshRequests
  <2>3. CASE w.required = {FALSE}
    <3>1. state' = "development"
      BY <1>a, <2>3, WriteProject DEF FreshState
    <3>2. /\ \A i \in With(reviews, "pending") : \E m \in w.review : m[1] = i
          /\ \A i \in With(approvals, "pending") : \E m \in w.approval : m[1] = i
      BY <1>a, <2>3 DEF FreshState
    <3> QED
      BY <2>2, <3>1, <3>2, PendingAfterWrite
  <2>4. CASE w.required = {} /\ ~required
    <3>1. "approved" \notin w.state
      <4>1. w.required # {TRUE}
        BY <2>4
      <4> QED
        BY <1>a, <2>4, <4>1 DEF FreshState
    <3>2. state # "approved" /\ With(reviews, "pending") = {} /\ With(approvals, "pending") = {}
      BY <2>4 DEF RecordsInv
    <3>3. state' # "approved"
      BY <3>1, <3>2, WriteProject
    <3> QED
      BY <2>2, <3>2, <3>3, PendingAfterWrite
  <2> QED
    BY <2>1, <2>3, <2>4
<1>4. ASSUME state' = "approved"
      PROVE  With(approvals, "approved")' # {}
  <2>1. \A i \in With(approvals, "approved") : i \in With(approvals, "approved")'
    BY <1>a, <1>b, DecidedRowsStay DEF With
  <2>2. CASE w.state = {}
    <3>1. With(approvals, "approved") # {}
      BY <1>4, <2>2, WriteProject DEF RecordsInv
    <3> QED
      BY <2>1, <3>1
  <2>3. CASE w.state # {}
    <3>1. "approved" \in w.state
      BY <1>4, <2>3, WriteProject
    <3>2. CASE w.approval # {} /\ \A m \in w.approval : m[2] = "approved"
      <4>1. PICK m \in w.approval : m[1] \in DOMAIN approvals
        BY <1>a, <3>2, PlainTypes DEF FreshDecisions
      <4>2. approvals'[m[1]].status = "approved"
        BY <3>2, <4>1, WriteApprovals
      <4> QED
        BY <1>b, <4>1, <4>2 DEF With
    <3>3. CASE definition \in ApprovedRevision
      BY <2>1, <3>3 DEF ApprovedRevision
    <3> QED
      BY <1>a, <3>1, <3>2, <3>3 DEF FreshState
  <2> QED
    BY <2>2, <2>3
<1> QED
  BY <1>1, <1>2, <1>3, <1>4 DEF RecordsInv

LEMMA FreshWriteKeepsEdits ==
    ASSUME Types, RecordsInv, EditsAreNoticed, NEW w, LastingOK(w), FreshOK(w), Write(w),
           lapses = {}, w.config = {} \/ fourEyes, state' = "approved"
    PROVE  \E d \in ApprovedRevision' : d[1] = definition'[1]
<1>a. FreshDecisions(w) /\ FreshRequests(w) /\ FreshState(w)
  BY DEF FreshOK
<1>b. /\ DOMAIN approvals' = 1..Len(approvals') /\ DOMAIN approvals = 1..Len(approvals)
      /\ Len(approvals) \in Nat /\ Len(approvals') \in Nat
      /\ DOMAIN approvals \subseteq DOMAIN approvals'
  BY WriteApprovals, PlainTypes
<1>c. \A i \in DOMAIN approvals : Revision(approvals[i])' = Revision(approvals[i])
  <2> TAKE i \in DOMAIN approvals
  <2>1. approvals'[i].review = approvals[i].review /\ approvals[i].review \in DOMAIN reviews
    BY WriteApprovals DEF Types
  <2> QED
    BY <2>1, WriteReviews DEF Revision
<1>1. CASE \E m \in w.approval : m[2] = "approved"
  <2>1. PICK m \in w.approval : m[2] = "approved"
    BY <1>1
  <2>2. /\ m[1] \in With(approvals, "pending") /\ w.approval = {m} /\ w.config = {}
        /\ Revision(approvals[m[1]]) = definition
    BY <1>a, <2>1 DEF FreshDecisions
  <2>3. m[1] \in DOMAIN approvals /\ m[1] = Len(approvals)
    BY <2>2, PlainTypes DEF RecordsInv
  <2>4. Len(approvals') = Len(approvals)
    BY <1>a, <2>2, WriteApprovals DEF FreshRequests
  <2>5. Len(approvals) \in With(approvals, "approved")'
    <3>1. approvals'[m[1]].status = "approved"
      BY <2>1, <2>2, <2>3, WriteApprovals
    <3> QED
      BY <1>b, <2>3, <3>1 DEF With
  <2>6. Latest(With(approvals, "approved"))' = Len(approvals)
    <3>1. With(approvals, "approved")' \subseteq 1..Len(approvals)
      BY <1>b, <2>4 DEF With
    <3>2. PICK S : S = With(approvals, "approved")'
      OBVIOUS
    <3>3. Latest(S) \in S /\ \A j \in S : j <= Latest(S)
      BY <1>b, <2>5, <3>1, <3>2, LatestIsLatest
    <3>4. Latest(S) = Len(approvals)
      BY <1>b, <2>5, <3>1, <3>2, <3>3
    <3>5. Latest(With(approvals, "approved"))' = Latest(S)
      BY <3>2 DEF Latest
    <3> QED
      BY <3>4, <3>5
  <2>7. ApprovedRevision' = {Revision(approvals[Len(approvals)])'}
    BY <2>4, <2>5, <2>6 DEF ApprovedRevision
  <2>8. Revision(approvals[Len(approvals)])' = definition
    BY <1>c, <2>2, <2>3, <2>4
  <2>9. definition' = definition
    BY <2>2, WriteProject
  <2> QED
    BY <2>7, <2>8, <2>9
<1>2. CASE \A m \in w.approval : m[2] # "approved"
  <2>1. With(approvals, "approved")' = With(approvals, "approved")
    <3>1. \A i \in With(approvals, "approved") : i \in With(approvals, "approved")'
      BY <1>a, <1>b, DecidedRowsStay DEF With
    <3>2. ASSUME NEW i \in With(approvals, "approved")'
          PROVE  i \in With(approvals, "approved")
      <4>1. i \in DOMAIN approvals' /\ approvals'[i].status = "approved"
        BY <3>2 DEF With
      <4>2. i \in DOMAIN approvals
        <5>1. SUFFICES ASSUME i \notin DOMAIN approvals PROVE FALSE
          OBVIOUS
        <5>2. i = Len(approvals) + 1 /\ w.newApproval # {}
          BY <4>1, <5>1, NewApprovalIsNext
        <5>3. approvals'[i].status = "pending"
          BY <5>2, WriteApprovals DEF LastingOK
        <5> QED
          BY <4>1, <5>3
      <4>3. \A m \in w.approval : m[1] # i
        BY <1>2, <4>1, <4>2, WriteApprovals
      <4> QED
        BY <4>1, <4>2, <4>3, WriteApprovals DEF With
    <3> QED
      BY <3>1, <3>2
  <2>2. ApprovedRevision' = ApprovedRevision
    <3>1. CASE With(approvals, "approved") = {}
      BY <2>1, <3>1 DEF ApprovedRevision
    <3>2. CASE With(approvals, "approved") # {}
      <4>1. Latest(With(approvals, "approved")) \in DOMAIN approvals
        BY <3>2, LatestRow, PlainTypes
      <4>2. Latest(With(approvals, "approved"))' = Latest(With(approvals, "approved"))
        BY <2>1 DEF Latest
      <4> QED
        BY <1>c, <2>1, <3>2, <4>1, <4>2 DEF ApprovedRevision
    <3> QED
      BY <3>1, <3>2
  <2>3. CASE "approved" \in w.state
    <3>1. definition \in ApprovedRevision /\ w.config = {}
      BY <1>a, <1>2, <2>3 DEF FreshState
    <3> QED
      BY <2>2, <3>1, WriteProject
  <2>4. CASE "approved" \notin w.state
    <3>1. w.state = {} /\ state = "approved"
      BY <2>4, WriteProject
    <3>2. required
      BY <3>1 DEF RecordsInv
    <3>3. PICK d \in ApprovedRevision : d[1] = definition[1]
      BY <3>1 DEF EditsAreNoticed
    <3>4. CASE w.config = {}
      BY <2>2, <3>3, <3>4, WriteProject
    <3>5. CASE w.config # {}
      <4>1. PICK c \in w.config : definition' = <<c, definition[2]>>
        BY <3>5, WriteProject
      <4>2. <<c, definition[2]>> \in ApprovedRevision
        BY <1>a, <3>1, <3>2, <3>5, <4>1 DEF FreshState
      <4> QED
        BY <2>2, <4>1, <4>2
    <3> QED
      BY <3>4, <3>5
  <2> QED
    BY <2>3, <2>4
<1> QED
  BY <1>1, <1>2

-----------------------------------------------------------------------------
(* Steps.                                                                  *)

LaunchType == [at : {"rest", "passed"}, route : AllRoutes, applies : BOOLEAN,
               covered : SUBSET Definitions, changed : BOOLEAN]

LEMMA WriteKeepsLaunch ==
    ASSUME Types, LaunchInv, NEW w, LastingOK(w), Write(w)
    PROVE  launch' \in LaunchType /\ LaunchInv'
<1> DEFINE flag == launch.changed \/ w.config # {}
<1>0. launch \in LaunchType /\ flag \in BOOLEAN
  BY DEF Types, LaunchType
<1>1. jobs' = jobs /\ (w.config = {} => definition' = definition)
  BY WriteProject
<1>2. launch' = IF launch.at = "rest" THEN launch ELSE [launch EXCEPT !.changed = flag]
  BY DEF Write
<1>3. w.config # {} => flag
  OBVIOUS
<1>4. launch.changed => flag
  OBVIOUS
<1> HIDE DEF flag
<1>5. launch' \in LaunchType
  BY <1>0, <1>2 DEF LaunchType
<1>6. CASE launch.at = "rest"
  <2>1. launch' = launch /\ launch'.at # "passed"
    BY <1>2, <1>6
  <2>2. (launch'.at = "passed" /\ launch'.route \in Gated /\ launch'.applies) =>
           definition' \in launch'.covered \/ launch'.changed
    BY <2>1
  <2> QED
    BY <1>1, <1>5, <2>2 DEF LaunchInv, GatedJobsRunApprovedWork
<1>7. CASE launch.at # "rest"
  <2>1. /\ launch'.at = launch.at /\ launch'.route = launch.route
        /\ launch'.applies = launch.applies /\ launch'.covered = launch.covered
    BY <1>0, <1>2, <1>7 DEF LaunchType
  <2>2. launch'.changed = flag
    BY <1>0, <1>2, <1>7 DEF LaunchType
  <2>3. w.config # {} => launch'.changed
    BY <1>3, <2>2
  <2>4. launch.changed => launch'.changed
    BY <1>4, <2>2
  <2>5. (launch'.at = "passed" /\ launch'.route \in Gated /\ launch'.applies) =>
           definition' \in launch'.covered \/ launch'.changed
    BY <1>1, <2>1, <2>3, <2>4 DEF LaunchInv
  <2> QED
    BY <1>1, <1>5, <2>5 DEF LaunchInv, GatedJobsRunApprovedWork
<1> QED
  BY <1>5, <1>6, <1>7

\* Crossing a request that is under way.
LEMMA CrossSlow ==
    ASSUME Types, NEW flag \in BOOLEAN, slow' = [slow EXCEPT !.crossed = flag]
    PROVE  /\ slow'.busy = slow.busy /\ slow'.crossed = flag /\ slow'.writes = slow.writes
           /\ slow'.busy \in BOOLEAN /\ slow'.crossed \in BOOLEAN
           /\ slow' = [busy |-> slow'.busy, crossed |-> slow'.crossed, writes |-> slow'.writes]
<1>1. slow = [busy |-> slow.busy, crossed |-> slow.crossed, writes |-> slow.writes]
  BY DEF Types
<1>2. slow' = [busy |-> slow.busy, crossed |-> flag, writes |-> slow.writes]
  BY <1>1
<1>3. slow'.busy = slow.busy /\ slow'.writes = slow.writes
  BY <1>2
<1>4. slow'.crossed = flag
  BY <1>2
<1>5. slow' = [busy |-> slow'.busy, crossed |-> slow'.crossed, writes |-> slow'.writes]
  BY <1>2, <1>3, <1>4
<1>6. slow.busy \in BOOLEAN
  BY DEF Types
<1> QED
  BY <1>3, <1>4, <1>5, <1>6

\* A write of a request on which nothing was committed since it read, or that finds
\* requests racing.
LEMMA WriteKeepsHistory ==
    ASSUME GovernanceInv, NEW w, LastingOK(w), Write(w),
           NoRace' => NoRace /\ FreshOK(w),
           lapses' = {} => lapses = {} /\ (w.config = {} \/ fourEyes)
    PROVE  (NoRace' => RecordsInv') /\ EditsAreNoticed'
<1>1. ASSUME NoRace'
      PROVE  RecordsInv'
  BY <1>1, FreshWriteKeepsRecords DEF GovernanceInv
<1>2. ASSUME state' = "approved", lapses' = {}
      PROVE  \E d \in ApprovedRevision' : d[1] = definition'[1]
  <2>1. NoRace'
    BY <1>2 DEF NoRace
  <2> QED
    BY <1>2, <2>1, FreshWriteKeepsEdits DEF GovernanceInv
<1> QED
  BY <1>1, <1>2 DEF EditsAreNoticed

LEMMA CommitKeepsInv ==
    ASSUME GovernanceInv, NEW w, LastingOK(w), NoRace => FreshOK(w), Commit(w)
    PROVE  GovernanceInv'
<1>a. Write(w) /\ slow' = [slow EXCEPT !.crossed = slow.busy] /\ lapses' = lapses \cup Suspended(w)
  BY DEF Commit
<1>b. Types /\ TwoPairsOfEyes /\ OnePendingReview /\ LaunchInv /\ SlowInv
  BY DEF GovernanceInv
<1>1. /\ slow'.busy = slow.busy /\ slow'.crossed = slow.busy /\ slow'.writes = slow.writes
      /\ slow'.busy \in BOOLEAN /\ slow'.crossed \in BOOLEAN
      /\ slow' = [busy |-> slow'.busy, crossed |-> slow'.crossed, writes |-> slow'.writes]
  <2>1. slow.busy \in BOOLEAN
    BY <1>b DEF Types
  <2> QED
    BY <1>a, <1>b, <2>1, CrossSlow
<1>2. Types'
  <2>1. lapses' \subseteq {"race", "suspended"}
    BY <1>a, <1>b DEF Types, Suspended
  <2>2. fourEyes' \in BOOLEAN
    BY <1>a, <1>b, WriteProject DEF Types
  <2>3. /\ state' \in States /\ required' \in BOOLEAN /\ definition' \in Definitions
        /\ reviews' \in Seq(ReviewRow) /\ approvals' \in Seq(ApprovalRow)
        /\ \A i \in DOMAIN approvals' : approvals'[i].review \in DOMAIN reviews'
    BY <1>a, <1>b, WriteProject, WriteReviews, WriteApprovals, WriteKeepsRows
  <2>4. launch' \in LaunchType
    BY <1>a, <1>b, WriteKeepsLaunch
  <2> QED
    BY <1>1, <2>1, <2>2, <2>3, <2>4 DEF Types, LaunchType
<1>3. TwoPairsOfEyes' /\ OnePendingReview' /\ LaunchInv'
  BY <1>a, <1>b, WriteKeepsRows, WriteKeepsLaunch
<1>4. SlowInv'
  <2>1. PICK v : v = slow.writes
    OBVIOUS
  <2>2. slow.busy => LastingOK(v)
    BY <1>b, <2>1 DEF SlowInv
  <2>3. slow.busy => LastingOK(v)'
    BY <1>a, <1>b, <2>2, LastingLasts
  <2>4. slow'.writes = v
    BY <1>1, <2>1
  <2>5. slow'.busy => LastingOK(slow.writes)'
    BY <1>1, <2>3, <2>4 DEF LastingOK
  <2> QED
    BY <1>1, <2>5 DEF SlowInv
<1>5. (NoRace' => RecordsInv') /\ EditsAreNoticed'
  <2>1. NoRace' => NoRace /\ FreshOK(w)
    BY <1>a DEF NoRace
  <2>2. lapses' = {} => lapses = {} /\ (w.config = {} \/ fourEyes)
    BY <1>a DEF Suspended
  <2> QED
    BY <1>a, <2>1, <2>2, WriteKeepsHistory
<1> QED
  BY <1>2, <1>3, <1>4, <1>5 DEF GovernanceInv

LEMMA SameRows ==
    ASSUME UNCHANGED <<reviews, approvals>>
    PROVE  /\ With(reviews, "pending")' = With(reviews, "pending")
           /\ With(approvals, "pending")' = With(approvals, "pending")
           /\ With(approvals, "approved")' = With(approvals, "approved")
           /\ ApprovedRevision' = ApprovedRevision
<1>1. /\ With(reviews, "pending")' = With(reviews, "pending")
      /\ With(approvals, "pending")' = With(approvals, "pending")
      /\ With(approvals, "approved")' = With(approvals, "approved")
  BY DEF With
<1>2. Latest(With(approvals, "approved"))' = Latest(With(approvals, "approved"))
  BY <1>1 DEF Latest
<1>3. Revision(approvals[Latest(With(approvals, "approved"))])'
      = Revision(approvals[Latest(With(approvals, "approved"))])
  BY <1>2 DEF Revision
<1>4. ApprovedRevision' = ApprovedRevision
  BY <1>1, <1>3 DEF ApprovedRevision
<1> QED
  BY <1>1, <1>4

LEMMA FreshStays ==
    ASSUME NEW v, FreshOK(v),
           UNCHANGED <<fourEyes, required, state, definition, reviews, approvals>>
    PROVE  FreshOK(v)'
<1>1. FreshDecisions(v)'
  BY SameRows DEF FreshOK, FreshDecisions, Revision
<1>2. FreshRequests(v)'
  BY SameRows DEF FreshOK, FreshRequests
<1>3. FreshState(v)'
  BY SameRows DEF FreshOK, FreshState
<1> QED
  BY <1>1, <1>2, <1>3 DEF FreshOK

LEMMA RowsStay ==
    ASSUME GovernanceInv, UNCHANGED <<required, state, reviews, approvals, lapses>>
    PROVE  /\ TwoPairsOfEyes' /\ OnePendingReview' /\ (NoRace' => RecordsInv')
           /\ definition'[1] = definition[1] => EditsAreNoticed'
<1>1. TwoPairsOfEyes' /\ OnePendingReview'
  BY SameRows DEF GovernanceInv, TwoPairsOfEyes, OnePendingReview
<1>2. NoRace' => RecordsInv'
  BY SameRows DEF GovernanceInv, NoRace, RecordsInv
<1>3. definition'[1] = definition[1] => EditsAreNoticed'
  BY SameRows DEF GovernanceInv, EditsAreNoticed
<1> QED
  BY <1>1, <1>2, <1>3

LEMMA DelayKeepsInv ==
    ASSUME GovernanceInv, NEW w, LastingOK(w), NoRace => FreshOK(w), Delay(w)
    PROVE  GovernanceInv'
<1>a. /\ slow' = [busy |-> TRUE, crossed |-> FALSE, writes |-> w]
      /\ UNCHANGED <<fourEyes, required, state, definition, reviews, approvals, launch, jobs, lapses>>
  BY DEF Delay
<1>1. /\ slow'.busy = TRUE /\ slow'.crossed = FALSE /\ slow'.writes = w
      /\ slow' = [busy |-> slow'.busy, crossed |-> slow'.crossed, writes |-> slow'.writes]
  BY <1>a
<1>2. Types'
  BY <1>a, <1>1 DEF GovernanceInv, Types
<1>3. SlowInv'
  <2>1. LastingOK(w)'
    BY <1>a, LastingLasts DEF GovernanceInv
  <2>2. NoRace' => FreshOK(w)'
    BY <1>a, FreshStays DEF NoRace
  <2>3. LastingOK(slow.writes)'
    BY <1>1, <2>1 DEF LastingOK
  <2>4. NoRace' => FreshOK(slow.writes)'
    BY <1>1, <2>2 DEF FreshOK, FreshDecisions, FreshRequests, FreshState
  <2> QED
    BY <2>3, <2>4 DEF SlowInv
<1>4. LaunchInv'
  BY <1>a DEF GovernanceInv, LaunchInv, GatedJobsRunApprovedWork
<1> QED
  BY <1>a, <1>2, <1>3, <1>4, RowsStay DEF GovernanceInv

\* Any request, whether it commits at once or is slow.
LEMMA SubmitKeepsInv ==
    ASSUME GovernanceInv, NEW w, LastingOK(w), NoRace => FreshOK(w), Submit(w)
    PROVE  GovernanceInv'
BY CommitKeepsInv, DelayKeepsInv DEF Submit

LEMMA RequestsKeepInv ==
    ASSUME GovernanceInv,
           \/ RequestReview \/ DecideReview \/ RequestApproval \/ DecideApproval
           \/ EditProject \/ ExemptProject \/ ReinstateProject
    PROVE  GovernanceInv'
<1>1. CASE RequestReview
  BY <1>1, ReviewRequestsAreGood, SubmitKeepsInv DEF RequestReview
<1>2. CASE DecideReview
  BY <1>2, ReviewDecisionsAreGood, SubmitKeepsInv DEF DecideReview
<1>3. CASE RequestApproval
  BY <1>3, ApprovalRequestsAreGood, SubmitKeepsInv DEF RequestApproval
<1>4. CASE DecideApproval
  BY <1>4, ApprovalDecisionsAreGood, SubmitKeepsInv DEF DecideApproval
<1>5. CASE EditProject
  BY <1>5, ProjectEditsAreGood, SubmitKeepsInv DEF EditProject
<1>6. CASE ExemptProject
  BY <1>6, ExemptionsAreGood, SubmitKeepsInv DEF ExemptProject
<1>7. CASE ReinstateProject
  BY <1>7, ReinstatementsAreGood, SubmitKeepsInv DEF ReinstateProject
<1> QED
  BY <1>1, <1>2, <1>3, <1>4, <1>5, <1>6, <1>7

LEMMA CommitSlowKeepsInv ==
    ASSUME GovernanceInv, CommitSlow
    PROVE  GovernanceInv'
<1>a. /\ slow.busy /\ slow' = NoRequest
      /\ lapses' = lapses \cup Suspended(slow.writes) \cup (IF slow.crossed THEN {"race"} ELSE {})
  BY DEF CommitSlow
<1>b. PICK w : w = slow.writes
  OBVIOUS
<1>c. Write(w)
  BY <1>b DEF CommitSlow, Write, Accepted
<1>d. Types /\ TwoPairsOfEyes /\ OnePendingReview /\ LaunchInv /\ SlowInv
  BY DEF GovernanceInv
<1>e. LastingOK(w) /\ (NoRace /\ ~slow.crossed => FreshOK(w))
  BY <1>a, <1>b, <1>d DEF SlowInv
<1>1. /\ slow'.busy = FALSE /\ slow'.crossed = FALSE
      /\ slow' = [busy |-> slow'.busy, crossed |-> slow'.crossed, writes |-> slow'.writes]
  BY <1>a DEF NoRequest
<1>2. Types'
  <2>1. lapses' \subseteq {"race", "suspended"}
    BY <1>a, <1>d DEF Types, Suspended
  <2>2. fourEyes' \in BOOLEAN
    BY <1>c, <1>d, <1>e, WriteProject DEF Types
  <2>3. /\ state' \in States /\ required' \in BOOLEAN /\ definition' \in Definitions
        /\ reviews' \in Seq(ReviewRow) /\ approvals' \in Seq(ApprovalRow)
        /\ \A i \in DOMAIN approvals' : approvals'[i].review \in DOMAIN reviews'
    BY <1>c, <1>d, <1>e, WriteProject, WriteReviews, WriteApprovals, WriteKeepsRows
  <2>4. launch' \in LaunchType
    BY <1>c, <1>d, <1>e, WriteKeepsLaunch
  <2> QED
    BY <1>1, <2>1, <2>2, <2>3, <2>4 DEF Types, LaunchType
<1>3. TwoPairsOfEyes' /\ OnePendingReview' /\ LaunchInv'
  BY <1>c, <1>d, <1>e, WriteKeepsRows, WriteKeepsLaunch
<1>4. SlowInv'
  BY <1>1 DEF SlowInv
<1>5. (NoRace' => RecordsInv') /\ EditsAreNoticed'
  <2>1. NoRace' => NoRace /\ FreshOK(w)
    BY <1>a, <1>e DEF NoRace
  <2>2. lapses' = {} => lapses = {} /\ (w.config = {} \/ fourEyes)
    BY <1>a, <1>b DEF Suspended
  <2> QED
    BY <1>c, <1>e, <2>1, <2>2, WriteKeepsHistory
<1> QED
  BY <1>2, <1>3, <1>4, <1>5 DEF GovernanceInv

LEMMA RollBackKeepsInv ==
    ASSUME GovernanceInv, RollBackSlow
    PROVE  GovernanceInv'
<1>a. slow' = NoRequest /\ UNCHANGED <<fourEyes, required, state, definition, reviews, approvals,
                                       launch, jobs, lapses>>
  BY DEF RollBackSlow
<1>1. /\ slow'.busy = FALSE /\ slow'.crossed = FALSE
      /\ slow' = [busy |-> slow'.busy, crossed |-> slow'.crossed, writes |-> slow'.writes]
  BY <1>a DEF NoRequest
<1>2. Types'
  BY <1>a, <1>1 DEF GovernanceInv, Types
<1>3. SlowInv'
  BY <1>1 DEF SlowInv
<1>4. LaunchInv'
  BY <1>a DEF GovernanceInv, LaunchInv, GatedJobsRunApprovedWork
<1> QED
  BY <1>a, <1>2, <1>3, <1>4, RowsStay DEF GovernanceInv

\* What is under way stays acceptable when it was not crossed, or nothing moved.
LEMMA SlowStays ==
    ASSUME GovernanceInv, UNCHANGED <<reviews, approvals, lapses>>,
           slow'.busy = slow.busy, slow'.writes = slow.writes, slow'.crossed \in BOOLEAN,
           slow.busy /\ ~slow'.crossed =>
               ~slow.crossed /\ UNCHANGED <<fourEyes, required, state, definition>>
    PROVE  SlowInv'
<1>1. PICK v : v = slow.writes
  OBVIOUS
<1>2. ASSUME slow'.busy
      PROVE  LastingOK(slow.writes)' /\ (NoRace' /\ ~slow'.crossed => FreshOK(slow.writes)')
  <2>1. LastingOK(v)'
    BY <1>1, <1>2, LastingLasts DEF GovernanceInv, SlowInv
  <2>2. NoRace' /\ ~slow'.crossed => FreshOK(v)'
    BY <1>1, <1>2, FreshStays DEF GovernanceInv, SlowInv, NoRace
  <2>3. slow'.writes = v
    BY <1>1
  <2>4. LastingOK(slow.writes)'
    BY <2>1, <2>3 DEF LastingOK
  <2>5. FreshOK(v)' => FreshOK(slow.writes)'
    BY <2>3 DEF FreshOK, FreshDecisions, FreshRequests, FreshState
  <2> QED
    BY <2>2, <2>4, <2>5
<1> QED
  BY <1>2 DEF SlowInv

LEMMA ChangesKeepInv ==
    ASSUME GovernanceInv, SyncRepository \/ SwitchWorkflow
    PROVE  GovernanceInv'
<1>a. slow' = [slow EXCEPT !.crossed = slow.busy]
      /\ UNCHANGED <<required, state, reviews, approvals, jobs, lapses>>
  BY DEF SyncRepository, SwitchWorkflow
<1>b. Types /\ slow.busy \in BOOLEAN /\ definition[1] \in Configs
      /\ definition[2] \in Commits /\ definition = <<definition[1], definition[2]>>
  BY DEF GovernanceInv, Types, Definitions
<1>1. /\ slow'.busy = slow.busy /\ slow'.crossed = slow.busy /\ slow'.writes = slow.writes
      /\ slow'.busy \in BOOLEAN /\ slow'.crossed \in BOOLEAN
      /\ slow' = [busy |-> slow'.busy, crossed |-> slow'.crossed, writes |-> slow'.writes]
  BY <1>a, <1>b, CrossSlow
<1>2. SlowInv'
  BY <1>1, <1>a, SlowStays
<1>3. definition' \in Definitions /\ definition'[1] = definition[1] /\ fourEyes' \in BOOLEAN
  <2>1. CASE SyncRepository
    BY <1>b, <2>1 DEF SyncRepository, Definitions, Types
  <2>2. CASE SwitchWorkflow
    BY <1>b, <2>2 DEF SwitchWorkflow, Types
  <2> QED
    BY <2>1, <2>2
<1>4. launch' \in LaunchType /\ LaunchInv'
  <2>1. launch \in LaunchType
    BY <1>b DEF Types, LaunchType
  <2>2. CASE SyncRepository
    <3>1. launch' = IF launch.at = "rest" THEN launch ELSE [launch EXCEPT !.changed = TRUE]
      BY <2>2 DEF SyncRepository
    <3>2. launch' \in LaunchType
      BY <2>1, <3>1 DEF LaunchType
    <3>3. launch'.at = "passed" => launch'.changed
      BY <2>1, <3>1 DEF LaunchType
    <3> QED
      BY <1>a, <3>2, <3>3 DEF GovernanceInv, LaunchInv, GatedJobsRunApprovedWork
  <2>3. CASE SwitchWorkflow
    BY <1>a, <2>1, <2>3 DEF SwitchWorkflow, GovernanceInv, LaunchInv, GatedJobsRunApprovedWork
  <2> QED
    BY <2>2, <2>3
<1>5. Types'
  BY <1>a, <1>b, <1>1, <1>3, <1>4 DEF Types, LaunchType
<1> QED
  BY <1>a, <1>2, <1>3, <1>4, <1>5, RowsStay DEF GovernanceInv

LEMMA BeginLaunchKeepsInv ==
    ASSUME GovernanceInv, NEW route \in Routes, BeginLaunch(route)
    PROVE  GovernanceInv'
<1> DEFINE flag == fourEyes /\ required
<1>a. /\ launch' = [at |-> "passed", route |-> route, applies |-> flag,
                    covered |-> ApprovedRevision, changed |-> FALSE]
      /\ route \in Gated => GateIsOpen
      /\ UNCHANGED <<fourEyes, required, state, definition, reviews, approvals, slow, jobs, lapses>>
  BY DEF BeginLaunch
<1>b. Types /\ flag \in BOOLEAN
  BY DEF GovernanceInv, Types
<1>1. ApprovedRevision \subseteq Definitions
  <2>1. CASE With(approvals, "approved") = {}
    BY <2>1 DEF ApprovedRevision
  <2>2. CASE With(approvals, "approved") # {}
    <3>1. Latest(With(approvals, "approved")) \in DOMAIN approvals
      BY <1>b, <2>2, LatestRow, PlainTypes
    <3>2. Revision(approvals[Latest(With(approvals, "approved"))]) \in Definitions
      BY <1>b, <3>1, PlainTypes DEF Types, Revision, ReviewRow
    <3> QED
      BY <2>2, <3>2 DEF ApprovedRevision
  <2> QED
    BY <2>1, <2>2
<1>2. route \in AllRoutes
  BY GovernanceAssumption DEF AllRoutes
<1>3. flag /\ route \in Gated => definition \in ApprovedRevision
  BY <1>a DEF GateIsOpen
<1> HIDE DEF flag
<1>4. /\ launch'.at = "passed" /\ launch'.route = route /\ launch'.applies = flag
      /\ launch'.covered = ApprovedRevision /\ launch' \in LaunchType
  BY <1>a, <1>b, <1>1, <1>2 DEF LaunchType
<1>5. LaunchInv'
  BY <1>a, <1>3, <1>4 DEF GovernanceInv, LaunchInv, GatedJobsRunApprovedWork
<1>6. Types'
  BY <1>a, <1>b, <1>4 DEF Types, LaunchType
<1>7. SlowInv'
  BY <1>a, <1>b, SlowStays DEF Types
<1> QED
  BY <1>a, <1>5, <1>6, <1>7, RowsStay DEF GovernanceInv

LEMMA QueueJobKeepsInv ==
    ASSUME GovernanceInv, QueueJob
    PROVE  GovernanceInv'
<1>1. PICK c \in (IF Refreshing THEN Commits ELSE {definition[2]}) :
        /\ definition' = <<definition[1], c>>
        /\ jobs' = jobs \cup {[route |-> launch.route, applies |-> launch.applies,
                               approved |-> definition' \in launch.covered,
                               changed |-> launch.changed \/ c # definition[2]]}
        /\ slow' = [slow EXCEPT !.crossed = slow.busy /\ (@ \/ c # definition[2])]
  BY DEF QueueJob
<1>a. /\ launch.at = "passed" /\ launch' = NoLaunch
      /\ UNCHANGED <<fourEyes, required, state, reviews, approvals, lapses>>
  BY DEF QueueJob
<1>b. Types /\ slow.busy \in BOOLEAN /\ slow.crossed \in BOOLEAN /\ definition[1] \in Configs
      /\ definition[2] \in Commits /\ definition = <<definition[1], definition[2]>>
  BY DEF GovernanceInv, Types, Definitions
<1>2. definition' \in Definitions /\ definition'[1] = definition[1]
      /\ (c = definition[2] => definition' = definition)
  BY <1>1, <1>b DEF Definitions
<1> DEFINE flag == slow.busy /\ (slow.crossed \/ c # definition[2])
<1>3. slow' = [slow EXCEPT !.crossed = flag] /\ flag \in BOOLEAN
  BY <1>1
<1>4. slow.busy /\ ~flag => ~slow.crossed /\ c = definition[2]
  OBVIOUS
<1> HIDE DEF flag
<1>5. /\ slow'.busy = slow.busy /\ slow'.crossed = flag /\ slow'.writes = slow.writes
      /\ slow'.busy \in BOOLEAN /\ slow'.crossed \in BOOLEAN
      /\ slow' = [busy |-> slow'.busy, crossed |-> slow'.crossed, writes |-> slow'.writes]
  BY <1>b, <1>3, CrossSlow
<1>6. SlowInv'
  BY <1>a, <1>2, <1>4, <1>5, SlowStays
<1>7. launch' \in LaunchType /\ launch'.at = "rest"
  BY <1>a DEF NoLaunch, LaunchType, AllRoutes
<1>8. GatedJobsRunApprovedWork'
  <2> DEFINE job == [route |-> launch.route, applies |-> launch.applies,
                     approved |-> definition' \in launch.covered,
                     changed |-> launch.changed \/ c # definition[2]]
  <2>1. (launch.route \in Gated /\ launch.applies) =>
           definition' \in launch.covered \/ (launch.changed \/ c # definition[2])
    BY <1>a, <1>2 DEF GovernanceInv, LaunchInv
  <2>2. (job.route \in Gated /\ job.applies) => job.approved \/ job.changed
    <3> DEFINE approved == definition' \in launch.covered
               changed == launch.changed \/ c # definition[2]
    <3>1. (launch.route \in Gated /\ launch.applies) => approved \/ changed
      BY <2>1
    <3>2. job = [route |-> launch.route, applies |-> launch.applies, approved |-> approved,
                 changed |-> changed]
      OBVIOUS
    <3> HIDE DEF approved, changed, job
    <3>3. job.route = launch.route /\ job.applies = launch.applies /\ job.approved = approved
          /\ job.changed = changed
      BY <3>2
    <3> QED
      BY <3>1, <3>3
  <2>3. jobs' = jobs \cup {job}
    BY <1>1
  <2> HIDE DEF job
  <2> QED
    BY <2>2, <2>3 DEF GovernanceInv, LaunchInv, GatedJobsRunApprovedWork
<1>9. LaunchInv'
  BY <1>7, <1>8 DEF LaunchInv
<1>10. Types'
  BY <1>a, <1>b, <1>2, <1>5, <1>7 DEF Types, LaunchType
<1> QED
  BY <1>a, <1>2, <1>6, <1>9, <1>10, RowsStay DEF GovernanceInv

LEMMA StutteringKeepsInv ==
    ASSUME GovernanceInv, UNCHANGED vars
    PROVE  GovernanceInv'
<1>1. Types'
  BY DEF GovernanceInv, Types, vars
<1>2. SlowInv'
  BY SlowStays DEF vars, GovernanceInv, Types
<1>3. LaunchInv'
  BY DEF GovernanceInv, LaunchInv, GatedJobsRunApprovedWork, vars
<1> QED
  BY <1>1, <1>2, <1>3, RowsStay DEF GovernanceInv, vars

LEMMA InitialGovernance == Init => GovernanceInv
<1> SUFFICES ASSUME Init PROVE GovernanceInv
  OBVIOUS
<1>a. reviews = <<>> /\ approvals = <<>> /\ DOMAIN reviews = {} /\ DOMAIN approvals = {}
  BY DEF Init
<1>1. Types
  BY <1>a DEF Init, Types, States, NoRequest, NoLaunch, AllRoutes
<1>2. TwoPairsOfEyes /\ OnePendingReview /\ RecordsInv
  BY <1>a DEF Init, TwoPairsOfEyes, OnePendingReview, RecordsInv, With
<1>3. SlowInv /\ LaunchInv /\ EditsAreNoticed
  BY DEF Init, SlowInv, LaunchInv, EditsAreNoticed, GatedJobsRunApprovedWork, NoRequest, NoLaunch
<1> QED
  BY <1>1, <1>2, <1>3 DEF GovernanceInv

-----------------------------------------------------------------------------
\* Whatever requests race, the rows of the approval workflow are well-formed, slow
\* requests stay acceptable, and without a race every state of the Project rests on
\* the decisions that led to it (project_reviews, project_management_approvals,
\* project_approval_staleness, project_approval_exemption).
THEOREM GovernanceInvariant == Spec => []GovernanceInv
<1>1. Init => GovernanceInv
  BY InitialGovernance
<1>2. GovernanceInv /\ [Next]_vars => GovernanceInv'
  <2> SUFFICES ASSUME GovernanceInv, [Next]_vars PROVE GovernanceInv'
    OBVIOUS
  <2>1. CASE \/ RequestReview \/ DecideReview \/ RequestApproval \/ DecideApproval
             \/ EditProject \/ ExemptProject \/ ReinstateProject
    BY <2>1, RequestsKeepInv
  <2>2. CASE SyncRepository \/ SwitchWorkflow
    BY <2>2, ChangesKeepInv
  <2>3. CASE CommitSlow \/ RollBackSlow
    BY <2>3, CommitSlowKeepsInv, RollBackKeepsInv
  <2>4. CASE \E route \in Routes : BeginLaunch(route)
    BY <2>4, BeginLaunchKeepsInv
  <2>5. CASE QueueJob
    BY <2>5, QueueJobKeepsInv
  <2>6. CASE UNCHANGED vars
    BY <2>6, StutteringKeepsInv
  <2> QED
    BY <2>1, <2>2, <2>3, <2>4, <2>5, <2>6 DEF Next
<1> QED
  BY <1>1, <1>2, PTL DEF Spec

\* The rows are typed, and at most one review is pending however requests race
\* (uq_project_revision_sequence).
THEOREM OneReviewAtATime == Spec => []TypeOK
<1>1. GovernanceInv => TypeOK
  <2> SUFFICES ASSUME GovernanceInv PROVE TypeOK
    OBVIOUS
  <2> DEFINE Fine == [review : DOMAIN reviews, requester : Users, approver : Users,
                      status : Statuses]
             pending == With(reviews, "pending")
  <2>1. Types /\ OnePendingReview
    BY DEF GovernanceInv
  <2>2. approvals \in Seq(Fine)
    <3>1. \A i \in DOMAIN approvals : approvals[i] \in Fine
      BY <2>1, PlainTypes DEF Types, ApprovalRow
    <3>2. approvals = [i \in 1..Len(approvals) |-> approvals[i]] /\ Len(approvals) \in Nat
      BY <2>1 DEF Types
    <3> HIDE DEF Fine
    <3>3. approvals \in [1..Len(approvals) -> Fine]
      BY <2>1, <3>1, <3>2, PlainTypes
    <3> QED
      BY <3>2, <3>3
  <2>3. Cardinality(pending) <= 1
    <3>1. CASE pending = {}
      BY <3>1, FS_EmptySet
    <3>2. CASE pending # {}
      <4>1. PICK i \in pending : pending = {i}
        BY <2>1, <3>2 DEF OnePendingReview
      <4>2. Cardinality({i}) = 1
        BY FS_Singleton
      <4> QED
        BY <4>1, <4>2
    <3> QED
      BY <3>1, <3>2
  <2> QED
    BY <2>1, <2>2, <2>3 DEF TypeOK, Types, ReviewRow
<1> QED
  BY <1>1, GovernanceInvariant, PTL

\* Nobody reviews what he asked to have reviewed, or approves what he reviewed or
\* asked to have approved, however requests race (docs/APPROVALS.md).
THEOREM DutiesAreSeparated == Spec => []TwoPairsOfEyes
<1>1. GovernanceInv => TwoPairsOfEyes
  BY DEF GovernanceInv
<1> QED
  BY <1>1, GovernanceInvariant, PTL

\* Without a race, an approved Project has a granted approval of a granted review.
THEOREM ApprovalRestsOnDecisions == Spec => []ApprovedHasItsRecords
<1>1. GovernanceInv => ApprovedHasItsRecords
  <2> SUFFICES ASSUME GovernanceInv, state = "approved", NoRace
               PROVE  \E i \in With(approvals, "approved") :
                         reviews[approvals[i].review].status = "approved"
    BY DEF ApprovedHasItsRecords, NoRace
  <2>1. PICK i \in With(approvals, "approved") : TRUE
    BY DEF GovernanceInv, RecordsInv
  <2>2. i \in DOMAIN approvals
    BY <2>1 DEF With
  <2> QED
    BY <2>1, <2>2 DEF GovernanceInv, RecordsInv
<1> QED
  BY <1>1, GovernanceInvariant, PTL

\* Without a race and without a suspension, an approved Project has the
\* configuration that was approved last (refresh_project_approval_staleness).
THEOREM EditsMakeStale == Spec => []EditsAreNoticed
<1>1. GovernanceInv => EditsAreNoticed
  BY DEF GovernanceInv
<1> QED
  BY <1>1, GovernanceInvariant, PTL

\* Without a race, an exempt Project has no pending decision that could resume
\* (set_project_approval_required).
THEOREM NothingResumes == Spec => []ExemptionClosesDecisions
<1>1. GovernanceInv => ExemptionClosesDecisions
  BY DEF GovernanceInv, RecordsInv, ExemptionClosesDecisions, NoRace
<1> QED
  BY <1>1, GovernanceInvariant, PTL

\* What passed the gate runs what was approved last, unless it was changed between
\* the gate and the Job (project_operational_approval_error).
THEOREM GateLetsApprovedWorkPass == Spec => []GatedJobsRunApprovedWork
<1>1. GovernanceInv => GatedJobsRunApprovedWork
  BY DEF GovernanceInv, LaunchInv
<1> QED
  BY <1>1, GovernanceInvariant, PTL

\* A step writes what a request read when nothing else was committed since, or leaves
\* the rows, or is a race.
LEMMA StepsWriteFreshly ==
    ASSUME GovernanceInv, [Next]_vars, NoRace'
    PROVE  \/ UNCHANGED <<reviews, approvals>>
           \/ \E w : LastingOK(w) /\ FreshDecisions(w) /\ Write(w)
<1>1. ASSUME NEW w, LastingOK(w), NoRace => FreshOK(w), Submit(w)
      PROVE  \/ UNCHANGED <<reviews, approvals>>
             \/ LastingOK(w) /\ FreshDecisions(w) /\ Write(w)
  <2>1. CASE Commit(w)
    BY <1>1, <2>1 DEF Commit, NoRace, FreshOK
  <2>2. CASE Delay(w)
    BY <2>2 DEF Delay
  <2> QED
    BY <1>1, <2>1, <2>2 DEF Submit
<1>2. CASE RequestReview
  BY <1>1, <1>2, ReviewRequestsAreGood DEF RequestReview
<1>3. CASE DecideReview
  BY <1>1, <1>3, ReviewDecisionsAreGood DEF DecideReview
<1>4. CASE RequestApproval
  BY <1>1, <1>4, ApprovalRequestsAreGood DEF RequestApproval
<1>5. CASE DecideApproval
  BY <1>1, <1>5, ApprovalDecisionsAreGood DEF DecideApproval
<1>6. CASE EditProject
  BY <1>1, <1>6, ProjectEditsAreGood DEF EditProject
<1>7. CASE ExemptProject
  BY <1>1, <1>7, ExemptionsAreGood DEF ExemptProject
<1>8. CASE ReinstateProject
  BY <1>1, <1>8, ReinstatementsAreGood DEF ReinstateProject
<1>9. CASE CommitSlow
  <2>1. PICK w : w = slow.writes
    OBVIOUS
  <2>2. Write(w)
    BY <1>9, <2>1 DEF CommitSlow, Write, Accepted
  <2>3. NoRace /\ ~slow.crossed /\ slow.busy
    BY <1>9 DEF CommitSlow, NoRace
  <2> QED
    BY <2>1, <2>2, <2>3 DEF GovernanceInv, SlowInv, FreshOK
<1>10. CASE \/ SyncRepository \/ SwitchWorkflow \/ RollBackSlow \/ QueueJob \/ UNCHANGED vars
            \/ \E route \in Routes : BeginLaunch(route)
  BY <1>10 DEF SyncRepository, SwitchWorkflow, RollBackSlow, QueueJob, vars, BeginLaunch
<1> QED
  BY <1>2, <1>3, <1>4, <1>5, <1>6, <1>7, <1>8, <1>9, <1>10 DEF Next

\* Without a race no decision is ever rewritten (docs/APPROVALS.md, "They are not
\* rewritten or deleted").
THEOREM DecisionsAreHistory == Spec => HistoryIsKept
<1>1. GovernanceInv /\ [Next]_vars =>
        [\A i \in DOMAIN reviews, j \in DOMAIN approvals :
            "race" \notin lapses' =>
                /\ reviews[i].status \in Decided => reviews'[i] = reviews[i]
                /\ approvals[j].status \in Decided => approvals'[j] = approvals[j]]_vars
  <2> SUFFICES ASSUME GovernanceInv, [Next]_vars, NEW i \in DOMAIN reviews,
                      NEW j \in DOMAIN approvals, "race" \notin lapses'
               PROVE  /\ reviews[i].status \in Decided => reviews'[i] = reviews[i]
                      /\ approvals[j].status \in Decided => approvals'[j] = approvals[j]
    OBVIOUS
  <2>1. CASE UNCHANGED <<reviews, approvals>>
    BY <2>1
  <2>2. ASSUME NEW w, LastingOK(w), FreshDecisions(w), Write(w)
        PROVE  /\ reviews[i].status \in Decided => reviews'[i] = reviews[i]
               /\ approvals[j].status \in Decided => approvals'[j] = approvals[j]
    BY <2>2, DecidedRowsStay DEF GovernanceInv, Decided
  <2> QED
    BY <2>1, <2>2, StepsWriteFreshly DEF NoRace
<1> QED
  BY <1>1, GovernanceInvariant, PTL DEF Spec, HistoryIsKept

=============================================================================

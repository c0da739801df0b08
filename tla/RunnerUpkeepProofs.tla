------------------------- MODULE RunnerUpkeepProofs -------------------------
(***************************************************************************)
(* Theorems about RunnerUpkeep for every validity, retry interval and      *)
(* bound.                                                                  *)
(***************************************************************************)
EXTENDS RunnerUpkeep, TLAPS

\* The types of the variables that are not about the identity.
UpkeepTypes ==
    /\ revision \in Nat
    /\ sync \in [status : {"none", "queued", "building", "successful", "failed"},
                 revision : Nat]
    /\ claim \in [at : {"rest", "read"}, crossed : BOOLEAN]
    /\ agent \in [at : {"idle", "building", "ready", "failed"}, label : Nat, content : Nat]
    /\ update \in [status : {"none", "queued", "running"}, saw : BOOLEAN, enrolled : BOOLEAN]

\* A quarantined runner is left alone, and as long as nothing was lost, restarted
\* or enrolled, the two sides differ only between the installation of a renewed
\* certificate and its answer.
IdentityInv ==
    /\ quarantined => scheduler.at = "rest"
    /\ update.enrolled => "enrolment" \in causes
    /\ causes = {} =>
          /\ (scheduler.at = "installing" => request # {}) => installed = recorded
          /\ scheduler.at = "polling" => scheduler.cert = recorded
          /\ scheduler.at = "installing" => request \subseteq {scheduler.cert}

\* A build belongs to a row that is being built, unless that row was queued again,
\* and what was compared is still so when it is taken.
BuildInv ==
    /\ update.status = "running" => drain
    /\ agent.at # "idle" => sync.status = "building" \/ "requeued" \in lapses
    /\ (claim.at = "read" /\ ~claim.crossed /\ sync.status = "queued")
          => sync.revision = revision
    /\ ("edited" \notin lapses /\ agent.at = "building") => agent.label = agent.content

IInv ==
    /\ IdentityTypeOK /\ UpkeepTypes
    /\ IdentityInv /\ QuarantineHasCause
    /\ BuildInv /\ LabelsAreTrue /\ UpdateFindsRunnerIdle

-----------------------------------------------------------------------------
\* A certificate that is signed joins the others and is one that has not run out.
LEMMA SignAppends ==
    ASSUME IdentityTypeOK, NEW key \in Nat
    PROVE  /\ Sign(key) \in Seq([expires : Nat, key : Nat])
           /\ Len(Sign(key)) = Len(issued) + 1
           /\ DOMAIN Sign(key) = 1..(Len(issued) + 1)
           /\ \A cert \in Certificates : /\ cert \in DOMAIN Sign(key)
                                         /\ Sign(key)[cert] = issued[cert]
<1>1. [expires |-> day + Validity, key |-> key] \in [expires : Nat, key : Nat]
  BY IdentityAssumption DEF IdentityTypeOK
<1>2. issued \in Seq([expires : Nat, key : Nat]) /\ Certificates = DOMAIN issued
  BY DEF IdentityTypeOK, Certificates
<1>3. PICK signed \in [expires : Nat, key : Nat] : Sign(key) = Append(issued, signed)
  BY <1>1 DEF Sign
<1>4. /\ Append(issued, signed) \in Seq([expires : Nat, key : Nat])
      /\ Len(Append(issued, signed)) = Len(issued) + 1
  BY <1>2
<1>5. Len(issued) \in Nat /\ DOMAIN issued = 1..Len(issued)
  BY <1>2
<1>6. DOMAIN Append(issued, signed) = 1..(Len(issued) + 1)
  BY <1>4
<1>7. ASSUME NEW cert \in 1..Len(issued)
      PROVE  cert \in 1..(Len(issued) + 1) /\ Append(issued, signed)[cert] = issued[cert]
  BY <1>2, <1>5
<1> QED
  BY <1>2, <1>3, <1>4, <1>5, <1>6, <1>7, Zenon

LEMMA InitEstablishes == Init => IInv
<1> SUFFICES ASSUME Init PROVE IInv
  OBVIOUS
<1>1. /\ issued \in Seq([expires : Nat, key : Nat]) /\ Certificates = {1}
  BY IdentityAssumption DEF Init, IdentityInit, Certificates
<1>2. IdentityTypeOK
  BY <1>1 DEF Init, IdentityInit, IdentityTypeOK, AtRest, Causes
<1>3. UpkeepTypes /\ IdentityInv /\ QuarantineHasCause
  BY DEF Init, IdentityInit, UpkeepTypes, IdentityInv, QuarantineHasCause, AtRest, NoClaim,
         Idle, NoUpdate
<1>4. BuildInv /\ LabelsAreTrue /\ UpdateFindsRunnerIdle
  BY DEF Init, BuildInv, LabelsAreTrue, UpdateFindsRunnerIdle, NoClaim, Idle, NoUpdate
<1> QED
  BY <1>2, <1>3, <1>4 DEF IInv

-----------------------------------------------------------------------------
(* Every step keeps the types, and what the identity rests on.             *)

LEMMA ElementType ==
    ASSUME NEW S, NEW s \in Seq(S), NEW i \in DOMAIN s
    PROVE  s[i] \in S
OBVIOUS

LEMMA CertificateTypes ==
    ASSUME IdentityTypeOK
    PROVE  /\ Len(issued) \in Nat \ {0} /\ Certificates = 1..Len(issued)
           /\ \A cert \in Certificates : issued[cert].expires \in Nat /\ issued[cert].key \in Nat
<1>1. issued \in Seq([expires : Nat, key : Nat]) /\ recorded \in DOMAIN issued
  BY DEF IdentityTypeOK, Certificates
<1>2. Len(issued) \in Nat /\ DOMAIN issued = 1..Len(issued)
  BY <1>1
<1>3. ASSUME NEW cert \in DOMAIN issued
      PROVE  issued[cert] \in [expires : Nat, key : Nat]
  BY <1>1, <1>3, ElementType
<1> QED
  BY <1>1, <1>2, <1>3 DEF Certificates

LEMMA IdentityStepKeepsTypes ==
    ASSUME IdentityTypeOK, IdentityStep
    PROVE  IdentityTypeOK'
<1>a. AtRest \in [at : {"rest", "asking", "installing", "polling"}, cert : Certificates]
  BY CertificateTypes DEF AtRest
<1>1. CASE StartRenewal
  BY <1>1 DEF StartRenewal, IdentityTypeOK, Certificates
<1>2. CASE SignRenewal
  <2>1. PICK key \in Nat : issued' = Sign(key)
    BY <1>2, CertificateTypes DEF SignRenewal, IdentityTypeOK
  <2>a. /\ issued' \in Seq([expires : Nat, key : Nat]) /\ Len(issued') = Len(issued) + 1
        /\ Certificates' = 1..(Len(issued) + 1)
    BY <2>1, SignAppends DEF Certificates
  <2>2. Len(issued') \in Certificates' /\ Certificates \subseteq Certificates'
    BY <2>a, CertificateTypes
  <2>3. scheduler' \in [at : {"rest", "asking", "installing", "polling"}, cert : Certificates']
    BY <1>2, <2>2 DEF SignRenewal
  <2>4. /\ recorded \in Certificates' /\ installed \in Certificates'
        /\ request' \subseteq Certificates'
    BY <1>2, <2>2 DEF SignRenewal, IdentityTypeOK
  <2> QED
    BY <1>2, <2>a, <2>3, <2>4 DEF SignRenewal, IdentityTypeOK
<1>3. CASE InstallRenewal
  BY <1>3 DEF InstallRenewal, IdentityTypeOK, Certificates, Causes
<1>4. CASE RecordRenewal
  BY <1>4, <1>a DEF RecordRenewal, IdentityTypeOK, Certificates
<1>5. CASE FailRenewal
  <2>1. causes' \subseteq Causes
    BY <1>5 DEF FailRenewal, Unanswered, Causes, IdentityTypeOK
  <2>2. renewal' \in [attempt : SUBSET Nat, failures : Nat, warned : BOOLEAN]
    <3>1. /\ renewal \in [attempt : SUBSET Nat, failures : Nat, warned : BOOLEAN]
          /\ renewal.failures + 1 \in Nat
      BY DEF IdentityTypeOK
    <3>2. (renewal.warned \/ renewal.failures + 1 >= WarnAt) \in BOOLEAN
      OBVIOUS
    <3> QED
      BY <1>5, <3>1, <3>2 DEF FailRenewal
  <2>3. scheduler' \in [at : {"rest", "asking", "installing", "polling"}, cert : Certificates]
    BY <1>5, <1>a DEF FailRenewal
  <2> QED
    BY <1>5, <2>1, <2>2, <2>3 DEF FailRenewal, IdentityTypeOK, Certificates
<1>6. CASE StartPoll
  BY <1>6 DEF StartPoll, IdentityTypeOK, Certificates
<1>7. CASE EndPoll
  BY <1>7, <1>a DEF EndPoll, IdentityTypeOK, Certificates
<1>8. CASE RestartScheduler
  <2>1. causes' \subseteq Causes
    BY <1>8 DEF RestartScheduler, Unanswered, Causes, IdentityTypeOK
  <2>2. faults' = faults + 1 /\ scheduler' = AtRest
    BY <1>8 DEF RestartScheduler, Faulty
  <2>3. faults' \in Nat
    BY <2>2 DEF IdentityTypeOK
  <2>4. UNCHANGED <<day, issued, recorded, installed, renewal, quarantined, request, registered>>
    BY <1>8 DEF RestartScheduler
  <2> QED
    BY <1>a, <2>1, <2>2, <2>3, <2>4 DEF IdentityTypeOK, Certificates
<1>9. CASE LoseRegistration
  <2>0. faults' = faults + 1 /\ registered' = FALSE
    BY <1>9 DEF LoseRegistration, Faulty
  <2>1. faults' \in Nat
    BY <2>0 DEF IdentityTypeOK
  <2>3. registered' \in BOOLEAN
    BY <2>0
  <2>2. UNCHANGED <<day, issued, recorded, installed, renewal, quarantined, scheduler, request,
                    causes>>
    BY <1>9 DEF LoseRegistration
  <2> QED
    BY <2>1, <2>2, <2>3 DEF IdentityTypeOK, Certificates
<1>10. CASE NextDay
  BY <1>10 DEF NextDay, IdentityTypeOK, Certificates
<1> QED
  BY <1>1, <1>2, <1>3, <1>4, <1>5, <1>6, <1>7, <1>8, <1>9, <1>10 DEF IdentityStep

LEMMA IdentityStepKeepsIdentity ==
    ASSUME IInv, IdentityStep, UNCHANGED update
    PROVE  IdentityInv' /\ QuarantineHasCause'
<1>a. IdentityInv /\ QuarantineHasCause
  BY DEF IInv
<1>b. /\ day \in Nat /\ issued[installed].expires \in Nat
      /\ recorded \in Certificates /\ installed \in Certificates
  BY CertificateTypes DEF IInv, IdentityTypeOK
<1>1. CASE StartRenewal
  <2>1. ~quarantined' /\ scheduler'.at = "asking"
    BY <1>1 DEF StartRenewal, RenewalDue
  <2> QED
    BY <1>1, <1>a, <2>1 DEF StartRenewal, IdentityInv, QuarantineHasCause
<1>2. CASE SignRenewal
  BY <1>2, <1>a DEF SignRenewal, IdentityInv, QuarantineHasCause
<1>3. CASE InstallRenewal
  <2>1. PICK cert \in request :
          /\ installed' = IF issued[cert].key = issued[installed].key THEN cert ELSE installed
          /\ causes' = IF scheduler = [at |-> "installing", cert |-> cert] THEN causes
                       ELSE causes \cup {"lost reply"}
    BY <1>3 DEF InstallRenewal
  <2>2. CASE scheduler = [at |-> "installing", cert |-> cert]
    <3>1. scheduler'.at = "installing" /\ ~quarantined' /\ request' = {} /\ causes' = causes
      BY <1>3, <1>a, <2>1, <2>2 DEF InstallRenewal, IdentityInv
    <3> QED
      BY <1>3, <1>a, <3>1 DEF InstallRenewal, IdentityInv, QuarantineHasCause
  <2>3. CASE scheduler # [at |-> "installing", cert |-> cert]
    <3>1. "lost reply" \in causes' /\ causes \subseteq causes'
      BY <2>1, <2>3
    <3> QED
      BY <1>3, <1>a, <3>1 DEF InstallRenewal, IdentityInv, QuarantineHasCause
  <2> QED
    BY <2>2, <2>3
<1>4. CASE RecordRenewal
  BY <1>4, <1>a DEF RecordRenewal, IdentityInv, QuarantineHasCause, AtRest
<1>5. CASE FailRenewal
  <2>1. ~quarantined' /\ scheduler'.at = "rest" /\ causes \subseteq causes'
    BY <1>5, <1>a DEF FailRenewal, IdentityInv, AtRest
  <2>2. causes' = {} => causes = {} /\ (scheduler.at = "installing" => request # {})
    BY <1>5 DEF FailRenewal, Unanswered
  <2> QED
    BY <1>5, <1>a, <2>1, <2>2 DEF FailRenewal, IdentityInv, QuarantineHasCause
<1>6. CASE StartPoll
  BY <1>6, <1>a DEF StartPoll, IdentityInv, QuarantineHasCause
<1>7. CASE EndPoll
  <2>1. quarantined' => causes # {} \/ Expired(installed)
    BY <1>7, <1>a DEF EndPoll, IdentityInv, Presents
  <2>2. scheduler'.at = "rest" /\ ~quarantined
    BY <1>7, <1>a DEF EndPoll, IdentityInv, AtRest
  <2> QED
    BY <1>7, <1>a, <2>1, <2>2 DEF EndPoll, IdentityInv, QuarantineHasCause, Expired
<1>8. CASE RestartScheduler
  <2>1. ~quarantined' /\ scheduler'.at = "rest" /\ causes \subseteq causes'
    BY <1>8, <1>a DEF RestartScheduler, IdentityInv, AtRest
  <2>2. causes' = {} => causes = {} /\ (scheduler.at = "installing" => request # {})
    BY <1>8 DEF RestartScheduler, Unanswered
  <2> QED
    BY <1>8, <1>a, <2>1, <2>2 DEF RestartScheduler, IdentityInv, QuarantineHasCause
<1>9. CASE LoseRegistration
  BY <1>9, <1>a DEF LoseRegistration, IdentityInv, QuarantineHasCause, Expired
<1>10. CASE NextDay
  <2>1. Expired(installed) => Expired(installed)'
    BY <1>10, <1>b DEF NextDay, Expired
  <2> QED
    BY <1>10, <1>a, <2>1 DEF NextDay, IdentityInv, QuarantineHasCause
<1> QED
  BY <1>1, <1>2, <1>3, <1>4, <1>5, <1>6, <1>7, <1>8, <1>9, <1>10 DEF IdentityStep

\* A synchronization, and most of an Update, does not touch the identity.
IdentityUntouched ==
    /\ UNCHANGED <<day, issued, recorded, installed, renewal, quarantined, scheduler, request,
                   registered, causes>>
    /\ faults' \in Nat
    /\ update'.enrolled => update.enrolled

LEMMA UntouchedIdentityIsKept ==
    ASSUME IInv, IdentityUntouched
    PROVE  IdentityTypeOK' /\ IdentityInv' /\ QuarantineHasCause'
<1>1. IdentityTypeOK'
  BY DEF IInv, IdentityUntouched, IdentityTypeOK, Certificates
<1>2. IdentityInv'
  BY DEF IInv, IdentityUntouched, IdentityInv
<1>3. QuarantineHasCause'
  BY DEF IInv, IdentityUntouched, QuarantineHasCause, Expired
<1> QED
  BY <1>1, <1>2, <1>3

LEMMA UpkeepStepKeepsIdentity ==
    ASSUME IInv, UpkeepStep
    PROVE  IdentityTypeOK' /\ IdentityInv' /\ QuarantineHasCause'
<1>a. faults \in Nat /\ (Faulty => faults' \in Nat)
  BY DEF IInv, IdentityTypeOK, Faulty
<1>b. CASE UNCHANGED <<identityVars, update>>
  BY <1>a, <1>b, UntouchedIdentityIsKept DEF identityVars, IdentityUntouched
<1>1. CASE EditEnvironment
  BY <1>1, <1>b DEF EditEnvironment
<1>2. CASE QueueSync
  BY <1>2, <1>b DEF QueueSync
<1>3. CASE BeginClaim
  BY <1>3, <1>b DEF BeginClaim
<1>4. CASE CommitClaim
  <2>1. faults' \in Nat
    BY <1>4, <1>a DEF CommitClaim
  <2> QED
    BY <1>4, <2>1, UntouchedIdentityIsKept DEF CommitClaim, IdentityUntouched
<1>5. CASE Build
  BY <1>5, <1>b DEF Build
<1>6. CASE Report
  BY <1>6, <1>b DEF Report
<1>7. CASE LoseReport
  BY <1>7, <1>a, UntouchedIdentityIsKept DEF LoseReport, IdentityUntouched
<1>8. CASE SendHeartbeat
  BY <1>8, <1>b DEF SendHeartbeat
<1>9. CASE ReceiveHeartbeat
  BY <1>9, <1>b DEF ReceiveHeartbeat
<1>10. CASE RequestUpdate
  <2>1. update'.enrolled = FALSE
    BY <1>10 DEF RequestUpdate, NoUpdate
  <2> QED
    BY <1>10, <1>a, <2>1, UntouchedIdentityIsKept DEF RequestUpdate, identityVars, IdentityUntouched
<1>11. CASE Drain
  BY <1>11, <1>b DEF Drain
<1>12. CASE StartUpdate
  <2>1. update'.enrolled = update.enrolled
    BY <1>12 DEF StartUpdate, IInv, UpkeepTypes
  <2> QED
    BY <1>12, <1>a, <2>1, UntouchedIdentityIsKept DEF StartUpdate, identityVars, IdentityUntouched
<1>13. CASE EnrolRunner
  <2>1. PICK key \in Nat : issued' = Sign(key)
    BY <1>13, CertificateTypes DEF EnrolRunner, Enrol, IInv
  <2>2. /\ issued' \in Seq([expires : Nat, key : Nat]) /\ Len(issued') = Len(issued) + 1
        /\ Certificates' = 1..(Len(issued) + 1)
    BY <2>1, SignAppends DEF Certificates, IInv
  <2>3. Len(issued') \in Certificates' /\ Certificates \subseteq Certificates'
    BY <2>2, CertificateTypes DEF IInv
  <2>4. causes' = causes \cup {"enrolment"} /\ quarantined' = FALSE
    BY <1>13 DEF EnrolRunner, Enrol
  <2>5. /\ recorded' \in Certificates' /\ installed' \in Certificates'
        /\ request' \subseteq Certificates'
        /\ scheduler' \in [at : {"rest", "asking", "installing", "polling"},
                           cert : Certificates']
    BY <1>13, <2>3 DEF EnrolRunner, Enrol, IInv, IdentityTypeOK
  <2>6. causes' \subseteq Causes /\ quarantined' \in BOOLEAN
    BY <2>4 DEF IInv, IdentityTypeOK, Causes
  <2>7. IdentityTypeOK'
    BY <1>13, <2>2, <2>5, <2>6 DEF EnrolRunner, Enrol, IInv, IdentityTypeOK
  <2> QED
    BY <2>4, <2>7 DEF IdentityInv, QuarantineHasCause
<1>14. CASE FinishUpdate
  <2>1. Len(issued) \in Certificates
    BY CertificateTypes DEF IInv
  <2>2. IdentityTypeOK'
    <3>1. installed' \in Certificates /\ registered' \in BOOLEAN
      BY <1>14, <2>1 DEF FinishUpdate, IInv, IdentityTypeOK
    <3>2. UNCHANGED <<day, issued, recorded, renewal, quarantined, scheduler, request, causes,
                      faults>>
      BY <1>14 DEF FinishUpdate
    <3> QED
      BY <3>1, <3>2 DEF IInv, IdentityTypeOK, Certificates
  <2>3. CASE update.enrolled
    <3>1. "enrolment" \in causes'
      BY <1>14, <2>3 DEF FinishUpdate, IInv, IdentityInv
    <3> QED
      BY <1>14, <2>2, <3>1 DEF FinishUpdate, IInv, IdentityInv, QuarantineHasCause
  <2>4. CASE ~update.enrolled
    <3>1. installed' = installed /\ ~update'.enrolled
      BY <1>14, <2>4 DEF FinishUpdate, EndUpdate, NoUpdate
    <3> QED
      BY <1>14, <2>2, <3>1 DEF FinishUpdate, IInv, IdentityInv, QuarantineHasCause, Expired
  <2> QED
    BY <2>3, <2>4
<1>15. CASE AbandonUpdate
  <2>1. ~update'.enrolled
    BY <1>15 DEF AbandonUpdate, EndUpdate, NoUpdate
  <2> QED
    BY <1>15, <1>a, <2>1, UntouchedIdentityIsKept DEF AbandonUpdate, IdentityUntouched
<1> QED
  BY <1>1, <1>2, <1>3, <1>4, <1>5, <1>6, <1>7, <1>8, <1>9, <1>10, <1>11, <1>12, <1>13, <1>14,
     <1>15 DEF UpkeepStep

-----------------------------------------------------------------------------
(* Builds and drains.                                                      *)

LEMMA UpkeepStepKeepsTypes ==
    ASSUME IInv, UpkeepStep
    PROVE  UpkeepTypes'
<1>a. UpkeepTypes
  BY DEF IInv
<1>1. CASE EditEnvironment
  <2>1. claim' \in [at : {"rest", "read"}, crossed : BOOLEAN]
    <3>1. (claim.at = "read") \in BOOLEAN
      OBVIOUS
    <3> QED
      BY <1>a, <1>1, <3>1 DEF EditEnvironment, UpkeepTypes
  <2>2. revision' \in Nat /\ UNCHANGED <<sync, agent, update>>
    BY <1>a, <1>1 DEF EditEnvironment, UpkeepTypes
  <2> QED
    BY <1>a, <2>1, <2>2 DEF UpkeepTypes
<1>2. CASE QueueSync
  BY <1>a, <1>2 DEF QueueSync, UpkeepTypes
<1>3. CASE BeginClaim
  <2>1. sync' \in [status : {"none", "queued", "building", "successful", "failed"},
                   revision : Nat]
    <3>1. sync' = sync \/ sync' = [sync EXCEPT !.status = "failed"]
      BY <1>3 DEF BeginClaim
    <3> QED
      BY <1>a, <3>1 DEF UpkeepTypes
  <2>2. claim' \in [at : {"rest", "read"}, crossed : BOOLEAN]
    <3>1. claim' = claim \/ claim' = [at |-> "read", crossed |-> FALSE]
      BY <1>3 DEF BeginClaim
    <3>2. [at |-> "read", crossed |-> FALSE] \in [at : {"rest", "read"}, crossed : BOOLEAN]
      OBVIOUS
    <3> QED
      BY <1>a, <3>1, <3>2 DEF UpkeepTypes
  <2>3. UNCHANGED <<revision, agent, update>>
    BY <1>3 DEF BeginClaim
  <2> QED
    BY <1>a, <2>1, <2>2, <2>3 DEF UpkeepTypes
<1>4. CASE CommitClaim
  <2>1. sync' \in [status : {"none", "queued", "building", "successful", "failed"},
                   revision : Nat]
    BY <1>a, <1>4 DEF CommitClaim, UpkeepTypes
  <2>2. agent' \in [at : {"idle", "building", "ready", "failed"}, label : Nat,
                    content : Nat]
    <3>1. \/ agent' = agent
          \/ agent' = [at |-> "building", label |-> sync.revision, content |-> revision]
      BY <1>4 DEF CommitClaim
    <3> QED
      BY <1>a, <3>1 DEF UpkeepTypes
  <2>3. claim' = NoClaim /\ UNCHANGED <<revision, update>>
    BY <1>4 DEF CommitClaim
  <2> QED
    BY <1>a, <2>1, <2>2, <2>3 DEF UpkeepTypes, NoClaim
<1>5. CASE Build
  <2>1. agent' = [agent EXCEPT !.at = "ready", !.content = 0] \/ agent' = [Idle EXCEPT !.at = "failed"]
    BY <1>5 DEF Build
  <2>2. agent' \in [at : {"idle", "building", "ready", "failed"}, label : Nat,
                    content : Nat]
    <3>1. [agent EXCEPT !.at = "ready", !.content = 0]
            \in [at : {"idle", "building", "ready", "failed"}, label : Nat, content : Nat]
      BY <1>a DEF UpkeepTypes
    <3>2. [Idle EXCEPT !.at = "failed"]
            \in [at : {"idle", "building", "ready", "failed"}, label : Nat, content : Nat]
      BY DEF Idle
    <3> QED
      BY <2>1, <3>1, <3>2
  <2>3. UNCHANGED <<revision, sync, claim, update>>
    BY <1>5 DEF Build
  <2> QED
    BY <1>a, <2>2, <2>3 DEF UpkeepTypes
<1>6. CASE Report
  BY <1>a, <1>6 DEF Report, UpkeepTypes, Idle
<1>7. CASE LoseReport
  BY <1>a, <1>7 DEF LoseReport, UpkeepTypes, Idle
<1>8. CASE SendHeartbeat
  BY <1>a, <1>8 DEF SendHeartbeat, UpkeepTypes
<1>9. CASE ReceiveHeartbeat
  BY <1>a, <1>9 DEF ReceiveHeartbeat, UpkeepTypes
<1>10. CASE RequestUpdate
  BY <1>a, <1>10 DEF RequestUpdate, UpkeepTypes, syncVars, NoUpdate
<1>11. CASE Drain
  BY <1>a, <1>11 DEF Drain, UpkeepTypes, syncVars
<1>12. CASE StartUpdate
  <2>1. quarantined \in BOOLEAN
    BY DEF IInv, IdentityTypeOK
  <2> QED
    BY <1>a, <1>12, <2>1 DEF StartUpdate, UpkeepTypes, syncVars
<1>13. CASE EnrolRunner
  BY <1>a, <1>13 DEF EnrolRunner, UpkeepTypes, syncVars
<1>14. CASE FinishUpdate
  BY <1>a, <1>14 DEF FinishUpdate, EndUpdate, UpkeepTypes, Idle, NoUpdate
<1>15. CASE AbandonUpdate
  BY <1>a, <1>15 DEF AbandonUpdate, EndUpdate, UpkeepTypes, syncVars, NoUpdate
<1> QED
  BY <1>1, <1>2, <1>3, <1>4, <1>5, <1>6, <1>7, <1>8, <1>9, <1>10, <1>11, <1>12, <1>13, <1>14,
     <1>15 DEF UpkeepStep

\* What the builds and the drain rest on does not depend on the identity.
LEMMA BuildsAreKept ==
    ASSUME IInv, UpkeepStep
    PROVE  BuildInv'
<1>a. BuildInv /\ UpkeepTypes
  BY DEF IInv
<1>1. CASE EditEnvironment
  <2>1. claim'.at = claim.at /\ (claim.at = "read" => claim'.crossed)
    BY <1>a, <1>1 DEF EditEnvironment, UpkeepTypes
  <2> QED
    BY <1>a, <1>1, <2>1 DEF EditEnvironment, BuildInv
<1>2. CASE QueueSync
  <2>1. sync' = [status |-> "queued", revision |-> revision]
    BY <1>2 DEF QueueSync
  <2>2. agent.at # "idle" => "requeued" \in lapses'
    BY <1>a, <1>2 DEF QueueSync, BuildInv
  <2>3. "edited" \notin lapses' => "edited" \notin lapses
    BY <1>2 DEF QueueSync
  <2> QED
    BY <1>a, <1>2, <2>1, <2>2, <2>3 DEF QueueSync, BuildInv
<1>3. CASE BeginClaim
  <2>1. agent.at = "idle" /\ (claim'.at = "read" => sync' = sync /\ sync.revision = revision)
    BY <1>3 DEF BeginClaim
  <2> QED
    BY <1>a, <1>3, <2>1 DEF BeginClaim, BuildInv
<1>4. CASE CommitClaim
  <2>1. claim'.at = "rest"
    BY <1>4 DEF CommitClaim, NoClaim
  <2>2. CASE sync.status # "queued"
    BY <1>a, <1>4, <2>1, <2>2 DEF CommitClaim, BuildInv
  <2>3. CASE sync.status = "queued"
    <3>1. sync'.status = "building" /\ update' = update /\ drain' = drain
      BY <1>a, <1>4, <2>3 DEF CommitClaim, UpkeepTypes
    <3>2. claim.at = "read" /\ ("edited" \notin lapses' => "edited" \notin lapses /\ ~claim.crossed)
      BY <1>4, <2>3 DEF CommitClaim
    <3>3. \/ agent' = agent
          \/ agent' = [at |-> "building", label |-> sync.revision, content |-> revision]
      BY <1>4, <2>3 DEF CommitClaim
    <3> QED
      BY <1>a, <2>1, <2>3, <3>1, <3>2, <3>3 DEF BuildInv
  <2> QED
    BY <2>2, <2>3
<1>5. CASE Build
  <2>1. agent' = [agent EXCEPT !.at = "ready", !.content = 0] \/ agent' = [Idle EXCEPT !.at = "failed"]
    BY <1>5 DEF Build
  <2>2. agent.at = "building" /\ agent'.at \in {"ready", "failed"}
    BY <1>a, <1>5, <2>1 DEF Build, Idle, UpkeepTypes
  <2> QED
    BY <1>a, <1>5, <2>2 DEF Build, BuildInv
<1>6. CASE Report
  <2>1. sync'.status # "queued" \/ sync' = sync
    BY <1>a, <1>6 DEF Report, Idle, UpkeepTypes
  <2>2. agent'.at = "idle"
    BY <1>6 DEF Report, Idle
  <2> QED
    BY <1>a, <1>6, <2>1, <2>2 DEF Report, BuildInv
<1>7. CASE LoseReport
  BY <1>a, <1>7 DEF LoseReport, BuildInv, Idle
<1>8. CASE SendHeartbeat
  BY <1>a, <1>8 DEF SendHeartbeat, BuildInv
<1>9. CASE ReceiveHeartbeat
  BY <1>a, <1>9 DEF ReceiveHeartbeat, BuildInv
<1>10. CASE RequestUpdate
  BY <1>a, <1>10 DEF RequestUpdate, BuildInv, syncVars, NoUpdate
<1>11. CASE Drain
  BY <1>a, <1>11 DEF Drain, BuildInv, syncVars
<1>12. CASE StartUpdate
  BY <1>a, <1>12 DEF StartUpdate, BuildInv, syncVars
<1>13. CASE EnrolRunner
  <2>1. update'.status = update.status
    BY <1>a, <1>13 DEF EnrolRunner, UpkeepTypes
  <2> QED
    BY <1>a, <1>13, <2>1 DEF EnrolRunner, BuildInv, syncVars
<1>14. CASE FinishUpdate
  BY <1>a, <1>14 DEF FinishUpdate, EndUpdate, BuildInv, Idle, NoUpdate
<1>15. CASE AbandonUpdate
  BY <1>a, <1>15 DEF AbandonUpdate, EndUpdate, BuildInv, syncVars, NoUpdate
<1> QED
  BY <1>1, <1>2, <1>3, <1>4, <1>5, <1>6, <1>7, <1>8, <1>9, <1>10, <1>11, <1>12, <1>13, <1>14,
     <1>15 DEF UpkeepStep

\* A build is named after the revision it was made from, and an Update that runs
\* finds the runner at rest.
LEMMA LabelsAndUpdatesAreKept ==
    ASSUME IInv, UpkeepStep
    PROVE  LabelsAreTrue' /\ UpdateFindsRunnerIdle'
<1>a. BuildInv /\ UpkeepTypes /\ LabelsAreTrue /\ UpdateFindsRunnerIdle
  BY DEF IInv
<1>b. CASE lapses \subseteq lapses' /\ UNCHANGED <<disk, agent>> /\ update'.status # "running"
  BY <1>a, <1>b DEF LabelsAreTrue, UpdateFindsRunnerIdle
<1>c. CASE lapses \subseteq lapses' /\ UNCHANGED <<disk, agent, update>>
  BY <1>a, <1>c DEF LabelsAreTrue, UpdateFindsRunnerIdle
<1>d. CASE lapses \subseteq lapses' /\ UNCHANGED disk /\ agent'.at = "idle"
  BY <1>a, <1>d DEF LabelsAreTrue, UpdateFindsRunnerIdle
<1>1. CASE EditEnvironment
  BY <1>1, <1>c DEF EditEnvironment
<1>2. CASE QueueSync
  BY <1>2, <1>c DEF QueueSync
<1>3. CASE BeginClaim
  BY <1>3, <1>c DEF BeginClaim
<1>4. CASE CommitClaim
  <2>1. lapses \subseteq lapses' /\ UNCHANGED <<disk, update>>
    BY <1>4 DEF CommitClaim
  <2>2. (update.status = "running" /\ agent' # agent) => "drained" \in lapses'
    BY <1>a, <1>4 DEF CommitClaim, BuildInv
  <2> QED
    BY <1>a, <2>1, <2>2 DEF LabelsAreTrue, UpdateFindsRunnerIdle
<1>5. CASE Build
  <2>1. lapses' = lapses /\ update' = update /\ agent.at = "building"
    BY <1>5 DEF Build
  <2>2. disk' = disk \/ disk' = {[label |-> agent.label, content |-> agent.content]}
    BY <1>5 DEF Build
  <2> QED
    BY <1>a, <2>1, <2>2 DEF BuildInv, LabelsAreTrue, UpdateFindsRunnerIdle
<1>6. CASE Report
  BY <1>6, <1>d DEF Report, Idle
<1>7. CASE LoseReport
  BY <1>7, <1>d DEF LoseReport, Idle
<1>8. CASE SendHeartbeat
  BY <1>8, <1>c DEF SendHeartbeat
<1>9. CASE ReceiveHeartbeat
  BY <1>9, <1>c DEF ReceiveHeartbeat
<1>10. CASE RequestUpdate
  BY <1>10, <1>b DEF RequestUpdate, syncVars, NoUpdate
<1>11. CASE Drain
  BY <1>11, <1>c DEF Drain, syncVars
<1>12. CASE StartUpdate
  <2>1. lapses' = lapses /\ UNCHANGED <<disk, agent>> /\ sync.status # "building"
    BY <1>12 DEF StartUpdate, HasActiveWork, syncVars
  <2> QED
    BY <1>a, <2>1 DEF BuildInv, LabelsAreTrue, UpdateFindsRunnerIdle
<1>13. CASE EnrolRunner
  <2>1. lapses' = lapses /\ UNCHANGED <<disk, agent>> /\ update'.status = update.status
    BY <1>a, <1>13 DEF EnrolRunner, UpkeepTypes, syncVars
  <2> QED
    BY <1>a, <2>1 DEF LabelsAreTrue, UpdateFindsRunnerIdle
<1>14. CASE FinishUpdate
  BY <1>14, <1>d DEF FinishUpdate, Idle
<1>15. CASE AbandonUpdate
  BY <1>15, <1>b DEF AbandonUpdate, EndUpdate, syncVars, NoUpdate
<1> QED
  BY <1>1, <1>2, <1>3, <1>4, <1>5, <1>6, <1>7, <1>8, <1>9, <1>10, <1>11, <1>12, <1>13, <1>14,
     <1>15 DEF UpkeepStep

-----------------------------------------------------------------------------
\* Every step of the scheduler, the runner and the Update keeps all of it.
THEOREM UpkeepInvariant == Spec => []IInv
<1>1. IInv /\ [Next]_vars => IInv'
  <2> SUFFICES ASSUME IInv, [Next]_vars PROVE IInv'
    OBVIOUS
  <2>1. CASE UpkeepStep
    BY <2>1, UpkeepStepKeepsIdentity, UpkeepStepKeepsTypes, BuildsAreKept,
       LabelsAndUpdatesAreKept DEF IInv
  <2>2. CASE IdentityStep /\ UNCHANGED <<syncVars, drain, update, used, lapses>>
    <3>1. IdentityTypeOK' /\ IdentityInv' /\ QuarantineHasCause'
      BY <2>2, IdentityStepKeepsTypes, IdentityStepKeepsIdentity DEF IInv
    <3>2. UpkeepTypes'
      BY <2>2 DEF IInv, UpkeepTypes, syncVars
    <3>3. BuildInv' /\ LabelsAreTrue' /\ UpdateFindsRunnerIdle'
      BY <2>2 DEF IInv, BuildInv, LabelsAreTrue, UpdateFindsRunnerIdle, syncVars
    <3> QED
      BY <3>1, <3>2, <3>3 DEF IInv
  <2>3. CASE UNCHANGED vars
    <3>1. IdentityUntouched
      BY <2>3 DEF vars, identityVars, IdentityUntouched, IInv, IdentityTypeOK
    <3>2. UpkeepTypes'
      BY <2>3 DEF IInv, UpkeepTypes, vars
    <3>3. BuildInv' /\ LabelsAreTrue' /\ UpdateFindsRunnerIdle'
      BY <2>3 DEF IInv, BuildInv, LabelsAreTrue, UpdateFindsRunnerIdle, vars
    <3> QED
      BY <3>1, <3>2, <3>3, UntouchedIdentityIsKept DEF IInv
  <2> QED
    BY <2>1, <2>2, <2>3 DEF Next
<1> QED
  BY <1>1, InitEstablishes, PTL DEF Spec

\* No poll that fails to connect, and no renewal that fails before the runner has
\* its new certificate, quarantines a runner, however often it happens
\* (_quarantine_runner, maintain_runner_certificates).
THEOREM NoQuarantineWithoutCause == Spec => []QuarantineHasCause
<1>1. IInv => QuarantineHasCause
  BY DEF IInv
<1> QED
  BY <1>1, UpkeepInvariant, PTL

\* The controller expects the certificate that the runner presents, between any
\* two renewals (_renew_one_runner records what the runner acknowledged).
THEOREM BothSidesAgree == Spec => []IdentitiesAgree
<1>1. IInv => IdentitiesAgree
  BY DEF IInv, IdentityInv, IdentitiesAgree
<1> QED
  BY <1>1, UpkeepInvariant, PTL

\* However often a definition is edited and queued again, no build carries the name
\* of a revision it was not made from (claim_next_environment_sync).
THEOREM BuildsAreWhatTheySay == Spec => []LabelsAreTrue
<1>1. IInv => LabelsAreTrue
  BY DEF IInv
<1> QED
  BY <1>1, UpkeepInvariant, PTL

\* The drain that an Update establishes before it looks for work keeps the runner
\* idle until its end (management_job_ready_to_start).
THEOREM UpdateMeetsNoBuild == Spec => []UpdateFindsRunnerIdle
<1>1. IInv => UpdateFindsRunnerIdle
  BY DEF IInv
<1> QED
  BY <1>1, UpkeepInvariant, PTL

-----------------------------------------------------------------------------
(* A runner that cannot be reached does not lose its identity unannounced: *)
(* renewal starts early enough for the attempts that raise the warning.    *)

\* The days that the attempts up to the warning take.
DaysNeeded(failures) == (WarnAt - failures) * RetryAfter

AtWork == scheduler.at \in {"asking", "installing"}
LastDay == issued[recorded].expires

\* An attempt takes no day, and what it signs is valid from that day on.
AttemptInv ==
    /\ \A last \in renewal.attempt : last <= day
    /\ AtWork => renewal.attempt = {day}
    /\ scheduler.at = "installing" => issued[scheduler.cert].expires = day + Validity
    /\ ~renewal.warned => renewal.failures < WarnAt

\* The remaining attempts fit between the last one and the end of the certificate,
\* and the next one is not overdue.
AttemptsFit ==
    \A last \in renewal.attempt :
        last + DaysNeeded(renewal.failures) < LastDay + (IF AtWork THEN RetryAfter ELSE 0)
NotOverdue ==
    \/ day <= LastDay - RenewBefore
    \/ \E last \in renewal.attempt : day <= last + RetryAfter

BudgetInv ==
    (~renewal.warned /\ ~quarantined /\ "restart" \notin causes) => AttemptsFit /\ NotOverdue

RenewalInv == AttemptInv /\ BudgetInv

LEMMA DaysNeededShrink ==
    ASSUME NEW failures \in Nat
    PROVE  /\ DaysNeeded(failures) \in Int /\ DaysNeeded(failures) <= RenewBefore
           /\ DaysNeeded(failures + 1) = DaysNeeded(failures) - RetryAfter
           /\ failures < WarnAt => RetryAfter <= DaysNeeded(failures)
<1>a. WarnAt \in Nat \ {0} /\ RetryAfter \in Nat \ {0} /\ WarnAt * RetryAfter <= RenewBefore
      /\ RenewBefore \in Nat
  BY IdentityAssumption
<1>1. DaysNeeded(failures) = WarnAt * RetryAfter - failures * RetryAfter
  BY <1>a DEF DaysNeeded
<1>2. /\ WarnAt * RetryAfter \in Nat /\ failures * RetryAfter \in Nat
      /\ (failures + 1) * RetryAfter = failures * RetryAfter + RetryAfter
  BY <1>a
<1>3. DaysNeeded(failures + 1) = WarnAt * RetryAfter - (failures + 1) * RetryAfter
  BY <1>a DEF DaysNeeded
<1>4. ASSUME failures < WarnAt
      PROVE  RetryAfter <= DaysNeeded(failures)
  <2>1. PICK more \in Nat : WarnAt - failures = more + 1
    <3>1. WarnAt - failures - 1 \in Nat /\ WarnAt - failures = (WarnAt - failures - 1) + 1
      BY <1>a, <1>4
    <3> QED
      BY <3>1
  <2>2. (more + 1) * RetryAfter = more * RetryAfter + RetryAfter /\ more * RetryAfter \in Nat
    BY <1>a
  <2> QED
    BY <1>a, <2>1, <2>2 DEF DaysNeeded
<1> QED
  BY <1>a, <1>1, <1>2, <1>3, <1>4

\* What the arithmetic below needs of the types.
LEMMA RenewalTypes ==
    ASSUME IdentityTypeOK
    PROVE  /\ day \in Nat /\ LastDay \in Nat
           /\ renewal.attempt \subseteq Nat /\ renewal.failures \in Nat
           /\ renewal.warned \in BOOLEAN
           /\ renewal \in [attempt : SUBSET Nat, failures : Nat, warned : BOOLEAN]
           /\ Validity \in Nat /\ RenewBefore \in Nat /\ RetryAfter \in Nat \ {0}
           /\ WarnAt \in Nat \ {0} /\ RenewBefore < Validity /\ 0 < RenewBefore
<1>1. recorded \in Certificates
      /\ renewal \in [attempt : SUBSET Nat, failures : Nat, warned : BOOLEAN] /\ day \in Nat
  BY DEF IdentityTypeOK
<1>2. 0 < RenewBefore
  BY DaysNeededShrink, IdentityAssumption
<1> QED
  BY <1>1, <1>2, CertificateTypes, IdentityAssumption DEF LastDay

\* A certificate that is recorded on the day it was signed leaves room for all attempts.
LEMMA FreshCertificateSuffices ==
    ASSUME IdentityTypeOK, AttemptInv,
           NEW start \in Nat, start <= day,
           NEW failures \in Nat
    PROVE  start + DaysNeeded(failures) < day + Validity /\ day <= (day + Validity) - RenewBefore
BY RenewalTypes, DaysNeededShrink

LEMMA RenewalInit == Init => RenewalInv
<1> SUFFICES ASSUME Init PROVE RenewalInv
  OBVIOUS
<1>1. /\ day = 0 /\ LastDay = Validity /\ renewal.attempt = {} /\ renewal.failures = 0
      /\ scheduler.at = "rest"
  BY DEF Init, IdentityInit, AtRest, LastDay
<1> QED
  BY <1>1, IdentityAssumption DEF RenewalInv, AttemptInv, BudgetInv, AttemptsFit, NotOverdue, AtWork

\* Most steps have nothing to do with the renewal.
RenewalUntouched == UNCHANGED <<day, issued, recorded, renewal, quarantined, scheduler, causes>>

LEMMA UntouchedRenewalIsKept == RenewalInv /\ RenewalUntouched => RenewalInv'
BY DEF RenewalInv, RenewalUntouched, AttemptInv, BudgetInv, AttemptsFit, NotOverdue, AtWork, LastDay

LEMMA IdentityStepKeepsRenewal ==
    ASSUME IInv, RenewalInv, IdentityStep
    PROVE  RenewalInv'
<1>a. IdentityTypeOK /\ IdentityInv /\ AttemptInv /\ BudgetInv
  BY DEF IInv, RenewalInv
<1>b. /\ day \in Nat /\ LastDay \in Nat
      /\ renewal.attempt \subseteq Nat /\ renewal.failures \in Nat /\ renewal.warned \in BOOLEAN
      /\ renewal \in [attempt : SUBSET Nat, failures : Nat, warned : BOOLEAN]
      /\ Validity \in Nat /\ RenewBefore \in Nat /\ RetryAfter \in Nat \ {0}
      /\ WarnAt \in Nat \ {0} /\ RenewBefore < Validity /\ 0 < RenewBefore
  BY <1>a, RenewalTypes
<1>c. /\ DaysNeeded(renewal.failures) \in Int /\ DaysNeeded(renewal.failures) <= RenewBefore
      /\ DaysNeeded(renewal.failures + 1) = DaysNeeded(renewal.failures) - RetryAfter
  BY <1>b, DaysNeededShrink
<1>1. CASE StartRenewal
  <2>1. /\ UNCHANGED <<day, issued, recorded, quarantined, causes>>
        /\ LastDay' = LastDay /\ scheduler.at = "rest"
    BY <1>1 DEF StartRenewal, LastDay
  <2>2. /\ renewal'.attempt = {day} /\ renewal'.failures = renewal.failures
        /\ renewal'.warned = renewal.warned
    BY <1>b, <1>1 DEF StartRenewal
  <2>3. scheduler'.at = "asking"
    BY <1>a, <1>1 DEF StartRenewal, IdentityTypeOK
  <2>4. AttemptInv'
    BY <1>a, <1>b, <2>1, <2>2, <2>3 DEF AttemptInv, AtWork
  <2>5. ASSUME ~renewal.warned, ~quarantined, "restart" \notin causes
        PROVE  day + DaysNeeded(renewal.failures) < LastDay + RetryAfter
    <3>1. AttemptsFit /\ NotOverdue
      BY <1>a, <2>5 DEF BudgetInv
    <3>2. CASE day <= LastDay - RenewBefore
      BY <1>b, <1>c, <3>2
    <3>3. ASSUME NEW last \in renewal.attempt, day <= last + RetryAfter
          PROVE  day + DaysNeeded(renewal.failures) < LastDay + RetryAfter
      <4>1. last \in Nat /\ last + DaysNeeded(renewal.failures) < LastDay
        BY <1>b, <1>c, <2>1, <3>1, <3>3 DEF AttemptsFit, AtWork
      <4> QED
        BY <1>b, <1>c, <3>3, <4>1
    <3> QED
      BY <3>1, <3>2, <3>3 DEF NotOverdue
  <2>6. BudgetInv'
    <3>1. AtWork' /\ (\E last \in renewal'.attempt : day' <= last + RetryAfter)
      BY <1>b, <2>1, <2>2, <2>3 DEF AtWork
    <3> QED
      BY <2>1, <2>2, <2>5, <3>1 DEF BudgetInv, AttemptsFit, NotOverdue
  <2> QED
    BY <2>4, <2>6 DEF RenewalInv
<1>2. CASE SignRenewal
  <2>1. /\ UNCHANGED <<day, recorded, renewal, quarantined, causes>>
        /\ scheduler.at = "asking" /\ scheduler'.at = "installing"
        /\ scheduler'.cert = Len(issued')
    BY <1>2 DEF SignRenewal
  <2>2. PICK key \in Nat : issued' = Sign(key)
    BY <1>2, <1>a, CertificateTypes DEF SignRenewal, IdentityTypeOK
  <2>3. /\ issued' = Append(issued, [expires |-> day + Validity, key |-> key])
        /\ issued \in Seq([expires : Nat, key : Nat])
    BY <1>a, <2>2 DEF Sign, IdentityTypeOK
  <2>4. issued'[Len(issued')] = [expires |-> day + Validity, key |-> key]
    BY <2>3
  <2>5. LastDay' = LastDay
    BY <1>a, <2>1, <2>2, SignAppends DEF LastDay, IdentityTypeOK
  <2>6. AttemptInv'
    BY <1>a, <2>1, <2>4 DEF AttemptInv, AtWork
  <2>7. BudgetInv'
    BY <1>a, <2>1, <2>5 DEF BudgetInv, AttemptsFit, NotOverdue, AtWork
  <2> QED
    BY <2>6, <2>7 DEF RenewalInv
<1>3. CASE InstallRenewal
  <2>1. /\ UNCHANGED <<day, issued, recorded, renewal, quarantined, scheduler>>
        /\ causes \subseteq causes'
    BY <1>3 DEF InstallRenewal
  <2> QED
    BY <1>a, <2>1 DEF RenewalInv, AttemptInv, BudgetInv, AttemptsFit, NotOverdue, AtWork, LastDay
<1>4. CASE RecordRenewal
  <2>1. /\ UNCHANGED <<day, issued, quarantined, causes>> /\ recorded' = scheduler.cert
        /\ scheduler.at = "installing" /\ scheduler'.at = "rest"
    BY <1>4 DEF RecordRenewal, AtRest
  <2>2. /\ renewal'.attempt = renewal.attempt /\ renewal'.failures = 0
        /\ renewal'.warned = FALSE
    BY <1>b, <1>4 DEF RecordRenewal
  <2>3. LastDay' = day + Validity
    BY <1>a, <2>1 DEF LastDay, AttemptInv
  <2>4. AttemptInv'
    BY <1>a, <1>b, <2>1, <2>2 DEF AttemptInv, AtWork
  <2>5. AttemptsFit'
    <3>1. ASSUME NEW last \in renewal.attempt
          PROVE  last + DaysNeeded(0) < day + Validity
      <4>1. last \in Nat /\ last <= day
        BY <1>a, <1>b DEF AttemptInv
      <4> QED
        BY <1>a, <4>1, FreshCertificateSuffices
    <3>2. DaysNeeded(0) \in Int
      BY DaysNeededShrink
    <3> QED
      BY <1>b, <2>1, <2>2, <2>3, <3>1, <3>2 DEF AttemptsFit, AtWork
  <2>6. NotOverdue'
    BY <1>b, <2>1, <2>3 DEF NotOverdue
  <2> QED
    BY <2>4, <2>5, <2>6 DEF RenewalInv, BudgetInv
<1>5. CASE FailRenewal
  <2>1. /\ UNCHANGED <<day, issued, recorded, quarantined>> /\ causes \subseteq causes'
        /\ LastDay' = LastDay /\ AtWork /\ scheduler'.at = "rest"
    BY <1>5 DEF FailRenewal, LastDay, AtWork, AtRest
  <2>2. /\ renewal'.attempt = renewal.attempt /\ renewal'.failures = renewal.failures + 1
        /\ renewal'.warned = (renewal.warned \/ renewal.failures + 1 >= WarnAt)
    BY <1>b, <1>5 DEF FailRenewal
  <2>3. renewal.attempt = {day}
    BY <1>a, <2>1 DEF AttemptInv
  <2>4. AttemptInv'
    <3>1. ~renewal'.warned => renewal.failures + 1 < WarnAt
      <4>1. ~renewal'.warned => ~(renewal.failures + 1 >= WarnAt)
        BY <2>2
      <4> QED
        BY <1>b, <4>1
    <3> QED
      BY <1>a, <2>1, <2>2, <3>1 DEF AttemptInv, AtWork
  <2>5. ASSUME ~renewal'.warned, ~quarantined', "restart" \notin causes'
        PROVE  AttemptsFit' /\ NotOverdue'
    <3>1. day + DaysNeeded(renewal.failures) < LastDay + RetryAfter
      BY <1>a, <2>1, <2>2, <2>3, <2>5 DEF BudgetInv, AttemptsFit
    <3>2. day + DaysNeeded(renewal.failures + 1) < LastDay
      BY <1>b, <1>c, <3>1
    <3>3. DaysNeeded(renewal.failures + 1) \in Int
      BY <1>b, <1>c
    <3>4. AttemptsFit'
      BY <1>b, <2>1, <2>2, <2>3, <3>2, <3>3 DEF AttemptsFit, AtWork
    <3>5. NotOverdue'
      BY <1>b, <2>1, <2>2, <2>3 DEF NotOverdue
    <3> QED
      BY <3>4, <3>5
  <2> QED
    BY <2>4, <2>5 DEF RenewalInv, BudgetInv
<1>6. CASE StartPoll
  <2>1. /\ UNCHANGED <<day, issued, recorded, renewal, quarantined, causes>>
        /\ scheduler.at = "rest" /\ scheduler'.at = "polling"
    BY <1>6 DEF StartPoll
  <2> QED
    BY <1>a, <2>1 DEF RenewalInv, AttemptInv, BudgetInv, AttemptsFit, NotOverdue, AtWork, LastDay
<1>7. CASE EndPoll
  <2>1. /\ UNCHANGED <<day, issued, recorded, renewal, causes>>
        /\ ~quarantined' => ~quarantined
        /\ scheduler.at = "polling" /\ scheduler'.at = "rest"
    BY <1>7 DEF EndPoll, AtRest
  <2> QED
    BY <1>a, <2>1 DEF RenewalInv, AttemptInv, BudgetInv, AttemptsFit, NotOverdue, AtWork, LastDay
<1>8. CASE RestartScheduler
  <2>1. /\ UNCHANGED <<day, issued, recorded, renewal, quarantined>> /\ causes \subseteq causes'
        /\ scheduler'.at = "rest"
        /\ AtWork => "restart" \in causes'
    BY <1>8 DEF RestartScheduler, AtRest, AtWork
  <2>2. AttemptInv'
    BY <1>a, <2>1 DEF AttemptInv, AtWork
  <2>3. BudgetInv'
    BY <1>a, <2>1 DEF BudgetInv, AttemptsFit, NotOverdue, AtWork, LastDay
  <2> QED
    BY <2>2, <2>3 DEF RenewalInv
<1>9. CASE LoseRegistration
  BY <1>9, UntouchedRenewalIsKept DEF LoseRegistration, RenewalUntouched
<1>10. CASE NextDay
  <2>1. /\ UNCHANGED <<issued, recorded, renewal, quarantined, scheduler, causes>>
        /\ LastDay' = LastDay /\ scheduler.at = "rest" /\ day' = day + 1 /\ ~RenewalDue
    BY <1>10 DEF NextDay, LastDay
  <2>2. AttemptInv'
    BY <1>a, <1>b, <2>1 DEF AttemptInv, AtWork
  <2>3. ASSUME ~quarantined
        PROVE  NotOverdue'
    <3>1. \/ ~(day >= LastDay - RenewBefore)
          \/ \E last \in renewal.attempt : ~(day >= last + RetryAfter)
      BY <2>1, <2>3 DEF RenewalDue, LastDay
    <3>2. ASSUME NEW last \in renewal.attempt, ~(day >= last + RetryAfter)
          PROVE  day + 1 <= last + RetryAfter
      <4>1. last \in Nat
        BY <1>b
      <4> QED
        BY <1>b, <3>2, <4>1
    <3>3. ~(day >= LastDay - RenewBefore) => day + 1 <= LastDay - RenewBefore
      BY <1>b
    <3> QED
      BY <2>1, <3>1, <3>2, <3>3 DEF NotOverdue
  <2>4. AttemptsFit => AttemptsFit'
    BY <2>1 DEF AttemptsFit, AtWork
  <2> QED
    BY <1>a, <2>1, <2>2, <2>3, <2>4 DEF RenewalInv, BudgetInv
<1> QED
  BY <1>1, <1>2, <1>3, <1>4, <1>5, <1>6, <1>7, <1>8, <1>9, <1>10 DEF IdentityStep

\* An enrolment gives a certificate of that day; all else leaves the renewal alone.
LEMMA UpkeepStepKeepsRenewal ==
    ASSUME IInv, RenewalInv, UpkeepStep
    PROVE  RenewalInv'
<1>a. IdentityTypeOK /\ AttemptInv /\ BudgetInv
  BY DEF IInv, RenewalInv
<1>1. CASE EnrolRunner
  <2>1. /\ UNCHANGED <<day, renewal, scheduler>> /\ recorded' = Len(issued')
        /\ issued' = Append(issued, [expires |-> day + Validity, key |-> Len(issued) + 1])
    BY <1>1 DEF EnrolRunner, Enrol, Sign
  <2>2. PICK key \in Nat : issued' = Sign(key)
    BY <1>1, <1>a, CertificateTypes DEF EnrolRunner, Enrol
  <2>3. LastDay' = day + Validity
    <3>1. issued \in Seq([expires : Nat, key : Nat])
      BY <1>a DEF IdentityTypeOK
    <3>2. issued'[Len(issued')] = [expires |-> day + Validity, key |-> Len(issued) + 1]
      BY <2>1, <3>1
    <3> QED
      BY <2>1, <3>2 DEF LastDay
  <2>4. issued'[scheduler.cert] = issued[scheduler.cert]
    BY <1>a, <2>2, SignAppends DEF IdentityTypeOK
  <2>5. AttemptInv'
    BY <1>a, <2>1, <2>4 DEF AttemptInv, AtWork
  <2>b. /\ day \in Nat /\ renewal.attempt \subseteq Nat /\ renewal.failures \in Nat
        /\ Validity \in Nat /\ RenewBefore \in Nat /\ RetryAfter \in Nat
    BY <1>a, RenewalTypes
  <2>6. AttemptsFit'
    <3>1. ASSUME NEW last \in renewal.attempt
          PROVE  last + DaysNeeded(renewal.failures)
                   < (day + Validity) + (IF AtWork THEN RetryAfter ELSE 0)
      <4>1. last \in Nat /\ last <= day
        BY <1>a, <2>b DEF AttemptInv
      <4>2. last + DaysNeeded(renewal.failures) < day + Validity
        BY <1>a, <2>b, <4>1, FreshCertificateSuffices
      <4>3. DaysNeeded(renewal.failures) \in Int
        BY <2>b, DaysNeededShrink
      <4> QED
        BY <2>b, <4>1, <4>2, <4>3
    <3> QED
      BY <2>1, <2>3, <3>1 DEF AttemptsFit, AtWork
  <2>7. NotOverdue'
    <3>1. day <= (day + Validity) - RenewBefore
      BY <2>b, IdentityAssumption
    <3> QED
      BY <2>1, <2>3, <3>1 DEF NotOverdue
  <2> QED
    BY <2>5, <2>6, <2>7 DEF RenewalInv, BudgetInv
<1>2. ASSUME ~EnrolRunner
      PROVE  RenewalUntouched
  BY <1>2 DEF UpkeepStep, RenewalUntouched, identityVars, EditEnvironment, QueueSync, BeginClaim,
     CommitClaim, Build, Report, LoseReport, SendHeartbeat, ReceiveHeartbeat, RequestUpdate, Drain,
     StartUpdate, FinishUpdate, AbandonUpdate
<1> QED
  BY <1>1, <1>2, UntouchedRenewalIsKept

LEMMA RenewalKeepsItsDays == Spec => []RenewalInv
<1>1. IInv /\ RenewalInv /\ [Next]_vars => RenewalInv'
  <2> SUFFICES ASSUME IInv, RenewalInv, [Next]_vars PROVE RenewalInv'
    OBVIOUS
  <2>1. CASE UNCHANGED vars
    BY <2>1, UntouchedRenewalIsKept DEF vars, identityVars, RenewalUntouched
  <2> QED
    BY <2>1, IdentityStepKeepsRenewal, UpkeepStepKeepsRenewal DEF Next
<1> QED
  BY <1>1, RenewalInit, UpkeepInvariant, PTL DEF Spec

\* A certificate never runs out before the attempts that raise the warning have all
\* been made, for every validity and interval that leave room for them; only a
\* restart in the middle of an attempt, which goes uncounted, or a quarantine
\* prevents it (maintain_runner_certificates, _renew_one_runner).
THEOREM NoSilentExpiry == Spec => []ExpiryIsAnnounced
<1>1. IInv /\ RenewalInv => ExpiryIsAnnounced
  <2> SUFFICES ASSUME IInv, RenewalInv, Expired(recorded),
                      ~renewal.warned, ~quarantined, "restart" \notin causes
               PROVE  FALSE
    BY DEF ExpiryIsAnnounced
  <2>a. IdentityTypeOK /\ AttemptInv /\ AttemptsFit /\ NotOverdue /\ day >= LastDay
    BY DEF IInv, RenewalInv, BudgetInv, Expired, LastDay
  <2>b. /\ day \in Nat /\ LastDay \in Nat /\ renewal.attempt \subseteq Nat
        /\ renewal.failures \in Nat /\ RenewBefore \in Nat /\ RetryAfter \in Nat \ {0}
        /\ 0 < RenewBefore
    BY <2>a, RenewalTypes
  <2>c. /\ DaysNeeded(renewal.failures) \in Int
        /\ RetryAfter <= DaysNeeded(renewal.failures)
    BY <2>a, <2>b, DaysNeededShrink DEF AttemptInv
  <2>1. PICK last \in renewal.attempt : day <= last + RetryAfter
    BY <2>a, <2>b DEF NotOverdue
  <2>2. last + DaysNeeded(renewal.failures) < LastDay + (IF AtWork THEN RetryAfter ELSE 0)
    BY <2>a DEF AttemptsFit
  <2>3. AtWork => last = day
    BY <2>a DEF AttemptInv
  <2>4. last \in Nat
    BY <2>b
  <2> QED
    BY <2>a, <2>b, <2>c, <2>1, <2>2, <2>3, <2>4
<1> QED
  BY <1>1, UpkeepInvariant, RenewalKeepsItsDays, PTL

-----------------------------------------------------------------------------
\* What the runner is about to report is on its disk: nothing but a build replaces it.
ReadyIsOnDisk == agent.at = "ready" => agent.label \in Labels

LEMMA ReportsComeFromDisk == Spec => []ReadyIsOnDisk
<1>1. Init => ReadyIsOnDisk
  BY DEF Init, Idle, ReadyIsOnDisk
<1>2. IInv /\ ReadyIsOnDisk /\ [Next]_vars => ReadyIsOnDisk'
  <2> SUFFICES ASSUME IInv, ReadyIsOnDisk, [Next]_vars PROVE ReadyIsOnDisk'
    OBVIOUS
  <2>a. agent \in [at : {"idle", "building", "ready", "failed"}, label : Nat, content : Nat]
    BY DEF IInv, UpkeepTypes
  <2>1. CASE Build
    <3>1. CASE agent' = [Idle EXCEPT !.at = "failed"]
      BY <3>1 DEF Idle, ReadyIsOnDisk
    <3>2. CASE agent' # [Idle EXCEPT !.at = "failed"]
      <4>1. agent'.label = agent.label
        BY <2>a, <2>1, <3>2 DEF Build
      <4>2. \/ disk' = disk /\ agent.label \in Labels
            \/ disk' = {[label |-> agent.label, content |-> agent.content]}
        BY <2>1, <3>2 DEF Build
      <4>3. CASE disk' = disk /\ agent.label \in Labels
        BY <4>1, <4>3 DEF ReadyIsOnDisk, Labels
      <4>4. CASE disk' = {[label |-> agent.label, content |-> agent.content]}
        <5>1. Labels' = {agent.label}
          BY <4>4 DEF Labels
        <5> QED
          BY <4>1, <5>1 DEF ReadyIsOnDisk
      <4> QED
        BY <4>2, <4>3, <4>4
    <3> QED
      BY <3>1, <3>2
  <2>2. ASSUME ~Build
        PROVE  /\ disk' = disk
               /\ agent' = agent \/ agent' = Idle \/ agent'.at = "building"
    BY <2>2 DEF Next, UpkeepStep, vars, syncVars, EditEnvironment, QueueSync, BeginClaim,
       CommitClaim, Report, LoseReport, SendHeartbeat, ReceiveHeartbeat, RequestUpdate, Drain,
       StartUpdate, EnrolRunner, FinishUpdate, AbandonUpdate
  <2> QED
    BY <2>1, <2>2 DEF ReadyIsOnDisk, Labels, Idle
<1> QED
  BY <1>1, <1>2, UpkeepInvariant, PTL DEF Spec

\* A report, however late, and whatever was queued again meanwhile, puts down as
\* ready only what the runner has (complete_environment_sync).
THEOREM ReportsAreAlwaysTrue == Spec => ReportsAreTrue
<1>1. ReadyIsOnDisk /\ [Next]_vars
        => [(row' # row /\ heartbeat' = heartbeat) => row' \subseteq Labels']_vars
  <2> SUFFICES ASSUME ReadyIsOnDisk, [Next]_vars, row' # row, heartbeat' = heartbeat
               PROVE  row' \subseteq Labels'
    OBVIOUS
  <2>1. CASE Report
    <3>1. /\ agent.at = "ready" /\ agent.label = sync.revision /\ row' = {sync.revision}
          /\ disk' = disk
      BY <2>1 DEF Report
    <3> QED
      BY <3>1 DEF ReadyIsOnDisk, Labels
  <2>2. CASE ReceiveHeartbeat
    BY <2>2 DEF ReceiveHeartbeat
  <2>3. ASSUME ~Report, ~ReceiveHeartbeat
        PROVE  row' = row
    BY <2>3 DEF Next, UpkeepStep, vars, syncVars, EditEnvironment, QueueSync, BeginClaim,
       CommitClaim, Build, LoseReport, SendHeartbeat, RequestUpdate, Drain, StartUpdate,
       EnrolRunner, FinishUpdate, AbandonUpdate
  <2> QED
    BY <2>1, <2>2, <2>3
<1> QED
  BY <1>1, ReportsComeFromDisk, PTL DEF Spec, ReportsAreTrue

=============================================================================

--------------------------- MODULE RunnerIdentity ---------------------------
(***************************************************************************)
(* The X.509 identity of one remote runner: the certificate the controller *)
(* has recorded, the one the runner's service presents, their renewal and  *)
(* health polls by the scheduler, quarantine, and enrolment by an Update.  *)
(* The scheduler is one loop that does one thing at a time; the runner and *)
(* the Update run beside it.                                               *)
(***************************************************************************)
EXTENDS Integers, Sequences, FiniteSets

CONSTANTS
    Validity,       \* days a certificate is valid
    RenewBefore,    \* days before its end when renewal is due
    RetryAfter,     \* days between two attempts
    WarnAt,         \* failures that raise the warning
    MaxDay, MaxCertificates, MaxFaults     \* bounds

ASSUME IdentityAssumption ==
    /\ Validity \in Nat /\ RenewBefore \in Nat /\ RetryAfter \in Nat \ {0}
    /\ WarnAt \in Nat \ {0}
    /\ RenewBefore < Validity /\ WarnAt * RetryAfter <= RenewBefore
    /\ MaxDay \in Nat /\ MaxCertificates \in Nat /\ MaxFaults \in Nat

VARIABLES
    day,            \* the clock, in days
    issued,         \* certificates signed so far: last day, private key
    recorded,       \* the one the controller expects
    installed,      \* the one the runner presents
    renewal,        \* of the runner's row: day of the last attempt, failures, warned
    quarantined,
    scheduler,      \* what the scheduler is doing, with which certificate
    request,        \* the certificate of an install request under way, in a set
    registered,     \* the runner's registration file is in place
    causes,         \* history: what may have made recorded and installed differ
    faults          \* counts lost messages, crashes and losses

identityVars == <<day, issued, recorded, installed, renewal, quarantined, scheduler, request,
                  registered, causes, faults>>

Certificates == DOMAIN issued
Causes == {"lost reply", "restart", "enrolment"}
AtRest == [at |-> "rest", cert |-> 1]

IdentityInit ==
    /\ day = 0
    /\ issued = <<[expires |-> Validity, key |-> 1]>>
    /\ recorded = 1 /\ installed = 1
    /\ renewal = [attempt |-> {}, failures |-> 0, warned |-> FALSE]
    /\ quarantined = FALSE
    /\ scheduler = AtRest /\ request = {}
    /\ registered = TRUE
    /\ causes = {} /\ faults = 0

Expired(cert) == day >= issued[cert].expires

\* The peer passes TLS and the pinned identity (_validate_peer_certificate and,
\* from the runner's side, _certificate_matches_runner).
Presents(cert) == installed = cert /\ ~Expired(cert)
Authenticated == Presents(recorded)

Faulty == faults < MaxFaults /\ faults' = faults + 1

Sign(key) == Append(issued, [expires |-> day + Validity, key |-> key])

-----------------------------------------------------------------------------
(* Renewal, by maintain_runner_certificates.                               *)

RenewalDue ==
    /\ ~quarantined
    /\ day >= issued[recorded].expires - RenewBefore
    /\ \A last \in renewal.attempt : day >= last + RetryAfter

StartRenewal ==
    /\ scheduler.at = "rest" /\ RenewalDue
    /\ renewal' = [renewal EXCEPT !.attempt = {day}]
    /\ scheduler' = [scheduler EXCEPT !.at = "asking"]
    /\ UNCHANGED <<day, issued, recorded, installed, quarantined, request, registered,
                   causes, faults>>

\* The request for signing arrives, is signed, and the install request leaves.
SignRenewal ==
    /\ scheduler.at = "asking" /\ Authenticated
    /\ Len(issued) < MaxCertificates
    /\ issued' = Sign(issued[installed].key)
    /\ scheduler' = [at |-> "installing", cert |-> Len(issued')]
    /\ request' = {Len(issued')}
    /\ UNCHANGED <<day, recorded, installed, renewal, quarantined, registered, causes, faults>>

\* _install_renewed_identity: refused unless it fits the runner's private key.
InstallRenewal ==
    /\ \E cert \in request :
        /\ installed' = IF issued[cert].key = issued[installed].key THEN cert ELSE installed
        /\ causes' = IF scheduler = [at |-> "installing", cert |-> cert] THEN causes
                     ELSE causes \cup {"lost reply"}
    /\ request' = {}
    /\ UNCHANGED <<day, issued, recorded, renewal, quarantined, scheduler, registered, faults>>

\* The answer names the certificate that was sent.
RecordRenewal ==
    /\ scheduler.at = "installing" /\ request = {} /\ installed = scheduler.cert
    /\ recorded' = scheduler.cert
    /\ renewal' = [renewal EXCEPT !.failures = 0, !.warned = FALSE]
    /\ scheduler' = AtRest
    /\ UNCHANGED <<day, issued, installed, quarantined, request, registered, causes, faults>>

\* The reply of an install that took place never arrives.
Unanswered(why) ==
    IF scheduler.at = "installing" /\ request = {} THEN {why} ELSE {}

\* Mutant: each attempt starts to count again.
FailRenewal_CountsOne ==
    /\ scheduler.at \in {"asking", "installing"}
    /\ renewal' = [renewal EXCEPT !.failures = 1, !.warned = @ \/ 1 >= WarnAt]
    /\ scheduler' = AtRest
    /\ causes' = causes \cup Unanswered("lost reply")
    /\ UNCHANGED <<day, issued, recorded, installed, quarantined, request, registered, faults>>

\* The runner cannot be reached, refuses, or does not answer in time; what was
\* sent may still arrive, until the next request takes its place.
FailRenewal ==
    /\ scheduler.at \in {"asking", "installing"}
    /\ renewal' = [renewal EXCEPT !.failures = @ + 1,
                                  !.warned = @ \/ renewal.failures + 1 >= WarnAt]
    /\ scheduler' = AtRest
    /\ causes' = causes \cup Unanswered("lost reply")
    /\ UNCHANGED <<day, issued, recorded, installed, quarantined, request, registered, faults>>

-----------------------------------------------------------------------------
(* The health poll, by refresh_remote_runner_health.                       *)

StartPoll ==
    /\ scheduler.at = "rest" /\ ~quarantined
    /\ scheduler' = [at |-> "polling", cert |-> recorded]
    /\ UNCHANGED <<day, issued, recorded, installed, renewal, quarantined, request, registered,
                   causes, faults>>

\* Mutant: a runner that cannot be reached fails the check of its identity.
EndPoll_Unreachable ==
    /\ scheduler.at = "polling"
    /\ scheduler' = AtRest
    /\ quarantined' \in {quarantined, TRUE}
    /\ UNCHANGED <<day, issued, recorded, installed, renewal, request, registered, causes, faults>>

\* The runner answers, cannot be reached, or shows another identity than the
\* one that was recorded when the poll started (_quarantine_runner).
EndPoll ==
    /\ scheduler.at = "polling"
    /\ scheduler' = AtRest
    /\ \/ quarantined' = quarantined
       \/ ~Presents(scheduler.cert) /\ quarantined' = TRUE
    /\ UNCHANGED <<day, issued, recorded, installed, renewal, request, registered, causes, faults>>

RestartScheduler ==
    /\ scheduler.at # "rest" /\ Faulty
    /\ scheduler' = AtRest
    /\ causes' = causes \cup Unanswered("restart")
                        \cup (IF scheduler.at \in {"asking", "installing"} THEN {"restart"} ELSE {})
    /\ UNCHANGED <<day, issued, recorded, installed, renewal, quarantined, request, registered>>

-----------------------------------------------------------------------------
(* Enrolment, on behalf of an Update.                                      *)

\* enroll_runner_pki: a new UUID, key and certificate; the quarantine is lifted.
Enrol ==
    /\ Len(issued) < MaxCertificates
    /\ issued' = Sign(Len(issued) + 1)
    /\ recorded' = Len(issued')
    /\ quarantined' = FALSE
    /\ causes' = causes \cup {"enrolment"}
    /\ UNCHANGED <<day, installed, renewal, scheduler, request, faults>>

\* The registration file of the runner is lost.
LoseRegistration ==
    /\ registered /\ Faulty
    /\ registered' = FALSE
    /\ UNCHANGED <<day, issued, recorded, installed, renewal, quarantined, scheduler, request,
                   causes>>

\* The scheduler looks after due certificates many times a day.
NextDay ==
    /\ day < MaxDay
    /\ scheduler.at = "rest" /\ ~RenewalDue
    /\ day' = day + 1
    /\ UNCHANGED <<issued, recorded, installed, renewal, quarantined, scheduler, request,
                   registered, causes, faults>>

IdentityStep ==
    \/ StartRenewal \/ SignRenewal \/ InstallRenewal \/ RecordRenewal \/ FailRenewal
    \/ StartPoll \/ EndPoll
    \/ RestartScheduler \/ LoseRegistration \/ NextDay

-----------------------------------------------------------------------------
IdentityTypeOK ==
    /\ day \in Nat /\ faults \in Nat
    /\ issued \in Seq([expires : Nat, key : Nat])
    /\ recorded \in Certificates /\ installed \in Certificates
    /\ renewal \in [attempt : SUBSET Nat, failures : Nat, warned : BOOLEAN]
    /\ quarantined \in BOOLEAN /\ registered \in BOOLEAN
    /\ scheduler \in [at : {"rest", "asking", "installing", "polling"},
                      cert : Certificates]
    /\ request \subseteq Certificates
    /\ causes \subseteq Causes

\* A runner is quarantined only when its identity may really have changed: no
\* renewal that fails before the runner has the new certificate, and no poll that
\* fails to connect, does it (docs/security/RUNNER_TRANSPORT.md, "Ordinary
\* connectivity failures do not quarantine a runner").
QuarantineHasCause == quarantined => causes # {} \/ Expired(installed)

\* Between renewals the controller expects what the runner presents, unless a
\* reply was lost or a restart or an enrolment came between.
IdentitiesAgree == (causes = {} /\ scheduler.at # "installing") => recorded = installed

\* A certificate that ran out while renewal was at work has been announced to
\* the administrators (_renew_one_runner: failures are counted over all attempts).
ExpiryIsAnnounced ==
    Expired(recorded) => renewal.warned \/ quarantined \/ "restart" \in causes

=============================================================================

------------------------------ MODULE Recovery ------------------------------
(***************************************************************************)
(* Recovery of a key epoch (recovery.py): guardians approve a request, and *)
(* evaluate_recovery is asked again and again whether it may be executed.  *)
(*                                                                         *)
(* An approval is made for a guardian that consents, with both signatures, *)
(* or by somebody else, who can make at most one of the two.               *)
(***************************************************************************)
EXTENDS FiniteSets, Integers

CONSTANTS
    PEOPLE,         \* guardians and others
    ALLOWED_GUARDIANS, THRESHOLD,
    REQUESTS,       \* [old_epoch, new_epoch, reason, created_at, execute_after]; an
                    \* instant below 0 stands for a text that is none
    LAST            \* bound on the time (for TLC)

ASSUME GuardiansAssumption ==
    /\ IsFiniteSet(ALLOWED_GUARDIANS) /\ THRESHOLD \in Int
    /\ \A r \in REQUESTS :
          {r.old_epoch, r.new_epoch, r.created_at, r.execute_after} \subseteq Int

VARIABLES
    request, approvals,
    consents,       \* the guardians that do approve
    now

rvars == <<request, approvals, consents, now>>

RInit ==
    /\ request \in REQUESTS /\ approvals = {} /\ consents = {}
    /\ now = 0

\* A guardian approves.
Consent ==
    \E g \in PEOPLE :
        /\ consents' = consents \cup {g}
        /\ approvals' = approvals \cup {[guardian_id |-> g, ed25519_valid |-> TRUE,
                                         ml_dsa_65_valid |-> TRUE]}
        /\ UNCHANGED <<request, now>>

\* An approval comes in with a signature that does not verify.
HalfApproval ==
    \E g \in PEOPLE, ed, ml \in BOOLEAN :
        /\ ~(ed /\ ml)
        /\ approvals' = approvals \cup {[guardian_id |-> g, ed25519_valid |-> ed,
                                         ml_dsa_65_valid |-> ml]}
        /\ UNCHANGED <<request, consents, now>>

Tick == now < LAST /\ now' = now + 1 /\ UNCHANGED <<request, approvals, consents>>

RNext == Consent \/ HalfApproval \/ Tick

RSpec == RInit /\ [][RNext]_rvars

-----------------------------------------------------------------------------
(* evaluate_recovery *)

\* Mutant of Approved: the two signatures may come in two approvals.
ApprovedByHalves ==
    {g \in ALLOWED_GUARDIANS :
        /\ \E a \in approvals : a.guardian_id = g /\ a.ed25519_valid
        /\ \E a \in approvals : a.guardian_id = g /\ a.ml_dsa_65_valid}

Approved ==
    {g \in ALLOWED_GUARDIANS :
        \E a \in approvals : a.guardian_id = g /\ a.ed25519_valid /\ a.ml_dsa_65_valid}

\* Mutant of LockEnded: one instant early.
LockEndedEarly == now + 1 >= request.execute_after

LockEnded == now >= request.execute_after

\* parse_rfc3339 raises for a text that is no instant.
Unreadable == request.created_at < 0 \/ request.execute_after < 0

\* What is raised, or whether the time lock has ended.
Evaluate ==
    IF \/ request.new_epoch <= request.old_epoch
       \/ request.reason = "blank"
       \/ Unreadable
       \/ request.execute_after <= request.created_at
    THEN "invalid request"
    ELSE IF THRESHOLD < 1 \/ THRESHOLD > Cardinality(ALLOWED_GUARDIANS) THEN "invalid policy"
    ELSE IF Cardinality(Approved) < THRESHOLD THEN "threshold not met"
    ELSE IF LockEnded THEN "authorized" ELSE "locked"

-----------------------------------------------------------------------------
(* Properties *)

\* evaluate_recovery authorises a recovery exactly when as many of its guardians consent
\* as the threshold says and the whole time lock is over, from the instant execute_after
\* on and at none before: what others send adds up to no guardian, an approval with one
\* signature takes back no consent, and a request without a time lock is never executed.
AuthorizedByConsent ==
    Evaluate = "authorized" <=>
        /\ request.new_epoch > request.old_epoch /\ request.reason # "blank"
        /\ 0 <= request.created_at /\ request.created_at < request.execute_after
        /\ THRESHOLD >= 1 /\ Cardinality(consents \cap ALLOWED_GUARDIANS) >= THRESHOLD
        /\ request.execute_after <= now

=============================================================================

---------------------------- MODULE ApprovalRecord ----------------------------
(***************************************************************************)
(* The immutable approval record of core/approvals.py and the signed       *)
(* assertion of core/authority.py and core/verification.py.                *)
(*                                                                         *)
(* A record is a value: every transition method returns a new one.  Each   *)
(* method is modelled by two operators, CanX(r, t), the conditions under   *)
(* which it does not raise, and Xed(r, t), the record it returns.          *)
(*                                                                         *)
(* Data: a request is its exact-request fingerprint (the request id, which *)
(* is drawn afresh for every record, is identified with the approval id);  *)
(* policy provenance is the policy's digest; times are naturals; the       *)
(* decision authority is present exactly when decisionAt is.               *)
(***************************************************************************)
EXTENDS Integers

CONSTANTS
    Approvals,      \* approval ids (new_approval_id never repeats one)
    Fingerprints,   \* exact-request fingerprints
    Policies,       \* policy digests
    None            \* Python's None

ASSUME NoneAssumption ==
    None \notin Approvals \cup Fingerprints \cup Policies

NoTime == -1

States ==
    {"PENDING", "APPROVED", "REJECTED", "CANCELLED", "EXPIRED",
     "POLICY_INVALIDATED", "CONSUMED"}

Record ==
    [state : States, fp : Fingerprints, policy : Policies,
     createdAt : Nat, expiresAt : Nat, stateAt : Nat,
     decisionAt : Nat \cup {NoTime}, consumedAt : Nat \cup {NoTime},
     version : Nat]

\* ApprovalRecord._validate, run by the constructor of every record.
WellFormed(r) ==
    /\ r.expiresAt > r.createdAt
    /\ r.state \in {"APPROVED", "REJECTED", "CONSUMED"} => r.decisionAt # NoTime
    /\ r.state = "PENDING" => r.decisionAt = NoTime
    /\ r.state = "CONSUMED" <=> r.consumedAt # NoTime

\* ApprovalRecord.create
Created(f, p, t, ttl) ==
    [state |-> "PENDING", fp |-> f, policy |-> p,
     createdAt |-> t, expiresAt |-> t + ttl, stateAt |-> t,
     decisionAt |-> NoTime, consumedAt |-> NoTime, version |-> 1]

\* ApprovalRecord._next: identity and binding are copied, the version grows.
NextRecord(r, s, t, decision, consumption) ==
    [state |-> s, fp |-> r.fp, policy |-> r.policy,
     createdAt |-> r.createdAt, expiresAt |-> r.expiresAt, stateAt |-> t,
     decisionAt |-> decision, consumedAt |-> consumption,
     version |-> r.version + 1]

\* ApprovalRecord._require_not_expired
NotExpired(r, t) == t < r.expiresAt

CanDecide(r, t)     == r.state = "PENDING" /\ NotExpired(r, t)
Approved(r, t)      == NextRecord(r, "APPROVED", t, t, NoTime)
Rejected(r, t)      == NextRecord(r, "REJECTED", t, t, NoTime)

CanCancel(r, t)     == r.state \in {"PENDING", "APPROVED"} /\ NotExpired(r, t)
Cancelled(r, t)     == NextRecord(r, "CANCELLED", t, r.decisionAt, NoTime)

CanExpire(r, t)     == r.state \in {"PENDING", "APPROVED"} /\ ~NotExpired(r, t)
Expired(r, t)       == NextRecord(r, "EXPIRED", t, r.decisionAt, NoTime)

CanInvalidate(r, t) == r.state \in {"PENDING", "APPROVED"} /\ NotExpired(r, t)
\* Mutant of Invalidated: a state the enumeration does not have.
InvalidatedMisnamed(r, t) == NextRecord(r, "INVALIDATED", t, r.decisionAt, NoTime)
Invalidated(r, t)   == NextRecord(r, "POLICY_INVALIDATED", t, r.decisionAt, NoTime)

\* Mutant of CanConsume: the expiry is not looked at.
CanConsumeLate(r, t) == r.state = "APPROVED"
CanConsume(r, t)    == r.state = "APPROVED" /\ NotExpired(r, t)
Consumed(r, t)      == NextRecord(r, "CONSUMED", t, r.decisionAt, t)

-----------------------------------------------------------------------------
(***************************************************************************)
(* The assertion a human decision issues, and its verification.            *)
(***************************************************************************)

Assertion ==
    [id : Approvals, fp : Fingerprints, policy : Policies,
     issuedAt : Nat, expiresAt : Nat]

\* LocalApprovalAuthority.issue on record r of approval a
CanIssue(r, t) == r.state \in {"PENDING", "APPROVED"} /\ NotExpired(r, t)

Issued(a, r, t) ==
    [id |-> a, fp |-> r.fp, policy |-> r.policy,
     issuedAt |-> t, expiresAt |-> r.expiresAt]

\* ApprovalVerifier.verify of assertion c against record r of approval a.
\* Audience, issuer and signature are those of the one trusted authority.
Verifies(c, a, r, t) ==
    /\ r.state \in {"PENDING", "APPROVED"}
    /\ c.issuedAt <= t
    /\ t < c.expiresAt
    /\ c.expiresAt = r.expiresAt
    /\ c.id = a
    /\ c.fp = r.fp
    /\ c.policy = r.policy
=============================================================================

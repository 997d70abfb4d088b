---------------------------- MODULE RecordMachine -----------------------------
(***************************************************************************)
(* One approval record driven through the transition methods of            *)
(* core/approvals.py in every order.  Each caller passes its own clock     *)
(* reading, and readings of two hosts need not be ordered, so the time of  *)
(* a transition is any value up to MaxTime.                                *)
(***************************************************************************)
EXTENDS ApprovalRecord

CONSTANTS MaxTime, MaxTTL   \* bounds of clock readings and of ttl_seconds

VARIABLES
    rec,       \* the record the caller holds
    path       \* history: the states of every record returned so far

vars == <<rec, path>>

Init ==
    /\ \E f \in Fingerprints, p \in Policies, t \in 0..MaxTime, ttl \in 1..MaxTTL :
           rec = Created(f, p, t, ttl)
    /\ path = {"PENDING"}

\* The constructor refuses a record that is not well formed.
Step(r) == WellFormed(r) /\ rec' = r /\ path' = path \cup {r.state}

Approve(t)    == CanDecide(rec, t)     /\ Step(Approved(rec, t))
Reject(t)     == CanDecide(rec, t)     /\ Step(Rejected(rec, t))
Cancel(t)     == CanCancel(rec, t)     /\ Step(Cancelled(rec, t))
Expire(t)     == CanExpire(rec, t)     /\ Step(Expired(rec, t))
Invalidate(t) == CanInvalidate(rec, t) /\ Step(Invalidated(rec, t))
Consume(t)    == CanConsume(rec, t)    /\ Step(Consumed(rec, t))

Next ==
    \E t \in 0..MaxTime :
        \/ Approve(t) \/ Reject(t) \/ Cancel(t)
        \/ Expire(t) \/ Invalidate(t) \/ Consume(t)

Spec == Init /\ [][Next]_vars

-----------------------------------------------------------------------------
TypeOK == rec \in Record /\ path \subseteq States

\* A consumed record was approved once and never rejected, cancelled, expired
\* or invalidated on the way, however the callers' clocks disagree; and the
\* row version tells exactly how many transitions it went through.
ConsumedOnlyThroughApproval ==
    rec.state = "CONSUMED" =>
        /\ path = {"PENDING", "APPROVED", "CONSUMED"}
        /\ rec.version = 3
        /\ rec.consumedAt < rec.expiresAt
=============================================================================

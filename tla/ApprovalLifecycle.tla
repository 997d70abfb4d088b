-------------------------- MODULE ApprovalLifecycle ---------------------------
(***************************************************************************)
(* What the approval store promises its callers, without saying how: every *)
(* approval follows the lifecycle of core/approvals.py, never leaves a     *)
(* final state, and is handed out for use at most once, only after it has  *)
(* been consumed.  ApprovalStore implements this specification.            *)
(***************************************************************************)
EXTENDS Naturals

CONSTANT Approvals

VARIABLES
    life,   \* where each approval is in its lifecycle
    uses    \* how often consume_approved handed it to a caller

vars == <<life, uses>>

Stages ==
    {"UNBORN", "PENDING", "APPROVED", "REJECTED", "POLICY_INVALIDATED",
     "CONSUMED", "DELETED"}

TypeOK ==
    /\ life \in [Approvals -> Stages]
    /\ uses \in [Approvals -> 0..1]

Init ==
    /\ life = [a \in Approvals |-> "UNBORN"]
    /\ uses = [a \in Approvals |-> 0]

Move(a, from, to) ==
    /\ life[a] = from
    /\ life' = [life EXCEPT ![a] = to]
    /\ UNCHANGED uses

Submit(a)     == Move(a, "UNBORN", "PENDING")
Approve(a)    == Move(a, "PENDING", "APPROVED")
Reject(a)     == Move(a, "PENDING", "REJECTED")
Invalidate(a) == Move(a, "APPROVED", "POLICY_INVALIDATED")
Consume(a)    == Move(a, "APPROVED", "CONSUMED")

\* Expired requests nobody decided may be forgotten, several at a time.
Forget(S) ==
    /\ \A a \in S : life[a] = "PENDING"
    /\ life' = [a \in Approvals |-> IF a \in S THEN "DELETED" ELSE life[a]]
    /\ UNCHANGED uses

Use(a) ==
    /\ life[a] = "CONSUMED"
    /\ uses[a] = 0
    /\ uses' = [uses EXCEPT ![a] = 1]
    /\ UNCHANGED life

Next ==
    \/ \E a \in Approvals :
           \/ Submit(a) \/ Approve(a) \/ Reject(a)
           \/ Invalidate(a) \/ Consume(a) \/ Use(a)
    \/ \E S \in SUBSET Approvals : Forget(S)

Spec == Init /\ [][Next]_vars
=============================================================================

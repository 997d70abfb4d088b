------------------------------ MODULE MCAuditLog -------------------------------
(***************************************************************************)
(* An instance of AuditLog for TLC: one event of every kind, of which e6 is *)
(* below the minimum level INFO.                                           *)
(***************************************************************************)
EXTENDS AuditLog

CONSTANTS w1, w2, e1, e2, e3, e4, e5, e6

SomeKinds ==
    [e \in Events |-> CASE e = e1 -> "deny" [] e = e2 -> "ask" [] e = e3 -> "allow"
                        [] e = e4 -> "critical" [] e = e5 -> "shadow" [] OTHER -> "other"]

\* Events are reported in the order of their names, whichever process reports them.
InOrder ==
    /\ e2 \in begun' => e1 \in begun'
    /\ e3 \in begun' => e2 \in begun'
    /\ e4 \in begun' => e3 \in begun'
    /\ e5 \in begun' => e4 \in begun'
=============================================================================

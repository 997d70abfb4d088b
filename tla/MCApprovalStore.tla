--------------------------- MODULE MCApprovalStore ----------------------------
(***************************************************************************)
(* Instances of ApprovalStore for TLC.                                     *)
(***************************************************************************)
EXTENDS ApprovalStore, TLC

CONSTANTS f1, f2, p1, p2, agent

\* One agent id is bound into every fingerprint of these instances.
OnePrincipal == [f \in Fingerprints |-> agent]

\* Ids are drawn at random and never compared by order.
ApprovalSymmetry == Permutations(Approvals)

\* Each of the two requests is made under a policy of its own, so they can be
\* exchanged together with their policies.
PolicyFor == [f \in Fingerprints |-> IF f = f1 THEN p1 ELSE p2]
RaceSymmetry ==
    ApprovalSymmetry \cup {[x \in {f1, f2, p1, p2} |->
        CASE x = f1 -> f2 [] x = f2 -> f1 [] x = p1 -> p2 [] x = p2 -> p1]}

\* Bounds of the race: a request is saved under its policy, a frozen instance may
\* present another approval's credential or one that is not stored, and one that is
\* not frozen may present the wrong request.
RaceBound ==
    \A s \in Stores :
        LET c == call'[s]
        IN /\ c.phase = "cleanup" => c.policy = PolicyFor[c.fp]
           /\ c.phase = "consume" /\ call[s].phase = "idle" =>
                  IF s \in Frozen THEN c.fp = rows[c.id].fp ELSE c.cred.id = c.id /\ c.cred \in assertions

\* Neither are requests, when all are of one agent.
SaveSymmetry == ApprovalSymmetry \cup Permutations(Fingerprints)

\* The part of the store that the quota and the deduplication depend on:
\* requests are saved, decided and deleted, nothing is consumed.
SaveNext ==
    \/ Tick
    \/ \E s \in Stores :
           \/ \E f \in Fingerprints, p \in Policies : SaveBegin(s, f, p)
           \/ \E a \in Approvals : DecideBegin(s, a, "reject")
           \/ SaveCleanup(s) \/ SaveDedup(s) \/ SaveReuse(s)
           \/ SaveCount(s) \/ SaveInsert(s) \/ Reject(s) \/ Abort(s)

SaveSpec == Init /\ [][SaveNext]_vars
=============================================================================

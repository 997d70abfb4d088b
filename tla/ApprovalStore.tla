---------------------------- MODULE ApprovalStore -----------------------------
(***************************************************************************)
(* SQLiteApprovalStore (core/storage/sqlite.py) as used by several store   *)
(* instances over one database file: threads, SDK processes, MCP gateways, *)
(* hook runs, the CLI and the dashboard.                                   *)
(*                                                                         *)
(* @_synchronized holds an instance's lock for a whole method, so an       *)
(* instance runs one operation at a time and threads that share it queue.  *)
(* call[s] is the operation instance s is in, between two of its SQL       *)
(* statements; each statement, and each BEGIN IMMEDIATE ... COMMIT, is one *)
(* step.  Instances interleave freely: no transaction spans two steps.     *)
(*                                                                         *)
(* The recovery counter that get, save_pending and consume_approved also   *)
(* touch is in RecoveryCounter; here its failure is one of the ways a call *)
(* can raise (Abort).                                                      *)
(***************************************************************************)
EXTENDS ApprovalRecord, FiniteSets

CONSTANTS
    Stores,         \* store instances (processes, or threads of their own)
    Frozen,         \* those whose clock is frozen at the start (hook runs)
    Principals,     \* agent ids
    PrincipalOf,    \* the agent id bound into a fingerprint
    TTL,            \* approval lifetime
    MaxPending,     \* max_pending_per_principal
    MaxTime         \* bound of the model: the last clock reading

ASSUME StoreAssumption ==
    /\ IsFiniteSet(Stores)
    /\ Frozen \subseteq Stores
    /\ PrincipalOf \in [Fingerprints -> Principals]
    /\ TTL \in Nat \ {0}
    /\ MaxPending \in Nat \ {0}
    /\ MaxTime \in Nat

VARIABLES
    now,         \* the wall clock
    rows,        \* table approval_records, by approval id
    assertions,  \* table approval_assertions
    call,        \* the operation each instance is executing
    uses,        \* observation: how often a consumption was returned
    served       \* observation: the requests it was returned for

vars == <<now, rows, assertions, call, uses, served>>

-----------------------------------------------------------------------------
\* A row that is not in the table: never inserted, or deleted by the cleanup.
Absent(why) ==
    [state |-> why, fp |-> None, policy |-> None,
     createdAt |-> 0, expiresAt |-> 0, stateAt |-> 0,
     decisionAt |-> NoTime, consumedAt |-> NoTime, version |-> 0]

Unborn  == Absent("UNBORN")
Deleted == Absent("DELETED")

Present(a) == rows[a].state \in States

Phases ==
    {"idle",
     "cleanup", "dedup", "reuse", "count", "insert",   \* save_pending
     "approve", "reject",                              \* approve/reject_pending
     "invalidate",                                     \* invalidate_approved
     "consume", "bump"}                                \* consume_approved

Call ==
    [phase : Phases, id : Approvals \cup {None},
     fp : Fingerprints \cup {None}, policy : Policies \cup {None},
     at : Nat, ts : Nat, cred : Assertion \cup {None}]

Idle ==
    [phase |-> "idle", id |-> None, fp |-> None, policy |-> None,
     at |-> 0, ts |-> 0, cred |-> None]

\* What the instance's clock returns during a call begun at call[s].at.
ClockOf(s) == IF s \in Frozen THEN call[s].at ELSE now

\* An idle instance starts a method: it reads its clock and keeps the arguments.
Start(s, phase, a, f, p, c) ==
    /\ call[s].phase = "idle"
    /\ call' = [call EXCEPT ![s] =
                   [phase |-> phase, id |-> a, fp |-> f, policy |-> p,
                    at |-> now, ts |-> 0, cred |-> c]]

Goto(s, phase) == call' = [call EXCEPT ![s].phase = phase]
Return(s)      == call' = [call EXCEPT ![s] = Idle]

\* The unexpired PENDING rows, as the deduplication, quota and listing
\* queries select them.
PendingAt(t) == {a \in Approvals : rows[a].state = "PENDING" /\ t < rows[a].expiresAt}
SamePending(f, t)      == {a \in PendingAt(t) : rows[a].fp = f}
PrincipalPending(p, t) == {a \in PendingAt(t) : PrincipalOf[rows[a].fp] = p}

-----------------------------------------------------------------------------
Init ==
    /\ now = 0
    /\ rows = [a \in Approvals |-> Unborn]
    /\ assertions = {}
    /\ call = [s \in Stores |-> Idle]
    /\ uses = [a \in Approvals |-> 0]
    /\ served = [a \in Approvals |-> {}]

Tick ==
    /\ now < MaxTime
    /\ now' = now + 1
    /\ UNCHANGED <<rows, assertions, call, uses, served>>

(***************************************************************************)
(* save_pending: delete what expired, reuse an identical pending request,  *)
(* check the principal's quota, insert.  Five statements, no transaction.  *)
(***************************************************************************)
SaveBegin(s, f, p) ==
    /\ Start(s, "cleanup", None, f, p, None)
    /\ UNCHANGED <<now, rows, assertions, uses, served>>

\* Mutant of SaveCleanup: whatever expired is deleted.
SaveCleanupAny(s) ==
    /\ call[s].phase = "cleanup"
    /\ rows' = [a \in Approvals |->
                   IF Present(a) /\ rows[a].expiresAt <= ClockOf(s) THEN Deleted ELSE rows[a]]
    /\ Goto(s, "dedup")
    /\ UNCHANGED <<now, assertions, uses, served>>

\* cleanup_expired: only undecided rows are ever deleted.
SaveCleanup(s) ==
    /\ call[s].phase = "cleanup"
    /\ rows' = [a \in Approvals |->
                   IF rows[a].state = "PENDING" /\ rows[a].expiresAt <= ClockOf(s)
                   THEN Deleted ELSE rows[a]]
    /\ Goto(s, "dedup")
    /\ UNCHANGED <<now, assertions, uses, served>>

\* Mutant of SaveDedup: identical requests are not looked for.
SaveDedupSkipped(s) ==
    /\ call[s].phase = "dedup"
    /\ call' = [call EXCEPT ![s] = [@ EXCEPT !.phase = "count", !.ts = ClockOf(s)]]
    /\ UNCHANGED <<now, rows, assertions, uses, served>>

\* One clock reading serves the deduplication and the quota query.
SaveDedup(s) ==
    /\ call[s].phase = "dedup"
    /\ LET t    == ClockOf(s)
           same == SamePending(call[s].fp, t)
       IN \/ /\ same = {}
             /\ call' = [call EXCEPT ![s] = [@ EXCEPT !.phase = "count", !.ts = t]]
          \/ \E a \in same :
                 call' = [call EXCEPT ![s] = [@ EXCEPT !.phase = "reuse", !.ts = t, !.id = a]]
    /\ UNCHANGED <<now, rows, assertions, uses, served>>

\* get() of the identical row runs later: whatever state it is in by then is
\* returned to the caller; if it is gone the save goes on.
SaveReuse(s) ==
    /\ call[s].phase = "reuse"
    /\ IF Present(call[s].id) THEN Return(s) ELSE Goto(s, "count")
    /\ UNCHANGED <<now, rows, assertions, uses, served>>

\* Mutant of SaveCount: off by one.
SaveCountInclusive(s) ==
    /\ call[s].phase = "count"
    /\ Cardinality(PrincipalPending(PrincipalOf[call[s].fp], call[s].ts)) <= MaxPending
    /\ Goto(s, "insert")
    /\ UNCHANGED <<now, rows, assertions, uses, served>>

SaveCount(s) ==
    /\ call[s].phase = "count"
    /\ Cardinality(PrincipalPending(PrincipalOf[call[s].fp], call[s].ts)) < MaxPending
    /\ Goto(s, "insert")
    /\ UNCHANGED <<now, rows, assertions, uses, served>>

SaveInsert(s) ==
    /\ call[s].phase = "insert"
    /\ \E a \in Approvals :
           /\ rows[a] = Unborn
           /\ rows' = [rows EXCEPT ![a] =
                          Created(call[s].fp, call[s].policy, call[s].at, TTL)]
    /\ Return(s)
    /\ UNCHANGED <<now, assertions, uses, served>>

(***************************************************************************)
(* approve_pending and reject_pending: the clock is read first, the rest   *)
(* is one write transaction.  Approval stores the row and its assertion    *)
(* together.                                                               *)
(***************************************************************************)
DecideBegin(s, a, verdict) ==
    /\ Present(a)
    /\ Start(s, verdict, a, None, None, None)
    /\ UNCHANGED <<now, rows, assertions, uses, served>>

Approve(s) ==
    LET a == call[s].id
        t == call[s].at
    IN /\ call[s].phase = "approve"
       /\ CanDecide(rows[a], t)
       /\ CanIssue(rows[a], t)
       /\ rows' = [rows EXCEPT ![a] = Approved(@, t)]
       /\ assertions' = {c \in assertions : c.id # a} \cup {Issued(a, rows[a], t)}
       /\ Return(s)
       /\ UNCHANGED <<now, uses, served>>

Reject(s) ==
    LET a == call[s].id
        t == call[s].at
    IN /\ call[s].phase = "reject"
       /\ CanDecide(rows[a], t)
       /\ rows' = [rows EXCEPT ![a] = Rejected(@, t)]
       /\ Return(s)
       /\ UNCHANGED <<now, assertions, uses, served>>

(***************************************************************************)
(* invalidate_approved: the caller passes a record it read earlier; the    *)
(* guarded UPDATE rewrites the row only while it is still APPROVED.  The   *)
(* columns an APPROVED row was read with cannot have changed by then, so   *)
(* the row itself stands for the caller's copy.                            *)
(***************************************************************************)
InvalidateBegin(s, a) ==
    /\ rows[a].state = "APPROVED"
    /\ CanInvalidate(rows[a], now)
    /\ Start(s, "invalidate", a, None, None, None)
    /\ UNCHANGED <<now, rows, assertions, uses, served>>

Invalidate(s) ==
    /\ call[s].phase = "invalidate"
    /\ rows[call[s].id].state = "APPROVED"
    /\ rows' = [rows EXCEPT ![call[s].id] = Invalidated(@, call[s].at)]
    /\ Return(s)
    /\ UNCHANGED <<now, assertions, uses, served>>

\* The states that only a human's approval leads to.
Granted == {"APPROVED", "POLICY_INVALIDATED", "CONSUMED"}

\* The credentials in callers' hands: the stored assertions, and those that the
\* dashboard and the CLI issue from a granted record without storing them.
Credentials ==
    assertions \cup
        UNION {{Issued(a, rows[a], t) : t \in {u \in 0..now : rows[a].decisionAt <= u}} :
                   a \in {b \in Approvals : rows[b].state \in Granted}}

(***************************************************************************)
(* consume_approved(approval_id, credential, expected_request): one write  *)
(* transaction checks and consumes, then the recovery counter is advanced; *)
(* only after both does the caller get the record it may execute.          *)
(***************************************************************************)
ConsumeBegin(s, a, c, f) ==
    /\ Start(s, "consume", a, f, None, c)
    /\ UNCHANGED <<now, rows, assertions, uses, served>>

\* Mutant of Consume: the UPDATE has no WHERE state = 'APPROVED'.
ConsumeUnguarded(s) ==
    /\ call[s].phase = "consume"
    /\ call[s].fp = rows[call[s].id].fp
    /\ rows' = [rows EXCEPT ![call[s].id] = Consumed(@, call[s].at)]
    /\ Goto(s, "bump")
    /\ UNCHANGED <<now, assertions, uses, served>>

\* Mutant of Consume: the request presented is not compared with the approved one.
ConsumeUncompared(s) ==
    LET a == call[s].id
        t == call[s].at
    IN /\ call[s].phase = "consume"
       /\ Verifies(call[s].cred, a, rows[a], t)
       /\ CanConsume(rows[a], t)
       /\ rows' = [rows EXCEPT ![a] = Consumed(@, t)]
       /\ Goto(s, "bump")
       /\ UNCHANGED <<now, assertions, uses, served>>

Consume(s) ==
    LET a == call[s].id
        t == call[s].at
    IN /\ call[s].phase = "consume"
       /\ call[s].fp = rows[a].fp
       /\ Verifies(call[s].cred, a, rows[a], t)
       /\ CanConsume(rows[a], t)
       /\ rows' = [rows EXCEPT ![a] = Consumed(@, t)]
       /\ Goto(s, "bump")
       /\ UNCHANGED <<now, assertions, uses, served>>

ConsumeReturn(s) ==
    /\ call[s].phase = "bump"
    /\ uses' = [uses EXCEPT ![call[s].id] = @ + 1]
    /\ served' = [served EXCEPT ![call[s].id] = @ \cup {call[s].fp}]
    /\ Return(s)
    /\ UNCHANGED <<now, rows, assertions>>

\* The call raises (a check above fails, the database is busy or broken, the
\* counter cannot be advanced) or the process dies: statements already
\* committed stay, the caller gets nothing.
Abort(s) ==
    /\ call[s].phase # "idle"
    /\ Return(s)
    /\ UNCHANGED <<now, rows, assertions, uses, served>>

-----------------------------------------------------------------------------
Begin(s) ==
    \/ \E f \in Fingerprints, p \in Policies : SaveBegin(s, f, p)
    \/ \E a \in Approvals, v \in {"approve", "reject"} : DecideBegin(s, a, v)
    \/ \E a \in Approvals : InvalidateBegin(s, a)
    \/ \E a \in Approvals, c \in Credentials, f \in Fingerprints : ConsumeBegin(s, a, c, f)

Continue(s) ==
    \/ SaveCleanup(s) \/ SaveDedup(s) \/ SaveReuse(s) \/ SaveCount(s) \/ SaveInsert(s)
    \/ Approve(s) \/ Reject(s)
    \/ Invalidate(s)
    \/ Consume(s) \/ ConsumeReturn(s)
    \/ Abort(s)

Next == Tick \/ \E s \in Stores : Begin(s) \/ Continue(s)

Spec == Init /\ [][Next]_vars
-----------------------------------------------------------------------------
TypeOK ==
    /\ now \in Nat
    /\ rows \in [Approvals -> Record \cup {Unborn, Deleted}]
    /\ assertions \subseteq Assertion
    /\ call \in [Stores -> Call]
    /\ uses \in [Approvals -> Nat]
    /\ served \in [Approvals -> SUBSET Fingerprints]

\* One approval is returned for execution at most once, whatever the number of
\* instances that try to consume it at the same time and wherever they fail.
SingleUse == \A a \in Approvals : uses[a] <= 1

\* A consumption is returned only for the request that was approved: every
\* request an execution presented is the one a human's signed assertion in the
\* store names, with the policy of the row, and the decision and the consumption
\* lie between the creation of the row and its expiry.
UsedOnlyAsApproved ==
    \A a \in Approvals : uses[a] > 0 =>
        /\ rows[a].state = "CONSUMED"
        /\ rows[a].createdAt <= rows[a].decisionAt
        /\ rows[a].decisionAt <= rows[a].consumedAt
        /\ rows[a].consumedAt < rows[a].expiresAt
        /\ \E c \in assertions :
               /\ c.id = a
               /\ served[a] = {c.fp}
               /\ c.policy = rows[a].policy

\* The two tables agree: there is one assertion for every approval a human
\* granted, it signs the very row, and none for a request that is undecided,
\* rejected or gone.
AssertionsMatchRows ==
    /\ \A c \in assertions :
           /\ rows[c.id].state \in Granted
           /\ c = Issued(c.id, rows[c.id], rows[c.id].decisionAt)
    /\ \A a \in Approvals :
           rows[a].state \in Granted => \E c \in assertions : c.id = a

\* The quota check and the insert are two statements, so instances can
\* overshoot max_pending_per_principal, but by at most one request for each
\* other instance; with one instance the quota is exact.
QuotaOvershootBounded ==
    \A p \in Principals :
        Cardinality(PrincipalPending(p, now)) <= MaxPending + Cardinality(Stores) - 1

\* Deduplication is two statements as well: with one instance an identical
\* request is pending once, with two at most twice.  (With three it can be more:
\* two saves can both have selected an identical row that a third one's cleanup
\* deletes before their get, and both insert.)
DuplicatesBounded ==
    Cardinality(Stores) <= 2 =>
        \A f \in Fingerprints : Cardinality(SamePending(f, now)) <= Cardinality(Stores)

\* What a row binds its approval to.
Binding(r) == <<r.fp, r.policy, r.createdAt, r.expiresAt>>

\* One transition of the record class, an insertion, or the cleanup of a request
\* that expired undecided.
Moves(r, r2) ==
    \/ r = Unborn /\ r2.state = "PENDING"
    \/ r.state = "PENDING" /\ r.expiresAt <= now /\ r2 = Deleted
    \/ /\ <<r.state, r2.state>> \in
              {<<"PENDING", "APPROVED">>, <<"PENDING", "REJECTED">>,
               <<"APPROVED", "POLICY_INVALIDATED">>, <<"APPROVED", "CONSUMED">>}
       /\ r2.version = r.version + 1
       /\ Binding(r2) = Binding(r)

\* No statement, however late it runs, rewrites a decision or what it binds: a
\* row changes only as Moves says.
RowsMoveForward ==
    [][\A a \in Approvals : rows'[a] # rows[a] => Moves(rows[a], rows'[a])]_vars

\* The store implements the lifecycle it promises.
Lifecycle ==
    INSTANCE ApprovalLifecycle WITH life <- [a \in Approvals |-> rows[a].state]

ImplementsLifecycle == Lifecycle!Spec
=============================================================================

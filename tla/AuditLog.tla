------------------------------- MODULE AuditLog --------------------------------
(***************************************************************************)
(* The hash-chained audit log (core/audit.py): processes append under an   *)
(* exclusive flock, the file is rotated when it is full, `dmint logs`      *)
(* (cli/logs.py) verifies, follows and clears it without the lock.         *)
(*                                                                         *)
(* An entry's hash is its event: events are distinct, and SHA-256 is taken *)
(* to be injective.  Only what the chain depends on is kept of an entry.   *)
(* Threads of a process also queue on _thread_lock, which the flock makes  *)
(* redundant here.                                                         *)
(***************************************************************************)
EXTENDS Naturals, Sequences

CONSTANTS
    Writers,    \* hook runs and CLI processes
    Events,     \* the events of a behaviour, each reported once
    KindOf,     \* the decision and code of an event
    Large,      \* events whose line is longer than the tail window of 16384 bytes
    MinLevel,   \* numeric minimum level
    MaxLines,   \* lines that fill a file (max_bytes)
    Backups,    \* backup_count
    Limit,      \* how many entries dmint logs lists (--limit), 0 for all
    MaxFaults,  \* bound on torn writes, failed reads and deletions of the log
    None

Kinds == {"critical", "shadow", "deny", "ask", "allow", "other"}

ASSUME AuditAssumption ==
    /\ None \notin Writers \cup Events
    /\ KindOf \in [Events -> Kinds]
    /\ Large \subseteq Events
    /\ MinLevel \in Nat
    /\ MaxLines \in Nat \ {0} /\ Backups \in Nat \ {0}
    /\ Limit \in Nat /\ MaxFaults \in Nat

VARIABLES
    files,      \* files[0] is audit.jsonl, files[i] the i-th backup
    lock,       \* who holds the flock
    op,         \* what each writer is doing
    begun,      \* events reported so far
    written,    \* history: events appended as whole lines, in that order
    current,    \* history: those appended to the file that is now the active one
    incidents,  \* history: what has damaged the log
    faults,     \* bound counter
    following,  \* dmint logs --follow is running
    seen,       \* the sequence number it saw last
    shown,      \* the events it has printed
    moved,      \* history: the log was rotated or cleared under it
    stale       \* history: events whose entries came with a number it had passed

tail == <<following, seen, shown, moved, stale>>
past == <<written, current, incidents, faults>>
vars == <<files, lock, op, begun, past, tail>>

\* A line was cut; the log was removed, or removed between a writer's reading of
\* its end and the append; an entry did not fit the window it is read back from; the
\* end of the log could not be read.
Incidents == {"torn", "cleared", "raced", "oversized", "unread"}

-----------------------------------------------------------------------------
Genesis == None

\* A line that is not one JSON object, since an entry follows a partial one.
Garbled == [seq |-> 0, prev |-> None, id |-> None]

Line == [seq : Nat, prev : Events \cup {Genesis}, id : Events] \cup {Garbled}

\* A file that is missing is as good as an empty one.  torn: it ends in part of
\* a line.
File  == [lines : Seq(Line), torn : BOOLEAN]
Empty == [lines |-> <<>>, torn |-> FALSE]

Indices == 0..Backups
Phases  == {"idle", "size", "shift", "read", "write"}
Op      == [pc : Phases, event : Events \cup {None}, at : Indices,
            seq : Nat, prev : Events \cup {Genesis}]
Idle    == [pc |-> "idle", event |-> None, at |-> 0, seq |-> 0, prev |-> Genesis]

Holding(w) == lock = w

\* level_for_decision.
LevelOf(e) ==
    CASE KindOf[e] = "critical" -> 50
      [] KindOf[e] = "deny"     -> 40
      [] KindOf[e] \in {"shadow", "ask"} -> 30
      [] KindOf[e] = "allow"    -> 20
      [] KindOf[e] = "other"    -> 10

\* What the reader of the last 16 KB gets: the last entry's number and hash, and
\* the start of a new chain when it cannot make sense of the end of the file.
LastEntry(f) ==
    LET n == Len(f.lines)
    IN IF n = 0 \/ f.torn \/ f.lines[n] = Garbled \/ f.lines[n].id \in Large
       THEN [seq |-> 0, prev |-> Genesis]
       ELSE [seq |-> f.lines[n].seq, prev |-> f.lines[n].id]

-----------------------------------------------------------------------------
Init ==
    /\ files = [i \in Indices |-> Empty]
    /\ lock = None
    /\ op = [w \in Writers |-> Idle]
    /\ begun = {} /\ written = <<>> /\ current = {} /\ incidents = {} /\ faults = 0
    /\ following = FALSE /\ seen = 0 /\ shown = {} /\ moved = FALSE /\ stale = {}

\* Mutant of Lock: a shared lock.
LockShared(w, e) ==
    /\ op[w].pc = "idle"
    /\ e \notin begun
    /\ LevelOf(e) >= MinLevel
    /\ lock' = w
    /\ op' = [op EXCEPT ![w] = [Idle EXCEPT !.pc = "size", !.event = e]]
    /\ begun' = begun \cup {e}
    /\ UNCHANGED <<files, past, tail>>

\* log_event: an event below the minimum level is not recorded.
Lock(w, e) ==
    /\ op[w].pc = "idle"
    /\ e \notin begun
    /\ LevelOf(e) >= MinLevel
    /\ lock = None
    /\ lock' = w
    /\ op' = [op EXCEPT ![w] = [Idle EXCEPT !.pc = "size", !.event = e]]
    /\ begun' = begun \cup {e}
    /\ UNCHANGED <<files, past, tail>>

Full(f) == Len(f.lines) + (IF f.torn THEN 1 ELSE 0) >= MaxLines

\* _rotate_if_needed_locked: is it needed?
CheckSize(w) ==
    /\ op[w].pc = "size"
    /\ op' = [op EXCEPT ![w] = IF Full(files[0])
                               THEN [@ EXCEPT !.pc = "shift", !.at = Backups]
                               ELSE [@ EXCEPT !.pc = "read"]]
    /\ UNCHANGED <<files, lock, begun, past, tail>>

\* Mutant of Shifted: the files are copied.
ShiftedCopying(i) ==
    IF i = Backups THEN [files EXCEPT ![i] = Empty] ELSE [files EXCEPT ![i + 1] = files[i]]

\* Where the renames of one index leave the files.
Shifted(i) ==
    IF i = Backups
    THEN [files EXCEPT ![i] = Empty]
    ELSE IF files[i] = Empty
         THEN files
         ELSE [j \in Indices |-> IF j = i + 1 THEN files[i]
                                 ELSE IF j = i THEN Empty ELSE files[j]]

\* The oldest backup is deleted, the others and the log move up, one by one.
Shift(w) ==
    /\ op[w].pc = "shift"
    /\ files' = Shifted(op[w].at)
    /\ op' = [op EXCEPT ![w] = IF @.at = 0 THEN [@ EXCEPT !.pc = "read"]
                               ELSE [@ EXCEPT !.at = op[w].at - 1]]
    /\ current' = IF op[w].at = 0 THEN {} ELSE current
    /\ moved' = (moved \/ op[w].at = 0)
    /\ UNCHANGED <<lock, begun, written, incidents, faults, following, seen, shown, stale>>

\* An error while rotating is ignored: the entry goes to the file that is there.
ShiftFails(w) ==
    /\ op[w].pc = "shift"
    /\ op' = [op EXCEPT ![w].pc = "read"]
    /\ UNCHANGED <<files, lock, begun, past, tail>>

Oversized(f) == f.lines # <<>> /\ ~f.torn /\ f.lines[Len(f.lines)].id \in Large

Read(w) ==
    /\ op[w].pc = "read"
    /\ LET last == LastEntry(files[0])
       IN op' = [op EXCEPT ![w] = [pc |-> "write", event |-> op[w].event, at |-> 0,
                                   seq |-> last.seq + 1, prev |-> last.prev]]
    /\ incidents' = incidents \cup IF Oversized(files[0]) THEN {"oversized"} ELSE {}
    /\ UNCHANGED <<files, lock, begun, written, current, faults, tail>>

\* Any error while the end of the log is read starts a new chain.
ReadFails(w) ==
    /\ op[w].pc = "read"
    /\ faults < MaxFaults
    /\ files[0] # Empty
    /\ op' = [op EXCEPT ![w] = [pc |-> "write", event |-> op[w].event, at |-> 0,
                               seq |-> 1, prev |-> Genesis]]
    /\ faults' = faults + 1 /\ incidents' = incidents \cup {"unread"}
    /\ UNCHANGED <<files, lock, begun, written, current, tail>>

\* The follower has passed this number, and the numbering began again under it.
Passed(n) == following /\ n <= seen /\ (moved \/ incidents # {})

\* The new line continues a partial one, if there is one; then the flock is
\* dropped and log_event returns the entry.
Write(w) ==
    LET entry == [seq |-> op[w].seq, prev |-> op[w].prev, id |-> op[w].event]
        line  == IF files[0].torn THEN Garbled ELSE entry
    IN /\ op[w].pc = "write"
       /\ files' = [files EXCEPT ![0] =
                       [lines |-> Append(files[0].lines, line), torn |-> FALSE]]
       /\ written' = Append(written, op[w].event)
       /\ current' = current \cup {op[w].event}
       /\ lock' = None
       /\ op' = [op EXCEPT ![w] = Idle]
       /\ stale' = IF Passed(op[w].seq) THEN stale \cup {op[w].event} ELSE stale
       /\ UNCHANGED <<begun, incidents, faults, following, seen, shown, moved>>

\* Only part of the line reaches the file, and log_event raises or the host dies.
WriteTorn(w) ==
    /\ op[w].pc = "write"
    /\ faults < MaxFaults
    /\ files' = [files EXCEPT ![0].torn = TRUE]
    /\ lock' = None
    /\ op' = [op EXCEPT ![w] = Idle]
    /\ faults' = faults + 1 /\ incidents' = incidents \cup {"torn"}
    /\ UNCHANGED <<begun, written, current, tail>>

\* The process dies, which drops its flock.
Crash(w) ==
    /\ op[w].pc # "idle"
    /\ lock' = IF Holding(w) THEN None ELSE lock
    /\ op' = [op EXCEPT ![w] = Idle]
    /\ UNCHANGED <<files, begun, past, tail>>

-----------------------------------------------------------------------------
(***************************************************************************)
(* dmint logs.                                                             *)
(***************************************************************************)
\* --clear removes the active file, whoever holds the flock.
Clear ==
    /\ files[0] # Empty
    /\ faults < MaxFaults
    /\ files' = [files EXCEPT ![0] = Empty]
    /\ current' = {}
    /\ moved' = TRUE
    /\ faults' = faults + 1
    /\ incidents' = incidents \cup {"cleared"}
                      \cup IF \E w \in Writers : op[w].pc = "write" THEN {"raced"} ELSE {}
    /\ UNCHANGED <<lock, op, begun, written, following, seen, shown, stale>>

\* read_audit_entries skips lines that are not JSON, a partial one included.
Entries(f)  == SelectSeq(f.lines, LAMBDA l : l # Garbled)
Readable(f) == {f.lines[i].id : i \in {j \in DOMAIN f.lines : f.lines[j] # Garbled}}
Ids(lines)  == {lines[i].id : i \in DOMAIN lines}
LastSeq(lines, default) == IF lines = <<>> THEN default ELSE lines[Len(lines)].seq

\* The last Limit of them.
Listed(f) ==
    LET all == Entries(f)
    IN IF Limit = 0 \/ Len(all) <= Limit THEN all
       ELSE SubSeq(all, Len(all) - Limit + 1, Len(all))

\* --follow lists the end of the log, then polls for higher sequence numbers.
Follow ==
    /\ ~following
    /\ following' = TRUE
    /\ shown' = Ids(Listed(files[0]))
    /\ seen' = LastSeq(Listed(files[0]), 0)
    /\ moved' = FALSE
    /\ stale' = Readable(files[0]) \ shown'
    /\ UNCHANGED <<files, lock, op, begun, past>>

\* All entries numbered higher than the last one seen.
New(f) == SelectSeq(Entries(f), LAMBDA l : l.seq > seen)

\* Mutant of Poll: only the newest entry is printed.
PollNewest ==
    /\ following
    /\ New(files[0]) # <<>>
    /\ shown' = shown \cup {New(files[0])[Len(New(files[0]))].id}
    /\ seen' = LastSeq(New(files[0]), seen)
    /\ UNCHANGED <<files, lock, op, begun, past, following, moved, stale>>

Poll ==
    /\ following
    /\ New(files[0]) # <<>>
    /\ shown' = shown \cup Ids(New(files[0]))
    /\ seen' = LastSeq(New(files[0]), seen)
    /\ UNCHANGED <<files, lock, op, begun, past, following, moved, stale>>

-----------------------------------------------------------------------------
Work(w) ==
    \/ \E e \in Events : Lock(w, e)
    \/ CheckSize(w) \/ Shift(w) \/ ShiftFails(w)
    \/ Read(w) \/ ReadFails(w)
    \/ Write(w) \/ WriteTorn(w) \/ Crash(w)

Next == (\E w \in Writers : Work(w)) \/ Clear \/ Follow \/ Poll

Spec == Init /\ [][Next]_vars

\* The follower polls in a loop as long as it runs; nothing makes a writer write.
FairSpec == Spec /\ WF_vars(Poll)
-----------------------------------------------------------------------------
\* Mutant of Verifies: lines that are not JSON are skipped, as readers do.
VerifiesSkipping(f) ==
    LET good == SelectSeq(f.lines, LAMBDA l : l # Garbled)
    IN \A i \in DOMAIN good :
           /\ good[i].seq = i
           /\ good[i].prev = IF i = 1 THEN Genesis ELSE good[i - 1].id

\* verify_audit_chain: every line an entry, numbered from one, each with the hash
\* of the one before.
Verifies(f) ==
    /\ ~f.torn
    /\ \A i \in DOMAIN f.lines :
           /\ f.lines[i] # Garbled
           /\ f.lines[i].seq = i
           /\ f.lines[i].prev = IF i = 1 THEN Genesis ELSE f.lines[i - 1].id

TypeOK ==
    /\ files \in [Indices -> File]
    /\ lock \in Writers \cup {None}
    /\ op \in [Writers -> Op]
    /\ begun \subseteq Events
    /\ written \in Seq(Events)
    /\ current \subseteq Events
    /\ incidents \subseteq Incidents /\ faults \in 0..MaxFaults
    /\ following \in BOOLEAN /\ seen \in Nat /\ moved \in BOOLEAN
    /\ shown \subseteq Events /\ stale \subseteq Events

\* "Links every structured audit entry to its predecessor via prev_hash and
\* entry_hash" (docs/operations/production-proof.mdx): whatever writers
\* interleave, die while they rotate or fail to rotate, and also when the log is
\* cleared, the log and every backup verify.  Only a cut line, an entry longer
\* than the window the logger reads back, a failure to read it, and a deletion
\* between its reading and its append break the chain.
ChainsVerify ==
    incidents \subseteq {"cleared"} => \A i \in Indices : Verifies(files[i])

\* What a successful verification is worth: when the active log verifies, every
\* event whose append to it was reported as done is in it, also after torn
\* writes, deletions of the file under a writer's feet, and oversized lines.
ValidMeansComplete ==
    Verifies(files[0]) => current \subseteq Readable(files[0])

\* A file has the events of written from start[i] on, and the next newer file, or in
\* the end what is written next, goes on where it ends.
Continues(start) ==
    /\ start[0] + Len(files[0].lines) = Len(written)
    /\ \A i \in 1..Backups : start[i] + Len(files[i].lines) = start[i - 1]
    /\ \A i \in Indices : \A k \in DOMAIN files[i].lines :
           files[i].lines[k].id = written[start[i] + k]

\* Rotation forgets the oldest events first: what is left, from the last backup
\* to the log, is exactly the end of what was written, in order and once, even
\* when a process died halfway through the renames.
RetainedIsSuffix ==
    incidents \subseteq {"oversized", "unread"} =>
        \E start \in [Indices -> 0..Len(written)] : Continues(start)

\* "Live-tail new audit log entries as they are recorded" (cli/logs.py): each entry
\* that comes into the log after the listing is shown, unless it is rotated or cleared
\* away first.  Only an entry that starts over below the number the follower saw last
\* is exempt, and only when the log was rotated, cleared or damaged under it: the
\* follower does not notice that the numbering began again and passes such entries over.
FollowerSeesAll ==
    \A e \in Events :
        (following /\ e \in Readable(files[0]) /\ e \notin stale)
            ~> (e \in shown \/ e \notin Readable(files[0]))
=============================================================================

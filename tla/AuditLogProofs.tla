---------------------------- MODULE AuditLogProofs -----------------------------
(***************************************************************************)
(* Theorems about AuditLog, for any number of writers, events, backups and  *)
(* faults: the chain of every file verifies unless one of the named          *)
(* incidents happened, and a log that verifies holds every finished append. *)
(***************************************************************************)
EXTENDS AuditLog, SequenceTheorems, TLAPS

\* The types of what the chain depends on.
Typed ==
    /\ files \in [Indices -> File]
    /\ lock \in Writers \cup {None}
    /\ op \in [Writers -> Op]
    /\ written \in Seq(Events)
    /\ current \subseteq Events
    /\ incidents \subseteq Incidents

\* Whoever is at work holds the flock.
OneWriter == \A w \in Writers : op[w].pc # "idle" => lock = w

\* Whoever is at work has an event to report.
WriteHasEvent == \A w \in Writers : op[w].pc # "idle" => op[w].event \in Events

\* What the next line of a file has to say.
NextSeq(f)  == Len(f.lines) + 1
NextPrev(f) == IF Len(f.lines) = 0 THEN Genesis ELSE f.lines[Len(f.lines)].id

Undamaged == incidents \subseteq {"cleared"}

\* Who is about to write has read the end the file still has.
Linked ==
    Undamaged =>
        /\ \A i \in Indices : Verifies(files[i])
        /\ \A w \in Writers : op[w].pc = "write" =>
               op[w].seq = NextSeq(files[0]) /\ op[w].prev = NextPrev(files[0])

\* An append is lost from the active file only behind a line that is no entry.
GarbledIn(f) == \E i \in DOMAIN f.lines : f.lines[i] = Garbled
Kept == GarbledIn(files[0]) \/ current \subseteq Readable(files[0])

Inv == Typed /\ OneWriter /\ WriteHasEvent /\ Linked /\ Kept

-----------------------------------------------------------------------------
(***************************************************************************)
(* Files.                                                                  *)
(***************************************************************************)
LEMMA EmptyFile == Empty \in File /\ Verifies(Empty) /\ DOMAIN Empty.lines = {}
BY DEF Empty, File, Verifies

LEMMA FileRange ==
    ASSUME NEW f \in File
    PROVE  /\ f.lines \in Seq(Line) /\ f.torn \in BOOLEAN
           /\ DOMAIN f.lines = 1 .. Len(f.lines) /\ Len(f.lines) \in Nat
           /\ \A i \in 1 .. Len(f.lines) : f.lines[i] \in Line
BY DEF File

LEMMA IndexRange == 0 \in Indices /\ Backups \in Indices /\ Backups # 0 /\ \A i \in Indices : i \in Nat
BY AuditAssumption DEF Indices

\* The renames move whole files.
LEMMA ShiftedFiles ==
    ASSUME files \in [Indices -> File], NEW i \in Indices
    PROVE  /\ Shifted(i) \in [Indices -> File]
           /\ \A j \in Indices : Shifted(i)[j] \in {files[k] : k \in Indices} \cup {Empty}
           /\ i # 0 => Shifted(i)[0] = files[0]
<1> USE IndexRange, EmptyFile
<1>1. CASE i = Backups
  BY <1>1 DEF Shifted
<1>2. CASE i # Backups /\ files[i] = Empty
  BY <1>2 DEF Shifted
<1>3. CASE i # Backups /\ files[i] # Empty
  BY <1>3 DEF Shifted
<1> QED
  BY <1>1, <1>2, <1>3

\* An entry that says what the file asks for keeps the chain.
LEMMA AppendVerifies ==
    ASSUME NEW f \in File, Verifies(f), NEW e \in Line, e # Garbled,
           e.seq = NextSeq(f), e.prev = NextPrev(f)
    PROVE  Verifies([lines |-> Append(f.lines, e), torn |-> FALSE])
<1> DEFINE g == Append(f.lines, e)
           n == Len(f.lines)
<1>1. n \in Nat /\ f.lines \in Seq(Line) /\ DOMAIN f.lines = 1 .. n
  BY FileRange
<1>2. /\ DOMAIN g = 1 .. n + 1
      /\ g[n + 1] = e
      /\ \A i \in 1 .. n : g[i] = f.lines[i]
  BY <1>1
<1> HIDE DEF g, n
<1>3. ASSUME NEW i \in 1 .. n + 1
      PROVE  g[i] # Garbled /\ g[i].seq = i /\ g[i].prev = IF i = 1 THEN Genesis ELSE g[i - 1].id
  <2>1. CASE i \in 1 .. n
    <3>1. g[i] = f.lines[i] /\ (i # 1 => g[i - 1] = f.lines[i - 1])
      BY <1>1, <1>2, <2>1
    <3> QED
      BY <1>1, <2>1, <3>1 DEF Verifies
  <2>2. CASE i = n + 1
    BY <1>1, <1>2, <2>2 DEF NextSeq, NextPrev, n
  <2> QED
    BY <1>1, <2>1, <2>2
<1> QED
  BY <1>2, <1>3 DEF Verifies, g

\* The reader of the end gets what the next line has to say, of any file that
\* verifies and does not end in an oversized entry.
LEMMA EndIsRead ==
    ASSUME NEW f \in File, Verifies(f), ~Oversized(f)
    PROVE  LastEntry(f).seq + 1 = NextSeq(f) /\ LastEntry(f).prev = NextPrev(f)
<1>1. Len(f.lines) \in Nat /\ DOMAIN f.lines = 1 .. Len(f.lines) /\ f.lines \in Seq(Line)
  BY FileRange
<1>2. CASE Len(f.lines) = 0
  BY <1>1, <1>2 DEF LastEntry, NextSeq, NextPrev
<1>3. CASE Len(f.lines) # 0
  <2> DEFINE n == Len(f.lines)
  <2>1. n \in DOMAIN f.lines /\ f.lines # <<>>
    BY <1>1, <1>3
  <2>2. ~f.torn /\ f.lines[n] # Garbled /\ f.lines[n].seq = n /\ f.lines[n].id \notin Large
    BY <2>1 DEF Verifies, Oversized
  <2> QED
    BY <1>3, <2>2 DEF LastEntry, NextSeq, NextPrev
<1> QED
  BY <1>2, <1>3

LEMMA LastEntryType ==
    ASSUME NEW f \in File
    PROVE  LastEntry(f).seq \in Nat /\ LastEntry(f).prev \in Events \cup {Genesis}
<1>1. Len(f.lines) \in Nat /\ DOMAIN f.lines = 1 .. Len(f.lines)
      /\ \A i \in 1 .. Len(f.lines) : f.lines[i] \in Line
  BY FileRange
<1>2. CASE LastEntry(f) = [seq |-> 0, prev |-> Genesis]
  BY <1>2
<1>3. CASE /\ Len(f.lines) # 0 /\ f.lines[Len(f.lines)] # Garbled
           /\ LastEntry(f) = [seq |-> f.lines[Len(f.lines)].seq, prev |-> f.lines[Len(f.lines)].id]
  BY <1>1, <1>3 DEF Line
<1> QED
  BY <1>2, <1>3 DEF LastEntry

-----------------------------------------------------------------------------
LEMMA InvInit == Init => Inv
<1> SUFFICES ASSUME Init PROVE Inv
  OBVIOUS
<1> USE EmptyFile, IndexRange DEF Init
<1>1. op \in [Writers -> Op]
  BY DEF Op, Idle, Phases
<1>2. files \in [Indices -> File]
  OBVIOUS
<1>4. Typed
  BY <1>1, <1>2 DEF Typed
<1>5. OneWriter /\ WriteHasEvent /\ Linked
  BY DEF OneWriter, WriteHasEvent, Linked, Idle
<1>6. Kept
  BY DEF Kept
<1> QED
  BY <1>4, <1>5, <1>6 DEF Inv

LEMMA OpRecords ==
    ASSUME NEW r \in Op, NEW pc \in Phases
    PROVE  /\ [r EXCEPT !.pc = pc] \in Op /\ [r EXCEPT !.pc = pc].pc = pc
           /\ [r EXCEPT !.pc = pc].event = r.event
BY DEF Op

LEMMA OpAtRecords ==
    ASSUME NEW r \in Op, NEW at \in Indices
    PROVE  /\ [r EXCEPT !.at = at] \in Op /\ [r EXCEPT !.at = at].pc = r.pc
           /\ [r EXCEPT !.at = at].event = r.event
BY DEF Op

LEMMA OpBothRecords ==
    ASSUME NEW r \in Op, NEW pc \in Phases, NEW at \in Indices
    PROVE  /\ [r EXCEPT !.pc = pc, !.at = at] \in Op /\ [r EXCEPT !.pc = pc, !.at = at].pc = pc
           /\ [r EXCEPT !.pc = pc, !.at = at].event = r.event
BY DEF Op

\* A step that leaves the files, the incidents and the record of appends alone, and
\* lets no writer but w move, and w not to the point of writing.
LEMMA QuietStep ==
    ASSUME Inv, NEW w \in Writers, NEW o \in Op, o.pc # "write",
           o.pc = "idle" \/ o.event \in Events,
           op' = [op EXCEPT ![w] = o], UNCHANGED <<files, current, incidents>>
    PROVE  Linked' /\ Kept' /\ WriteHasEvent'
<1> USE DEF Inv
<1>1. \A v \in Writers : op'[v].pc = "write" => op'[v] = op[v]
  BY DEF Typed
<1>2. Linked'
  BY <1>1 DEF Linked, Undamaged
<1>3. Kept'
  BY DEF Kept
<1>4. WriteHasEvent'
  BY DEF Typed, WriteHasEvent
<1> QED
  BY <1>2, <1>3, <1>4

\* Whoever moves while the others are idle holds the flock or has dropped it.
LEMMA OnlyMover ==
    ASSUME Inv, NEW w \in Writers, NEW o \in Op, op' = [op EXCEPT ![w] = o],
           lock \in {w, None}, lock' = w \/ o.pc = "idle"
    PROVE  OneWriter'
<1>1. \A v \in Writers : v # w => op[v].pc = "idle"
  BY AuditAssumption DEF Inv, OneWriter
<1> QED
  BY <1>1 DEF Inv, OneWriter, Typed

LEMMA LockStep == ASSUME Inv, NEW w \in Writers, NEW e \in Events, Lock(w, e) PROVE Inv'
<1> DEFINE o == [Idle EXCEPT !.pc = "size", !.event = e]
<1>1. o \in Op /\ o.pc = "size" /\ o.event \in Events
  BY IndexRange DEF Op, Idle, Phases
<1>2. op' = [op EXCEPT ![w] = o] /\ lock = None /\ lock' = w /\ begun' = begun \cup {e}
      /\ UNCHANGED <<files, past, tail>>
  BY DEF Lock
<1> HIDE DEF o
<1>3. Typed'
  BY <1>1, <1>2 DEF Inv, Typed, past, tail
<1>4. OneWriter'
  BY <1>1, <1>2, OnlyMover
<1>5. Linked' /\ Kept' /\ WriteHasEvent'
  BY <1>1, <1>2, QuietStep DEF past
<1> QED
  BY <1>3, <1>4, <1>5 DEF Inv

LEMMA CheckSizeStep == ASSUME Inv, NEW w \in Writers, CheckSize(w) PROVE Inv'
<1>1. PICK o \in Op : o.pc \in {"shift", "read"} /\ o.event \in Events /\ op' = [op EXCEPT ![w] = o]
  <2> DEFINE o == IF Full(files[0]) THEN [op[w] EXCEPT !.pc = "shift", !.at = Backups]
                  ELSE [op[w] EXCEPT !.pc = "read"]
  <2>1. op[w] \in Op /\ "shift" \in Phases /\ "read" \in Phases
    BY DEF Inv, Typed, Phases
  <2>2. op' = [op EXCEPT ![w] = o]
    BY DEF CheckSize
  <2>3. o \in Op /\ o.pc \in {"shift", "read"} /\ o.event = op[w].event
    <3>1. CASE Full(files[0])
      <4>1. o = [op[w] EXCEPT !.pc = "shift", !.at = Backups]
        BY <3>1
      <4>2. [op[w] EXCEPT !.pc = "shift", !.at = Backups] \in Op
        BY <2>1, IndexRange, OpBothRecords
      <4>3. [op[w] EXCEPT !.pc = "shift", !.at = Backups].pc = "shift"
        BY <2>1, IndexRange, OpBothRecords
      <4>4. [op[w] EXCEPT !.pc = "shift", !.at = Backups].event = op[w].event
        BY <2>1 DEF Op
      <4> HIDE DEF o
      <4> QED
        BY <4>1, <4>2, <4>3, <4>4
    <3>2. CASE ~Full(files[0])
      <4>1. o = [op[w] EXCEPT !.pc = "read"]
        BY <3>2
      <4>2. [op[w] EXCEPT !.pc = "read"] \in Op
        BY <2>1, OpRecords
      <4>3. [op[w] EXCEPT !.pc = "read"].pc = "read"
        BY <2>1, OpRecords
      <4>4. [op[w] EXCEPT !.pc = "read"].event = op[w].event
        BY <2>1, OpRecords
      <4> HIDE DEF o
      <4> QED
        BY <4>1, <4>2, <4>3, <4>4
    <3> QED
      BY <3>1, <3>2
  <2>4. op[w].event \in Events
    BY DEF CheckSize, Inv, WriteHasEvent
  <2> QED
    BY <2>2, <2>3, <2>4
<1>2. lock = w /\ UNCHANGED <<files, lock, begun, past, tail>>
  BY DEF CheckSize, Inv, OneWriter
<1>3. Typed'
  BY <1>1, <1>2 DEF Inv, Typed, past, tail
<1>4. OneWriter'
  BY <1>1, <1>2, OnlyMover
<1>5. Linked' /\ Kept' /\ WriteHasEvent'
  BY <1>1, <1>2, QuietStep DEF past
<1> QED
  BY <1>3, <1>4, <1>5 DEF Inv

LEMMA ShiftFailsStep == ASSUME Inv, NEW w \in Writers, ShiftFails(w) PROVE Inv'
<1> DEFINE o == [op[w] EXCEPT !.pc = "read"]
<1>1. o \in Op /\ o.pc = "read" /\ o.event \in Events
  BY OpRecords, IndexRange DEF Inv, Typed, Phases, WriteHasEvent, ShiftFails
<1>2. op' = [op EXCEPT ![w] = o] /\ lock = w /\ UNCHANGED <<files, lock, begun, past, tail>>
  BY DEF ShiftFails, Inv, OneWriter
<1> HIDE DEF o
<1>3. Typed'
  BY <1>1, <1>2 DEF Inv, Typed, past, tail
<1>4. OneWriter'
  BY <1>1, <1>2, OnlyMover
<1>5. Linked' /\ Kept' /\ WriteHasEvent'
  BY <1>1, <1>2, QuietStep DEF past
<1> QED
  BY <1>3, <1>4, <1>5 DEF Inv

LEMMA ShiftStep == ASSUME Inv, NEW w \in Writers, Shift(w) PROVE Inv'
<1>1. op[w] \in Op /\ op[w].at \in Indices /\ lock = w
  BY DEF Inv, Typed, Op, Shift, OneWriter
<1>2. PICK o \in Op : o.pc \in {"shift", "read"} /\ o.event \in Events /\ op' = [op EXCEPT ![w] = o]
  <2> DEFINE o == IF op[w].at = 0 THEN [op[w] EXCEPT !.pc = "read"]
                  ELSE [op[w] EXCEPT !.at = op[w].at - 1]
  <2>1. op' = [op EXCEPT ![w] = o]
    BY DEF Shift
  <2>2. op[w].at # 0 => op[w].at - 1 \in Indices
    BY <1>1, AuditAssumption DEF Indices
  <2>3. op[w].pc = "shift" /\ "shift" \in Phases /\ "read" \in Phases
    BY DEF Shift, Phases
  <2>4. o \in Op /\ o.pc \in {"shift", "read"} /\ o.event = op[w].event
    <3>1. CASE op[w].at = 0
      <4>1. o = [op[w] EXCEPT !.pc = "read"]
        BY <3>1
      <4>2. [op[w] EXCEPT !.pc = "read"] \in Op
        BY <1>1, <2>3, OpRecords
      <4>3. [op[w] EXCEPT !.pc = "read"].pc = "read"
        BY <1>1, <2>3, OpRecords
      <4>4. [op[w] EXCEPT !.pc = "read"].event = op[w].event
        BY <1>1, <2>3, OpRecords
      <4> HIDE DEF o
      <4> QED
        BY <4>1, <4>2, <4>3, <4>4
    <3>2. CASE op[w].at # 0
      <4>1. o = [op[w] EXCEPT !.at = op[w].at - 1]
        BY <3>2
      <4>2. [op[w] EXCEPT !.at = op[w].at - 1] \in Op
        BY <1>1, <2>2, <2>3, <3>2, OpAtRecords
      <4>3. [op[w] EXCEPT !.at = op[w].at - 1].pc = "shift"
        BY <1>1, <2>2, <2>3, <3>2, OpAtRecords
      <4>4. [op[w] EXCEPT !.at = op[w].at - 1].event = op[w].event
        BY <1>1, <2>2, <2>3, <3>2, OpAtRecords
      <4> HIDE DEF o
      <4> QED
        BY <4>1, <4>2, <4>3, <4>4
    <3> QED
      BY <3>1, <3>2
  <2>5. op[w].event \in Events
    BY DEF Shift, Inv, WriteHasEvent
  <2> QED
    BY <2>1, <2>4, <2>5
<1>3. /\ files' \in [Indices -> File]
      /\ \A j \in Indices : files'[j] \in {files[k] : k \in Indices} \cup {Empty}
      /\ op[w].at # 0 => files'[0] = files[0]
  BY <1>1, ShiftedFiles DEF Shift, Inv, Typed
<1>4. Typed'
  BY <1>2, <1>3 DEF Shift, Inv, Typed
<1>5. OneWriter'
  BY <1>1, <1>2, OnlyMover DEF Shift
<1>6. Linked'
  <2>1. SUFFICES ASSUME Undamaged' PROVE /\ \A j \in Indices : Verifies(files'[j])
                                         /\ \A v \in Writers : op'[v].pc # "write"
    BY DEF Linked
  <2>2. \A k \in Indices : Verifies(files[k])
    BY <2>1 DEF Shift, Inv, Linked, Undamaged
  <2>3. \A v \in Writers : v # w => op[v].pc = "idle"
    BY <1>1 DEF Inv, OneWriter
  <2> QED
    BY <1>2, <1>3, <2>2, <2>3, EmptyFile DEF Inv, Typed
<1>8. WriteHasEvent'
  BY <1>2 DEF Inv, Typed, WriteHasEvent
<1>7. Kept'
  <2>1. CASE op[w].at = 0
    BY <2>1 DEF Shift, Kept
  <2>2. CASE op[w].at # 0
    BY <1>3, <2>2 DEF Shift, Kept, Inv
  <2> QED
    BY <2>1, <2>2
<1> QED
  BY <1>4, <1>5, <1>6, <1>7, <1>8 DEF Inv

LEMMA ReadStep == ASSUME Inv, NEW w \in Writers, Read(w) PROVE Inv'
<1> DEFINE last == LastEntry(files[0])
           o == [pc |-> "write", event |-> op[w].event, at |-> 0,
                 seq |-> last.seq + 1, prev |-> last.prev]
<1>1. files[0] \in File /\ op[w] \in Op /\ lock = w
  BY IndexRange DEF Inv, Typed, Read, OneWriter
<1>2. last.seq \in Nat /\ last.prev \in Events \cup {Genesis}
  BY <1>1, LastEntryType
<1>3. o \in Op
  BY <1>1, <1>2, IndexRange DEF Op, Phases
<1>4. o.pc = "write" /\ o.seq = last.seq + 1 /\ o.prev = last.prev
  OBVIOUS
<1>5. op' = [op EXCEPT ![w] = o] /\ UNCHANGED <<files, lock, begun, written, current, faults, tail>>
      /\ incidents' = incidents \cup IF Oversized(files[0]) THEN {"oversized"} ELSE {}
  BY DEF Read
<1> HIDE DEF o, last
<1>6. Typed'
  BY <1>3, <1>5 DEF Inv, Typed, tail, Incidents
<1>7. OneWriter'
  BY <1>1, <1>3, <1>5, OnlyMover
<1>10. WriteHasEvent'
  BY <1>3, <1>5 DEF Read, Inv, Typed, WriteHasEvent, o
<1>8. Linked'
  <2>1. SUFFICES ASSUME Undamaged' PROVE Linked'
    BY DEF Linked
  <2>2. Undamaged /\ ~Oversized(files[0])
    BY <1>5, <2>1 DEF Undamaged
  <2>3. Verifies(files[0])
    BY <2>2, IndexRange DEF Inv, Linked
  <2>4. o.seq = NextSeq(files[0]) /\ o.prev = NextPrev(files[0])
    BY <1>1, <1>4, <2>2, <2>3, EndIsRead DEF last
  <2> QED
    BY <1>5, <2>2, <2>4 DEF Inv, Typed, Linked
<1>9. Kept'
  BY <1>5 DEF Inv, Kept
<1> QED
  BY <1>6, <1>7, <1>8, <1>9, <1>10 DEF Inv

LEMMA ReadFailsStep == ASSUME Inv, NEW w \in Writers, ReadFails(w) PROVE Inv'
<1> DEFINE o == [pc |-> "write", event |-> op[w].event, at |-> 0, seq |-> 1, prev |-> Genesis]
<1>1. op[w] \in Op /\ lock = w /\ op[w].event \in Events
  BY DEF Inv, Typed, ReadFails, OneWriter, WriteHasEvent
<1>2. o \in Op /\ o.event = op[w].event
  BY <1>1, IndexRange DEF Op, Phases
<1>3. /\ op' = [op EXCEPT ![w] = o] /\ incidents' = incidents \cup {"unread"}
      /\ UNCHANGED <<files, lock, written, current>>
  BY DEF ReadFails
<1> HIDE DEF o
<1>4. Typed'
  BY <1>2, <1>3 DEF Inv, Typed, Incidents
<1>5. OneWriter'
  BY <1>1, <1>2, <1>3, OnlyMover
<1>6. WriteHasEvent'
  BY <1>1, <1>2, <1>3 DEF Inv, Typed, WriteHasEvent
<1>7. Linked'
  BY <1>3 DEF Linked, Undamaged
<1>8. Kept'
  BY <1>3 DEF Inv, Kept
<1> QED
  BY <1>4, <1>5, <1>6, <1>7, <1>8 DEF Inv

LEMMA WriteStep == ASSUME Inv, NEW w \in Writers, Write(w) PROVE Inv'
<1> DEFINE f     == files[0]
           entry == [seq |-> op[w].seq, prev |-> op[w].prev, id |-> op[w].event]
           line  == IF f.torn THEN Garbled ELSE entry
           g     == [lines |-> Append(f.lines, line), torn |-> FALSE]
<1>1. f \in File /\ op[w] \in Op /\ lock = w /\ Idle \in Op /\ Idle.pc = "idle"
  BY IndexRange DEF Inv, Typed, Write, OneWriter, Op, Idle, Phases
<1>2. op[w].event \in Events
  BY DEF Write, Inv, WriteHasEvent
<1>3. entry \in Line /\ line \in Line
  BY <1>1, <1>2 DEF Line, Op
<1>4. entry # Garbled
  BY <1>2, AuditAssumption DEF Garbled
<1>5. /\ files' = [files EXCEPT ![0] = g]
      /\ written' = Append(written, op[w].event)
      /\ current' = current \cup {op[w].event}
      /\ lock' = None /\ op' = [op EXCEPT ![w] = Idle]
      /\ UNCHANGED <<begun, incidents, faults>>
  BY DEF Write
<1>6. /\ f.lines \in Seq(Line) /\ Len(f.lines) \in Nat
      /\ DOMAIN g.lines = 1 .. Len(f.lines) + 1
      /\ g.lines[Len(f.lines) + 1] = line
      /\ \A i \in 1 .. Len(f.lines) : g.lines[i] = f.lines[i]
      /\ g \in File
  BY <1>1, <1>3, FileRange DEF File
<1>7. DOMAIN f.lines = 1 .. Len(f.lines)
  BY <1>1, FileRange
<1> HIDE DEF g
<1>8. files'[0] = g
  BY <1>5, IndexRange DEF Inv, Typed
<1>9. Typed'
  <2>1. files' \in [Indices -> File]
    BY <1>5, <1>6 DEF Inv, Typed
  <2>2. written' \in Seq(Events) /\ current' \subseteq Events
    BY <1>2, <1>5 DEF Inv, Typed
  <2>3. op' \in [Writers -> Op]
    BY <1>1, <1>5 DEF Inv, Typed
  <2> QED
    BY <1>5, <2>1, <2>2, <2>3 DEF Inv, Typed, tail
<1>10. OneWriter' /\ WriteHasEvent'
  <2>1. OneWriter'
    BY <1>1, <1>5, OnlyMover
  <2>2. WriteHasEvent'
    BY <1>1, <1>5 DEF Inv, Typed, WriteHasEvent
  <2> QED
    BY <2>1, <2>2
<1>11. Linked'
  <2>1. SUFFICES ASSUME Undamaged PROVE /\ \A j \in Indices : Verifies(files'[j])
                                        /\ \A v \in Writers : op'[v].pc # "write"
    BY <1>5 DEF Linked, Undamaged
  <2>2. /\ \A j \in Indices : Verifies(files[j])
        /\ op[w].seq = NextSeq(f) /\ op[w].prev = NextPrev(f)
    BY <2>1 DEF Inv, Linked, Write
  <2>3. Verifies(f) /\ line = entry
    BY <2>2, IndexRange DEF Verifies
  <2>4. Verifies(g)
    <3>1. entry.seq = NextSeq(f) /\ entry.prev = NextPrev(f)
      BY <2>2
    <3> HIDE DEF entry, line, f
    <3> QED
      BY <1>1, <1>3, <1>4, <2>3, <3>1, AppendVerifies DEF g
  <2>5. \A v \in Writers : v # w => op[v].pc = "idle"
    BY <1>1 DEF Inv, OneWriter
  <2> QED
    BY <1>1, <1>5, <2>2, <2>4, <2>5 DEF Inv, Typed
<1>12. Kept'
  <2>1. CASE f.torn
    BY <1>6, <1>8, <2>1 DEF Kept, GarbledIn
  <2>2. CASE ~f.torn
    <3>1. CASE GarbledIn(f)
      BY <1>6, <1>7, <1>8, <3>1 DEF Kept, GarbledIn
    <3>2. CASE current \subseteq Readable(f)
      <4>1. op[w].event \in Readable(g)
        BY <1>4, <1>6, <2>2 DEF Readable
      <4>2. Readable(f) \subseteq Readable(g)
        BY <1>6, <1>7 DEF Readable
      <4>3. current' \subseteq Readable(g)
        BY <1>5, <3>2, <4>1, <4>2
      <4> QED
        BY <1>8, <4>3 DEF Kept
    <3> QED
      BY <3>1, <3>2 DEF Inv, Kept
  <2> QED
    BY <2>1, <2>2 DEF Inv, Typed, File
<1> QED
  BY <1>9, <1>10, <1>11, <1>12 DEF Inv

LEMMA WriteTornStep == ASSUME Inv, NEW w \in Writers, WriteTorn(w) PROVE Inv'
<1> DEFINE g == [files[0] EXCEPT !.torn = TRUE]
<1>1. files[0] \in File /\ lock = w /\ Idle \in Op /\ Idle.pc = "idle"
  BY IndexRange DEF Inv, Typed, WriteTorn, OneWriter, Op, Idle, Phases
<1>2. g \in File /\ g.lines = files[0].lines
  BY <1>1 DEF File
<1>3. files' = [files EXCEPT ![0] = g]
  BY DEF WriteTorn
<1>4. files'[0] = g
  BY <1>3, IndexRange DEF Inv, Typed
<1> HIDE DEF g
<1>5. Typed'
  BY <1>1, <1>2, <1>3, AuditAssumption DEF WriteTorn, Inv, Typed, tail, Incidents
<1>6. OneWriter'
  BY <1>1, OnlyMover DEF WriteTorn
<1>7. WriteHasEvent'
  BY <1>1 DEF WriteTorn, Inv, Typed, WriteHasEvent
<1>8. Linked'
  BY DEF WriteTorn, Linked, Undamaged
<1>9. Kept'
  BY <1>2, <1>4 DEF WriteTorn, Inv, Kept, GarbledIn, Readable
<1> QED
  BY <1>5, <1>6, <1>7, <1>8, <1>9 DEF Inv

LEMMA CrashStep == ASSUME Inv, NEW w \in Writers, Crash(w) PROVE Inv'
<1>1. lock = w /\ Idle \in Op /\ Idle.pc = "idle"
  BY IndexRange DEF Inv, Crash, OneWriter, Op, Idle, Phases
<1>2. op' = [op EXCEPT ![w] = Idle] /\ lock' = None /\ UNCHANGED <<files, begun, past, tail>>
  BY <1>1 DEF Crash, Holding
<1>3. Typed'
  BY <1>1, <1>2 DEF Inv, Typed, past, tail
<1>4. OneWriter'
  BY <1>1, <1>2, OnlyMover
<1>5. Linked' /\ Kept' /\ WriteHasEvent'
  BY <1>1, <1>2, QuietStep DEF past
<1> QED
  BY <1>3, <1>4, <1>5 DEF Inv

LEMMA ClearStep == Inv /\ Clear => Inv'
<1> SUFFICES ASSUME Inv, Clear PROVE Inv'
  OBVIOUS
<1> USE DEF Clear
<1>1. Typed'
  BY EmptyFile, AuditAssumption DEF Inv, Typed, Incidents
<1>2. OneWriter' /\ WriteHasEvent'
  BY DEF Inv, OneWriter, WriteHasEvent
<1>3. Linked'
  <2>1. SUFFICES ASSUME Undamaged' PROVE Linked'
    BY DEF Linked
  <2>2. Undamaged /\ \A w \in Writers : op[w].pc # "write"
    BY <2>1 DEF Undamaged
  <2> QED
    BY <2>2, EmptyFile DEF Inv, Typed, Linked
<1>4. Kept'
  BY DEF Kept
<1> QED
  BY <1>1, <1>2, <1>3, <1>4 DEF Inv

\* The reader of the log changes nothing but what it remembers.
LEMMA TailStep == Inv /\ (Follow \/ Poll) => Inv'
<1> SUFFICES ASSUME Inv, Follow \/ Poll PROVE Inv'
  OBVIOUS
<1>1. UNCHANGED <<files, lock, op, begun, past>>
  BY DEF Follow, Poll
<1>5. Typed'
  BY <1>1 DEF Inv, Typed, past
<1>6. OneWriter' /\ WriteHasEvent'
  BY <1>1 DEF Inv, OneWriter, WriteHasEvent
<1>7. Linked' /\ Kept'
  BY <1>1 DEF Inv, Linked, Undamaged, Kept, past
<1> QED
  BY <1>5, <1>6, <1>7 DEF Inv

LEMMA StutterStep == Inv /\ UNCHANGED vars => Inv'
<1> SUFFICES ASSUME Inv, UNCHANGED vars PROVE Inv'
  OBVIOUS
<1> USE DEF vars, past, tail
<1>1. Typed'
  BY DEF Inv, Typed
<1>2. OneWriter' /\ WriteHasEvent'
  BY DEF Inv, OneWriter, WriteHasEvent
<1>3. Linked' /\ Kept'
  BY DEF Inv, Linked, Undamaged, Kept
<1> QED
  BY <1>1, <1>2, <1>3 DEF Inv

LEMMA InvStep == Inv /\ [Next]_vars => Inv'
BY LockStep, CheckSizeStep, ShiftStep, ShiftFailsStep, ReadStep, ReadFailsStep, WriteStep,
   WriteTornStep, CrashStep, ClearStep, TailStep, StutterStep DEF Next, Work

-----------------------------------------------------------------------------
\* Whatever writers interleave, crash, fail to rotate or meet a cleared log, the log
\* and its backups verify, unless a line was cut, an entry outgrew the tail window, the
\* end of the log could not be read or the log went away under a writer.
THEOREM ChainsAlwaysVerify == FairSpec => []ChainsVerify
<1>1. Inv => ChainsVerify
  BY DEF Inv, Linked, Undamaged, ChainsVerify
<1> QED
  BY InvInit, InvStep, <1>1, PTL DEF FairSpec, Spec

\* A log that verifies has every entry whose append to it was finished, whatever
\* incidents happened.
THEOREM ValidLogsAreComplete == FairSpec => []ValidMeansComplete
<1>1. Inv => ValidMeansComplete
  BY DEF Inv, Kept, GarbledIn, Verifies, ValidMeansComplete
<1> QED
  BY InvInit, InvStep, <1>1, PTL DEF FairSpec, Spec

-----------------------------------------------------------------------------
(***************************************************************************)
(* What rotation keeps.                                                    *)
(***************************************************************************)
\* At most the end of the log was not read: no line was cut and no file removed.
Spared == incidents \subseteq {"oversized", "unread"}
Whole  == Spared => \A i \in Indices : ~files[i].torn

\* The file that is next to be renamed has room to go.
Room == \A w \in Writers : op[w].pc = "shift" /\ op[w].at # Backups => files[op[w].at + 1] = Empty

SuffixInv == RetainedIsSuffix /\ Whole /\ Room

LEMMA SuffixInit == Init => SuffixInv
<1>. SUFFICES ASSUME Init PROVE SuffixInv
  OBVIOUS
<1>1. files = [i \in Indices |-> Empty] /\ written = <<>> /\ \A w \in Writers : op[w].pc = "idle"
  BY DEF Init, Idle
<1>2. Empty.lines = <<>> /\ ~Empty.torn /\ Len(Empty.lines) = 0 /\ DOMAIN Empty.lines = {}
  BY DEF Empty
<1>. DEFINE zero == [i \in Indices |-> 0]
<1>3. zero \in [Indices -> 0..Len(written)] /\ Len(written) = 0
  BY <1>1
<1>4. Continues(zero)
  <2>1. /\ \A i \in Indices : zero[i] = 0 /\ files[i].lines = <<>>
        /\ 0 \in Indices /\ \A i \in 1..Backups : i \in Indices /\ i - 1 \in Indices
    BY <1>1, <1>2, AuditAssumption DEF Indices
  <2>. HIDE DEF zero
  <2>. QED BY <1>3, <2>1 DEF Continues
<1>5. RetainedIsSuffix
  BY <1>3, <1>4 DEF RetainedIsSuffix
<1>. QED BY <1>1, <1>2, <1>5 DEF SuffixInv, Whole, Room

\* A step that leaves the files and what was written alone, and lets no writer come to
\* the renames but at the oldest backup.
LEMMA SuffixFrame ==
    ASSUME SuffixInv, UNCHANGED <<files, written>>, incidents \subseteq incidents',
           \A w \in Writers : op'[w].pc = "shift" => op'[w] = op[w] \/ op'[w].at = Backups
    PROVE  SuffixInv'
<1>1. RetainedIsSuffix'
  BY DEF SuffixInv, RetainedIsSuffix, Continues
<1>2. Whole'
  BY DEF SuffixInv, Whole, Spared
<1>3. Room'
  BY DEF SuffixInv, Room
<1>. QED BY <1>1, <1>2, <1>3 DEF SuffixInv

\* Deleting the oldest backup, or renaming a file to a place that is free, leaves the end
\* of what was written.
LEMMA ShiftKeepsSuffix ==
    ASSUME Inv, SuffixInv, NEW w \in Writers, Shift(w) PROVE SuffixInv'
<1>. DEFINE i == op[w].at
<1>1. i \in Indices /\ op[w].pc = "shift" /\ op[w] \in Op /\ files' = Shifted(i) /\ lock = w
      /\ written' = written /\ incidents' = incidents
  BY DEF Inv, Typed, Op, Shift, OneWriter
<1>2. i # Backups => files[i + 1] = Empty /\ i + 1 \in Indices /\ i + 1 # i
  BY <1>1, AuditAssumption DEF SuffixInv, Room, Indices
<1>3. files \in [Indices -> File] /\ Empty \in File /\ Empty.lines = <<>> /\ ~Empty.torn
      /\ Len(Empty.lines) = 0 /\ DOMAIN Empty.lines = {}
  BY EmptyFile DEF Inv, Typed, Empty
<1>4. \A v \in Writers : v # w => op[v].pc = "idle"
  BY <1>1 DEF Inv, OneWriter
\* Where each file comes from: the one that is freed and, above it, the one that moved.
<1>5. /\ files'[i] = Empty
      /\ i # Backups => files'[i + 1] = files[i]
      /\ \A j \in Indices : j # i /\ (j # i + 1 \/ i = Backups) => files'[j] = files[j]
  <2>1. CASE i = Backups
    BY <1>1, <1>3, <2>1 DEF Shifted
  <2>2. CASE i # Backups /\ files[i] = Empty
    BY <1>1, <1>2, <1>3, <2>2 DEF Shifted
  <2>3. CASE i # Backups /\ files[i] # Empty
    BY <1>1, <1>2, <1>3, <2>3 DEF Shifted
  <2>. QED BY <2>1, <2>2, <2>3
<1>6. Whole'
  BY <1>1, <1>2, <1>3, <1>5 DEF SuffixInv, Whole, Spared
<1>7. Room'
  <2>1. CASE i = 0
    <3>1. op'[w].pc = "read"
      BY <1>1, <2>1 DEF Shift, Inv, Typed, Op
    <3>. QED BY <1>4, <3>1 DEF Room, Shift, Inv, Typed
  <2>2. CASE i # 0
    <3>1. op'[w].pc = "shift" /\ op'[w].at = i - 1 /\ (i - 1) + 1 = i
      BY <1>1, <2>2, IndexRange DEF Shift, Inv, Typed, Op
    <3>2. files'[op'[w].at + 1] = Empty
      BY <1>5, <3>1
    <3>3. \A v \in Writers : v # w => op'[v].pc = "idle"
      BY <1>4 DEF Shift, Inv, Typed
    <3>. QED BY <3>2, <3>3 DEF Room
  <2>. QED BY <2>1, <2>2
<1>8. RetainedIsSuffix'
  <2>. SUFFICES ASSUME Spared
                PROVE  \E start \in [Indices -> 0..Len(written)] : Continues(start)'
    BY <1>1 DEF RetainedIsSuffix, Spared
  <2>1. PICK start \in [Indices -> 0..Len(written)] : Continues(start)
    BY DEF SuffixInv, RetainedIsSuffix, Spared
  <2>. DEFINE n == Len(files[i].lines)
  <2>2. n \in Nat /\ Len(written) \in Nat /\ start[i] \in Nat
    BY <1>1, <1>3, <2>1, FileRange DEF Inv, Typed
  <2>3. start[i] + n \in 0..Len(written)
    <3>1. CASE i = 0
      BY <2>1, <2>2, <3>1 DEF Continues
    <3>2. CASE i # 0
      <4>1. i \in 1..Backups /\ i - 1 \in Indices
        BY <1>1, <3>2, AuditAssumption DEF Indices
      <4>. QED BY <2>1, <4>1 DEF Continues
    <3>. QED BY <3>1, <3>2
  <2>4. PICK next \in [Indices -> 0..Len(written)] :
            next[i] = start[i] + n /\ \A j \in Indices : j # i => next[j] = start[j]
    <3>1. [start EXCEPT ![i] = start[i] + n] \in [Indices -> 0..Len(written)]
      BY <2>1, <2>3
    <3>. QED BY <1>1, <2>1, <3>1
  <2>. HIDE DEF n, i
  <2>5. i # Backups => start[i + 1] = start[i]
    <3>. SUFFICES ASSUME i # Backups PROVE start[i + 1] = start[i]
      OBVIOUS
    <3>1. i + 1 \in 1..Backups /\ (i + 1) - 1 = i
      BY <1>1, AuditAssumption DEF Indices
    <3>2. start[i + 1] + Len(files[i + 1].lines) = start[i] /\ start[i + 1] \in Nat
      BY <1>2, <2>1, <3>1 DEF Continues
    <3>. QED BY <1>2, <1>3, <3>2
  <2>6. next[0] + Len(files'[0].lines) = Len(written)
    <3>1. start[0] + Len(files[0].lines) = Len(written)
      BY <2>1 DEF Continues
    <3>2. CASE i = 0
      BY <1>3, <1>5, <2>2, <2>4, <3>1, <3>2 DEF n
    <3>3. CASE i # 0
      <4>1. 0 # i + 1
        BY <1>1 DEF Indices
      <4>. QED BY <1>5, <2>4, <3>1, <3>3, <4>1, IndexRange
    <3>. QED BY <3>2, <3>3
  <2>7. ASSUME NEW j \in 1..Backups
        PROVE  next[j] + Len(files'[j].lines) = next[j - 1]
    <3>1. start[j] + Len(files[j].lines) = start[j - 1]
      BY <2>1 DEF Continues
    <3>2. j \in Indices /\ j - 1 \in Indices /\ j - 1 # j /\ j \in Nat /\ i \in Nat
      BY <1>1, AuditAssumption DEF Indices
    <3>3. CASE j = i
      <4>1. next[j - 1] = start[j - 1] /\ next[j] = start[i] + n
        BY <2>4, <3>2, <3>3
      <4>2. Len(files'[j].lines) = 0
        BY <1>3, <1>5, <3>3
      <4>3. start[i] + n = start[j - 1]
        BY <3>1, <3>3 DEF n
      <4>4. next[j] \in Nat
        BY <2>2, <4>1
      <4>. QED BY <4>1, <4>2, <4>3, <4>4
    <3>4. CASE j = i + 1
      <4>1. i # Backups /\ j - 1 = i /\ j # i
        BY <3>2, <3>4, AuditAssumption
      <4>2. next[j] = start[i] /\ files'[j] = files[i] /\ next[j - 1] = start[i] + n
        BY <1>5, <2>4, <2>5, <3>2, <3>4, <4>1
      <4>. QED BY <4>2 DEF n
    <3>5. CASE j # i /\ j # i + 1
      <4>1. j - 1 # i
        BY <3>2, <3>5
      <4>. QED BY <1>5, <2>4, <3>1, <3>2, <3>5, <4>1
    <3>. QED BY <3>3, <3>4, <3>5
  <2>8. ASSUME NEW j \in Indices, NEW k \in DOMAIN files'[j].lines
        PROVE  files'[j].lines[k].id = written[next[j] + k]
    <3>1. \A m \in Indices : \A l \in DOMAIN files[m].lines : files[m].lines[l].id = written[start[m] + l]
      BY <2>1 DEF Continues
    <3>2. CASE j = i
      BY <1>3, <1>5, <2>8, <3>2
    <3>3. CASE j # i /\ (j # i + 1 \/ i = Backups)
      <4>1. files'[j] = files[j] /\ next[j] = start[j]
        BY <1>5, <2>4, <3>3
      <4>. QED BY <2>8, <3>1, <4>1
    <3>4. CASE j = i + 1 /\ i # Backups
      <4>1. files'[j] = files[i] /\ next[j] = start[i]
        BY <1>2, <1>5, <2>4, <2>5, <3>4
      <4>. QED BY <1>1, <2>8, <3>1, <4>1
    <3>. QED BY <3>2, <3>3, <3>4
  <2>9. Continues(next)'
    BY <1>1, <2>6, <2>7, <2>8 DEF Continues
  <2>. QED BY <2>4, <2>9
<1>. QED BY <1>6, <1>7, <1>8 DEF SuffixInv

LEMMA OneMore ==
    ASSUME NEW a \in Nat, NEW b \in Nat, NEW c, a + b = c PROVE a + (b + 1) = c + 1
OBVIOUS

LEMMA WriteKeepsSuffix ==
    ASSUME Inv, SuffixInv, NEW w \in Writers, Write(w) PROVE SuffixInv'
<1>. DEFINE f     == files[0]
            entry == [seq |-> op[w].seq, prev |-> op[w].prev, id |-> op[w].event]
            line  == IF f.torn THEN Garbled ELSE entry
            g     == [lines |-> Append(f.lines, line), torn |-> FALSE]
            e     == op[w].event
<1>1. lock = w /\ f \in File /\ e \in Events /\ written \in Seq(Events) /\ files \in [Indices -> File]
  BY IndexRange DEF Inv, Typed, OneWriter, WriteHasEvent, Write
<1>2. files' = [files EXCEPT ![0] = g] /\ written' = Append(written, e) /\ incidents' = incidents
      /\ op' = [op EXCEPT ![w] = Idle]
  BY DEF Write
<1>3. \A v \in Writers : op'[v].pc = "idle"
  BY <1>1, <1>2 DEF Inv, Typed, OneWriter, Idle
<1>4. Room'
  BY <1>3 DEF Room
<1>5. Len(f.lines) \in Nat /\ DOMAIN f.lines = 1 .. Len(f.lines) /\ f.lines \in Seq(Line)
  BY <1>1, FileRange
<1>6. /\ Len(g.lines) = Len(f.lines) + 1 /\ DOMAIN g.lines = 1 .. Len(f.lines) + 1
      /\ g.lines[Len(f.lines) + 1] = line /\ ~g.torn
      /\ \A k \in 1 .. Len(f.lines) : g.lines[k] = f.lines[k]
  BY <1>5
<1>7. /\ Len(written) \in Nat /\ Len(written') = Len(written) + 1
      /\ written'[Len(written) + 1] = e
      /\ \A k \in 1 .. Len(written) : written'[k] = written[k]
  BY <1>1, <1>2
<1>. HIDE DEF g
<1>8. files'[0] = g /\ \A j \in Indices : j # 0 => files'[j] = files[j]
  BY <1>1, <1>2, IndexRange
<1>9. Whole'
  BY <1>2, <1>6, <1>8 DEF SuffixInv, Whole, Spared
<1>10. RetainedIsSuffix'
  <2>. SUFFICES ASSUME Spared
                PROVE  \E start \in [Indices -> 0..Len(written')] : Continues(start)'
    BY <1>2 DEF RetainedIsSuffix, Spared
  <2>1. PICK start \in [Indices -> 0..Len(written)] : Continues(start)
    BY DEF SuffixInv, RetainedIsSuffix, Spared
  <2>2. line = entry /\ entry.id = e
    BY IndexRange DEF SuffixInv, Whole
  <2>. HIDE DEF f, entry, line, e
  <2>3. start \in [Indices -> 0..Len(written')]
    BY <1>7, <2>1
  <2>4. start[0] + Len(f.lines) = Len(written) /\ start[0] \in Nat
    BY <2>1, IndexRange DEF Continues, f
  <2>11. Len(f.lines) \in Nat
    BY <1>5
  <2>5. start[0] + Len(files'[0].lines) = Len(written')
    <3>1. Len(files'[0].lines) = Len(f.lines) + 1
      BY <1>6, <1>8
    <3>2. start[0] + (Len(f.lines) + 1) = Len(written) + 1
      BY <2>4, <2>11, OneMore
    <3>. QED BY <1>7, <3>1, <3>2
  <2>6. \A j \in 1..Backups : start[j] + Len(files'[j].lines) = start[j - 1]
    BY <1>8, <2>1 DEF Continues, Indices
  <2>7. \A k \in DOMAIN g.lines : g.lines[k].id = written'[start[0] + k]
    <3>. SUFFICES ASSUME NEW k \in DOMAIN g.lines PROVE g.lines[k].id = written'[start[0] + k]
      OBVIOUS
    <3>1. CASE k = Len(f.lines) + 1
      <4>1. start[0] + k = Len(written) + 1
        BY <2>4, <2>11, <3>1, OneMore
      <4>. QED BY <1>6, <1>7, <2>2, <3>1, <4>1
    <3>2. CASE k # Len(f.lines) + 1
      <4>1. k \in 1 .. Len(f.lines) /\ start[0] + k \in 1 .. Len(written)
        BY <1>5, <1>6, <1>7, <2>4, <3>2
      <4>2. f.lines[k].id = written[start[0] + k]
        BY <1>5, <2>1, <4>1, IndexRange DEF Continues, f
      <4>. QED BY <1>6, <1>7, <4>1, <4>2
    <3>. QED BY <3>1, <3>2
  <2>8. ASSUME NEW j \in Indices, j # 0, NEW k \in DOMAIN files[j].lines
        PROVE  files[j].lines[k].id = written'[start[j] + k]
    <3>1. files[j] \in File /\ start[j] \in Nat
      BY <1>1, <2>1
    <3>2. k \in 1 .. Len(files[j].lines) /\ Len(files[j].lines) \in Nat
      BY <2>8, <3>1, FileRange
    <3>3. j \in 1..Backups /\ j - 1 \in Indices
      BY <2>8, AuditAssumption DEF Indices
    <3>4. start[j] + Len(files[j].lines) = start[j - 1] /\ start[j - 1] \in 0..Len(written)
      BY <2>1, <3>3 DEF Continues
    <3>5. start[j] + k \in 1 .. Len(written)
      BY <1>7, <3>1, <3>2, <3>4
    <3>6. files[j].lines[k].id = written[start[j] + k]
      BY <2>1, <2>8 DEF Continues
    <3>. QED BY <1>7, <3>5, <3>6
  <2>9. \A j \in Indices : \A k \in DOMAIN files'[j].lines : files'[j].lines[k].id = written'[start[j] + k]
    BY <1>8, <2>7, <2>8
  <2>10. Continues(start)'
    BY <2>5, <2>6, <2>9 DEF Continues
  <2>. QED BY <2>3, <2>10
<1>. QED BY <1>4, <1>9, <1>10 DEF SuffixInv

LEMMA SuffixStep == Inv /\ SuffixInv /\ [Next]_vars => SuffixInv'
<1>. SUFFICES ASSUME Inv, SuffixInv, [Next]_vars PROVE SuffixInv'
  OBVIOUS
<1>1. ASSUME NEW w \in Writers, NEW e \in Events, Lock(w, e) PROVE SuffixInv'
  <2>1. op'[w].pc = "size" /\ \A v \in Writers : v # w => op'[v] = op[v]
    BY <1>1 DEF Lock, Idle, Inv, Typed
  <2>. QED BY <1>1, <2>1, SuffixFrame DEF Lock, past
<1>2. ASSUME NEW w \in Writers, CheckSize(w) PROVE SuffixInv'
  <2>1. op'[w].pc = "shift" => op'[w].at = Backups
    BY <1>2 DEF CheckSize, Inv, Typed, Op
  <2>2. \A v \in Writers : v # w => op'[v] = op[v]
    BY <1>2 DEF CheckSize, Inv, Typed
  <2>. QED BY <1>2, <2>1, <2>2, SuffixFrame DEF CheckSize, past
<1>3. ASSUME NEW w \in Writers, ShiftFails(w) \/ Crash(w) \/ Read(w) \/ ReadFails(w)
      PROVE  SuffixInv'
  <2>1. op'[w].pc # "shift" /\ \A v \in Writers : v # w => op'[v] = op[v]
    BY <1>3 DEF ShiftFails, Crash, Read, ReadFails, Idle, Inv, Typed, Op
  <2>2. UNCHANGED <<files, written>> /\ incidents \subseteq incidents'
    BY <1>3 DEF ShiftFails, Crash, Read, ReadFails, past
  <2>. QED BY <2>1, <2>2, SuffixFrame
<1>4. ASSUME NEW w \in Writers, WriteTorn(w) PROVE SuffixInv'
  <2>1. ~Spared' /\ ~(incidents' \subseteq {"oversized", "unread"})
    BY <1>4 DEF WriteTorn, Spared
  <2>2. \A v \in Writers : op'[v].pc = "idle"
    BY <1>4 DEF WriteTorn, Inv, Typed, OneWriter, Idle
  <2>. QED BY <2>1, <2>2 DEF SuffixInv, RetainedIsSuffix, Whole, Room
<1>5. CASE Clear
  <2>1. ~Spared' /\ ~(incidents' \subseteq {"oversized", "unread"})
    BY <1>5 DEF Clear, Spared
  <2>2. Room'
    <3>1. ASSUME NEW w \in Writers, op[w].pc = "shift", op[w].at # Backups
          PROVE  files'[op[w].at + 1] = Empty
      <4>1. op[w].at + 1 \in Indices /\ op[w].at + 1 # 0
        BY <3>1, AuditAssumption DEF Inv, Typed, Op, Indices
      <4>2. files[op[w].at + 1] = Empty
        BY <3>1 DEF SuffixInv, Room
      <4>. QED BY <1>5, <4>1, <4>2 DEF Clear, Inv, Typed
    <3>. QED BY <1>5, <3>1 DEF Room, Clear
  <2>. QED BY <2>1, <2>2 DEF SuffixInv, RetainedIsSuffix, Whole
<1>6. CASE Follow \/ Poll \/ UNCHANGED vars
  <2>1. UNCHANGED <<files, written, op, incidents>>
    BY <1>6 DEF Follow, Poll, vars, past
  <2>. QED BY <2>1, SuffixFrame
<1>. QED
  BY <1>1, <1>2, <1>3, <1>4, <1>5, <1>6, ShiftKeepsSuffix, WriteKeepsSuffix DEF Next, Work

\* Whatever writers interleave, die in the middle of the renames or fail to rename, what
\* the log and its backups hold is the end of what was written, in order and once, unless
\* a line was cut or the log was removed.
THEOREM RotationForgetsOldestFirst == FairSpec => []RetainedIsSuffix
<1>1. SuffixInv => RetainedIsSuffix
  BY DEF SuffixInv
<1>2. Inv /\ SuffixInv /\ [Next]_vars => (Inv /\ SuffixInv)'
  BY InvStep, SuffixStep
<1>. QED BY InvInit, SuffixInit, <1>1, <1>2, PTL DEF FairSpec, Spec
=============================================================================

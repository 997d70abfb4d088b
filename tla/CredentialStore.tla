---------------------------- MODULE CredentialStore ----------------------------
(***************************************************************************)
(* Stored OAuth credentials (cli/mcp_credentials.py): saved in the keyring of *)
(* the system or, when that fails, in one file under a lock; refreshed,       *)
(* deleted, and cleared by several processes, any of which may be killed.     *)
(*                                                                         *)
(* A token stands for a token record, by the refresh token in it.  The        *)
(* authorization server rotates: a refresh token is good for one refresh,     *)
(* and the answer to it, or the saving of the answer, can fail.              *)
(***************************************************************************)
EXTENDS Naturals, FiniteSets

CONSTANTS
    Procs,      \* processes of the command line
    Servers,    \* server identities
    Backends,   \* of "auto", "keyring" and "file", those a process is started with
    MaxTokens,  \* bound on tokens the authorization server hands out
    MaxFaults,  \* bound on failures of the keyring, of a refresh or of a write, and kills
    None

VARIABLES
    backend,    \* the backend all processes are started with
    keyring,    \* per server, the token in the keyring or None
    file,       \* per server, the token in the file or None
    lock,       \* who holds the lock of the file
    doing,      \* per process, [op, server, token]
    at,         \* per process, its next step
    read,       \* per process, the records it has read
    issued,     \* bound counter: tokens handed out
    faults,     \* bound counter
    good,       \* refresh tokens the authorization server would take
    late,       \* refresh tokens sent by clients that wait no longer, not yet received
    out,        \* history: servers logged out of, and not logged in to since
    quiet,      \* history: processes whose logout no saving of that server overlaps
    lost        \* history: servers of which a fault left a token spent, unsaved or
                \* undeleted, and no token has been saved since without another process

vars == <<backend, keyring, file, lock, doing, at, read, issued, faults, good, late,
          out, quiet, lost>>
stored == <<backend, keyring, file>>

NoRecords == [s \in Servers |-> None]
Nothing   == [op |-> None, server |-> None, token |-> None]

Init ==
    /\ backend \in Backends /\ keyring = NoRecords /\ file = NoRecords /\ lock = None
    /\ doing = [p \in Procs |-> Nothing] /\ at = [p \in Procs |-> "idle"]
    /\ read = [p \in Procs |-> NoRecords]
    /\ issued = 0 /\ faults = 0 /\ good = {} /\ late = {} /\ out = {} /\ quiet = {} /\ lost = {}

UsesKeyring == backend # "file"

\* load: the keyring first, then the file.
Loaded(s) == IF UsesKeyring /\ keyring[s] # None THEN keyring[s] ELSE file[s]

\* A step of the keyring either works or fails, or there is no keyring.
Works(ok) == IF ok THEN UNCHANGED faults ELSE faults < MaxFaults /\ faults' = faults + 1

Goes(p, step) == at' = [at EXCEPT ![p] = step]
Does(p, op, s, token) == doing' = [doing EXCEPT ![p] = [op |-> op, server |-> s, token |-> token]]
Busy(op, s)   == {p \in Procs : doing[p].op = op /\ doing[p].server = s}
LoggingOut(s) == Busy("delete", s)

-----------------------------------------------------------------------------
(***************************************************************************)
(* Tokens from the authorization server.                                   *)
(***************************************************************************)
\* perform_oauth_flow has a new grant, to be saved.
Login(p, s) ==
    /\ at[p] = "idle" /\ issued < MaxTokens
    /\ issued' = issued + 1 /\ good' = good \cup {issued + 1}
    /\ Does(p, "save", s, issued + 1) /\ Goes(p, "keyring")
    /\ out' = out \ {s} /\ quiet' = quiet \ LoggingOut(s)
    /\ UNCHANGED <<stored, lock, read, faults, late, lost>>

\* refresh_token, first half: the record is loaded and sent.
Refresh(p, s) ==
    /\ at[p] = "idle" /\ Loaded(s) # None
    /\ Does(p, "save", s, Loaded(s)) /\ Goes(p, "sent")
    /\ out' = out \ {s} /\ quiet' = quiet \ LoggingOut(s)
    /\ UNCHANGED <<stored, lock, read, issued, faults, good, late, lost>>

\* Mutant of Rotate: the answer has a new refresh token, the old one is kept.
RotateKeepsOld(p) ==
    /\ at[p] = "sent"
    /\ IF doing[p].token \in good
       THEN /\ issued < MaxTokens
            /\ issued' = issued + 1
            /\ good' = (good \ {doing[p].token}) \cup {issued + 1}
            /\ Goes(p, "answered") /\ UNCHANGED doing
       ELSE /\ Does(p, None, None, None) /\ Goes(p, "idle") /\ UNCHANGED <<issued, good>>
    /\ UNCHANGED <<stored, lock, read, faults, late, out, quiet, lost>>

\* The authorization server answers with a new token for the old one, which is spent, or
\* refuses a token used before.
Rotate(p) ==
    /\ at[p] = "sent"
    /\ IF doing[p].token \in good
       THEN /\ issued < MaxTokens
            /\ issued' = issued + 1
            /\ good' = (good \ {doing[p].token}) \cup {issued + 1}
            /\ Does(p, "save", doing[p].server, issued + 1) /\ Goes(p, "answered")
       ELSE /\ Does(p, None, None, None) /\ Goes(p, "idle") /\ UNCHANGED <<issued, good>>
    /\ UNCHANGED <<stored, lock, read, faults, late, out, quiet, lost>>

\* The answer is read, and is to be saved.
Received(p) ==
    /\ at[p] = "answered"
    /\ Goes(p, "keyring")
    /\ UNCHANGED <<stored, lock, doing, read, issued, faults, good, late, out, quiet, lost>>

\* What p is about is left half done.
InFlight(p) == IF at[p] = "sent" THEN {doing[p].token} ELSE {}
GivesUp(p) ==
    /\ faults < MaxFaults /\ faults' = faults + 1
    /\ late' = late \cup InFlight(p)
    /\ lost' = IF doing[p].op = "clear" THEN lost \cup Servers ELSE lost \cup {doing[p].server}
    /\ lock' = IF lock = p THEN None ELSE lock
    /\ read' = [read EXCEPT ![p] = NoRecords]
    /\ Does(p, None, None, None) /\ Goes(p, "idle")
    /\ UNCHANGED <<stored, issued, good, out, quiet>>

\* A timeout, whether the request arrived or not, or an answer that is too long or cannot
\* be read: nothing is saved.
RefreshFails(p) == at[p] \in {"sent", "answered"} /\ GivesUp(p)

\* A request that the client waits for no longer is served after all.
RotateLate(t) ==
    /\ t \in late
    /\ late' = late \ {t} /\ good' = good \ {t}
    /\ UNCHANGED <<stored, lock, doing, at, read, issued, faults, out, quiet, lost>>

-----------------------------------------------------------------------------
(***************************************************************************)
(* save, delete, clear.                                                    *)
(***************************************************************************)
\* No other process is about the same server.
Alone(p) == \A q \in Procs \ {p} : doing[q].server # doing[p].server

\* save: the keyring when it works; else the file, unless the keyring was demanded.
SaveToKeyring(p, ok) ==
    /\ at[p] = "keyring" /\ doing[p].op = "save"
    /\ IF UsesKeyring THEN Works(ok) ELSE ok /\ UNCHANGED faults
    /\ IF ok /\ UsesKeyring
       THEN keyring' = [keyring EXCEPT ![doing[p].server] = doing[p].token]
       ELSE UNCHANGED keyring
    /\ IF ~UsesKeyring \/ (~ok /\ backend = "auto")
       THEN Goes(p, "lock") /\ UNCHANGED doing
       ELSE Goes(p, "idle") /\ Does(p, None, None, None)
    /\ lost' = IF ~ok THEN lost \cup {doing[p].server}
               ELSE IF UsesKeyring /\ file[doing[p].server] = None /\ Alone(p)
                    THEN lost \ {doing[p].server} ELSE lost
    /\ UNCHANGED <<backend, file, lock, read, issued, good, late, out, quiet>>

\* delete; the user logs out.
Logout(p, s) ==
    /\ at[p] = "idle"
    /\ Does(p, "delete", s, None) /\ Goes(p, "keyring")
    /\ quiet' = IF Busy("save", s) = {} THEN quiet \cup {p} ELSE quiet \ {p}
    /\ UNCHANGED <<stored, lock, read, issued, faults, good, late, out, lost>>

\* A failure of the keyring is swallowed.
DeleteFromKeyring(p, ok) ==
    /\ at[p] = "keyring" /\ doing[p].op = "delete"
    /\ IF UsesKeyring THEN Works(ok) ELSE ok /\ UNCHANGED faults
    /\ keyring' = IF ok /\ UsesKeyring THEN [keyring EXCEPT ![doing[p].server] = None] ELSE keyring
    /\ lost' = IF ~ok THEN lost \cup {doing[p].server} ELSE lost
    /\ Goes(p, "lock")
    /\ UNCHANGED <<backend, file, lock, doing, read, issued, good, late, out, quiet>>

\* clear: the keyring's records of the servers in the file, read without the lock.
LogoutAll(p, ok) ==
    /\ at[p] = "idle"
    /\ Does(p, "clear", None, None) /\ Goes(p, "lock")
    /\ IF UsesKeyring THEN Works(ok) ELSE ok /\ UNCHANGED faults
    /\ keyring' = IF ~UsesKeyring \/ ~ok THEN keyring
                  ELSE [s \in Servers |-> IF file[s] # None THEN None ELSE keyring[s]]
    /\ lost' = IF ~ok THEN lost \cup Servers ELSE lost
    /\ UNCHANGED <<backend, file, lock, read, issued, good, late, out, quiet>>

\* Mutant of Lock: the file is not locked.
LockNot(p) ==
    /\ at[p] = "lock"
    /\ lock' = p
    /\ Goes(p, "read")
    /\ UNCHANGED <<stored, doing, read, issued, faults, good, late, out, quiet, lost>>

\* FileLock; then the records are read as they are under the lock.
Lock(p) ==
    /\ at[p] = "lock" /\ lock = None
    /\ lock' = p
    /\ Goes(p, "read")
    /\ UNCHANGED <<stored, doing, read, issued, faults, good, late, out, quiet, lost>>

Read(p) ==
    /\ at[p] = "read"
    /\ read' = [read EXCEPT ![p] = file]
    /\ Goes(p, "write")
    /\ UNCHANGED <<stored, lock, doing, issued, faults, good, late, out, quiet, lost>>

\* What the file becomes.
Records(p) ==
    CASE doing[p].op = "save"   -> [read[p] EXCEPT ![doing[p].server] = doing[p].token]
      [] doing[p].op = "delete" -> [read[p] EXCEPT ![doing[p].server] = None]
      [] OTHER                  -> NoRecords

\* _write_all_file_records: one replace; then the lock is given back.
Written(p) ==
    /\ file' = Records(p)
    /\ lock' = None
    /\ read' = [read EXCEPT ![p] = NoRecords]
    /\ out' = IF doing[p].op = "delete" /\ p \in quiet
              THEN out \cup {doing[p].server} ELSE out
    /\ lost' = IF doing[p].op = "save" /\ ~UsesKeyring /\ Alone(p)
               THEN lost \ {doing[p].server} ELSE lost
    /\ Does(p, None, None, None) /\ Goes(p, "idle")
    /\ UNCHANGED <<backend, keyring, issued, faults, good, late, quiet>>

Write(p) == at[p] = "write" /\ Written(p)

\* The file cannot be written, or removed; it stays as it was, and the lock is given back.
WriteFails(p) == at[p] = "write" /\ GivesUp(p)

\* The process is killed; the system gives its lock back.
Kill(p) == at[p] # "idle" /\ GivesUp(p)

Next ==
    \E p \in Procs :
        \/ \E s \in Servers : Login(p, s) \/ Refresh(p, s) \/ Logout(p, s)
        \/ \E ok \in BOOLEAN : SaveToKeyring(p, ok) \/ DeleteFromKeyring(p, ok) \/ LogoutAll(p, ok)
        \/ Rotate(p) \/ Received(p) \/ RefreshFails(p) \/ \E t \in late : RotateLate(t)
        \/ Lock(p) \/ Read(p) \/ Write(p) \/ WriteFails(p) \/ Kill(p)

Spec == Init /\ [][Next]_vars
-----------------------------------------------------------------------------
InUse(s) == \E p \in Procs : doing[p].server = s

\* However processes log in, refresh and log out side by side, what is loaded for a
\* server is a token its authorization server still takes, and nothing after a logout
\* (save, refresh_token, delete).  It can be a token that has been spent only after a
\* fault of that server: a refresh without a readable answer, a keyring or a file that
\* could not be written, a kill; and until a login or refresh is saved.
StoredTokenIsGood ==
    \A s \in Servers :
        s \notin lost /\ ~InUse(s) =>
            /\ Loaded(s) \in good \cup {None}
            /\ s \in out => Loaded(s) = None

\* Writing the record of one server changes no other's, whatever was written between
\* (FileLock); clearing alone takes them all.
KeepsOthers ==
    \A s \in Servers :
        file'[s] # file[s] => \E p \in Procs : /\ at[p] = "write"
                                               /\ doing[p].op = "clear" \/ doing[p].server = s
OthersKept == [][KeepsOthers]_vars
=============================================================================

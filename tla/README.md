# A verification of dmint

dmint puts a human between an AI agent and a dangerous tool call. A policy
allows, denies, or sends a call to a human; a call sent to a human becomes a
*pending approval* in a store; a human approves or rejects it; the agent
retries with the signed *assertion* of that approval, and the store lets it
execute exactly once. The value of the program is in what this path promises
when several processes share one store, when policies are edited, when
processes die and when a database file is put back to an older copy. Around it
are the parts the promise leans on: how a policy is decided, what a row in the
database means when it is read back, the log of all decisions, the gateway that
forwards calls, and how tokens, notices, threads and sessions are handled.

All paths below are under `src/src/dmint/` unless they start with `docs/`.

## 1. Inventory

### The parts and their state

| component | state it keeps | operations | correct when | modelled |
|---|---|---|---|---|
| approval record and assertion (`core/approvals.py`) | immutable records: state, request fingerprint, policy digest, times, version | create, approve, reject, cancel, expire, invalidate, consume; issue and verify an assertion | CONSUMED only after a human's approval, whatever the clocks read | yes |
| SQLite store (`core/storage/sqlite.py`) | tables `approval_records`, `approval_assertions`, `store_policy`, `store_recovery`; the files `.epoch`, `.epoch.lock` | save, get, list, approve, reject, invalidate, consume, cleanup, policy get and set, look-up by request | one use per approval, as approved; decisions are final; the tables agree; the quota holds up to a stated error | all but `save_approved` |
| recovery counter (same file) | counter row, `.epoch` mirror, flock | check on open, get and save; advance on consume; repair | no executed approval again after a rollback of the file; no false report | yes |
| SQLAlchemy store (`core/storage/sql.py`) | the same tables, in SQLite or PostgreSQL | the same, one transaction each | the same | its counter |
| thread-safe wrapper and factory (`core/storage/thread_safe.py`, `factory.py`) | one store per thread number | choose a backend, delegate, close | no SQLite store shared by two threads; all closed | yes |
| enforcement core (`core/enforcement.py`) | registered functions, policy, its provenance, store | protect, request, retry, authorize, execute, reload | executes only what the policies in force and, where asked, a human allow | request, retry, reload |
| MCP gate (`mcp/proxy.py`, `mcp/gateway.py`) | policy, provenance, known tool schemas, store | list tools, route_call, retry_call, reload | as above, for a downstream tool whose schema was verified | in two views |
| MCP transport and client (`mcp/_stdlib_mcp.py`, `mcp/client.py`) | one session per server: next id, lock, streams | connect, request, time out, disconnect | a caller gets its own answer | yes |
| harness hooks (`cli/hooks.py`) | nothing between runs; publishes its policy into the store | one run per tool call of a coding harness | as above | the approval path |
| policy (`core/policy.py`) | rules; the shared `store_policy` row | load, evaluate, save and read a snapshot, sync_authoritative_policy | deny first, in any order of the rules; the snapshot means the same | all but `from_url` |
| constraints, resources (`core/constraints.py`, `core/resources.py`) | none | accept and normalise at load, check and match at a call | adding a constraint only restricts; the matcher's loop decides what the pattern means, in bounded time | yes |
| canonicalisation, binding, row integrity (`core/canonicalize.py`, `request_binding.py`, the stores' serialisation) | none | fingerprint, write a row, read a row | what is read back is what was approved, or is refused | yes |
| CLI and dashboard client (`cli/`, `dashboard/core_client.py`) | none | list, show, approve, reject | decide only what is pending | decisions |
| dashboard (`dashboard/app.py`, `auth.py`, `routes.py`) | sessions, failed logins per address | login, logout, decide | only a live session, or the token, decides | all but its pages |
| audit log (`core/audit.py`, `cli/logs.py`) | hash-chained JSON lines, backups | append, rotate, verify, follow, clear | one unbroken chain under concurrent appends and crashes; complete when it verifies | yes |
| webhooks (`core/webhooks.py`), redaction | none kept | validate and pin, sanitise, post | never to an internal address, nothing secret or alarming in it, once per platform | yes; log redaction not |
| OAuth and stored credentials (`cli/mcp_auth.py`, `mcp_oauth.py`, `mcp_connections.py`, `mcp_credentials.py`) | keyring, credentials file, pending login | discover, register, log in, exchange, save, refresh, log out | a code goes to its issuer only; the stored token is a good one | yes, but the httpx provider |
| keys (`core/keys.py`) | key files | read, replace by a rename | | no |
| MCP configuration and its address checks, wizards, templates, skills | none | parsing, printing, file generation | | no |

### How they interact

All processes meet in the store: SDK instances, gateways, hook runs, the CLI
and the dashboard open the same database and the same mirror file and call the
same methods, each in its own thread and process, with its own clock. A gate
holds a policy in memory and stamps its digest on the requests it saves; the
store holds one *shared* policy that every retry is compared with as well. Hook
runs and the CLI also append to one audit log, and processes of the CLI share
one file of credentials. Within a gateway, requests are tasks of one event loop
that share one session per downstream server. No messages are exchanged between
the processes of dmint itself.

### What is hard

* an operation is several SQL statements; only some are one transaction;
* a retry is half a dozen steps (read the record, compare with the shared
  policy, with the gate's own, invalidate or consume, execute) and every other
  process runs between any two of them;
* a policy edit reaches the gates at different times, or only at a restart;
* the recovery counter lives in two files, and a process can die between the
  two writes; so can one between two renames of a log rotation, or in the
  middle of a line;
* clocks are read before locks are waited for, and a hook's clock is frozen;
* an answer of a downstream server may come after its request timed out;
* thread numbers, refresh tokens and session cookies are reused, spent or
  expired while somebody still holds them.

`PROJECT.json` lists these hazards at their lines with the property that
catches each.

## 2. The modules

    ApprovalRecord --EXTENDS--> RecordMachine              one record, any order of transitions
          |                          |
          |     Resources --EXTENDS--> PathMatcher
          |        |            |    |
          |    PolicyEval       |    |   Constraints   StoredRequest
          |        |            |    |        |             |
          |        +------- Decisions --------+-------------+          the sequential core
          |                  |      |
          |          MCDecisions  DecisionsProofs --INSTANCE--> Recursion
          |
          +--EXTENDS--> ApprovalStore -- MCApprovalStore
                          |  implements (TLC and TLAPS)
                          v
                 ApprovalLifecycle <--INSTANCE-- ApprovalGate -- MCApprovalGate

    RecoveryCounter, SqlRecoveryCounter                    the two files behind the store
    AuditLog -- MCAuditLog                                 the log all gates write
    McpGateway, McpRouting, CredentialStore, ThreadStores,
    WebhookDelivery, OAuthFlow, Dashboard, LoginLimiter -- Services -- MCServices   the services around the core

### The approval path

**ApprovalRecord** is the record and assertion classes as operators: one
`Can...` guard and one result per transition method, `WellFormed` for the
constructor's `_validate`, `Issued` and `Verifies` for the assertion. A
fingerprint is a model value, equal exactly when the bound requests are. A
signature cannot be forged in the model: credentials are only what the program
issued. `RecordMachine` drives one record with clock readings in any order; a result
that the constructor refuses is an exception, and no step.

**ApprovalStore** is the SQLite store, statement by statement. `call[s]` is the
operation instance *s* is in: `@_synchronized` allows one per instance.
`save_pending` is five steps (cleanup, deduplication, `get` of the duplicate,
quota, insert) since the code does not wrap them in a transaction; `approve`,
`reject` and the row part of `consume` are one step each since
`BEGIN IMMEDIATE` does. Methods read the clock at the call (`at`), the steps run
later. `Abort` is any exception or death between steps: what was committed
stays. The observation `uses` counts the consumptions that were *returned*, so
a crash between commit and return loses a use and never adds one; `served` keeps
which request was presented when an approval was returned. A caller may
present any assertion the program ever issued (`Credentials`), the stored ones
and those which the CLI and the dashboard re-issue from a granted record, and with
it any request.

**ApprovalLifecycle** is what the store promises: no approval leaves a final state,
and each is handed out for use at most once, after it was consumed.

**ApprovalGate** is written on top of that promise, one lifecycle step per store
operation, and models the three ways a call reaches it: `Dmint` (kind `sdk`, or
`local` for `Dmint.local`), the MCP gate (kind `mcp`) and the hooks. It has the
policy file, the shared policy, each gate's policy and digest (two fields that
`reload_policy` of an SDK or an MCP gate writes one after the other), and one retry step per read that a
policy change or another retry can overtake. `quiet` is an observation: the
workers under whom no policy changed since they began. It is needed to state
what a retry does owe: between the last comparison and the consumption the code
holds no lock, so a policy published in that gap is not applied, and a property
without `quiet` would be false for a reason the design accepts.

**RecoveryCounter** and **SqlRecoveryCounter** are the counter and its mirror in
the two stores. They differ in one thing, the order of the writes: the SQLite
store commits the counter under the flock and then writes the mirror; the
SQLAlchemy store writes the mirror first and releases the flock inside a
transaction that commits later.

### The sequential core

**Resources** cuts a text into the parts the functions of `core/resources.py` look at and
normalises and matches them as the code does, kind by kind. **PathMatcher** is the loop that
matches path segments with one remembered `**`, one action per branch of the loop.
**PolicyEval** loads a policy (inferring the kinds of resources), saves it as a mapping, reads
it back, also in the form an older version wrote, and evaluates a query in the two loops of
`evaluate`: one that checks the kinds and stops at the first problem, one that collects
effects. The gate's policy and the store's snapshot are both evaluated. **Constraints** accepts
schemas and regular expressions and checks arguments. A schema is edited one keyword at a time.
A regular expression is a text: `Parsed` reads it character by character into the tree that is
checked, with groups, classes, escapes and lazy quantifiers, as the parser of the code does.
**StoredRequest** canonicalises a request, binds it, writes the row of it under some key and
epoch, lets somebody else change the row, and reads it; digests and MACs are the tuples of what
goes into them.

### The services

**McpGateway** is one gateway, one downstream server and several requests in one event loop;
what lies between two awaits is one action. The server answers late, in any order or never,
writes lines that are no answers, stops, and declares its tool anew; the policy is reloaded
meanwhile. **McpRouting** is the other half of a request: which agent a token stands for, which
tool of which integration a name stands for, where the approval is taken from, and what is
decided on. **CredentialStore** has several processes log in, refresh and log out; a save tries
the keyring and falls back to a file that is read, changed and replaced under a lock. A refresh
is the sending, the rotation at the authorization server, the receipt and the saving, and can
time out, before or after the rotation, be answered with what cannot be read, or find no way to
save. **ThreadStores** has threads that start, end and get the number of an ended one.
**WebhookDelivery** sends one notice through validation, name resolution and post for each
platform. **OAuthFlow** is one login against servers that answer anything; a callback whose
answer cannot be sent is overwritten by the next. **Dashboard** has browsers with sessions and
decisions about one approval; the middleware of a request is one action and its handler, which
runs in a thread, another; whether the limiter lets a login through is left open.
**LoginLimiter** is that limiter, called by logins in several threads: a call reads the clock
and what is stale, drops stale lists one by one, reads a list and writes it back, and other
calls come between.

**AuditLog** is `append_audit_entry` step by step under its flock: the size check, one rename
at a time, the reading of the last line, the write. `Crash` is possible between any two,
`ShiftFails` is the rename error the code ignores, `WriteTorn` cuts a line, `ReadFails` is any
error while the end is read, `Clear` is `dmint logs --clear`, which takes no lock, and `Follow`
and `Poll` are `dmint logs --follow`, which lists the last `--limit` entries and then polls for
higher numbers. An entry's hash is its event, so a line says which entry it follows and nothing
else.

**Suites.** Decisions and Services put independent parts into one specification, which
one run checks: the variable `part` says which component a behaviour is about; it
never changes, and the variables of the other parts stay as they are. MCDecisions
and MCServices give the constants their values. A property of a suite is the
component's own formula under `part = "..."`; for an action property it is
`[][part = "..." => M!Action]_suite`. Nothing is composed by this: the parts share
no state in the code either.

**Recursion.** What recurs over data in the code (canonical forms, redaction, schemas,
path patterns) is a recursive function here, over a constant set
that has the parts of each of its members. The instance names the members of that set, and
an assumption of Decisions that each is finitely deep. Recursion is what the proofs need
to use such a definition, and models no code.

Every definition that translates code is mapped to its lines in `PROJECT.json`.
Definitions commented "Mutant of X" are plausible bugs of that code; each
property is shown to be violated when the named one replaces X, so none of them
is satisfied by the shape of the model alone.

## 3. The runs

| run | instance | what it shows |
|---|---|---|
| `store_race` | 2 instances, one with a frozen clock, 2 approvals, 2 requests, 2 policies, TTL 2, clock 0..2 | `SingleUse`, `UsedOnlyAsApproved`, `AssertionsMatchRows`, `RowsMoveForward`, and `ImplementsLifecycle`: whatever statements interleave or fail and whatever is presented, an approval is used once, for the request and policy it was given for |
| `store_quota` | 2 instances, 4 approvals, 2 requests, quota 2, TTL 1 | `QuotaOvershootBounded`: at most one request too many per other instance; `DuplicatesBounded`: an identical request is pending at most twice |
| `recovery` | 2 instances, 2 approvals, crashes, a backup and its restore | `NoFalseAlarm`, `SingleUseAcrossRestores`, `ForgottenUseIsNoticed`, `PassedCheckLeavesMirrorEqual` |
| `sql_recovery` | the same for the SQLAlchemy store | `SingleUseAcrossRestores` holds there too; `CounterCountsConsumptions` |
| `gates` | one gate of each kind in turn: 2 threads of an SDK gate with 1 approval and 2 requests, of which the second policy denies one; 2 clients of an MCP gateway with 2 approvals; a `Dmint.local` gate and a hook | `ExecutedAtMostOnce`; `ConsumedUnderCurrentPolicy`: an approval is spent only under the policies in force; `InvalidatedForAReason` |
| `audit` | 2 writers, 6 events, files of 2 lines, 2 backups, 2 faults, a follower with `--limit 1` | `ChainsVerify`: only four named incidents break a chain; `ValidMeansComplete`: what verifies has every finished append; `RetainedIsSuffix`: rotation forgets the oldest first; `FollowerSeesAll` |
| `decisions` | policies of up to 3 of 8 rules and 7 requests; patterns and paths of up to 4 segments; one record with clock readings and TTL up to 3; schemas after up to 4 edits; texts of regular expressions, see below; rows of stores with different keys, epochs and redaction | `DecisionIsOrderFree`, `MatcherAgrees`, `ConsumedOnlyThroughApproval`, `EditsOnlyRestrict`, `AcceptedPatternsStayFlat`, `ReadsWhatWasSaved`, `PartsTypeOK` |
| `services` | 2 requests on one session with one change; 32 gateway configurations; 2 processes, 2 servers, 3 tokens, 1 fault; 3 threads with 2 numbers, 4 stores; texts of up to 4 pieces; 1 OAuth login; 2 browsers of one address, clock 0..3, 2 failed logins in a window of 2 | `AnswerIsOwn`, `CallsReachTheirTool`, `StoredTokenIsGood`, `OthersKept`, `EachThreadItsStore`, `NoticesStayInBounds`, `RequestsStayOutside`, `CodesGoToTheirIssuer`, `SessionsGuardDecisions`, `FailuresAreLimited` |

Four more runs end in a violation, see below.

**Bounds.** Two instances are enough for every race in the store, since each
guarded statement concerns one row and two callers; the third instance that
changes one result is named in the comment of `DuplicatesBounded`, which is
therefore only claimed for two. With a TTL of 2 and a clock of 0..2 a request
can be decided in time, late by one reading, and expire between any two steps.
`store_quota` leaves consumption out (`SaveSpec`) because quota and
deduplication count pending rows only. Two policies are the old and the new
one; a third adds nothing to a comparison of two digests. The second approval
lets a retry present the wrong one. In `store_race` two requests under two policies
let a retry present a request that its approval is not for. `RaceBound` leaves out what
only multiplies states: a request is saved under its own policy; a credential of
another approval, or one that is not stored, is presented by the frozen instance, and the
wrong request by the other one. The proofs have no such bound. The clock (`MaxTime`) and the number
of approval ids are the only bounds of the store that cut behaviours off: an id is
used for one request, and a store without a free id inserts no more. Counters and
versions follow from those two.

Two lines to a file and two backups make the log rotate twice, so that an entry is renamed,
renamed again and deleted, with one writer in the renames while the other waits; one event
(`e2`) outgrows the window the logger reads back and one (`e6`) is below the minimum level. The
constraint `InOrder` lets events begin in the order of their names: otherwise all orders of
distinct events are explored, of which only kinds, and whether the line is oversized, matter.
Two faults are two of a torn line, a failed reading and a deletion. With `--limit 1` the
listing leaves out one of two lines. Three rules are what it takes for a rule of each effect to
be before, between and after the others; four segments are two `**` with something between and
after them, the least where forgetting the first could be wrong. One change of a declaration or
of a policy while two requests wait is the one that a verified schema could be stale after.
Three threads on two numbers are the least where a number is given again while another thread
runs. Two failed logins, a window of two readings and a clock to 3 let a list become stale, be
read, dropped and written back by two calls in any order. The regular expressions are all texts
of up to three of nine characters, alone and inside groups that are repeated, not repeated, or
look like a class, and all lists of up to four repeats; schemas get up to four keywords, types
and fields at the top and in a number, a list and an object.

**Symmetry** is used for approval ids, for fingerprints (in `store_race` together with
their policies), and in `services` for browsers and for processes: ids are random or hashed
and never compared by order, and the browsers share an address. No run with symmetry checks liveness.

**Deadlock** is checked in the runs of the store, of the counters and of the
gates. In `audit`, `decisions` and `services` the input runs out: all events were
reported, a pattern is matched, a record is in a final state, the gateway closed.

**Fairness.** `AuditLog!FairSpec` is weakly fair to `Poll`: `dmint logs --follow`
reads the log in a loop as long as it runs and waits for nothing. It says nothing
of writers, which may die or never write. `FollowerSeesAll` follows from it: each
entry that comes into the log after the listing is shown, or rotated or cleared away first,
except one that starts over below the number the follower saw last (`stale`). No other
specification assumes fairness, since no other part of the code promises progress:
an approval waits for a human, a retry for the agent, a request has a timeout, a
notice is posted once, a failed login or refresh is not tried again.

### Where the code and its documents disagree

Each of these runs checks one property that states what the document or the
error message says, and finds it violated.

* `recovery_claim`: only consumptions advance the counter, so a copy from before
  a *rejection* can be put back unnoticed. CODEBASE_OVERVIEW.md says a rollback of
  the database alone is detected.
* `sql_recovery_alarm`: since the SQLAlchemy store writes the mirror before the
  commit, a reader in between reports a rollback that did not happen, and after
  a crash there every reader does.
* `gate_stale`: `sync_authoritative_policy` replaces the shared policy only by one
  with the same digest. A gateway restarted after a policy edit stamps the new
  digest and compares with the old one: every approval is invalidated, and the
  advice of docs/reference/errors.mdx, to ask again, meets the same end.
* `gate_mismatch`: `Dmint.retry` evaluates the policy on the *presented* request
  before comparing it with the approved one; presenting a denied request with a
  valid assertion destroys the approval of another, permitted one. The MCP gate
  compares first.

Others appear in the models as a condition of a property or a named case, at
the place in the code given here:

* Audit log. An entry longer than the 16 KB that are read back (core/audit.py:226)
  starts a new chain, and so does an append that meets `dmint logs --clear`, which
  takes no lock (cli/logs.py:187), or any error while the end of the file is read
  (core/audit.py:233); verification then fails although nobody touched
  an entry (docs/operations/production-proof.mdx:69). The follower's
  last number is not reset when the log is rotated (cli/logs.py:312), and it then
  skips the entries that are numbered no higher ("in real time", cli/logs.py:129).
  `FollowerSeesAll` excepts these and says that it skips no others.
* Policies. A rule of kind `exact` whose resource is `*` or missing loses the kind in
  the stored snapshot. A pinned schema hash is taken from the first rule that has one
  (core/policy.py:365), so there the order in the file does matter
  (docs/concepts/policies.mdx:95).
* Resources. A host-only URL rule that spells the default port never matches, since the
  request's port is stripped; the hosts of rules are not turned into punycode
  (docs/concepts/resources.mdx:60); patterns are not normalised for dot segments.
* Constraints. `additionalProperties: false` of a nested object is only looked at when
  `properties` or `required` is there too (core/constraints.py:705). Next to a `minimum`
  an `exclusiveMinimum` is left out of the check that the bounds are in order
  (core/constraints.py:490). Three edits loosen a schema (`Loosens`): once an object is
  looked into and closed, by its keyword or by strict arguments, to declare a field more or
  to say `additionalProperties: true`; and to give a bound without a type, which only
  numbers pass, another type. `((a|b))*` and `a*xb*y?` pass the pattern check, which
  promises no alternation inside repeats and no other quantifier next to several
  unbounded ones (core/constraints.py:275, 279): it looks for alternatives in the group
  that is repeated and no deeper. The parser strips `(?x)` and reads on, where `re` leaves out
  blanks and comments: `(?x)(a+#[\n)+#])`, with a line feed for the `\n`, is accepted and
  compiles to `(a+)+`, against "no nested repeats" (core/constraints.py:278).
  `AcceptedPatternsStayFlat` therefore speaks of texts without flags at the start.
* Rows. A record with redacted arguments, or with a whole float from 2^53 up to 1e21, is
  saved and reported as corrupt when read. (From 1e21 on a float is written with an
  exponent and reads back as a float; `ReadsWhatWasSaved` speaks of neither.)
* Gateway. Two names are ambiguous: a tool that is listed without a binding, and a
  tool whose own name starts with an integration's id. After the downstream process
  died there is no reconnection. A line that is no JSON fails whichever request is
  waiting. A retry reads the pin before its first await and the policy after it.
* Credentials. `clear` leaves what only the keyring has; a login that falls back to
  the file leaves the older keyring record, which is read first; failures of the
  keyring are ignored when deleting. A refresh spends the refresh token before its answer
  is read and saved (cli/mcp_credentials.py:545): when the answer is late, too long or
  unreadable, or cannot be saved, the stored token is a spent one. `StoredTokenIsGood`
  therefore excepts a server from such a fault to the next save of a token for it that no other
  process is in the way of.
* Threads. After `close()` a thread that used the store goes on with its closed
  instance and fails, and so does the next thread with its number.
* Login. It blocks the event loop, so the discovery that waits for it may time out although
  the tokens were saved; they are saved twice (cli/mcp_oauth.py:811,
  cli/mcp_connections.py:536).
* Dashboard. The limiter takes no lock though its handlers run in threads
  (dashboard/auth.py:118): failures that are recorded side by side, or next to a check,
  are written over, or end in an error when the table changes under the iteration, and so more
  logins than `max_attempts` and the clients can fail in one window. What is sure, and is what
  `FailuresAreLimited` says, is that failures recorded by calls that overlap no other
  are counted, whatever other calls write over each other before and after.

## 4. The proofs

Each theorem holds for every value of the constants that satisfies the named
assumptions of its modules, which TLC evaluates in the runs. They say what the code
makes true of its data, not how much of it there is: that values with different
meanings differ (`NoneAssumption`, `GatewayAssumption`), that policies, patterns and
texts are lists and rules have their fields (`PolicyAssumption`, `PathsAssumption`,
`PostsAssumption`), that limits are numbers (`RecordAssumption`, `BoardAssumption`), and that
the instances, the integrations of a gateway and the browsers, which are counted, are
finitely many.

* **ApprovalStoreProofs.** `TypeCorrect`: the type invariant with one addition,
  `TypeInv`, that says which fields of a call are set in which phase. `SingleUseHolds`:
  the invariant `UseInv` says that an approval has been returned once, or one
  instance is between commit and return with it, or neither; in the first two
  cases its row is CONSUMED, and in each case at most one of them is true.
  `SingleUse` alone is not inductive: it does not know who is about to return.
  `StoreImplementsLifecycle`: with `life` mapped to the row states, each statement is
  a lifecycle step or a stutter; `UseInv` supplies the guard of `Use`.
  `RowsOnlyMoveForward`: the action property, one step per
  action, from `TypeInv`. `TablesAgree` and `ExecutionsWereApproved` rest on
  `GrantInv`: a granted row has its times in order (`RowInv`), a call in progress
  was begun on a row that existed, or with a credential of a granted one
  (`CallInv`), and the assertions match the rows. Two lemmas carry it across the
  steps of others: a granted row stays granted with the decision it has
  (`GrantedStays`), and a row once inserted is never inserted again
  (`BornStays`). `ClockInv` says that no call was begun in the future, which is what
  the frozen clock of a hook leaves of time. `ServedInv` adds what was presented: an
  instance between commit and return presented the request of the row, and so did the one use
  that was returned; `ClaimOrigins` shows that only the comparison in `Consume` brings an
  instance there.
  `QuotaHolds`, for any finite number of stores over one table. The bound alone is
  not inductive: an instance that has counted and is about to insert holds a place that
  no row shows yet. `QuotaInv` counts the live pending rows of a principal and the
  instances about to insert for it together; a count that permits an insert saw less
  than the quota, and at most every other instance can be about to insert then. It
  also says that counts are made at past readings of the clock, so that what was live
  at the count can only have become less, and that the rows are finitely many.
  `DuplicatesAreBounded`, for one and two stores, as the property says (with three it
  is false). `DupInv` counts the live rows of a request and the stores that go on to
  insert it as `Taken` places, no more than there are stores. A store can come to that
  in two ways: it finds nothing, and then nothing is live; or the row it found is
  deleted before it is read, by the cleanup of the other. So while a store finds a
  row, `DupInv` leaves a place without that row, and the third clause speaks of the
  case where the finder's clock is frozen and its row has expired for the other one
  alone. A lemma for each kind of step keeps it: `DupBegin`, `DupMiss`, `DupInsert`,
  `DupDelete`, and `DupFrame` for the others.
* **RecoveryCounterProofs.** `AlarmsAreTrue`, `SingleUseSurvivesRestores`,
  `ForgottenUsesAreNoticed`, `ChecksRepairTheMirror`, all from one invariant `Inv`: the
  flock has the owner that is between `Lock` and release (`LockInv`); what the
  owner read is still true (`SeenInv`); the mirror is ahead only after a restore
  (`MirrorInv`); two consumers never hold the same approval, and what they hold is
  unused or already forgotten (`ConsumeInv`); the copy is behind the mirror by
  every use it does not contain (`BackupInv`). The last one is the heart: it is
  what makes a restore visible. `CounterTypesHold` is the type invariant.
* **SqlRecoveryProofs.** `SqlTypeCorrect`, `SqlSingleUseSurvivesRestores`,
  `SqlCounterCounts`. Here the mirror is written first, so the invariant is another:
  `LocksHeld` (the flock covers reading to mirroring, the write lock every change up
  to the commit), `Pending` (what an open transaction will commit), `Counted` (a
  database and the copy count their consumed rows), and `Noticed`: a use that a
  database has forgotten leaves its counter behind the mirror. The mirror is never
  behind a committed counter, so the repair of `Agree` writes what is already there.
  That is also why no theorem says `NoFalseAlarm` of this store.
* **ApprovalGateProofs.** `GateTypeCorrect`, and `GateExecutesAtMostOnce`: `RunInv` counts
  executions against handed out uses and says that a worker about to execute
  is the only one with that approval.
  `SpentUnderCurrentPolicy` and `DestroyedForAReason`. `Place`
  says which phases threads and hooks can be in, that a thread in a call has a gate
  that is up, and that the row it works on was inserted, so that nobody changes what
  the row binds. `Known` says phase by phase what a quiet worker has learnt and is still
  true: after the first comparison that the shared policy agrees, after the second
  that its own does too, before an invalidation that one of them found a fault, and
  in a hook that the shared policy is the one it published. Who changes a policy
  takes every other worker concerned out of `quiet` in the same step; that is
  what `GroundKept` asks of the steps of others.
* **AuditLogProofs.** `ChainsAlwaysVerify` and `ValidLogsAreComplete`, for any number of
  writers, events and backups. The invariant says that whoever is at work holds the
  flock (`OneWriter`), that while nothing but a clearing happened, who is about to
  write has read the end the file still has (`Linked`), and that an append is
  missing from the active file only behind a line that is no entry (`Kept`), which
  makes verification fail. `AppendVerifies` is the lemma that the chain goes on.
  `Typed` has the types of what the chain depends on, which the follower's variables are
  not among.
  `RotationForgetsOldestFirst`: while no line was cut and no file removed, each file
  holds an interval of what was written, and each ends where the next newer one
  starts (`Continues`). During a rotation that is true after every single rename
  because the file that is next to be renamed always has room to go (`Room`).
* **DecisionsProofs.** `DecisionsAreOrderFree`, for policies of any
  length. `LoopInv` says what each loop has found up to its index, `OriginInv` that the
  policy under evaluation is the gate's or what was loaded from the snapshot. The
  lemma `LoadsWhatItSaved` is about the conversions: loading the saved form of a
  loaded policy gives it back, unless a rule says `exact` of what is no text.
  `PathsAreMatched`: for lists of any length the matcher's loop answers what the patterns
  mean, in at most (n + 1)(m + 1) iterations. What patterns mean is a recursive
  function, `Starts`; `StartsRecursion` proves that its equations have a solution, by
  giving one that is not recursive (the ways to lay the patterns over the segments). `SearchInv`
  says that the input is covered if the current positions lead to a match or a longer
  stretch of the last `**` does. Forgetting an older `**` is safe by `StretchInv`: what a
  longer stretch of it would match, the new `**` can match as well, since it stands
  as many patterns further on as segments were eaten. `StepsInv` is the bound: each
  longer stretch costs at most one pass over the patterns.
  `ConsumptionNeedsApproval`, for any lifetimes and
  any clock readings in any order: `RecordInv` says that a pending or an approved
  record has come there by one way only.
  `StoredRequestsComeBack`, for values of any depth and any stores: `RowsInv` says that what a
  store wrote has its key's checksum and is of the request, and that the row in the table has a
  checksum that was written before, or one without a key; so the payload of a row that a store
  accepts is one that such a store wrote. That the request can be read from it
  is about the conversions: a value that is written and read back has the same text
  (`TextOfBack`), holds what it held at the same depths (`InsideBack`), is therefore
  accepted again unless a float was too large for an int (`BackIsCanonical`), and redaction
  leaves a value without sensitive keys alone (`RedactedSame`).
  `EditsRestrict`, for any specs and values: `LimitsInv` says that the three properties keep
  the form the edits give them, from which it is known which values a spec looks at. An edit
  that is none of `Loosens` only takes away values of a number (`NumbersNarrow`), an array
  (`ArraysNarrow`) or an object (`ObjectsNarrow`, which goes into the nested mapping), and what
  restricts a property restricts the schema (`NarrowedRestricts`).
  `PartsKeepTheirTypes` follows from the invariants of the five parts together.
* **Recursion.** These proofs are about data of any depth, and the library's induction theorems
  take an operator as a parameter, which the provers cannot instantiate. Recursion says the two
  things that are needed without one. `RecursionHolds`: if a result is computed from those for
  members of smaller rank, the recursive equation has a solution, and the function that is
  defined by it satisfies it. `LeastRank`: a set of counterexamples that is not empty has one
  of smallest rank, so whatever is nested in that one is none. Each recursive function of
  StoredRequest and Constraints that a theorem rests on instantiates the module with its step.
* **ServicesProofs**, each from an invariant of its part. `AnswersStayOwn`, for any number of
  requests over one session. The session's part of `GatewayInv` says that ids are used once and
  that the request with the id a task waits for is that task's (`IdsAreOnce`, `AnswersAreOwn`),
  also when the answer is in the stream and the task has given up; `CallsAreOnce` that a call
  waits, is on its way or was executed, and only one of these. `CallsAreRuled` is about the
  awaits: while a request waits, the policy it was decided under is one that was in force since
  it came in, with the pin that was read before the first await and the declaration that was
  listed for it. `CallsArrive`: what a name comes to depends on the configuration alone.
  `LoadedTokenIsGood` and `OtherRecordsAreKept`: `CredInv` says that a token on its way into
  the store is good, is in nobody else's hands, and was not sent by a client that gave up
  (`TokensInOrder`), that of a server with no fault open a bad token is loaded only while a
  good one is about to replace it (`LoadsGood`), and that no save overlaps a quiet logout
  (`LogoutsInOrder`). `StoresHaveTheirThread`: `ThreadInv` says of a store in a thread's hands
  that no other thread has it in its own local, uses it, or finds it under its number.
  `NoticesAreInBounds`: a platform's turn is over when its post is sent. `LoginsStayOutside`
  and `CodesReachTheirIssuer`: from the metadata on, the steps of a login go by what the
  expected issuer answered. `DecisionsNeedASession`: the bound of the session table counts the
  logins between the check and the entry as entries (`TableHolds`), as `QuotaInv` does.
  `LoginsAreLimited`: `LimiterInv` says that a failure in the window that a call recorded alone
  is in the list of its address and in every list that a call has read since (`ListsHaveThem`,
  `CallsHaveThem`), so that nobody writes it away; that it is in no list a call takes for
  stale, since such lists end in a failure that is out of the window and failures are in the
  order of the clock; and `CountHolds` counts the logins past the check as failures.

Only model-checked are `FollowerSeesAll`, since the prover does not handle liveness under
fairness, `AcceptedPatternsStayFlat`, since what the parser makes of a text is a recursion over
the text, and what the four runs of section 3 find violated. Every other invariant and action
property of a run is a theorem. The assumptions on nested data are evaluated by TLC for the
instance of `decisions`; in the code they hold since arguments, specs and patterns are finite
trees, made by the parsers of JSON and YAML.

## 5. What is not modelled

* `save_approved` of the stores: only the tests call it.
* The SQLAlchemy store's transactions on rows, and PostgreSQL's isolation.
* Encodings, checksums, signatures, text validation, schema set-up of the
  database: the record is its fields, and a forged credential is not a behaviour.
  StoredRequest is the one place where a row is changed by somebody else.
* The mirror file being deleted or edited by hand, and more than one backup: two
  branches of one history can reach the same counter, which no counter can tell.
* In `ApprovalGate`: expiry of approvals is a look-up that finds none, or the
  failure `Fail` of a retry; digests are equal exactly when policies are, so the
  repair `sync_authoritative_policy` makes for the same digest changes nothing.
* `Dmint.authorize` and `execute` with their argument snapshots; the parsing of hook
  payloads and the resources taken from them; `Policy.from_url`.
* In `McpGateway`: two downstream servers share nothing but the event loop, and one
  is modelled. Streamable HTTP answers each request on its own response, which is
  less than the one stream modelled here allows.
* Keys: files read at start and replaced by a rename from the command line.
* The address checks of MCP configurations, log redaction, wizards, templates, skills and the
  read-only pages of the dashboard: no state shared with the approval path.
* In `Constraints`: the length of a pattern, flags at its start, the spelling of bounded
  counts, which are all `{64}`, of `+`, which is `*` here, and of `$`, which is `^`; what only
  `re` refuses.
* `create_oauth_client_provider`, whose protocol steps are a library's.

## 6. Plan

Done: the record, the SQLite store and its counter, the lifecycle, the gates, the
SQLAlchemy counter, the audit log, the sequential core, the services, and the
theorems above. Next, in this order:

1. `SqlStore`: the SQLAlchemy store's operations as transactions, on SQLite and
   with PostgreSQL's isolation; it implements `ApprovalLifecycle` too.
2. authorize and execute with their argument snapshots in the SDK.
3. The resources a hook takes from a harness payload, patches included.
4. Key files: two writers and a reader of one file.

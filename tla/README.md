# Verification of ChatGPT Codex Tools

TLA+ models of the parts of this repository in which order, failure and
concurrency matter, or in which text is edited without being parsed; TLC runs on
small instances; and TLAPS proofs for every instance.

## 1. The system

One Go program (package main, flat directory) in two roles. The **manager**
shows a web UI and serves its commands over HTTP, each command in a goroutine of
its own. The **launcher** starts ChatGPT/Codex with a debugging port, serves the
injected pages and relays their requests, and lives as long as the application.
ChatGPT and Codex are foreign programs that read and write the same files.
Manager, launcher and application share nothing but the file system, a few
loopback ports and the CDP connection.

| component | state | operations | what is hard | correctness |
|---|---|---|---|---|
| maintenance locks (`repair.go`, `loopback_guard.go`) | lock directory with owner.json; flock + port | acquire, judge stale, take over, release | a crash leaves the directory; takeover is several system calls | one mutator; a crash never blocks for good |
| provider sync (`repair.go`) | session files, databases, global state, backups | survey, backup, apply, roll back, prune | writers take no lock; every step may fail; survey and writes are different code | all or nothing, or said to be partial; nothing a writer wrote is lost; the survey is exact |
| history repair (`conversation_history_repair.go`) | session files, backup with metadata, one task | scan, back up, replace, roll back; start, poll, cancel, shut down | cancel and writers at every step; stale task callbacks | every replaced file is backed up; the outcome names what is on disk |
| session deletion and undo (`session_actions.go`) | rows of several databases, files, global state, backup, in-flight set | delete, undo, move workspace | several stores, no common transaction, no lock | what is reported deleted can be restored |
| session lists and index (`local_sessions.go`, `session_index_cleanup.go`) | session_index.jsonl, tables | pages; preview, apply | preview is stale when applied; a page is cut from many tables | only what was confirmed is removed; no session skipped |
| launcher (`launcher.go`) | single-instance guard, restart lock, latest-status.json | start, restart, recover, reap | two starts or restarts at once; a half-started application | one instance; the status settles |
| relay switch (`relay.go`, `settings.go`) | config.toml, auth.json, model catalog, settings.json | switch, save, clear, capture, restore | three files, a failing step; settings shared by processes | all of a switch or nothing; no lost login |
| configuration files and contexts (`toml.go`, `context_config.go`, `manager_context.go`, ...) | config.toml, common configuration, pool of tools | switch, repair, save, delete, copy, extract | headers spelled in several ways; edits never parse | valid TOML; every edit changes what it says and nothing else |
| settings store (`settings.go`) | settings.json, settings.json.tmp | load with migration, save | no lock, one temporary file for all | a whole file stays whole; unknown keys stay |
| relay proxy (`helper.go`, `relay_rotation.go`) | selector under a mutex, cached settings | select, fail over, record an event | concurrent failures, old snapshots of the settings | every member asked before giving up; fair turns |
| protocol proxy (`protocol_proxy.go`, `protocol_tools.go`) | state of one stream | convert chunks, history, tools and patches | order and completion of events, colliding names | well-formed events, one final event, same items as unstreamed |
| bridge (`bridge.go`) | CDP session, pending calls, installed scripts | inject, watch, send, reconnect | late answers, closed connections, reloaded pages | every command gets its own answer or none; the bridge comes back |
| remote control recovery (`remote_control_recovery.go`) | pending queue on disk | enqueue, run at start | catalog step fails after the rewrite | nothing pending is lost |
| official realtime (`official_realtime.go`) | denial in memory and on disk | find login, probe, forward | late denials, restarts, other logins | a denial hits the login it was about |
| skill and MCP backup (`skill_mcp_backup.go`) | backup directories | create, restore, delete | restore replaces directory by directory | a failed restore can be undone |
| mobile control (`mobile_control.go`) | host, sessions, app server | - | called from nowhere in this commit | - |
| updates (`updates.go`) | downloaded installer | compare versions, select asset, install | - | never a downgrade |
| others (Zed registry, scripts, diagnostics, computer use, vision, worktrees, plugins, desktop integration) | little of their own | one-off commands | mostly I/O and formatting | |

They interact through files and locks: provider sync, history repair, index
cleanup, relay switches and manual configuration saves all take the maintenance
locks; the launcher holds one of them for life, so manager maintenance and a
running launcher exclude each other. A relay switch runs a provider sync inside
its own lock. The launcher runs pending recoveries, then a provider sync, before
it starts the application. Deletions, undos and moves of sessions, and the saves
of settings.json, take no lock at all.

## 2. The modules

Each component module has its constants with a named assumption, its variables,
an initial predicate, one action per step of the code, and its properties; an
`MC...` module gives the constants values for TLC and a `...Proofs` module holds
the theorems, those of several smaller components together. `DataLemmas` has
what the proofs need to know of sets of naturals and of concatenation.
Definitions prefixed by a comment "Mutant of ..." are plausible bugs of the
definition that follows: put in its place, each makes one property fail.

| module | models | uses |
|---|---|---|
| `MaintenanceLock` | the lock directory and the launcher guard | |
| `AtomicSync` | abstract: what a provider sync promises | |
| `ProviderSync` | one sync after another, step by step | implements `AtomicSync`; assumes the exclusion `MaintenanceLock` proves |
| `CatalogSync` | what a sync surveys and writes: metadata lines, rows, workspaces | a whole sync is one step, its order is `ProviderSync` |
| `HistoryRepair` | the task of the conversation history repair | |
| `RemoveObjectKey` | the textual cut of a JSON member | |
| `Launcher` | launchers, their manager requests, ports, status | takes the guard of `MaintenanceLock` in one step |
| `RelaySwitch` | switches of the provider, logins | the lock and the sync are single steps |
| `TomlText` | the line edits of config.toml, and what TOML says a document means | |
| `CodexConfig` | the documents config.toml is made of, and every edit of it | `TomlText` |
| `SettingsStore` | settings.json and its temporary file, any number of writers | |
| `SessionData` | deletion, undo and moves of a session | |
| `SessionIndex` | the cleaning of session_index.jsonl | |
| `LocalSessions` | the paged list over several tables | |
| `RecoveryQueue` | the recovery of Remote Control threads and its queue | |
| `RelayProxy` | requests over the shared rotation | |
| `ChatStream` | a chat answer, streamed and whole, as Responses events | |
| `ChatInput` | the history as chat messages | |
| `ToolNames` | tools offered and calls turned back | |
| `PatchText` | patches as calls and calls as patches | |
| `CdpSession` | one debugger connection | |
| `BridgeWatch` | installing the bridge, and the watchdog | |
| `SkillBackup` | backups of skills, plugins and marketplaces | |
| `OfficialRealtime` | logins of official voice and their denials | |

The modules are composed by assumption and guarantee: `MaintenanceLock` proves
that one operation mutates the history at a time and a launcher holds the guard
for life, and those that run under these locks are written for one mutator. What
is not behind them - ChatGPT/Codex, the user, other launchers, a crash - is in
each module's own next-state relation. `MCTexts`, `MCFiles`, `MCNet`,
`MCSessionData` and `MCLauncher` put machines side by side that share no state: a behaviour chooses
one (`part`) and runs only it, so the states are the sum of the machines' and
every property is checked of each as if alone.

### MaintenanceLock (`repair.go:877-936, 1029-1090`, `loopback_guard.go`)

State: `pc` of each operation, the directory (`maker`, and `aged` when it is
older than two minutes), `owner` (the pid in owner.json), the flock of the
launcher `guard`, and the `dead` processes. Each system call on the directory is
a step: Mkdir, the read of owner.json, Stat, unlink, rmdir, Mkdir again, the
write of owner.json. A manager operation takes the directory first and the guard
second and gives them back in reverse; a launcher holds the guard and takes the
directory for its sync. The flock and the bound port count as one lock that the
system frees on a crash.

### ProviderSync (`repair.go:750-1027, 1092-1214, 1398-1791, 1868-2079, 2387-2523`)

A store is a session file, a database or the global state. `value` is what a
sync changes in it, `rev` counts the writes of ChatGPT/Codex it contains and
`wrote` those that were made. `Begin` ... `DBsDone` are the phases of
`runProviderSyncLocked` in order, with the four writer checks between them;
`Rollback` ... `UndoDone` the way back, where databases and global state are
restored from snapshots and session files are rewritten from a fresh read. Any
step with I/O may fail (`Fault`), writers come and go between steps, and the
process may die at any point. `guest` says how the run has met the writers: one
found by two checks is one setback. Session files are not rolled back while a
writer runs (repair.go:995-998), so a single writer that starts before the third
check and stays leaves the history partial; `OneSetbackIsUndone` says that any
single setback that passes is undone, and names that writer as the exception
(`guest` = "again"). Three constants switch circumstances on that the
code cannot withstand, so that each property is stated where it holds:
`RaceWindow` (a write between the last Stat and the rename), `CountMayFail` (a
database unreadable when it is counted), `ClockMayStepBack` (older backups with
later names, repair.go:2516). `AtomicSync` is the promise to the caller: all
stores moved, none touched, or "partial" said; the mapping shows the stores as
they were before the run until it ends.

### CatalogSync (`repair.go:786-874, 1092-1396, 1694-1755, 1873-2186, 2301-2491`)

`home` has the rollout files as sequences of lines, the rows of the threads, and
the workspace roots. `SyncHome` is one sync: `UpToDate` computes the survey with
the functions the code surveys with (`Changes`, `RowUpdates`, `GlobalUpdates`),
`Applied` the writes with those it writes with (`RewriteMetaLines`, `UpdatedRow`,
`InsertedRow`, `NormalizedGlobalState`). A path is a directory and a form of
spelling, since the code compares cleaned paths and writes others. Between syncs
the application adds lines, rows and roots and starts anew. `SurveyIsExact`: if
every thread has one file, the survey finds nothing exactly when a write would
change nothing, and after a sync nothing is left to do; with several files of a
thread, after two. A file without metadata within the window counts as a change
that says nothing (`NoChange`), so a change's place is its file's.
The label keys, missing columns, and a metadata line longer than the first window
(an error, for which the whole sync is skipped) are not modelled.

### HistoryRepair (`conversation_history_repair.go:100-1180`) and RemoveObjectKey (`1181-1334`)

`status`, `cancelled` and `pc` are the task, its context and its goroutine;
`found`, `todo`, `applied` and `lost` the plan, `backup` and `meta` what is on
disk in the backup directory. A cancel sets the state first and is delivered to
the context later (`Deliver`), as in the code. `RemoveObjectKey` cuts the first
matching member from a sequence of tokens with the comma that belongs to it,
until there is none.

### Launcher (`launcher.go`, `manager.go:1817-1928`) and BridgeWatch (`bridge.go:459-660, 668-900`)

`pc` follows `runLauncher`; `guard`, `rlock` and `ports` are what the system
frees when a launcher is killed; `app` is who started the running ChatGPT,
`latest` the status file that launchers and managers write, `waiting` the
managers that poll it, and `accepting` those that have waited in vain and are
about to write one themselves: `ManagerGivesUp` (manager.go:1908) and
`ManagerAccepts` (1851) are two steps, between which a launcher may report. Waits
with a deadline are a step that succeeds and a step `GiveUp`. The platform `os`
is chosen at the start: the restart lock exists on Windows only.

`BridgeWatch` is the goroutine that installs the bridge and then asks the page
every tick to call back: `page`, `bridge` and `injected` are the page's side,
`sessions` the debugger sessions that finished installations left open,
`session` the one under way. A page may be closed, loaded anew or slow, and
sessions end, `MaxTroubles` times. An installation leaves the sessions of earlier
ones open (a call of the page then reaches a handler in each), and a reset of the
page's script starts its call ids anew, so that a late answer to an old call may
resolve a new one.

### RelaySwitch (`relay.go`, `settings.go`, the switch in `web/src/App.tsx`)

The live files are `named` (the catalog config.toml names), `approvals`
(hooks.state), `auth` and `catalogs`; `disk` is settings.json, `form` what the
page holds, `next` what it is about to save, `saved` the files captured before
writing. A switch is `Choose` (with the backfill), `SaveChoice`, `Prepare` (the
snapshot completed and stored), `Capture`, `WriteCatalog`, `WriteConfig`,
`WriteAuth`, `Maintain`, `SaveMode`; a failed write goes to the undo step of its
own file and then backwards. `Migrated` is a part of every action that loads the
settings. Between operations the user may spoil, mend or remove config.toml
(`EditConfig`, `Unparsable`, `NoConfig`); where it or the snapshot cannot be
parsed, `PreserveLiveHookState` returns the snapshot's approvals, as
relay.go:437-450 does, and `OthersUntouched` names the exception. A failing
marshal of a parsed text is not modelled. `clearRelayInjection` (to an official
profile) and `applyRelayInjection` write the same files and are one set of
actions.

### TomlText and CodexConfig (`toml.go`, `toml_semantic.go`, `context_config.go`, `manager_context.go`, parts of `repair.go` and `relay.go`)

A document is a sequence of lines: headers, with their path, the spelling of its
last part and whether something follows the bracket, and keys with values.
`TomlText` has the edits as the code makes them, line by line, and beside them
what TOML says: `MeaningOf` gives the value of each key of each table, `Valid`
that nothing is defined twice. `CodexConfig` has the four documents (`live`,
`profile`, `common`, `pool`) and a step for a switch, the repairs of plugins,
goals and computer use, the commands of the tools page and an edit by hand.
`ConfigIsExact` compares documents: for each kind of edit, the meaning after it
is the meaning before with exactly the intended entries changed; for a switch,
that the text written is valid and each of its entries comes from the document
the rules of precedence name, and that applying and extracting the common part
loses nothing. Facts the model shows and the property states around: a header
followed by a comment is no header to the table functions but is one to the root
functions; deleting an entry spelled bare does nothing, and its sub-tables
(`.env`) stay; within tables the common configuration wins over the profile
except for `features.goals`, among roots the first wins; the merge of duplicates
prints keys that need quotes in single quotes, after which a repair of plugins
adds the same table in double ones. Arrays of tables, values of several lines,
dotted keys and inline tables are not modelled, nor what the codex command line
does when marketplaces are refreshed.

### SettingsStore (`settings.go:183-219, 452-600, 649-660`, callers in `bridge.go`)

`settingsFile` and `tmp` are the texts of the two files, `opened` the file a
writer has open - the temporary one, also after it was renamed to be the
settings - and `saver` the goroutines of all processes. Loading may save a
migration; a save reads the file again for the keys it does not know and then
truncates, writes and renames. Concurrent commands lose each other's changes:
the code takes no lock and the property does not promise more. A damaged file is
answered by the defaults, and the next save replaces everything, unknown keys
too.

### SessionData (`session_actions.go`)

`rows`, `files` and `hint` are the stores; `copies`, `manifests` the backups,
`inFlight` the key of each process. A request goes through lookup, backup, the
rows of each database, the files; any step may fail (`StepFails`) and a process
may die (`Crash`). An undo whose backup no threads row vouches for trusts an
automation row only for files whose path is one of a rollout of this session
(`Canonical`, :665-671). A behaviour has `MaxBegun` requests, at most `MaxBusy`
at a time, of two deletions, an undo and a move. Seen on the way, and stated
around: where one database has both threads and automation rows of a session,
lookup and deletion pass over the automation rows (`Hidden`, :446), which stay
after `local_deleted`; an undo refuses a token for a session whose rollout no
threads row names (:629-653) although the deletion gave one (:260); `/undo`
answers "ok" where the page tests "undone" (renderer-inject.js:6095); the
in-flight set is one process's own.

### SessionIndex, LocalSessions and RecoveryQueue

`SessionIndex` follows preview, confirmation, plan, backup, last look and write;
the application appends, and deletions and undos, which take no guard, change who
is alive. The window after the last look stays open (`intruded`).
`LocalSessions` asks each table for offset+limit+1 rows and merges them. The
database orders by the first time column a table has, NULL as 0 (`Above`); the
merge orders by the first column that is set, seconds scaled to milliseconds, and
falls back on the id (`UpdatedAt`, `Newer`). `automation_runs` may have several
rows of one session, each of which counts against the limit. So the page is not
always what the whole tables would give, and `PagesAreCuts` says what holds when:
always, that a page promises no empty one; with one row for a session in each
table, that it has the right length and says truly whether another follows; and
if each table has its times in one column and one unit too, that it is a cut of
the list of all. Otherwise newer sessions may be skipped and others shown in
their place. Times stored as text are not modelled.
`RecoveryQueue` has the page's requests with the in-flight table, the queue file,
and the next launch that replays it file by file and database by database. A
thread queued again for another target keeps the old one, so file and rows may
name different providers; a request whose file is never found stays for ever; a
damaged queue is set aside by an enqueue, and makes a replay give up.

### RelayProxy (`relay_rotation.go`, `helper.go`)

A request copies the settings (from memory, at most five seconds old, `fresh`),
takes its turn under the selector's lock, and asks suppliers without it. The
settings may be saved by the bridge at any time, and the refresh may put back
what it had read before. What the model shows and the properties are stated
around: a late request with an old copy clears or replaces the selector; the
failure of a request under an old aggregate moves the index of the new one;
`previous_response_id` as the conversation's key changes with every request;
statuses from 300 on and refusals by this program itself count as failures; a
member this program refuses to ask ends the request although others remain. The
HTTP client has no timeout, so nothing is claimed to end. An answer that cannot
be read or converted is given to the client as an empty 200. The page lets an
aggregate take one supplier twice; `fallbackRelaysAfter` starts after the first of
that name, so such an aggregate can ask a supplier twice in one request. Fair
shares, and asking nobody twice, are claimed for aggregates without such a
repetition (`Distinct`), and that every member has been asked for all.

### ChatStream, ChatInput, ToolNames and PatchText (`protocol_proxy.go`, `protocol_tools.go`)

`ChatStream` has the converter's state (`started` ... `tools`), the reader's
(`items`, `complaints`, `answer`, `terminals`) and the supplier's (`sent`,
`orderly`); a chunk is one delta. The supplier may go on after its own end, as
`consumeBlock` reads on after [DONE] and after an error: deltas then still write
events, [DONE] writes nothing more (`FinishOnce`), and an error block adds
`response.failed` whatever was written before. A stream can so have two final
events; `StreamCompletesOnce` says that the answer is completed at most once, as
the first of them, and stands as it was.

The specification of a stream is the other path of the code. `Final` is
`baseResponse` and `Whole` is `chatCompletionToResponse` of the same message, each
written from its own lines, and `AgreesWithWhole` compares them. It excepts, by
name, what only the whole path does: `incomplete_details`, a refusal, a legacy
`function_call`, the error for an answer without a message, and the removal of
`<think>` blocks: one that lies in a single delta becomes reasoning and stays in
the text as well (`ThinkDelta`). A block split over deltas stays in the text too;
it is not modelled, nor is one beside explicit reasoning in the same delta.
Other deviations the properties are stated around:
reasoning that starts after text takes output index 0 again, and text that
starts after a call an index in use; arguments that come
before id and name are deltas of an item nobody announced; an end without
[DONE], or in the middle of a block, is reported completed; a read error or a
line over 8 MiB ends without a final event; a call without `arguments` is
`{"input":""}` streamed and `{}` whole; the finish reason "length" becomes status
"incomplete" inside `response.completed`; calls without an index all merge into
index 0.

`ChatInput` converts one item of the history a step and then collapses one
message a step, the system's words to the front. A message holds the positions
of the items it was made of; `open`, `answering` and `paired` follow whether the
history itself answers every run of calls before it goes on, as Codex records
it. `HistoryIsAccepted` is what a chat server asks: every call answered at once,
no answer without its call, each item in one message, in order. A message
without content ends a run of calls. `ToolNames` declares up to three tools
whose flattened names may collide and turns every call back. They are functions,
custom tools, names given as strings (one that ends like a kind of edit stands
for `apply_patch`), tools of a namespace, which may be nameless, and tools that
are offered but not noted: a function nested in an object
(protocol_tools.go:150-157), or a tool without a name. A tool that edits files
is offered as one function for each kind of edit but noted under its own name
too, so a tool of a namespace that flattens to that name loses its calls to it;
`CallsComeBack` speaks of names noted for one tool only (`NotedUnder`).
`PatchText` takes any text of up to `MaxPatchLines` lines: a well-shaped patch
that becomes calls becomes the same text again, a call of the supplier is shown
to it as it made it, and a second turn makes of the history what the first one
made. Lost, and outside what is well shaped: lines of an update before its first
`@@` (they are dropped, or in a batch wait for the next hunk of any file); the
last newline of a content, and a new file of one blank line; a text that ends in
a newline adds a blank context line to the last hunk; `replace_file` comes back
as a batch of a deletion and an addition.

### CdpSession (`bridge.go:902-996`)

Commands share the writer's lock, the table of pending ids and the reader
goroutine; each has a channel that holds one. The answer may come before, with or
after the deadline, and the connection may end. A write has no deadline
(bridge.go:922): while it blocks, everyone who wants to write waits.

### SkillBackup (`skill_mcp_backup.go`, `file_ops.go`)

Versions of each part of the home and of each backup; commands run side by side
and may break off anywhere (`HalfDone`). `RestoreIsReversible` speaks of a restore
during which nobody else changed home or backups. Restoring a partial backup
removes the directories it lacks, as the code says; an empty snapshot of the
configuration leaves the tables alone; the code also replaces a `windows` table
that the page (App.tsx:4767) does not name; two backups made in one second share
a directory; a symbolic link among the skills fails the backup. Writing the
metadata may fail when the snapshot of the configuration is already stored
(`Snapshot`): the backup then has its tables and the command ends with an error.

### OfficialRealtime (`official_realtime.go`)

Callers find a login among the bindings and auth.json, look for its denial in
the file and in memory, send, and keep the answer's denial in memory and then on
disk. Tokens run out, users bind and sign in, the launcher starts again, a write
may fail. `standing` are denials on disk that no call with another login has
lifted: a denial is dropped when another login is used, a late denial of an old
token replaces that of the new one, and a limit of use holds until the token
changes. The manager only reads the stored denial (relay.go:64).

## 3. Runs

All bounds are constants of the configurations; a bound stops new events
(faults, writes, launches, operations), never a step under way.

| run | question | bounds | outcome |
|---|---|---|---|
| `texts_main` | locks: `MutationExclusive`, `NoOrphanLock`, `StaleLockTakenOver`; contents of a sync: `SurveyIsExact`; config.toml: `ConfigIsExact`; patches: `PatchesComeBack` | 3 operations in 3 processes, 2 crashes; 2 threads, 5 kinds of rollouts, 2 steps of the application; 8 documents, 4 profiles, 2 common configurations, 2 steps; 10 kinds of lines, 4 lines | holds |
| `lock_race` | is a live lock ever removed? | 1 crash | it is: finding |
| `sync_main` | outcomes, rollback, backup, appends, refinement | 2 files, 1 database, 2 providers, 2 runs, 2 I/O errors, 1 write per store | holds |
| `sync_unreadable` | is "synced" true when a database cannot be read? | 1 run | no: finding |
| `hist_main` | outcomes, backups, appends, termination | 3 files, 2 tasks, 2 faults, 1 write per file | holds |
| `hist_append` | does a rollback keep appends? | 2 files, 1 fault, 1 write | no: finding |
| `launch_main` | restarts, restart lock, ports, status, requests end; the bridge comes back | 2 launchers at a time, 4 launches, 1 fault; 3 attempts, 5 troubles | holds |
| `relay_forgets` | does a switch forget an account? | 2 profiles, 3 operations, no fault | it does: finding |
| `session_main` | is every line recoverable; do deletion and undo cancel out; are answers true; restores of skills | 3 of 4 requests, 2 at a time, 1 fault or crash, 1 file, 2 tables of one database; 2 commands, 1 change by others | holds |
| `net_main` | turns and fail-over; streams against whole answers, and past their end; tools; denials | 2 requests at a time, 3 in all, 1 save, 3 suppliers; 3 chunks, 3 tools; 2 callers, 1 change, 2 denials, 1 mishap | holds |
| `files_main` | logins, catalogs, rollback, approvals; commands; recovery; index; pages; settings; the cut of a key; the history of a request | 3 profiles, 3 logins of 2 accounts, 3 operations, 2 faults; 3 commands; 2 threads, 2 databases, 2 failures, 2 starts; 3 lines; 3 sessions in 2 tables of up to 3 rows, times in 2 columns and 2 units; 2 savers, 3 saves; objects of 3 members; 5 items with 2 ids of calls | holds |
| `config_spelling` | does config.toml stay valid when tools are saved and repaired? | 3 steps | no: finding |

Why these bounds are enough to be interesting: two errors reach every
combination of a failing step and a failing rollback; a second run or task meets
what a crashed first one left; three lock operations are needed for one to be
crashed, one to take over and one to be robbed; two launchers meet at every
lock, and a third launch in turn meets what both left; three operations are a
switch away, one back, and a change of login between them; three requests on a
session are a deletion, its undo and one that meets either; two tables of one
database are a row that hides another; three chunks are text or reasoning and two
pieces of a call, in every order; three tools are
two that collide and one that is in the way of the flattened name; four lines of
a patch are a file, a hunk with a line, and a second file or hunk; two members of
an aggregate with weights 2 and 1 make a round of three turns, three members a
fail-over past two; three saves are two writers at once and a later reader. For
every other number of files, operations, launchers, requests, profiles, chunks
or errors the theorems below speak. `RemoveObjectKey` is only checked: three
members contain a first, a middle and a last one and two adjacent matches.

`session_main` and `net_main` use symmetry, of the two deletions and of requests
and commands that no property tells apart; neither checks liveness.

Deadlock is not checked where a system may rightly stop: when nobody starts
anything any more and the bounds are used up.

### Fairness

- `MaintenanceLock`: weak fairness of each operation's steps. None of them
  waits: a refused lock ends the operation, so a scheduled goroutine goes on.
  Beginning an operation is not fair.
- `HistoryRepair`: weak fairness of the task's goroutine, whose calls are local
  I/O, and of the delivery of a cancel, a call that follows at once in the
  handler.
- `Launcher`: weak fairness of each launcher's steps. Every wait in the code has
  a deadline, so one of "it happened" and `GiveUp` is always possible. The user,
  faults and the end of ChatGPT are not fair.
- `BridgeWatch`: weak fairness of the launcher's goroutine (`BridgeSteps`), which
  runs on a ticker and gives up on every call after a deadline. Nothing is asked
  of the page; troubles are bounded, not fair.
- All others have safety properties only. For `RelayProxy` there could be none:
  its client waits without a limit.

## 4. Proofs

The theorems hold for any sets of operations, files, launchers, profiles, logins,
requests, calls and ids (`HistoryRepair` takes its set of files to be finite,
`LocalSessions` its tables and ids) and any value of the bounds, under the named
assumption of each module (`ConstantsAssumption`, `StoresAssumption` and the
like), which says what the constants are and which ones differ.

| theorem | under | argument |
|---|---|---|
| `MaintenanceLockProofs!TypeCorrect` | | each step keeps the types |
| `!Exclusion` | | `GuardInv`: whoever is between taking and releasing the guard is the one it records. The directory plays no part, which is why the takeover race does not lead to two mutators |
| `!NoOrphans` | nobody crashed | `CleanInv`: a recorded owner is an operation that has signed and not yet unlinked; a contender then never finds a dead owner |
| `ProviderSyncProofs!TypeCorrect`, `!Honest`, `!SingleSetback`, `!BackedUpFirst`, `!AppendsSurvive`, `!Refinement` | see below | `IInv` |
| `!SurveysAreTrue` (of `CatalogSync`) | | `CatalogTypeOK` |
| `HistoryRepairProofs!TypeCorrect`, `!Truthful`, `!RepairsAreSafe` | the last without `RaceWindow` | `IInv` |
| `RelaySwitchProofs!TypeCorrect`, `!LoginSafe`, `!CatalogsPresent` | | `IInv` |
| `!FailedUndone`, `!SwitchKeepsToItsOwn` | without `RaceWindow` | `IInv` |
| `!ProxyInvariant`, `!TurnsAreFair`, `!RequestsFailOverThoroughly` (of `RelayProxy`) | | `ProxyInv` |
| `SessionDataProofs!TypeCorrect`, `!NothingIsLost`, `!KeysAreGivenBack` | | `IInv` |
| `!LoneAnswersAreTrue`, `!UndoGivesBack` | | `AloneIInv` |
| `ProxyProofs!TypeCorrect`, `!CompletesOnce`, `!EverythingArrives`, `!StreamedLikeWhole` (of `ChatStream`) | | `IInv` |
| `!StreamsAreWellFormed` (of `ChatStream`) | | `IInv` and `StreamInv` |
| `!CallsReach` (of `ToolNames`) | | `NamesIInv` |
| `!HistoryAccepted` (of `ChatInput`) | | `InputIInv` |
| `ServiceProofs!CommandsAreTidy` (of `CdpSession`) | | `CdpIInv` |
| `!RecoveryTypeCorrect`, `!QueuedAreRecovered` (of `RecoveryQueue`) | | `RecoveryIInv` |
| `!LinesLeaveConfirmed` (of `SessionIndex`) | | `IndexIInv` |
| `!PagesAreTrue` (of `LocalSessions`) | | `ListIInv` |
| `!SettingsAreKept` (of `SettingsStore`) | | `SettingsIInv` |
| `!DenialsAreExact` (of `OfficialRealtime`) | | `RealtimeIInv` |
| `!RestoresCanBeTakenBack` (of `SkillBackup`) | | `SkillIInv` |
| `!TypeCorrect`, `!PortsAreGuarded`, `!RestartsInTurn` (of `Launcher`) | | `IInv` |
| `!StatusIsKept` (of `Launcher`) | | `IInv` and `WordIsKept` |

None of the safety properties is inductive as it stands.

- **ProviderSync.** `Core` says what every store contains: the target if it is
  in `applied`, else what it contained before. `Phases` bounds `applied` at each
  point of the run (nothing before the files, all changed files after them, and
  on the way back only what is still to do or has failed). `Copies` says that
  snapshots and the backup hold the values from before; `Verdicts` and
  `Setbacks` connect the result with what was undone and with the number of
  things that went wrong, a writer found twice being one of them and marked as
  such. `BackedUpFirst` needs `ClockMayStepBack = FALSE`
  (otherwise the run's own backup is pruned), `AppendsSurvive` needs
  `RaceWindow = FALSE`, and `Refinement` needs `CountMayFail = FALSE`;
  `HonestOutcome` is proved for readable databases.
- **CatalogSync.** The only invariant is that the home has the types of its parts;
  what there is to prove is what a sync makes of any home. `ReadRewritten`: a
  rewritten file is read as before but for the provider, so the survey after the
  writes tells what the one before told (`Alike`), and what is written depends on
  that only (`AlikeRows`, `AlikeRoots`). A row that was updated is passed over by
  the survey (`UpdatedClean`); an inserted one too if its thread has one file
  (`InsertedFacts`), and otherwise it is there to be updated the next time. A list
  of roots without duplicates that has every workspace stays as it is
  (`DedupeStays`, `RootsStay`); `DedupePaths` is a fold, which `DedupeWalks`
  turns into a walk over the paths. `NothingChanges` and `SyncsSettle` put this
  together.
- **HistoryRepair.** `Untouched` (nothing is changed up to the first write),
  `Partitioned` (the files found are those to do, dirty, and those done, clean),
  `Covered` (what is done or about to be is in the backup) and `Undoing`.
- **Launcher.** A launcher that listens has not shut down (`ListenersAreUp`),
  on Windows a restart between guard and report has the restart lock
  (`RestartsAreLocked`), and a restart lock belongs to a restart that has not
  reported (`LocksAreOfRestarts`).
- **RelaySwitch.** `EntryKept` says where the login in use is at each stage: in
  the settings about to be saved, then in a profile other than the active one
  both on disk and in the page - which is what makes the page's last save
  harmless - or in a backup. `CatalogsLead` orders catalogs and config.toml:
  added before, removed after. `AsCaptured` says which files still are, or
  already are again, what was captured; it needs the application to keep still
  within a switch, since the code looks for it once.
- **RelayProxy.** `ProxyInv` (in `RelaySwitchProofs`) says of the selector that
  for some number of rounds every member has had its weight of turns in each, and
  of the current round those up to the index: `Places` are the indexes of a name
  in the schedule, and `Blocks` says that the first members of an aggregate have
  their weights of them in the schedule's first part. It says of a request that
  its candidates are all members in a circle from the one chosen on (`Circle`),
  of which it has asked the first (`Asking`), and that the failover points at the
  one it asks while no other request moves it (`Pointed`). The schedule is a
  concatenation of any number of sequences. The lemma `SetInduction` (in
  `DataLemmas`, with the equations of such a concatenation) gives the induction
  this needs without an operator as a parameter: a set of naturals that
  has 0 and with each number the next one has all, or stepping by one would map
  the part below a gap into that part without 0, against the pigeonhole theorem.
- **SessionData.** `Known` ties what a request has found and has still to do to
  where it is; `Prepared` says that a deletion past its backup has a manifest
  and a copy of each file it will remove; `Copied` what the file under copy and
  `Carried` what a move has taken over so far. With them a removed file is in a
  finished backup (`NextBackedUp`), and a rewritten one has every line it had.
  `AloneIInv` adds what a request knows that runs with nobody beside it: a
  deletion's rows are those of before less what it has removed, its files
  likewise (`DeletesAlone`); an undo has put back what it has treated and its
  aim is still as the deletion left it (`UndoesAlone`, `RestUntouched`); a move
  has moved what is no longer to do (`MovesAlone`). The lemma `AloneActs`: while a
  request is not `overlapped`, every step that changes rows or files is its own.
- **ChatStream.** `Counted` and `Gathered` say that the converter's texts and
  calls are what was sent before the first final event (of a stream that is
  `Closed`, what the answer holds), `NamedInOrder` that the ids made up for
  nameless calls are those of their rank, and `Delivered` that the answer has
  all that was sent. No step but the first end makes an answer
  (`EndsAsItEnded`). `RankInList` turns the position in the sorted list of calls
  into that rank, which makes the streamed list of items the one of `Whole`.
  `StreamInv` speaks of the reader of the stream: as long as the calls came in
  order, it has no complaint and has assembled what the converter holds
  (`Assembled`), which fixes the place, the id, the size and the state of every
  item - reasoning first, then the text, then the calls in the order in which
  they were announced. The reader is a fold over the events a chunk writes;
  `ReadsAll` turns it into a walk, one event after the other, by the same
  induction over sets of naturals (`FoldExists`). The ranks of the calls'
  indexes are 0 to n - 1, so `Keys` lists every call once, and the final events
  close each item where it was opened and nothing else.
- **ToolNames.** `NotesAreTrue`: what is noted is a declared tool under one of
  its names; `NamesAreNoted`: no name that may be offered is forgotten, and a
  function's, or that of a tool of a nameless namespace, stays its own;
  `OffersAreDeclared`.
- **ChatInput.** Messages are made one at a time, so the proof is an induction over
  steps although it speaks of lists. `ItemsAreThere` says of the messages together
  with what is pending (`WithPending`, as if it were flushed now) that each item is
  there, once and in order. `Directly`: nothing but answers is between an answer
  and the message with its calls; `OpenAreLast`: the calls still open are pending,
  or those of the last message that has any, and only answers follow it. A flush
  makes of what is pending exactly the message `WithPending` has. Once all is read,
  `IsSplit` says that the system's words and the others are the messages taken
  apart in order; the request is then a rearrangement that moves only system
  messages, which never lie between calls and their answers, so the answers
  directly after a message stay the same (`AnswersRearranged`).
- **Launcher**, the status: `WordIsKept`: as long as nothing has failed, a status
  that promises something is the word of a launcher still at work.
- **CdpSession.** `EntriesAreOpen` (an entry of the pending table is a command
  that has neither answer nor end) and `ResponsesAreOwn` (what lies in a channel,
  or with the reader, has its command's id, and is there once).
- **RecoveryQueue.** `LaunchIsAlone` with the queue; what it completed is moved
  (`CompletedIsMoved`), what it is at is queued and moved up to the next database
  (`WorkIsQueued`).
- **SessionIndex.** `PlanIsTheFile`: what is confirmed was shown, the plan lies in
  the backup, and from the last look on it is the file, unless the application
  has begun since.
- **LocalSessions.** `ListIInv` is the property with the types; what there is to
  prove is data. What is read is part of the tables, so a page with a successor has
  one in the list of all. If a table has a session once, it is either read whole or
  gives offset+limit+1 sessions, so the list read is as long as a page can tell
  (`ListsAreLong`). If its times are in one column and unit too (`TablesInOrder`),
  the database's order is the merge's; before a row there are in its table no more
  rows than there are sessions before it in the list of all (`NoFurtherDown`): the
  rows a page needs are among those that are read of each
  table. Nothing that is read and superseded by a row that is not gets in between,
  so both lists agree up to one row past the page (`ListsAgree`), and the page is a
  cut (`PageIsACut`).
- **SettingsStore.** `WritersAreAtIt`; without a clash one writer at most has the
  temporary file, and every text keeps the unknown keys (`OneWrites`, `Agree`); a
  command that is alone holds what the file says with its change (`AloneIsExact`).
- **OfficialRealtime.** A standing denial is the one on disk and no call past the
  file knows one of its own login (`StandingIsOnDisk`); a call's login is of an
  account it is bound to, and what it stores was said (`CallsAreBound`).
- **SkillBackup.** `RestoreIsOrderly` follows a restore that is alone: its backup
  is there, the home is copied whole (`AlreadyCopied`) before a part is touched,
  and each part it has done with is back (`AlreadyBack`).

Four properties turned out false in general when their proof was attempted, in
instances other than those that were run, and are stated as the code has them
now: `CallsComeBack` (a namespaced tool that flattens to the name of an editing
tool), `DeletedIsGone` (a session with two kinds of rows in one database), and
`SharesAreFair` and `FailoverIsThorough` (an aggregate that takes a supplier
twice). Instances of the first, the second and the last are part of the runs.

Proved, and not run as properties of their own: the type invariants,
`PortsFollowGuard`, `OneDeletionHoldsTheKey` and `NothingDropped`.

Only model-checked:

- the liveness properties `StaleLockTakenOver`, `TaskEnds`, `RequestsEnd` and
  `BridgeComesBack`, which are beyond the prover;
- what is computed by folds, filters or recursion over the text of a file:
  `ConfigIsExact` (`CodexConfig`), `PatchesComeBack` (`PatchText`) and
  `ExactlyMatchesGo` (`RemoveObjectKey`).

## 5. Where the code and its documentation part

- `LiveLockKept` (repair.go:885): two contenders that judge the same lock stale;
  the slower one removes the lock the faster one has just made. The guard still
  excludes a second mutator.
- `HonestOutcome` with unreadable databases (repair.go:1873): errors count as
  "nothing to update", the answer is "synced".
- `AppendsSurvive` (conversation_history_repair.go:1094): a rollback restores
  files without looking whether they were written since.
- `SwitchForgetsNoAccount` (relay.go:760): the backfill of a switch puts the live
  login into the profile being left, whatever account that profile was bound to.
- `LiveStaysValid` (context_config.go:315): a tool saved on the page gets a
  quoted header, the repair of plugins writes the bare one; both end up in
  config.toml, which is then no TOML.

Seen and not run:

- a restart asked for after a change of settings is dropped in favour of one that
  has read the old ones (launcher.go:75);
- the answer to an unbinding of a login reloads the settings, and loading binds
  the active profile again (relay.go:719);
- the manager page says of pure API profiles that their auth snapshot is restored
  on a switch (App.tsx:7677), while the code keeps the current login, which
  `OthersUntouched` shows;
- a rollback of a sync writes database and global-state snapshots over what a
  writer stored meanwhile (repair.go:1579);
- a manager whose launch found a launcher running replaces its "running" by
  "accepted" (manager.go:1851), and so does one whose launcher reports between its
  last look (1908) and its write; only that the status settles is claimed;
- a writer that starts before the third check of a sync and stays leaves the
  history partial, as the result says (repair.go:848-870, 995-998);
- an error block after the end of a streamed answer adds `response.failed` to
  `response.completed` (protocol_proxy.go:753-763, 989-995);
- several runs of one automation hide other sessions from a page, and a table
  with times in two columns or units is cut in another order than it is shown
  (local_sessions.go:216-252);
- settings are decoded over the defaults (settings.go:189, 649): fields missing
  from the first profile of an older file take the values of the default profile
  (its tools are then never selected, and it alone uses the common
  configuration); blank profile ids become "relay-N" and could collide with one
  that is called so;
- with two rollout files of one thread, the survey of a sync looks at the last
  and the insertion of a missing row at the first; two syncs settle it. A
  metadata line without an object as payload before a sound one makes the
  rewrite of that file fail every time.

## 6. Abstractions

- Contents: where only its place matters a session file is the provider it names
  and a count of writes, a login a model value with an account, a config.toml the
  catalog it names and its approvals. Where the contents matter, a module of its
  own has them (`CatalogSync`, `CodexConfig`, `PatchText`, `RemoveObjectKey`).
- Text: a line, a member or a token is a record or a model value; blanks,
  comments, escapes and encodings are left out.
- A rename and a single write are atomic, except in `SettingsStore`, where the
  writers of one temporary file are the question. `activateOfficialAuth`, which
  writes in place, has a torn outcome of its own.
- `DeadMayLookAlive`: a pid may be reused or the probe fail. Safety is proved
  with it; `StaleLockTakenOver` is checked without, since the code then waits
  for the two minutes or for the other process.
- `RelaySwitch` has one user and one page: a second manager's switches meet at
  the lock (`Refused`), and saves by others are in `SettingsStore`.
- A chunk of a stream has one delta, a text is the number of its pieces; usage,
  model and creation time of an answer are left out.

## 7. Not modelled, and why

- `mobile_control.go`: `startMobileRelayHost` has no caller in this commit; its
  host, sessions and app server never run.
- Updates, imports and checks of providers, the model catalog, the marketplace,
  scripts, vision, computer use, worktrees, Zed, diagnostics and desktop
  integration: I/O, subprocesses, parsing and formatting without state of their
  own, or platform calls. What they do to config.toml is in `CodexConfig`.
- HTTP routing and the page's rendering, forms and translations. Of `bridge.go`,
  the individual calls of the page are in the components they belong to.
- `env_conflicts.go` edits shell profiles and the registry.
- Of the relay proxy: how an image request is recognised, headers, and the
  WebSocket bridge to the app server. Of the protocol proxy: schemas, usage
  numbers, URLs, and the text of parts.
- A commit of a writer between the snapshot of a database and its rollback
  (repair.go:1019) is modelled and covered by no property: the code compares
  nothing, so none can hold.

Worth doing next: the composition of `RecoveryQueue` with `Launcher` and of
`SessionData` with `ProviderSync`, which meet in the same databases;
`ProviderSync` over the lock of `MaintenanceLock` instead of by assumption.
`PROJECT.json` lists every component with its reason and every hazard with the
properties that cover it.

----------------------------- MODULE SessionData -----------------------------
(***************************************************************************)
(* Deleting, restoring and moving one Codex session (session_actions.go,   *)
(* local_sessions.go).  A session lives in rows of several SQLite          *)
(* databases, in rollout files and in the global state; a request works    *)
(* through them store by store, without a transaction and without the      *)
(* maintenance locks.  Requests come from the page, whose routes run in    *)
(* the launcher, and from the manager: two processes, each with its own    *)
(* set of deletions in flight.  A deletion first copies everything it has  *)
(* found into a backup; the name of the backup is the undo token.          *)
(*                                                                         *)
(* Every request runs once.  A step is one statement on one database or    *)
(* one operation on one file.  Any step may fail and a process may die.    *)
(***************************************************************************)
EXTENDS Naturals, FiniteSets

CONSTANTS
    Deletes, Undos, Moves,  \* the requests
    Page, Manager,          \* the processes: the launcher, which serves the page
    Places,                 \* <<database, table>> in which rows may be
    Files, Named,           \* rollout files; those a threads row names
    Canonical,              \* those under sessions or archived_sessions that bear
                            \* the id of the session in their name
    Cwds, Projectless,      \* workspaces; the absence of one, as a target
    Lines,                  \* the lines of a rollout file after the first
    Gone, Torn, None,
    MaxFaults,              \* bound: failing steps and crashes
    MaxBegun, MaxBusy       \* bounds: requests, in all and at a time

Requests == Deletes \cup Undos \cup Moves
Procs == {Page, Manager}
Contents == [cwd : Cwds, lines : SUBSET Lines]

ASSUME ConstantsAssumption ==
    /\ Page # Manager /\ None \notin {Page, Manager}
    /\ Deletes \cap Undos = {} /\ Deletes \cap Moves = {} /\ Undos \cap Moves = {}
    /\ Places \cap Files = {} /\ Named \subseteq Files /\ Canonical \subseteq Files
    /\ Projectless \notin Cwds /\ Projectless # None /\ Gone \notin Cwds /\ None \notin Cwds
    /\ Gone # Torn /\ Gone \notin Contents /\ Torn \notin Contents
    /\ MaxFaults \in Nat /\ MaxBegun \in Nat /\ MaxBusy \in Nat

VARIABLES
    rows,       \* the workspace in each row, or Gone
    files,      \* the contents of each file
    hint,       \* where the global state puts the session
    pc,         \* where each request is, and what it answered
    home,       \* the process a deletion runs in
    foundRows,  \* the rows lookupSession found
    todo,       \* what the current loop of a request has still to treat
    arg,        \* the target of a move, the token of an undo
    open,       \* the file a copy is under way on, or None
    rest,       \* the lines a move has copied after the new first line
    copies,     \* the files in the backup of each deletion
    manifests,  \* the deletions whose manifest is written
    inFlight,   \* the processes with the session in sessionDeleteState.inFlight
    written,    \* the lines ever written to each file
    unseen,     \* the lines of a file that were written while a request ran, or
                \* that an undo found in it and not in its backup
    overlapped, \* the requests that did not run alone
    before,     \* rows and files when each deletion began
    faults

store == <<rows, files, hint>>
copying == <<open, rest>>
backup == <<copies, manifests>>
history == <<written, unseen, overlapped, before>>
vars == <<store, pc, home, foundRows, todo, arg, copying, backup, inFlight, history, faults>>

NoRows == [p \in Places |-> Gone]
Rows == [Places -> Cwds \cup {Gone}]
Bodies == [Files -> Contents \cup {Gone, Torn}]

Looking == {"rows", "walk"}
Removing == {"copy", "delete", "putBack"}
Undoing == {"restore", "fill"}
Moving == {"move", "rename"}
Busy == Looking \cup Removing \cup Undoing \cup Moving
Answers == {"inProgress", "failed", "failedWithToken", "local_deleted",
            "refused", "ok", "moved", "crashed"}
Locations == Busy \cup Answers \cup {"new"}

TypeOK ==
    /\ rows \in Rows /\ files \in Bodies
    /\ hint \in Cwds \cup {Projectless, None}
    /\ pc \in [Requests -> Locations]
    /\ home \in [Deletes -> Procs \cup {None}]
    /\ foundRows \in [Requests -> Rows]
    /\ todo \in [Requests -> SUBSET (Places \cup Files)]
    /\ arg \in [Undos \cup Moves -> Deletes \cup Cwds \cup {Projectless, None}]
    /\ open \in [Requests -> Files \cup {None}]
    /\ rest \in [Moves -> SUBSET Lines]
    /\ copies \in [Deletes -> Bodies] /\ manifests \subseteq Deletes
    /\ inFlight \subseteq Procs
    /\ written \in [Files -> SUBSET Lines] /\ unseen \in [Files -> SUBSET Lines]
    /\ overlapped \subseteq Requests
    /\ before \in [Deletes -> [rows : Rows, files : Bodies]]
    /\ faults \in 0 .. MaxFaults

IsThread(p) == p[2] = "threads"
Threads == {p \in Places : IsThread(p)}
Readable(f) == files[f] \notin {Gone, Torn}
Active == {r \in Requests : pc[r] \in Busy}
Deleting == {d \in Deletes : pc[d] \in Busy}

Init ==
    /\ \E w \in Cwds :
          /\ rows \in [Places -> {w, Gone}]
          /\ files \in [Files -> {[cwd |-> w, lines |-> {}], Gone}]
    /\ \E p \in Places, f \in Files : rows[p] # Gone \/ files[f] # Gone
    /\ hint = None
    /\ pc = [r \in Requests |-> "new"]
    /\ home = [d \in Deletes |-> None]
    /\ foundRows = [r \in Requests |-> NoRows]
    /\ todo = [r \in Requests |-> {}]
    /\ arg = [r \in Undos \cup Moves |-> None]
    /\ open = [r \in Requests |-> None]
    /\ rest = [m \in Moves |-> {}]
    /\ copies = [d \in Deletes |-> [f \in Files |-> Gone]]
    /\ manifests = {} /\ inFlight = {}
    /\ written = [f \in Files |-> {}]
    /\ unseen = [f \in Files |-> {}] /\ overlapped = {}
    /\ before = [d \in Deletes |-> [rows |-> rows, files |-> files]]
    /\ faults = 0

Goto(r, loc) == pc' = [pc EXCEPT ![r] = loc]
Loop(r, loc, things) == Goto(r, loc) /\ todo' = [todo EXCEPT ![r] = things]
Treated(r, x) == todo' = [todo EXCEPT ![r] = @ \ {x}]

\* endSessionDelete, deferred: whatever the answer is.
EndDelete(r) == inFlight' = IF r \in Deletes THEN inFlight \ {home[r]} ELSE inFlight

\* What a request has found is of no use once it has answered, but for the rows
\* in the backup whose token the page is given.
Answer(r, a) ==
    /\ Loop(r, a, {})
    /\ foundRows' = IF a = "local_deleted" THEN foundRows ELSE [foundRows EXCEPT ![r] = NoRows]
    /\ open' = [open EXCEPT ![r] = None]
    /\ EndDelete(r)

Alongside(r) ==
    /\ Cardinality({q \in Requests : pc[q] # "new"}) < MaxBegun
    /\ Cardinality(Active) < MaxBusy
    /\ overlapped' = IF Active = {} THEN overlapped ELSE overlapped \cup Active \cup {r}

-----------------------------------------------------------------------------
\* lookupSession, the first half: of each database the threads rows, or the
\* automation runs where there are none.
Hidden(table, p) == ~IsThread(p) /\ \E q \in Threads : q[1] = p[1] /\ table[q] # Gone
FoundIn(table, p) == IF Hidden(table, p) THEN Gone ELSE table[p]

LookUpRows(r) ==
    /\ pc[r] = "rows"
    /\ foundRows' = [foundRows EXCEPT ![r] = [p \in Places |-> FoundIn(rows, p)]]
    /\ Goto(r, "walk")
    /\ UNCHANGED <<store, home, todo, arg, copying, backup, inFlight, history, faults>>

\* The second half: readRolloutFile on the files the rows name, findRolloutFiles
\* for the rest.  A file whose first line does not parse is passed over.
Heads == [f \in Files |-> IF Readable(f) THEN files[f].cwd ELSE Gone]

Finds(r) == (\E p \in Places : foundRows[r][p] # Gone)
               \/ \E f \in Files : Heads[f] # Gone

\* updateSessionLookupWorkspace: only threads tables are updated.
MovedTables(m) ==
    LET found == {p \in Threads : foundRows[m][p] # Gone}
    IN  IF found = {} THEN Threads ELSE found

LookUpFiles(r) ==
    /\ pc[r] = "walk"
    /\ Finds(r)
    /\ LET seen == {f \in Files : Heads[f] # Gone} IN
       IF r \in Deletes
       THEN Loop(r, "copy", seen) /\ UNCHANGED foundRows
       ELSE /\ Loop(r, "move", IF arg[r] = Projectless THEN {}
                               ELSE {f \in seen : Heads[f] # arg[r]} \cup MovedTables(r))
            /\ foundRows' = [foundRows EXCEPT ![r] = NoRows]
    /\ UNCHANGED <<store, home, arg, copying, backup, inFlight, history, faults>>

NothingFound(r) ==
    /\ pc[r] = "walk" /\ ~Finds(r)
    /\ Answer(r, "failed")
    /\ UNCHANGED <<store, home, arg, rest, backup, history, faults>>

-----------------------------------------------------------------------------
\* deleteSessionDataRoute.

\* beginSessionDelete: the set is one of this process.
Held(p) == p \in inFlight

BeginDelete(d, p) ==
    /\ pc[d] = "new" /\ ~Held(p)
    /\ inFlight' = inFlight \cup {p}
    /\ home' = [home EXCEPT ![d] = p]
    /\ Goto(d, "rows")
    /\ Alongside(d)
    /\ before' = [before EXCEPT ![d] = [rows |-> rows, files |-> files]]
    /\ UNCHANGED <<store, foundRows, todo, arg, copying, backup, written, unseen, faults>>

DeleteInProgress(d, p) ==
    /\ pc[d] = "new" /\ Held(p)
    /\ Goto(d, "inProgress")
    /\ UNCHANGED <<store, home, foundRows, todo, arg, copying, backup, inFlight, history, faults>>

\* createSessionDeleteBackup: the files as they are now, then the manifest.
BackUpFile(d, f) ==
    /\ pc[d] = "copy" /\ f \in todo[d] /\ files[f] # Gone
    /\ copies' = [copies EXCEPT ![d][f] = files[f]]
    /\ Treated(d, f)
    /\ UNCHANGED <<store, pc, home, foundRows, arg, copying, manifests, inFlight, history, faults>>

VanishedFile(d) ==
    /\ pc[d] = "copy" /\ \E f \in todo[d] : files[f] = Gone
    /\ Answer(d, "failed")
    /\ UNCHANGED <<store, home, arg, rest, backup, history, faults>>

\* deleteSessionLookupRows: the tables rows were found in, or every threads table.
Tables(d) ==
    LET found == {p \in Places : foundRows[d][p] # Gone}
    IN  IF found = {} THEN Threads ELSE found

\* Mutant of WriteManifest: rows are deleted while files are still to copy.
WriteManifestEarly(d) ==
    /\ pc[d] = "copy"
    /\ manifests' = manifests \cup {d}
    /\ Loop(d, "delete", todo[d] \cup Tables(d) \cup {f \in Files : copies[d][f] # Gone})
    /\ UNCHANGED <<store, home, foundRows, arg, copying, copies, inFlight, history, faults>>

WriteManifest(d) ==
    /\ pc[d] = "copy" /\ todo[d] = {}
    /\ manifests' = manifests \cup {d}
    /\ Loop(d, "delete", Tables(d) \cup {f \in Files : copies[d][f] # Gone})
    /\ UNCHANGED <<store, home, foundRows, arg, copying, copies, inFlight, history, faults>>

\* deleteSQLiteSessionRows
DeleteRow(d, p) ==
    /\ pc[d] = "delete" /\ p \in todo[d]
    /\ rows' = [rows EXCEPT ![p] = Gone]
    /\ Treated(d, p)
    /\ UNCHANGED <<files, hint, pc, home, foundRows, arg, copying, backup, inFlight, history, faults>>

\* Once the rows are gone; a file that is no longer there counts as removed.
RemoveFile(d, f) ==
    /\ pc[d] = "delete" /\ f \in todo[d] /\ todo[d] \subseteq Files
    /\ files' = [files EXCEPT ![f] = Gone]
    /\ Treated(d, f)
    /\ UNCHANGED <<rows, hint, pc, home, foundRows, arg, copying, backup, inFlight, history, faults>>

Deleted(d) ==
    /\ pc[d] = "delete" /\ todo[d] = {}
    /\ Answer(d, "local_deleted")
    /\ UNCHANGED <<store, home, arg, rest, backup, history, faults>>

\* restoreSessionSQLiteRows after a file could not be removed.
PutBackRow(d, p) ==
    /\ pc[d] = "putBack" /\ p \in todo[d]
    /\ rows' = [rows EXCEPT ![p] = foundRows[d][p]]
    /\ Treated(d, p)
    /\ UNCHANGED <<files, hint, pc, home, foundRows, arg, copying, backup, inFlight, history, faults>>

PutBackDone(d) ==
    /\ pc[d] = "putBack" /\ todo[d] = {}
    /\ Answer(d, "failedWithToken")
    /\ UNCHANGED <<store, home, arg, rest, backup, history, faults>>

-----------------------------------------------------------------------------
\* undoSessionDataRoute.  The page offers the token of a deletion of its own
\* that was answered with local_deleted.
Offered == {d \in Deletes : pc[d] = "local_deleted" /\ home[d] = Page}

\* validateDeletedSessionRestorePaths: a file may be restored if a threads row
\* of the backup names it, or if there is an automation row to vouch for it and
\* its path is one of a rollout of this session.
Authorised(d) ==
    \A f \in Files :
        copies[d][f] # Gone =>
            \/ f \in Named /\ \E p \in Threads : foundRows[d][p] # Gone
            \/ f \in Canonical /\ \E p \in Places \ Threads : foundRows[d][p] # Gone

BeginUndo(u, d) ==
    /\ pc[u] = "new" /\ d \in Offered
    /\ arg' = [arg EXCEPT ![u] = d]
    /\ IF Authorised(d)
       THEN Loop(u, "restore", {f \in Files : copies[d][f] # Gone}
                                  \cup {p \in Places : foundRows[d][p] # Gone})
       ELSE Loop(u, "refused", {})
    /\ Alongside(u)
    /\ UNCHANGED <<store, home, foundRows, copying, backup, inFlight, written, unseen, before, faults>>

LinesOf(body) == IF body \in {Gone, Torn} THEN {} ELSE body.lines

\* copyFileIfExists truncates the target and then fills it.
TruncateFile(u, f) ==
    /\ pc[u] = "restore" /\ f \in todo[u]
    /\ files' = [files EXCEPT ![f] = Torn]
    /\ unseen' = [unseen EXCEPT ![f] = @ \cup (LinesOf(files[f]) \ LinesOf(copies[arg[u]][f]))]
    /\ open' = [open EXCEPT ![u] = f]
    /\ Goto(u, "fill")
    /\ UNCHANGED <<rows, hint, home, foundRows, todo, arg, rest, backup, inFlight, written,
                   overlapped, before, faults>>

\* The handle may be of a file that was removed or replaced in the meantime.
FillFile(u) ==
    LET f == open[u] IN
    /\ pc[u] = "fill"
    /\ files' = IF files[f] = Torn
                THEN [files EXCEPT ![f] = copies[arg[u]][f]] ELSE files
    /\ Loop(u, "restore", todo[u] \ {f})
    /\ open' = [open EXCEPT ![u] = None]
    /\ UNCHANGED <<rows, hint, home, foundRows, arg, rest, backup, inFlight, history, faults>>

\* Mutant of RestoreRow: only tables called threads are restored.
RestoreRowThreads(u, p) ==
    /\ pc[u] = "restore" /\ p \in todo[u] /\ todo[u] \subseteq Places
    /\ rows' = IF IsThread(p) THEN [rows EXCEPT ![p] = foundRows[arg[u]][p]] ELSE rows
    /\ Treated(u, p)
    /\ UNCHANGED <<files, hint, pc, home, foundRows, arg, copying, backup, inFlight, history, faults>>

\* After the files, restoreSQLiteSessionRows: INSERT OR REPLACE
RestoreRow(u, p) ==
    /\ pc[u] = "restore" /\ p \in todo[u] /\ todo[u] \subseteq Places
    /\ rows' = [rows EXCEPT ![p] = foundRows[arg[u]][p]]
    /\ Treated(u, p)
    /\ UNCHANGED <<files, hint, pc, home, foundRows, arg, copying, backup, inFlight, history, faults>>

Undone(u) ==
    /\ pc[u] = "restore" /\ todo[u] = {}
    /\ Answer(u, "ok")
    /\ UNCHANGED <<store, home, arg, rest, backup, history, faults>>

-----------------------------------------------------------------------------
\* moveThreadWorkspaceDataRoute, moveThreadProjectlessDataRoute.
BeginMove(m, target) ==
    /\ pc[m] = "new"
    /\ arg' = [arg EXCEPT ![m] = target]
    /\ Goto(m, "rows")
    /\ Alongside(m)
    /\ UNCHANGED <<store, home, foundRows, todo, copying, backup, inFlight, written, unseen, before,
                   faults>>

\* rewriteRolloutWorkspace: the new first line is of the lookup, the lines
\* after it are those of now; a rename then replaces what is there by then.
CopyRest(m, f) ==
    /\ pc[m] = "move" /\ f \in todo[m] /\ files[f] # Gone
    /\ rest' = [rest EXCEPT ![m] = LinesOf(files[f])]
    /\ open' = [open EXCEPT ![m] = f]
    /\ Goto(m, "rename")
    /\ UNCHANGED <<store, home, foundRows, todo, arg, backup, inFlight, history, faults>>

MovedFileGone(m) ==
    /\ pc[m] = "move" /\ \E f \in todo[m] \cap Files : files[f] = Gone
    /\ Answer(m, "failed")
    /\ UNCHANGED <<store, home, arg, rest, backup, history, faults>>

\* Mutant of RenameFile: the copy takes the first line as it was.
RenameFileKeepsHead(m) ==
    /\ pc[m] = "rename"
    /\ files' = [files EXCEPT ![open[m]] =
                    [cwd |-> IF Readable(open[m]) THEN files[open[m]].cwd ELSE arg[m],
                     lines |-> rest[m]]]
    /\ Loop(m, "move", todo[m] \ {open[m]})
    /\ open' = [open EXCEPT ![m] = None]
    /\ rest' = [rest EXCEPT ![m] = {}]
    /\ UNCHANGED <<rows, hint, home, foundRows, arg, backup, inFlight, history, faults>>

RenameFile(m) ==
    /\ pc[m] = "rename"
    /\ files' = [files EXCEPT ![open[m]] = [cwd |-> arg[m], lines |-> rest[m]]]
    /\ Loop(m, "move", todo[m] \ {open[m]})
    /\ open' = [open EXCEPT ![m] = None]
    /\ rest' = [rest EXCEPT ![m] = {}]
    /\ UNCHANGED <<rows, hint, home, foundRows, arg, backup, inFlight, history, faults>>

\* After the files, updateSQLiteThreadWorkspace: a row that is gone by now is not inserted.
UpdateRow(m, p) ==
    /\ pc[m] = "move" /\ p \in todo[m] /\ todo[m] \subseteq Places
    /\ rows' = IF rows[p] = Gone THEN rows ELSE [rows EXCEPT ![p] = arg[m]]
    /\ Treated(m, p)
    /\ UNCHANGED <<files, hint, pc, home, foundRows, arg, copying, backup, inFlight, history, faults>>

\* updateCodexGlobalStateForSession
WriteHint(m) ==
    /\ pc[m] = "move" /\ todo[m] = {}
    /\ hint' = arg[m]
    /\ Answer(m, "moved")
    /\ UNCHANGED <<rows, files, home, arg, rest, backup, history, faults>>

-----------------------------------------------------------------------------
\* Failures, crashes and the application.
Fault == faults < MaxFaults /\ faults' = faults + 1

PutBack(d) == {p \in Places : foundRows[d][p] # Gone}

\* Any statement or file operation may fail.  Only after the removal of a file
\* is anything put back.
StepFails(r) ==
    /\ r \in Active
    /\ Fault
    /\ todo[r] = {} => pc[r] \notin {"delete", "putBack", "restore"}
    /\ IF pc[r] = "delete" /\ todo[r] \subseteq Files
       THEN Loop(r, "putBack", PutBack(r)) /\ UNCHANGED <<foundRows, open, inFlight>>
       ELSE Answer(r, IF pc[r] = "putBack" THEN "failedWithToken" ELSE "failed")
    /\ UNCHANGED <<store, home, arg, rest, backup, history>>

\* The process in which a request runs: all but deletions are of the page.
RunsIn(r) == IF r \in Deletes THEN home[r] ELSE Page

Crash(p) ==
    LET lost == {r \in Active : RunsIn(r) = p} IN
    /\ lost # {}
    /\ Fault
    /\ pc' = [r \in Requests |-> IF r \in lost THEN "crashed" ELSE pc[r]]
    /\ todo' = [r \in Requests |-> IF r \in lost THEN {} ELSE todo[r]]
    /\ open' = [r \in Requests |-> IF r \in lost THEN None ELSE open[r]]
    /\ foundRows' = [r \in Requests |-> IF r \in lost THEN NoRows ELSE foundRows[r]]
    /\ inFlight' = inFlight \ {p}
    /\ UNCHANGED <<store, home, arg, rest, backup, history>>

\* ChatGPT/Codex carries on with the session.
AppAppends(f, l) ==
    /\ Readable(f) /\ l \in Lines \ written[f]
    /\ files' = [files EXCEPT ![f].lines = @ \cup {l}]
    /\ written' = [written EXCEPT ![f] = @ \cup {l}]
    /\ unseen' = IF Active = {} THEN unseen ELSE [unseen EXCEPT ![f] = @ \cup {l}]
    /\ overlapped' = overlapped \cup Active
    /\ UNCHANGED <<rows, hint, pc, home, foundRows, todo, arg, copying, backup, inFlight, before,
                   faults>>

DeleteStep(d) ==
    \/ LookUpRows(d) \/ LookUpFiles(d) \/ NothingFound(d)
    \/ \E f \in Files : BackUpFile(d, f) \/ RemoveFile(d, f)
    \/ VanishedFile(d) \/ WriteManifest(d) \/ Deleted(d) \/ PutBackDone(d)
    \/ \E p \in Places : DeleteRow(d, p) \/ PutBackRow(d, p)

UndoStep(u) ==
    \/ \E f \in Files : TruncateFile(u, f)
    \/ \E p \in Places : RestoreRow(u, p)
    \/ FillFile(u) \/ Undone(u)

MoveStep(m) ==
    \/ LookUpRows(m) \/ LookUpFiles(m) \/ NothingFound(m)
    \/ \E f \in Files : CopyRest(m, f)
    \/ \E p \in Places : UpdateRow(m, p)
    \/ MovedFileGone(m) \/ RenameFile(m) \/ WriteHint(m)

Begin ==
    \/ \E d \in Deletes, p \in Procs : BeginDelete(d, p) \/ DeleteInProgress(d, p)
    \/ \E u \in Undos, d \in Deletes : BeginUndo(u, d)
    \/ \E m \in Moves, t \in Cwds \cup {Projectless} : BeginMove(m, t)

Step ==
    \/ \E d \in Deletes : DeleteStep(d)
    \/ \E u \in Undos : UndoStep(u)
    \/ \E m \in Moves : MoveStep(m)

Next ==
    \/ Begin \/ Step
    \/ \E r \in Requests : StepFails(r)
    \/ \E p \in Procs : Crash(p)
    \/ \E f \in Files, l \in Lines : AppAppends(f, l)

Spec == Init /\ [][Next]_vars

-----------------------------------------------------------------------------
\* Properties.

BackedUp(f, l) == \E d \in manifests : l \in LinesOf(copies[d][f])
Kept(f, l) == l \in LinesOf(files[f]) \/ BackedUp(f, l)

\* Whatever requests run side by side, fail or die half-way, a line of the
\* conversation is in its rollout file or in a finished backup - unless the
\* application wrote it while a request was under way, or an undo truncated a
\* file that had been written to since (createSessionDeleteBackup before
\* os.Remove, session_actions.go:243-257).
Recoverable == \A f \in Files : \A l \in written[f] \ unseen[f] : Kept(f, l)

\* A deletion that ran alone and answered local_deleted has left no rollout file
\* that can be read and no row - but the automation runs that the lookup passes
\* over where the database has a threads row too (session_actions.go:446).
DeletedIsGone ==
    [][\A d \in Deletes :
          pc[d] # "local_deleted" /\ pc'[d] = "local_deleted" /\ d \notin overlapped =>
              /\ \A p \in Places : rows[p] = Gone \/ Hidden(before[d].rows, p)
              /\ \A f \in Files : ~Readable(f)]_vars

\* What a deletion finds, as it was before.
Restored(d) ==
    /\ \A p \in Places :
          FoundIn(before[d].rows, p) # Gone => rows[p] = before[d].rows[p]
    /\ \A f \in Files :
          before[d].files[f] \notin {Gone, Torn} => files[f] = before[d].files[f]

\* Nothing has begun but a deletion and undos of it.
Undisturbed(d) ==
    \A q \in Requests \ {d} : pc[q] = "new" \/ (q \in Undos /\ arg[q] = d)

\* Deletion and undo, each run alone, give back what there was, whatever ran in
\* between and before; and where nothing else did, rows and files are as they
\* were (TestDeleteThreadAndUndoRestoresRolloutAndSQLite).
RoundTrip ==
    [][\A u \in Undos :
          pc[u] # "ok" /\ pc'[u] = "ok" /\ {u, arg[u]} \cap overlapped = {} =>
              /\ Restored(arg[u])
              /\ Undisturbed(arg[u]) => before[arg[u]] = [rows |-> rows, files |-> files]]_vars

\* A move that ran alone and answered moved has taken every rollout file and
\* every threads row with it.
MoveIsWhole ==
    [][\A m \in Moves :
          /\ pc[m] # "moved" /\ pc'[m] = "moved"
          /\ m \notin overlapped /\ arg[m] # Projectless
          => /\ \A p \in Threads : rows[p] \in {Gone, arg[m]}
             /\ \A f \in Files : Readable(f) => files[f].cwd = arg[m]]_vars

\* A deletion that failed on a file, nothing else having gone wrong, answers
\* with the index as it was (session_actions.go:253).
FailedRemovalRestoresIndex ==
    [][\A d \in Deletes :
          /\ pc[d] # "failedWithToken" /\ pc'[d] = "failedWithToken"
          /\ d \notin overlapped /\ faults' = 1
          => rows' = before[d].rows]_vars

\* What a lone request answers is true of rows and files.
AnswersAreTrue == DeletedIsGone /\ MoveIsWhole /\ FailedRemovalRestoresIndex

\* A process holds the key of the session exactly while a deletion of it runs,
\* and never runs two: whatever the answer, the session can be deleted later.
OneDeletionHoldsTheKey ==
    /\ inFlight = {home[d] : d \in Deleting}
    /\ \A d, e \in Deleting : home[d] = home[e] => d = e

=============================================================================

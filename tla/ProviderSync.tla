----------------------------- MODULE ProviderSync -----------------------------
(***************************************************************************)
(* runProviderSyncLocked (repair.go): the session files, the session       *)
(* databases and the global state file of a Codex home are moved to one    *)
(* provider, with a backup first and a rollback on failure.                *)
(*                                                                         *)
(* A store's contents are two things: its value - the provider its         *)
(* metadata names, or whether the global state is normalized - which only  *)
(* a sync changes, and the number of writes of ChatGPT/Codex it contains.  *)
(* Writers take no lock; a run looks for their processes now and then      *)
(* (ensureProviderSyncWritersStopped) and they may come and go between two *)
(* looks.  The provider-sync lock and the launcher guard are held          *)
(* throughout (module MaintenanceLock), so there is one run at a time.     *)
(***************************************************************************)
EXTENDS Naturals

CONSTANTS
    Files,          \* the session transcripts rollout-*.jsonl
    DBs,            \* the session databases
    Global,         \* .codex-global-state.json
    Providers,
    Raw, Normal,    \* the two conditions of the global state
    RaceWindow,     \* a writer may slip between the last Stat and the rename
    CountMayFail,   \* a database may be unreadable when it is counted
    ClockMayStepBack, \* five older backups may have later names
    MaxFaults,      \* bound: I/O errors in a behaviour
    MaxWrites,      \* bound: writes of ChatGPT/Codex to one store
    MaxRuns         \* bound: runs started

Stores == Files \cup DBs \cup {Global}
Values == Providers \cup {Raw, Normal}

ASSUME StoresAssumption ==
    /\ Global \notin Files \cup DBs
    /\ Files \cap DBs = {}
    /\ RaceWindow \in BOOLEAN /\ CountMayFail \in BOOLEAN
    /\ ClockMayStepBack \in BOOLEAN
    /\ MaxFaults \in Nat /\ MaxWrites \in Nat /\ MaxRuns \in Nat

VARIABLES
    value,     \* what each store says
    rev,       \* how many writes of ChatGPT/Codex each store contains
    wrote,     \* how many were made (history variable)
    writing,   \* a ChatGPT/Codex process runs
    pc,
    target,    \* targetProvider
    before,    \* value when the run began; of a file: OriginalSessionMetaLines
    changed,   \* rewriteChanges: the session files to rewrite
    todo,      \* what the current loop has left
    applied,   \* the stores written and not restored
    at, seen,  \* the file being replaced (or none), and rev at its read
    snap,      \* globalSnapshot and databaseSnapshots
    backup,    \* the values in this run's backup directory
    errs,      \* rollbackErrors: the stores whose restore failed
    result,    \* the providerSyncResult
    trouble,   \* setbacks met in this run, at most 2 (history variable)
    guest,     \* how the run has met the writers: not those of now, once, or
               \* once more after a setback by them (history variable)
    faults, runs

history == <<value, rev>>
world   == <<wrote, writing>>
plan    == <<target, before, changed, runs>>
safety  == <<snap, backup>>
setback == <<trouble, faults, guest>>

vars == <<value, rev, wrote, writing, pc, target, before, changed, todo,
          applied, at, seen, snap, backup, errs, result, trouble, guest, faults,
          runs>>

Locations ==
    {"idle", "survey", "check1", "backup", "check2", "snapshot", "files",
     "replace", "rename", "check3", "global", "globalWrite", "check4", "dbs",
     "rollback", "undo", "undoReplace", "undoRename"}

Results ==
    [status : {"none", "synced", "skipped", "failed", "crashed"},
     rollback : {"none", "not_started", "rolled_back", "rollback_failed"}]

\* What store s says once it is synchronized to provider p.
Want(p, s) == IF s = Global THEN Normal ELSE p

\* The stores restored from a snapshot rather than line by line.
Snapped == DBs \cup {Global}

TypeOK ==
    /\ value \in [Stores -> Values]
    /\ before \in [Stores -> Values]
    /\ rev \in [Stores -> Nat]
    /\ wrote \in [Stores -> Nat]
    /\ writing \in BOOLEAN
    /\ target \in Providers
    /\ pc \in Locations
    /\ changed \subseteq Files
    /\ todo \subseteq Stores
    /\ applied \subseteq Stores
    /\ at \subseteq Files
    /\ seen \in Nat
    /\ snap \in [Snapped -> [value : Values, rev : Nat]]
    /\ DOMAIN backup \subseteq Stores
    /\ errs \subseteq Stores
    /\ result \in Results
    /\ trouble \in 0 .. 2
    /\ guest \in {"new", "met", "again"}
    /\ faults \in 0 .. MaxFaults
    /\ runs \in 0 .. MaxRuns

Nothing == [s \in {} |-> Normal]

Init ==
    /\ value \in [Stores -> Values]
    /\ \A s \in Stores :
          value[s] \in (IF s = Global THEN {Raw, Normal} ELSE Providers)
    /\ rev = [s \in Stores |-> 0]
    /\ wrote = [s \in Stores |-> 0]
    /\ writing \in BOOLEAN
    /\ pc = "idle"
    /\ target \in Providers
    /\ before = value
    /\ changed = {} /\ todo = {} /\ applied = {} /\ at = {}
    /\ seen = 0
    /\ snap = [s \in Snapped |-> [value |-> value[s], rev |-> 0]]
    /\ backup = Nothing
    /\ errs = {}
    /\ result = [status |-> "none", rollback |-> "none"]
    /\ trouble = 0 /\ guest = "new" /\ faults = 0 /\ runs = 0

-----------------------------------------------------------------------------
Goto(loc) == pc' = loc /\ UNCHANGED result

Finish(status, rollback) ==
    /\ pc' = "idle"
    /\ result' = [status |-> status, rollback |-> rollback]

\* Something went wrong in this run: an I/O error, a writer found.
Setback == trouble' = IF trouble < 2 THEN trouble + 1 ELSE 2

Fault ==
    /\ faults < MaxFaults
    /\ faults' = faults + 1
    /\ Setback
    /\ UNCHANGED guest

Smooth == UNCHANGED setback

\* A writer is found, by its process or by what it wrote.  Found again, it is
\* the setback it was before.
MeetWriter ==
    /\ \/ guest = "new" /\ guest' = "met" /\ Setback
       \/ guest # "new" /\ guest' = "again" /\ UNCHANGED trouble
    /\ UNCHANGED faults

\* ensureProviderSyncWritersStopped returns an error, or nil.
WriterSeen == Fault \/ (writing /\ MeetWriter)
NoWriterSeen == ~writing /\ Smooth

\* The target is the caller's, or the provider of config.toml, read now that
\* the lock is held.
Begin ==
    /\ pc = "idle"
    /\ runs < MaxRuns
    /\ runs' = runs + 1
    /\ target' \in Providers
    /\ before' = value
    /\ pc' = "survey"
    /\ result' = [status |-> "none", rollback |-> "none"]
    /\ applied' = {} /\ todo' = {} /\ at' = {}
    /\ backup' = Nothing
    /\ errs' = {}
    /\ trouble' = 0 /\ guest' = "new"
    /\ UNCHANGED <<history, world, changed, seen, snap, faults>>

\* collectSessionChanges, readCodexGlobalState and the three counts.  A
\* database that cannot be read counts for nothing (countSQLiteUpdates).
Survey ==
    /\ pc = "survey"
    /\ \/ Fault /\ Finish("skipped", "none") /\ UNCHANGED changed
       \/ /\ changed' = {f \in Files : value[f] # target}
          /\ \E counted \in (IF CountMayFail THEN SUBSET DBs ELSE {DBs}) :
                IF /\ changed' = {}
                   /\ \A s \in counted \cup {Global} : value[s] = Want(target, s)
                THEN Finish("synced", "none")
                ELSE Goto("check1")
          /\ Smooth
    /\ UNCHANGED <<history, world, target, before, todo, applied, at, seen,
                   safety, errs, runs>>

Check1 ==
    /\ pc = "check1"
    /\ \/ WriterSeen /\ Finish("skipped", "none")
       \/ NoWriterSeen /\ Goto("backup")
    /\ UNCHANGED <<history, world, plan, todo, applied, at, seen, safety, errs>>

\* Mutant of Backup: the session files are not copied.
BackupWithoutFiles ==
    /\ pc = "backup"
    /\ backup' = [s \in Snapped |-> value[s]]
    /\ Smooth
    /\ Goto("check2")
    /\ UNCHANGED <<history, world, plan, todo, applied, at, seen, snap, errs>>

\* createProviderSyncBackup: the files to rewrite, all databases, the global
\* state; a failed backup removes its directory.
Backup ==
    /\ pc = "backup"
    /\ \/ Fault /\ Finish("skipped", "none") /\ UNCHANGED backup
       \/ /\ backup' = [s \in Snapped \cup changed |-> value[s]]
          /\ Smooth
          /\ Goto("check2")
    /\ UNCHANGED <<history, world, plan, todo, applied, at, seen, snap, errs>>

Check2 ==
    /\ pc = "check2"
    /\ \/ WriterSeen /\ Finish("failed", "not_started")
       \/ NoWriterSeen /\ Goto("snapshot")
    /\ UNCHANGED <<history, world, plan, todo, applied, at, seen, safety, errs>>

Snapshot ==
    /\ pc = "snapshot"
    /\ \/ Fault /\ Finish("failed", "not_started") /\ UNCHANGED <<snap, todo>>
       \/ /\ snap' = [s \in Snapped |-> [value |-> value[s], rev |-> rev[s]]]
          /\ todo' = changed
          /\ Smooth
          /\ Goto("files")
    /\ UNCHANGED <<history, world, plan, applied, at, seen, backup, errs>>

-----------------------------------------------------------------------------
\* applySessionChanges, over rewriteProviderSyncSessionMetaLines: read the
\* file, check that nobody changed it and that no writer runs, rename the
\* rewritten copy over it.  An error restores the files done so far.

\* Mutant of FileFails: the files done so far are not restored.
FileFailsForGood ==
    /\ Finish("failed", "not_started")
    /\ at' = {}
    /\ UNCHANGED <<todo, errs>>

FileFails ==
    /\ IF applied = {}
       THEN Finish("failed", "not_started") /\ UNCHANGED <<todo, errs>>
       ELSE Goto("undo") /\ todo' = applied /\ errs' = {}
    /\ at' = {}

ReadFile ==
    /\ pc = "files"
    /\ \E f \in todo :
          \/ Fault /\ FileFails /\ UNCHANGED seen
          \/ /\ at' = {f}
             /\ seen' = rev[f]
             /\ Smooth
             /\ Goto("replace")
             /\ UNCHANGED <<todo, errs>>
    /\ UNCHANGED <<history, world, plan, applied, safety>>

\* The file with its metadata lines saying v and everything read before.
Rename(f, v) ==
    /\ value' = [value EXCEPT ![f] = v]
    /\ rev' = [rev EXCEPT ![f] = seen]
    /\ at' = {}

FileChanged(f) == rev[f] # seen /\ MeetWriter

RenameFile(f) ==
    /\ Rename(f, target)
    /\ applied' = applied \cup {f}
    /\ todo' = todo \ {f}
    /\ Smooth
    /\ Goto("files")
    /\ UNCHANGED errs

\* Mutant of CheckFile: writers are looked for, the file is not compared.
CheckFileForWritersOnly ==
    /\ pc = "replace"
    /\ \E f \in at :
          \/ WriterSeen /\ FileFails
          \/ NoWriterSeen /\ Goto("rename") /\ UNCHANGED <<todo, at, errs>>
    /\ UNCHANGED <<history, applied, world, plan, seen, safety>>

CheckFile ==
    /\ pc = "replace"
    /\ \E f \in at :
          \/ (FileChanged(f) \/ WriterSeen) /\ FileFails
          \/ /\ rev[f] = seen
             /\ NoWriterSeen
             /\ Goto("rename")
             /\ UNCHANGED <<todo, at, errs>>
    /\ UNCHANGED <<history, applied, world, plan, seen, safety>>

ReplaceFile ==
    /\ pc = "rename"
    /\ \E f \in at :
          \/ RenameFile(f)
          \/ Fault /\ FileFails /\ UNCHANGED <<history, applied>>
    /\ UNCHANGED <<world, plan, seen, safety>>

FilesDone ==
    /\ pc = "files"
    /\ todo = {}
    /\ Goto("check3")
    /\ UNCHANGED <<history, world, plan, todo, applied, at, seen, safety, errs,
                   setback>>

Check3 ==
    /\ pc = "check3"
    /\ \/ WriterSeen /\ Goto("rollback")
       \/ NoWriterSeen /\ Goto("global")
    /\ UNCHANGED <<history, world, plan, todo, applied, at, seen, safety, errs>>

\* applyGlobalStateUpdate reads the file again, and writes what it read
\* (normalized) only when that changes something.
ReadGlobal ==
    /\ pc = "global"
    /\ \/ Fault /\ Goto("rollback") /\ UNCHANGED seen
       \/ /\ seen' = rev[Global]
          /\ Smooth
          /\ Goto(IF value[Global] = Normal THEN "check4" ELSE "globalWrite")
    /\ UNCHANGED <<history, world, plan, todo, applied, at, safety, errs>>

WriteGlobal ==
    /\ pc = "globalWrite"
    /\ \/ /\ Fault
          /\ Goto("rollback")
          /\ UNCHANGED <<history, applied>>
       \/ /\ value' = [value EXCEPT ![Global] = Normal]
          /\ rev' = [rev EXCEPT ![Global] = seen]
          /\ applied' = applied \cup {Global}
          /\ Smooth
          /\ Goto("check4")
    /\ UNCHANGED <<world, plan, todo, at, seen, safety, errs>>

\* Mutant of Check4: a writer seen late ends the run without a rollback.
Check4GivesUp ==
    /\ pc = "check4"
    /\ \/ WriterSeen /\ Finish("failed", "rollback_failed") /\ UNCHANGED todo
       \/ NoWriterSeen /\ Goto("dbs") /\ todo' = DBs
    /\ UNCHANGED <<history, world, plan, applied, at, seen, safety, errs>>

Check4 ==
    /\ pc = "check4"
    /\ \/ WriterSeen /\ Goto("rollback") /\ UNCHANGED todo
       \/ NoWriterSeen /\ Goto("dbs") /\ todo' = DBs
    /\ UNCHANGED <<history, world, plan, applied, at, seen, safety, errs>>

\* applySQLiteUpdates: one transaction per database.
UpdateDB ==
    /\ pc = "dbs"
    /\ \E d \in todo :
          \/ Fault /\ Goto("rollback") /\ UNCHANGED <<value, applied, todo>>
          \/ /\ value' = [value EXCEPT ![d] = target]
             /\ applied' = applied \cup {d}
             /\ todo' = todo \ {d}
             /\ Smooth
             /\ Goto("dbs")
    /\ UNCHANGED <<rev, world, plan, at, seen, safety, errs>>

\* pruneProviderSyncBackups keeps five directories: those with the latest
\* local times for names, this run's among them unless the clock went back.
Prune ==
    backup' \in IF ClockMayStepBack THEN {backup, Nothing} ELSE {backup}

DBsDone ==
    /\ pc = "dbs"
    /\ todo = {}
    /\ Prune
    /\ Finish("synced", "none")
    /\ UNCHANGED <<history, world, plan, todo, applied, at, seen, snap, errs,
                   setback>>

-----------------------------------------------------------------------------
\* rollbackProviderSyncFiles: not attempted while a writer runs; then the
\* databases, the global state and the session files, errors collected.

Rollback ==
    /\ pc = "rollback"
    /\ \/ /\ WriterSeen
          /\ Finish("failed", "rollback_failed")
          /\ UNCHANGED <<todo, errs>>
       \/ /\ NoWriterSeen
          /\ todo' = Snapped \cup changed
          /\ errs' = {}
          /\ Goto("undo")
    /\ UNCHANGED <<history, world, plan, applied, at, seen, safety>>

\* restoreProviderSyncFileSnapshot overwrites whatever is there now.
RestoreSnapshot ==
    /\ pc = "undo"
    /\ \E s \in todo \cap Snapped :
          /\ s = Global => todo \cap DBs = {}
          /\ todo' = todo \ {s}
          /\ \/ /\ Fault
                /\ errs' = errs \cup {s}
                /\ UNCHANGED <<history, applied>>
             \/ /\ value' = [value EXCEPT ![s] = snap[s].value]
                /\ rev' = [rev EXCEPT ![s] = snap[s].rev]
                /\ applied' = applied \ {s}
                /\ Smooth
                /\ UNCHANGED errs
    /\ Goto("undo")
    /\ UNCHANGED <<world, plan, at, seen, safety>>

RestoreFails(f) ==
    /\ errs' = errs \cup {f}
    /\ todo' = todo \ {f}
    /\ at' = {}
    /\ Goto("undo")

ReadForRestore ==
    /\ pc = "undo"
    /\ todo \cap Snapped = {}
    /\ \E f \in todo :
          \/ Fault /\ RestoreFails(f) /\ UNCHANGED seen
          \/ /\ at' = {f}
             /\ seen' = rev[f]
             /\ Smooth
             /\ Goto("undoReplace")
             /\ UNCHANGED <<todo, errs>>
    /\ UNCHANGED <<history, world, plan, applied, safety>>

RestoreFile(f) ==
    /\ Rename(f, before[f])
    /\ applied' = applied \ {f}
    /\ todo' = todo \ {f}
    /\ Smooth
    /\ Goto("undo")
    /\ UNCHANGED errs

CheckRestore ==
    /\ pc = "undoReplace"
    /\ \E f \in at :
          \/ (FileChanged(f) \/ WriterSeen) /\ RestoreFails(f)
          \/ /\ rev[f] = seen
             /\ NoWriterSeen
             /\ Goto("undoRename")
             /\ UNCHANGED <<todo, at, errs>>
    /\ UNCHANGED <<history, applied, world, plan, seen, safety>>

ReplaceRestore ==
    /\ pc = "undoRename"
    /\ \E f \in at :
          \/ RestoreFile(f)
          \/ Fault /\ RestoreFails(f) /\ UNCHANGED <<history, applied>>
    /\ UNCHANGED <<world, plan, seen, safety>>

\* Mutant of UndoDone: restores that failed are not reported.
UndoDoneInSilence ==
    /\ pc = "undo"
    /\ todo = {}
    /\ Finish("failed", "rolled_back")
    /\ UNCHANGED <<history, world, plan, todo, applied, at, seen, safety, errs,
                   setback>>

UndoDone ==
    /\ pc = "undo"
    /\ todo = {}
    /\ Finish("failed", IF errs = {} THEN "rolled_back" ELSE "rollback_failed")
    /\ UNCHANGED <<history, world, plan, todo, applied, at, seen, safety, errs,
                   setback>>

-----------------------------------------------------------------------------
\* The environment: the process dies; ChatGPT/Codex starts, writes, ends.

Crash ==
    /\ pc # "idle"
    /\ Finish("crashed", "none")
    /\ UNCHANGED <<history, world, plan, todo, applied, at, seen, safety, errs,
                   setback>>

WriterToggles ==
    /\ writing' = ~writing
    /\ guest' = IF writing' /\ guest = "met" THEN "new" ELSE guest
    /\ UNCHANGED <<history, wrote, pc, plan, todo, applied, at, seen, safety,
                   errs, result, trouble, faults>>

\* Replacing s: its last check is done and its rename is not.
Replacing(s) == pc \in {"rename", "undoRename"} /\ s \in at

WriterWrites(s) ==
    /\ writing
    /\ Replacing(s) => RaceWindow
    /\ wrote[s] < MaxWrites
    /\ rev' = [rev EXCEPT ![s] = @ + 1]
    /\ wrote' = [wrote EXCEPT ![s] = @ + 1]
    /\ UNCHANGED <<value, writing, pc, plan, todo, applied, at, seen, safety,
                   errs, result, setback>>

Forward ==
    \/ Begin \/ Survey \/ Check1 \/ Backup \/ Check2 \/ Snapshot
    \/ ReadFile \/ CheckFile \/ ReplaceFile \/ FilesDone \/ Check3
    \/ ReadGlobal \/ WriteGlobal \/ Check4 \/ UpdateDB \/ DBsDone

Backward ==
    \/ Rollback \/ RestoreSnapshot \/ ReadForRestore \/ CheckRestore
    \/ ReplaceRestore \/ UndoDone

Next ==
    \/ Forward \/ Backward \/ Crash
    \/ WriterToggles \/ \E s \in Stores : WriterWrites(s)

Spec == Init /\ [][Next]_vars
-----------------------------------------------------------------------------
Partial == result.rollback = "rollback_failed"

\* A finished run tells the truth: "synced" means that every store is at the
\* target, and a failure not reported as partial that every store is as the
\* run found it (repair.go:938-993, the result of every early return).
HonestOutcome ==
    pc = "idle" =>
        /\ result.status = "synced" =>
              \A s \in Stores : value[s] = Want(target, s)
        /\ result.status \in {"skipped", "failed"} /\ ~Partial => value = before

\* One setback that passes - an I/O error, or a writer found once, running or
\* by what it wrote - never leaves the history partial.  That takes a second
\* setback, or the writer of the first one found again, as the files are not
\* rolled back under a running writer (repair.go:848-870, 995-1003, 1776).
OneSetbackIsUndone == pc = "idle" /\ Partial => trouble > 1 \/ guest = "again"

\* Whatever a run has changed, also when it crashes half way, its backup holds
\* as it was before the run (repair.go:832 before 848).
ChangesAreBackedUp ==
    \A s \in Stores :
        value[s] # before[s] => s \in DOMAIN backup /\ backup[s] = before[s]

\* What ChatGPT/Codex appends to a session file is never lost, also when it
\* runs between two looks of a run or during a rollback: files are rewritten
\* line by line from a fresh read (repair.go:1694-1791).
SessionAppendsSurvive == \A f \in Files : rev[f] = wrote[f]

\* A run, seen from outside, does what AtomicSync promises.
Outcome == IF Partial THEN "partial" ELSE result.status

Promise == INSTANCE AtomicSync WITH
    history <- IF pc = "idle" THEN value ELSE before,
    running <- pc # "idle",
    outcome <- Outcome

KeepsPromise == Promise!ASpec
=============================================================================

---------------------------- MODULE HistoryRepair ----------------------------
(***************************************************************************)
(* The conversation history repair (conversation_history_repair.go): one   *)
(* task of the manager at a time scans the session files, backs up and     *)
(* replaces those with a namespace field, and undoes the replacements when *)
(* an ordinary error stops it.  The user may cancel at any moment and      *)
(* ChatGPT/Codex may run between two looks of the repair.                  *)
(*                                                                         *)
(* A file is `dirty' or clean and contains a number of writes of           *)
(* ChatGPT/Codex; a scan or a backup of it is that number.  What is        *)
(* appended has no namespace field.                                        *)
(***************************************************************************)
EXTENDS Naturals, FiniteSets

CONSTANTS
    Files,        \* the rollout files of the sessions and archived sessions
    RaceWindow,   \* a writer may slip between the last Stat and the rename
    MaxFaults, MaxWrites, MaxTasks  \* bounds

ASSUME ConstantsAssumption ==
    /\ IsFiniteSet(Files) /\ Files # {}
    /\ RaceWindow \in BOOLEAN
    /\ MaxFaults \in Nat /\ MaxWrites \in Nat /\ MaxTasks \in Nat

VARIABLES
    dirty,     \* the files with a namespace field
    rev,       \* writes of ChatGPT/Codex in each file
    wrote,     \* and how many were made (history variable)
    writer,    \* a ChatGPT/Codex process runs, or none
    status,    \* conversationHistoryRepairTask.Status; "idle": no task
    cancel,    \* "asked": a cancel or shutdown has set the status, not yet
               \* the context; "sent": the context of the task is cancelled
    pc,        \* where the task's goroutine is
    found,     \* the files to change: the writes each had when scanned
    todo,      \* still to scan, then still to repair
    applied,
    backup,    \* the writes in the copies of the backup directories
    meta,      \* status and appliedFiles in metadata.json
    lost,      \* the files whose restore failed
    faults, tasks

files == <<dirty, rev>>
world == <<wrote, writer>>
task  == <<status, cancel, tasks>>
job   == <<found, todo, applied, lost>>

vars == <<dirty, rev, wrote, writer, status, cancel, pc, found, todo,
          applied, backup, meta, lost, faults, tasks>>

Running == {"running", "cancelling"}
Ended == {"ok", "failed", "cancelled"}
Early == {"start", "active", "scan", "recheck", "guard", "prepare"}
MetaStatus == {"none", "prepared", "completed", "cancelled", "interrupted",
               "rolled_back", "rollback_failed"}

TypeOK ==
    /\ dirty \subseteq Files
    /\ rev \in [Files -> Nat] /\ wrote \in [Files -> Nat]
    /\ writer \in {"stopped", "running"}
    /\ cancel \in {"none", "asked", "sent"}
    /\ status \in {"idle"} \cup Running \cup Ended
    /\ pc \in Early \cup {"idle", "next", "copy", "check", "rename", "finish",
                          "fail", "rollback"}
    /\ DOMAIN found \subseteq Files /\ \A f \in DOMAIN found : found[f] \in Nat
    /\ todo \subseteq Files /\ applied \subseteq DOMAIN found
    /\ DOMAIN backup \subseteq Files /\ \A f \in DOMAIN backup : backup[f] \in Nat
    /\ meta \in [status : MetaStatus, applied : SUBSET Files]
    /\ lost \subseteq DOMAIN found
    /\ faults \in 0 .. MaxFaults /\ tasks \in 0 .. MaxTasks

None == [f \in {} |-> 0]

\* Function g, with n at f.
With(g, f, n) == [x \in DOMAIN g \cup {f} |-> IF x = f THEN n ELSE g[x]]

Init ==
    /\ dirty \in SUBSET Files
    /\ rev = [f \in Files |-> 0] /\ wrote = [f \in Files |-> 0]
    /\ writer \in {"stopped", "running"}
    /\ status = "idle" /\ cancel = "none"
    /\ pc = "idle"
    /\ found = None /\ todo = {} /\ applied = {}
    /\ backup = None
    /\ meta = [status |-> "none", applied |-> {}]
    /\ lost = {}
    /\ faults = 0 /\ tasks = 0

-----------------------------------------------------------------------------
\* The commands of the manager.

\* repairConversationHistory: a running task is returned, not replaced.
Start ==
    /\ status \notin Running
    /\ tasks < MaxTasks
    /\ tasks' = tasks + 1
    /\ status' = "running"
    /\ cancel' = "none"
    /\ pc' = "start"
    /\ found' = None /\ todo' = Files /\ applied' = {} /\ lost' = {}
    /\ meta' = [status |-> "none", applied |-> {}]
    /\ UNCHANGED <<files, world, backup, faults>>

\* cancelConversationHistoryRepair and shutdownConversationHistoryRepair set
\* the status under the mutex and cancel the context after releasing it.
Cancel ==
    /\ status \in Running
    /\ status' = "cancelling"
    /\ cancel' = IF cancel = "sent" THEN "sent" ELSE "asked"
    /\ UNCHANGED <<files, world, tasks, pc, job, backup, meta, faults>>

Deliver ==
    /\ cancel = "asked"
    /\ cancel' = "sent"
    /\ UNCHANGED <<files, world, status, tasks, pc, job, backup, meta, faults>>

-----------------------------------------------------------------------------
\* The goroutine.  runConversationHistoryRepairTask records the end.

End(outcome) ==
    /\ pc' = "idle"
    /\ status' = outcome
    /\ UNCHANGED <<cancel, tasks>>

Go(loc) == pc' = loc /\ UNCHANGED task

Fault ==
    /\ faults < MaxFaults
    /\ faults' = faults + 1

\* Before the first write every error just ends the task.
Stop ==
    /\ pc \in Early
    /\ \/ cancel = "sent" /\ End("cancelled") /\ UNCHANGED faults
       \/ Fault /\ End("failed")
       \/ /\ pc \in {"active", "recheck"}
          /\ writer = "running"
          /\ End("failed")
          /\ UNCHANGED faults
    /\ UNCHANGED <<files, world, job, backup, meta>>

\* The lock is taken, ChatGPT/Codex does not run; rechecked after the scan,
\* and the launcher guard is taken; the disk has room.
Proceed ==
    /\ cancel # "sent"
    /\ \/ pc = "start" /\ Go("active")
       \/ pc = "active" /\ writer = "stopped" /\ Go("scan")
       \/ pc = "recheck" /\ writer = "stopped" /\ Go("guard")
       \/ pc = "guard" /\ Go("prepare")
    /\ UNCHANGED <<files, world, job, backup, meta, faults>>

\* One file after the other; the last decides whether there is work.
Scan ==
    /\ pc = "scan"
    /\ cancel # "sent"
    /\ \E f \in todo :
          /\ found' = IF f \in dirty THEN With(found, f, rev[f]) ELSE found
          /\ IF todo # {f}
             THEN todo' = todo \ {f} /\ UNCHANGED <<pc, task>>
             ELSE /\ todo' = DOMAIN found'
                  /\ IF todo' = {} THEN End("ok") ELSE Go("recheck")
    /\ UNCHANGED <<files, world, applied, lost, backup, meta, faults>>

Prepare ==
    /\ pc = "prepare"
    /\ cancel # "sent"
    /\ meta' = [meta EXCEPT !.status = "prepared"]
    /\ Go("next")
    /\ UNCHANGED <<files, world, job, backup, faults>>

\* An update of metadata.json; a failure of it is ignored.
Record(s, done) ==
    \/ meta' = [status |-> s, applied |-> done] /\ UNCHANGED faults
    \/ Fault /\ UNCHANGED meta

\* markCancelled: what is done stays.
Cancelled ==
    /\ pc \in {"next", "copy", "check"}
    /\ cancel = "sent"
    /\ Record("cancelled", applied)
    /\ End("cancelled")
    /\ UNCHANGED <<files, world, job, backup>>

Next1 ==
    /\ pc = "next"
    /\ cancel # "sent"
    /\ Go(IF todo = {} THEN "finish" ELSE "copy")
    /\ UNCHANGED <<files, world, job, backup, meta, faults>>

\* The file or its writers changed: nothing is rolled back.
Interrupted ==
    /\ Record("interrupted", applied)
    /\ End("failed")
    /\ UNCHANGED <<files, world, job, backup>>

Broken ==
    /\ Fault
    /\ Go("fail")
    /\ UNCHANGED <<files, world, job, backup, meta>>

Current == CHOOSE f \in todo : TRUE

\* The original goes to the backup while the repaired copy is built; the
\* backup is complete only if the file is the one that was scanned.
Copy ==
    /\ pc = "copy"
    /\ \/ Broken
       \/ rev[Current] # found[Current] /\ Interrupted
       \/ /\ rev[Current] = found[Current]
          /\ backup' = With(backup, Current, rev[Current])
          /\ Go("check")
          /\ UNCHANGED <<files, world, job, meta, faults>>

\* replaceFile: the repaired copy of what was scanned.
Replace ==
    /\ dirty' = dirty \ {Current}
    /\ rev' = [rev EXCEPT ![Current] = found[Current]]
    /\ todo' = todo \ {Current}
    /\ applied' = applied \cup {Current}
    /\ Go("next")
    /\ UNCHANGED <<world, found, lost, backup, meta, faults>>

\* Mutant of Check: the file is not compared with the scan again.
CheckWritersOnly ==
    /\ pc = "check"
    /\ cancel # "sent"
    /\ writer = "stopped"
    /\ Go("rename")
    /\ UNCHANGED <<files, world, job, backup, meta, faults>>

Check ==
    /\ pc = "check"
    /\ cancel # "sent"
    /\ \/ writer = "running" /\ Interrupted
       \/ rev[Current] # found[Current] /\ Interrupted
       \/ Broken
       \/ /\ writer = "stopped" /\ rev[Current] = found[Current]
          /\ Go("rename")
          /\ UNCHANGED <<files, world, job, backup, meta, faults>>

Rename ==
    /\ pc = "rename"
    /\ Replace \/ Broken

\* Mutant of Fail: the rollback waits until the writers have gone.
FailWaits ==
    /\ pc = "fail"
    /\ writer = "stopped"
    /\ Go("rollback")
    /\ UNCHANGED <<files, world, job, backup, meta, faults>>

\* An ordinary error: roll back unless a writer is seen.
Fail ==
    /\ pc = "fail"
    /\ \/ writer = "running" /\ Interrupted
       \/ /\ writer = "stopped"
          /\ Go("rollback")
          /\ UNCHANGED <<files, world, job, backup, meta, faults>>

\* Mutant of Rollback: a restore that failed is forgotten.
RollbackQuiet ==
    /\ pc = "rollback"
    /\ IF applied = {}
       THEN Record("rolled_back", {}) /\ End("failed") /\ UNCHANGED <<files, job>>
       ELSE \E f \in applied :
              /\ applied' = applied \ {f}
              /\ \/ Fault /\ UNCHANGED files
                 \/ /\ UNCHANGED faults
                    /\ dirty' = dirty \cup {f}
                    /\ rev' = [rev EXCEPT ![f] = backup[f]]
              /\ UNCHANGED <<found, todo, lost, task, pc, meta>>
    /\ UNCHANGED <<world, backup>>

\* rollbackConversationHistoryFiles copies each backup over its file; a
\* writer seen stops it, other errors are collected.
Rollback ==
    /\ pc = "rollback"
    /\ \/ /\ applied = {}
          /\ Record(IF lost # {} THEN "rollback_failed" ELSE "rolled_back", {})
          /\ End("failed")
          /\ UNCHANGED <<files, job>>
       \/ /\ writer = "running" /\ applied # {}
          /\ Record("rollback_failed", {})
          /\ End("failed")
          /\ UNCHANGED <<files, job>>
       \/ \E f \in applied :
             /\ applied' = applied \ {f}
             /\ \/ Fault /\ lost' = lost \cup {f} /\ UNCHANGED files
                \/ /\ writer = "stopped"
                   /\ UNCHANGED faults
                   /\ dirty' = dirty \cup {f}
                   /\ rev' = [rev EXCEPT ![f] = backup[f]]
                   /\ UNCHANGED lost
             /\ UNCHANGED <<found, todo, task, pc, meta>>
    /\ UNCHANGED <<world, backup>>

Finish ==
    /\ pc = "finish"
    /\ \/ meta' = [status |-> "completed", applied |-> applied]
          /\ End("ok") /\ UNCHANGED faults
       \/ Fault /\ End("failed") /\ UNCHANGED meta
    /\ UNCHANGED <<files, world, job, backup>>

-----------------------------------------------------------------------------
\* The environment.

Crash ==
    /\ pc # "idle"
    /\ pc' = "idle"
    /\ status' = "idle" /\ cancel' = "none"
    /\ UNCHANGED <<files, world, tasks, job, backup, meta, faults>>

WriterToggles ==
    /\ writer' = IF writer = "stopped" THEN "running" ELSE "stopped"
    /\ UNCHANGED <<files, wrote, task, pc, job, backup, meta, faults>>

WriterAppends(f) ==
    /\ writer = "running"
    /\ pc = "rename" /\ f = Current => RaceWindow
    /\ wrote[f] < MaxWrites
    /\ rev' = [rev EXCEPT ![f] = @ + 1]
    /\ wrote' = [wrote EXCEPT ![f] = @ + 1]
    /\ UNCHANGED <<dirty, writer, task, pc, job, backup, meta, faults>>

Worker ==
    \/ Stop \/ Proceed \/ Scan \/ Prepare \/ Cancelled \/ Next1 \/ Copy
    \/ Check \/ Rename \/ Fail \/ Rollback \/ Finish

Next ==
    \/ Start \/ Cancel \/ Deliver \/ Worker \/ Crash
    \/ WriterToggles \/ \E f \in Files : WriterAppends(f)

Spec == Init /\ [][Next]_vars

\* The goroutine of a task is scheduled, and so is the call of its cancel.
FairSpec == Spec /\ WF_vars(Worker) /\ WF_vars(Deliver)

-----------------------------------------------------------------------------
\* Properties.

\* What metadata.json and the task report is true of the files: completed is
\* every dirty file found, a cancelled or interrupted repair stopped after
\* exactly the files it counts, and a rolled back one left all as they were.
OutcomeTrue ==
    pc = "idle" =>
        /\ status = "ok" => DOMAIN found \cap dirty = {}
        /\ meta.status = "completed" => meta.applied = DOMAIN found
        /\ meta.status \in {"completed", "cancelled", "interrupted"}
              => DOMAIN found \ dirty = meta.applied
        /\ meta.status = "rolled_back" => DOMAIN found \subseteq dirty

\* Whenever a namespace field is removed, some backup directory has the file
\* as it was at that very moment, with everything written so far, so that a
\* crash at any later point can be undone by hand.
RepairsAreBackedUp ==
    [][\A f \in dirty \ dirty' : f \in DOMAIN backup /\ backup[f] = rev[f]]_vars

\* A repaired copy never replaces a file that has been written since it was
\* scanned (the rollback is the one step that may, see AppendsSurvive).
RepairsKeepAppends ==
    [][pc # "rollback" => \A f \in Files : rev'[f] >= rev[f]]_vars

\* A repair changes no file without a backup of what is in it at that moment.
RepairsAreCareful == RepairsAreBackedUp /\ RepairsKeepAppends

\* A task that was started ends, whatever ChatGPT/Codex does and whenever it
\* is cancelled: the next repair and the shutdown wait for it.
TaskEnds == status \in Running ~> status \notin Running

\* The inductive invariant of the proofs.  Up to the first write nothing is
\* repaired; then the files found are those still to do, all dirty, and those
\* done, all clean and in the backup; a rollback moves them back.
Untouched ==
    pc \in Early =>
        /\ applied = {} /\ lost = {} /\ meta.status = "none"
        /\ DOMAIN found \subseteq dirty
        /\ pc \in {"recheck", "guard", "prepare"} => todo = DOMAIN found

Repairing == {"next", "copy", "check", "rename", "finish", "fail"}

Partitioned ==
    pc \in Repairing =>
        /\ todo \cup applied = DOMAIN found
        /\ todo \subseteq dirty /\ applied \cap dirty = {}
        /\ lost = {} /\ meta.status = "prepared"
        /\ pc \in {"copy", "check", "rename"} => todo # {}
        /\ pc = "finish" => todo = {}

Covered ==
    /\ pc \in Repairing \cup {"rollback"} => applied \subseteq DOMAIN backup
    /\ pc \in {"check", "rename"} =>
          Current \in DOMAIN backup /\ backup[Current] = found[Current]
    /\ pc = "rename" /\ ~RaceWindow => rev[Current] = found[Current]

Undoing ==
    pc = "rollback" =>
        /\ applied \cap dirty = {} /\ meta.status = "prepared"
        /\ DOMAIN found \ applied \subseteq dirty \cup lost

IInv == TypeOK /\ Untouched /\ Partitioned /\ Covered /\ Undoing /\ OutcomeTrue

\* Nothing this repair does removes what ChatGPT/Codex has written.
AppendsSurvive == [][\A f \in Files : rev'[f] >= rev[f]]_vars
=============================================================================

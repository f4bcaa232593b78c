-------------------------- MODULE ProviderSyncProofs --------------------------
(***************************************************************************)
(* ProviderSync for any sets of files, databases and providers, any number *)
(* of faults, writes and runs.  Everything rests on one fact, Core: at any *)
(* moment a store is at its target if it is in `applied', and as the run   *)
(* found it otherwise.  The rest of the inductive invariant says what      *)
(* `applied' can be in each phase.  What a sync writes (CatalogSync) is a  *)
(* second part, for any rollouts, rows and roots: a sync that settles      *)
(* every row, list and file that its survey looks at has nothing left.     *)
(***************************************************************************)
EXTENDS ProviderSync, CatalogSync, DataLemmas

Core ==
    \A s \in Stores :
        value[s] = IF s \in applied THEN Want(target, s) ELSE before[s]

Undoing == {"undo", "undoReplace", "undoRename"}
Planned == Locations \ {"idle", "survey"}
BackedUp == Planned \ {"check1", "backup"}
Changing == BackedUp \ {"check2", "snapshot"}

\* What has been written, phase by phase.
Phases ==
    /\ pc \in Locations \ ({"idle"} \cup Changing) => applied = {}
    /\ pc \in Planned => changed = {f \in Files : before[f] # target}
    /\ pc \in {"files", "replace", "rename"} =>
          todo \subseteq changed /\ applied = changed \ todo
    /\ pc \in {"replace", "rename"} => at \subseteq todo
    /\ pc \in {"check3", "global", "globalWrite"} => applied = changed
    /\ pc \in {"check4", "dbs"} =>
          /\ changed \subseteq applied
          /\ Global \in applied \/ before[Global] = Normal
    /\ pc = "dbs" => todo \subseteq DBs /\ DBs \ todo \subseteq applied
    /\ pc \in Undoing => todo \subseteq Snapped \cup changed
    /\ pc \in Undoing => applied \subseteq todo \cup errs
    /\ pc \in {"undoReplace", "undoRename"} => at \subseteq todo /\ todo \subseteq Files

\* What can be restored, and from what.
Copies ==
    /\ pc \in Changing => \A s \in Snapped : snap[s].value = before[s]
    /\ pc \in BackedUp => DOMAIN backup = Snapped \cup changed
    /\ \A s \in DOMAIN backup : backup[s] = before[s]
    /\ applied \subseteq DOMAIN backup \/ (pc = "idle" /\ ClockMayStepBack)

\* A run that ended unharmed has undone everything.
Verdicts ==
    pc = "idle" =>
        /\ ~CountMayFail /\ result.status = "synced" =>
              \A s \in Stores : value[s] = Want(target, s)
        /\ result.status \in {"skipped", "failed"} /\ ~Partial => applied = {}

\* Going back takes a setback, failing to go back another or the same writer.
Setbacks ==
    /\ guest # "new" => trouble > 0
    /\ pc \in Undoing \cup {"rollback"} => trouble > 0
    /\ pc \in Undoing /\ errs # {} => trouble > 1 \/ guest = "again"
    /\ pc = "idle" /\ Partial => trouble > 1 \/ guest = "again"
    /\ pc # "idle" => result = [status |-> "none", rollback |-> "none"]

IInv == TypeOK /\ Core /\ Phases /\ Copies /\ Verdicts /\ Setbacks

USE StoresAssumption
USE DEF Stores, Values, Locations, Results, Snapped, Want, Partial
USE DEF Undoing, Planned, BackedUp, Changing

-----------------------------------------------------------------------------
\* The inductive invariant holds at the start.
LEMMA IInvInit == Init => IInv
<1> SUFFICES ASSUME Init PROVE IInv
  OBVIOUS
<1> USE DEF Init
<1>1. TypeOK /\ Core
  BY DEF TypeOK, Core, Nothing
<1>2. Phases /\ Copies /\ Verdicts /\ Setbacks
  BY DEF Phases, Copies, Verdicts, Setbacks, Nothing
<1> QED
  BY <1>1, <1>2 DEF IInv

\* Every step, of a run or of its environment, preserves it.
LEMMA IInvStep == IInv /\ [Next]_vars => IInv'
<1> SUFFICES ASSUME IInv, [Next]_vars PROVE IInv'
  OBVIOUS
<1> USE DEF IInv, TypeOK, Core, Phases, Copies, Verdicts, Setbacks
<1>1. CASE Begin
  BY <1>1, SMTT(30) DEF Begin, Nothing, history, world
<1>2. CASE Survey
  BY <1>2, SMTT(30) DEF Survey, Fault, Finish, Goto, Smooth, history, world,
    safety, Setback, setback
<1>3. CASE Check1
  BY <1>3, SMTT(30) DEF Check1, WriterSeen, MeetWriter, Finish, NoWriterSeen,
    Goto, history, world, plan, safety, Fault, Setback, Smooth, setback
<1>4. CASE Backup
  BY <1>4, SMTT(30) DEF Backup, Fault, Finish, Smooth, Goto, history, world,
    plan, Setback, setback
<1>5. CASE Check2
  BY <1>5, SMTT(30) DEF Check2, WriterSeen, MeetWriter, Finish, NoWriterSeen,
    Goto, history, world, plan, safety, Fault, Setback, Smooth, setback
<1>6. CASE Snapshot
  BY <1>6, SMTT(30) DEF Snapshot, Fault, Finish, Smooth, Goto, history, world,
    plan, Setback, setback
<1>7. CASE ReadFile
  BY <1>7, SMTT(30) DEF ReadFile, Fault, FileFails, Smooth, Goto, history,
    world, plan, safety, Setback, Finish, setback
<1>8. CASE CheckFile
  BY <1>8, SMTT(30) DEF CheckFile, FileChanged, WriterSeen, MeetWriter,
    FileFails, history, RenameFile, NoWriterSeen, Goto, world, plan, safety, Setback,
    Fault, Finish, Rename, Smooth, setback
<1>9. CASE ReplaceFile
  BY <1>9, SMTT(30) DEF ReplaceFile, RenameFile, Fault, FileFails, history,
    world, plan, safety, Rename, Smooth, Goto, Setback, Finish, setback
<1>10. CASE FilesDone
  BY <1>10, SMTT(30) DEF FilesDone, Goto, history, world, plan, safety,
    setback
<1>11. CASE Check3
  BY <1>11, SMTT(30) DEF Check3, WriterSeen, MeetWriter, Goto, NoWriterSeen,
    history, world, plan, safety, Fault, Setback, Smooth, setback
<1>12. CASE ReadGlobal
  BY <1>12, SMTT(30) DEF ReadGlobal, Fault, Goto, Smooth, history, world,
    plan, safety, Setback, setback
<1>13. CASE WriteGlobal
  BY <1>13, SMTT(30) DEF WriteGlobal, Fault, Goto, history, Smooth, world,
    plan, safety, Setback, setback
<1>14. CASE Check4
  BY <1>14, SMTT(30) DEF Check4, WriterSeen, MeetWriter, Goto, NoWriterSeen,
    history, world, plan, safety, Fault, Setback, Smooth, setback
<1>15. CASE UpdateDB
  BY <1>15, SMTT(30) DEF UpdateDB, Fault, Goto, Smooth, world, plan, safety,
    Setback, setback
<1>16. CASE DBsDone
  BY <1>16, SMTT(30) DEF DBsDone, Prune, Nothing, Finish, history, world, plan,
    setback
<1>17. CASE Rollback
  BY <1>17, SMTT(30) DEF Rollback, WriterSeen, MeetWriter, Finish, NoWriterSeen,
    Goto, history, world, plan, safety, Fault, Setback, Smooth, setback
<1>18. CASE RestoreSnapshot
  BY <1>18, SMTT(30) DEF RestoreSnapshot, Fault, history, Smooth, Goto, world,
    plan, safety, Setback, setback
<1>19. CASE ReadForRestore
  BY <1>19, SMTT(30) DEF ReadForRestore, Fault, RestoreFails, Smooth, Goto,
    history, world, plan, safety, Setback, setback
<1>20. CASE CheckRestore
  <2>1. CASE \E f \in at : (FileChanged(f) \/ WriterSeen) /\ RestoreFails(f)
    BY <1>20, <2>1, SMTT(30) DEF CheckRestore, FileChanged, WriterSeen, MeetWriter,
      RestoreFails, history, Goto, world, plan, safety, Setback, Fault, setback
  <2>2. CASE NoWriterSeen /\ Goto("undoRename") /\ UNCHANGED <<todo, at, errs>>
    BY <1>20, <2>2, SMTT(30) DEF CheckRestore, history, NoWriterSeen, Goto,
      world, plan, safety, Smooth, setback
  <2> QED
    BY <1>20, <2>1, <2>2 DEF CheckRestore
<1>21. CASE ReplaceRestore
  BY <1>21, SMTT(30) DEF ReplaceRestore, RestoreFile, Fault, RestoreFails,
    history, world, plan, safety, Rename, Smooth, Goto, Setback, setback
<1>22. CASE UndoDone
  BY <1>22, SMTT(30) DEF UndoDone, Finish, history, world, plan, safety,
    setback
<1>23. CASE Crash
  BY <1>23, SMTT(30) DEF Crash, Finish, history, world, plan, safety, setback
<1>24. CASE WriterToggles
  BY <1>24, SMTT(30) DEF WriterToggles, history, plan, safety, setback
<1>25. CASE \E s \in Stores : WriterWrites(s)
  BY <1>25, SMTT(30) DEF WriterWrites, plan, safety, setback
<1>26. CASE UNCHANGED vars
  BY <1>26, SMTT(30) DEF vars
<1> HIDE DEF IInv
<1> QED
  BY <1>1, <1>2, <1>3, <1>4, <1>5, <1>6, <1>7, <1>8, <1>9, <1>10, <1>11,
     <1>12, <1>13, <1>14, <1>15, <1>16, <1>17, <1>18, <1>19, <1>20, <1>21,
     <1>22, <1>23, <1>24, <1>25, <1>26 DEF Next, Forward, Backward

LEMMA IInvAlways == Spec => []IInv
  BY IInvInit, IInvStep, PTL DEF Spec

-----------------------------------------------------------------------------
\* The variables keep their types.
THEOREM TypeCorrect == Spec => []TypeOK
<1>1. IInv => TypeOK
  BY DEF IInv
<1> QED
  BY <1>1, IInvAlways, PTL

\* A run that reports "synced" has synchronized every store, and one that
\* fails without reporting a partial history has changed none - provided
\* that unreadable databases are not taken for synchronized ones
\* (repair.go:1873-1955).
THEOREM Honest == ASSUME CountMayFail = FALSE PROVE Spec => []HonestOutcome
<1>1. IInv => HonestOutcome
  BY DEF IInv, TypeOK, Core, Verdicts, HonestOutcome
<1> QED
  BY <1>1, IInvAlways, PTL

\* The history is left partial only by two setbacks in one run, or by a
\* writer found once and found again before all is undone.
THEOREM SingleSetback == Spec => []OneSetbackIsUndone
<1>1. IInv => OneSetbackIsUndone
  BY DEF IInv, Setbacks, OneSetbackIsUndone
<1> QED
  BY <1>1, IInvAlways, PTL

\* Whatever a run has changed, its backup holds - unless the clock went back
\* and the backup was pruned as the oldest (repair.go:2516-2522).
THEOREM BackedUpFirst ==
    ASSUME ClockMayStepBack = FALSE PROVE Spec => []ChangesAreBackedUp
<1>1. IInv => ChangesAreBackedUp
  BY DEF IInv, Core, Copies, ChangesAreBackedUp
<1> QED
  BY <1>1, IInvAlways, PTL

-----------------------------------------------------------------------------
\* Without the window between the last Stat and the rename, a file is
\* replaced only by a copy with every write in it.
Appends ==
    /\ SessionAppendsSurvive
    /\ \A f, g \in at : f = g
    /\ \A f \in Files : Replacing(f) => rev[f] = seen

LEMMA AppendsStep ==
    ASSUME RaceWindow = FALSE, IInv, Appends, [Next]_vars
    PROVE  Appends'
<1> USE DEF IInv, TypeOK, Phases, Appends, SessionAppendsSurvive, Replacing
<1>1. CASE CheckFile
  BY <1>1 DEF CheckFile, FileFails, Goto, Finish, history, world
<1>2. CASE ReplaceFile \/ ReplaceRestore
  BY <1>2 DEF ReplaceFile, ReplaceRestore, RenameFile, RestoreFile, Rename,
              FileFails, RestoreFails, Goto, Finish, history, world
<1>3. CASE WriteGlobal
  BY <1>3 DEF WriteGlobal, Goto, history, world
<1>4. CASE RestoreSnapshot
  BY <1>4 DEF RestoreSnapshot, Goto, history, world
<1>5. CASE CheckRestore
  BY <1>5 DEF CheckRestore, FileChanged, WriterSeen, RestoreFails, Goto,
              history, world
<1>6. CASE \E s \in Stores : WriterWrites(s)
  BY <1>6 DEF WriterWrites
<1>7. CASE Begin \/ Survey \/ Check1 \/ Backup \/ Check2 \/ Snapshot
  BY <1>7 DEF Begin, Survey, Check1, Backup, Check2, Snapshot, Goto, Finish,
              history, world
<1>8. CASE ReadFile \/ FilesDone \/ Check3 \/ ReadGlobal \/ Check4
  BY <1>8 DEF ReadFile, FileFails, FilesDone, Check3, ReadGlobal, Check4, Goto,
              Finish, history, world
<1>9. CASE UpdateDB \/ DBsDone \/ Rollback \/ ReadForRestore \/ UndoDone
  BY <1>9 DEF UpdateDB, DBsDone, Rollback, ReadForRestore, RestoreFails,
              UndoDone, Goto, Finish, history, world
<1>10. CASE Crash \/ WriterToggles \/ UNCHANGED vars
  BY <1>10 DEF Crash, WriterToggles, Finish, history, world, vars
<1> QED
  BY <1>1, <1>2, <1>3, <1>4, <1>5, <1>6, <1>7, <1>8, <1>9, <1>10
     DEF Next, Forward, Backward

\* No line that ChatGPT/Codex appends to a session file is ever lost.
THEOREM AppendsSurvive ==
    ASSUME RaceWindow = FALSE PROVE Spec => []SessionAppendsSurvive
<1>1. Init => Appends
  BY DEF Init, Appends, SessionAppendsSurvive, Replacing
<1>2. IInv /\ Appends /\ [Next]_vars => Appends'
  BY AppendsStep
<1>3. Appends => SessionAppendsSurvive
  BY DEF Appends
<1> QED
  BY <1>1, <1>2, <1>3, IInvAlways, PTL DEF Spec

-----------------------------------------------------------------------------
\* ProviderSync implements AtomicSync: a run begins, changes nothing that the
\* abstraction shows, and ends in one of the promised ways.
LEMMA PromiseInit == Init => Promise!AInit
  BY DEF Init, Promise!AInit, Outcome

\* How a run ends: its last step writes no store.
LEMMA Ending ==
    ASSUME IInv, [Next]_vars, pc # "idle", pc' = "idle"
    PROVE  /\ result'.status \in {"synced", "skipped", "failed", "crashed"}
           /\ Partial' => result'.status = "failed"
<1> USE DEF IInv, TypeOK, Setbacks, Finish, Goto
<1>1. CASE Survey \/ Check1 \/ Backup \/ Check2 \/ Snapshot
  BY <1>1 DEF Survey, Check1, Backup, Check2, Snapshot
<1>2. CASE ReadFile \/ CheckFile \/ ReplaceFile
  BY <1>2 DEF ReadFile, CheckFile, ReplaceFile, FileFails, RenameFile
<1>3. CASE DBsDone \/ Rollback \/ UndoDone \/ Crash
  BY <1>3 DEF DBsDone, Rollback, UndoDone, Crash
<1>4. CASE FilesDone \/ Check3 \/ ReadGlobal \/ WriteGlobal \/ Check4 \/ UpdateDB
  BY <1>4 DEF FilesDone, Check3, ReadGlobal, WriteGlobal, Check4, UpdateDB
<1>5. CASE RestoreSnapshot \/ ReadForRestore \/ CheckRestore \/ ReplaceRestore
  BY <1>5 DEF RestoreSnapshot, ReadForRestore, CheckRestore, ReplaceRestore,
              RestoreFails, RestoreFile
<1>6. CASE WriterToggles \/ \E s \in Stores : WriterWrites(s)
  BY <1>6 DEF WriterToggles, WriterWrites
<1> QED
  BY <1>1, <1>2, <1>3, <1>4, <1>5, <1>6 DEF Next, Forward, Backward, Begin, vars

\* Which steps touch what the abstraction sees.
LEMMA Visible ==
    ASSUME [Next]_vars
    PROVE  \/ Begin
           \/ pc # "idle" /\ before' = before
           \/ UNCHANGED <<pc, value, before, result>>
<1>1. CASE Survey \/ Check1 \/ Backup \/ Check2 \/ Snapshot
  BY <1>1 DEF Survey, Check1, Backup, Check2, Snapshot, plan
<1>2. CASE ReadFile \/ CheckFile \/ ReplaceFile \/ FilesDone \/ Check3
  BY <1>2 DEF ReadFile, CheckFile, ReplaceFile, FilesDone, Check3, plan
<1>3. CASE ReadGlobal \/ WriteGlobal \/ Check4 \/ UpdateDB \/ DBsDone
  BY <1>3 DEF ReadGlobal, WriteGlobal, Check4, UpdateDB, DBsDone, plan
<1>4. CASE Rollback \/ RestoreSnapshot \/ ReadForRestore
  BY <1>4 DEF Rollback, RestoreSnapshot, ReadForRestore, plan
<1>5. CASE CheckRestore \/ ReplaceRestore \/ UndoDone \/ Crash
  BY <1>5 DEF CheckRestore, ReplaceRestore, UndoDone, Crash, plan
<1>6. CASE WriterToggles \/ \E s \in Stores : WriterWrites(s)
  BY <1>6 DEF WriterToggles, WriterWrites, history, plan
<1> QED
  BY <1>1, <1>2, <1>3, <1>4, <1>5, <1>6 DEF Next, Forward, Backward, vars

LEMMA PromiseStep ==
    ASSUME CountMayFail = FALSE, IInv, IInv', [Next]_vars
    PROVE  [Promise!ANext]_(Promise!avars)
<1>1. CASE Begin
  BY <1>1 DEF Begin, Promise!ANext, Promise!Begin, Outcome
<1>2. CASE pc # "idle" /\ pc' # "idle" /\ before' = before
  BY <1>2 DEF Promise!avars, Outcome, IInv, Setbacks
<1>3. CASE UNCHANGED <<pc, value, before, result>>
  BY <1>3 DEF Promise!avars, Outcome
<1>4. CASE pc # "idle" /\ pc' = "idle" /\ before' = before
  <2> SUFFICES Promise!Synced \/ Promise!Untouched \/ Promise!Mixed
    BY <1>4 DEF Promise!ANext, Promise!End
  <2>1. /\ value' \in [Stores -> Values] /\ before \in [Stores -> Values]
        /\ target' \in Providers
        /\ \A s \in Stores : value'[s] = IF s \in applied' THEN Want(target', s)
                                                          ELSE before[s]
    BY <1>4 DEF IInv, TypeOK, Core
  <2>2. CASE result'.status = "synced"
    <3>1. value' = [s \in Stores |-> Want(target', s)]
      BY <1>4, <2>1, <2>2 DEF IInv, Verdicts
    <3> QED
      BY <1>4, <2>1, <2>2, <3>1, Ending DEF Promise!Synced, Outcome
  <2>3. CASE result'.status \in {"skipped", "failed"} /\ ~Partial'
    <3>1. value' = before
      BY <1>4, <2>1, <2>3 DEF IInv, Verdicts
    <3> QED
      BY <1>4, <2>3, <3>1 DEF Promise!Untouched, Outcome
  <2>4. CASE result'.status = "crashed" \/ Partial'
    <3>1. value' \in {h \in [Stores -> Values] :
                        \A s \in Stores : h[s] \in {before[s], Want(target', s)}}
      BY <2>1
    <3> QED
      BY <1>4, <2>1, <2>4, <3>1 DEF Promise!Mixed, Promise!Between, Outcome
  <2> QED
    BY <1>4, <2>2, <2>3, <2>4, Ending
<1> QED
  BY <1>1, <1>2, <1>3, <1>4, Visible DEF Promise!avars

\* A provider sync keeps the promise of AtomicSync, whatever fails, whoever
\* writes meanwhile and wherever it crashes.
THEOREM Refinement == ASSUME CountMayFail = FALSE PROVE Spec => KeepsPromise
<1>1. IInv /\ IInv' /\ [Next]_vars => [Promise!ANext]_(Promise!avars)
  BY PromiseStep
<1> QED
  BY <1>1, PromiseInit, IInvAlways, PTL DEF Spec, KeepsPromise, Promise!ASpec

------------------------------------------------------------------------------
\* What a sync writes (CatalogSync).

\* What FoldLeft computes for each set of the first n positions.
IsDedupe(h, paths, n) ==
    h = [s \in SUBSET (1 .. n) |->
            IF s = {} THEN <<>> ELSE LET x == Max(s) IN WithPath(h[s \ {x}], paths[x])]

\* The function the fold of DedupePaths is defined by exists (by induction on n:
\* a set with the last position goes back to one without).
LEMMA DedupeExists ==
  ASSUME NEW paths, NEW n \in Nat
  PROVE  \E h : IsDedupe(h, paths, n)
  <1> DEFINE S == {m \in Nat : \E h : IsDedupe(h, paths, m)}
  <1>1. 0 \in S
    <2> DEFINE h == [s \in SUBSET (1 .. 0) |-> <<>>]
    <2>1. \A s \in SUBSET (1 .. 0) : s = {}
      OBVIOUS
    <2>2. IsDedupe(h, paths, 0)
      BY <2>1 DEF IsDedupe
    <2> HIDE DEF h
    <2> QED
      BY <2>2
  <1>2. ASSUME NEW m \in Nat, m \in S PROVE m + 1 \in S
    <2>1. PICK h : IsDedupe(h, paths, m)
      BY <1>2
    <2> DEFINE f == [s \in SUBSET (1 .. m + 1) |->
                        IF m + 1 \in s THEN WithPath(h[s \ {m + 1}], paths[m + 1]) ELSE h[s]]
    <2>2. \A s \in SUBSET (1 .. m) : h[s] = IF s = {} THEN <<>> ELSE LET x == Max(s) IN WithPath(h[s \ {x}], paths[x])
      BY <2>1 DEF IsDedupe
    <2>3. ASSUME NEW s \in SUBSET (1 .. m + 1)
          PROVE  f[s] = IF s = {} THEN <<>> ELSE LET x == Max(s) IN WithPath(f[s \ {x}], paths[x])
      <3>1. CASE m + 1 \in s
        <4>1. Max(s) = m + 1
          BY <3>1, MaxIsLast
        <4>2. f[s \ {m + 1}] = h[s \ {m + 1}]
          OBVIOUS
        <4>3. f[s] = WithPath(h[s \ {m + 1}], paths[m + 1])
          BY <3>1
        <4> HIDE DEF f
        <4> QED
          BY <3>1, <4>1, <4>2, <4>3
      <3>2. CASE m + 1 \notin s
        <4>1. s \in SUBSET (1 .. m)
          BY <3>2
        <4>2. \A x : s \ {x} \in SUBSET (1 .. m + 1) /\ m + 1 \notin s \ {x}
          BY <3>2
        <4>3. f[s] = h[s] /\ \A x : f[s \ {x}] = h[s \ {x}]
          BY <3>2, <4>2
        <4> HIDE DEF f
        <4> QED
          BY <2>2, <4>1, <4>3
      <3> QED
        BY <3>1, <3>2
    <2>4. IsDedupe(f, paths, m + 1)
      <3> DEFINE e(s) == IF s = {} THEN <<>> ELSE LET x == Max(s) IN WithPath(f[s \ {x}], paths[x])
      <3>1. f = [s \in SUBSET (1 .. m + 1) |-> f[s]]
        OBVIOUS
      <3>2. \A s \in SUBSET (1 .. m + 1) : f[s] = e(s)
        BY <2>3
      <3>3. f = [s \in SUBSET (1 .. m + 1) |-> e(s)]
        <4> HIDE DEF f, e
        <4> QED
          BY <3>1, <3>2
      <3> HIDE DEF f
      <3> QED
        BY <3>3 DEF IsDedupe
    <2> HIDE DEF f
    <2> QED
      BY <2>4
  <1>3. \A m \in Nat : m \in S
    <2> HIDE DEF S
    <2> QED
      BY <1>1, <1>2, SetInduction
  <1> QED
    BY <1>3

\* The list d grows from nothing, a path at a time.
IsWalk(d, paths) ==
    \E g : /\ g[0] = <<>> /\ g[Len(paths)] = d
           /\ \A k \in 1 .. Len(paths) : g[k] = WithPath(g[k - 1], paths[k])

\* DedupePaths takes the paths one after the other.
LEMMA DedupeWalks ==
  ASSUME NEW E, NEW paths \in Seq(E)
  PROVE  IsWalk(DedupePaths(paths), paths)
  <1> DEFINE n == Len(paths)
             c == CHOOSE h : IsDedupe(h, paths, n)
             g == [k \in 0 .. n |-> c[1 .. k]]
  <1>1. n \in Nat /\ DOMAIN paths = 1 .. n
    OBVIOUS
  <1>2. IsDedupe(c, paths, n)
    <2> HIDE DEF n
    <2> QED
      BY <1>1, DedupeExists
  <1>3. DedupePaths(paths) = c[1 .. n]
    BY <1>1 DEF DedupePaths, FoldLeft, MapThenFoldSet, IsDedupe
  <1> HIDE DEF c
  <1>4. \A s \in SUBSET (1 .. n) : c[s] = IF s = {} THEN <<>> ELSE LET x == Max(s) IN WithPath(c[s \ {x}], paths[x])
    <2> HIDE DEF n
    <2> QED
      BY <1>2 DEF IsDedupe
  <1>5. g[0] = <<>> /\ g[n] = DedupePaths(paths)
    <2>1. 1 .. 0 = {} /\ {} \in SUBSET (1 .. n) /\ 0 \in 0 .. n /\ n \in 0 .. n
      BY <1>1
    <2>2. c[{}] = <<>>
      BY <1>4, <2>1
    <2> HIDE DEF n
    <2> QED
      BY <1>3, <2>1, <2>2
  <1>6. ASSUME NEW k \in 1 .. n PROVE g[k] = WithPath(g[k - 1], paths[k])
    <2> HIDE DEF n
    <2>1. k \in Nat /\ 1 .. k \in SUBSET (1 .. n) /\ 1 .. k # {} /\ k \in 1 .. k /\ k - 1 \in 0 .. n /\ k \in 0 .. n
      <3>1. n \in Nat /\ k \in Nat /\ 1 <= k /\ k <= n
        BY <1>1
      <3>2. k \in 1 .. k /\ k - 1 \in 0 .. n /\ k \in 0 .. n
        BY <3>1
      <3>3. 1 .. k \in SUBSET (1 .. n)
        BY <3>1
      <3> QED
        BY <3>1, <3>2, <3>3
    <2>2. Max(1 .. k) = k
      BY <2>1, MaxIsLast
    <2>3. (1 .. k) \ {k} = 1 .. k - 1
      BY <2>1
    <2>4. c[1 .. k] = WithPath(c[1 .. k - 1], paths[k])
      BY <1>4, <2>1, <2>2, <2>3
    <2> QED
      BY <2>1, <2>4
  <1> HIDE DEF g, n
  <1> QED
    BY <1>5, <1>6 DEF IsWalk, n

PathsOrNone == Paths \cup {NoPath}
DesktopPaths == {path \in Paths : path.form # "extended"}
OneEach(d) == \A i, j \in 1 .. Len(d) : d[i].dir = d[j].dir => i = j
HasDir(d, path) == \E i \in 1 .. Len(d) : d[i].dir = path.dir

\* A path is a record, and none of a directory is NoPath.
LEMMA PathFacts ==
  /\ \A path \in Paths : path.dir \in Dirs /\ path # NoPath
  /\ \A path \in Paths : Desktop(path) \in DesktopPaths /\ Desktop(path).dir = path.dir
  /\ \A path \in DesktopPaths : path \in Paths /\ Desktop(path) = path
  /\ Desktop(NoPath) = NoPath
  <1>1. \A path \in Paths : path.dir \in Dirs /\ path # NoPath
    <2>1. \A path \in Paths : path.dir \in Dirs
      BY DEF Paths
    <2>2. NoPath.dir = "none" /\ "none" \notin Dirs
      BY CatalogAssumption DEF NoPath
    <2> QED
      BY <2>1, <2>2
  <1>2. ASSUME NEW path \in Paths PROVE Desktop(path) \in DesktopPaths /\ Desktop(path).dir = path.dir
    BY DEF Paths, Desktop, DesktopPaths
  <1>3. \A path \in DesktopPaths : path \in Paths /\ Desktop(path) = path
    BY DEF Desktop, DesktopPaths
  <1>4. Desktop(NoPath) = NoPath
    BY DEF Desktop, NoPath
  <1> QED
    BY <1>1, <1>2, <1>3, <1>4

\* One path more.
LEMMA PathAdded ==
  ASSUME NEW d \in Seq(DesktopPaths), OneEach(d), NEW path \in PathsOrNone
  PROVE  LET e == WithPath(d, path) IN
         /\ e \in Seq(DesktopPaths) /\ OneEach(e)
         /\ path # NoPath => HasDir(e, path)
         /\ \A q : HasDir(d, q) => HasDir(e, q)
  <1> DEFINE e == WithPath(d, path)
  <1>1. CASE path = NoPath \/ HasDir(d, path)
    <2>1. e = d
      BY <1>1 DEF WithPath, HasDir
    <2> HIDE DEF e
    <2> QED
      BY <1>1, <2>1 DEF e
  <1>2. CASE path # NoPath /\ ~HasDir(d, path)
    <2>1. e = Append(d, Desktop(path))
      BY <1>2 DEF WithPath, HasDir
    <2>2. path \in Paths /\ Desktop(path) \in DesktopPaths /\ Desktop(path).dir = path.dir
      BY <1>2, PathFacts DEF PathsOrNone
    <2> HIDE DEF e
    <2>3. e \in Seq(DesktopPaths) /\ Len(e) = Len(d) + 1 /\ Len(d) \in Nat
      BY <2>1, <2>2
    <2>4. \A i \in 1 .. Len(d) : e[i] = d[i]
      BY <2>1, <2>2
    <2>5. e[Len(d) + 1].dir = path.dir
      BY <2>1, <2>2
    <2>6. OneEach(e)
      <3> SUFFICES ASSUME NEW i \in 1 .. Len(e), NEW j \in 1 .. Len(e), e[i].dir = e[j].dir
                   PROVE  i = j
        BY DEF OneEach
      <3>1. \A k \in 1 .. Len(d) : d[k].dir # path.dir
        BY <1>2 DEF HasDir
      <3>2. CASE i \in 1 .. Len(d) /\ j \in 1 .. Len(d)
        BY <2>4, <3>2 DEF OneEach
      <3>3. CASE i = Len(d) + 1 /\ j \in 1 .. Len(d)
        BY <2>4, <2>5, <3>1, <3>3
      <3>4. CASE j = Len(d) + 1 /\ i \in 1 .. Len(d)
        BY <2>4, <2>5, <3>1, <3>4
      <3> QED
        BY <2>3, <3>2, <3>3, <3>4
    <2>7. HasDir(e, path)
      <3>1. Len(d) + 1 \in 1 .. Len(e)
        BY <2>3
      <3> QED
        BY <2>5, <3>1 DEF HasDir
    <2>8. \A q : HasDir(d, q) => HasDir(e, q)
      <3>1. \A i \in 1 .. Len(d) : i \in 1 .. Len(e)
        BY <2>3
      <3> QED
        BY <2>4, <3>1 DEF HasDir
    <2> QED
      BY <2>3, <2>6, <2>7, <2>8 DEF e
  <1> QED
    BY <1>1, <1>2

\* Without duplicates, a list has every directory once.
LEMMA DedupeFacts ==
  ASSUME NEW paths \in Seq(PathsOrNone)
  PROVE  LET d == DedupePaths(paths) IN
         /\ d \in Seq(DesktopPaths) /\ OneEach(d)
         /\ \A k \in 1 .. Len(paths) : paths[k] # NoPath => HasDir(d, paths[k])
  <1> DEFINE n == Len(paths)
  <1>1. PICK g : /\ g[0] = <<>> /\ g[n] = DedupePaths(paths)
                 /\ \A k \in 1 .. n : g[k] = WithPath(g[k - 1], paths[k])
    BY DedupeWalks DEF IsWalk
  <1>2. n \in Nat /\ \A k \in 1 .. n : paths[k] \in PathsOrNone
    OBVIOUS
  <1> HIDE DEF n
  <1> DEFINE Fine(k) == /\ g[k] \in Seq(DesktopPaths) /\ OneEach(g[k])
                        /\ \A i \in 1 .. k : paths[i] # NoPath => HasDir(g[k], paths[i])
             S == {k \in Nat : k <= n => Fine(k)}
  <1>3. 0 \in S
    <2>1. Fine(0)
      BY <1>1 DEF OneEach
    <2> QED
      BY <2>1
  <1>4. ASSUME NEW k \in Nat, k \in S PROVE k + 1 \in S
    <2> SUFFICES ASSUME k + 1 <= n PROVE Fine(k + 1)
      OBVIOUS
    <2>1. Fine(k)
      BY <1>2, <1>4
    <2>2. k + 1 \in 1 .. n /\ (k + 1) - 1 = k
      BY <1>2
    <2>3. g[k + 1] = WithPath(g[k], paths[k + 1]) /\ paths[k + 1] \in PathsOrNone
      BY <1>1, <1>2, <2>2
    <2>4. /\ g[k + 1] \in Seq(DesktopPaths) /\ OneEach(g[k + 1])
          /\ paths[k + 1] # NoPath => HasDir(g[k + 1], paths[k + 1])
          /\ \A q : HasDir(g[k], q) => HasDir(g[k + 1], q)
      BY <2>1, <2>3, PathAdded, ZenonT(60)
    <2>5. ASSUME NEW i \in 1 .. k + 1, paths[i] # NoPath PROVE HasDir(g[k + 1], paths[i])
      <3>1. CASE i = k + 1
        BY <2>4, <2>5, <3>1
      <3>2. CASE i # k + 1
        <4>1. i \in 1 .. k
          BY <3>2
        <4> QED
          BY <2>1, <2>4, <2>5, <4>1
      <3> QED
        BY <3>1, <3>2
    <2> QED
      BY <2>4, <2>5
  <1>5. \A k \in Nat : k \in S
    <2> HIDE DEF S
    <2> QED
      BY <1>3, <1>4, SetInduction
  <1>6. Fine(n)
    BY <1>2, <1>5
  <1> QED
    BY <1>1, <1>6 DEF n

\* A list without duplicates stays as it is, whatever is added that it has.
LEMMA DedupeStays ==
  ASSUME NEW a \in Seq(DesktopPaths), OneEach(a), NEW b \in Seq(PathsOrNone),
         \A k \in 1 .. Len(b) : b[k] # NoPath => HasDir(a, b[k])
  PROVE  DedupePaths(a \o b) = a
  <1> DEFINE paths == a \o b
             n == Len(paths)
             m == Len(a)
             first(k) == IF k <= m THEN SubSeq(a, 1, k) ELSE a
  <1>1. /\ m \in Nat /\ n \in Nat /\ n = m + Len(b) /\ paths \in Seq(PathsOrNone)
        /\ \A k \in 1 .. m : paths[k] = a[k]
        /\ \A k \in m + 1 .. n : paths[k] = b[k - m] /\ k - m \in 1 .. Len(b)
    <2>1. a \in Seq(PathsOrNone)
      <3>1. DesktopPaths \subseteq PathsOrNone
        BY DEF DesktopPaths, PathsOrNone
      <3> QED
        BY <3>1
    <2> QED
      BY <2>1
  <1> HIDE DEF paths
  <1>2. PICK g : /\ g[0] = <<>> /\ g[n] = DedupePaths(paths)
                 /\ \A k \in 1 .. n : g[k] = WithPath(g[k - 1], paths[k])
    BY <1>1, DedupeWalks DEF IsWalk
  <1> HIDE DEF n
  <1> DEFINE S == {k \in Nat : k <= n => g[k] = first(k)}
  <1>3. 0 \in S
    <2>1. SubSeq(a, 1, 0) = <<>> /\ 0 <= m
      BY <1>1
    <2> QED
      BY <1>2, <2>1
  <1>4. ASSUME NEW k \in Nat, k \in S PROVE k + 1 \in S
    <2> SUFFICES ASSUME k + 1 <= n PROVE g[k + 1] = first(k + 1)
      OBVIOUS
    <2>1. g[k] = first(k)
      BY <1>1, <1>4
    <2>2. g[k + 1] = WithPath(first(k), paths[k + 1])
      <3>1. k + 1 \in 1 .. n /\ (k + 1) - 1 = k
        BY <1>1
      <3>2. g[k + 1] = WithPath(g[k], paths[k + 1])
        BY <1>2, <3>1
      <3> QED
        BY <2>1, <3>2
    <2>3. CASE k + 1 <= m
      <3> DEFINE s == SubSeq(a, 1, k)
      <3>1. s \in Seq(DesktopPaths) /\ Len(s) = k /\ \A i \in 1 .. k : s[i] = a[i]
        BY <1>1, <2>3
      <3>2. paths[k + 1] = a[k + 1] /\ a[k + 1] \in DesktopPaths /\ k + 1 \in 1 .. m
        BY <1>1, <2>3
      <3>3. a[k + 1] # NoPath /\ Desktop(a[k + 1]) = a[k + 1]
        BY <3>2, PathFacts
      <3>4. first(k) = s /\ first(k + 1) = SubSeq(a, 1, k + 1)
        BY <1>1, <2>3
      <3>5. SubSeq(a, 1, k + 1) = Append(s, a[k + 1])
        BY <1>1, <2>3, <3>2
      <3> HIDE DEF s, first
      <3>6. ~\E i \in 1 .. Len(s) : s[i].dir = a[k + 1].dir
        <4> SUFFICES ASSUME NEW i \in 1 .. k, s[i].dir = a[k + 1].dir PROVE FALSE
          BY <3>1
        <4>1. i \in 1 .. m /\ a[i].dir = a[k + 1].dir /\ i # k + 1
          BY <1>1, <2>3, <3>1
        <4> QED
          BY <3>2, <4>1 DEF OneEach
      <3>7. WithPath(s, a[k + 1]) = Append(s, a[k + 1])
        BY <3>3, <3>6 DEF WithPath
      <3> QED
        BY <2>2, <3>2, <3>4, <3>5, <3>7
    <2>4. CASE ~(k + 1 <= m)
      <3>1. first(k) = a /\ first(k + 1) = a
        <4>1. k = m => SubSeq(a, 1, k) = a
          BY <1>1
        <4> QED
          BY <1>1, <2>4, <4>1
      <3>2. k + 1 \in m + 1 .. n
        BY <1>1, <2>4
      <3>3. PICK j \in 1 .. Len(b) : paths[k + 1] = b[j]
        BY <1>1, <3>2
      <3>4. b[j] = NoPath \/ HasDir(a, b[j])
        BY <3>3
      <3>5. WithPath(a, b[j]) = a
        BY <3>4 DEF WithPath, HasDir
      <3> HIDE DEF first
      <3> QED
        BY <2>2, <3>1, <3>3, <3>5
    <2> QED
      BY <2>3, <2>4
  <1>5. \A k \in Nat : k \in S
    <2> HIDE DEF S
    <2> QED
      BY <1>3, <1>4, SetInduction
  <1>6. g[n] = first(n)
    BY <1>1, <1>5
  <1>7. first(n) = a
    <2>1. n = m => SubSeq(a, 1, n) = a
      BY <1>1
    <2> QED
      BY <1>1, <2>1
  <1> QED
    BY <1>2, <1>6, <1>7 DEF paths

\* The changes of the files.

HomeType == [rollouts : Seq(RolloutType), rows : [CatalogDBs -> [ThreadIds -> RowType]],
             roots : [RootKeys -> Seq(Paths) \cup {Null, Absent}],
             hints : [ThreadIds -> PathsOrNone], projectless : SUBSET ThreadIds]
ChangeType == [id : ThreadIds \cup {NoId}, user : BOOLEAN, cwd : PathsOrNone, rewrite : BOOLEAN]

\* What a rewrite of a file leaves as it is: its records but for the provider.
AlikeRecords(l, m) ==
    /\ Len(m) = Len(l)
    /\ \A i \in 1 .. Len(l) : /\ m[i].kind = l[i].kind /\ m[i].id = l[i].id
                              /\ m[i].cwd = l[i].cwd /\ m[i].pieces = l[i].pieces

LEMMA LinesRead ==
  ASSUME NEW r \in RolloutType
  PROVE  /\ ReadLines(r) \in Seq(LineType)
         /\ Len(ReadLines(r)) = IF Len(r.lines) > r.window THEN r.window ELSE Len(r.lines)
         /\ \A i \in 1 .. Len(ReadLines(r)) : ReadLines(r)[i] = r.lines[i] /\ i \in 1 .. Len(r.lines) /\ i <= r.window
         /\ \A i \in 1 .. Len(r.lines) : i <= r.window => i \in 1 .. Len(ReadLines(r))
  <1>1. r.lines \in Seq(LineType) /\ r.window \in Nat /\ Len(r.lines) \in Nat
    BY DEF RolloutType
  <1>2. CASE Len(r.lines) > r.window
    <2>1. ReadLines(r) = SubSeq(r.lines, 1, r.window)
      BY <1>2 DEF ReadLines, Truncated
    <2> QED
      BY <1>1, <1>2, <2>1
  <1>3. CASE ~(Len(r.lines) > r.window)
    <2>1. ReadLines(r) = r.lines
      BY <1>3 DEF ReadLines, Truncated
    <2> QED
      BY <1>1, <1>3, <2>1
  <1> QED
    BY <1>2, <1>3

\* The first path that is none of the absent ones.
LEMMA FirstPathFacts ==
  ASSUME NEW paths \in Seq(PathsOrNone)
  PROVE  FirstPath(paths) \in PathsOrNone
  <1> DEFINE I == {i \in 1 .. Len(paths) : paths[i] # NoPath}
  <1>1. FirstPath(paths) = LET k == IF I # {} THEN Min(I) ELSE 0 IN IF k = 0 THEN NoPath ELSE paths[k]
    BY DEF FirstPath, SelectInSeq
  <1>2. I \in SUBSET (1 .. Len(paths)) /\ Len(paths) \in Nat
    OBVIOUS
  <1>3. I # {} => Min(I) \in I
    <2> HIDE DEF I
    <2> QED
      BY <1>2, FirstPosition
  <1>4. I # {} => Min(I) \in 1 .. Len(paths) /\ paths[Min(I)] \in PathsOrNone
    BY <1>3
  <1>5. NoPath \in PathsOrNone
    BY DEF PathsOrNone
  <1> HIDE DEF I
  <1> QED
    BY <1>1, <1>4, <1>5

LEMMA FirstMetaFacts ==
  ASSUME NEW lines \in Seq(LineType)
  PROVE  LET k == FirstMeta(lines) IN
         /\ k \in 0 .. Len(lines)
         /\ k # 0 => k \in 1 .. Len(lines) /\ lines[k] \in LineType
  <1> DEFINE I == {i \in 1 .. Len(lines) : lines[i].kind = "meta"}
  <1>1. FirstMeta(lines) = IF I # {} THEN Min(I) ELSE 0
    BY DEF FirstMeta, SelectInSeq
  <1>2. I \in SUBSET (1 .. Len(lines)) /\ Len(lines) \in Nat
    OBVIOUS
  <1>3. I # {} => Min(I) \in 1 .. Len(lines)
    <2> HIDE DEF I
    <2> QED
      BY <1>2, FirstPosition
  <1> HIDE DEF I
  <1> QED
    BY <1>1, <1>2, <1>3

LEMMA ChangeTyped ==
  ASSUME NEW h, NEW r \in RolloutType, NEW p
  PROVE  ChangeOf(h, r, p) \in ChangeType
  <1> DEFINE lines == ReadLines(r)
             k == FirstMeta(lines)
             cwd == FirstPath(<<Desktop(lines[k].cwd)>> \o TurnPaths(lines))
  <1>1. lines \in Seq(LineType)
    BY LinesRead
  <1>2. k # 0 => k \in 1 .. Len(lines) /\ lines[k] \in LineType
    BY <1>1, FirstMetaFacts
  <1>3. HasUserEvent(r) \in BOOLEAN
    BY DEF HasUserEvent
  <1> HIDE DEF lines
  <1>4. \A l \in LineType : Desktop(l.cwd) \in PathsOrNone /\ l.id \in ThreadIds \cup {NoId}
    <2> SUFFICES ASSUME NEW l \in LineType PROVE Desktop(l.cwd) \in PathsOrNone /\ l.id \in ThreadIds \cup {NoId}
      OBVIOUS
    <2>1. l.cwd \in Paths \cup {NoPath} /\ l.id \in ThreadIds \cup {NoId}
      BY DEF LineType
    <2> QED
      BY <2>1, PathFacts DEF PathsOrNone
  <1>5. NoPath \in PathsOrNone
    BY DEF PathsOrNone
  <1>6. TurnPaths(lines) \in Seq(PathsOrNone)
    <2>1. \A i \in 1 .. Len(lines) : lines[i] \in LineType
      BY <1>1
    <2> QED
      BY <1>1, <1>4, <1>5, <2>1 DEF TurnPaths
  <1>7. k # 0 => cwd \in PathsOrNone
    <2> SUFFICES ASSUME k # 0 PROVE cwd \in PathsOrNone
      OBVIOUS
    <2>1. <<Desktop(lines[k].cwd)>> \in Seq(PathsOrNone)
      BY <1>2, <1>4
    <2>2. <<Desktop(lines[k].cwd)>> \o TurnPaths(lines) \in Seq(PathsOrNone)
      BY <1>6, <2>1
    <2> QED
      BY <2>2, FirstPathFacts
  <1>8. CASE k = 0
    <2>1. ChangeOf(h, r, p) = NoChange
      BY <1>8 DEF ChangeOf, lines
    <2> QED
      BY <1>5, <2>1 DEF NoChange, ChangeType
  <1>9. CASE k # 0
    <2> DEFINE e == IF lines[k].id \in h.projectless THEN NoPath ELSE cwd
               w == \E i \in 1 .. Len(lines) : lines[i].kind = "meta" /\ lines[i].provider # p
    <2>1. ChangeOf(h, r, p) = [id |-> lines[k].id, user |-> HasUserEvent(r), cwd |-> e, rewrite |-> w]
      BY <1>9 DEF ChangeOf, lines
    <2>2. e \in PathsOrNone /\ w \in BOOLEAN /\ lines[k].id \in ThreadIds \cup {NoId}
      BY <1>2, <1>4, <1>5, <1>7, <1>9
    <2> HIDE DEF e, w, k
    <2> QED
      BY <1>3, <2>1, <2>2 DEF ChangeType
  <1> QED
    BY <1>8, <1>9

LEMMA LinesRewritten ==
  ASSUME NEW r \in RolloutType, NEW p \in ColumnTexts
  PROVE  LET s == RewriteMetaLines(r, p) IN
         /\ s \in RolloutType /\ s.window = r.window /\ Len(s.lines) = Len(r.lines)
         /\ \A i \in 1 .. Len(r.lines) :
               /\ s.lines[i].kind = r.lines[i].kind /\ s.lines[i].id = r.lines[i].id
               /\ s.lines[i].cwd = r.lines[i].cwd /\ s.lines[i].pieces = r.lines[i].pieces
               /\ i <= r.window /\ r.lines[i].kind = "meta" => s.lines[i].provider = p
  <1> DEFINE s == RewriteMetaLines(r, p)
             n == Len(r.lines)
             new(i) == IF i <= r.window /\ r.lines[i].kind = "meta" THEN [r.lines[i] EXCEPT !.provider = p]
                       ELSE r.lines[i]
             lines == [i \in 1 .. n |-> new(i)]
  <1>1. r.lines \in Seq(LineType) /\ r.window \in Nat /\ n \in Nat /\ \A i \in 1 .. n : r.lines[i] \in LineType
    BY DEF RolloutType
  <1>2. \A l \in LineType : LET m == [l EXCEPT !.provider = p] IN
           /\ m \in LineType /\ m.kind = l.kind /\ m.id = l.id /\ m.cwd = l.cwd /\ m.pieces = l.pieces
           /\ m.provider = p
    BY DEF LineType
  <1>3. ASSUME NEW i \in 1 .. n
        PROVE  /\ new(i) \in LineType /\ new(i).kind = r.lines[i].kind /\ new(i).id = r.lines[i].id
               /\ new(i).cwd = r.lines[i].cwd /\ new(i).pieces = r.lines[i].pieces
               /\ i <= r.window /\ r.lines[i].kind = "meta" => new(i).provider = p
    BY <1>1, <1>2
  <1> HIDE DEF new
  <1>4. s = [r EXCEPT !.lines = lines]
    BY DEF RewriteMetaLines, new
  <1>5. lines \in Seq(LineType) /\ Len(lines) = n /\ \A i \in 1 .. n : lines[i] = new(i)
    BY <1>1, <1>3
  <1> HIDE DEF lines, n, s
  <1>6. s \in RolloutType /\ s.window = r.window /\ s.lines = lines
    BY <1>4, <1>5 DEF RolloutType
  <1> QED
    BY <1>3, <1>5, <1>6 DEF n, s

\* A file that is rewritten is read like before, with the provider everywhere.
LEMMA ReadRewritten ==
  ASSUME NEW r \in RolloutType, NEW p \in ColumnTexts
  PROVE  LET s == RewriteMetaLines(r, p) IN
         /\ AlikeRecords(ReadLines(r), ReadLines(s))
         /\ \A i \in 1 .. Len(ReadLines(s)) : ReadLines(s)[i].kind = "meta" => ReadLines(s)[i].provider = p
         /\ Truncated(s) <=> Truncated(r)
         /\ Rewritable(r) => Rewritable(s)
  <1> DEFINE s == RewriteMetaLines(r, p)
  <1>1. /\ s \in RolloutType /\ s.window = r.window /\ Len(s.lines) = Len(r.lines)
        /\ \A i \in 1 .. Len(r.lines) :
               /\ s.lines[i].kind = r.lines[i].kind /\ s.lines[i].id = r.lines[i].id
               /\ s.lines[i].cwd = r.lines[i].cwd /\ s.lines[i].pieces = r.lines[i].pieces
               /\ i <= r.window /\ r.lines[i].kind = "meta" => s.lines[i].provider = p
    BY LinesRewritten
  <1> HIDE DEF s
  <1>2. /\ Len(ReadLines(s)) = Len(ReadLines(r))
        /\ \A i \in 1 .. Len(ReadLines(r)) : /\ ReadLines(s)[i] = s.lines[i] /\ ReadLines(r)[i] = r.lines[i]
                                             /\ i \in 1 .. Len(r.lines) /\ i <= r.window
    BY <1>1, LinesRead
  <1>3. AlikeRecords(ReadLines(r), ReadLines(s))
    BY <1>1, <1>2 DEF AlikeRecords
  <1>4. \A i \in 1 .. Len(ReadLines(s)) : ReadLines(s)[i].kind = "meta" => ReadLines(s)[i].provider = p
    BY <1>1, <1>2
  <1>5. Truncated(s) <=> Truncated(r)
    BY <1>1 DEF Truncated
  <1>6. ASSUME Rewritable(r) PROVE Rewritable(s)
    <2> SUFFICES ASSUME NEW i \in 1 .. r.window, NEW j \in 1 .. r.window, i < j, i <= Len(r.lines), j <= Len(r.lines)
                 PROVE  ~(s.lines[i].kind = "broken" /\ s.lines[j].kind = "meta")
      BY <1>1 DEF Rewritable
    <2>1. ~(r.lines[i].kind = "broken" /\ r.lines[j].kind = "meta")
      BY <1>6 DEF Rewritable
    <2>2. i \in 1 .. Len(r.lines) /\ j \in 1 .. Len(r.lines)
      BY DEF RolloutType
    <2> QED
      BY <1>1, <2>1, <2>2
  <1> QED
    BY <1>3, <1>4, <1>5, <1>6 DEF s

\* What a change tells but for the rewrite.
Tells(c, e) == c.id = e.id /\ (c.user <=> e.user) /\ c.cwd = e.cwd

LEMMA ChangeRewritten ==
  ASSUME NEW g, NEW h, h.projectless = g.projectless, NEW r \in RolloutType, NEW p \in ColumnTexts
  PROVE  LET s == RewriteMetaLines(r, p) IN
         Tells(ChangeOf(h, s, p), ChangeOf(g, r, p)) /\ ChangeOf(h, s, p).rewrite = FALSE
  <1> DEFINE s == RewriteMetaLines(r, p)
             l == ReadLines(r)
             m == ReadLines(s)
  <1>1. /\ Len(m) = Len(l)
        /\ \A i \in 1 .. Len(l) : /\ m[i].kind = l[i].kind /\ m[i].id = l[i].id
                                  /\ m[i].cwd = l[i].cwd /\ m[i].pieces = l[i].pieces
    BY ReadRewritten DEF AlikeRecords
  <1>2. /\ \A i \in 1 .. Len(m) : m[i].kind = "meta" => m[i].provider = p
        /\ Truncated(s) <=> Truncated(r)
    BY ReadRewritten
  <1>3. l \in Seq(LineType)
    BY LinesRead
  <1>4. HasUserEvent(s) <=> HasUserEvent(r)
    <2> HIDE DEF s
    <2>1. \A i \in 1 .. Len(l) : m[i].kind = l[i].kind /\ (Shown(m[i].pieces) <=> Shown(l[i].pieces))
      <3> HIDE DEF l, m
      <3> QED
        BY <1>1
    <2> QED
      BY <1>1, <1>2, <2>1 DEF HasUserEvent
  <1> HIDE DEF s, l, m
  <1>5. FirstMeta(m) = FirstMeta(l)
    <2> DEFINE I == {i \in 1 .. Len(l) : l[i].kind = "meta"}
               J == {i \in 1 .. Len(m) : m[i].kind = "meta"}
    <2>1. I = J
      BY <1>1
    <2>2. FirstMeta(l) = IF I # {} THEN Min(I) ELSE 0
      BY DEF FirstMeta, SelectInSeq
    <2>3. FirstMeta(m) = IF J # {} THEN Min(J) ELSE 0
      BY DEF FirstMeta, SelectInSeq
    <2> HIDE DEF I, J
    <2> QED
      BY <2>1, <2>2, <2>3
  <1>6. TurnPaths(m) = TurnPaths(l)
    BY <1>1 DEF TurnPaths
  <1> DEFINE k == FirstMeta(l)
             cwd(x) == FirstPath(<<Desktop(x[k].cwd)>> \o TurnPaths(x))
             wrong(x) == \E i \in 1 .. Len(x) : x[i].kind = "meta" /\ x[i].provider # p
  <1>7. CASE k = 0
    <2>1. ChangeOf(h, s, p) = NoChange /\ ChangeOf(g, r, p) = NoChange
      BY <1>5, <1>7 DEF ChangeOf, l, m
    <2> QED
      BY <2>1 DEF NoChange, Tells, s
  <1>8. CASE k # 0
    <2>1. k \in 1 .. Len(l)
      BY <1>3, <1>8, FirstMetaFacts
    <2>2. m[k].id = l[k].id /\ m[k].cwd = l[k].cwd
      BY <1>1, <2>1
    <2>3. ChangeOf(g, r, p) = [id |-> l[k].id, user |-> HasUserEvent(r),
                               cwd |-> IF l[k].id \in g.projectless THEN NoPath ELSE cwd(l), rewrite |-> wrong(l)]
      BY <1>8 DEF ChangeOf, l
    <2>4. ChangeOf(h, s, p) = [id |-> m[k].id, user |-> HasUserEvent(s),
                               cwd |-> IF m[k].id \in h.projectless THEN NoPath ELSE cwd(m), rewrite |-> wrong(m)]
      BY <1>5, <1>8 DEF ChangeOf, l, m
    <2>5. cwd(m) = cwd(l)
      BY <1>6, <2>2
    <2>6. wrong(m) = FALSE
      BY <1>2
    <2> HIDE DEF k, cwd, wrong
    <2>7. ChangeOf(h, s, p).rewrite = FALSE
      BY <2>4, <2>6
    <2>8. Tells(ChangeOf(h, s, p), ChangeOf(g, r, p))
      <3> DEFINE a == ChangeOf(h, s, p)
                 b == ChangeOf(g, r, p)
      <3>1. a.id = m[k].id /\ b.id = l[k].id
        BY <2>3, <2>4
      <3>2. a.cwd = b.cwd
        BY <2>2, <2>3, <2>4, <2>5
      <3>3. a.user = HasUserEvent(s) /\ b.user = HasUserEvent(r)
        <4> DEFINE u == HasUserEvent(s)
                   v == HasUserEvent(r)
        <4> HIDE DEF u, v
        <4>1. a.user = u
          BY <2>4 DEF u
        <4>2. b.user = v
          BY <2>3 DEF v
        <4> QED
          BY <4>1, <4>2, Zenon DEF u, v
      <3>4. a.user <=> b.user
        BY <1>4, <3>3, Zenon
      <3> HIDE DEF a, b
      <3> QED
        BY <2>2, <3>1, <3>2, <3>4 DEF Tells, a, b
    <2> QED
      BY <2>7, <2>8 DEF s
  <1> QED
    BY <1>7, <1>8

LEMMA ChangesTyped ==
  ASSUME NEW h \in HomeType, NEW p
  PROVE  /\ Changes(h, p) \in Seq(ChangeType) /\ Len(Changes(h, p)) = Len(h.rollouts)
         /\ \A i \in 1 .. Len(h.rollouts) : Changes(h, p)[i] = ChangeOf(h, h.rollouts[i], p)
  <1>1. h.rollouts \in Seq(RolloutType) /\ Len(h.rollouts) \in Nat
    BY DEF HomeType
  <1>2. \A i \in 1 .. Len(h.rollouts) : ChangeOf(h, h.rollouts[i], p) \in ChangeType
    BY <1>1, ChangeTyped
  <1>3. Changes(h, p) = [f \in 1 .. Len(h.rollouts) |-> ChangeOf(h, h.rollouts[f], p)]
    BY DEF Changes
  <1> QED
    BY <1>1, <1>2, <1>3

\* Two surveys that tell the same.
Alike(c, e) == Len(c) = Len(e) /\ \A i \in 1 .. Len(c) : Tells(c[i], e[i])

\* The files of a thread, and those of them that show a user, have a
\* directory, or name a workspace.
FilesOf(c, t) == {i \in 1 .. Len(c) : c[i].id = t}
Spoken(c, t) == {i \in 1 .. Len(c) : c[i].id = t /\ c[i].user}
Placed(c, t) == {i \in 1 .. Len(c) : c[i].id = t /\ c[i].cwd # NoPath}
Hinting(c, t) == {i \in 1 .. Len(c) : c[i].id = t /\ Restorable(c[i])}
LastIn(s) == IF s # {} THEN Max(s) ELSE 0
FirstIn(s) == IF s # {} THEN Min(s) ELSE 0

\* The directory a thread gets, its row when it has one, and a row for it.
PlaceOf(c, t, old) == IF LastIn(Placed(c, t)) = 0 THEN old ELSE c[LastIn(Placed(c, t))].cwd
RowAfter(row, p, spoken, cwd) ==
    [row EXCEPT !.provider = p, !.source = IF spoken # {} /\ @ = "" THEN "user" ELSE @,
                !.user = @ \/ spoken # {}, !.cwd = cwd]
NewRow(c, p, k) ==
    IF k = 0 THEN NoThreadRow
    ELSE [provider |-> p, source |-> "user", user |-> TRUE, cwd |-> c[k].cwd, path |-> k]

LEMMA EndsOf ==
  ASSUME NEW n \in Nat, NEW s \in SUBSET (1 .. n)
  PROVE  /\ s = {} <=> LastIn(s) = 0
         /\ s = {} <=> FirstIn(s) = 0
         /\ s # {} => LastIn(s) \in s /\ FirstIn(s) \in s /\ \A i \in s : i <= LastIn(s)
  <1>1. CASE s = {}
    BY <1>1 DEF LastIn, FirstIn
  <1>2. CASE s # {}
    <2>1. Max(s) \in s /\ \A i \in s : i <= Max(s)
      BY <1>2, LastPosition
    <2>2. Min(s) \in s
      BY <1>2, FirstPosition
    <2>3. LastIn(s) = Max(s) /\ FirstIn(s) = Min(s)
      BY <1>2 DEF LastIn, FirstIn
    <2>4. Max(s) # 0 /\ Min(s) # 0
      BY <2>1, <2>2
    <2> QED
      BY <1>2, <2>1, <2>2, <2>3, <2>4
  <1> QED
    BY <1>1, <1>2

\* The model's selections are the ends of these sets.
LEMMA LastChangeIs ==
  ASSUME NEW c, NEW t
  PROVE  LastChange(c, t) = LastIn(FilesOf(c, t))
  BY DEF LastChange, SelectLastInSeq, LastIn, FilesOf

LEMMA HintIs ==
  ASSUME NEW h, NEW c, NEW t
  PROVE  Hint(h, c, t) = IF LastIn(Hinting(c, t)) = 0 THEN h.hints[t] ELSE c[LastIn(Hinting(c, t))].cwd
  BY DEF Hint, SelectLastInSeq, LastIn, Hinting

LEMMA UpdatedRowIs ==
  ASSUME NEW c, NEW t, NEW row, NEW p
  PROVE  UpdatedRow(row, t, p, c) = RowAfter(row, p, Spoken(c, t), PlaceOf(c, t, row.cwd))
  <1>1. (\E i \in 1 .. Len(c) : c[i].id = t /\ c[i].user) <=> Spoken(c, t) # {}
    BY Zenon DEF Spoken
  <1>2. SelectLastInSeq(c, LAMBDA x : x.id = t /\ x.cwd # NoPath) = LastIn(Placed(c, t))
    BY DEF SelectLastInSeq, LastIn, Placed
  <1> QED
    BY <1>1, <1>2, Zenon DEF UpdatedRow, RowAfter, PlaceOf

LEMMA InsertedRowIs ==
  ASSUME NEW c, NEW t, NEW p
  PROVE  InsertedRow(t, p, c) = NewRow(c, p, FirstIn(Spoken(c, t)))
  BY Zenon DEF InsertedRow, SelectInSeq, FirstIn, Spoken, NewRow

LEMMA FilesInRange ==
  ASSUME NEW c \in Seq(ChangeType), NEW t
  PROVE  /\ Len(c) \in Nat
         /\ FilesOf(c, t) \in SUBSET (1 .. Len(c)) /\ Spoken(c, t) \in SUBSET (1 .. Len(c))
         /\ Placed(c, t) \in SUBSET (1 .. Len(c)) /\ Hinting(c, t) \in SUBSET (1 .. Len(c))
  BY DEF FilesOf, Spoken, Placed, Hinting

LEMMA AlikeSelections ==
  ASSUME NEW c \in Seq(ChangeType), NEW e \in Seq(ChangeType), Alike(c, e), NEW t
  PROVE  /\ FilesOf(c, t) = FilesOf(e, t) /\ Spoken(c, t) = Spoken(e, t)
         /\ Placed(c, t) = Placed(e, t) /\ Hinting(c, t) = Hinting(e, t)
         /\ \A i \in 1 .. Len(c) : c[i].cwd = e[i].cwd
  <1>1. Len(c) = Len(e)
    BY DEF Alike
  <1>2. ASSUME NEW i \in 1 .. Len(c)
        PROVE  /\ c[i].id = e[i].id /\ (c[i].user <=> e[i].user) /\ c[i].cwd = e[i].cwd
               /\ Restorable(c[i]) <=> Restorable(e[i])
    <2>1. Tells(c[i], e[i])
      BY Zenon DEF Alike
    <2>2. c[i].id = e[i].id /\ (c[i].user <=> e[i].user) /\ c[i].cwd = e[i].cwd
      BY <2>1, Zenon DEF Tells
    <2> QED
      BY <2>2, Zenon DEF Restorable
  <1>3. FilesOf(c, t) = FilesOf(e, t)
    BY <1>1, <1>2, Zenon DEF FilesOf
  <1>4. Spoken(c, t) = Spoken(e, t)
    BY <1>1, <1>2, Zenon DEF Spoken
  <1>5. Placed(c, t) = Placed(e, t)
    BY <1>1, <1>2, Zenon DEF Placed
  <1>6. Hinting(c, t) = Hinting(e, t)
    BY <1>1, <1>2, Zenon DEF Hinting
  <1> QED
    BY <1>2, <1>3, <1>4, <1>5, <1>6

\* What is applied depends on what the survey tells, and not on its rewrites.
LEMMA AlikeRows ==
  ASSUME NEW c \in Seq(ChangeType), NEW e \in Seq(ChangeType), Alike(c, e), NEW rows, NEW p
  PROVE  ApplyRows(rows, p, c) = ApplyRows(rows, p, e)
  <1>1. ASSUME NEW t \in ThreadIds, NEW row
        PROVE  UpdatedRow(row, t, p, c) = UpdatedRow(row, t, p, e) /\ InsertedRow(t, p, c) = InsertedRow(t, p, e)
    <2>1. /\ Spoken(c, t) = Spoken(e, t) /\ Placed(c, t) = Placed(e, t)
          /\ \A i \in 1 .. Len(c) : c[i].cwd = e[i].cwd
      BY AlikeSelections
    <2>2. /\ Len(c) \in Nat /\ Spoken(c, t) \in SUBSET (1 .. Len(c)) /\ Placed(c, t) \in SUBSET (1 .. Len(c))
      BY FilesInRange
    <2> DEFINE k == LastIn(Placed(c, t))
               j == FirstIn(Spoken(c, t))
    <2>3. (k # 0 => k \in 1 .. Len(c)) /\ (j # 0 => j \in 1 .. Len(c))
      <3>1. k # 0 => k \in Placed(c, t)
        BY <2>2, EndsOf
      <3>2. j # 0 => j \in Spoken(c, t)
        BY <2>2, EndsOf
      <3> QED
        BY <2>2, <3>1, <3>2
    <2>4. (k # 0 => c[k].cwd = e[k].cwd) /\ (j # 0 => c[j].cwd = e[j].cwd)
      BY <2>1, <2>3
    <2>5. k = LastIn(Placed(e, t)) /\ j = FirstIn(Spoken(e, t))
      BY <2>1
    <2>6. PlaceOf(c, t, row.cwd) = PlaceOf(e, t, row.cwd)
      BY <2>4, <2>5 DEF PlaceOf
    <2>7. NewRow(c, p, j) = NewRow(e, p, j)
      BY <2>4, Zenon DEF NewRow
    <2> HIDE DEF k, j
    <2>8. UpdatedRow(row, t, p, c) = UpdatedRow(row, t, p, e)
      BY <2>1, <2>6, UpdatedRowIs, Zenon
    <2>9. InsertedRow(t, p, c) = InsertedRow(t, p, e)
      BY <2>5, <2>7, InsertedRowIs, Zenon DEF j
    <2> QED
      BY <2>8, <2>9
  <1> QED
    BY <1>1, Zenon DEF ApplyRows

LEMMA AlikeRoots ==
  ASSUME NEW c \in Seq(ChangeType), NEW e \in Seq(ChangeType), Alike(c, e)
  PROVE  WorkspaceRoots(c) = WorkspaceRoots(e)
  <1>1. Len(c) = Len(e)
    BY DEF Alike
  <1>2. ASSUME NEW i \in 1 .. Len(c)
        PROVE  c[i].cwd = e[i].cwd /\ (Restorable(c[i]) <=> Restorable(e[i]))
    <2>1. Tells(c[i], e[i])
      BY Zenon DEF Alike
    <2>2. c[i].id = e[i].id /\ (c[i].user <=> e[i].user) /\ c[i].cwd = e[i].cwd
      BY <2>1, Zenon DEF Tells
    <2> QED
      BY <2>2, Zenon DEF Restorable
  <1>3. [i \in 1 .. Len(c) |-> IF Restorable(c[i]) THEN c[i].cwd ELSE NoPath] =
        [i \in 1 .. Len(e) |-> IF Restorable(e[i]) THEN e[i].cwd ELSE NoPath]
    BY <1>1, <1>2, Zenon
  <1> QED
    BY <1>3, Zenon DEF WorkspaceRoots

LEMMA RootsTyped ==
  ASSUME NEW c \in Seq(ChangeType)
  PROVE  WorkspaceRoots(c) \in Seq(DesktopPaths) /\ OneEach(WorkspaceRoots(c))
  <1> DEFINE paths == [i \in 1 .. Len(c) |-> IF Restorable(c[i]) THEN c[i].cwd ELSE NoPath]
  <1>1. paths \in Seq(PathsOrNone)
    <2>1. \A i \in 1 .. Len(c) : c[i].cwd \in PathsOrNone
      <3>1. \A i \in 1 .. Len(c) : c[i] \in ChangeType
        OBVIOUS
      <3>2. \A x \in ChangeType : x.cwd \in PathsOrNone
        BY DEF ChangeType
      <3> QED
        BY <3>1, <3>2, Zenon
    <2>2. NoPath \in PathsOrNone /\ Len(c) \in Nat
      BY DEF PathsOrNone
    <2> QED
      BY <2>1, <2>2
  <1>2. WorkspaceRoots(c) = DedupePaths(paths)
    BY DEF WorkspaceRoots
  <1> HIDE DEF paths
  <1> QED
    BY <1>1, <1>2, DedupeFacts

\* The roots of a normal list, or none.
LEMMA ArrayTyped ==
  ASSUME NEW v \in Seq(Paths) \cup {Null, Absent}
  PROVE  PathArray(v) \in Seq(Paths)
  <1>1. <<>> \in Seq(Paths)
    OBVIOUS
  <1> QED
    BY <1>1 DEF PathArray

LEMMA ListsAreNeither ==
  ASSUME NEW d \in Seq(DesktopPaths)
  PROVE  /\ d \in Seq(PathsOrNone) /\ d \in Seq(Paths)
         /\ d \notin {Null, Absent} /\ PathArray(d) = d
  <1>1. DesktopPaths \subseteq Paths /\ DesktopPaths \subseteq PathsOrNone
    BY DEF DesktopPaths, PathsOrNone
  <1>2. d \in Seq(PathsOrNone) /\ d \in Seq(Paths)
    BY <1>1
  <1>3. d \notin {Null, Absent}
    <2> SUFFICES ASSUME d \in {Null, Absent} PROVE FALSE
      OBVIOUS
    <2>1. Len(d) \in Nat /\ Len(d) # 0 /\ d[1] = NoPath
      BY SMTT(30) DEF Null, Absent
    <2>2. d[1] \in Paths
      BY <1>2, <2>1
    <2> QED
      BY <2>1, <2>2, PathFacts
  <1> QED
    BY <1>2, <1>3 DEF PathArray

\* A list of roots that was made normal stays as it is.
LEMMA RootsStay ==
  ASSUME NEW c \in Seq(ChangeType), NEW v \in Seq(Paths) \cup {Null, Absent}
  PROVE  LET new == NormalRoots(v, c) IN
         new \in Seq(Paths) \cup {Null, Absent} /\ NormalRoots(new, c) = new
  <1> DEFINE w == WorkspaceRoots(c)
             new == NormalRoots(v, c)
  <1>1. w \in Seq(DesktopPaths) /\ OneEach(w) /\ w \in Seq(PathsOrNone)
    BY RootsTyped, ListsAreNeither
  <1>2. \A k \in 1 .. Len(w) : w[k] # NoPath => HasDir(w, w[k])
    BY DEF HasDir
  <1>3. /\ \A x : x # Absent => NormalRoots(x, c) = Listed(DedupePaths(PathArray(x) \o w))
        /\ NormalRoots(Absent, c) = IF w # <<>> THEN w ELSE Absent
    BY DEF NormalRoots
  <1>4. Null # Absent /\ PathArray(Null) = <<>>
    BY DEF Null, Absent, PathArray
  <1> HIDE DEF w, new
  <1>5. CASE v = Absent
    <2>1. CASE w = <<>>
      BY <1>3, <1>5, <2>1 DEF new
    <2>2. CASE w # <<>>
      <3>1. new = w /\ w \notin {Null, Absent} /\ PathArray(w) = w /\ w \in Seq(Paths)
        BY <1>1, <1>3, <1>5, <2>2, ListsAreNeither DEF new
      <3>2. DedupePaths(w \o w) = w
        BY <1>1, <1>2, DedupeStays
      <3>3. NormalRoots(new, c) = w
        BY <1>3, <2>2, <3>1, <3>2 DEF Listed
      <3> QED
        BY <3>1, <3>3 DEF new
    <2> QED
      BY <2>1, <2>2
  <1>6. CASE v # Absent
    <2> DEFINE a == PathArray(v)
               d == DedupePaths(a \o w)
    <2>1. a \in Seq(PathsOrNone) /\ a \o w \in Seq(PathsOrNone) /\ Len(a) \in Nat /\ Len(w) \in Nat
      <3>1. a \in Seq(Paths)
        BY ArrayTyped
      <3>2. Paths \subseteq PathsOrNone
        BY DEF PathsOrNone
      <3>3. a \in Seq(PathsOrNone)
        BY <3>1, <3>2
      <3> QED
        BY <1>1, <3>3
    <2> HIDE DEF a
    <2>2. /\ d \in Seq(DesktopPaths) /\ OneEach(d)
          /\ \A k \in 1 .. Len(a \o w) : (a \o w)[k] # NoPath => HasDir(d, (a \o w)[k])
      BY <2>1, DedupeFacts
    <2>3. \A k \in 1 .. Len(w) : w[k] # NoPath => HasDir(d, w[k])
      <3>1. \A k \in 1 .. Len(w) : Len(a) + k \in 1 .. Len(a \o w) /\ (a \o w)[Len(a) + k] = w[k]
        BY <1>1, <2>1
      <3> HIDE DEF d
      <3> QED
        BY <2>2, <3>1
    <2>4. new = Listed(d)
      BY <1>3, <1>6 DEF new, a
    <2> HIDE DEF d
    <2>5. CASE d = <<>>
      <3>1. new = Null
        BY <2>4, <2>5 DEF Listed
      <3>2. w = <<>>
        <4> SUFFICES ASSUME w # <<>> PROVE FALSE
          OBVIOUS
        <4>1. 1 \in 1 .. Len(w) /\ w[1] \in DesktopPaths
          BY <1>1
        <4>2. w[1] # NoPath
          BY <4>1, PathFacts
        <4>3. HasDir(d, w[1])
          BY <2>3, <4>1, <4>2
        <4> QED
          BY <2>5, <4>3 DEF HasDir
      <3>3. DedupePaths(<<>> \o <<>>) = <<>>
        <4> DEFINE none == <<>>
        <4>1. none \in Seq(DesktopPaths) /\ none \in Seq(PathsOrNone) /\ OneEach(none) /\ Len(none) = 0
          BY DEF OneEach
        <4>2. \A k \in 1 .. Len(none) : none[k] # NoPath => HasDir(none, none[k])
          BY <4>1
        <4>3. none \o none = none
          OBVIOUS
        <4> HIDE DEF none
        <4>4. DedupePaths(none \o none) = none
          BY <4>1, <4>2, DedupeStays
        <4> QED
          BY <4>3, <4>4 DEF none
      <3>4. NormalRoots(Null, c) = Null
        BY <1>3, <1>4, <3>2, <3>3 DEF Listed
      <3> QED
        BY <3>1, <3>4 DEF new
    <2>6. CASE d # <<>>
      <3>1. new = d /\ d \notin {Null, Absent} /\ PathArray(d) = d /\ d \in Seq(Paths)
        BY <2>2, <2>4, <2>6, ListsAreNeither DEF Listed
      <3>2. DedupePaths(d \o w) = d
        BY <1>1, <2>2, <2>3, DedupeStays
      <3>3. NormalRoots(new, c) = d
        BY <1>3, <2>6, <3>1, <3>2 DEF Listed
      <3> QED
        BY <3>1, <3>3 DEF new
    <2> QED
      BY <2>5, <2>6
  <1> QED
    BY <1>5, <1>6 DEF new

\* Whether the survey passes over a row of a thread.
Clean(row, t, p, c) ==
    LET k == LastIn(FilesOf(c, t))
    IN  IF row = NoThreadRow THEN ~(k # 0 /\ c[k].user)
        ELSE /\ row.provider = p
             /\ k # 0 /\ c[k].user => row.source # "" /\ row.user
             /\ k # 0 /\ c[k].cwd # NoPath => row.cwd = c[k].cwd

LEMMA UpdatesAre ==
  ASSUME NEW rows, NEW p, NEW c
  PROVE  RowUpdates(rows, p, c) = {} <=> \A t \in ThreadIds : Clean(rows[t], t, p, c)
  BY LastChangeIs, Zenon DEF RowUpdates, Clean

SourceAfter(row, s) == IF s # {} /\ row.source = "" THEN "user" ELSE row.source
UserAfter(row, s) == row.user \/ s # {}

LEMMA RowAfterFacts ==
  ASSUME NEW row \in RowType, NEW p \in ColumnTexts, NEW s, NEW cwd \in PathsOrNone,
         NEW new, new = RowAfter(row, p, s, cwd)
  PROVE  /\ new \in RowType /\ new.provider = p /\ new.cwd = cwd /\ new.path = row.path
         /\ new.source = SourceAfter(row, s)
         /\ new.user = UserAfter(row, s)
  <1> DEFINE source == IF s # {} /\ row.source = "" THEN "user" ELSE row.source
             user == row.user \/ s # {}
  <1>1. new = [row EXCEPT !.provider = p, !.source = source, !.user = user, !.cwd = cwd]
    BY Zenon DEF RowAfter
  <1>2. source \in ColumnTexts /\ cwd \in Paths \cup {NoPath}
    <2>1. row.source \in ColumnTexts
      BY DEF RowType
    <2>2. "user" \in ColumnTexts
      BY CatalogAssumption
    <2> QED
      BY <2>1, <2>2, Zenon DEF PathsOrNone
  <1>3. user \in BOOLEAN
    OBVIOUS
  <1> HIDE DEF source, user
  <1>5. new \in RowType /\ new.provider = p /\ new.cwd = cwd /\ new.path = row.path /\ new.source = source
    BY <1>1, <1>2, <1>3 DEF RowType
  <1>6. new.user = user
    BY <1>1 DEF RowType
  <1> QED
    BY <1>5, <1>6, Zenon DEF source, user, SourceAfter, UserAfter

LEMMA PlaceTyped ==
  ASSUME NEW c \in Seq(ChangeType), NEW t, NEW old \in PathsOrNone
  PROVE  /\ PlaceOf(c, t, old) \in PathsOrNone
         /\ old # NoPath => PlaceOf(c, t, old) # NoPath
  <1> DEFINE s == Placed(c, t)
  <1>1. s \in SUBSET (1 .. Len(c)) /\ Len(c) \in Nat
    BY FilesInRange
  <1>2. \A k \in s : c[k].cwd # NoPath /\ k \in 1 .. Len(c)
    BY DEF Placed
  <1>3. \A k \in 1 .. Len(c) : c[k].cwd \in PathsOrNone
    <2>1. \A k \in 1 .. Len(c) : c[k] \in ChangeType
      OBVIOUS
    <2>2. \A x \in ChangeType : x.cwd \in PathsOrNone
      BY DEF ChangeType
    <2> QED
      BY <2>1, <2>2, Zenon
  <1> HIDE DEF s
  <1>4. LastIn(s) = 0 \/ LastIn(s) \in s
    BY <1>1, EndsOf
  <1> QED
    BY <1>2, <1>3, <1>4 DEF PlaceOf, s

\* The last file of a thread, and what it means for a set of its files.
LEMMA LastOfThread ==
  ASSUME NEW c \in Seq(ChangeType), NEW t, LastIn(FilesOf(c, t)) # 0
  PROVE  LET k == LastIn(FilesOf(c, t)) IN
         /\ k \in FilesOf(c, t) /\ k \in 1 .. Len(c)
         /\ c[k].user => Spoken(c, t) # {}
         /\ \A old : c[k].cwd # NoPath => PlaceOf(c, t, old) = c[k].cwd
  <1> DEFINE k == LastIn(FilesOf(c, t))
             j == LastIn(Placed(c, t))
  <1>1. /\ Len(c) \in Nat /\ FilesOf(c, t) \in SUBSET (1 .. Len(c)) /\ Placed(c, t) \in SUBSET (1 .. Len(c))
    BY FilesInRange
  <1>2. k \in FilesOf(c, t) /\ \A i \in FilesOf(c, t) : i <= k
    BY <1>1, EndsOf
  <1>3. k \in 1 .. Len(c) /\ c[k].id = t
    BY <1>2 DEF FilesOf
  <1>4. /\ Placed(c, t) # {} <=> j # 0
        /\ Placed(c, t) # {} => j \in Placed(c, t) /\ \A i \in Placed(c, t) : i <= j
    BY <1>1, EndsOf
  <1> HIDE DEF k, j
  <1>5. c[k].user => Spoken(c, t) # {}
    BY <1>3, Zenon DEF Spoken
  <1>6. ASSUME c[k].cwd # NoPath PROVE j = k
    <2>1. k \in Placed(c, t)
      BY <1>3, <1>6, Zenon DEF Placed
    <2>2. j \in Placed(c, t) /\ k <= j
      BY <1>4, <2>1
    <2>3. j \in FilesOf(c, t)
      BY <2>2, Zenon DEF Placed, FilesOf
    <2> QED
      BY <1>1, <1>2, <2>1, <2>2, <2>3
  <1>7. k # 0
    BY DEF k
  <1>8. ASSUME NEW old, c[k].cwd # NoPath PROVE PlaceOf(c, t, old) = c[k].cwd
    <2>1. LastIn(Placed(c, t)) = k
      BY <1>6, <1>8 DEF j
    <2> QED
      BY <1>7, <2>1 DEF PlaceOf
  <1> QED
    BY <1>2, <1>3, <1>5, <1>8, Zenon DEF k

\* A row that was updated is passed over.
LEMMA UpdatedClean ==
  ASSUME NEW c \in Seq(ChangeType), NEW t, NEW p \in ColumnTexts, p # "none", NEW row \in RowType
  PROVE  /\ UpdatedRow(row, t, p, c) \in RowType /\ UpdatedRow(row, t, p, c) # NoThreadRow
         /\ Clean(UpdatedRow(row, t, p, c), t, p, c)
         /\ row.cwd # NoPath => UpdatedRow(row, t, p, c).cwd # NoPath
  <1> DEFINE new == UpdatedRow(row, t, p, c)
             cwd == PlaceOf(c, t, row.cwd)
             k == LastIn(FilesOf(c, t))
             spoken == Spoken(c, t)
  <1>1. row.cwd \in PathsOrNone
    BY DEF RowType, PathsOrNone
  <1>2. cwd \in PathsOrNone /\ (row.cwd # NoPath => cwd # NoPath)
    BY <1>1, PlaceTyped
  <1>3. /\ new \in RowType /\ new.provider = p /\ new.cwd = cwd
        /\ new.source = SourceAfter(row, spoken)
        /\ new.user = UserAfter(row, spoken)
    <2>1. new = RowAfter(row, p, spoken, cwd)
      BY UpdatedRowIs, Zenon
    <2> HIDE DEF new, spoken, cwd
    <2> QED
      BY <1>2, <2>1, RowAfterFacts
  <1>4. k # 0 => /\ c[k].user => spoken # {}
                 /\ c[k].cwd # NoPath => cwd = c[k].cwd
    BY LastOfThread, Zenon
  <1> HIDE DEF new, cwd, k, spoken
  <1>5. NoThreadRow.provider = "none"
    BY DEF NoThreadRow
  <1>6. new # NoThreadRow
    BY <1>3, <1>5, Zenon
  <1>7. spoken # {} => new.source # ""
    <2>1. "user" # ""
      OBVIOUS
    <2> QED
      BY <1>3, <2>1, Zenon DEF SourceAfter
  <1>8. spoken # {} => new.user
    BY <1>3, Zenon DEF UserAfter
  <1>9. Clean(new, t, p, c)
    BY <1>3, <1>4, <1>6, <1>7, <1>8, Zenon DEF Clean, k
  <1> QED
    BY <1>2, <1>3, <1>6, <1>9, Zenon DEF new

\* A thread of which no file shows a user has no row to insert.
LEMMA SilentClean ==
  ASSUME NEW c \in Seq(ChangeType), NEW t, NEW p, Spoken(c, t) = {}
  PROVE  InsertedRow(t, p, c) = NoThreadRow /\ Clean(NoThreadRow, t, p, c)
  <1>1. FirstIn(Spoken(c, t)) = 0
    BY DEF FirstIn
  <1>2. InsertedRow(t, p, c) = NoThreadRow
    BY <1>1, InsertedRowIs DEF NewRow
  <1>3. LastIn(FilesOf(c, t)) # 0 => ~c[LastIn(FilesOf(c, t))].user
    BY LastOfThread, Zenon
  <1> QED
    BY <1>2, <1>3, Zenon DEF Clean

\* One file per thread.
OneFile(c) == \A i, j \in 1 .. Len(c) : c[i].id = c[j].id => i = j \/ c[i].id = NoId

LEMMA InsertedFacts ==
  ASSUME NEW c \in Seq(ChangeType), NEW t \in ThreadIds, NEW p \in ColumnTexts, p # "none", Spoken(c, t) # {}
  PROVE  /\ InsertedRow(t, p, c) \in RowType /\ InsertedRow(t, p, c) # NoThreadRow
         /\ OneFile(c) => Clean(InsertedRow(t, p, c), t, p, c)
  <1> DEFINE j == FirstIn(Spoken(c, t))
             new == InsertedRow(t, p, c)
             k == LastIn(FilesOf(c, t))
  <1>1. Spoken(c, t) \in SUBSET (1 .. Len(c)) /\ FilesOf(c, t) \in SUBSET (1 .. Len(c)) /\ Len(c) \in Nat
    BY FilesInRange
  <1>2. j \in Spoken(c, t) /\ j # 0
    BY <1>1, EndsOf
  <1>3. j \in 1 .. Len(c) /\ c[j].id = t
    BY <1>2, Zenon DEF Spoken
  <1>4. c[j].cwd \in Paths \cup {NoPath}
    <2>1. c[j] \in ChangeType
      BY <1>3
    <2> QED
      BY <2>1 DEF ChangeType, PathsOrNone
  <1> HIDE DEF j
  <1>5. new = [provider |-> p, source |-> "user", user |-> TRUE, cwd |-> c[j].cwd, path |-> j]
    BY <1>2, InsertedRowIs DEF NewRow, j
  <1> HIDE DEF new
  <1>6. /\ new \in RowType /\ new.provider = p /\ new.source = "user" /\ new.cwd = c[j].cwd
    <2>1. "user" \in ColumnTexts
      BY CatalogAssumption
    <2>2. j \in Nat
      BY <1>1, <1>3
    <2> QED
      BY <1>4, <1>5, <2>1, <2>2 DEF RowType
  <1>7. new.user
    BY <1>5
  <1>8. new # NoThreadRow
    BY <1>6 DEF NoThreadRow
  <1>9. ASSUME OneFile(c) PROVE Clean(new, t, p, c)
    <2>1. k # 0 => k \in 1 .. Len(c) /\ c[k].id = t
      <3>1. k # 0 => k \in FilesOf(c, t)
        BY <1>1, EndsOf
      <3> QED
        BY <3>1, Zenon DEF FilesOf
    <2>2. t # NoId
      BY CatalogAssumption
    <2>3. k # 0 => k = j
      BY <1>3, <1>9, <2>1, <2>2, Zenon DEF OneFile
    <2>4. "user" # ""
      OBVIOUS
    <2> QED
      BY <1>6, <1>7, <1>8, <2>3, <2>4, Zenon DEF Clean
  <1> QED
    BY <1>6, <1>8, <1>9, Zenon DEF new

\* With one file per thread a row that is passed over would stay as it is.
LEMMA CleanStays ==
  ASSUME NEW c \in Seq(ChangeType), OneFile(c), NEW t \in ThreadIds, NEW p \in ColumnTexts,
         NEW row \in RowType, Clean(row, t, p, c)
  PROVE  /\ row # NoThreadRow => UpdatedRow(row, t, p, c) = row
         /\ row = NoThreadRow => InsertedRow(t, p, c) = NoThreadRow
  <1> DEFINE k == LastIn(FilesOf(c, t))
  <1>1. /\ Len(c) \in Nat /\ FilesOf(c, t) \in SUBSET (1 .. Len(c)) /\ Placed(c, t) \in SUBSET (1 .. Len(c))
    BY FilesInRange
  <1>2. \A i \in 1 .. Len(c) : c[i].id = t => i = k /\ k # 0
    <2> SUFFICES ASSUME NEW i \in 1 .. Len(c), c[i].id = t PROVE i = k /\ k # 0
      OBVIOUS
    <2>1. i \in FilesOf(c, t)
      BY Zenon DEF FilesOf
    <2>2. k \in FilesOf(c, t) /\ k # 0
      BY <1>1, <2>1, EndsOf
    <2>3. k \in 1 .. Len(c) /\ c[k].id = t
      BY <2>2, Zenon DEF FilesOf
    <2>4. t # NoId
      BY CatalogAssumption
    <2> QED
      BY <2>2, <2>3, <2>4, Zenon DEF OneFile
  <1>3. Spoken(c, t) # {} => k # 0 /\ c[k].user
    BY <1>2, Zenon DEF Spoken
  <1>4. LastIn(Placed(c, t)) # 0 => k # 0 /\ LastIn(Placed(c, t)) = k /\ c[k].cwd # NoPath
    <2>1. LastIn(Placed(c, t)) # 0 => LastIn(Placed(c, t)) \in Placed(c, t)
      BY <1>1, EndsOf
    <2> QED
      BY <1>2, <2>1, Zenon DEF Placed
  <1>5. ASSUME row = NoThreadRow PROVE InsertedRow(t, p, c) = NoThreadRow
    <2>1. Spoken(c, t) = {}
      BY <1>3, <1>5, Zenon DEF Clean
    <2> QED
      BY <2>1, SilentClean
  <1>6. ASSUME row # NoThreadRow PROVE UpdatedRow(row, t, p, c) = row
    <2> DEFINE new == UpdatedRow(row, t, p, c)
               spoken == Spoken(c, t)
               cwd == PlaceOf(c, t, row.cwd)
    <2>1. /\ row.provider = p
          /\ spoken # {} => row.source # "" /\ row.user
          /\ LastIn(Placed(c, t)) # 0 => row.cwd = c[LastIn(Placed(c, t))].cwd
      BY <1>3, <1>4, <1>6, Zenon DEF Clean
    <2>2. cwd = row.cwd
      BY <2>1 DEF PlaceOf
    <2>3. row.cwd \in PathsOrNone
      BY DEF RowType, PathsOrNone
    <2>4. new = RowAfter(row, p, spoken, row.cwd)
      BY <2>2, UpdatedRowIs, Zenon
    <2> HIDE DEF new, spoken, cwd
    <2>5. /\ new \in RowType /\ new.provider = p /\ new.cwd = row.cwd /\ new.path = row.path
          /\ new.source = SourceAfter(row, spoken)
          /\ new.user = UserAfter(row, spoken)
      BY <2>3, <2>4, RowAfterFacts
    <2>6. new.provider = row.provider /\ new.source = row.source
      BY <2>1, <2>5, Zenon DEF SourceAfter
    <2>7. new.user <=> row.user
      BY <2>1, <2>5, Zenon DEF UserAfter
    <2>8. new.user \in BOOLEAN /\ row.user \in BOOLEAN
      BY <2>5 DEF RowType
    <2>9. new.user = row.user
      <3>1. \A x, y \in BOOLEAN : (x <=> y) => x = y
        OBVIOUS
      <3> QED
        BY <2>7, <2>8, <3>1, Zenon
    <2>10. \A a, b \in RowType :
              a.provider = b.provider /\ a.source = b.source /\ a.user = b.user /\ a.cwd = b.cwd /\ a.path = b.path
              => a = b
      BY DEF RowType
    <2> QED
      BY <2>5, <2>6, <2>9, <2>10, Zenon DEF new
  <1> QED
    BY <1>5, <1>6

LEMMA RowsApplied ==
  ASSUME NEW c \in Seq(ChangeType), NEW p \in TargetProviders, NEW rows \in [ThreadIds -> RowType]
  PROVE  LET new == ApplyRows(rows, p, c) IN
         /\ new \in [ThreadIds -> RowType]
         /\ \A t \in ThreadIds : rows[t].cwd # NoPath => new[t].cwd # NoPath
         /\ OneFile(c) => RowUpdates(new, p, c) = {}
         /\ RowUpdates(ApplyRows(new, p, c), p, c) = {}
         /\ OneFile(c) /\ RowUpdates(rows, p, c) = {} => new = rows
  <1> DEFINE new == ApplyRows(rows, p, c)
             next == ApplyRows(new, p, c)
  <1>1. p \in ColumnTexts /\ p # "none"
    BY CatalogAssumption
  <1>2. NoThreadRow \in RowType /\ NoThreadRow.cwd = NoPath
    <2>1. "none" \in ColumnTexts
      BY CatalogAssumption
    <2> QED
      BY <2>1 DEF NoThreadRow, RowType
  <1>3. ASSUME NEW old, NEW t \in ThreadIds
        PROVE  ApplyRows(old, p, c)[t] = IF old[t] # NoThreadRow THEN UpdatedRow(old[t], t, p, c)
                                         ELSE InsertedRow(t, p, c)
    BY DEF ApplyRows
  <1>4. ASSUME NEW t \in ThreadIds
        PROVE  /\ new[t] \in RowType
               /\ rows[t].cwd # NoPath => new[t].cwd # NoPath
               /\ OneFile(c) => Clean(new[t], t, p, c)
               /\ Clean(next[t], t, p, c)
               /\ OneFile(c) /\ Clean(rows[t], t, p, c) => new[t] = rows[t]
    <2>1. rows[t] \in RowType
      OBVIOUS
    <2>2. new[t] = IF rows[t] # NoThreadRow THEN UpdatedRow(rows[t], t, p, c) ELSE InsertedRow(t, p, c)
      BY <1>3
    <2>3. next[t] = IF new[t] # NoThreadRow THEN UpdatedRow(new[t], t, p, c) ELSE InsertedRow(t, p, c)
      BY <1>3
    <2> HIDE DEF new, next
    <2>4. new[t] \in RowType /\ new[t] # NoThreadRow => Clean(next[t], t, p, c)
      BY <1>1, <2>3, UpdatedClean, SMTT(30)
    <2>5. OneFile(c) /\ Clean(rows[t], t, p, c) => new[t] = rows[t]
      <3>1. OneFile(c) /\ Clean(rows[t], t, p, c)
            => /\ rows[t] # NoThreadRow => UpdatedRow(rows[t], t, p, c) = rows[t]
               /\ rows[t] = NoThreadRow => InsertedRow(t, p, c) = NoThreadRow
        BY <1>1, <2>1, CleanStays
      <3> QED
        BY <2>2, <3>1, Zenon
    <2>6. CASE rows[t] # NoThreadRow
      <3>1. new[t] = UpdatedRow(rows[t], t, p, c)
        BY <2>2, <2>6, Zenon
      <3>2. /\ new[t] \in RowType /\ new[t] # NoThreadRow /\ Clean(new[t], t, p, c)
            /\ rows[t].cwd # NoPath => new[t].cwd # NoPath
        BY <1>1, <2>1, <3>1, UpdatedClean, Zenon
      <3> QED
        BY <2>4, <2>5, <3>2, Zenon
    <2>7. CASE rows[t] = NoThreadRow /\ Spoken(c, t) = {}
      <3>1. new[t] = NoThreadRow /\ Clean(NoThreadRow, t, p, c) /\ InsertedRow(t, p, c) = NoThreadRow
        BY <2>2, <2>7, SilentClean, Zenon
      <3>2. next[t] = NoThreadRow
        BY <2>3, <3>1, Zenon
      <3> QED
        BY <1>2, <2>5, <2>7, <3>1, <3>2, Zenon
    <2>8. CASE rows[t] = NoThreadRow /\ Spoken(c, t) # {}
      <3>1. new[t] = InsertedRow(t, p, c)
        BY <2>2, <2>8, Zenon
      <3>2. new[t] \in RowType /\ new[t] # NoThreadRow /\ (OneFile(c) => Clean(new[t], t, p, c))
        BY <1>1, <2>8, <3>1, InsertedFacts, Zenon
      <3> QED
        BY <1>2, <2>4, <2>5, <2>8, <3>2, Zenon
    <2> QED
      BY <2>6, <2>7, <2>8, Zenon
  <1>5. new \in [ThreadIds -> RowType]
    <2>1. new = [t \in ThreadIds |-> new[t]]
      BY DEF ApplyRows
    <2> HIDE DEF new, next
    <2> QED
      BY <1>4, <2>1
  <1>6. OneFile(c) /\ RowUpdates(rows, p, c) = {} => new = rows
    <2> HIDE DEF new, next
    <2>1. OneFile(c) /\ RowUpdates(rows, p, c) = {} => \A t \in ThreadIds : new[t] = rows[t]
      BY <1>4, UpdatesAre, Zenon
    <2> QED
      BY <1>5, <2>1
  <1> HIDE DEF new, next
  <1>7. (OneFile(c) => RowUpdates(new, p, c) = {}) /\ RowUpdates(next, p, c) = {}
    BY <1>4, UpdatesAre, Zenon
  <1>8. \A t \in ThreadIds : rows[t].cwd # NoPath => new[t].cwd # NoPath
    BY <1>4, Zenon
  <1> QED
    BY <1>5, <1>6, <1>7, <1>8, Zenon DEF new, next

LEMMA HintFacts ==
  ASSUME NEW c \in Seq(ChangeType), NEW e \in Seq(ChangeType), Alike(c, e), NEW t, NEW g, NEW h,
         h.hints[t] \in PathsOrNone
  PROVE  /\ Hint(h, c, t) \in PathsOrNone
         /\ g.hints[t] = Hint(h, c, t) => Hint(g, e, t) = g.hints[t]
  <1> DEFINE k == LastIn(Hinting(c, t))
  <1>1. Hinting(c, t) = Hinting(e, t) /\ \A i \in 1 .. Len(c) : c[i].cwd = e[i].cwd
    BY AlikeSelections
  <1>2. k # 0 => k \in 1 .. Len(c)
    <2>1. Len(c) \in Nat /\ Hinting(c, t) \in SUBSET (1 .. Len(c))
      BY FilesInRange
    <2>2. k # 0 => k \in Hinting(c, t)
      BY <2>1, EndsOf
    <2> QED
      BY <2>1, <2>2
  <1>3. \A i \in 1 .. Len(c) : c[i].cwd \in PathsOrNone
    <2>1. \A i \in 1 .. Len(c) : c[i] \in ChangeType
      OBVIOUS
    <2>2. \A x \in ChangeType : x.cwd \in PathsOrNone
      BY DEF ChangeType
    <2> QED
      BY <2>1, <2>2, Zenon
  <1>4. LastIn(Hinting(e, t)) = k
    BY <1>1
  <1> HIDE DEF k
  <1>5. Hint(h, c, t) = IF k = 0 THEN h.hints[t] ELSE c[k].cwd
    BY HintIs, Zenon DEF k
  <1>6. Hint(g, e, t) = IF k = 0 THEN g.hints[t] ELSE e[k].cwd
    BY <1>4, HintIs, Zenon
  <1> QED
    BY <1>1, <1>2, <1>3, <1>5, <1>6, Zenon

\* When a survey finds nothing to do.
LEMMA UpToDateIs ==
  ASSUME NEW h \in HomeType, NEW p
  PROVE  LET c == Changes(h, p) IN
         UpToDate(h, p) <=> /\ \A i \in 1 .. Len(c) : ~c[i].rewrite
                            /\ \A d \in CatalogDBs : RowUpdates(h.rows[d], p, c) = {}
                            /\ \A key \in RootKeys : NormalRoots(h.roots[key], c) = h.roots[key]
                            /\ \A t \in ThreadIds : Hint(h, c, t) = h.hints[t]
  <1> DEFINE c == Changes(h, p)
             next == NormalizedGlobalState(h, c)
  <1> HIDE DEF c
  <1>1. /\ \A key \in RootKeys : next.roots[key] = NormalRoots(h.roots[key], c)
        /\ \A t \in ThreadIds : next.hints[t] = Hint(h, c, t)
    BY DEF NormalizedGlobalState, HomeType
  <1> HIDE DEF next
  <1>2. GlobalUpdates(h, c) = {} <=> /\ \A key \in RootKeys : next.roots[key] = h.roots[key]
                                     /\ \A t \in ThreadIds : next.hints[t] = h.hints[t]
    BY Zenon DEF GlobalUpdates, next
  <1>3. UpToDate(h, p) <=> /\ \A i \in 1 .. Len(c) : ~c[i].rewrite
                           /\ \A d \in CatalogDBs : RowUpdates(h.rows[d], p, c) = {}
                           /\ GlobalUpdates(h, c) = {}
    BY Zenon DEF UpToDate, c
  <1> QED
    BY <1>1, <1>2, <1>3, Zenon DEF c

Able(h) == \A f \in 1 .. Len(h.rollouts) : Rewritable(h.rollouts[f])

\* What a sync makes of the parts of the home.
LEMMA AppliedIs ==
  ASSUME NEW h \in HomeType, NEW p,
         \A f \in 1 .. Len(h.rollouts) : Changes(h, p)[f].rewrite => Rewritable(h.rollouts[f])
  PROVE  Applied(h, p) =
            [rollouts |-> [f \in 1 .. Len(h.rollouts) |->
                              IF Changes(h, p)[f].rewrite THEN RewriteMetaLines(h.rollouts[f], p) ELSE h.rollouts[f]],
             rows |-> [d \in CatalogDBs |-> ApplyRows(h.rows[d], p, Changes(h, p))],
             roots |-> [key \in RootKeys |-> NormalRoots(h.roots[key], Changes(h, p))],
             hints |-> [t \in ThreadIds |-> Hint(h, Changes(h, p), t)],
             projectless |-> h.projectless]
  <1> DEFINE c == Changes(h, p)
             rewritten == {f \in 1 .. Len(c) : c[f].rewrite}
             g == NormalizedGlobalState(h, c)
             roots == [key \in RootKeys |-> NormalRoots(h.roots[key], c)]
             hints == [t \in ThreadIds |-> Hint(h, c, t)]
             files(x) == [f \in 1 .. Len(x) |-> IF f \in rewritten THEN RewriteMetaLines(x[f], p) ELSE x[f]]
             rows(x) == [d \in CatalogDBs |-> ApplyRows(x[d], p, c)]
  <1>1. Len(c) = Len(h.rollouts)
    BY ChangesTyped
  <1>2. ~\E f \in rewritten : ~Rewritable(h.rollouts[f])
    BY <1>1, Zenon
  <1>3. Applied(h, p) = [g EXCEPT !.rollouts = files(@), !.rows = rows(@)]
    BY <1>2, Zenon DEF Applied
  <1>4. \A f \in 1 .. Len(h.rollouts) : f \in rewritten <=> c[f].rewrite
    BY <1>1, Zenon
  <1>5. files(h.rollouts) = [f \in 1 .. Len(h.rollouts) |-> IF c[f].rewrite THEN RewriteMetaLines(h.rollouts[f], p) ELSE h.rollouts[f]]
    <2> HIDE DEF rewritten, c
    <2> QED
      BY <1>4, Zenon
  <1>6. g = [h EXCEPT !.roots = roots, !.hints = hints]
    BY Zenon DEF NormalizedGlobalState
  <1> HIDE DEF files, rows, roots, hints, g, c
  <1>7. g = [rollouts |-> h.rollouts, rows |-> h.rows, roots |-> roots, hints |-> hints, projectless |-> h.projectless]
    BY <1>6 DEF HomeType
  <1>8. Applied(h, p) = [rollouts |-> files(h.rollouts), rows |-> rows(h.rows), roots |-> roots, hints |-> hints,
                         projectless |-> h.projectless]
    BY <1>3, <1>7
  <1> QED
    BY <1>5, <1>8, Zenon DEF rows, roots, hints, c

\* A sync leaves a home, and one that tells the same.
LEMMA AppliedFacts ==
  ASSUME NEW h \in HomeType, NEW p \in TargetProviders,
         \A f \in 1 .. Len(h.rollouts) : Changes(h, p)[f].rewrite => Rewritable(h.rollouts[f])
  PROVE  LET g == Applied(h, p)
             c == Changes(h, p)
             e == Changes(g, p)
         IN  /\ g \in HomeType /\ Alike(c, e) /\ \A i \in 1 .. Len(e) : ~e[i].rewrite
             /\ Able(h) => Able(g)
             /\ \A d \in CatalogDBs : g.rows[d] = ApplyRows(h.rows[d], p, c)
             /\ \A key \in RootKeys : g.roots[key] = NormalRoots(h.roots[key], c)
             /\ \A t \in ThreadIds : g.hints[t] = Hint(h, c, t)
  <1> DEFINE c == Changes(h, p)
             g == Applied(h, p)
             e == Changes(g, p)
             n == Len(h.rollouts)
             file(f) == IF c[f].rewrite THEN RewriteMetaLines(h.rollouts[f], p) ELSE h.rollouts[f]
             files == [f \in 1 .. n |-> file(f)]
             rows == [d \in CatalogDBs |-> ApplyRows(h.rows[d], p, c)]
             roots == [key \in RootKeys |-> NormalRoots(h.roots[key], c)]
             hints == [t \in ThreadIds |-> Hint(h, c, t)]
  <1>1. /\ h.rollouts \in Seq(RolloutType) /\ n \in Nat /\ h.rows \in [CatalogDBs -> [ThreadIds -> RowType]]
        /\ h.roots \in [RootKeys -> Seq(Paths) \cup {Null, Absent}] /\ h.hints \in [ThreadIds -> PathsOrNone]
        /\ h.projectless \in SUBSET ThreadIds /\ \A f \in 1 .. n : h.rollouts[f] \in RolloutType
    BY DEF HomeType
  <1>2. p \in ColumnTexts
    BY CatalogAssumption
  <1>3. c \in Seq(ChangeType) /\ Len(c) = n /\ \A f \in 1 .. n : c[f] = ChangeOf(h, h.rollouts[f], p)
    BY ChangesTyped
  <1>4. g = [rollouts |-> files, rows |-> rows, roots |-> roots, hints |-> hints, projectless |-> h.projectless]
    BY AppliedIs, Zenon
  <1> HIDE DEF c, g, n
  <1>5. ASSUME NEW f \in 1 .. n
        PROVE  /\ file(f) \in RolloutType
               /\ Rewritable(h.rollouts[f]) => Rewritable(file(f))
               /\ \A x : x.projectless = h.projectless =>
                     Tells(c[f], ChangeOf(x, file(f), p)) /\ ~ChangeOf(x, file(f), p).rewrite
    <2> DEFINE r == h.rollouts[f]
    <2>1. r \in RolloutType /\ c[f] = ChangeOf(h, r, p)
      BY <1>1, <1>3
    <2> HIDE DEF r
    <2>2. CASE c[f].rewrite
      <3>1. file(f) = RewriteMetaLines(r, p)
        BY <2>2, Zenon DEF r
      <3>2. RewriteMetaLines(r, p) \in RolloutType /\ (Rewritable(r) => Rewritable(RewriteMetaLines(r, p)))
        BY <1>2, <2>1, LinesRewritten, ReadRewritten
      <3>3. ASSUME NEW x, x.projectless = h.projectless
            PROVE  Tells(c[f], ChangeOf(x, file(f), p)) /\ ~ChangeOf(x, file(f), p).rewrite
        <4>1. Tells(ChangeOf(x, RewriteMetaLines(r, p), p), ChangeOf(h, r, p)) /\ ChangeOf(x, RewriteMetaLines(r, p), p).rewrite = FALSE
          BY <1>2, <2>1, <3>3, ChangeRewritten
        <4>2. \A a, b : Tells(a, b) => Tells(b, a)
          BY Zenon DEF Tells
        <4> QED
          BY <2>1, <3>1, <4>1, <4>2, Zenon
      <3> HIDE DEF file
      <3> QED
        BY <3>1, <3>2, <3>3, Zenon DEF r
    <2>3. CASE ~c[f].rewrite
      <3>1. file(f) = r
        BY <2>3, Zenon DEF r
      <3>2. ASSUME NEW x, x.projectless = h.projectless PROVE ChangeOf(x, r, p) = ChangeOf(h, r, p)
        BY <3>2, Zenon DEF ChangeOf
      <3>3. \A a : Tells(a, a)
        BY Zenon DEF Tells
      <3> HIDE DEF file
      <3> QED
        BY <2>1, <2>3, <3>1, <3>2, <3>3, Zenon DEF r
    <2> QED
      BY <2>2, <2>3, Zenon
  <1> HIDE DEF file
  <1>6. files \in Seq(RolloutType) /\ Len(files) = n /\ \A f \in 1 .. n : files[f] = file(f)
    BY <1>1, <1>5
  <1>7. rows \in [CatalogDBs -> [ThreadIds -> RowType]]
    <2>1. \A d \in CatalogDBs : ApplyRows(h.rows[d], p, c) \in [ThreadIds -> RowType]
      BY <1>1, <1>3, RowsApplied
    <2> QED
      BY <2>1
  <1>8. roots \in [RootKeys -> Seq(Paths) \cup {Null, Absent}]
    <2>1. \A key \in RootKeys : NormalRoots(h.roots[key], c) \in Seq(Paths) \cup {Null, Absent}
      BY <1>1, <1>3, RootsStay
    <2> QED
      BY <2>1
  <1>9. hints \in [ThreadIds -> PathsOrNone]
    <2>1. \A x : Tells(x, x)
      BY Zenon DEF Tells
    <2>2. Alike(c, c)
      BY <2>1, Zenon DEF Alike
    <2>3. \A t \in ThreadIds : h.hints[t] \in PathsOrNone
      BY <1>1
    <2>4. \A t \in ThreadIds : Hint(h, c, t) \in PathsOrNone
      BY <1>3, <2>2, <2>3, HintFacts
    <2> QED
      BY <2>4
  <1>10. /\ \A d \in CatalogDBs : rows[d] = ApplyRows(h.rows[d], p, c)
         /\ \A key \in RootKeys : roots[key] = NormalRoots(h.roots[key], c)
         /\ \A t \in ThreadIds : hints[t] = Hint(h, c, t)
    OBVIOUS
  <1> HIDE DEF files, rows, roots, hints
  <1>11. /\ g \in HomeType /\ g.rollouts = files /\ g.rows = rows /\ g.roots = roots /\ g.hints = hints
         /\ g.projectless = h.projectless
    BY <1>1, <1>4, <1>6, <1>7, <1>8, <1>9 DEF HomeType
  <1>12. Len(e) = n /\ \A f \in 1 .. n : e[f] = ChangeOf(g, file(f), p)
    <2>1. Len(e) = Len(g.rollouts) /\ \A f \in 1 .. Len(g.rollouts) : e[f] = ChangeOf(g, g.rollouts[f], p)
      BY <1>11, ChangesTyped
    <2> HIDE DEF e
    <2> QED
      BY <1>6, <1>11, <2>1
  <1> HIDE DEF e
  <1>13. \A f \in 1 .. n : Tells(c[f], e[f]) /\ ~e[f].rewrite
    BY <1>5, <1>11, <1>12, Zenon
  <1>14. Alike(c, e)
    BY <1>3, <1>12, <1>13, Zenon DEF Alike
  <1>15. Able(h) => Able(g)
    BY <1>5, <1>6, <1>11, Zenon DEF Able, n
  <1> QED
    BY <1>10, <1>11, <1>12, <1>13, <1>14, <1>15, Zenon DEF c, g, e

\* Whose files they are does not depend on the provider.
LEMMA OneFileIs ==
  ASSUME NEW h \in HomeType, NEW p
  PROVE  OneFilePerThread(h) <=> OneFile(Changes(h, p))
  <1> DEFINE c == Changes(h, "openai")
             e == Changes(h, p)
             n == Len(h.rollouts)
  <1>1. /\ Len(c) = n /\ \A f \in 1 .. n : c[f] = ChangeOf(h, h.rollouts[f], "openai")
        /\ Len(e) = n /\ \A f \in 1 .. n : e[f] = ChangeOf(h, h.rollouts[f], p)
    BY ChangesTyped
  <1>2. ASSUME NEW r PROVE ChangeOf(h, r, "openai").id = ChangeOf(h, r, p).id
    BY DEF ChangeOf, NoChange
  <1> HIDE DEF c, e, n
  <1>3. \A f \in 1 .. n : c[f].id = e[f].id
    BY <1>1, <1>2
  <1> QED
    BY <1>1, <1>3, Zenon DEF OneFilePerThread, OneFile, c, e

LEMMA TellsBack == \A c, e : Alike(c, e) => Alike(e, c)
  BY Zenon DEF Alike, Tells

LEMMA OneFileStays ==
  ASSUME NEW c, NEW e, Alike(c, e), OneFile(c)
  PROVE  OneFile(e)
  BY Zenon DEF Alike, Tells, OneFile

\* A sync that has nothing to do would change nothing.
LEMMA NothingChanges ==
  ASSUME NEW h \in HomeType, NEW p \in TargetProviders, OneFilePerThread(h), UpToDate(h, p)
  PROVE  Applied(h, p) = h
  <1> DEFINE c == Changes(h, p)
             files == [f \in 1 .. Len(h.rollouts) |->
                          IF c[f].rewrite THEN RewriteMetaLines(h.rollouts[f], p) ELSE h.rollouts[f]]
             rows == [d \in CatalogDBs |-> ApplyRows(h.rows[d], p, c)]
             roots == [key \in RootKeys |-> NormalRoots(h.roots[key], c)]
             hints == [t \in ThreadIds |-> Hint(h, c, t)]
  <1>1. /\ h.rollouts \in Seq(RolloutType) /\ Len(h.rollouts) \in Nat
        /\ h.rows \in [CatalogDBs -> [ThreadIds -> RowType]]
        /\ h.roots \in [RootKeys -> Seq(Paths) \cup {Null, Absent}] /\ h.hints \in [ThreadIds -> PathsOrNone]
    BY DEF HomeType
  <1>2. c \in Seq(ChangeType) /\ Len(c) = Len(h.rollouts)
    BY ChangesTyped
  <1>3. OneFile(c)
    BY OneFileIs
  <1>4. /\ \A i \in 1 .. Len(c) : ~c[i].rewrite
        /\ \A d \in CatalogDBs : RowUpdates(h.rows[d], p, c) = {}
        /\ \A key \in RootKeys : NormalRoots(h.roots[key], c) = h.roots[key]
        /\ \A t \in ThreadIds : Hint(h, c, t) = h.hints[t]
    BY UpToDateIs, Zenon
  <1>5. Applied(h, p) = [rollouts |-> files, rows |-> rows, roots |-> roots, hints |-> hints, projectless |-> h.projectless]
    <2>1. \A f \in 1 .. Len(h.rollouts) : c[f].rewrite => Rewritable(h.rollouts[f])
      BY <1>2, <1>4, Zenon
    <2> QED
      BY <2>1, AppliedIs, Zenon
  <1> HIDE DEF c
  <1>6. files = h.rollouts
    <2>1. files = [f \in 1 .. Len(h.rollouts) |-> h.rollouts[f]]
      BY <1>2, <1>4, Zenon
    <2> HIDE DEF files
    <2> QED
      BY <1>1, <2>1
  <1>7. rows = h.rows
    <2>1. \A d \in CatalogDBs : h.rows[d] \in [ThreadIds -> RowType]
      BY <1>1
    <2>2. \A d \in CatalogDBs : ApplyRows(h.rows[d], p, c) = h.rows[d]
      <3> SUFFICES ASSUME NEW d \in CatalogDBs PROVE ApplyRows(h.rows[d], p, c) = h.rows[d]
        OBVIOUS
      <3>1. h.rows[d] \in [ThreadIds -> RowType] /\ RowUpdates(h.rows[d], p, c) = {}
        BY <1>4, <2>1, Zenon
      <3> QED
        BY <1>2, <1>3, <3>1, RowsApplied
    <2> QED
      BY <1>1, <2>2
  <1>8. roots = h.roots /\ hints = h.hints
    BY <1>1, <1>4
  <1> HIDE DEF files, rows, roots, hints
  <1> QED
    BY <1>5, <1>6, <1>7, <1>8 DEF HomeType

\* After a sync of which the files can be rewritten there is nothing to do, if
\* every thread has one file; after two there is nothing in any case.
LEMMA SyncsSettle ==
  ASSUME NEW h \in HomeType, NEW p \in TargetProviders, Able(h)
  PROVE  LET once == Applied(h, p) IN
         /\ OneFilePerThread(h) => UpToDate(once, p)
         /\ UpToDate(Applied(once, p), p)
         /\ \A d \in CatalogDBs, t \in ThreadIds : h.rows[d][t].cwd # NoPath => once.rows[d][t].cwd # NoPath
  <1> DEFINE once == Applied(h, p)
             twice == Applied(once, p)
             c == Changes(h, p)
             e == Changes(once, p)
             b == Changes(twice, p)
  <1>1. \A f \in 1 .. Len(h.rollouts) : Changes(h, p)[f].rewrite => Rewritable(h.rollouts[f])
    BY Zenon DEF Able
  <1>2. /\ once \in HomeType /\ Alike(c, e) /\ \A i \in 1 .. Len(e) : ~e[i].rewrite
        /\ Able(once)
        /\ \A d \in CatalogDBs : once.rows[d] = ApplyRows(h.rows[d], p, c)
        /\ \A key \in RootKeys : once.roots[key] = NormalRoots(h.roots[key], c)
        /\ \A t \in ThreadIds : once.hints[t] = Hint(h, c, t)
    BY <1>1, AppliedFacts
  <1> HIDE DEF once
  <1>3. \A f \in 1 .. Len(once.rollouts) : Changes(once, p)[f].rewrite => Rewritable(once.rollouts[f])
    BY <1>2, Zenon DEF Able
  <1>4. /\ twice \in HomeType /\ Alike(e, b) /\ \A i \in 1 .. Len(b) : ~b[i].rewrite
        /\ \A d \in CatalogDBs : twice.rows[d] = ApplyRows(once.rows[d], p, e)
        /\ \A key \in RootKeys : twice.roots[key] = NormalRoots(once.roots[key], e)
        /\ \A t \in ThreadIds : twice.hints[t] = Hint(once, e, t)
    BY <1>2, <1>3, AppliedFacts
  <1> HIDE DEF twice
  <1>5. c \in Seq(ChangeType) /\ e \in Seq(ChangeType) /\ b \in Seq(ChangeType)
    BY <1>2, <1>4, ChangesTyped
  <1>6. /\ \A d \in CatalogDBs : h.rows[d] \in [ThreadIds -> RowType] /\ once.rows[d] \in [ThreadIds -> RowType]
        /\ \A key \in RootKeys : h.roots[key] \in Seq(Paths) \cup {Null, Absent}
        /\ \A key \in RootKeys : once.roots[key] \in Seq(Paths) \cup {Null, Absent}
        /\ \A t \in ThreadIds : h.hints[t] \in PathsOrNone /\ once.hints[t] \in PathsOrNone
    BY <1>2 DEF HomeType
  <1> HIDE DEF c, e, b
  <1>7. WorkspaceRoots(c) = WorkspaceRoots(e) /\ WorkspaceRoots(e) = WorkspaceRoots(b)
    BY <1>2, <1>4, <1>5, AlikeRoots
  <1>8. \A v : NormalRoots(v, c) = NormalRoots(v, e) /\ NormalRoots(v, e) = NormalRoots(v, b)
    BY <1>7, Zenon DEF NormalRoots
  <1>9. \A rows : ApplyRows(rows, p, c) = ApplyRows(rows, p, e) /\ ApplyRows(rows, p, e) = ApplyRows(rows, p, b)
    BY <1>2, <1>4, <1>5, AlikeRows
  <1>10. \A key \in RootKeys : NormalRoots(once.roots[key], e) = once.roots[key]
    BY <1>2, <1>5, <1>6, <1>8, RootsStay
  <1>11. \A key \in RootKeys : NormalRoots(twice.roots[key], b) = twice.roots[key]
    BY <1>4, <1>8, <1>10, Zenon
  <1>12. \A t \in ThreadIds : Hint(once, e, t) = once.hints[t]
    BY <1>2, <1>5, <1>6, HintFacts
  <1>13. \A t \in ThreadIds : Hint(twice, b, t) = twice.hints[t]
    BY <1>4, <1>5, <1>6, HintFacts
  <1>14. ASSUME OneFilePerThread(h) PROVE UpToDate(once, p)
    <2>1. OneFile(e)
      <3>1. OneFile(c)
        BY <1>14, OneFileIs DEF c
      <3> QED
        BY <1>2, <3>1, OneFileStays
    <2>2. \A d \in CatalogDBs : RowUpdates(once.rows[d], p, e) = {}
      <3> SUFFICES ASSUME NEW d \in CatalogDBs PROVE RowUpdates(once.rows[d], p, e) = {}
        OBVIOUS
      <3>1. once.rows[d] = ApplyRows(h.rows[d], p, e)
        BY <1>2, <1>9, Zenon
      <3>2. h.rows[d] \in [ThreadIds -> RowType]
        BY <1>6
      <3>3. RowUpdates(ApplyRows(h.rows[d], p, e), p, e) = {}
        BY <1>5, <2>1, <3>2, RowsApplied
      <3> QED
        BY <3>1, <3>3, Zenon
    <2> QED
      BY <1>2, <1>10, <1>12, <2>2, UpToDateIs, Zenon DEF e
  <1>15. UpToDate(twice, p)
    <2>1. \A d \in CatalogDBs : RowUpdates(twice.rows[d], p, b) = {}
      <3> SUFFICES ASSUME NEW d \in CatalogDBs PROVE RowUpdates(twice.rows[d], p, b) = {}
        OBVIOUS
      <3>1. once.rows[d] = ApplyRows(h.rows[d], p, b) /\ twice.rows[d] = ApplyRows(once.rows[d], p, b)
        BY <1>2, <1>4, <1>9, Zenon
      <3>2. h.rows[d] \in [ThreadIds -> RowType]
        BY <1>6
      <3>3. RowUpdates(ApplyRows(ApplyRows(h.rows[d], p, b), p, b), p, b) = {}
        BY <1>5, <3>2, RowsApplied
      <3> QED
        BY <3>1, <3>3, Zenon
    <2> QED
      BY <1>4, <1>11, <1>13, <2>1, UpToDateIs, Zenon DEF b
  <1>16. ASSUME NEW d \in CatalogDBs, NEW t \in ThreadIds, h.rows[d][t].cwd # NoPath
         PROVE  once.rows[d][t].cwd # NoPath
    <2>1. h.rows[d] \in [ThreadIds -> RowType]
      BY <1>6
    <2>2. ApplyRows(h.rows[d], p, c)[t].cwd # NoPath
      BY <1>5, <1>16, <2>1, RowsApplied
    <2> QED
      BY <1>2, <2>2, Zenon
  <1> QED
    BY <1>14, <1>15, <1>16, Zenon DEF once, twice

CatalogTypeOK == home \in HomeType

LEMMA HomeStart == CatalogInit => CatalogTypeOK
  <1> SUFFICES ASSUME CatalogInit PROVE home \in HomeType
    BY DEF CatalogTypeOK
  <1>1. PICK r \in RolloutChoices, saved \in RootChoices, silent \in SUBSET ThreadIds :
          home = [rollouts |-> <<r>>, rows |-> [d \in CatalogDBs |-> [t \in ThreadIds |-> NoThreadRow]],
                  roots |-> [key \in RootKeys |-> IF key = "project-order" THEN saved ELSE Absent],
                  hints |-> [t \in ThreadIds |-> NoPath], projectless |-> silent]
    BY DEF CatalogInit
  <1>2. <<r>> \in Seq(RolloutType) /\ saved \in Seq(Paths)
    <2>1. r \in RolloutType /\ saved \in Seq(Paths)
      BY CatalogAssumption
    <2> QED
      BY <2>1
  <1>3. NoThreadRow \in RowType /\ NoPath \in PathsOrNone
    <2>1. "none" \in ColumnTexts
      BY CatalogAssumption
    <2> QED
      BY <2>1 DEF NoThreadRow, RowType, PathsOrNone
  <1>4. [d \in CatalogDBs |-> [t \in ThreadIds |-> NoThreadRow]] \in [CatalogDBs -> [ThreadIds -> RowType]]
    BY <1>3
  <1>5. [key \in RootKeys |-> IF key = "project-order" THEN saved ELSE Absent] \in [RootKeys -> Seq(Paths) \cup {Null, Absent}]
    BY <1>2, Zenon
  <1>6. [t \in ThreadIds |-> NoPath] \in [ThreadIds -> PathsOrNone]
    BY <1>3
  <1> QED
    BY <1>1, <1>2, <1>4, <1>5, <1>6 DEF HomeType

LEMMA HomeStep == CatalogTypeOK /\ [CatalogNext]_catalogVars => CatalogTypeOK'
  <1> SUFFICES ASSUME home \in HomeType, [CatalogNext]_catalogVars PROVE home' \in HomeType
    BY DEF CatalogTypeOK
  <1>1. ASSUME NEW p \in TargetProviders, SyncHome(p) PROVE home' \in HomeType
    <2>1. CASE home' = home
      BY <2>1
    <2>2. CASE home' = Applied(home, p) /\ home' # home
      <3> DEFINE c == Changes(home, p)
      <3>1. Len(c) = Len(home.rollouts)
        BY ChangesTyped
      <3>2. \A f \in 1 .. Len(home.rollouts) : c[f].rewrite => Rewritable(home.rollouts[f])
        <4> SUFFICES ASSUME NEW f \in 1 .. Len(home.rollouts), c[f].rewrite, ~Rewritable(home.rollouts[f])
                     PROVE  FALSE
          OBVIOUS
        <4>1. f \in {i \in 1 .. Len(c) : c[i].rewrite}
          BY <3>1, Zenon
        <4>2. Applied(home, p) = home
          BY <4>1, Zenon DEF Applied
        <4> QED
          BY <2>2, <4>2
      <3> HIDE DEF c
      <3>3. Applied(home, p) \in HomeType
        BY <3>2, AppliedFacts DEF c
      <3> QED
        BY <2>2, <3>3
    <2> QED
      BY <1>1, <2>1, <2>2, Zenon DEF SyncHome
  <1>2. ASSUME NEW r \in RolloutChoices, AppStarts(r) PROVE home' \in HomeType
    <2>1. r \in RolloutType
      BY CatalogAssumption
    <2>2. home' = [home EXCEPT !.rollouts = Append(@, r)]
      BY <1>2, Zenon DEF AppStarts, AppMoves
    <2>3. home.rollouts \in Seq(RolloutType)
      BY DEF HomeType
    <2>4. Append(home.rollouts, r) \in Seq(RolloutType)
      BY <2>1, <2>3
    <2> QED
      BY <2>2, <2>4 DEF HomeType
  <1>3. ASSUME NEW f \in 1 .. Len(home.rollouts), NEW l \in LineChoices, AppWrites(f, l) PROVE home' \in HomeType
    <2>1. l \in LineType
      BY CatalogAssumption
    <2>2. home' = [home EXCEPT !.rollouts[f].lines = Append(@, l)]
      BY <1>3, Zenon DEF AppWrites, AppMoves
    <2>3. home.rollouts \in Seq(RolloutType) /\ home.rollouts[f] \in RolloutType
      BY DEF HomeType
    <2> DEFINE r == [home.rollouts[f] EXCEPT !.lines = Append(@, l)]
               s == [home.rollouts EXCEPT ![f] = r]
    <2>4. r \in RolloutType
      <3>1. home.rollouts[f].lines \in Seq(LineType)
        BY <2>3 DEF RolloutType
      <3>2. Append(home.rollouts[f].lines, l) \in Seq(LineType)
        BY <2>1, <3>1
      <3> QED
        BY <2>3, <3>2 DEF RolloutType
    <2>5. home' = [home EXCEPT !.rollouts = s]
      BY <2>2
    <2> HIDE DEF r
    <2>6. s \in Seq(RolloutType)
      BY <2>3, <2>4
    <2> HIDE DEF s
    <2> QED
      BY <2>5, <2>6 DEF HomeType
  <1>4. ASSUME NEW d \in CatalogDBs, NEW t \in ThreadIds, NEW row \in RowChoices, AppRow(d, t, row)
        PROVE  home' \in HomeType
    <2>1. row \in RowType
      BY CatalogAssumption
    <2>2. home' = [home EXCEPT !.rows[d][t] = row]
      BY <1>4, Zenon DEF AppRow, AppMoves
    <2>3. home.rows \in [CatalogDBs -> [ThreadIds -> RowType]]
      BY DEF HomeType
    <2> DEFINE rows == [home.rows EXCEPT ![d][t] = row]
    <2>4. rows \in [CatalogDBs -> [ThreadIds -> RowType]]
      BY <2>1, <2>3
    <2>5. home' = [home EXCEPT !.rows = rows]
      BY <2>2
    <2> HIDE DEF rows
    <2> QED
      BY <2>4, <2>5 DEF HomeType
  <1>5. ASSUME NEW key \in RootKeys, NEW saved \in RootChoices, AppRoots(key, saved) PROVE home' \in HomeType
    <2>1. saved \in Seq(Paths)
      BY CatalogAssumption
    <2>2. home' = [home EXCEPT !.roots[key] = saved]
      BY <1>5, Zenon DEF AppRoots, AppMoves
    <2>3. home.roots \in [RootKeys -> Seq(Paths) \cup {Null, Absent}]
      BY DEF HomeType
    <2> DEFINE roots == [home.roots EXCEPT ![key] = saved]
    <2>4. roots \in [RootKeys -> Seq(Paths) \cup {Null, Absent}]
      BY <2>1, <2>3
    <2>5. home' = [home EXCEPT !.roots = roots]
      BY <2>2
    <2> HIDE DEF roots
    <2> QED
      BY <2>4, <2>5 DEF HomeType
  <1>6. CASE UNCHANGED catalogVars
    BY <1>6 DEF catalogVars
  <1> QED
    BY <1>1, <1>2, <1>3, <1>4, <1>5, <1>6, Zenon DEF CatalogNext

\* The survey of a provider sync agrees with its writes.
THEOREM SurveysAreTrue == CatalogSpec => []SurveyIsExact
  <1>1. CatalogTypeOK => SurveyIsExact
    <2> SUFFICES ASSUME home \in HomeType, NEW p \in TargetProviders,
                        \A f \in 1 .. Len(home.rollouts) : Rewritable(home.rollouts[f])
                 PROVE  LET once == Applied(home, p) IN
                        /\ OneFilePerThread(home) => (UpToDate(home, p) <=> once = home) /\ UpToDate(once, p)
                        /\ UpToDate(Applied(once, p), p)
                        /\ \A d \in CatalogDBs, t \in ThreadIds :
                              home.rows[d][t].cwd # NoPath => once.rows[d][t].cwd # NoPath
      BY Zenon DEF SurveyIsExact, CatalogTypeOK
    <2>1. Able(home)
      BY Zenon DEF Able
    <2>2. OneFilePerThread(home) => UpToDate(Applied(home, p), p)
      BY <2>1, SyncsSettle
    <2>3. UpToDate(Applied(Applied(home, p), p), p)
      BY <2>1, SyncsSettle
    <2>4. \A d \in CatalogDBs, t \in ThreadIds :
             home.rows[d][t].cwd # NoPath => Applied(home, p).rows[d][t].cwd # NoPath
      BY <2>1, SyncsSettle
    <2>5. OneFilePerThread(home) /\ UpToDate(home, p) => Applied(home, p) = home
      BY NothingChanges
    <2>6. OneFilePerThread(home) /\ Applied(home, p) = home => UpToDate(home, p)
      BY <2>2, Zenon
    <2> QED
      BY <2>2, <2>3, <2>4, <2>5, <2>6, Zenon
  <1> QED
    BY HomeStart, HomeStep, <1>1, PTL DEF CatalogSpec
==============================================================================

-------------------------- MODULE SessionDataProofs --------------------------
(***************************************************************************)
(* SessionData proved for any set of databases, files and requests and any *)
(* bounds: no line is lost, who holds the key of the session, what a lone  *)
(* request answers and what a lone undo gives back.                        *)
(***************************************************************************)
EXTENDS SessionData, TLAPS

\* A request that is under way knows what it works on.
Known ==
    /\ \A u \in Undos :
          /\ pc[u] \in {"new", "refused"} \cup Undoing \cup {"failed", "ok", "crashed"}
          /\ pc[u] \in Undoing => arg[u] \in manifests
          /\ pc[u] = "fill" => open[u] \in Files
    /\ \A m \in Moves :
          /\ pc[m] \in {"new"} \cup Looking \cup Moving \cup {"failed", "moved", "crashed"}
          /\ arg[m] \in Cwds \cup {Projectless, None}
          /\ pc[m] \in Looking \cup Moving => arg[m] # None
          /\ pc[m] \in Moving /\ arg[m] = Projectless => todo[m] = {}
          /\ pc[m] = "rename" => open[m] \in Files /\ open[m] \in todo[m]

\* A deletion has its manifest when it has copied every file it will remove.
Prepared ==
    \A d \in Deletes :
        /\ pc[d] \in {"new", "rows", "walk", "copy", "inProgress"} => d \notin manifests
        /\ pc[d] \in {"delete", "putBack", "local_deleted"} => d \in manifests
        /\ pc[d] \in {"new", "rows", "walk"} => \A f \in Files : copies[d][f] = Gone
        /\ pc[d] = "delete" => \A f \in todo[d] \cap Files : copies[d][f] # Gone

\* What a deletion has copied holds the lines that no finished backup has,
Copied ==
    \A d \in Deletes : pc[d] \in {"copy", "delete"} =>
        \A f \in Files : copies[d][f] # Gone =>
            \A l \in written[f] \ unseen[f] :
                l \in LinesOf(copies[d][f]) \/ BackedUp(f, l)

\* and so does what a move is about to put in the place of a file.
Carried ==
    \A m \in Moves : pc[m] = "rename" =>
        \A l \in written[open[m]] \ unseen[open[m]] :
            l \in rest[m] \/ BackedUp(open[m], l)

\* A request that has run alone so far is the only one under way.
Alone == \A r \in Active \ overlapped : Active = {r}

\* A body that lookupSession passes over.
Absent(body) == body \in {Gone, Torn}

\* The row p of a deletion's tables is deleted when it is treated.
RowsSoFar(d) ==
    /\ todo[d] \cap Places \subseteq Tables(d)
    /\ \A p \in Places :
          rows[p] = IF p \in Tables(d) \ todo[d] THEN Gone ELSE before[d].rows[p]

FilesSoFar(d) ==
    \A f \in Files :
        files[f] = IF ~Absent(before[d].files[f]) /\ f \notin todo[d]
                   THEN Gone ELSE before[d].files[f]

CopiesSoFar(d) ==
    \A f \in Files :
        copies[d][f] = IF Absent(before[d].files[f]) \/ f \in todo[d]
                       THEN Gone ELSE before[d].files[f]

CopiedAll(d) ==
    \A f \in Files :
        copies[d][f] = IF Absent(before[d].files[f]) THEN Gone ELSE before[d].files[f]

FoundAll(d) == \A p \in Places : foundRows[d][p] = FoundIn(before[d].rows, p)

\* A deletion that has run alone so far is the only one to have changed anything
\* since it began.
DeletesAlone(d) ==
    /\ pc[d] \in {"rows", "walk", "copy"} => rows = before[d].rows /\ files = before[d].files
    /\ pc[d] \in {"walk", "copy", "delete", "putBack", "local_deleted"} => FoundAll(d)
    /\ pc[d] = "copy" =>
          /\ CopiesSoFar(d) /\ todo[d] \subseteq {f \in Files : ~Absent(files[f])}
    /\ pc[d] \in {"delete", "putBack", "local_deleted"} => CopiedAll(d)
    /\ pc[d] = "delete" => RowsSoFar(d) /\ FilesSoFar(d)
    /\ pc[d] = "putBack" =>
          /\ faults > 0 /\ todo[d] \subseteq {p \in Places : foundRows[d][p] # Gone}
          /\ \A p \in Places \ todo[d] : rows[p] = before[d].rows[p]

\* A move that has run alone has moved what it no longer has to treat.
MovesAlone(m) ==
    arg[m] \in Cwds =>
        /\ pc[m] = "walk" => \A p \in Places : foundRows[m][p] = FoundIn(rows, p)
        /\ pc[m] \in Moving =>
              /\ \A p \in Threads \ todo[m] : rows[p] \in {Gone, arg[m]}
              /\ \A f \in Files \ todo[m] : Readable(f) => files[f].cwd = arg[m]

\* What an undo works on is in the backup,
UndoAims(u) ==
    pc[u] \in Undoing =>
        /\ arg[u] \in Deletes /\ pc[arg[u]] = "local_deleted"
        /\ \A f \in todo[u] \cap Files : copies[arg[u]][f] # Gone
        /\ \A p \in todo[u] \cap Places : foundRows[arg[u]][p] # Gone
        /\ pc[u] = "fill" => open[u] \in todo[u] \cap Files

\* and where it ran alone, what it no longer has to treat is as there.
UndoesAlone(u) ==
    pc[u] \in Undoing =>
        /\ \A f \in Files \ todo[u] :
              copies[arg[u]][f] # Gone => files[f] = copies[arg[u]][f]
        /\ \A p \in Places \ todo[u] :
              foundRows[arg[u]][p] # Gone => rows[p] = foundRows[arg[u]][p]
        /\ pc[u] = "fill" => files[open[u]] = Torn

\* Undos of a deletion touch only what it had found.
RestUntouched(d) ==
    pc[d] = "local_deleted" /\ Undisturbed(d) =>
        /\ \A p \in Places :
              FoundIn(before[d].rows, p) = Gone => rows[p] = before[d].rows[p]
        /\ \A f \in Files : Absent(before[d].files[f]) => files[f] = before[d].files[f]

AloneIInv ==
    /\ Alone
    /\ \A d \in Deletes \ overlapped : DeletesAlone(d) /\ RestUntouched(d)
    /\ \A m \in Moves \ overlapped : MovesAlone(m)
    /\ \A u \in Undos : UndoAims(u)
    /\ \A u \in Undos \ overlapped : UndoesAlone(u)

IInv == TypeOK /\ Known /\ Prepared /\ Copied /\ Carried /\ Recoverable /\ OneDeletionHoldsTheKey

-----------------------------------------------------------------------------
\* What the proofs below use of the sets.
LEMMA SetFacts ==
    /\ {"rows", "walk", "copy", "delete", "putBack", "restore", "fill", "move", "rename",
        "inProgress", "failed", "failedWithToken", "local_deleted", "refused", "ok",
        "moved", "crashed"} \subseteq Locations
    /\ Deletes \subseteq Requests /\ Undos \subseteq Requests /\ Moves \subseteq Requests
    /\ Active \subseteq Requests /\ NoRows \in Rows
  BY DEF Active, NoRows, Rows, Locations, Busy, Answers, Looking, Removing, Undoing, Moving, Requests

\* Everything holds at the start.
LEMMA InitIInv == Init => IInv
  <1> SUFFICES ASSUME Init PROVE IInv
    OBVIOUS
  <1> USE ConstantsAssumption DEF Init
  <1>1. TypeOK
    BY SetFacts DEF TypeOK, Rows, Bodies, Contents, NoRows, Locations
  <1>2. Known /\ Prepared /\ Copied /\ Carried
    BY DEF Known, Prepared, Copied, Carried, Requests, Looking, Undoing, Moving
  <1>3. Recoverable
    BY DEF Recoverable
  <1>4. OneDeletionHoldsTheKey
    <2>1. Deleting = {}
      BY DEF Deleting, Busy, Looking, Removing, Undoing, Moving, Requests
    <2> QED
      BY <2>1 DEF OneDeletionHoldsTheKey
  <1> QED
    BY <1>1, <1>2, <1>3, <1>4 DEF IInv

\* Whatever a step does, the variables stay in their sets.
LEMMA NextTypeOK == IInv /\ [Next]_vars => TypeOK'
  <1> SUFFICES ASSUME IInv, [Next]_vars PROVE TypeOK'
    OBVIOUS
  <1> USE SetFacts DEF IInv, vars, store, copying, backup, history, Goto, Loop, Treated, Answer, EndDelete, Fault, Alongside, TypeOK
  <1>1. CASE \E d \in Deletes, p \in Procs : BeginDelete(d, p)
    BY <1>1 DEF BeginDelete
  <1>2. CASE \E d \in Deletes, p \in Procs : DeleteInProgress(d, p)
    BY <1>2 DEF DeleteInProgress
  <1>3. CASE \E u \in Undos, d \in Deletes : BeginUndo(u, d)
    <2>1. PICK u \in Undos, d \in Deletes : BeginUndo(u, d)
      BY <1>3
    <2>2. CASE Authorised(d)
      BY <2>1, <2>2, SMTT(30) DEF BeginUndo
    <2>3. CASE ~Authorised(d)
      BY <2>1, <2>3, SMTT(30) DEF BeginUndo
    <2> QED
      BY <2>2, <2>3
  <1>4. CASE \E m \in Moves, t \in Cwds \cup {Projectless} : BeginMove(m, t)
    BY <1>4 DEF BeginMove
  <1>5. CASE \E r \in Deletes \cup Moves : LookUpRows(r)
    BY <1>5 DEF LookUpRows, FoundIn, Rows
  <1>6. CASE \E r \in Deletes \cup Moves : LookUpFiles(r)
    <2>1. PICK r \in Deletes \cup Moves : LookUpFiles(r)
      BY <1>6
    <2>2. CASE r \in Deletes
      <3>1. foundRows' = foundRows /\ Loop(r, "copy", {f \in Files : Heads[f] # Gone})
        BY <2>1, <2>2 DEF LookUpFiles
      <3> QED
        BY <2>1, <2>2, <3>1 DEF LookUpFiles
    <2>3. CASE r \notin Deletes
      <3>1. /\ \E things \in SUBSET (Places \cup Files) : Loop(r, "move", things)
            /\ foundRows' = [foundRows EXCEPT ![r] = NoRows]
        BY <2>1, <2>3 DEF LookUpFiles, MovedTables, Threads
      <3> QED
        BY <2>1, <2>3, <3>1 DEF LookUpFiles
    <2> QED
      BY <2>2, <2>3
  <1>7. CASE \E r \in Deletes \cup Moves : NothingFound(r)
    BY <1>7 DEF NothingFound
  <1>8. CASE \E d \in Deletes, f \in Files : BackUpFile(d, f)
    BY <1>8 DEF BackUpFile, Bodies
  <1>9. CASE \E d \in Deletes : VanishedFile(d)
    BY <1>9 DEF VanishedFile
  <1>10. CASE \E d \in Deletes : WriteManifest(d)
    BY <1>10 DEF WriteManifest, Tables, Threads
  <1>11. CASE \E d \in Deletes, p \in Places : DeleteRow(d, p)
    BY <1>11 DEF DeleteRow, Rows
  <1>12. CASE \E d \in Deletes, f \in Files : RemoveFile(d, f)
    BY <1>12 DEF RemoveFile, Bodies
  <1>13. CASE \E d \in Deletes : Deleted(d)
    BY <1>13 DEF Deleted
  <1>14. CASE \E d \in Deletes, p \in Places : PutBackRow(d, p)
    BY <1>14 DEF PutBackRow, Rows
  <1>15. CASE \E d \in Deletes : PutBackDone(d)
    BY <1>15 DEF PutBackDone
  <1>16. CASE \E u \in Undos, f \in Files : TruncateFile(u, f)
    BY <1>16 DEF TruncateFile, Bodies, LinesOf, Contents
  <1>17. CASE \E u \in Undos : FillFile(u)
    BY <1>17 DEF FillFile, Bodies, Known, Undoing
  <1>18. CASE \E u \in Undos, p \in Places : RestoreRow(u, p)
    BY <1>18 DEF RestoreRow, Rows, Known, Undoing
  <1>19. CASE \E u \in Undos : Undone(u)
    BY <1>19 DEF Undone
  <1>20. CASE \E m \in Moves, f \in Files : CopyRest(m, f)
    BY <1>20 DEF CopyRest, LinesOf, Bodies, Contents
  <1>21. CASE \E m \in Moves : MovedFileGone(m)
    BY <1>21 DEF MovedFileGone
  <1>22. CASE \E m \in Moves : RenameFile(m)
    BY <1>22 DEF RenameFile, Bodies, Contents, Known, Moving
  <1>23. CASE \E m \in Moves, p \in Places : UpdateRow(m, p)
    BY <1>23 DEF UpdateRow, Rows, Known, Moving
  <1>24. CASE \E m \in Moves : WriteHint(m)
    BY <1>24 DEF WriteHint, Known, Moving
  <1>25. CASE \E r \in Requests : StepFails(r)
    <2>1. PICK r \in Requests : StepFails(r)
      BY <1>25
    <2>2. faults' \in 0 .. MaxFaults
      BY <2>1, ConstantsAssumption DEF StepFails
    <2>3. CASE pc[r] = "delete" /\ todo[r] \subseteq Files
      <3>1. pc' \in [Requests -> Locations] /\ todo' \in [Requests -> SUBSET (Places \cup Files)]
        <4>1. PICK things \in SUBSET Places : Loop(r, "putBack", things)
          BY <2>1, <2>3 DEF StepFails, PutBack
        <4> QED
          BY <2>1, <4>1
      <3> QED
        BY <2>1, <2>2, <2>3, <3>1 DEF StepFails
    <2>4. CASE ~(pc[r] = "delete" /\ todo[r] \subseteq Files)
      <3>1. /\ pc' \in [Requests -> Locations] /\ todo' \in [Requests -> SUBSET (Places \cup Files)]
            /\ foundRows' \in [Requests -> Rows] /\ open' \in [Requests -> Files \cup {None}]
            /\ inFlight' \subseteq Procs
        <4>1. PICK a \in Locations : Answer(r, a)
          BY <2>1, <2>4 DEF StepFails
        <4> QED
          BY <2>1, <4>1
      <3> QED
        BY <2>1, <2>2, <2>4, <3>1 DEF StepFails
    <2> QED
      BY <2>3, <2>4
  <1>26. CASE \E p \in Procs : Crash(p)
    <2>1. PICK p \in Procs : Crash(p)
      BY <1>26
    <2>2. faults' \in 0 .. MaxFaults
      BY <2>1, ConstantsAssumption DEF Crash
    <2>3. /\ pc' \in [Requests -> Locations] /\ todo' \in [Requests -> SUBSET (Places \cup Files)]
          /\ foundRows' \in [Requests -> Rows] /\ open' \in [Requests -> Files \cup {None}]
          /\ inFlight' \subseteq Procs
      BY <2>1 DEF Crash
    <2> QED
      BY <2>1, <2>2, <2>3 DEF Crash
  <1>27. CASE \E f \in Files, l \in Lines : AppAppends(f, l)
    <2>1. PICK f \in Files, l \in Lines : AppAppends(f, l)
      BY <1>27
    <2>2. files' \in Bodies
      <3>1. files[f] \in Contents
        BY <2>1 DEF AppAppends, Readable, Bodies
      <3>2. [files[f] EXCEPT !.lines = @ \cup {l}] \in Contents
        BY <3>1 DEF Contents
      <3> QED
        BY <2>1, <3>2 DEF AppAppends, Bodies
    <2>3. unseen' \in [Files -> SUBSET Lines]
      BY <2>1 DEF AppAppends
    <2> QED
      BY <2>1, <2>2, <2>3 DEF AppAppends
  <1>28. CASE UNCHANGED vars
    BY <1>28
  <1> QED
    BY <1>1, <1>2, <1>3, <1>4, <1>5, <1>6, <1>7, <1>8, <1>9, <1>10, <1>11, <1>12, <1>13, <1>14, <1>15, <1>16, <1>17, <1>18, <1>19, <1>20, <1>21, <1>22, <1>23, <1>24, <1>25, <1>26, <1>27, <1>28 DEF Next, Begin, Step, DeleteStep, UndoStep, MoveStep

\* Requests keep knowing what they work on.
LEMMA NextKnown == IInv /\ [Next]_vars => Known'
  <1> SUFFICES ASSUME IInv, [Next]_vars PROVE Known'
    OBVIOUS
  <1> USE ConstantsAssumption DEF IInv, vars, store, copying, backup, history, Goto, Loop, Treated, Answer, EndDelete, Fault, Alongside, Requests, Looking, Removing, Undoing, Moving, Busy, Answers, TypeOK, Known, Prepared
  <1>1. CASE \E d \in Deletes, p \in Procs : BeginDelete(d, p)
    BY <1>1 DEF BeginDelete
  <1>2. CASE \E d \in Deletes, p \in Procs : DeleteInProgress(d, p)
    BY <1>2 DEF DeleteInProgress
  <1>3. CASE \E u \in Undos, d \in Deletes : BeginUndo(u, d)
    <2>1. PICK u \in Undos, d \in Deletes : BeginUndo(u, d)
      BY <1>3
    <2>2. d \in manifests
      BY <2>1 DEF BeginUndo, Offered
    <2>3. pc' \in {[pc EXCEPT ![u] = "restore"], [pc EXCEPT ![u] = "refused"]}
      BY <2>1 DEF BeginUndo
    <2> QED
      BY <2>1, <2>2, <2>3 DEF BeginUndo
  <1>4. CASE \E m \in Moves, t \in Cwds \cup {Projectless} : BeginMove(m, t)
    BY <1>4 DEF BeginMove
  <1>5. CASE \E r \in Deletes \cup Moves : LookUpRows(r)
    BY <1>5 DEF LookUpRows
  <1>6. CASE \E r \in Deletes \cup Moves : LookUpFiles(r)
    <2>1. PICK r \in Deletes \cup Moves : LookUpFiles(r)
      BY <1>6
    <2>2. CASE r \in Deletes
      <3>1. PICK things \in SUBSET Files : pc' = [pc EXCEPT ![r] = "copy"] /\ todo' = [todo EXCEPT ![r] = things]
        BY <2>1, <2>2 DEF LookUpFiles
      <3> QED
        BY <2>1, <2>2, <3>1 DEF LookUpFiles
    <2>3. CASE r \in Moves
      <3>1. PICK things : /\ pc' = [pc EXCEPT ![r] = "move"] /\ todo' = [todo EXCEPT ![r] = things]
                          /\ arg[r] = Projectless => things = {}
        BY <2>1, <2>3 DEF LookUpFiles
      <3> QED
        BY <2>1, <2>3, <3>1 DEF LookUpFiles
    <2> QED
      BY <2>1, <2>2, <2>3
  <1>7. CASE \E r \in Deletes \cup Moves : NothingFound(r)
    BY <1>7 DEF NothingFound
  <1>8. CASE \E d \in Deletes, f \in Files : BackUpFile(d, f)
    BY <1>8 DEF BackUpFile
  <1>9. CASE \E d \in Deletes : VanishedFile(d)
    BY <1>9 DEF VanishedFile
  <1>10. CASE \E d \in Deletes : WriteManifest(d)
    BY <1>10 DEF WriteManifest
  <1>11. CASE \E d \in Deletes, p \in Places : DeleteRow(d, p)
    BY <1>11 DEF DeleteRow
  <1>12. CASE \E d \in Deletes, f \in Files : RemoveFile(d, f)
    BY <1>12 DEF RemoveFile
  <1>13. CASE \E d \in Deletes : Deleted(d)
    BY <1>13 DEF Deleted
  <1>14. CASE \E d \in Deletes, p \in Places : PutBackRow(d, p)
    BY <1>14 DEF PutBackRow
  <1>15. CASE \E d \in Deletes : PutBackDone(d)
    BY <1>15 DEF PutBackDone
  <1>16. CASE \E u \in Undos, f \in Files : TruncateFile(u, f)
    BY <1>16 DEF TruncateFile
  <1>17. CASE \E u \in Undos : FillFile(u)
    BY <1>17 DEF FillFile
  <1>18. CASE \E u \in Undos, p \in Places : RestoreRow(u, p)
    BY <1>18 DEF RestoreRow
  <1>19. CASE \E u \in Undos : Undone(u)
    BY <1>19 DEF Undone
  <1>20. CASE \E m \in Moves, f \in Files : CopyRest(m, f)
    BY <1>20 DEF CopyRest
  <1>21. CASE \E m \in Moves : MovedFileGone(m)
    BY <1>21 DEF MovedFileGone
  <1>22. CASE \E m \in Moves : RenameFile(m)
    BY <1>22 DEF RenameFile
  <1>23. CASE \E m \in Moves, p \in Places : UpdateRow(m, p)
    BY <1>23 DEF UpdateRow
  <1>24. CASE \E m \in Moves : WriteHint(m)
    BY <1>24 DEF WriteHint
  <1>25. CASE \E r \in Requests : StepFails(r)
    BY <1>25, SMTT(30) DEF StepFails
  <1>26. CASE \E p \in Procs : Crash(p)
    BY <1>26 DEF Crash
  <1>27. CASE \E f \in Files, l \in Lines : AppAppends(f, l)
    BY <1>27 DEF AppAppends
  <1>28. CASE UNCHANGED vars
    BY <1>28
  <1> QED
    BY <1>1, <1>2, <1>3, <1>4, <1>5, <1>6, <1>7, <1>8, <1>9, <1>10, <1>11, <1>12, <1>13, <1>14, <1>15, <1>16, <1>17, <1>18, <1>19, <1>20, <1>21, <1>22, <1>23, <1>24, <1>25, <1>26, <1>27, <1>28 DEF Next, Begin, Step, DeleteStep, UndoStep, MoveStep, Requests

\* Manifests follow their copies.
LEMMA NextPrepared == IInv /\ [Next]_vars => Prepared'
  <1> SUFFICES ASSUME IInv, [Next]_vars PROVE Prepared'
    OBVIOUS
  <1> USE ConstantsAssumption DEF IInv, vars, store, copying, backup, history, Goto, Loop, Treated, Answer, EndDelete, Fault, Alongside, Requests, Looking, Removing, Undoing, Moving, Busy, Answers, TypeOK, Prepared
  <1>1. CASE \E d \in Deletes, p \in Procs : BeginDelete(d, p)
    BY <1>1 DEF BeginDelete
  <1>2. CASE \E d \in Deletes, p \in Procs : DeleteInProgress(d, p)
    BY <1>2 DEF DeleteInProgress
  <1>3. CASE \E u \in Undos, d \in Deletes : BeginUndo(u, d)
    BY <1>3 DEF BeginUndo
  <1>4. CASE \E m \in Moves, t \in Cwds \cup {Projectless} : BeginMove(m, t)
    BY <1>4 DEF BeginMove
  <1>5. CASE \E r \in Deletes \cup Moves : LookUpRows(r)
    BY <1>5 DEF LookUpRows
  <1>6. CASE \E r \in Deletes \cup Moves : LookUpFiles(r)
    <2>1. PICK r \in Deletes \cup Moves : LookUpFiles(r)
      BY <1>6
    <2>2. CASE r \in Deletes
      <3>1. PICK things \in SUBSET Files : pc' = [pc EXCEPT ![r] = "copy"] /\ todo' = [todo EXCEPT ![r] = things]
        BY <2>1, <2>2 DEF LookUpFiles
      <3> QED
        BY <2>1, <2>2, <3>1 DEF LookUpFiles
    <2>3. CASE r \in Moves
      <3>1. PICK things : /\ pc' = [pc EXCEPT ![r] = "move"] /\ todo' = [todo EXCEPT ![r] = things]
                          /\ arg[r] = Projectless => things = {}
        BY <2>1, <2>3 DEF LookUpFiles
      <3> QED
        BY <2>1, <2>3, <3>1 DEF LookUpFiles
    <2> QED
      BY <2>1, <2>2, <2>3
  <1>7. CASE \E r \in Deletes \cup Moves : NothingFound(r)
    BY <1>7 DEF NothingFound
  <1>8. CASE \E d \in Deletes, f \in Files : BackUpFile(d, f)
    <2>1. PICK d \in Deletes, f \in Files : BackUpFile(d, f)
      BY <1>8
    <2>2. copies' \in [Deletes -> Bodies]
      BY <1>8, NextTypeOK
    <2>3. \A e \in Deletes : e # d => copies'[e] = copies[e]
      BY <2>1 DEF BackUpFile
    <2> QED
      BY <2>1, <2>3 DEF BackUpFile
  <1>9. CASE \E d \in Deletes : VanishedFile(d)
    BY <1>9 DEF VanishedFile
  <1>10. CASE \E d \in Deletes : WriteManifest(d)
    BY <1>10 DEF WriteManifest, Tables, Threads
  <1>11. CASE \E d \in Deletes, p \in Places : DeleteRow(d, p)
    BY <1>11 DEF DeleteRow
  <1>12. CASE \E d \in Deletes, f \in Files : RemoveFile(d, f)
    BY <1>12 DEF RemoveFile
  <1>13. CASE \E d \in Deletes : Deleted(d)
    BY <1>13 DEF Deleted
  <1>14. CASE \E d \in Deletes, p \in Places : PutBackRow(d, p)
    BY <1>14 DEF PutBackRow
  <1>15. CASE \E d \in Deletes : PutBackDone(d)
    BY <1>15 DEF PutBackDone
  <1>16. CASE \E u \in Undos, f \in Files : TruncateFile(u, f)
    BY <1>16 DEF TruncateFile
  <1>17. CASE \E u \in Undos : FillFile(u)
    BY <1>17 DEF FillFile
  <1>18. CASE \E u \in Undos, p \in Places : RestoreRow(u, p)
    BY <1>18 DEF RestoreRow
  <1>19. CASE \E u \in Undos : Undone(u)
    BY <1>19 DEF Undone
  <1>20. CASE \E m \in Moves, f \in Files : CopyRest(m, f)
    BY <1>20 DEF CopyRest
  <1>21. CASE \E m \in Moves : MovedFileGone(m)
    BY <1>21 DEF MovedFileGone
  <1>22. CASE \E m \in Moves : RenameFile(m)
    BY <1>22 DEF RenameFile
  <1>23. CASE \E m \in Moves, p \in Places : UpdateRow(m, p)
    BY <1>23 DEF UpdateRow
  <1>24. CASE \E m \in Moves : WriteHint(m)
    BY <1>24 DEF WriteHint
  <1>25. CASE \E r \in Requests : StepFails(r)
    BY <1>25 DEF StepFails
  <1>26. CASE \E p \in Procs : Crash(p)
    BY <1>26 DEF Crash
  <1>27. CASE \E f \in Files, l \in Lines : AppAppends(f, l)
    BY <1>27 DEF AppAppends
  <1>28. CASE UNCHANGED vars
    BY <1>28
  <1> QED
    BY <1>1, <1>2, <1>3, <1>4, <1>5, <1>6, <1>7, <1>8, <1>9, <1>10, <1>11, <1>12, <1>13, <1>14, <1>15, <1>16, <1>17, <1>18, <1>19, <1>20, <1>21, <1>22, <1>23, <1>24, <1>25, <1>26, <1>27, <1>28 DEF Next, Begin, Step, DeleteStep, UndoStep, MoveStep, Requests

\* A finished backup stays what it is.
LEMMA NextBackedUp ==
  IInv /\ [Next]_vars =>
    \A f \in Files, l \in Lines : BackedUp(f, l) => BackedUp(f, l)'
  <1> SUFFICES ASSUME IInv, [Next]_vars PROVE \A f \in Files, l \in Lines : BackedUp(f, l) => BackedUp(f, l)'
    OBVIOUS
  <1> USE ConstantsAssumption DEF IInv, vars, store, copying, backup, history, Goto, Loop, Treated, TypeOK, Prepared, BackedUp
  <1>1. CASE \E d \in Deletes, p \in Procs : BeginDelete(d, p)
    BY <1>1 DEF BeginDelete
  <1>2. CASE \E d \in Deletes, p \in Procs : DeleteInProgress(d, p)
    BY <1>2 DEF DeleteInProgress
  <1>3. CASE \E u \in Undos, d \in Deletes : BeginUndo(u, d)
    BY <1>3 DEF BeginUndo
  <1>4. CASE \E m \in Moves, t \in Cwds \cup {Projectless} : BeginMove(m, t)
    BY <1>4 DEF BeginMove
  <1>5. CASE \E r \in Deletes \cup Moves : LookUpRows(r)
    BY <1>5 DEF LookUpRows
  <1>6. CASE \E r \in Deletes \cup Moves : LookUpFiles(r)
    BY <1>6 DEF LookUpFiles
  <1>7. CASE \E r \in Deletes \cup Moves : NothingFound(r)
    BY <1>7 DEF NothingFound
  <1>8. CASE \E d \in Deletes, f \in Files : BackUpFile(d, f)
    BY <1>8 DEF BackUpFile
  <1>9. CASE \E d \in Deletes : VanishedFile(d)
    BY <1>9 DEF VanishedFile
  <1>10. CASE \E d \in Deletes : WriteManifest(d)
    BY <1>10 DEF WriteManifest
  <1>11. CASE \E d \in Deletes, p \in Places : DeleteRow(d, p)
    BY <1>11 DEF DeleteRow
  <1>12. CASE \E d \in Deletes, f \in Files : RemoveFile(d, f)
    BY <1>12 DEF RemoveFile
  <1>13. CASE \E d \in Deletes : Deleted(d)
    BY <1>13 DEF Deleted
  <1>14. CASE \E d \in Deletes, p \in Places : PutBackRow(d, p)
    BY <1>14 DEF PutBackRow
  <1>15. CASE \E d \in Deletes : PutBackDone(d)
    BY <1>15 DEF PutBackDone
  <1>16. CASE \E u \in Undos, f \in Files : TruncateFile(u, f)
    BY <1>16 DEF TruncateFile
  <1>17. CASE \E u \in Undos : FillFile(u)
    BY <1>17 DEF FillFile
  <1>18. CASE \E u \in Undos, p \in Places : RestoreRow(u, p)
    BY <1>18 DEF RestoreRow
  <1>19. CASE \E u \in Undos : Undone(u)
    BY <1>19 DEF Undone
  <1>20. CASE \E m \in Moves, f \in Files : CopyRest(m, f)
    BY <1>20 DEF CopyRest
  <1>21. CASE \E m \in Moves : MovedFileGone(m)
    BY <1>21 DEF MovedFileGone
  <1>22. CASE \E m \in Moves : RenameFile(m)
    BY <1>22 DEF RenameFile
  <1>23. CASE \E m \in Moves, p \in Places : UpdateRow(m, p)
    BY <1>23 DEF UpdateRow
  <1>24. CASE \E m \in Moves : WriteHint(m)
    BY <1>24 DEF WriteHint
  <1>25. CASE \E r \in Requests : StepFails(r)
    BY <1>25 DEF StepFails
  <1>26. CASE \E p \in Procs : Crash(p)
    BY <1>26 DEF Crash
  <1>27. CASE \E f \in Files, l \in Lines : AppAppends(f, l)
    BY <1>27 DEF AppAppends
  <1>28. CASE UNCHANGED vars
    BY <1>28
  <1> QED
    BY <1>1, <1>2, <1>3, <1>4, <1>5, <1>6, <1>7, <1>8, <1>9, <1>10, <1>11, <1>12, <1>13, <1>14, <1>15, <1>16, <1>17, <1>18, <1>19, <1>20, <1>21, <1>22, <1>23, <1>24, <1>25, <1>26, <1>27, <1>28 DEF Next, Begin, Step, DeleteStep, UndoStep, MoveStep, Requests

\* What deletions have copied stays enough.
LEMMA NextCopied == IInv /\ [Next]_vars => Copied'
  <1> SUFFICES ASSUME IInv, [Next]_vars PROVE Copied'
    OBVIOUS
  <1> USE ConstantsAssumption, NextBackedUp DEF IInv, vars, store, copying, backup, history, Goto, Loop, Treated, Answer, EndDelete, Fault, Alongside, Requests, Looking, Removing, Undoing, Moving, Busy, Answers, TypeOK, Prepared, Copied
  <1>1. CASE \E d \in Deletes, p \in Procs : BeginDelete(d, p)
    BY <1>1 DEF BeginDelete
  <1>2. CASE \E d \in Deletes, p \in Procs : DeleteInProgress(d, p)
    BY <1>2 DEF DeleteInProgress
  <1>3. CASE \E u \in Undos, d \in Deletes : BeginUndo(u, d)
    BY <1>3 DEF BeginUndo
  <1>4. CASE \E m \in Moves, t \in Cwds \cup {Projectless} : BeginMove(m, t)
    BY <1>4 DEF BeginMove
  <1>5. CASE \E r \in Deletes \cup Moves : LookUpRows(r)
    BY <1>5 DEF LookUpRows
  <1>6. CASE \E r \in Deletes \cup Moves : LookUpFiles(r)
    <2>1. PICK r \in Deletes \cup Moves : LookUpFiles(r)
      BY <1>6
    <2>2. CASE r \in Deletes
      <3>1. PICK things \in SUBSET Files : pc' = [pc EXCEPT ![r] = "copy"] /\ todo' = [todo EXCEPT ![r] = things]
        BY <2>1, <2>2 DEF LookUpFiles
      <3> QED
        BY <2>1, <2>2, <3>1 DEF LookUpFiles
    <2>3. CASE r \in Moves
      <3>1. PICK things : /\ pc' = [pc EXCEPT ![r] = "move"] /\ todo' = [todo EXCEPT ![r] = things]
                          /\ arg[r] = Projectless => things = {}
        BY <2>1, <2>3 DEF LookUpFiles
      <3> QED
        BY <2>1, <2>3, <3>1 DEF LookUpFiles
    <2> QED
      BY <2>1, <2>2, <2>3
  <1>7. CASE \E r \in Deletes \cup Moves : NothingFound(r)
    BY <1>7 DEF NothingFound
  <1>8. CASE \E d \in Deletes, f \in Files : BackUpFile(d, f)
    <2>1. PICK d \in Deletes, f \in Files : BackUpFile(d, f)
      BY <1>8
    <2>2. \A l \in written[f] \ unseen[f] : l \in LinesOf(files[f]) \/ BackedUp(f, l)
      BY DEF Recoverable, Kept
    <2>3. /\ copies'[d][f] = files[f]
          /\ \A e \in Deletes, g \in Files : e # d \/ g # f => copies'[e][g] = copies[e][g]
      BY <2>1 DEF BackUpFile, Bodies
    <2>4. pc' = pc /\ written' = written /\ unseen' = unseen
      BY <2>1 DEF BackUpFile
    <2>5. \A g \in Files : \A l \in written'[g] \ unseen'[g] : l \in Lines
      BY <2>4
    <2>6. ASSUME NEW e \in Deletes, pc'[e] \in {"copy", "delete"}, NEW g \in Files, copies'[e][g] # Gone,
                 NEW l \in written'[g] \ unseen'[g]
          PROVE  l \in LinesOf(copies'[e][g]) \/ BackedUp(g, l)'
      <3>1. CASE e = d /\ g = f
        BY <2>2, <2>3, <2>4, <2>5, <2>6, <3>1
      <3>2. CASE e # d \/ g # f
        BY <2>3, <2>4, <2>5, <2>6, <3>2
      <3> QED
        BY <3>1, <3>2
    <2> QED
      BY <2>6 DEF LinesOf
  <1>9. CASE \E d \in Deletes : VanishedFile(d)
    BY <1>9 DEF VanishedFile
  <1>10. CASE \E d \in Deletes : WriteManifest(d)
    BY <1>10 DEF WriteManifest
  <1>11. CASE \E d \in Deletes, p \in Places : DeleteRow(d, p)
    BY <1>11 DEF DeleteRow
  <1>12. CASE \E d \in Deletes, f \in Files : RemoveFile(d, f)
    BY <1>12 DEF RemoveFile
  <1>13. CASE \E d \in Deletes : Deleted(d)
    BY <1>13 DEF Deleted
  <1>14. CASE \E d \in Deletes, p \in Places : PutBackRow(d, p)
    BY <1>14 DEF PutBackRow
  <1>15. CASE \E d \in Deletes : PutBackDone(d)
    BY <1>15 DEF PutBackDone
  <1>16. CASE \E u \in Undos, f \in Files : TruncateFile(u, f)
    BY <1>16 DEF TruncateFile
  <1>17. CASE \E u \in Undos : FillFile(u)
    BY <1>17 DEF FillFile
  <1>18. CASE \E u \in Undos, p \in Places : RestoreRow(u, p)
    BY <1>18 DEF RestoreRow
  <1>19. CASE \E u \in Undos : Undone(u)
    BY <1>19 DEF Undone
  <1>20. CASE \E m \in Moves, f \in Files : CopyRest(m, f)
    BY <1>20 DEF CopyRest
  <1>21. CASE \E m \in Moves : MovedFileGone(m)
    BY <1>21 DEF MovedFileGone
  <1>22. CASE \E m \in Moves : RenameFile(m)
    BY <1>22 DEF RenameFile
  <1>23. CASE \E m \in Moves, p \in Places : UpdateRow(m, p)
    BY <1>23 DEF UpdateRow
  <1>24. CASE \E m \in Moves : WriteHint(m)
    BY <1>24 DEF WriteHint
  <1>25. CASE \E r \in Requests : StepFails(r)
    BY <1>25, SMTT(30) DEF StepFails
  <1>26. CASE \E p \in Procs : Crash(p)
    BY <1>26 DEF Crash
  <1>27. CASE \E f \in Files, l \in Lines : AppAppends(f, l)
    <2>1. PICK f \in Files, l \in Lines : AppAppends(f, l)
      BY <1>27
    <2>2. \A d \in Deletes : pc[d] \in {"copy", "delete"} => Active # {}
      BY DEF Active
    <2>3. \A d \in Deletes : pc[d] \in {"copy", "delete"} =>
             \A g \in Files : written'[g] \ unseen'[g] \subseteq written[g] \ unseen[g]
      BY <2>1, <2>2 DEF AppAppends
    <2> QED
      BY <2>1, <2>3 DEF AppAppends
  <1>28. CASE UNCHANGED vars
    BY <1>28
  <1> QED
    BY <1>1, <1>2, <1>3, <1>4, <1>5, <1>6, <1>7, <1>8, <1>9, <1>10, <1>11, <1>12, <1>13, <1>14, <1>15, <1>16, <1>17, <1>18, <1>19, <1>20, <1>21, <1>22, <1>23, <1>24, <1>25, <1>26, <1>27, <1>28 DEF Next, Begin, Step, DeleteStep, UndoStep, MoveStep, Requests

\* What moves carry stays enough.
LEMMA NextCarried == IInv /\ [Next]_vars => Carried'
  <1> SUFFICES ASSUME IInv, [Next]_vars PROVE Carried'
    OBVIOUS
  <1> USE ConstantsAssumption, NextBackedUp DEF IInv, vars, store, copying, backup, history, Goto, Loop, Treated, Answer, EndDelete, Fault, Alongside, Requests, Looking, Removing, Undoing, Moving, Busy, Answers, TypeOK, Known, Carried
  <1>1. CASE \E d \in Deletes, p \in Procs : BeginDelete(d, p)
    BY <1>1 DEF BeginDelete
  <1>2. CASE \E d \in Deletes, p \in Procs : DeleteInProgress(d, p)
    BY <1>2 DEF DeleteInProgress
  <1>3. CASE \E u \in Undos, d \in Deletes : BeginUndo(u, d)
    BY <1>3 DEF BeginUndo
  <1>4. CASE \E m \in Moves, t \in Cwds \cup {Projectless} : BeginMove(m, t)
    BY <1>4 DEF BeginMove
  <1>5. CASE \E r \in Deletes \cup Moves : LookUpRows(r)
    BY <1>5 DEF LookUpRows
  <1>6. CASE \E r \in Deletes \cup Moves : LookUpFiles(r)
    <2>1. PICK r \in Deletes \cup Moves : LookUpFiles(r)
      BY <1>6
    <2>2. CASE r \in Deletes
      <3>1. PICK things \in SUBSET Files : pc' = [pc EXCEPT ![r] = "copy"] /\ todo' = [todo EXCEPT ![r] = things]
        BY <2>1, <2>2 DEF LookUpFiles
      <3> QED
        BY <2>1, <2>2, <3>1 DEF LookUpFiles
    <2>3. CASE r \in Moves
      <3>1. PICK things : /\ pc' = [pc EXCEPT ![r] = "move"] /\ todo' = [todo EXCEPT ![r] = things]
                          /\ arg[r] = Projectless => things = {}
        BY <2>1, <2>3 DEF LookUpFiles
      <3> QED
        BY <2>1, <2>3, <3>1 DEF LookUpFiles
    <2> QED
      BY <2>1, <2>2, <2>3
  <1>7. CASE \E r \in Deletes \cup Moves : NothingFound(r)
    BY <1>7 DEF NothingFound
  <1>8. CASE \E d \in Deletes, f \in Files : BackUpFile(d, f)
    BY <1>8 DEF BackUpFile
  <1>9. CASE \E d \in Deletes : VanishedFile(d)
    BY <1>9 DEF VanishedFile
  <1>10. CASE \E d \in Deletes : WriteManifest(d)
    BY <1>10 DEF WriteManifest
  <1>11. CASE \E d \in Deletes, p \in Places : DeleteRow(d, p)
    BY <1>11 DEF DeleteRow
  <1>12. CASE \E d \in Deletes, f \in Files : RemoveFile(d, f)
    BY <1>12 DEF RemoveFile
  <1>13. CASE \E d \in Deletes : Deleted(d)
    BY <1>13 DEF Deleted
  <1>14. CASE \E d \in Deletes, p \in Places : PutBackRow(d, p)
    BY <1>14 DEF PutBackRow
  <1>15. CASE \E d \in Deletes : PutBackDone(d)
    BY <1>15 DEF PutBackDone
  <1>16. CASE \E u \in Undos, f \in Files : TruncateFile(u, f)
    BY <1>16 DEF TruncateFile
  <1>17. CASE \E u \in Undos : FillFile(u)
    BY <1>17 DEF FillFile
  <1>18. CASE \E u \in Undos, p \in Places : RestoreRow(u, p)
    BY <1>18 DEF RestoreRow
  <1>19. CASE \E u \in Undos : Undone(u)
    BY <1>19 DEF Undone
  <1>20. CASE \E m \in Moves, f \in Files : CopyRest(m, f)
    <2>1. PICK m \in Moves, f \in Files : CopyRest(m, f)
      BY <1>20
    <2>2. \A l \in written[f] \ unseen[f] : l \in LinesOf(files[f]) \/ BackedUp(f, l)
      BY DEF Recoverable, Kept
    <2>3. /\ open'[m] = f /\ rest'[m] = LinesOf(files[f])
          /\ \A n \in Moves \ {m} : open'[n] = open[n] /\ rest'[n] = rest[n] /\ pc'[n] = pc[n]
          /\ written' = written /\ unseen' = unseen
      BY <2>1 DEF CopyRest
    <2> QED
      BY <2>2, <2>3
  <1>21. CASE \E m \in Moves : MovedFileGone(m)
    BY <1>21 DEF MovedFileGone
  <1>22. CASE \E m \in Moves : RenameFile(m)
    BY <1>22 DEF RenameFile
  <1>23. CASE \E m \in Moves, p \in Places : UpdateRow(m, p)
    BY <1>23 DEF UpdateRow
  <1>24. CASE \E m \in Moves : WriteHint(m)
    BY <1>24 DEF WriteHint
  <1>25. CASE \E r \in Requests : StepFails(r)
    BY <1>25 DEF StepFails
  <1>26. CASE \E p \in Procs : Crash(p)
    BY <1>26 DEF Crash
  <1>27. CASE \E f \in Files, l \in Lines : AppAppends(f, l)
    <2>1. PICK f \in Files, l \in Lines : AppAppends(f, l)
      BY <1>27
    <2>2. \A m \in Moves : pc[m] = "rename" => Active # {}
      BY DEF Active
    <2>3. \A m \in Moves : pc[m] = "rename" =>
             written'[open[m]] \ unseen'[open[m]] \subseteq written[open[m]] \ unseen[open[m]]
      BY <2>1, <2>2 DEF AppAppends
    <2> QED
      BY <2>1, <2>3 DEF AppAppends
  <1>28. CASE UNCHANGED vars
    BY <1>28
  <1> QED
    BY <1>1, <1>2, <1>3, <1>4, <1>5, <1>6, <1>7, <1>8, <1>9, <1>10, <1>11, <1>12, <1>13, <1>14, <1>15, <1>16, <1>17, <1>18, <1>19, <1>20, <1>21, <1>22, <1>23, <1>24, <1>25, <1>26, <1>27, <1>28 DEF Next, Begin, Step, DeleteStep, UndoStep, MoveStep, Requests

\* No line is lost.
LEMMA NextRecoverable == IInv /\ [Next]_vars => Recoverable'
  <1> SUFFICES ASSUME IInv, [Next]_vars PROVE Recoverable'
    OBVIOUS
  <1> USE ConstantsAssumption, NextBackedUp DEF IInv, vars, store, copying, backup, history, Goto, Loop, Treated, Answer, TypeOK, Recoverable, Kept
  <1>1. CASE \E d \in Deletes, p \in Procs : BeginDelete(d, p)
    BY <1>1 DEF BeginDelete
  <1>2. CASE \E d \in Deletes, p \in Procs : DeleteInProgress(d, p)
    BY <1>2 DEF DeleteInProgress
  <1>3. CASE \E u \in Undos, d \in Deletes : BeginUndo(u, d)
    BY <1>3 DEF BeginUndo
  <1>4. CASE \E m \in Moves, t \in Cwds \cup {Projectless} : BeginMove(m, t)
    BY <1>4 DEF BeginMove
  <1>5. CASE \E r \in Deletes \cup Moves : LookUpRows(r)
    BY <1>5 DEF LookUpRows
  <1>6. CASE \E r \in Deletes \cup Moves : LookUpFiles(r)
    BY <1>6 DEF LookUpFiles
  <1>7. CASE \E r \in Deletes \cup Moves : NothingFound(r)
    BY <1>7 DEF NothingFound
  <1>8. CASE \E d \in Deletes, f \in Files : BackUpFile(d, f)
    BY <1>8 DEF BackUpFile
  <1>9. CASE \E d \in Deletes : VanishedFile(d)
    BY <1>9 DEF VanishedFile
  <1>10. CASE \E d \in Deletes : WriteManifest(d)
    BY <1>10 DEF WriteManifest
  <1>11. CASE \E d \in Deletes, p \in Places : DeleteRow(d, p)
    BY <1>11 DEF DeleteRow
  <1>12. CASE \E d \in Deletes, f \in Files : RemoveFile(d, f)
    <2>1. PICK d \in Deletes, f \in Files : RemoveFile(d, f)
      BY <1>12
    <2>2. \A l \in written[f] \ unseen[f] : BackedUp(f, l)
      <3>1. f \in todo[d] /\ pc[d] = "delete"
        BY <2>1 DEF RemoveFile
      <3>2. copies[d][f] # Gone /\ d \in manifests
        BY <3>1 DEF Prepared
      <3> QED
        BY <3>1, <3>2 DEF Copied, BackedUp
    <2>3. \A g \in Files : g # f => files'[g] = files[g]
      BY <2>1 DEF RemoveFile
    <2>4. written' = written /\ unseen' = unseen
      BY <2>1 DEF RemoveFile
    <2> QED
      BY <2>2, <2>3, <2>4 DEF LinesOf
  <1>13. CASE \E d \in Deletes : Deleted(d)
    BY <1>13 DEF Deleted
  <1>14. CASE \E d \in Deletes, p \in Places : PutBackRow(d, p)
    BY <1>14 DEF PutBackRow
  <1>15. CASE \E d \in Deletes : PutBackDone(d)
    BY <1>15 DEF PutBackDone
  <1>16. CASE \E u \in Undos, f \in Files : TruncateFile(u, f)
    <2>1. PICK u \in Undos, f \in Files : TruncateFile(u, f)
      BY <1>16
    <2>2. arg[u] \in manifests
      BY <2>1 DEF TruncateFile, Known, Undoing
    <2>3. /\ written' = written
          /\ unseen' = [unseen EXCEPT ![f] = @ \cup (LinesOf(files[f]) \ LinesOf(copies[arg[u]][f]))]
          /\ \A g \in Files : g # f => files'[g] = files[g]
      BY <2>1 DEF TruncateFile
    <2>4. \A l \in written[f] \ unseen'[f] : BackedUp(f, l)
      BY <2>2, <2>3 DEF BackedUp
    <2> QED
      BY <2>3, <2>4 DEF LinesOf
  <1>17. CASE \E u \in Undos : FillFile(u)
    <2>1. PICK u \in Undos : FillFile(u)
      BY <1>17
    <2>2. open[u] \in Files
      BY <2>1 DEF FillFile, Known
    <2>3. /\ written' = written /\ unseen' = unseen
          /\ \A g \in Files : files'[g] = files[g] \/ files[g] = Torn
      BY <2>1, <2>2 DEF FillFile
    <2> QED
      BY <2>3 DEF LinesOf
  <1>18. CASE \E u \in Undos, p \in Places : RestoreRow(u, p)
    BY <1>18 DEF RestoreRow
  <1>19. CASE \E u \in Undos : Undone(u)
    BY <1>19 DEF Undone
  <1>20. CASE \E m \in Moves, f \in Files : CopyRest(m, f)
    BY <1>20 DEF CopyRest
  <1>21. CASE \E m \in Moves : MovedFileGone(m)
    BY <1>21 DEF MovedFileGone
  <1>22. CASE \E m \in Moves : RenameFile(m)
    <2>1. PICK m \in Moves : RenameFile(m)
      BY <1>22
    <2>2. open[m] \in Files /\ pc[m] = "rename" /\ written' = written /\ unseen' = unseen
      BY <2>1 DEF RenameFile, Known
    <2>3. arg[m] \in Cwds
      BY <2>1, <2>2 DEF Known, Moving
    <2>4. /\ files'[open[m]] = [cwd |-> arg[m], lines |-> rest[m]]
          /\ \A g \in Files : g # open[m] => files'[g] = files[g]
      BY <2>1, <2>2 DEF RenameFile, Bodies
    <2>5. LinesOf(files'[open[m]]) = rest[m]
      <3>1. [cwd |-> arg[m], lines |-> rest[m]] \in Contents
        BY <2>3 DEF Contents
      <3>2. files'[open[m]] \notin {Gone, Torn}
        BY <2>4, <3>1
      <3> QED
        BY <2>4, <3>2 DEF LinesOf
    <2>6. \A l \in written[open[m]] \ unseen[open[m]] : l \in rest[m] \/ BackedUp(open[m], l)
      BY <2>2 DEF Carried
    <2>7. ASSUME NEW f \in Files, NEW l \in written'[f] \ unseen'[f]
          PROVE  l \in LinesOf(files'[f]) \/ BackedUp(f, l)'
      <3>0. l \in Lines
        BY <2>2, <2>7
      <3>1. CASE f = open[m]
        BY <2>2, <2>5, <2>6, <2>7, <3>0, <3>1
      <3>2. CASE f # open[m]
        BY <2>2, <2>4, <2>7, <3>0, <3>2
      <3> QED
        BY <3>1, <3>2
    <2> QED
      BY <2>7 DEF LinesOf
  <1>23. CASE \E m \in Moves, p \in Places : UpdateRow(m, p)
    BY <1>23 DEF UpdateRow
  <1>24. CASE \E m \in Moves : WriteHint(m)
    BY <1>24 DEF WriteHint
  <1>25. CASE \E r \in Requests : StepFails(r)
    BY <1>25 DEF StepFails
  <1>26. CASE \E p \in Procs : Crash(p)
    BY <1>26 DEF Crash
  <1>27. CASE \E f \in Files, l \in Lines : AppAppends(f, l)
    <2>1. PICK f \in Files, l \in Lines : AppAppends(f, l)
      BY <1>27
    <2>2. /\ \A g \in Files : g # f => files'[g] = files[g] /\ written'[g] = written[g] /\ unseen'[g] = unseen[g]
          /\ written'[f] = written[f] \cup {l} /\ unseen[f] \subseteq unseen'[f]
      BY <2>1 DEF AppAppends, Bodies
    <2>3. LinesOf(files[f]) \cup {l} \subseteq LinesOf(files'[f])
      <3>1. files[f] \in Contents
        BY <2>1 DEF AppAppends, Readable, Bodies
      <3>2. [files[f] EXCEPT !.lines = @ \cup {l}] \in Contents
        BY <3>1 DEF Contents
      <3>3. files'[f] = [files[f] EXCEPT !.lines = @ \cup {l}]
        BY <2>1 DEF AppAppends, Bodies
      <3>4. files'[f].lines = files[f].lines \cup {l}
        BY <3>1, <3>3 DEF Contents
      <3> QED
        BY <3>1, <3>2, <3>3, <3>4 DEF LinesOf
    <2>4. ASSUME NEW g \in Files, NEW k \in written'[g] \ unseen'[g]
          PROVE  k \in LinesOf(files'[g]) \/ BackedUp(g, k)'
      <3>1. k \in Lines /\ (k \in written[g] \ unseen[g] \/ (g = f /\ k = l))
        BY <2>1, <2>2, <2>4
      <3> QED
        BY <2>2, <2>3, <2>4, <3>1
    <2> QED
      BY <2>4 DEF LinesOf
  <1>28. CASE UNCHANGED vars
    BY <1>28
  <1> QED
    BY <1>1, <1>2, <1>3, <1>4, <1>5, <1>6, <1>7, <1>8, <1>9, <1>10, <1>11, <1>12, <1>13, <1>14, <1>15, <1>16, <1>17, <1>18, <1>19, <1>20, <1>21, <1>22, <1>23, <1>24, <1>25, <1>26, <1>27, <1>28 DEF Next, Begin, Step, DeleteStep, UndoStep, MoveStep, Requests

\* The key is where the deletion is.
LEMMA NextKey == IInv /\ [Next]_vars => OneDeletionHoldsTheKey'
  <1> SUFFICES ASSUME IInv, [Next]_vars PROVE OneDeletionHoldsTheKey'
    OBVIOUS
  <1> USE ConstantsAssumption DEF IInv, vars, store, copying, backup, history, Goto, Loop, Treated, Answer, EndDelete, Fault, Alongside, Requests, Looking, Removing, Undoing, Moving, Busy, Answers, TypeOK, OneDeletionHoldsTheKey, Deleting, Held, Procs
  <1>1. CASE \E d \in Deletes, p \in Procs : BeginDelete(d, p)
    BY <1>1 DEF BeginDelete
  <1>2. CASE \E d \in Deletes, p \in Procs : DeleteInProgress(d, p)
    BY <1>2 DEF DeleteInProgress
  <1>3. CASE \E u \in Undos, d \in Deletes : BeginUndo(u, d)
    BY <1>3 DEF BeginUndo
  <1>4. CASE \E m \in Moves, t \in Cwds \cup {Projectless} : BeginMove(m, t)
    BY <1>4 DEF BeginMove
  <1>5. CASE \E r \in Deletes \cup Moves : LookUpRows(r)
    BY <1>5 DEF LookUpRows
  <1>6. CASE \E r \in Deletes \cup Moves : LookUpFiles(r)
    BY <1>6, SMTT(30) DEF LookUpFiles
  <1>7. CASE \E r \in Deletes \cup Moves : NothingFound(r)
    BY <1>7 DEF NothingFound
  <1>8. CASE \E d \in Deletes, f \in Files : BackUpFile(d, f)
    BY <1>8 DEF BackUpFile
  <1>9. CASE \E d \in Deletes : VanishedFile(d)
    BY <1>9 DEF VanishedFile
  <1>10. CASE \E d \in Deletes : WriteManifest(d)
    BY <1>10 DEF WriteManifest
  <1>11. CASE \E d \in Deletes, p \in Places : DeleteRow(d, p)
    BY <1>11 DEF DeleteRow
  <1>12. CASE \E d \in Deletes, f \in Files : RemoveFile(d, f)
    BY <1>12 DEF RemoveFile
  <1>13. CASE \E d \in Deletes : Deleted(d)
    BY <1>13 DEF Deleted
  <1>14. CASE \E d \in Deletes, p \in Places : PutBackRow(d, p)
    BY <1>14 DEF PutBackRow
  <1>15. CASE \E d \in Deletes : PutBackDone(d)
    BY <1>15 DEF PutBackDone
  <1>16. CASE \E u \in Undos, f \in Files : TruncateFile(u, f)
    BY <1>16 DEF TruncateFile
  <1>17. CASE \E u \in Undos : FillFile(u)
    BY <1>17 DEF FillFile
  <1>18. CASE \E u \in Undos, p \in Places : RestoreRow(u, p)
    BY <1>18 DEF RestoreRow
  <1>19. CASE \E u \in Undos : Undone(u)
    BY <1>19 DEF Undone
  <1>20. CASE \E m \in Moves, f \in Files : CopyRest(m, f)
    BY <1>20 DEF CopyRest
  <1>21. CASE \E m \in Moves : MovedFileGone(m)
    BY <1>21 DEF MovedFileGone
  <1>22. CASE \E m \in Moves : RenameFile(m)
    BY <1>22 DEF RenameFile
  <1>23. CASE \E m \in Moves, p \in Places : UpdateRow(m, p)
    BY <1>23 DEF UpdateRow
  <1>24. CASE \E m \in Moves : WriteHint(m)
    BY <1>24 DEF WriteHint
  <1>25. CASE \E r \in Requests : StepFails(r)
    <2>1. PICK r \in Requests : StepFails(r)
      BY <1>25
    <2>2. CASE pc[r] = "delete" /\ todo[r] \subseteq Files
      <3>1. pc' = [pc EXCEPT ![r] = "putBack"] /\ home' = home /\ inFlight' = inFlight
        BY <2>1, <2>2 DEF StepFails
      <3> QED
        BY <2>2, <3>1
    <2>3. CASE ~(pc[r] = "delete" /\ todo[r] \subseteq Files)
      <3>1. PICK a \in {"failed", "failedWithToken"} : pc' = [pc EXCEPT ![r] = a]
        BY <2>1, <2>3 DEF StepFails
      <3>2. home' = home /\ inFlight' = IF r \in Deletes THEN inFlight \ {home[r]} ELSE inFlight
        BY <2>1, <2>3 DEF StepFails
      <3>3. pc[r] \in Busy
        BY <2>1 DEF StepFails, Active
      <3> QED
        BY <3>1, <3>2, <3>3
    <2> QED
      BY <2>2, <2>3
  <1>26. CASE \E p \in Procs : Crash(p)
    <2>1. PICK p \in Procs : Crash(p)
      BY <1>26
    <2>2. home' = home /\ inFlight' = inFlight \ {p}
      BY <2>1 DEF Crash
    <2>3. \A d \in Deletes : pc'[d] = IF pc[d] \in Busy /\ home[d] = p THEN "crashed" ELSE pc[d]
      BY <2>1 DEF Crash, Active, RunsIn
    <2> QED
      BY <2>2, <2>3, SMTT(30)
  <1>27. CASE \E f \in Files, l \in Lines : AppAppends(f, l)
    BY <1>27 DEF AppAppends
  <1>28. CASE UNCHANGED vars
    BY <1>28
  <1> QED
    BY <1>1, <1>2, <1>3, <1>4, <1>5, <1>6, <1>7, <1>8, <1>9, <1>10, <1>11, <1>12, <1>13, <1>14, <1>15, <1>16, <1>17, <1>18, <1>19, <1>20, <1>21, <1>22, <1>23, <1>24, <1>25, <1>26, <1>27, <1>28, SMTT(30) DEF Next, Begin, Step, DeleteStep, UndoStep, MoveStep, Requests

-----------------------------------------------------------------------------
\* The inductive invariant is one.
THEOREM Invariance == Spec => []IInv
  <1>1. IInv /\ [Next]_vars => IInv'
    BY NextTypeOK, NextKnown, NextPrepared, NextCopied, NextCarried, NextRecoverable,
       NextKey DEF IInv
  <1> QED
    BY InitIInv, <1>1, PTL DEF Spec

\* Every reachable state is well typed.
THEOREM TypeCorrect == Spec => []TypeOK
  BY Invariance, PTL DEF IInv

\* However deletions, undos, moves, failures and crashes interleave, a line that
\* was written while no request ran is in its file or in a finished backup
\* (createSessionDeleteBackup precedes deleteSessionLookupRows and os.Remove).
THEOREM NothingIsLost == Spec => []Recoverable
  BY Invariance, PTL DEF IInv

\* On every path of deleteSessionDataRoute the key is given back, and only one
\* deletion of a process has it.
THEOREM KeysAreGivenBack == Spec => []OneDeletionHoldsTheKey
  BY Invariance, PTL DEF IInv

-----------------------------------------------------------------------------
\* A step of request r, or its first one.
OwnStep(r) ==
    \/ r \in Deletes /\ DeleteStep(r)
    \/ r \in Undos /\ UndoStep(r)
    \/ r \in Moves /\ MoveStep(r)
    \/ StepFails(r)

Begins(r) ==
    \/ r \in Deletes /\ \E p \in Procs : BeginDelete(r, p)
    \/ r \in Undos /\ \E d \in Deletes : BeginUndo(r, d)
    \/ r \in Moves /\ \E t \in Cwds \cup {Projectless} : BeginMove(r, t)

\* What a lone request relies on does not change.
Idle(r) ==
    /\ rows' = rows /\ files' = files /\ before' = before /\ copies' = copies /\ arg' = arg
    /\ foundRows' = foundRows /\ todo' = todo /\ open' = open /\ faults' = faults
    /\ pc'[r] = pc[r] /\ Active' = Active

\* Who takes a step is under way, and leaves the others where they are.
LEMMA OwnActs ==
  ASSUME TypeOK, NEW r \in Requests, OwnStep(r)
  PROVE  /\ r \in Active /\ overlapped' = overlapped /\ before' = before /\ arg' = arg
         /\ \A q \in Requests \ {r} : pc'[q] = pc[q]
  <1> USE DEF TypeOK, Goto, Loop, Treated, Answer, history, backup, copying, Active, Busy,
              Looking, Removing, Undoing, Moving
  <1>1. CASE r \in Deletes /\ DeleteStep(r)
    BY <1>1 DEF DeleteStep, LookUpRows, LookUpFiles, NothingFound, BackUpFile, RemoveFile, VanishedFile,
            WriteManifest, Deleted, PutBackDone, DeleteRow, PutBackRow
  <1>2. CASE r \in Undos /\ UndoStep(r)
    BY <1>2 DEF UndoStep, TruncateFile, RestoreRow, FillFile, Undone
  <1>3. CASE r \in Moves /\ MoveStep(r)
    BY <1>3 DEF MoveStep, LookUpRows, LookUpFiles, NothingFound, CopyRest, UpdateRow, MovedFileGone,
            RenameFile, WriteHint
  <1>4. CASE StepFails(r)
    BY <1>4 DEF StepFails
  <1> QED
    BY <1>1, <1>2, <1>3, <1>4 DEF OwnStep

\* Requests that begin while another is under way make it overlap.
LEMMA BeginOverlaps ==
  ASSUME TypeOK, NEW q \in Requests, Begins(q)
  PROVE  /\ overlapped' = IF Active = {} THEN overlapped ELSE overlapped \cup Active \cup {q}
         /\ \A x \in Requests \ {q} : pc'[x] = pc[x]
  BY DEF Begins, BeginDelete, BeginUndo, BeginMove, Alongside, TypeOK, Goto, Loop

\* Every step is of one request, a crash, or of the application.
LEMMA WhoActs ==
  ASSUME [Next]_vars
  PROVE  \/ \E r \in Requests : Begins(r) \/ OwnStep(r)
         \/ \E d \in Deletes, p \in Procs : DeleteInProgress(d, p)
         \/ \E p \in Procs : Crash(p)
         \/ \E f \in Files, l \in Lines : AppAppends(f, l)
         \/ UNCHANGED vars
  BY DEF Next, Begin, Step, Begins, OwnStep, Requests

\* What a request that has run alone so far may see happen.
LEMMA AloneActs ==
  ASSUME IInv, Alone, [Next]_vars, NEW r \in Requests, r \notin overlapped', pc'[r] \in Busy
  PROVE  /\ r \notin overlapped
         /\ \/ Begins(r) /\ Active = {}
            \/ pc[r] \in Busy /\ Active = {r} /\ (OwnStep(r) \/ Idle(r))
  <1> USE DEF IInv
  <1>1. CASE \E q \in Requests : Begins(q)
    <2>1. PICK q \in Requests : Begins(q)
      BY <1>1
    <2>2. r \notin overlapped /\ r \notin Active /\ (Active = {} \/ r # q)
      BY <2>1, BeginOverlaps
    <2>3. pc[r] \notin Busy
      BY <2>2 DEF Active
    <2>4. r = q
      BY <2>1, <2>3, BeginOverlaps
    <2> QED
      BY <2>1, <2>2, <2>4
  <1>2. CASE \E q \in Requests : OwnStep(q)
    <2>1. PICK q \in Requests : OwnStep(q)
      BY <1>2
    <2>2. q \in Active /\ r \notin overlapped /\ (r = q \/ pc'[r] = pc[r])
      BY <2>1, OwnActs
    <2>3. r \in Active
      BY <2>2 DEF Active
    <2>4. Active = {r}
      BY <2>2, <2>3 DEF Alone
    <2> QED
      BY <2>1, <2>2, <2>3, <2>4 DEF Active
  <1>3. CASE \E d \in Deletes, p \in Procs : DeleteInProgress(d, p)
    <2>1. PICK d \in Deletes, p \in Procs : DeleteInProgress(d, p)
      BY <1>3
    <2>2. pc[d] = "new" /\ pc' = [pc EXCEPT ![d] = "inProgress"] /\ overlapped' = overlapped
      BY <2>1 DEF DeleteInProgress, Goto, history
    <2>3. {"new", "inProgress"} \cap Busy = {}
      BY DEF Busy, Looking, Removing, Undoing, Moving
    <2>4. Active' = Active /\ pc'[r] = pc[r]
      BY <2>2, <2>3 DEF Active, TypeOK
    <2>5. Active = {r}
      BY <2>2, <2>4 DEF Alone, Active
    <2> QED
      BY <2>1, <2>2, <2>4, <2>5
         DEF DeleteInProgress, Idle, store, copying, backup, history
  <1>4. CASE \E p \in Procs : Crash(p)
    <2>1. PICK p \in Procs : Crash(p)
      BY <1>4
    <2>2. /\ overlapped' = overlapped /\ "crashed" \notin Busy
          /\ \E q \in Active : pc'[q] = "crashed"
          /\ pc'[r] \in {"crashed", pc[r]}
      BY <2>1 DEF Crash, history, Active, Busy, Looking, Removing, Undoing, Moving
    <2>3. Active = {r}
      BY <2>2 DEF Alone, Active
    <2> QED
      BY <2>2, <2>3
  <1>5. CASE \E f \in Files, l \in Lines : AppAppends(f, l)
    BY <1>5 DEF AppAppends, Active
  <1>6. CASE UNCHANGED vars
    <2>1. Active' = Active /\ r \in Active /\ r \notin overlapped
      BY <1>6 DEF vars, history, Active
    <2> QED
      BY <1>6, <2>1 DEF Alone, Idle, Active, vars, store, copying, backup, history
  <1> QED
    BY <1>1, <1>2, <1>3, <1>4, <1>5, <1>6, WhoActs

\* A request runs alone as long as no other begins.
LEMMA NextAlone == IInv /\ Alone /\ [Next]_vars => Alone'
  <1> SUFFICES ASSUME IInv, Alone, [Next]_vars, NEW r \in Active' \ overlapped'
               PROVE  Active' = {r}
    BY DEF Alone
  <1>1. r \in Requests /\ pc'[r] \in Busy
    BY DEF Active
  <1>2. CASE Begins(r) /\ Active = {}
    BY <1>1, <1>2, BeginOverlaps DEF Active, IInv
  <1>3. CASE Active = {r} /\ OwnStep(r)
    BY <1>1, <1>3, OwnActs DEF Active, IInv
  <1>4. CASE Active = {r} /\ Idle(r)
    BY <1>4 DEF Idle
  <1> QED
    BY <1>1, <1>2, <1>3, <1>4, AloneActs

\* A deletion that is done stays done, with its backup.
LEMMA Settled ==
  ASSUME IInv, [Next]_vars, NEW d \in Deletes, pc[d] = "local_deleted"
  PROVE  /\ pc'[d] = pc[d] /\ foundRows'[d] = foundRows[d]
         /\ copies'[d] = copies[d] /\ before'[d] = before[d]
  <1> USE DEF IInv, TypeOK, Goto, Loop, Treated, Answer, vars, history, backup, copying
  <1>1. pc[d] \notin Busy \cup {"new"} /\ d \in Requests /\ d \notin Active
    BY DEF Requests, Active, Busy, Looking, Removing, Undoing, Moving
  <1>2. CASE \E q \in Requests : Begins(q)
    <2>1. PICK q \in Requests : Begins(q)
      BY <1>2
    <2>2. q # d
      BY <1>1, <2>1 DEF Begins, BeginDelete, BeginUndo, BeginMove
    <2> QED
      BY <1>1, <2>1, <2>2 DEF Begins, BeginDelete, BeginUndo, BeginMove
  <1>3. CASE \E q \in Requests : OwnStep(q)
    <2>1. PICK q \in Requests : OwnStep(q)
      BY <1>3
    <2>2. q # d /\ pc'[d] = pc[d] /\ before' = before
      BY <1>1, <2>1, OwnActs
    <2>3. CASE q \in Deletes /\ DeleteStep(q)
      BY <1>1, <2>2, <2>3 DEF DeleteStep, LookUpRows, LookUpFiles, NothingFound, BackUpFile,
            RemoveFile, VanishedFile, WriteManifest, Deleted, PutBackDone, DeleteRow, PutBackRow
    <2>4. CASE q \in Undos /\ UndoStep(q)
      BY <1>1, <2>2, <2>4 DEF UndoStep, TruncateFile, RestoreRow, FillFile, Undone
    <2>5. CASE q \in Moves /\ MoveStep(q)
      BY <1>1, <2>2, <2>5 DEF MoveStep, LookUpRows, LookUpFiles, NothingFound, CopyRest, UpdateRow,
            MovedFileGone, RenameFile, WriteHint
    <2>6. CASE StepFails(q)
      BY <1>1, <2>2, <2>6 DEF StepFails
    <2> QED
      BY <2>1, <2>3, <2>4, <2>5, <2>6 DEF OwnStep
  <1>4. CASE \E e \in Deletes, p \in Procs : DeleteInProgress(e, p)
    BY <1>1, <1>4 DEF DeleteInProgress
  <1>5. CASE \E p \in Procs : Crash(p)
    BY <1>1, <1>5 DEF Crash
  <1>6. CASE \E f \in Files, l \in Lines : AppAppends(f, l)
    BY <1>6 DEF AppAppends
  <1>7. CASE UNCHANGED vars
    BY <1>7
  <1> QED
    BY <1>2, <1>3, <1>4, <1>5, <1>6, <1>7, WhoActs

\* A request answers in a step of its own.
LEMMA WhoAnswers ==
  ASSUME IInv, [Next]_vars, NEW r \in Requests, pc'[r] # pc[r],
         pc'[r] \in {"local_deleted", "ok", "moved", "failedWithToken"}
  PROVE  /\ pc'[r] = "local_deleted" => Deleted(r)
         /\ pc'[r] = "ok" => r \in Undos /\ Undone(r)
         /\ pc'[r] = "moved" => r \in Moves /\ WriteHint(r)
         /\ pc'[r] = "failedWithToken" =>
               r \in Deletes /\ (PutBackDone(r) \/ (pc[r] = "putBack" /\ StepFails(r)))
  <1> USE ConstantsAssumption DEF IInv, TypeOK, Goto, Loop, Treated, Answer
  <1>2. CASE \E q \in Requests : Begins(q)
    BY <1>2 DEF Begins, BeginDelete, BeginUndo, BeginMove
  <1>3. CASE \E q \in Requests : OwnStep(q)
    <2>1. OwnStep(r)
      BY <1>3, OwnActs
    <2>2. r \in Active
      BY <2>1, OwnActs
    <2>3. CASE r \in Deletes /\ DeleteStep(r)
      BY <2>3 DEF DeleteStep, LookUpRows, LookUpFiles, NothingFound, BackUpFile,
            RemoveFile, VanishedFile, WriteManifest, Deleted, PutBackDone, DeleteRow, PutBackRow
    <2>4. CASE r \in Undos /\ UndoStep(r)
      BY <2>4 DEF UndoStep, TruncateFile, RestoreRow, FillFile, Undone
    <2>5. CASE r \in Moves /\ MoveStep(r)
      BY <2>5 DEF MoveStep, LookUpRows, LookUpFiles, NothingFound, CopyRest, UpdateRow,
            MovedFileGone, RenameFile, WriteHint
    <2>6. CASE StepFails(r)
      <3>1. pc'[r] = "failedWithToken" /\ pc[r] = "putBack"
        BY <2>6 DEF StepFails
      <3>2. r \in Deletes
        BY <3>1 DEF Known, Requests, Looking, Undoing, Moving
      <3> QED
        BY <2>6, <3>1, <3>2
    <2> QED
      BY <2>1, <2>3, <2>4, <2>5, <2>6 DEF OwnStep
  <1>4. CASE \E e \in Deletes, p \in Procs : DeleteInProgress(e, p)
    BY <1>4 DEF DeleteInProgress
  <1>5. CASE \E p \in Procs : Crash(p)
    BY <1>5 DEF Crash
  <1>6. CASE \E f \in Files, l \in Lines : AppAppends(f, l)
    BY <1>6 DEF AppAppends
  <1>7. CASE UNCHANGED vars
    BY <1>7 DEF vars
  <1> QED
    BY <1>2, <1>3, <1>4, <1>5, <1>6, <1>7, WhoActs

-----------------------------------------------------------------------------
\* The rows a lookup passes over are none of a threads table.
LEMMA FoundFacts ==
  ASSUME NEW table, NEW p \in Places
  PROVE  /\ FoundIn(table, p) \in {Gone, table[p]}
         /\ p \in Threads => FoundIn(table, p) = table[p]
         /\ FoundIn(table, p) = Gone => table[p] = Gone \/ Hidden(table, p)
         /\ (\A q \in Threads : table[q] = Gone) => FoundIn(table, p) = table[p]
  BY DEF FoundIn, Hidden, Threads

\* A row that a deletion deletes is one it found, or there was none.
LEMMA TablesFound ==
  ASSUME NEW d \in Deletes, FoundAll(d), NEW p \in Places
  PROVE  /\ p \in Tables(d) => before[d].rows[p] = Gone \/ foundRows[d][p] # Gone
         /\ p \notin Tables(d) => before[d].rows[p] = Gone \/ Hidden(before[d].rows, p)
         /\ p \notin Tables(d) => foundRows[d][p] = Gone
         /\ foundRows[d][p] # Gone => foundRows[d][p] = before[d].rows[p]
  BY FoundFacts DEF FoundAll, Tables, Threads

\* What overlapped stays so.
LEMMA OverlapsGrow ==
  ASSUME IInv, [Next]_vars
  PROVE  overlapped \subseteq overlapped'
  <1> USE DEF IInv
  <1>1. \A r \in Requests : Begins(r) \/ OwnStep(r) => overlapped \subseteq overlapped'
    BY BeginOverlaps, OwnActs
  <1>2. \A d \in Deletes, p \in Procs : DeleteInProgress(d, p) => overlapped' = overlapped
    BY DEF DeleteInProgress, history
  <1>3. \A p \in Procs : Crash(p) => overlapped' = overlapped
    BY DEF Crash, history
  <1>4. \A f \in Files, l \in Lines : AppAppends(f, l) => overlapped \subseteq overlapped'
    BY DEF AppAppends
  <1>5. UNCHANGED vars => overlapped' = overlapped
    BY DEF vars, history
  <1> QED
    BY <1>1, <1>2, <1>3, <1>4, <1>5, WhoActs

\* What a lone deletion has found, copied and deleted follows from what there
\* was when it began.
LEMMA NextDeletesAlone ==
  ASSUME IInv, AloneIInv, [Next]_vars, NEW d \in Deletes \ overlapped'
  PROVE  DeletesAlone(d)'
  <1> USE ConstantsAssumption DEF IInv, TypeOK, Goto, Loop, Treated, Answer, store, backup, copying, history
  <1>0. /\ d \in Requests /\ d \in Deletes /\ d \notin Undos \cup Moves
        /\ pc' \in [Requests -> Locations] /\ todo' \in [Requests -> SUBSET (Places \cup Files)]
    BY NextTypeOK DEF Requests
  <1>1. CASE pc'[d] \in Busy /\ Begins(d)
    <2>1. PICK p \in Procs : BeginDelete(d, p)
      BY <1>0, <1>1 DEF Begins
    <2>2. pc'[d] = "rows" /\ before'[d] = [rows |-> rows, files |-> files] /\ rows' = rows /\ files' = files
      BY <1>0, <2>1 DEF BeginDelete
    <2> QED
      BY <2>2 DEF DeletesAlone
  <1>2. CASE pc'[d] \in Busy /\ pc[d] \in Busy /\ d \notin overlapped /\ Idle(d)
    <2>1. DeletesAlone(d)
      BY <1>2 DEF AloneIInv
    <2> QED
      BY <1>2, <2>1 DEF DeletesAlone, Idle, FoundAll, CopiesSoFar, CopiedAll, RowsSoFar, FilesSoFar, Tables
  <1>3. CASE d \notin overlapped /\ OwnStep(d)
    <2>0. DeletesAlone(d) /\ before' = before
      BY <1>0, <1>3, OwnActs DEF AloneIInv
    <2>1. CASE LookUpRows(d)
      <3>1. /\ pc[d] = "rows" /\ pc'[d] = "walk" /\ rows' = rows /\ files' = files
            /\ \A p \in Places : foundRows'[d][p] = FoundIn(rows, p)
        BY <1>0, <2>1 DEF LookUpRows
      <3> QED
        BY <2>0, <3>1 DEF DeletesAlone, FoundAll
    <2>2. CASE LookUpFiles(d)
      <3>1. /\ pc[d] = "walk" /\ pc'[d] = "copy" /\ rows' = rows /\ files' = files
            /\ foundRows' = foundRows /\ copies' = copies
            /\ todo'[d] = {f \in Files : Heads[f] # Gone}
        BY <1>0, <2>2 DEF LookUpFiles
      <3>2. \A f \in Files : Heads[f] # Gone <=> ~Absent(files[f])
        BY DEF Heads, Readable, Absent, Bodies, Contents
      <3>3. \A f \in Files : copies[d][f] = Gone
        BY <3>1 DEF Prepared
      <3>4. rows = before[d].rows /\ files = before[d].files /\ FoundAll(d)
        BY <2>0, <3>1 DEF DeletesAlone
      <3>5. FoundAll(d)'
        BY <2>0, <3>1, <3>4 DEF FoundAll
      <3>6. CopiesSoFar(d)' /\ todo'[d] \subseteq {f \in Files : ~Absent(files'[f])}
        BY <2>0, <3>1, <3>2, <3>3, <3>4 DEF CopiesSoFar
      <3> QED
        BY <2>0, <3>1, <3>4, <3>5, <3>6 DEF DeletesAlone
    <2>3. ASSUME NEW f \in Files, BackUpFile(d, f) PROVE DeletesAlone(d)'
      <3>1. /\ pc[d] = "copy" /\ pc'[d] = "copy" /\ rows' = rows /\ files' = files
            /\ foundRows' = foundRows /\ f \in todo[d] /\ todo'[d] = todo[d] \ {f}
            /\ copies'[d][f] = files[f] /\ \A g \in Files \ {f} : copies'[d][g] = copies[d][g]
        BY <1>0, <2>3 DEF BackUpFile, Bodies
      <3>2. /\ rows = before[d].rows /\ files = before[d].files /\ FoundAll(d) /\ CopiesSoFar(d)
            /\ todo[d] \subseteq {g \in Files : ~Absent(files[g])}
        BY <2>0, <3>1 DEF DeletesAlone
      <3>3. FoundAll(d)'
        BY <2>0, <3>1, <3>2 DEF FoundAll
      <3>4. CopiesSoFar(d)'
        BY <2>0, <3>1, <3>2 DEF CopiesSoFar
      <3> QED
        BY <2>0, <3>1, <3>2, <3>3, <3>4 DEF DeletesAlone
    <2>4. CASE WriteManifest(d)
      <3>1. /\ pc[d] = "copy" /\ pc'[d] = "delete" /\ rows' = rows /\ files' = files
            /\ foundRows' = foundRows /\ copies' = copies /\ todo[d] = {}
            /\ todo'[d] = Tables(d) \cup {f \in Files : copies[d][f] # Gone}
        BY <1>0, <2>4 DEF WriteManifest
      <3>2. rows = before[d].rows /\ files = before[d].files /\ FoundAll(d) /\ CopiesSoFar(d)
        BY <2>0, <3>1 DEF DeletesAlone
      <3>3. FoundAll(d)'
        BY <2>0, <3>1, <3>2 DEF FoundAll
      <3>4. CopiedAll(d)'
        BY <2>0, <3>1, <3>2 DEF CopiesSoFar, CopiedAll
      <3>5. Tables(d)' = Tables(d)
        BY <3>1 DEF Tables
      <3>6. RowsSoFar(d)'
        BY <2>0, <3>1, <3>2, <3>5 DEF RowsSoFar
      <3>7. FilesSoFar(d)'
        BY <2>0, <3>1, <3>2 DEF CopiesSoFar, FilesSoFar, Absent
      <3> QED
        BY <3>1, <3>3, <3>4, <3>6, <3>7 DEF DeletesAlone
    <2>5. ASSUME NEW p \in Places, DeleteRow(d, p) PROVE DeletesAlone(d)'
      <3>1. /\ pc[d] = "delete" /\ pc'[d] = "delete" /\ files' = files
            /\ foundRows' = foundRows /\ copies' = copies
            /\ p \in todo[d] /\ todo'[d] = todo[d] \ {p}
            /\ rows'[p] = Gone /\ \A q \in Places \ {p} : rows'[q] = rows[q]
        BY <1>0, <2>5 DEF DeleteRow, Rows
      <3>2. FoundAll(d) /\ CopiedAll(d) /\ RowsSoFar(d) /\ FilesSoFar(d)
        BY <2>0, <3>1 DEF DeletesAlone
      <3>3. FoundAll(d)' /\ CopiedAll(d)'
        BY <2>0, <3>1, <3>2 DEF FoundAll, CopiedAll
      <3>4. Tables(d)' = Tables(d)
        BY <3>1 DEF Tables
      <3>5. RowsSoFar(d)'
        BY <2>0, <3>1, <3>2, <3>4 DEF RowsSoFar
      <3>6. FilesSoFar(d)'
        BY <2>0, <3>1, <3>2 DEF FilesSoFar
      <3> QED
        BY <3>1, <3>3, <3>5, <3>6 DEF DeletesAlone
    <2>6. ASSUME NEW f \in Files, RemoveFile(d, f) PROVE DeletesAlone(d)'
      <3>1. /\ pc[d] = "delete" /\ pc'[d] = "delete" /\ rows' = rows
            /\ foundRows' = foundRows /\ copies' = copies
            /\ f \in todo[d] /\ todo'[d] = todo[d] \ {f}
            /\ files'[f] = Gone /\ \A g \in Files \ {f} : files'[g] = files[g]
        BY <1>0, <2>6 DEF RemoveFile, Bodies
      <3>2. FoundAll(d) /\ CopiedAll(d) /\ RowsSoFar(d) /\ FilesSoFar(d)
        BY <2>0, <3>1 DEF DeletesAlone
      <3>3. FoundAll(d)' /\ CopiedAll(d)'
        BY <2>0, <3>1, <3>2 DEF FoundAll, CopiedAll
      <3>4. Tables(d)' = Tables(d)
        BY <3>1 DEF Tables
      <3>5. RowsSoFar(d)'
        BY <2>0, <3>1, <3>2, <3>4 DEF RowsSoFar
      <3>6. ~Absent(before[d].files[f])
        BY <3>1, <3>2 DEF Prepared, CopiedAll
      <3>7. FilesSoFar(d)'
        BY <2>0, <3>1, <3>2, <3>6 DEF FilesSoFar
      <3> QED
        BY <3>1, <3>3, <3>5, <3>7 DEF DeletesAlone
    <2>7. CASE Deleted(d)
      <3>1. /\ pc[d] = "delete" /\ pc'[d] = "local_deleted"
            /\ foundRows' = foundRows /\ copies' = copies
        BY <1>0, <2>7 DEF Deleted
      <3>2. FoundAll(d) /\ CopiedAll(d)
        BY <2>0, <3>1 DEF DeletesAlone
      <3>3. FoundAll(d)' /\ CopiedAll(d)'
        BY <2>0, <3>1, <3>2 DEF FoundAll, CopiedAll
      <3> QED
        BY <3>1, <3>3 DEF DeletesAlone
    <2>8. ASSUME NEW p \in Places, PutBackRow(d, p) PROVE DeletesAlone(d)'
      <3>1. /\ pc[d] = "putBack" /\ pc'[d] = "putBack" /\ faults' = faults
            /\ foundRows' = foundRows /\ copies' = copies
            /\ p \in todo[d] /\ todo'[d] = todo[d] \ {p}
            /\ rows'[p] = foundRows[d][p] /\ \A q \in Places \ {p} : rows'[q] = rows[q]
        BY <1>0, <2>8 DEF PutBackRow, Rows
      <3>2. /\ FoundAll(d) /\ CopiedAll(d)
            /\ faults > 0 /\ todo[d] \subseteq {q \in Places : foundRows[d][q] # Gone}
            /\ \A q \in Places \ todo[d] : rows[q] = before[d].rows[q]
        BY <2>0, <3>1 DEF DeletesAlone
      <3>3. FoundAll(d)' /\ CopiedAll(d)'
        BY <2>0, <3>1, <3>2 DEF FoundAll, CopiedAll
      <3>4. rows'[p] = before[d].rows[p]
        BY <1>0, <3>1, <3>2, TablesFound
      <3>5. \A q \in Places \ todo'[d] : rows'[q] = before'[d].rows[q]
        BY <2>0, <3>1, <3>2, <3>4
      <3> QED
        BY <3>1, <3>2, <3>3, <3>5 DEF DeletesAlone
    <2>9. CASE StepFails(d)
      <3>1. CASE pc[d] = "delete" /\ todo[d] \subseteq Files
        <4>1. /\ pc'[d] = "putBack" /\ faults' = faults + 1 /\ rows' = rows
              /\ foundRows' = foundRows /\ copies' = copies
              /\ todo'[d] = {p \in Places : foundRows[d][p] # Gone}
          BY <1>0, <2>9, <3>1 DEF StepFails, PutBack, Fault
        <4>2. FoundAll(d) /\ CopiedAll(d) /\ RowsSoFar(d)
          BY <2>0, <3>1 DEF DeletesAlone
        <4>3. FoundAll(d)' /\ CopiedAll(d)'
          BY <2>0, <4>1, <4>2 DEF FoundAll, CopiedAll
        <4>4. ASSUME NEW p \in Places, foundRows[d][p] = Gone PROVE rows[p] = before[d].rows[p]
          <5>1. p \in Tables(d) => before[d].rows[p] = Gone
            BY <1>0, <4>2, <4>4, TablesFound
          <5>2. p \notin todo[d]
            BY <3>1
          <5> QED
            BY <4>2, <5>1, <5>2 DEF RowsSoFar
        <4>5. faults' > 0
          BY <4>1
        <4> QED
          BY <2>0, <4>1, <4>3, <4>4, <4>5 DEF DeletesAlone
      <3>2. CASE ~(pc[d] = "delete" /\ todo[d] \subseteq Files)
        <4>1. pc'[d] \in {"failed", "failedWithToken"}
          BY <1>0, <2>9, <3>2 DEF StepFails
        <4> QED
          BY <4>1 DEF DeletesAlone
      <3> QED
        BY <3>1, <3>2
    <2>10. CASE NothingFound(d) \/ VanishedFile(d) \/ PutBackDone(d)
      <3>1. pc'[d] \in {"failed", "failedWithToken"}
        BY <1>0, <2>10 DEF NothingFound, VanishedFile, PutBackDone
      <3> QED
        BY <3>1 DEF DeletesAlone
    <2> QED
      BY <1>0, <1>3, <2>1, <2>2, <2>3, <2>4, <2>5, <2>6, <2>7, <2>8, <2>9, <2>10 DEF OwnStep, DeleteStep
  <1>4. CASE pc'[d] = "local_deleted" /\ pc[d] = "local_deleted"
    <2>1. FoundAll(d) /\ CopiedAll(d)
      <3>1. d \notin overlapped
        BY OverlapsGrow
      <3> QED
        BY <1>4, <3>1 DEF AloneIInv, DeletesAlone
    <2>2. FoundAll(d)' /\ CopiedAll(d)'
      BY <1>4, <2>1, Settled DEF FoundAll, CopiedAll
    <2> QED
      BY <1>4, <2>2 DEF DeletesAlone
  <1>5. CASE pc'[d] = "local_deleted" /\ pc[d] # "local_deleted"
    <2>1. Deleted(d) /\ d \notin overlapped
      BY <1>0, <1>5, WhoAnswers, OverlapsGrow
    <2>2. OwnStep(d)
      BY <1>0, <2>1 DEF OwnStep, DeleteStep
    <2> QED
      BY <1>3, <2>1, <2>2
  <1>6. CASE pc'[d] \notin Busy \cup {"local_deleted"}
    BY <1>6 DEF DeletesAlone, Busy, Looking, Removing
  <1> QED
    BY <1>0, <1>1, <1>2, <1>3, <1>4, <1>5, <1>6, AloneActs DEF AloneIInv

\* A move that runs alone leaves behind what it has moved.
LEMMA NextMovesAlone ==
  ASSUME IInv, AloneIInv, [Next]_vars, NEW m \in Moves \ overlapped'
  PROVE  MovesAlone(m)'
  <1> USE ConstantsAssumption DEF IInv, TypeOK, Goto, Loop, Treated, Answer, store, backup, copying, history
  <1>0. /\ m \in Requests /\ m \in Moves /\ m \notin Undos \cup Deletes
        /\ pc' \in [Requests -> Locations] /\ todo' \in [Requests -> SUBSET (Places \cup Files)]
        /\ Threads \subseteq Places
    BY NextTypeOK DEF Requests, Threads
  <1>1. CASE pc'[m] \in Busy /\ Begins(m)
    <2>1. pc'[m] = "rows"
      BY <1>0, <1>1 DEF Begins, BeginMove
    <2> QED
      BY <2>1 DEF MovesAlone, Moving
  <1>2. CASE pc'[m] \in Busy /\ pc[m] \in Busy /\ m \notin overlapped /\ Idle(m)
    <2>1. MovesAlone(m)
      BY <1>2 DEF AloneIInv
    <2> QED
      BY <1>2, <2>1 DEF MovesAlone, Idle, Readable
  <1>3. CASE pc'[m] \in Busy /\ m \notin overlapped /\ OwnStep(m)
    <2>0. /\ MovesAlone(m) /\ arg' = arg
      BY <1>0, <1>3, OwnActs DEF AloneIInv
    <2>1. CASE LookUpRows(m)
      <3>1. /\ pc'[m] = "walk" /\ rows' = rows
            /\ \A p \in Places : foundRows'[m][p] = FoundIn(rows, p)
        BY <1>0, <2>1 DEF LookUpRows
      <3> QED
        BY <3>1 DEF MovesAlone, Moving
    <2>2. CASE LookUpFiles(m)
      <3> SUFFICES ASSUME arg[m] \in Cwds PROVE MovesAlone(m)'
        BY <2>0 DEF MovesAlone
      <3>1. /\ pc[m] = "walk" /\ pc'[m] = "move" /\ rows' = rows /\ files' = files
            /\ todo'[m] = {f \in {g \in Files : Heads[g] # Gone} : Heads[f] # arg[m]} \cup MovedTables(m)
        BY <1>0, <2>2 DEF LookUpFiles
      <3>2. \A p \in Places : foundRows[m][p] = FoundIn(rows, p)
        BY <2>0, <3>1 DEF MovesAlone
      <3>3. \A p \in Threads \ MovedTables(m) : rows[p] = Gone
        BY <1>0, <3>2, FoundFacts DEF MovedTables
      <3>4. \A f \in Files \ todo'[m] : Readable(f) => files[f].cwd = arg[m]
        <4>1. \A f \in Files : Readable(f) => Heads[f] = files[f].cwd /\ Heads[f] # Gone
          BY DEF Heads, Readable, Bodies, Contents
        <4> QED
          BY <3>1, <4>1
      <3> QED
        BY <2>0, <3>1, <3>3, <3>4 DEF MovesAlone, Readable
    <2>3. ASSUME NEW f \in Files, CopyRest(m, f) PROVE MovesAlone(m)'
      <3>1. /\ pc[m] = "move" /\ pc'[m] = "rename" /\ rows' = rows /\ files' = files /\ todo' = todo
        BY <1>0, <2>3 DEF CopyRest
      <3> QED
        BY <2>0, <3>1 DEF MovesAlone, Readable, Moving
    <2>4. CASE RenameFile(m)
      <3>0. open[m] \in Files
        BY <1>0, <2>4 DEF RenameFile, Known
      <3>1. /\ pc[m] = "rename" /\ pc'[m] = "move" /\ rows' = rows
            /\ todo'[m] = todo[m] \ {open[m]}
            /\ files'[open[m]] = [cwd |-> arg[m], lines |-> rest[m]]
            /\ \A g \in Files \ {open[m]} : files'[g] = files[g]
        BY <1>0, <2>4, <3>0 DEF RenameFile, Bodies
      <3>2. files'[open[m]].cwd = arg[m]
        BY <3>1
      <3>3. open[m] \notin Threads
        BY <1>0, <3>0
      <3> QED
        BY <2>0, <3>0, <3>1, <3>2, <3>3 DEF MovesAlone, Readable, Moving
    <2>5. ASSUME NEW p \in Places, UpdateRow(m, p) PROVE MovesAlone(m)'
      <3>1. /\ pc[m] = "move" /\ pc'[m] = "move" /\ files' = files
            /\ todo'[m] = todo[m] \ {p}
            /\ rows'[p] \in {Gone, arg[m]} /\ \A q \in Places \ {p} : rows'[q] = rows[q]
        BY <1>0, <2>5 DEF UpdateRow, Rows
      <3>2. p \notin Files
        OBVIOUS
      <3> QED
        BY <1>0, <2>0, <3>1, <3>2 DEF MovesAlone, Readable, Moving
    <2>6. CASE NothingFound(m) \/ MovedFileGone(m) \/ WriteHint(m) \/ StepFails(m)
      <3>1. pc[m] # "delete"
        BY <1>0 DEF Known, Looking, Moving
      <3>2. pc'[m] \in {"failed", "failedWithToken", "moved"}
        BY <1>0, <2>6, <3>1 DEF NothingFound, MovedFileGone, WriteHint, StepFails
      <3> QED
        BY <3>2 DEF MovesAlone, Moving
    <2> QED
      BY <1>0, <1>3, <2>1, <2>2, <2>3, <2>4, <2>5, <2>6 DEF OwnStep, MoveStep
  <1>4. CASE pc'[m] \notin Busy
    BY <1>4 DEF MovesAlone, Busy, Looking, Moving
  <1> QED
    BY <1>0, <1>1, <1>2, <1>3, <1>4, AloneActs DEF AloneIInv

\* What a step does with an undo.
LEMMA UndoActs ==
  ASSUME IInv, [Next]_vars, NEW u \in Undos, pc'[u] \in Undoing
  PROVE  \/ \E d \in Deletes : BeginUndo(u, d)
         \/ /\ pc[u] \in Undoing
            /\ \/ \E f \in Files : TruncateFile(u, f)
               \/ \E p \in Places : RestoreRow(u, p)
               \/ FillFile(u)
               \/ /\ pc'[u] = pc[u] /\ todo'[u] = todo[u]
                  /\ open'[u] = open[u] /\ arg'[u] = arg[u]
  <1> USE ConstantsAssumption DEF IInv, TypeOK, Goto, Loop, Treated, Answer, copying, Undoing
  <1>0. u \in Requests /\ u \notin Deletes \cup Moves
    BY DEF Requests
  <1>1. CASE \E q \in Requests : Begins(q)
    BY <1>0, <1>1 DEF Begins, BeginDelete, BeginUndo, BeginMove
  <1>2. CASE OwnStep(u)
    <2>1. CASE StepFails(u)
      BY <1>0, <2>1 DEF StepFails, Known
    <2>2. CASE Undone(u)
      BY <1>0, <2>2 DEF Undone
    <2> QED
      BY <1>0, <1>2, <2>1, <2>2 DEF OwnStep, UndoStep, TruncateFile, RestoreRow, FillFile
  <1>3. CASE \E q \in Requests \ {u} : OwnStep(q)
    <2>1. PICK q \in Requests \ {u} : OwnStep(q)
      BY <1>3
    <2>2. pc'[u] = pc[u] /\ arg' = arg
      BY <1>0, <2>1, OwnActs
    <2>3. todo'[u] = todo[u] /\ open'[u] = open[u]
      <3>1. CASE q \in Deletes /\ DeleteStep(q)
        BY <1>0, <2>1, <3>1 DEF DeleteStep, LookUpRows, LookUpFiles, NothingFound, BackUpFile,
              RemoveFile, VanishedFile, WriteManifest, Deleted, PutBackDone, DeleteRow, PutBackRow
      <3>2. CASE q \in Undos /\ UndoStep(q)
        BY <1>0, <2>1, <3>2 DEF UndoStep, TruncateFile, RestoreRow, FillFile, Undone
      <3>3. CASE q \in Moves /\ MoveStep(q)
        BY <1>0, <2>1, <3>3 DEF MoveStep, LookUpRows, LookUpFiles, NothingFound, CopyRest, UpdateRow,
              MovedFileGone, RenameFile, WriteHint
      <3>4. CASE StepFails(q)
        BY <1>0, <2>1, <3>4 DEF StepFails
      <3> QED
        BY <2>1, <3>1, <3>2, <3>3, <3>4 DEF OwnStep
    <2> QED
      BY <2>2, <2>3
  <1>4. CASE \E e \in Deletes, p \in Procs : DeleteInProgress(e, p)
    BY <1>0, <1>4 DEF DeleteInProgress
  <1>5. CASE \E p \in Procs : Crash(p)
    BY <1>0, <1>5 DEF Crash
  <1>6. CASE \E f \in Files, l \in Lines : AppAppends(f, l)
    BY <1>6 DEF AppAppends
  <1>7. CASE UNCHANGED vars
    BY <1>7 DEF vars
  <1> QED
    BY <1>1, <1>2, <1>3, <1>4, <1>5, <1>6, <1>7, WhoActs

\* An undo works on what is in its backup.
LEMMA NextUndoAims ==
  ASSUME IInv, AloneIInv, [Next]_vars, NEW u \in Undos
  PROVE  UndoAims(u)'
  <1> USE ConstantsAssumption DEF IInv, TypeOK, Goto, Loop, Treated, copying
  <1> SUFFICES ASSUME pc'[u] \in Undoing
               PROVE  /\ arg'[u] \in Deletes /\ pc'[arg'[u]] = "local_deleted"
                      /\ \A f \in todo'[u] \cap Files : copies'[arg'[u]][f] # Gone
                      /\ \A p \in todo'[u] \cap Places : foundRows'[arg'[u]][p] # Gone
                      /\ pc'[u] = "fill" => open'[u] \in todo'[u] \cap Files
    BY DEF UndoAims
  <1>0. u \in Requests /\ todo' \in [Requests -> SUBSET (Places \cup Files)]
    BY NextTypeOK DEF Requests
  <1>1. CASE \E d \in Deletes : BeginUndo(u, d)
    <2>1. PICK d \in Deletes : BeginUndo(u, d)
      BY <1>1
    <2>2. /\ arg'[u] = d /\ d # u /\ pc[d] = "local_deleted" /\ d \in Requests
          /\ copies' = copies /\ foundRows' = foundRows
      BY <1>0, <2>1 DEF BeginUndo, Offered, backup, Requests
    <2>3. /\ pc'[u] = "restore" /\ pc'[d] = pc[d]
          /\ todo'[u] = {f \in Files : copies[d][f] # Gone} \cup {p \in Places : foundRows[d][p] # Gone}
      <3>1. Authorised(d)
        BY <1>0, <2>1 DEF BeginUndo, Undoing
      <3> QED
        BY <1>0, <2>1, <2>2, <3>1 DEF BeginUndo
    <2> QED
      BY <2>2, <2>3
  <1>2. CASE pc[u] \in Undoing
    <2>1. /\ arg[u] \in Deletes /\ pc[arg[u]] = "local_deleted"
          /\ \A f \in todo[u] \cap Files : copies[arg[u]][f] # Gone
          /\ \A p \in todo[u] \cap Places : foundRows[arg[u]][p] # Gone
          /\ pc[u] = "fill" => open[u] \in todo[u] \cap Files
      BY <1>2 DEF AloneIInv, UndoAims
    <2>2. /\ pc'[arg[u]] = "local_deleted" /\ copies'[arg[u]] = copies[arg[u]]
          /\ foundRows'[arg[u]] = foundRows[arg[u]]
      BY <2>1, Settled
    <2>3. /\ arg'[u] = arg[u] /\ todo'[u] \subseteq todo[u]
          /\ pc'[u] = "fill" => open'[u] \in todo'[u] \cap Files
      <3>1. CASE \E f \in Files : TruncateFile(u, f)
        BY <1>0, <3>1 DEF TruncateFile
      <3>2. CASE \E p \in Places : RestoreRow(u, p)
        BY <1>0, <3>2 DEF RestoreRow
      <3>3. CASE FillFile(u)
        BY <1>0, <3>3 DEF FillFile
      <3>4. CASE \E d \in Deletes : BeginUndo(u, d)
        BY <1>2, <3>4 DEF BeginUndo, Undoing
      <3> QED
        BY <2>1, <3>1, <3>2, <3>3, <3>4, UndoActs
    <2> QED
      BY <2>1, <2>2, <2>3
  <1> QED
    BY <1>1, <1>2, UndoActs

\* An undo that runs alone leaves behind what it has restored.
LEMMA NextUndoesAlone ==
  ASSUME IInv, AloneIInv, [Next]_vars, NEW u \in Undos \ overlapped'
  PROVE  UndoesAlone(u)'
  <1> USE ConstantsAssumption DEF IInv, TypeOK, Goto, Loop, Treated, copying, backup
  <1> SUFFICES ASSUME pc'[u] \in Undoing
               PROVE  /\ \A f \in Files \ todo'[u] :
                            copies'[arg'[u]][f] # Gone => files'[f] = copies'[arg'[u]][f]
                      /\ \A p \in Places \ todo'[u] :
                            foundRows'[arg'[u]][p] # Gone => rows'[p] = foundRows'[arg'[u]][p]
                      /\ pc'[u] = "fill" => files'[open'[u]] = Torn
    BY DEF UndoesAlone
  <1>0. /\ u \in Requests /\ u \notin overlapped /\ pc'[u] \in Busy
        /\ todo' \in [Requests -> SUBSET (Places \cup Files)]
    BY NextTypeOK, OverlapsGrow DEF Requests, Busy
  <1>1. CASE \E d \in Deletes : BeginUndo(u, d)
    <2>1. PICK d \in Deletes : BeginUndo(u, d)
      BY <1>1
    <2>2. arg'[u] = d /\ copies' = copies /\ foundRows' = foundRows /\ Authorised(d)
      BY <1>0, <2>1 DEF BeginUndo, Undoing
    <2>3. /\ pc'[u] = "restore"
          /\ todo'[u] = {f \in Files : copies[d][f] # Gone} \cup {p \in Places : foundRows[d][p] # Gone}
      BY <1>0, <2>1, <2>2 DEF BeginUndo
    <2> QED
      BY <2>2, <2>3
  <1>2. CASE pc[u] \in Undoing /\ pc[u] \in Busy
    <2>1. /\ \A f \in Files \ todo[u] :
                copies[arg[u]][f] # Gone => files[f] = copies[arg[u]][f]
          /\ \A p \in Places \ todo[u] :
                foundRows[arg[u]][p] # Gone => rows[p] = foundRows[arg[u]][p]
          /\ pc[u] = "fill" => files[open[u]] = Torn
      BY <1>0, <1>2 DEF AloneIInv, UndoesAlone
    <2>2. pc[u] = "fill" => open[u] \in todo[u] \cap Files
      BY <1>2 DEF AloneIInv, UndoAims
    <2>3. CASE \E f \in Files : TruncateFile(u, f)
      <3>1. PICK f \in Files : TruncateFile(u, f)
        BY <2>3
      <3>2. /\ f \in todo[u] /\ todo' = todo /\ arg' = arg /\ rows' = rows /\ open'[u] = f
            /\ copies' = copies /\ foundRows' = foundRows
            /\ files'[f] = Torn /\ \A g \in Files \ {f} : files'[g] = files[g]
        BY <1>0, <3>1 DEF TruncateFile, Bodies
      <3> QED
        BY <2>1, <3>2
    <2>4. CASE \E p \in Places : RestoreRow(u, p)
      <3>1. PICK p \in Places : RestoreRow(u, p)
        BY <2>4
      <3>2. /\ todo'[u] = todo[u] \ {p} /\ arg' = arg /\ files' = files /\ pc'[u] = "restore"
            /\ copies' = copies /\ foundRows' = foundRows
            /\ rows'[p] = foundRows[arg[u]][p] /\ \A q \in Places \ {p} : rows'[q] = rows[q]
        BY <1>0, <3>1 DEF RestoreRow, Rows
      <3>3. p \notin Files
        OBVIOUS
      <3> QED
        BY <2>1, <3>2, <3>3
    <2>5. CASE FillFile(u)
      <3>1. /\ todo'[u] = todo[u] \ {open[u]} /\ arg' = arg /\ rows' = rows /\ pc'[u] = "restore"
            /\ copies' = copies /\ foundRows' = foundRows /\ open[u] \in Files
            /\ files'[open[u]] = copies[arg[u]][open[u]]
            /\ \A g \in Files \ {open[u]} : files'[g] = files[g]
        BY <1>0, <2>1, <2>2, <2>5 DEF FillFile, Bodies
      <3>2. open[u] \notin Places
        BY <3>1
      <3> QED
        BY <2>1, <3>1, <3>2
    <2>6. CASE Idle(u)
      BY <2>1, <2>6 DEF Idle
    <2>7. CASE Undone(u) \/ StepFails(u)
      <3>1. pc[u] # "delete"
        BY <1>2 DEF Undoing
      <3>2. pc'[u] \in {"ok", "failed", "failedWithToken"}
        BY <1>0, <2>7, <3>1 DEF Undone, StepFails, Answer
      <3> QED
        BY <3>2 DEF Undoing
    <2>8. OwnStep(u) \/ Idle(u)
      BY <1>0, <1>2, AloneActs DEF AloneIInv, Active
    <2> QED
      BY <1>0, <2>3, <2>4, <2>5, <2>6, <2>7, <2>8 DEF OwnStep, UndoStep
  <1> QED
    BY <1>1, <1>2, UndoActs DEF Busy

\* Which steps change rows or files.
LEMMA WhoWrites ==
  ASSUME IInv, [Next]_vars
  PROVE  \/ rows' = rows /\ files' = files
         \/ \E r \in Deletes \cup Moves : OwnStep(r)
         \/ \E u \in Undos, f \in Files : TruncateFile(u, f)
         \/ \E u \in Undos : FillFile(u)
         \/ \E u \in Undos, p \in Places : RestoreRow(u, p)
         \/ \E f \in Files, l \in Lines : AppAppends(f, l)
  <1> USE DEF store
  <1>1. \A r \in Requests : Begins(r) => rows' = rows /\ files' = files
    BY DEF Begins, BeginDelete, BeginUndo, BeginMove
  <1>2. \A u \in Undos : Undone(u) \/ StepFails(u) => rows' = rows /\ files' = files
    BY DEF Undone, StepFails
  <1>3. \A d \in Deletes, p \in Procs : DeleteInProgress(d, p) => rows' = rows /\ files' = files
    BY DEF DeleteInProgress
  <1>4. \A p \in Procs : Crash(p) => rows' = rows /\ files' = files
    BY DEF Crash
  <1>5. UNCHANGED vars => rows' = rows /\ files' = files
    BY DEF vars
  <1>6. \A r \in Requests :
           OwnStep(r) => \/ r \in Deletes \cup Moves
                         \/ r \in Undos /\ (UndoStep(r) \/ StepFails(r))
    BY DEF OwnStep, Requests
  <1> QED
    BY <1>1, <1>2, <1>3, <1>4, <1>5, <1>6, WhoActs DEF UndoStep

\* A finished deletion that is undisturbed has been so.
LEMMA StaysUndisturbed ==
  ASSUME IInv, [Next]_vars, NEW d \in Deletes, pc[d] = "local_deleted", Undisturbed(d)'
  PROVE  Undisturbed(d)
  <1> USE ConstantsAssumption DEF IInv, TypeOK, Goto, Loop, Treated, Answer, Fault
  <1> SUFFICES ASSUME NEW q \in Requests \ {d}
               PROVE  pc[q] = "new" \/ (q \in Undos /\ arg[q] = d)
    BY DEF Undisturbed
  <1>0. pc'[q] = "new" \/ (q \in Undos /\ arg'[q] = d)
    BY DEF Undisturbed
  <1> SUFFICES ASSUME pc[q] # "new" PROVE pc'[q] # "new" /\ (q \in Undos => arg'[q] = arg[q])
    BY <1>0
  <1>1. CASE \E r \in Requests : Begins(r)
    BY <1>1 DEF Begins, BeginDelete, BeginUndo, BeginMove, Requests
  <1>2. CASE \E r \in Requests : OwnStep(r)
    <2>1. PICK r \in Requests : OwnStep(r)
      BY <1>2
    <2>2. r \in Active /\ arg' = arg /\ (r = q \/ pc'[q] = pc[q])
      BY <2>1, OwnActs
    <2>3. pc'[r] # "new"
      <3>1. CASE r \in Deletes /\ DeleteStep(r)
        BY <2>1, <2>2, <3>1 DEF DeleteStep, LookUpRows, LookUpFiles, NothingFound, BackUpFile,
              RemoveFile, VanishedFile, WriteManifest, Deleted, PutBackDone, DeleteRow, PutBackRow
      <3>2. CASE r \in Undos /\ UndoStep(r)
        BY <2>1, <3>2 DEF UndoStep, TruncateFile, RestoreRow, FillFile, Undone
      <3>3. CASE r \in Moves /\ MoveStep(r)
        BY <2>1, <3>3 DEF MoveStep, LookUpRows, LookUpFiles, NothingFound, CopyRest, UpdateRow,
              MovedFileGone, RenameFile, WriteHint
      <3>4. CASE StepFails(r)
        BY <2>1, <3>4 DEF StepFails
      <3> QED
        BY <2>1, <3>1, <3>2, <3>3, <3>4 DEF OwnStep
    <2> QED
      BY <2>2, <2>3
  <1>3. CASE \E e \in Deletes, p \in Procs : DeleteInProgress(e, p)
    BY <1>3 DEF DeleteInProgress
  <1>4. CASE \E p \in Procs : Crash(p)
    BY <1>4 DEF Crash
  <1>5. CASE \E f \in Files, l \in Lines : AppAppends(f, l)
    BY <1>5 DEF AppAppends
  <1>6. CASE UNCHANGED vars
    BY <1>6 DEF vars
  <1> QED
    BY <1>1, <1>2, <1>3, <1>4, <1>5, <1>6, WhoActs

\* Undos of a deletion leave alone what it had not found.
LEMMA NextRestUntouched ==
  ASSUME IInv, AloneIInv, [Next]_vars, NEW d \in Deletes \ overlapped'
  PROVE  RestUntouched(d)'
  <1> USE ConstantsAssumption DEF IInv, TypeOK, Goto, Loop, Treated, backup, copying
  <1> SUFFICES ASSUME pc'[d] = "local_deleted", Undisturbed(d)'
               PROVE  /\ \A p \in Places :
                            FoundIn(before'[d].rows, p) = Gone => rows'[p] = before'[d].rows[p]
                      /\ \A f \in Files :
                            Absent(before'[d].files[f]) => files'[f] = before'[d].files[f]
    BY DEF RestUntouched
  <1>0. d \in Requests /\ d \in Deletes /\ d \notin overlapped /\ DeletesAlone(d)
    BY OverlapsGrow DEF AloneIInv, Requests
  <1>1. CASE pc[d] # "local_deleted"
    <2>1. Deleted(d)
      BY <1>0, <1>1, WhoAnswers
    <2>2. pc[d] = "delete" /\ todo[d] = {} /\ rows' = rows /\ files' = files /\ before' = before
      BY <2>1 DEF Deleted, store, history
    <2>3. FoundAll(d) /\ RowsSoFar(d) /\ FilesSoFar(d)
      BY <1>0, <2>2 DEF DeletesAlone
    <2>4. \A p \in Places : FoundIn(before[d].rows, p) = Gone => rows[p] = before[d].rows[p]
      BY <1>0, <2>3, TablesFound DEF RowsSoFar, FoundAll
    <2>5. \A f \in Files : Absent(before[d].files[f]) => files[f] = before[d].files[f]
      BY <2>3 DEF FilesSoFar
    <2> QED
      BY <2>2, <2>4, <2>5
  <1>2. CASE pc[d] = "local_deleted"
    <2>1. /\ before'[d] = before[d] /\ Undisturbed(d)
          /\ FoundAll(d) /\ CopiedAll(d)
      BY <1>0, <1>2, Settled, StaysUndisturbed DEF DeletesAlone
    <2>2. /\ \A p \in Places : FoundIn(before[d].rows, p) = Gone => rows[p] = before[d].rows[p]
          /\ \A f \in Files : Absent(before[d].files[f]) => files[f] = before[d].files[f]
      BY <1>0, <1>2, <2>1 DEF AloneIInv, RestUntouched
    <2>3. ASSUME NEW u \in Undos, pc[u] \in Undoing
          PROVE  /\ arg[u] = d
                 /\ \A f \in todo[u] \cap Files : ~Absent(before[d].files[f])
                 /\ \A p \in todo[u] \cap Places : FoundIn(before[d].rows, p) # Gone
                 /\ pc[u] = "fill" => open[u] \in todo[u] \cap Files
      <3>1. arg[u] = d
        BY <1>0, <2>1, <2>3 DEF Undisturbed, Requests, Undoing
      <3>2. UndoAims(u)
        BY DEF AloneIInv
      <3>3. /\ \A f \in todo[u] \cap Files : copies[d][f] # Gone
            /\ \A p \in todo[u] \cap Places : foundRows[d][p] # Gone
            /\ pc[u] = "fill" => open[u] \in todo[u] \cap Files
        BY <2>3, <3>1, <3>2 DEF UndoAims
      <3> QED
        BY <2>1, <3>1, <3>3, ZenonT(60) DEF FoundAll, CopiedAll
    <2>4. ASSUME NEW r \in Deletes \cup Moves, OwnStep(r) PROVE FALSE
      <3>1. r \in Requests /\ r \notin Undos /\ pc[r] \in Busy
        BY <2>4, OwnActs DEF Requests, Active
      <3>2. r # d /\ pc[r] # "new"
        BY <1>2, <3>1 DEF Busy, Looking, Removing, Undoing, Moving
      <3> QED
        BY <2>1, <3>1, <3>2 DEF Undisturbed
    <2>5. ASSUME NEW u \in Undos, NEW f \in Files, TruncateFile(u, f)
          PROVE  /\ rows' = rows /\ ~Absent(before[d].files[f])
                 /\ \A g \in Files \ {f} : files'[g] = files[g]
      BY <2>3, <2>5 DEF TruncateFile, Undoing, Bodies
    <2>6. ASSUME NEW u \in Undos, FillFile(u)
          PROVE  /\ rows' = rows /\ open[u] \in Files /\ ~Absent(before[d].files[open[u]])
                 /\ \A g \in Files \ {open[u]} : files'[g] = files[g]
      BY <2>3, <2>6 DEF FillFile, Undoing, Bodies
    <2>7. ASSUME NEW u \in Undos, NEW p \in Places, RestoreRow(u, p)
          PROVE  /\ files' = files /\ FoundIn(before[d].rows, p) # Gone
                 /\ \A q \in Places \ {p} : rows'[q] = rows[q]
      BY <2>3, <2>7 DEF RestoreRow, Undoing, Rows
    <2>8. ASSUME NEW f \in Files, NEW l \in Lines, AppAppends(f, l)
          PROVE  /\ rows' = rows /\ ~Absent(before[d].files[f])
                 /\ \A g \in Files \ {f} : files'[g] = files[g]
      BY <2>2, <2>8 DEF AppAppends, Readable, Absent, Bodies
    <2>9. CASE rows' = rows /\ files' = files
      BY <2>1, <2>2, <2>9
    <2>10. CASE \E u \in Undos, f \in Files : TruncateFile(u, f)
      BY <2>1, <2>2, <2>5, <2>10
    <2>11. CASE \E u \in Undos : FillFile(u)
      BY <2>1, <2>2, <2>6, <2>11
    <2>12. CASE \E u \in Undos, p \in Places : RestoreRow(u, p)
      BY <2>1, <2>2, <2>7, <2>12
    <2>13. CASE \E f \in Files, l \in Lines : AppAppends(f, l)
      BY <2>1, <2>2, <2>8, <2>13
    <2> QED
      BY <2>4, <2>9, <2>10, <2>11, <2>12, <2>13, WhoWrites
  <1> QED
    BY <1>1, <1>2

-----------------------------------------------------------------------------
\* Nothing runs at the start.
LEMMA InitAlone == Init => AloneIInv
  <1> SUFFICES ASSUME Init PROVE AloneIInv
    OBVIOUS
  <1>1. \A r \in Requests : pc[r] = "new" /\ r \notin Active
    BY DEF Init, Active, Busy, Looking, Removing, Undoing, Moving
  <1>2. Alone
    BY <1>1 DEF Alone, Active
  <1>3. \A d \in Deletes : DeletesAlone(d) /\ RestUntouched(d)
    BY <1>1 DEF DeletesAlone, RestUntouched, Requests
  <1>4. \A m \in Moves : MovesAlone(m)
    BY <1>1 DEF MovesAlone, Requests, Moving
  <1>5. \A u \in Undos : UndoAims(u) /\ UndoesAlone(u)
    BY <1>1 DEF UndoAims, UndoesAlone, Requests, Undoing
  <1> QED
    BY <1>2, <1>3, <1>4, <1>5 DEF AloneIInv

\* The invariant of requests that run alone is inductive.
LEMMA NextAloneIInv == IInv /\ AloneIInv /\ [Next]_vars => AloneIInv'
  <1> SUFFICES ASSUME IInv, AloneIInv, [Next]_vars PROVE AloneIInv'
    OBVIOUS
  <1>1. Alone'
    BY NextAlone DEF AloneIInv
  <1>2. \A d \in Deletes \ overlapped' : DeletesAlone(d)' /\ RestUntouched(d)'
    BY NextDeletesAlone, NextRestUntouched
  <1>3. \A m \in Moves \ overlapped' : MovesAlone(m)'
    BY NextMovesAlone
  <1>4. \A u \in Undos : UndoAims(u)'
    BY NextUndoAims
  <1>5. \A u \in Undos \ overlapped' : UndoesAlone(u)'
    BY NextUndoesAlone
  <1> QED
    BY <1>1, <1>2, <1>3, <1>4, <1>5 DEF AloneIInv

\* Every reachable state satisfies both.
LEMMA AloneReached == Spec => [](IInv /\ AloneIInv)
  BY InitAlone, NextAloneIInv, Invariance, PTL DEF Spec

\* What a lone deletion or move answers is true of rows and files, for any
\* databases, files and other requests (deleteSessionDataRoute,
\* moveThreadWorkspaceDataRoute).
THEOREM LoneAnswersAreTrue == Spec => AnswersAreTrue
  <1>1. ASSUME IInv, AloneIInv, [Next]_vars,
               NEW d \in Deletes, pc[d] # "local_deleted", pc'[d] = "local_deleted",
               d \notin overlapped
        PROVE  /\ \A p \in Places : rows[p] = Gone \/ Hidden(before[d].rows, p)
               /\ \A f \in Files : ~Readable(f)
    <2>1. Deleted(d)
      BY <1>1, WhoAnswers DEF Requests
    <2>2. pc[d] = "delete" /\ todo[d] = {}
      BY <2>1 DEF Deleted
    <2>3. FoundAll(d) /\ RowsSoFar(d) /\ FilesSoFar(d)
      BY <1>1, <2>2 DEF AloneIInv, DeletesAlone
    <2>4. \A p \in Places : rows[p] = Gone \/ Hidden(before[d].rows, p)
      BY <2>2, <2>3, TablesFound DEF RowsSoFar
    <2>5. \A f \in Files : ~Readable(f)
      BY <2>2, <2>3 DEF FilesSoFar, Readable, Absent
    <2> QED
      BY <2>4, <2>5
  <1>2. ASSUME IInv, AloneIInv, [Next]_vars,
               NEW m \in Moves, pc[m] # "moved", pc'[m] = "moved",
               m \notin overlapped, arg[m] # Projectless
        PROVE  /\ \A p \in Threads : rows[p] \in {Gone, arg[m]}
               /\ \A f \in Files : Readable(f) => files[f].cwd = arg[m]
    <2>1. WriteHint(m)
      BY <1>2, WhoAnswers DEF Requests
    <2>2. pc[m] = "move" /\ todo[m] = {}
      BY <2>1 DEF WriteHint
    <2>3. arg[m] \in Cwds
      BY <1>2, <2>2 DEF IInv, Known, Moving
    <2> QED
      BY <1>2, <2>2, <2>3 DEF AloneIInv, MovesAlone, Moving
  <1>3. ASSUME IInv, AloneIInv, [Next]_vars,
               NEW d \in Deletes, pc[d] # "failedWithToken", pc'[d] = "failedWithToken",
               d \notin overlapped, faults' = 1
        PROVE  rows' = before[d].rows
    <2>1. PutBackDone(d) \/ (pc[d] = "putBack" /\ StepFails(d))
      BY <1>3, WhoAnswers DEF Requests
    <2>2. pc[d] = "putBack"
      BY <2>1 DEF PutBackDone
    <2>3. faults > 0 /\ \A p \in Places \ todo[d] : rows[p] = before[d].rows[p]
      BY <1>3, <2>2 DEF AloneIInv, DeletesAlone
    <2>4. ~StepFails(d)
      BY <1>3, <2>3 DEF StepFails, Fault, IInv, TypeOK
    <2>5. todo[d] = {} /\ rows' = rows
      BY <2>1, <2>4 DEF PutBackDone, store
    <2>6. rows \in Rows /\ before[d].rows \in Rows
      BY <1>3 DEF IInv, TypeOK
    <2> QED
      BY <2>3, <2>5, <2>6 DEF Rows
  <1>4. IInv /\ AloneIInv /\ [Next]_vars =>
           [\A d \in Deletes :
              pc[d] # "local_deleted" /\ pc'[d] = "local_deleted" /\ d \notin overlapped =>
                  /\ \A p \in Places : rows[p] = Gone \/ Hidden(before[d].rows, p)
                  /\ \A f \in Files : ~Readable(f)]_vars
    BY <1>1
  <1>5. IInv /\ AloneIInv /\ [Next]_vars =>
           [\A m \in Moves :
              /\ pc[m] # "moved" /\ pc'[m] = "moved"
              /\ m \notin overlapped /\ arg[m] # Projectless
              => /\ \A p \in Threads : rows[p] \in {Gone, arg[m]}
                 /\ \A f \in Files : Readable(f) => files[f].cwd = arg[m]]_vars
    BY <1>2
  <1>6. IInv /\ AloneIInv /\ [Next]_vars =>
           [\A d \in Deletes :
              /\ pc[d] # "failedWithToken" /\ pc'[d] = "failedWithToken"
              /\ d \notin overlapped /\ faults' = 1
              => rows' = before[d].rows]_vars
    BY <1>3
  <1>7. Spec => [][Next]_vars
    BY PTL DEF Spec
  <1>8. Spec => DeletedIsGone
    BY <1>4, <1>7, AloneReached, PTL DEF DeletedIsGone
  <1>9. Spec => MoveIsWhole
    BY <1>5, <1>7, AloneReached, PTL DEF MoveIsWhole
  <1>10. Spec => FailedRemovalRestoresIndex
    BY <1>6, <1>7, AloneReached, PTL DEF FailedRemovalRestoresIndex
  <1> QED
    BY <1>8, <1>9, <1>10 DEF AnswersAreTrue

\* Deletion and undo that run alone give back what was found, and everything
\* where nothing else began (undoSessionDataRoute).
THEOREM UndoGivesBack == Spec => RoundTrip
  <1>1. ASSUME IInv, AloneIInv, [Next]_vars,
               NEW u \in Undos, pc[u] # "ok", pc'[u] = "ok", {u, arg[u]} \cap overlapped = {}
        PROVE  /\ Restored(arg[u])
               /\ Undisturbed(arg[u]) => before[arg[u]] = [rows |-> rows, files |-> files]
    <2> DEFINE d == arg[u]
    <2>1. pc[u] = "restore" /\ todo[u] = {}
      BY <1>1, WhoAnswers DEF Undone, Requests
    <2>2. d \in Deletes /\ pc[d] = "local_deleted"
      BY <1>1, <2>1 DEF AloneIInv, UndoAims, Undoing
    <2> HIDE DEF d
    <2>3. FoundAll(d) /\ CopiedAll(d) /\ RestUntouched(d)
      BY <1>1, <2>2 DEF AloneIInv, DeletesAlone, d
    <2>4. /\ \A f \in Files : copies[d][f] # Gone => files[f] = copies[d][f]
          /\ \A p \in Places : foundRows[d][p] # Gone => rows[p] = foundRows[d][p]
      BY <1>1, <2>1 DEF AloneIInv, UndoesAlone, Undoing, d
    <2>5. Restored(d)
      <3>1. \A p \in Places : FoundIn(before[d].rows, p) # Gone => rows[p] = before[d].rows[p]
        BY <2>2, <2>3, <2>4, TablesFound DEF FoundAll
      <3>2. \A f \in Files : ~Absent(before[d].files[f]) => files[f] = before[d].files[f]
        BY <2>3, <2>4 DEF CopiedAll, Absent
      <3> QED
        BY <3>1, <3>2 DEF Restored, Absent
    <2>6. ASSUME Undisturbed(d) PROVE before[d] = [rows |-> rows, files |-> files]
      <3>1. \A p \in Places : rows[p] = before[d].rows[p]
        BY <2>2, <2>3, <2>5, <2>6 DEF Restored, RestUntouched
      <3>2. \A f \in Files : files[f] = before[d].files[f]
        BY <2>2, <2>3, <2>5, <2>6 DEF Restored, RestUntouched, Absent
      <3>3. /\ rows \in Rows /\ files \in Bodies
            /\ before[d] \in [rows : Rows, files : Bodies]
        BY <1>1, <2>2 DEF IInv, TypeOK
      <3>4. rows = before[d].rows /\ files = before[d].files
        BY <3>1, <3>2, <3>3 DEF Rows, Bodies
      <3> QED
        BY <3>3, <3>4
    <2> QED
      BY <2>5, <2>6 DEF d
  <1>2. IInv /\ AloneIInv /\ [Next]_vars =>
           [\A u \in Undos :
              pc[u] # "ok" /\ pc'[u] = "ok" /\ {u, arg[u]} \cap overlapped = {} =>
                  /\ Restored(arg[u])
                  /\ Undisturbed(arg[u]) => before[arg[u]] = [rows |-> rows, files |-> files]]_vars
    BY <1>1
  <1>3. Spec => [][Next]_vars
    BY PTL DEF Spec
  <1> QED
    BY <1>2, <1>3, AloneReached, PTL DEF RoundTrip

=============================================================================

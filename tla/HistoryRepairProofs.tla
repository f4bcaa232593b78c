------------------------- MODULE HistoryRepairProofs -------------------------
(***************************************************************************)
(* HistoryRepair proved for any set of files, number of tasks, writes and  *)
(* faults: the inductive invariant IInv, the truth of what a repair        *)
(* reports, and the two promises about replaced files.                     *)
(***************************************************************************)
EXTENDS HistoryRepair, TLAPS

\* The file a repair is at is one of those still to do.
LEMMA CurrentToDo == todo # {} => Current \in todo
  BY DEF Current

\* The inductive invariant holds at the start.
LEMMA InitIInv == Init => IInv
  <1> SUFFICES ASSUME Init PROVE IInv
    OBVIOUS
  <1> USE ConstantsAssumption
  <1>1. TypeOK
    BY DEF Init, TypeOK, None, Running, Ended, Early, MetaStatus
  <1>2. Untouched /\ Partitioned /\ Covered /\ Undoing /\ OutcomeTrue
    BY DEF Init, Untouched, Partitioned, Covered, Undoing, OutcomeTrue,
           Early, Repairing
  <1> QED
    BY <1>1, <1>2 DEF IInv

\* Every step keeps it.
LEMMA NextIInv == IInv /\ [Next]_vars => IInv'
  <1> SUFFICES ASSUME IInv, [Next]_vars PROVE IInv'
    OBVIOUS
  <1> USE ConstantsAssumption
      DEF IInv, TypeOK, Untouched, Partitioned, Covered, Undoing, OutcomeTrue,
          Running, Ended, Early, MetaStatus, Repairing, files, world, task, job,
          Go, End, Fault
  <1>1. CASE Start
    BY <1>1 DEF Start, None
  <1>2. CASE Cancel
    BY <1>2 DEF Cancel, Current
  <1>3. CASE Deliver
    BY <1>3 DEF Deliver, Current
  <1>4. CASE Stop
    BY <1>4 DEF Stop
  <1>5. CASE Proceed
    BY <1>5 DEF Proceed
  <1>6. CASE Scan
    BY <1>6 DEF Scan, With
  <1>7. CASE Prepare
    BY <1>7 DEF Prepare
  <1>8. CASE Cancelled
    BY <1>8 DEF Cancelled, Record
  <1>9. CASE Next1
    BY <1>9 DEF Next1
  <1>10. ASSUME Broken, pc \in {"copy", "check", "rename"}
         PROVE IInv'
    BY <1>10 DEF Broken
  <1>11. ASSUME Interrupted, pc \in {"copy", "check", "rename", "fail"}
         PROVE IInv'
    <2>1. DOMAIN found \ dirty = applied
      BY <1>11
    <2> QED
      BY <1>11, <2>1 DEF Interrupted, Record
  <1>12. ASSUME Replace, pc \in {"check", "rename"}
         PROVE IInv'
    <2>1. Current \in todo
      BY <1>12, CurrentToDo
    <2>2. found[Current] \in Nat /\ Current \in dirty /\ Current \in DOMAIN backup
      BY <1>12, <2>1
    <2>3. TypeOK'
      BY <1>12, <2>1, <2>2 DEF Replace
    <2>4. Partitioned'
      <3>1. todo' \cup applied' = DOMAIN found'
        BY <1>12, <2>1 DEF Replace
      <3>2. todo' \subseteq dirty' /\ applied' \cap dirty' = {}
        BY <1>12, <2>1 DEF Replace
      <3>3. lost' = {} /\ meta'.status = "prepared" /\ pc' = "next"
        BY <1>12 DEF Replace
      <3> QED
        BY <3>1, <3>2, <3>3
    <2>5. (Untouched /\ Covered /\ Undoing /\ OutcomeTrue)'
      BY <1>12, <2>1, <2>2 DEF Replace
    <2> QED
      BY <2>3, <2>4, <2>5
  <1>20. CASE Copy
    <2>1. CASE backup' = With(backup, Current, rev[Current]) /\ Go("check")
      <3>1. Current' = Current /\ Current \in todo
        BY <1>20, <2>1, CurrentToDo DEF Copy, Broken, Interrupted, Current
      <3>2. DOMAIN backup' = DOMAIN backup \cup {Current}
        BY <2>1 DEF With
      <3>3. /\ backup'[Current] = rev[Current]
            /\ \A f \in DOMAIN backup' : backup'[f] \in Nat
        BY <2>1, <3>1 DEF With
      <3> QED
        BY <1>20, <2>1, <3>1, <3>2, <3>3 DEF Copy, Broken, Interrupted
    <2> QED
      BY <1>10, <1>11, <1>20, <2>1 DEF Copy
  <1>21. CASE Check
    <2>1. CASE /\ rev[Current] = found[Current]
               /\ Go("rename") /\ UNCHANGED <<files, world, job, backup, meta, faults>>
      <3>1. Current' = Current
        BY <2>1 DEF Current
      <3> QED
        BY <1>21, <2>1, <3>1 DEF Check, Broken, Interrupted, Replace
    <2> QED
      BY <1>10, <1>11, <1>12, <1>21, <2>1 DEF Check
  <1>22. CASE Rename
    BY <1>10, <1>12, <1>22 DEF Rename
  <1>13. CASE Fail
    BY <1>13 DEF Fail, Interrupted, Record
  <1>14. CASE Rollback
    BY <1>14 DEF Rollback, Record
  <1>15. CASE Finish
    <2>1. pc' = "idle" /\ status' \in {"ok", "failed"} /\ applied = DOMAIN found
      BY <1>15 DEF Finish
    <2>2. TypeOK'
      BY <1>15 DEF Finish
    <2>3. OutcomeTrue'
      BY <1>15, <2>1 DEF Finish
    <2>4. (Untouched /\ Partitioned /\ Covered /\ Undoing)'
      BY <2>1
    <2> QED
      BY <2>2, <2>3, <2>4
  <1>16. CASE Crash
    BY <1>16 DEF Crash
  <1>17. CASE WriterToggles
    BY <1>17 DEF WriterToggles, Current
  <1>18. CASE \E f \in Files : WriterAppends(f)
    <2>1. Current' = Current
      BY <1>18 DEF WriterAppends, Current
    <2>2. pc = "rename" => Current \in Files
      BY CurrentToDo
    <2>3. TypeOK'
      BY <1>18 DEF WriterAppends
    <2>4. Covered'
      BY <1>18, <2>1, <2>2 DEF WriterAppends
    <2>5. (Untouched /\ Partitioned /\ Undoing /\ OutcomeTrue)'
      BY <1>18 DEF WriterAppends
    <2> QED
      BY <2>3, <2>4, <2>5
  <1>19. CASE UNCHANGED vars
    BY <1>19 DEF vars, Current
  <1> QED
    BY <1>1, <1>2, <1>3, <1>4, <1>5, <1>6, <1>7, <1>8, <1>9, <1>20, <1>21, <1>22,
       <1>13, <1>14, <1>15, <1>16, <1>17, <1>18, <1>19 DEF Next, Worker

LEMMA Invariance == Spec => []IInv
  BY InitIInv, NextIInv, PTL DEF Spec

\* The variables keep their types.
THEOREM TypeCorrect == Spec => []TypeOK
  BY Invariance, PTL DEF IInv

\* Whatever errors, cancels, writers and crashes do to it, an ended repair has
\* left the files as metadata.json and the task say.
THEOREM Truthful == Spec => []OutcomeTrue
  BY Invariance, PTL DEF IInv

\* If no write slips between the last Stat and the rename, every change has
\* its original in a backup and loses no write.
THEOREM RepairsAreSafe ==
    ASSUME ~RaceWindow
    PROVE  Spec => RepairsAreCareful
  <1> DEFINE Backed == \A f \in dirty \ dirty' : f \in DOMAIN backup /\ backup[f] = rev[f]
             Kept == pc # "rollback" => \A f \in Files : rev'[f] >= rev[f]
  <1>1. IInv /\ Replace /\ pc = "rename" => Backed /\ Kept
    BY DEF IInv, TypeOK, Covered, Replace
  <1>2. IInv /\ [Next]_vars => Backed /\ Kept
    <2> SUFFICES ASSUME IInv, [Next]_vars PROVE Backed /\ Kept
      OBVIOUS
    <2>1. CASE Rename
      <3>1. CASE UNCHANGED files
        BY <3>1 DEF files, IInv, TypeOK
      <3> QED
        BY <1>1, <2>1, <3>1 DEF Rename, Broken
    <2>2. CASE Rollback
      BY <2>2 DEF Rollback, files
    <2>3. CASE \E f \in Files : WriterAppends(f)
      BY <2>3 DEF WriterAppends, IInv, TypeOK
    <2>4. CASE UNCHANGED <<dirty, rev>>
      BY <2>4 DEF IInv, TypeOK
    <2> QED
      BY <2>1, <2>2, <2>3, <2>4
      DEF Next, Worker, vars, files, Start, Cancel, Deliver, Stop, Proceed, Scan, Prepare,
          Cancelled, Next1, Copy, Check, Broken, Interrupted, Fail, Finish, Crash, WriterToggles
  <1> QED
    BY <1>2, Invariance, PTL DEF Spec, RepairsAreCareful, RepairsAreBackedUp, RepairsKeepAppends
=============================================================================

------------------------- MODULE MaintenanceLockProofs -------------------------
(***************************************************************************)
(* The two locks for any set of operations and processes, any number of    *)
(* crashes and any lies of the pid probe.  Mutual exclusion rests on the   *)
(* launcher guard alone: nothing below mentions who made the directory.    *)
(***************************************************************************)
EXTENDS MaintenanceLock, TLAPS

\* Where an operation holds the launcher guard.
GuardedAt(o) ==
    {"bind", "mutate", "running", "releaseGuard"} \cup
    (IF IsLauncher(o) THEN LockSteps \cup {"releaseOwner", "releaseDir"} ELSE {})

GuardInv == \A o \in Ops : pc[o] \in GuardedAt(o) => guard = o

\* Where an operation has written owner.json and not yet unlinked it.
Signed(o) ==
    pc[o] \in {"mutate", "releaseOwner"} \cup
             (IF IsLauncher(o) THEN {} ELSE {"flock", "bind", "releaseGuard"})

CleanInv ==
    /\ ~DirExists => owner = NoPid
    /\ dead = {} /\ owner # NoPid => \E o \in Ops : Signed(o)
    /\ NoOrphanLock

USE ConstantsAssumption
USE DEF LockSteps, Locations, IsLauncher, At, Goto, DirExists, Unlocked
USE DEF FirstStep, AfterLock, AfterLockRefused, AfterGuard, AfterGuardRefused,
        AfterMutation, AfterGuardRelease, AfterLockRelease

-----------------------------------------------------------------------------
\* Every step keeps the types.
LEMMA TypeStep == TypeOK /\ [Next]_vars => TypeOK'
<1> SUFFICES ASSUME TypeOK, [Next]_vars PROVE TypeOK'
  OBVIOUS
<1> USE DEF TypeOK
<1>1. ASSUME NEW o \in Ops, Begin(o) \/ Reap(o) \/ Work(o) PROVE TypeOK'
  BY <1>1 DEF Begin, Reap, Work, Mutate, ReleaseGuard, ReleaseOwner,
              ReleaseDir, UnlinkOwner, RemoveDir
<1>2. ASSUME NEW o \in Ops, Acquire(o) PROVE TypeOK'
  <2>1. CASE Mkdir(o) \/ Remkdir(o)
    BY <2>1 DEF Mkdir, Remkdir, MakeDir
  <2>2. CASE ReadOwner(o) \/ StatDir(o)
    BY <2>2 DEF ReadOwner, StatDir
  <2>3. CASE DropDir(o)
    BY <2>3 DEF DropDir, RemoveDir
  <2>4. CASE WriteOwner(o)
    <3>1. aged' \in BOOLEAN
      BY <2>4 DEF WriteOwner
    <3>2. pc' \in [Ops -> Locations] /\ owner' \in Procs \cup {NoPid}
      BY <2>4 DEF WriteOwner
    <3> QED
      BY <2>4, <3>1, <3>2 DEF WriteOwner
  <2>5. CASE DropOwner(o)
    BY <2>5 DEF DropOwner, UnlinkOwner
  <2>6. CASE Flock(o) \/ Bind(o)
    BY <2>6 DEF Flock, Bind
  <2> QED
    BY <1>2, <2>1, <2>2, <2>3, <2>4, <2>5, <2>6 DEF Acquire
<1>3. ASSUME NEW p \in Procs, Crash(p) PROVE TypeOK'
  BY <1>3 DEF Crash
<1>4. CASE Age
  BY <1>4 DEF Age
<1>5. CASE UNCHANGED vars
  BY <1>5 DEF vars
<1> QED
  BY <1>1, <1>2, <1>3, <1>4, <1>5 DEF Next

\* The variables keep their types.
THEOREM TypeCorrect == Spec => []TypeOK
<1>1. Init => TypeOK
  BY DEF Init, TypeOK
<1> QED
  BY <1>1, TypeStep, PTL DEF Spec

-----------------------------------------------------------------------------
\* The guard has one holder, the operation recorded in the flock: a step that
\* takes it finds it free, a step that gives it up is its holder's.
LEMMA GuardStep == TypeOK /\ GuardInv /\ [Next]_vars => GuardInv'
<1> SUFFICES ASSUME TypeOK, GuardInv, [Next]_vars PROVE GuardInv'
  OBVIOUS
<1> USE DEF TypeOK, GuardInv, GuardedAt
<1>1. ASSUME NEW o \in Ops, Begin(o) \/ Reap(o) \/ Work(o) PROVE GuardInv'
  <2>1. CASE Begin(o) \/ Reap(o)
    BY <2>1 DEF Begin, Reap
  <2>2. CASE Mutate(o) \/ ReleaseGuard(o)
    BY <2>2 DEF Mutate, ReleaseGuard
  <2>3. CASE ReleaseOwner(o) \/ ReleaseDir(o)
    BY <2>3 DEF ReleaseOwner, ReleaseDir
  <2> QED
    BY <1>1, <2>1, <2>2, <2>3 DEF Work
<1>2. ASSUME NEW o \in Ops, Acquire(o) PROVE GuardInv'
  <2>1. CASE Mkdir(o) \/ Remkdir(o)
    BY <2>1 DEF Mkdir, Remkdir, MakeDir
  <2>2. CASE ReadOwner(o) \/ StatDir(o)
    BY <2>2 DEF ReadOwner, StatDir
  <2>3. CASE DropOwner(o) \/ DropDir(o) \/ WriteOwner(o)
    BY <2>3 DEF DropOwner, DropDir, WriteOwner
  <2>4. CASE Flock(o) \/ Bind(o)
    BY <2>4 DEF Flock, Bind
  <2> QED
    BY <1>2, <2>1, <2>2, <2>3, <2>4 DEF Acquire
<1>3. ASSUME NEW p \in Procs, Crash(p) PROVE GuardInv'
  BY <1>3 DEF Crash
<1>4. CASE Age \/ UNCHANGED vars
  BY <1>4 DEF Age, vars
<1> QED
  BY <1>1, <1>2, <1>3, <1>4 DEF Next

\* No two operations mutate the history at once.
THEOREM Exclusion == Spec => []MutationExclusive
<1>1. Init => GuardInv
  BY DEF Init, GuardInv, GuardedAt
<1>2. GuardInv => MutationExclusive
  BY DEF GuardInv, GuardedAt, MutationExclusive
<1> QED
  BY <1>1, <1>2, GuardStep, TypeCorrect, PTL DEF Spec

-----------------------------------------------------------------------------
\* Without a crash, a recorded owner is bound to unlink its record, and the
\* directory someone is bound to remove.
LEMMA CleanStep == TypeOK /\ CleanInv /\ [Next]_vars => CleanInv'
<1> SUFFICES ASSUME TypeOK, CleanInv, [Next]_vars PROVE CleanInv'
  OBVIOUS
<1> USE DEF TypeOK, CleanInv, NoOrphanLock, Signed, WillClean
<1>1. ASSUME NEW o \in Ops, Begin(o) \/ Reap(o) \/ Mutate(o) \/ ReleaseGuard(o)
      PROVE  CleanInv'
  BY <1>1 DEF Begin, Reap, Mutate, ReleaseGuard
<1>2. ASSUME NEW o \in Ops, ReleaseOwner(o) \/ DropOwner(o) PROVE CleanInv'
  BY <1>2 DEF ReleaseOwner, DropOwner, UnlinkOwner
<1>3. ASSUME NEW o \in Ops, ReleaseDir(o) \/ DropDir(o) PROVE CleanInv'
  BY <1>3 DEF ReleaseDir, DropDir, RemoveDir
<1>4. ASSUME NEW o \in Ops, Mkdir(o) \/ Remkdir(o) PROVE CleanInv'
  BY <1>4 DEF Mkdir, Remkdir, MakeDir
<1>5. ASSUME NEW o \in Ops, ReadOwner(o) \/ StatDir(o) PROVE CleanInv'
  BY <1>5 DEF ReadOwner, StatDir
<1>6. ASSUME NEW o \in Ops, WriteOwner(o) PROVE CleanInv'
  BY <1>6 DEF WriteOwner
<1>7. ASSUME NEW o \in Ops, Flock(o) \/ Bind(o) PROVE CleanInv'
  BY <1>7 DEF Flock, Bind
<1>8. ASSUME NEW p \in Procs, Crash(p) PROVE CleanInv'
  BY <1>8 DEF Crash
<1>9. CASE Age \/ UNCHANGED vars
  BY <1>9 DEF Age, vars
<1> QED
  BY <1>1, <1>2, <1>3, <1>4, <1>5, <1>6, <1>7, <1>8, <1>9
     DEF Next, Acquire, Work

\* While no process has crashed, a lock directory has someone to remove it.
THEOREM NoOrphans == Spec => []NoOrphanLock
<1>1. Init => CleanInv
  BY DEF Init, CleanInv, NoOrphanLock
<1>2. CleanInv => NoOrphanLock
  BY DEF CleanInv
<1> QED
  BY <1>1, <1>2, CleanStep, TypeCorrect, PTL DEF Spec
=============================================================================

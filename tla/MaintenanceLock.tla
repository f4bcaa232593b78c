--------------------------- MODULE MaintenanceLock ---------------------------
(***************************************************************************)
(* The two locks that every maintenance of the Codex history takes:        *)
(*                                                                         *)
(*  - the provider-sync lock, a directory <home>/tmp/provider-sync.lock    *)
(*    holding owner.json (acquireProviderSyncLock, repair.go).  It         *)
(*    survives a crash, so a contender may judge it stale and remove it;   *)
(*  - the launcher guard, an flock'ed file plus a bound loopback port      *)
(*    (loopback_guard.go).  The operating system frees it on a crash.      *)
(*                                                                         *)
(* An operation of the manager takes the directory lock first and the      *)
(* guard second; the launcher holds the guard for its whole life and takes *)
(* only the directory lock when it synchronizes at start.  Neither lock is *)
(* waited for: a refused operation ends.                                   *)
(*                                                                         *)
(* Every system call on the shared directory is a step of its own: Mkdir,  *)
(* the read of owner.json, the Stat, the two halves of RemoveAll (unlink   *)
(* owner.json, then rmdir, which fails on a directory filled meanwhile).   *)
(***************************************************************************)
EXTENDS Naturals, FiniteSets

CONSTANTS
    Ops,              \* the operations, each runs at most once at a time
    LauncherOps,      \* those that are the life of a launcher process
    Procs,            \* process ids
    ProcOf,           \* the process an operation runs in
    NoOp, NoPid,      \* "no directory", "no owner.json"
    DeadMayLookAlive, \* the pid probe may fail, or the pid was reused
    LockMayAge,       \* two minutes may pass while a directory is there
    MaxCrashes        \* bound: number of processes that may crash

ASSUME ConstantsAssumption ==
    /\ LauncherOps \subseteq Ops
    /\ ProcOf \in [Ops -> Procs]
    /\ NoOp \notin Ops
    /\ NoPid \notin Procs
    /\ DeadMayLookAlive \in BOOLEAN
    /\ LockMayAge \in BOOLEAN
    /\ MaxCrashes \in Nat

VARIABLES
    pc,      \* where each operation is
    maker,   \* the operation whose Mkdir made the directory; NoOp: absent
    owner,   \* the pid in owner.json; NoPid: no such file
    aged,    \* the directory's mtime is older than two minutes
    guard,   \* the operation holding the flock of the launcher guard
    dead     \* the processes that crashed

vars == <<pc, maker, owner, aged, guard, dead>>

\* The steps of acquireProviderSyncLock, in the order of the code.
LockSteps == {"mkdir", "readOwner", "statDir", "dropOwner", "dropDir",
              "remkdir", "writeOwner"}

Locations == LockSteps \cup
    {"idle", "flock", "bind", "mutate", "releaseGuard", "releaseOwner",
     "releaseDir", "running", "crashed"}

TypeOK ==
    /\ pc \in [Ops -> Locations]
    /\ maker \in Ops \cup {NoOp}
    /\ owner \in Procs \cup {NoPid}
    /\ aged \in BOOLEAN
    /\ guard \in Ops \cup {NoOp}
    /\ dead \in SUBSET Procs

Init ==
    /\ pc = [o \in Ops |-> "idle"]
    /\ maker = NoOp
    /\ owner = NoPid
    /\ aged = FALSE
    /\ guard = NoOp
    /\ dead = {}

-----------------------------------------------------------------------------
\* Where an operation goes next.  The launcher (runLauncher) takes the guard
\* first and keeps it; the others (acquireProviderSyncMutationGuards,
\* runProviderSyncWithLock) take it second and release it first.
IsLauncher(o) == o \in LauncherOps

FirstStep(o)         == IF IsLauncher(o) THEN "flock" ELSE "mkdir"
\* Mutants: a lock holder that skips the guard; a refused guard that leaves
\* the lock directory behind.
AfterLockUnguarded(o)     == "mutate"
AfterGuardRefusedLeaks(o) == "idle"

AfterLock(o)         == IF IsLauncher(o) THEN "mutate" ELSE "flock"
AfterLockRefused(o)  == IF IsLauncher(o) THEN "running" ELSE "idle"
AfterGuard(o)        == IF IsLauncher(o) THEN {"mkdir", "running"} ELSE {"mutate"}
AfterGuardRefused(o) == IF IsLauncher(o) THEN "idle" ELSE "releaseOwner"
AfterMutation(o)     == IF IsLauncher(o) THEN "releaseOwner" ELSE "releaseGuard"
AfterGuardRelease(o) == IF IsLauncher(o) THEN "idle" ELSE "releaseOwner"
AfterLockRelease(o)  == IF IsLauncher(o) THEN "running" ELSE "idle"

At(o, loc) == pc[o] = loc
Goto(o, loc) == pc' = [pc EXCEPT ![o] = loc]

DirExists == maker # NoOp
Unlocked == UNCHANGED <<maker, owner, aged>>

Begin(o) ==
    /\ At(o, "idle")
    /\ ProcOf[o] \notin dead
    /\ Goto(o, FirstStep(o))
    /\ UNCHANGED <<maker, owner, aged, guard, dead>>

-----------------------------------------------------------------------------
\* acquireProviderSyncLock.

MakeDir(o) ==
    /\ ~DirExists
    /\ maker' = o
    /\ owner' = NoPid
    /\ aged' = FALSE
    /\ Goto(o, "writeOwner")

Mkdir(o) ==
    /\ At(o, "mkdir")
    /\ \/ MakeDir(o)
       \/ DirExists /\ Goto(o, "readOwner") /\ Unlocked
    /\ UNCHANGED <<guard, dead>>

\* Mutant of ReadOwner: every recorded owner counts as alive.
ReadOwnerTrusting(o) ==
    /\ At(o, "readOwner")
    /\ Goto(o, IF owner = NoPid THEN "statDir" ELSE AfterLockRefused(o))
    /\ Unlocked
    /\ UNCHANGED <<guard, dead>>

\* providerSyncLockStale: a recorded owner decides by its process alone.
ReadOwner(o) ==
    /\ At(o, "readOwner")
    /\ \/ owner = NoPid /\ Goto(o, "statDir")
       \/ owner \in dead /\ Goto(o, "dropOwner")
       \/ /\ owner \in Procs
          /\ owner \in dead => DeadMayLookAlive
          /\ Goto(o, AfterLockRefused(o))
    /\ Unlocked
    /\ UNCHANGED <<guard, dead>>

\* providerSyncUnknownOwnerLockStale: a vanished directory counts as stale.
StatDir(o) ==
    /\ At(o, "statDir")
    /\ Goto(o, IF ~DirExists \/ aged THEN "dropOwner" ELSE AfterLockRefused(o))
    /\ Unlocked
    /\ UNCHANGED <<guard, dead>>

\* os.RemoveAll, first half: the entries go (which touches the mtime).
UnlinkOwner ==
    /\ owner' = NoPid
    /\ aged' = (aged /\ owner = NoPid)
    /\ UNCHANGED maker

\* os.RemoveAll, second half: rmdir, refused when an entry is back.
RemoveDir ==
    IF owner = NoPid
    THEN maker' = NoOp /\ aged' = FALSE /\ UNCHANGED owner
    ELSE Unlocked

DropOwner(o) ==
    /\ At(o, "dropOwner")
    /\ UnlinkOwner
    /\ Goto(o, "dropDir")
    /\ UNCHANGED <<guard, dead>>

DropDir(o) ==
    /\ At(o, "dropDir")
    /\ RemoveDir
    /\ Goto(o, "remkdir")
    /\ UNCHANGED <<guard, dead>>

Remkdir(o) ==
    /\ At(o, "remkdir")
    /\ \/ MakeDir(o)
       \/ DirExists /\ Goto(o, AfterLockRefused(o)) /\ Unlocked
    /\ UNCHANGED <<guard, dead>>

\* The write of owner.json: in a directory removed meanwhile it fails, and
\* the failed acquisition releases; in a directory another contender made
\* meanwhile it succeeds.
WriteOwner(o) ==
    /\ At(o, "writeOwner")
    /\ IF DirExists
       THEN /\ owner' = ProcOf[o]
            /\ aged' = FALSE
            /\ Goto(o, AfterLock(o))
       ELSE /\ Goto(o, "releaseOwner")
            /\ UNCHANGED <<owner, aged>>
    /\ UNCHANGED <<maker, guard, dead>>

-----------------------------------------------------------------------------
\* acquireResilientLoopbackPortGuardWith: flock, then bind.

Flock(o) ==
    /\ At(o, "flock")
    /\ IF guard = NoOp
       THEN guard' = o /\ Goto(o, "bind")
       ELSE Goto(o, AfterGuardRefused(o)) /\ UNCHANGED guard
    /\ Unlocked
    /\ UNCHANGED dead

\* The port is bound, or unusable but silent (the flock alone is the guard);
\* or some program answers on it, and the flock is given back.
Bind(o) ==
    /\ At(o, "bind")
    /\ \/ /\ \E next \in AfterGuard(o) : Goto(o, next)
          /\ UNCHANGED guard
       \/ Goto(o, AfterGuardRefused(o)) /\ guard' = NoOp
    /\ Unlocked
    /\ UNCHANGED dead

\* The maintenance itself: provider sync, mode switch, index cleanup, repair.
Mutate(o) ==
    /\ At(o, "mutate")
    /\ Goto(o, AfterMutation(o))
    /\ Unlocked
    /\ UNCHANGED <<guard, dead>>

ReleaseGuard(o) ==
    /\ At(o, "releaseGuard")
    /\ guard' = NoOp
    /\ Goto(o, AfterGuardRelease(o))
    /\ Unlocked
    /\ UNCHANGED dead

ReleaseOwner(o) ==
    /\ At(o, "releaseOwner")
    /\ UnlinkOwner
    /\ Goto(o, "releaseDir")
    /\ UNCHANGED <<guard, dead>>

ReleaseDir(o) ==
    /\ At(o, "releaseDir")
    /\ RemoveDir
    /\ Goto(o, AfterLockRelease(o))
    /\ UNCHANGED <<guard, dead>>

\* The application was closed: reapLauncherChild returns, the launcher ends.
Reap(o) ==
    /\ At(o, "running")
    /\ Goto(o, "releaseGuard")
    /\ Unlocked
    /\ UNCHANGED <<guard, dead>>

-----------------------------------------------------------------------------
\* The environment: two minutes pass; a process dies with all its operations.

Age ==
    /\ LockMayAge
    /\ DirExists
    /\ ~aged
    /\ aged' = TRUE
    /\ UNCHANGED <<pc, maker, owner, guard, dead>>

Crash(p) ==
    /\ p \notin dead
    /\ Cardinality(dead) < MaxCrashes
    /\ dead' = dead \cup {p}
    /\ pc' = [o \in Ops |-> IF ProcOf[o] = p THEN "crashed" ELSE pc[o]]
    /\ guard' = IF guard \in Ops /\ ProcOf[guard] = p THEN NoOp ELSE guard
    /\ Unlocked

Acquire(o) ==
    \/ Mkdir(o) \/ ReadOwner(o) \/ StatDir(o) \/ DropOwner(o) \/ DropDir(o)
    \/ Remkdir(o) \/ WriteOwner(o) \/ Flock(o) \/ Bind(o)

Work(o) == Mutate(o) \/ ReleaseGuard(o) \/ ReleaseOwner(o) \/ ReleaseDir(o)

Next ==
    \/ \E o \in Ops : Begin(o) \/ Acquire(o) \/ Work(o) \/ Reap(o)
    \/ \E p \in Procs : Crash(p)
    \/ Age

Spec == Init /\ [][Next]_vars

\* An operation that has begun runs to its end: the goroutine is scheduled
\* and no call of it waits.  Nothing forces an operation to begin.
FairSpec == Spec /\ \A o \in Ops : WF_vars(Acquire(o)) /\ WF_vars(Work(o))

-----------------------------------------------------------------------------
\* At most one operation mutates the history at a time, whatever happens to
\* the directory lock: every mutator also holds the launcher guard
\* (repair.go:774, 910-924; launcher.go:83, 156).
MutationExclusive ==
    \A o, p \in Ops : At(o, "mutate") /\ At(p, "mutate") => o = p

\* The operations that made the directory and will still remove it.
WillClean(o) ==
    pc[o] \in {"writeOwner", "mutate", "releaseOwner", "releaseDir"} \cup
             (IF IsLauncher(o) THEN {} ELSE {"flock", "bind", "releaseGuard"})

\* The lock directory never outlives its users: while no process has crashed
\* it exists only as long as some operation is still bound to remove it,
\* however the removals of a takeover and of a release interleave
\* (repair.go:896 and the early returns of 910-924 and 774-779).
NoOrphanLock ==
    DirExists /\ dead = {} => \E o \in Ops : WillClean(o)

\* An operation that tries the lock while a crashed operation's directory is
\* there, with its owner recorded or two minutes old, gets rid of it (unless
\* it crashes too): a crash never blocks maintenance for good
\* (repair.go:882-886, 1029-1062).
Abandoned ==
    /\ DirExists
    /\ pc[maker] = "crashed"
    /\ owner \in dead \/ (owner = NoPid /\ aged)

StaleLockTakenOver ==
    \A o \in Ops :
        (At(o, "mkdir") /\ Abandoned) ~> (~Abandoned \/ At(o, "crashed"))

HoldsLock(o) ==
    pc[o] \in (IF IsLauncher(o) THEN {"mutate"}
               ELSE {"flock", "bind", "mutate", "releaseGuard"})

\* No operation removes the lock directory of a live operation that holds it
\* ("deleting a live maintenance lock can corrupt history", repair.go:1073).
LiveLockKept ==
    [][\A o \in Ops : HoldsLock(o) /\ maker = o /\ HoldsLock(o)' => maker' = o]_vars
=============================================================================

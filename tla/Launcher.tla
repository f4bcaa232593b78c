------------------------------- MODULE Launcher -------------------------------
(***************************************************************************)
(* The life of a launcher process (runLauncher in launcher.go) and of the  *)
(* manager command that spawned it (launchCodex in manager.go): the restart*)
(* lock, the launcher guard, the restart of a running instance, the helper *)
(* and relay ports, the start of ChatGPT, and the latest-status file all   *)
(* of them write.  Launchers of every kind may run at the same time, be    *)
(* killed, and meet a ChatGPT that nobody of them started.                 *)
(*                                                                         *)
(* The guard is taken and given back in one step here: MaintenanceLock     *)
(* models what it is made of.                                              *)
(***************************************************************************)
EXTENDS Naturals

CONSTANTS
    Launchers, None,
    MaxLaunches, MaxFaults  \* bounds

ASSUME ConstantsAssumption ==
    /\ None \notin Launchers
    /\ MaxLaunches \in Nat /\ MaxFaults \in Nat

VARIABLES
    os,        \* the platform: "windows" or another one
    pc,        \* where each launcher is
    kind,      \* what it was asked: "launch" or "restart"
    guard,     \* the launcher that holds the single-instance guard
    rlock,     \* and the one that holds launcher-restart.lock
    ports,     \* the launchers whose helper and relay proxy listen
    app,       \* who started the ChatGPT that runs; itself: nobody
    latest,    \* Status in latest-status.json
    waiting,   \* the launchers whose manager still waits for a new status
    accepting, \* those whose manager has seen none and is about to write one
    launches, faults

locks == <<guard, rlock>>
vars == <<os, pc, kind, locks, ports, app, latest, waiting, accepting, launches, faults>>

Windows == os = "windows"
Nobody == "user"
Closing == {"prepare", "close", "debugPort", "otherPorts"}
Starting == {"helper", "start", "inject"}
Holding == Starting \cup {"quit", "running"}
Active == {"lock", "guard", "await", "shutdown", "release"} \cup Closing \cup Holding

TypeOK ==
    /\ os \in {"windows", "other"}
    /\ pc \in [Launchers -> Active \cup {"off"}]
    /\ kind \in [Launchers -> {"launch", "restart"}]
    /\ guard \in Launchers \cup {None} /\ rlock \in Launchers \cup {None}
    /\ ports \subseteq Launchers
    /\ app \in Launchers \cup {None, Nobody}
    /\ latest \in {"none", "accepted", "restarting", "starting", "running",
                   "degraded", "exited", "failed"}
    /\ waiting \subseteq Launchers /\ accepting \subseteq Launchers
    /\ launches \in 0 .. MaxLaunches
    /\ faults \in 0 .. MaxFaults

Init ==
    /\ os \in {"windows", "other"}
    /\ pc = [l \in Launchers |-> "off"]
    /\ kind = [l \in Launchers |-> "launch"]
    /\ guard = None /\ rlock = None
    /\ ports = {}
    /\ app \in {None, Nobody}
    /\ latest = "none"
    /\ waiting = {} /\ accepting = {}
    /\ launches = 0 /\ faults = 0

Goto(l, loc) == pc' = [pc EXCEPT ![l] = loc]

\* A new status ends every wait for one.
Report(status) == latest' = status /\ waiting' = {}
NoReport == UNCHANGED <<latest, waiting>>

asked == <<os, kind, accepting, launches>>

-----------------------------------------------------------------------------
\* launchCodex: the manager spawns a launcher and waits for its status.

Request(l, k) ==
    /\ pc[l] = "off"
    /\ launches < MaxLaunches
    /\ launches' = launches + 1
    /\ kind' = [kind EXCEPT ![l] = k]
    /\ waiting' = waiting \cup {l}
    /\ Goto(l, IF k = "restart" /\ Windows THEN "lock" ELSE "guard")
    /\ UNCHANGED <<os, locks, ports, app, latest, accepting, faults>>

\* No status in time: waitForLaunchStatusAfter returns nil,
ManagerGivesUp(l) ==
    /\ l \in waiting
    /\ waiting' = waiting \ {l}
    /\ accepting' = accepting \cup {l}
    /\ UNCHANGED <<os, pc, kind, locks, ports, app, latest, launches, faults>>

\* and the manager writes a status of its own, over whatever is there by then.
ManagerAccepts(l) ==
    /\ l \in accepting
    /\ accepting' = accepting \ {l}
    /\ Report("accepted")
    /\ UNCHANGED <<os, pc, kind, locks, ports, app, launches, faults>>

-----------------------------------------------------------------------------
\* runLauncher.

\* A restart while another one is under way says nothing and ends.
Coalesce(l) ==
    /\ pc[l] = "lock"
    /\ rlock # None
    /\ Goto(l, "off")
    /\ NoReport
    /\ UNCHANGED <<asked, locks, ports, app, faults>>

TakeRestartLock(l) ==
    /\ pc[l] = "lock"
    /\ rlock = None
    /\ rlock' = l
    /\ Goto(l, "guard")
    /\ NoReport
    /\ UNCHANGED <<asked, guard, ports, app, faults>>

TakeGuard(l) ==
    /\ pc[l] = "guard"
    /\ guard = None
    /\ guard' = l
    /\ Goto(l, IF kind[l] = "restart" THEN "prepare" ELSE "quit")
    /\ NoReport
    /\ UNCHANGED <<asked, rlock, ports, app, faults>>

\* The guard is held: a restart closes the holder's ChatGPT, a launch ends.
GuardBusy(l) ==
    /\ pc[l] = "guard"
    /\ guard # None
    /\ Goto(l, IF kind[l] = "restart" THEN "prepare" ELSE "off")
    /\ NoReport
    /\ UNCHANGED <<asked, locks, ports, app, faults>>

\* prepareFullRestartBeforeLaunch.
Prepare(l) ==
    /\ pc[l] = "prepare"
    /\ Report("restarting")
    /\ Goto(l, "close")
    /\ UNCHANGED <<asked, locks, ports, app, faults>>

\* Through CDP, by a quit event, by killing what is left.
Close(l) ==
    /\ pc[l] = "close"
    /\ app' = None
    /\ Goto(l, "debugPort")
    /\ NoReport
    /\ UNCHANGED <<asked, locks, ports, faults>>

DebugPortFree(l) ==
    /\ pc[l] = "debugPort"
    /\ app = None
    /\ Goto(l, "otherPorts")
    /\ NoReport
    /\ UNCHANGED <<asked, locks, ports, app, faults>>

\* Helper and relay ports, and elsewhere than on Windows the guard's.
OtherPortsFree(l) ==
    /\ pc[l] = "otherPorts"
    /\ ports = {}
    /\ Windows \/ guard \in {None, l}
    /\ Report("restarting")
    /\ Goto(l, IF guard = l THEN "quit" ELSE "await")
    /\ UNCHANGED <<asked, locks, ports, app, faults>>

\* waitForLauncherSingleInstanceLock.
TakeGuardAgain(l) ==
    /\ pc[l] = "await"
    /\ guard = None
    /\ guard' = l
    /\ Goto(l, "quit")
    /\ NoReport
    /\ UNCHANGED <<asked, rlock, ports, app, faults>>

\* Mutant of GiveUp: the launcher ends without a word.
GiveUpSilently(l) ==
    /\ pc[l] \in {"close", "debugPort", "otherPorts", "await"}
    /\ Goto(l, "shutdown")
    /\ NoReport
    /\ UNCHANGED <<asked, locks, ports, app, faults>>

\* Mutant of GiveUp: the wait for the guard has no deadline.
GiveUpButAwait(l) ==
    /\ pc[l] \in {"close", "debugPort", "otherPorts"}
    /\ Report("failed")
    /\ Goto(l, "shutdown")
    /\ UNCHANGED <<asked, locks, ports, app, faults>>

\* A deadline of the restart passes.
GiveUp(l) ==
    /\ pc[l] \in {"close", "debugPort", "otherPorts", "await"}
    /\ Report("failed")
    /\ Goto(l, "shutdown")
    /\ UNCHANGED <<asked, locks, ports, app, faults>>

\* An error of the guard, of the preparations, of a port or of the start.
Fail(l) ==
    /\ pc[l] \in {"guard", "prepare", "helper", "start"}
    /\ faults < MaxFaults
    /\ faults' = faults + 1
    /\ Report("failed")
    /\ Goto(l, "shutdown")
    /\ UNCHANGED <<asked, locks, ports, app>>

\* A ChatGPT that answers no CDP request is told to quit, or any at a restart.
Quit(l) ==
    /\ pc[l] = "quit"
    /\ app' \in IF Windows THEN {app} ELSE {app, None}
    /\ Goto(l, "helper")
    /\ NoReport
    /\ UNCHANGED <<asked, locks, ports, faults>>

Listen(l) ==
    /\ pc[l] = "helper"
    /\ ports' = ports \cup {l}
    /\ Report("starting")
    /\ Goto(l, "start")
    /\ UNCHANGED <<asked, locks, app, faults>>

\* startCodexApp: a ChatGPT that still runs is joined, or the start fails.
StartApp(l) ==
    /\ pc[l] = "start"
    /\ \/ app' = (IF app = None THEN l ELSE app) /\ NoReport /\ Goto(l, "inject")
       \/ app # None /\ UNCHANGED app /\ Report("failed") /\ Goto(l, "shutdown")
    /\ UNCHANGED <<asked, locks, ports, faults>>

\* Mutant of Ready: the restart lock is kept as long as ChatGPT runs.
ReadyLocked(l) ==
    /\ pc[l] = "inject"
    /\ \E status \in {"running", "degraded"} : Report(status)
    /\ Goto(l, "running")
    /\ UNCHANGED <<asked, locks, ports, app, faults>>

Ready(l) ==
    /\ pc[l] = "inject"
    /\ \E status \in {"running", "degraded"} : Report(status)
    /\ rlock' = IF rlock = l THEN None ELSE rlock
    /\ Goto(l, "running")
    /\ UNCHANGED <<asked, guard, ports, app, faults>>

\* reapLauncherChild: the child ends; as long as a CDP target answers ChatGPT
\* runs on.
ChildEnds(l) ==
    /\ pc[l] = "running"
    /\ app # None
    /\ Report("running")
    /\ UNCHANGED <<pc, asked, locks, ports, app, faults>>

Reap(l) ==
    /\ pc[l] = "running"
    /\ app = None
    /\ \E status \in {"exited", "failed"} : Report(status)
    /\ Goto(l, "shutdown")
    /\ UNCHANGED <<asked, locks, ports, app, faults>>

\* Mutant of Shutdown: the guard is given back before the ports are closed.
ShutdownGuardFirst(l) ==
    /\ pc[l] = "shutdown"
    /\ guard' = IF guard = l THEN None ELSE guard
    /\ Goto(l, "release")
    /\ NoReport
    /\ UNCHANGED <<asked, rlock, ports, app, faults>>

\* The deferred calls, last first: relay proxy and helper, guard, restart lock.
Shutdown(l) ==
    /\ pc[l] = "shutdown"
    /\ ports' = ports \ {l}
    /\ Goto(l, "release")
    /\ NoReport
    /\ UNCHANGED <<asked, locks, app, faults>>

Release(l) ==
    /\ pc[l] = "release"
    /\ guard' = IF guard = l THEN None ELSE guard
    /\ rlock' = IF rlock = l THEN None ELSE rlock
    /\ Goto(l, "off")
    /\ NoReport
    /\ UNCHANGED <<asked, ports, app, faults>>

-----------------------------------------------------------------------------
\* The environment.

\* A launcher is killed: the system frees its locks and ports.
Crash(l) ==
    /\ pc[l] # "off"
    /\ faults < MaxFaults
    /\ faults' = faults + 1
    /\ guard' = IF guard = l THEN None ELSE guard
    /\ rlock' = IF rlock = l THEN None ELSE rlock
    /\ ports' = ports \ {l}
    /\ Goto(l, "off")
    /\ NoReport
    /\ UNCHANGED <<asked, app>>

AppExits ==
    /\ app # None
    /\ app' = None
    /\ UNCHANGED <<pc, asked, locks, ports, latest, waiting, faults>>

-----------------------------------------------------------------------------
Step(l) ==
    \/ Coalesce(l) \/ TakeRestartLock(l) \/ TakeGuard(l) \/ GuardBusy(l)
    \/ Prepare(l) \/ Close(l) \/ DebugPortFree(l) \/ OtherPortsFree(l)
    \/ TakeGuardAgain(l) \/ GiveUp(l) \/ Quit(l) \/ Listen(l) \/ StartApp(l)
    \/ Ready(l) \/ Reap(l) \/ Shutdown(l) \/ Release(l)

Next ==
    \/ AppExits
    \/ \E l \in Launchers :
          \/ \E k \in {"launch", "restart"} : Request(l, k)
          \/ ManagerGivesUp(l) \/ ManagerAccepts(l) \/ Step(l) \/ Fail(l) \/ ChildEnds(l) \/ Crash(l)

Spec == Init /\ [][Next]_vars

\* A launcher is scheduled, and its deadlines pass.
FairSpec == Spec /\ \A l \in Launchers : WF_vars(Step(l))

-----------------------------------------------------------------------------
\* Properties.

\* Helper and relay proxy listen only while their launcher has the guard, so
\* the next holder finds its ports free; and so for everything it starts.
PortsFollowGuard ==
    /\ \A l \in ports : guard = l
    /\ \A l \in Launchers : pc[l] \in Holding => guard = l

\* On Windows two restarts never fight: one is not closed by another between
\* the closing of the old ChatGPT and the report that its own is ready.
RestartsDoNotFight ==
    Windows =>
        \A l, k \in Launchers :
            kind[l] = "restart" /\ pc[l] \in Closing /\ kind[k] = "restart"
                /\ pc[k] \in Closing \cup Starting \cup {"await", "quit"} => l = k

\* A restart lock is not kept beyond the report of a ready ChatGPT: the user
\* can restart again.
RestartLockFreed == rlock # None => pc[rlock] \in Active \ {"lock", "running"}

\* Launchers take turns at the ports and at ChatGPT, restarts on Windows one at
\* a time, and the next one can always come.
RestartsTakeTurns == PortsFollowGuard /\ RestartsDoNotFight /\ RestartLockFreed

\* When every launcher has ended by itself, the last status does not promise
\* that something is going on.
StatusSettles ==
    faults = 0 /\ (\A l \in Launchers : pc[l] = "off") =>
        latest \notin {"restarting", "starting", "running", "degraded"}

\* The inductive invariant of the proofs: who listens has not yet shut down,
\* and on Windows a restart that may close or start ChatGPT has the lock.
ListenersAreUp ==
    \A l \in ports : pc[l] \in {"start", "inject", "running", "shutdown"}

RestartsAreLocked ==
    Windows =>
        \A l \in Launchers :
            kind[l] = "restart" /\ pc[l] \in Closing \cup Starting \cup {"guard", "await", "quit"}
                => rlock = l

\* A plain launch never has the restart lock.
LocksAreOfRestarts ==
    \A l \in Launchers : rlock = l \/ pc[l] = "lock" => kind[l] = "restart"

IInv ==
    /\ TypeOK /\ PortsFollowGuard /\ ListenersAreUp /\ RestartsAreLocked
    /\ LocksAreOfRestarts /\ RestartLockFreed

\* A status that promises something is the word of a launcher still at it.
AtWork == {"close", "debugPort", "otherPorts", "await", "quit", "running"} \cup Starting
WordIsKept ==
    faults = 0 /\ latest \in {"restarting", "starting", "running", "degraded"} =>
        \E l \in Launchers : pc[l] \in AtWork

\* A launcher that has started gets ChatGPT running or ends.
RequestsEnd ==
    \A l \in Launchers : pc[l] \in Active \ {"running"} ~> pc[l] \in {"off", "running"}
=============================================================================

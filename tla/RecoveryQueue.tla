--------------------------- MODULE RecoveryQueue ---------------------------
(***************************************************************************)
(* Recovery of a thread that Remote Control created under the provider     *)
(* "openai" (remote_control_recovery.go).  While the application runs, the *)
(* page asks for it: the thread is put in a queue file, and its rows in    *)
(* the databases are moved to the provider of the active profile at once.  *)
(* The rollout file, which the application holds, is moved by the next     *)
(* launch, which works the queue off before it starts the application.     *)
(*                                                                         *)
(* Each database is committed by itself, any step may fail (MaxFailures    *)
(* times), and the launcher may end between any two steps.                 *)
(***************************************************************************)
EXTENDS Naturals, FiniteSets

CONSTANTS
    Threads,
    Targets,      \* providers a mixed profile can have: ids, never "openai"
    NoTarget,     \* no mixed profile is active
    Databases,    \* 1 .. n, in the order of codexSessionDBPaths
    MaxFailures, MaxStarts   \* bounds

ASSUME RecoveryAssumption ==
    /\ Targets \cap {"", "openai", "missing"} = {} /\ NoTarget \notin Targets
    /\ IsFiniteSet(Databases) /\ Databases = 1 .. Cardinality(Databases)
    /\ MaxFailures \in Nat /\ MaxStarts \in Nat

VARIABLES
    rollout,      \* provider in the file of a thread
    catalog,      \* provider in its row, per database; "" has none, "missing" no row
    queue,        \* pending-remote-control-recovery.json: target, or NoTarget
    activeTarget, \* target of the active profile
    phase,        \* of the launcher: "down", "recovering", "running"
    rest,         \* threads the launch has not come to
    current,      \* what it does with one, and with which target
    done,         \* those it completed
    request,      \* of the page; at most one for a thread and a target is in flight
    damaged,      \* the queue file cannot be read
    accepted,     \* threads put in the queue
    failures, starts

queueVars == <<rollout, catalog, queue, activeTarget, phase, rest, current, done, request,
               damaged, accepted, failures, starts>>

Unrecovered == {"", "openai", "missing"}
NoRequest == [stage |-> "none", next |-> 1]
RequestKeys == Threads \X Targets
NoWork == [thread |-> "none", target |-> NoTarget, original |-> "none", next |-> 0]

RecoveryInit ==
    /\ rollout \in [Threads -> {"openai"}] /\ catalog \in [Threads -> [Databases -> Unrecovered]]
    /\ queue = [t \in Threads |-> NoTarget] /\ activeTarget \in Targets
    /\ phase = "running" /\ rest = {} /\ current = NoWork /\ done = {}
    /\ request = [k \in RequestKeys |-> NoRequest] /\ damaged = FALSE
    /\ accepted = {} /\ failures = 0 /\ starts = 0

Fails == failures < MaxFailures /\ failures' = failures + 1

\* updateRemoteControlCatalogDB: rows without another provider are moved, and
\* a thread without row gets one.
MovedRow(row, target) == IF row \in Unrecovered THEN target ELSE row
MoveRow(t, d, target) == catalog' = [catalog EXCEPT ![t][d] = MovedRow(@, target)]

------------------------------------------------------------------------------
\* The page asks: recoverRemoteControlSessionValue.

SwitchProfile(target) ==
    /\ phase = "running" /\ activeTarget' = target
    /\ UNCHANGED <<rollout, catalog, queue, phase, rest, current, done, request, damaged,
                   accepted, failures, starts>>

\* Settings, the in-flight table, and a recent file under "openai".
Ask(t) ==
    /\ phase = "running" /\ activeTarget # NoTarget /\ rollout[t] = "openai"
    /\ request[<<t, activeTarget>>].stage = "none"
    /\ request' = [request EXCEPT ![<<t, activeTarget>>].stage = "found"]
    /\ UNCHANGED <<rollout, catalog, queue, activeTarget, phase, rest, current, done, damaged,
                   accepted, failures, starts>>

\* enqueuePendingRemoteControlRecovery: a thread that is queued stays queued
\* as it is, even for another target; a damaged queue is set aside.
Enqueue(k) ==
    /\ request[k].stage = "found"
    /\ LET t == k[1]  held == [s \in Threads |-> IF damaged THEN NoTarget ELSE queue[s]]
       IN queue' = [held EXCEPT ![t] = IF @ = NoTarget THEN k[2] ELSE @]
    /\ damaged' = FALSE
    /\ request' = [request EXCEPT ![k].stage = "queued"]
    /\ accepted' = accepted \cup {k[1]}
    /\ UNCHANGED <<rollout, catalog, activeTarget, phase, rest, current, done, failures, starts>>

\* recoverRemoteControlSessionCatalog, one database after the other.
MoveCatalog(k) ==
    /\ request[k].stage = "queued"
    /\ MoveRow(k[1], request[k].next, k[2])
    /\ request' = IF request[k].next >= Cardinality(Databases) THEN [request EXCEPT ![k] = NoRequest]
                  ELSE [request EXCEPT ![k].next = @ + 1]
    /\ UNCHANGED <<rollout, queue, activeTarget, phase, rest, current, done, damaged, accepted,
                   failures, starts>>

\* A step of it failed and the page is told; a queued thread stays queued.
AskFails(k) ==
    /\ request[k].stage # "none" /\ Fails
    /\ request' = [request EXCEPT ![k] = NoRequest]
    /\ UNCHANGED <<rollout, catalog, queue, activeTarget, phase, rest, current, done, damaged,
                   accepted, starts>>

\* Somebody damages the file; what it held is lost to the code.
Damage ==
    /\ ~damaged /\ Fails /\ damaged' = TRUE /\ accepted' = {}
    /\ UNCHANGED <<rollout, catalog, queue, activeTarget, phase, rest, current, done, request, starts>>

------------------------------------------------------------------------------
\* The next launch: runPendingRemoteControlRecoveries, which gives up at once
\* when the queue cannot be read.

Launch ==
    /\ phase = "down" /\ phase' = IF damaged THEN "running" ELSE "recovering"
    /\ rest' = IF damaged THEN {} ELSE {t \in Threads : queue[t] # NoTarget}
    /\ done' = {} /\ current' = NoWork
    /\ UNCHANGED <<rollout, catalog, queue, activeTarget, request, damaged, accepted, failures, starts>>

Recovering == phase = "recovering"

\* remoteControlSessionChange found the file, and its metadata is rewritten.
Rewrite(t) ==
    /\ Recovering /\ current = NoWork /\ t \in rest
    /\ rest' = rest \ {t}
    /\ current' = [thread |-> t, target |-> queue[t], original |-> rollout[t], next |-> 1]
    /\ rollout' = [rollout EXCEPT ![t] = queue[t]]
    /\ UNCHANGED <<catalog, queue, activeTarget, phase, done, request, damaged, accepted, failures, starts>>

\* It was not found, could not be read or written: the request remains.
Skip(t) ==
    /\ Recovering /\ current = NoWork /\ t \in rest /\ Fails
    /\ rest' = rest \ {t}
    /\ UNCHANGED <<rollout, catalog, queue, activeTarget, phase, current, done, request, damaged, accepted, starts>>

MoveRows ==
    LET t == current.thread
    IN /\ Recovering /\ current # NoWork
       /\ MoveRow(t, current.next, current.target)
       /\ IF current.next >= Cardinality(Databases)
          THEN current' = NoWork /\ done' = done \cup {t}
          ELSE current' = [current EXCEPT !.next = @ + 1] /\ UNCHANGED done
       /\ UNCHANGED <<rollout, queue, activeTarget, phase, rest, request, damaged, accepted, failures, starts>>

\* A database refused: the file is rewritten back, if that works, and the
\* request remains.
RowsFail ==
    /\ Recovering /\ current # NoWork /\ Fails
    /\ \/ rollout' = [rollout EXCEPT ![current.thread] = current.original]
       \/ UNCHANGED rollout
    /\ current' = NoWork
    /\ UNCHANGED <<catalog, queue, activeTarget, phase, rest, done, request, damaged, accepted, starts>>

\* Mutant of Remaining: the queue is emptied whatever became of the requests.
RemainingNone == [t \in Threads |-> NoTarget]

\* What the queue keeps: every request that was not completed.
Remaining == [t \in Threads |-> IF t \in done THEN NoTarget ELSE queue[t]]

\* The queue file is written or removed, and the application is started; a
\* write that fails leaves all of them to the next launch.
Save ==
    /\ Recovering /\ current = NoWork /\ rest = {}
    /\ phase' = "running"
    /\ \/ queue' = Remaining /\ damaged' = FALSE /\ UNCHANGED failures
       \/ Fails /\ UNCHANGED <<queue, damaged>>
    /\ UNCHANGED <<rollout, catalog, activeTarget, rest, current, done, request, accepted, starts>>

\* The launcher ends, or is killed, at any point.
End ==
    /\ phase # "down" /\ starts < MaxStarts
    /\ starts' = starts + 1 /\ phase' = "down"
    /\ request' = [k \in RequestKeys |-> NoRequest]
    /\ rest' = {} /\ current' = NoWork /\ done' = {}
    /\ UNCHANGED <<rollout, catalog, queue, activeTarget, damaged, accepted, failures>>

LaunchSteps == Launch \/ (\E t \in Threads : Rewrite(t)) \/ MoveRows \/ Save

RecoveryNext ==
    \/ \E target \in Targets \cup {NoTarget} : SwitchProfile(target)
    \/ \E t \in Threads : Ask(t) \/ Skip(t)
    \/ \E k \in RequestKeys : Enqueue(k) \/ MoveCatalog(k) \/ AskFails(k)
    \/ Damage
    \/ RowsFail \/ End \/ LaunchSteps

RecoverySpec == RecoveryInit /\ [][RecoveryNext]_queueVars

------------------------------------------------------------------------------
Recovered(t) ==
    rollout[t] # "openai" /\ \A d \in Databases : catalog[t][d] \notin Unrecovered

\* A thread that was put in the queue is in it until its file and its rows in
\* every database are moved, whatever failed and wherever the launcher ended:
\* a half recovered thread is never forgotten (runPendingRemoteControlRecoveries).
RecoveryIsKept == \A t \in accepted : queue[t] # NoTarget \/ Recovered(t)

\* What a proof of it needs.  The variables keep their types.
RequestType == [stage : {"none", "found", "queued"}, next : Nat \ {0}]
WorkType == [thread : Threads, target : Targets, original : Targets \cup {"openai"}, next : Nat \ {0}]
RecoveryTypeOK ==
    /\ rollout \in [Threads -> Targets \cup {"openai"}]
    /\ catalog \in [Threads -> [Databases -> Targets \cup Unrecovered]]
    /\ queue \in [Threads -> Targets \cup {NoTarget}]
    /\ activeTarget \in Targets \cup {NoTarget}
    /\ phase \in {"down", "recovering", "running"}
    /\ rest \subseteq Threads /\ done \subseteq Threads /\ accepted \subseteq Threads
    /\ current \in WorkType \cup {NoWork}
    /\ request \in [RequestKeys -> RequestType]

\* A launch that recovers is alone with the queue; what it completed is moved
\* and was queued; what it is at is queued too, is neither waiting nor completed,
\* and its rows are moved up to the next database.
LaunchIsAlone ==
    /\ phase # "running" => \A k \in RequestKeys : request[k].stage = "none"
    /\ phase # "recovering" => rest = {} /\ current = NoWork
    /\ damaged => accepted = {}
CompletedIsMoved ==
    phase = "recovering" =>
        /\ \A t \in rest \cup done : queue[t] # NoTarget
        /\ rest \cap done = {} /\ \A t \in done : Recovered(t)
WorkIsQueued ==
    current # NoWork =>
        LET t == current.thread
        IN  /\ queue[t] # NoTarget /\ t \notin rest \cup done
            /\ rollout[t] # "openai"
            /\ \A d \in Databases : d < current.next => catalog[t][d] \notin Unrecovered
RecoveryIInv ==
    RecoveryTypeOK /\ LaunchIsAlone /\ CompletedIsMoved /\ WorkIsQueued /\ RecoveryIsKept
=============================================================================

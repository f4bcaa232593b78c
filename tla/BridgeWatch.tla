---------------------------- MODULE BridgeWatch ----------------------------
(***************************************************************************)
(* How the launcher keeps its bridge in the application's page             *)
(* (retryInjection, installBridge and bridgeWatchdog in bridge.go).  An    *)
(* installation opens a debugger session, asks for the events of its       *)
(* binding, registers its scripts for new documents and runs them in the   *)
(* one that is open; it leaves the session open, and what the session      *)
(* asked for ends with it.                                                 *)
(*                                                                         *)
(* The page is closed, loaded anew or slow, and sessions end, at most      *)
(* MaxTroubles times.  Sessions are numbered in the order they are opened. *)
(***************************************************************************)
EXTENDS Naturals, FiniteSets

CONSTANTS
    MaxAttempts,    \* attempts of an injection, 24 in the code
    MaxTroubles     \* bound

ASSUME BridgeAssumption == MaxAttempts \in Nat \ {0} /\ MaxTroubles \in Nat

VARIABLES
    page,        \* the page answers the debugger
    bridge,      \* the open document has the bridge: the script ran in it
    injected,    \* and the menus
    sessions,    \* the sessions of finished installations, still open
    session,     \* the one being installed, "none" or what it has done last
    watch,       \* what the launcher does: "injecting", "resting" or "checking"
    attempts, troubles

bridgeVars == <<page, bridge, injected, sessions, session, watch, attempts, troubles>>

BridgeInit ==
    /\ page \in BOOLEAN /\ bridge = FALSE /\ injected = FALSE
    /\ sessions = 0 /\ session = "none"
    /\ watch = "injecting" /\ attempts = 0 /\ troubles = 0

\* Somebody listens to the binding: a session between addBinding and its end.
Bound == sessions > 0 \/ session \in {"bound", "registered", "bridged"}
Works == page /\ bridge /\ injected /\ sessions > 0

------------------------------------------------------------------------------
\* The application.
Trouble == troubles < MaxTroubles /\ troubles' = troubles + 1

\* The scripts registered by the sessions run in a new document.
Reload ==
    /\ Trouble /\ page
    /\ bridge' = (sessions > 0 \/ session \in {"registered", "bridged"})
    /\ injected' = (sessions > 0)
    /\ UNCHANGED <<page, sessions, session, watch, attempts>>

PageCloses ==
    /\ Trouble /\ page
    /\ page' = FALSE /\ bridge' = FALSE /\ injected' = FALSE
    /\ sessions' = 0 /\ session' = IF session = "none" THEN "none" ELSE "broken"
    /\ UNCHANGED <<watch, attempts>>

PageOpens ==
    /\ ~page /\ page' = TRUE
    /\ UNCHANGED <<bridge, injected, sessions, session, watch, attempts, troubles>>

SessionLost ==
    /\ Trouble /\ UNCHANGED <<page, bridge, injected, watch, attempts>>
    /\ \/ sessions > 0 /\ sessions' = sessions - 1 /\ UNCHANGED session
       \/ session \notin {"none", "broken"} /\ session' = "broken" /\ UNCHANGED sessions

------------------------------------------------------------------------------
\* retryInjection and installBridge.
Injecting == watch = "injecting"

\* listCDPTargets, pickCDPPageTarget, the connection and Runtime.enable.
Connect ==
    /\ Injecting /\ session = "none" /\ page /\ session' = "connected"
    /\ UNCHANGED <<page, bridge, injected, sessions, watch, attempts, troubles>>

AddBinding ==
    /\ Injecting /\ session = "connected" /\ session' = "bound"
    /\ UNCHANGED <<page, bridge, injected, sessions, watch, attempts, troubles>>

RegisterBridge ==
    /\ Injecting /\ session = "bound" /\ session' = "registered"
    /\ UNCHANGED <<page, bridge, injected, sessions, watch, attempts, troubles>>

\* The script replaces the page's functions and forgets the calls that wait.
RunBridge ==
    /\ Injecting /\ session = "registered" /\ session' = "bridged" /\ bridge' = TRUE
    /\ UNCHANGED <<page, injected, sessions, watch, attempts, troubles>>

\* The menus and the user's scripts, registered and run.  The session stays
\* open; the sessions of earlier installations are not closed.
RunScripts ==
    /\ Injecting /\ session = "bridged"
    /\ session' = "none" /\ injected' = TRUE /\ sessions' = sessions + 1
    /\ watch' = "resting" /\ attempts' = 0
    /\ UNCHANGED <<page, bridge, troubles>>

NextAttempt ==
    IF attempts + 1 = MaxAttempts
    THEN watch' = "resting" /\ attempts' = 0
    ELSE attempts' = attempts + 1 /\ UNCHANGED watch

\* A step fails: because there is no page or no session any more, or by itself.
AttemptFails ==
    /\ Injecting /\ session' = "none" /\ NextAttempt
    /\ \/ session = "none" /\ ~page /\ UNCHANGED troubles
       \/ session = "broken" /\ UNCHANGED troubles
       \/ session # "broken" /\ page /\ Trouble
    /\ UNCHANGED <<page, bridge, injected, sessions>>

------------------------------------------------------------------------------
\* bridgeWatchdog: every tick asks the page to call the launcher back.
Tick ==
    /\ watch = "resting" /\ watch' = "checking"
    /\ UNCHANGED <<page, bridge, injected, sessions, session, attempts, troubles>>

\* Mutant of Healthy: a bridge that is there is healthy, answered or not.
HealthyUnanswered ==
    /\ watch = "checking" /\ page /\ bridge /\ watch' = "resting"
    /\ UNCHANGED <<page, bridge, injected, sessions, session, attempts, troubles>>

\* bridgeHealthy: the page has a bridge that is answered.
Healthy ==
    /\ watch = "checking" /\ page /\ bridge /\ Bound /\ watch' = "resting"
    /\ UNCHANGED <<page, bridge, injected, sessions, session, attempts, troubles>>

\* It has none, or did not answer in two seconds.
Unhealthy ==
    /\ watch = "checking" /\ watch' = "injecting"
    /\ IF page /\ bridge /\ Bound THEN Trouble ELSE UNCHANGED troubles
    /\ UNCHANGED <<page, bridge, injected, sessions, session, attempts>>

BridgeSteps ==
    \/ Connect \/ AddBinding \/ RegisterBridge \/ RunBridge \/ RunScripts
    \/ AttemptFails \/ Tick \/ Healthy \/ Unhealthy

BridgeNext == Reload \/ PageCloses \/ PageOpens \/ SessionLost \/ BridgeSteps

\* The launcher's goroutine goes on; nothing is asked of the page.
BridgeFairness == WF_bridgeVars(BridgeSteps)
BridgeSpec == BridgeInit /\ [][BridgeNext]_bridgeVars /\ BridgeFairness

------------------------------------------------------------------------------
\* After the last trouble a page that stays open has a bridge that is answered
\* and the menus for good: an injection that failed is tried again by the
\* watchdog, however it failed (launcher.go:248, bridgeWatchdog).
BridgeComesBack == <>[]page => <>[]Works
=============================================================================

----------------------------- MODULE RelaySwitch -----------------------------
(***************************************************************************)
(* Switching the provider of ChatGPT/Codex (relay.go, settings.go, and the *)
(* switch flow of the manager's page in App.tsx).  There is one set of     *)
(* live files - config.toml, auth.json, a model catalog - and settings.json*)
(* holds a snapshot of them for every profile.  A switch copies the live   *)
(* files into the profile it leaves, saves the settings with the new       *)
(* profile active, writes that profile's snapshot over the live files and  *)
(* saves the settings again.  Between switches the user binds, unbinds,    *)
(* imports, activates and clears logins; the application refreshes and     *)
(* changes them.  Any step may fail and the manager may die at any point.  *)
(*                                                                         *)
(* Of a config.toml only what a switch must not get wrong is kept: the     *)
(* model catalog it names and the hook approvals in hooks.state; it may be *)
(* missing, or spoiled by the user so that it cannot be parsed.  An        *)
(* aggregate profile switches as a pure API one.                           *)
(***************************************************************************)
EXTENDS Naturals

CONSTANTS
    Profiles, Logins, Accounts, None,
    AccountOf,        \* the ChatGPT account of each login
    ModeOf,           \* the relayMode of each profile
    CatalogProfiles,  \* the profiles with a model list of their own
    Approvals,        \* contents of hooks.state
    Unparsable, NoConfig, \* in their place: a text that does not parse, no file
    RaceWindow,       \* may the application start or write within a switch?
    MaxFaults, MaxOps \* bounds: failing steps; switches and other operations

ASSUME ConstantsAssumption ==
    /\ None \notin Profiles \cup Logins \cup Approvals
    /\ Unparsable # NoConfig /\ {Unparsable, NoConfig} \cap (Approvals \cup {None}) = {}
    /\ AccountOf \in [Logins -> Accounts]
    /\ ModeOf \in [Profiles -> {"official", "mixedApi", "pureApi"}]
    /\ CatalogProfiles \subseteq Profiles
    /\ RaceWindow \in BOOLEAN
    /\ MaxFaults \in Nat /\ MaxOps \in Nat

VARIABLES
    named,      \* the profile whose catalog config.toml names
    approvals,  \* hooks.state in config.toml, or Unparsable or NoConfig
    auth,       \* the login in auth.json
    catalogs,   \* the profiles whose catalog is on disk
    backups,    \* the logins in official-auth-backups
    disk,       \* settings.json
    form,       \* the settings the page holds
    next,       \* the settings a switch is about to save, or None
    saved,      \* the live files captured before they are written, or None
    pc,         \* where the switch is
    entry,      \* the login in use when a switch to another profile, or a
                \* clearing of auth.json, began
    app,        \* is the application running?
    rollback,   \* has a step of a rollback failed?
    faults, ops

live == <<named, approvals, auth, catalogs>>
vars == <<live, backups, disk, form, next, saved, pc, entry, app, rollback, faults, ops>>

ConfigTexts == Approvals \cup {None, Unparsable}
Settings == [active : Profiles,
             approvals : [Profiles -> ConfigTexts],
             bound : [Profiles -> Logins \cup {None}]]
Live == [named : Profiles \cup {None}, approvals : ConfigTexts \cup {NoConfig},
         auth : Logins \cup {None}, catalogs : SUBSET Profiles]

Writing == {"catalog", "config", "auth"}
Undoing == {"undoAuth", "undoConfig", "undoCatalog"}
Switching == {"save", "prepare", "lock", "maintain", "mode", "undone"} \cup Writing \cup Undoing

TypeOK ==
    /\ [named |-> named, approvals |-> approvals, auth |-> auth, catalogs |-> catalogs] \in Live
    /\ backups \subseteq Logins
    /\ disk \in Settings /\ form \in Settings
    /\ next \in Settings \cup {None}
    /\ saved \in Live \cup {None}
    /\ pc \in Switching \cup {"idle", "remove"}
    /\ entry \in Logins \cup {None}
    /\ app \in {"off", "running"}
    /\ rollback \in {"ok", "failed"}
    /\ faults \in 0 .. MaxFaults /\ ops \in 0 .. MaxOps

Pure(p) == ModeOf[p] = "pureApi"
Target == disk.active

\* migrateOfficialAuthBinding, a part of every loadSettings: an active profile
\* without a login is bound to the one in auth.json, and that is saved.
Migrated(s) ==
    IF s.bound[s.active] = None THEN [s EXCEPT !.bound[s.active] = auth] ELSE s

Init ==
    /\ named = None /\ catalogs = {} /\ backups = {}
    /\ approvals \in Approvals \cup {None}
    /\ auth \in Logins \cup {None}
    /\ \E s \in Settings :
          /\ s.approvals = [p \in Profiles |-> None]
          /\ disk = Migrated(s)
    /\ form = disk /\ next = None /\ saved = None
    /\ pc = "idle"
    /\ entry = None
    /\ app = "off"
    /\ rollback = "ok"
    /\ faults = 0 /\ ops = 0

Fault == faults < MaxFaults /\ faults' = faults + 1
Operation == ops < MaxOps /\ ops' = ops + 1
Goto(loc) == pc' = loc
Stored(s) == disk' = s /\ form' = s

-----------------------------------------------------------------------------
\* The page: switchRelayProfile.

\* Mutant of Backfilled: the profile left keeps its old snapshot.
BackfilledNot(s, p) == s

\* updateRelayProfileSnapshot: the live files become the snapshot of p.
Backfilled(s, p) ==
    [s EXCEPT !.approvals[p] = IF approvals = NoConfig THEN None ELSE approvals,
              !.bound[p] = auth]

\* The user picks q.  Its config is generated anew, unless it is official; the
\* profile that was active gets the live files first.
Choose(q) ==
    LET p == form.active
        generated == IF ModeOf[q] = "official" THEN form.approvals[q] ELSE None
        prepared == [form EXCEPT !.active = q, !.approvals[q] = generated]
    IN  /\ pc = "idle" /\ Operation
        /\ next' = IF p = q THEN prepared ELSE Backfilled(prepared, p)
        /\ Pure(q) \/ next'.bound[q] # None
        /\ entry' = IF p = q THEN None ELSE auth
        /\ Goto("save")
        /\ UNCHANGED <<live, backups, disk, form, saved, app, rollback, faults>>

\* save_settings, whose answer is a fresh loadSettings.
SaveChoice ==
    /\ pc = "save"
    /\ Stored(Migrated(next))
    /\ next' = None
    /\ Goto("prepare")
    /\ UNCHANGED <<live, backups, saved, entry, app, rollback, faults, ops>>

\* The last step of the page: the launch mode, saved with the whole of the
\* settings the first save had returned.
SaveMode ==
    /\ pc = "mode"
    /\ Stored(Migrated(form))
    /\ Goto("idle")
    /\ UNCHANGED <<live, backups, next, saved, entry, app, rollback, faults, ops>>

-----------------------------------------------------------------------------
\* applyRelayInjection and clearRelayInjection.

SameAccount(l, m) == AccountOf[l] = AccountOf[m]

\* refreshRelayOfficialAuthFromCurrent: the current login replaces a stored one
\* of the same account.
Refreshed(s) ==
    LET stored == s.bound[s.active]
    IN  IF /\ ~Pure(s.active) /\ auth # None
           /\ stored = None \/ SameAccount(stored, auth)
        THEN [s EXCEPT !.bound[s.active] = auth] ELSE s

\* The profile's snapshot is completed and saved before the lock is asked for.
\* That an official or mixed profile has a login was looked at in Choose.
Prepare ==
    /\ pc = "prepare"
    /\ disk' = Refreshed(Migrated(disk))
    /\ Goto("lock")
    /\ UNCHANGED <<live, backups, form, next, saved, entry, app, rollback, faults, ops>>

\* The maintenance lock is held by somebody, or the application runs.
Refused ==
    /\ pc = "lock"
    /\ Goto("idle")
    /\ UNCHANGED <<live, backups, disk, form, next, saved, entry, app, rollback, faults, ops>>

\* The lock is taken, no writer seen, the new contents are made up, the live
\* files captured and config.toml backed up.
Capture ==
    /\ pc = "lock" /\ app = "off"
    /\ saved' = [named |-> named, approvals |-> approvals, auth |-> auth,
                 catalogs |-> catalogs]
    /\ Goto("catalog")
    /\ UNCHANGED <<live, backups, disk, form, next, entry, app, rollback, faults, ops>>

\* preserveLiveHookState: whatever the snapshot approves, the live state stays,
\* if there is one and both texts can be parsed.
PreserveLiveHookState(snapshot, current) ==
    IF current = NoConfig \/ Unparsable \in {snapshot, current} THEN snapshot ELSE current

WriteCatalog ==
    /\ pc = "catalog"
    /\ catalogs' = catalogs \cup ({Target} \cap CatalogProfiles)
    /\ Goto("config")
    /\ UNCHANGED <<named, approvals, auth, backups, disk, form, next, saved, entry, app,
                   rollback, faults, ops>>

WriteConfig ==
    /\ pc = "config"
    /\ named' = IF Target \in CatalogProfiles THEN Target ELSE None
    /\ approvals' = PreserveLiveHookState(disk.approvals[Target], saved.approvals)
    /\ Goto("auth")
    /\ UNCHANGED <<auth, catalogs, backups, disk, form, next, saved, entry, app, rollback,
                   faults, ops>>

\* Mutant of WritesAuth: a pure API switch restores its stored login too.
WritesAuthAlways == disk.bound[Target] # None

WritesAuth == ~Pure(Target) /\ disk.bound[Target] # None

WriteAuth ==
    /\ pc = "auth"
    /\ auth' = IF WritesAuth THEN disk.bound[Target] ELSE auth
    /\ Goto("maintain")
    /\ UNCHANGED <<named, approvals, catalogs, backups, disk, form, next, saved, entry, app,
                   rollback, faults, ops>>

\* repairCodexConfig and the provider sync; whatever comes of them, the lock
\* is given back and the page goes on.
Maintain ==
    /\ pc = "maintain"
    /\ saved' = None
    /\ Goto("mode")
    /\ UNCHANGED <<live, backups, disk, form, next, entry, app, rollback, faults, ops>>

\* A step that fails before anything is written: save, snapshot, backup.
StepFails ==
    /\ pc \in {"save", "prepare", "lock", "mode", "remove"}
    /\ Fault
    /\ next' = None
    /\ Goto("idle")
    /\ UNCHANGED <<live, backups, disk, form, saved, entry, app, rollback, ops>>

\* A live file is left out when the profile has nothing for it.
Listed == {"config"} \cup (IF Target \in CatalogProfiles THEN {"catalog"} ELSE {})
                     \cup (IF WritesAuth THEN {"auth"} ELSE {})

\* Mutant of UndoFrom: config.toml is not restored.
UndoFromCatalog(loc) == "undoCatalog"

\* Mutant of UndoFrom: nothing is restored.
UndoFromNothing(loc) == "undone"

\* Where the rollback begins: at the file whose write failed.
UndoFrom(loc) ==
    CASE loc = "auth" -> "undoAuth" [] loc = "config" -> "undoConfig"
      [] OTHER -> "undoCatalog"

\* A write fails and leaves its file as it was; it is undone all the same,
\* then those before it in reverse order.
WriteFails ==
    /\ pc \in Writing \cap Listed
    /\ Fault
    /\ Goto(UndoFrom(pc))
    /\ UNCHANGED <<live, backups, disk, form, next, saved, entry, app, rollback, ops>>

UndoAuth ==
    /\ pc = "undoAuth"
    /\ auth' = saved.auth
    /\ Goto("undoConfig")
    /\ UNCHANGED <<named, approvals, catalogs, backups, disk, form, next, saved, entry, app,
                   rollback, faults, ops>>

UndoConfig ==
    /\ pc = "undoConfig"
    /\ named' = saved.named /\ approvals' = saved.approvals
    /\ Goto("undoCatalog")
    /\ UNCHANGED <<auth, catalogs, backups, disk, form, next, saved, entry, app, rollback,
                   faults, ops>>

UndoCatalog ==
    /\ pc = "undoCatalog"
    /\ catalogs' = saved.catalogs
    /\ Goto("undone")
    /\ UNCHANGED <<named, approvals, auth, backups, disk, form, next, saved, entry, app,
                   rollback, faults, ops>>

\* A restore fails: the rest is restored, and the answer says so.
UndoFails ==
    /\ \/ pc = "undoAuth" /\ Goto("undoConfig")
       \/ pc = "undoConfig" /\ Goto("undoCatalog")
       \/ pc = "undoCatalog" /\ "catalog" \in Listed /\ Goto("undone")
    /\ Fault
    /\ rollback' = "failed"
    /\ UNCHANGED <<live, backups, disk, form, next, saved, entry, app, ops>>

\* The page reports the failed switch; its settings stay as saved.
ReportFailure ==
    /\ pc = "undone"
    /\ saved' = None
    /\ Goto("idle")
    /\ UNCHANGED <<live, backups, disk, form, next, entry, app, rollback, faults, ops>>

\* The manager dies; a new one loads the settings.
Crash ==
    /\ pc # "idle"
    /\ Fault
    /\ Stored(Migrated(disk))
    /\ next' = None /\ saved' = None
    /\ Goto("idle")
    /\ UNCHANGED <<live, backups, entry, app, rollback, ops>>

-----------------------------------------------------------------------------
\* The other operations on logins.  What they replace is the user's choice.

BetweenSwitches == pc = "idle" /\ Operation /\ entry' = None

\* bindOfficialAuth.
Bind(p) ==
    /\ BetweenSwitches
    /\ auth # None
    /\ Stored([Migrated(disk) EXCEPT !.bound[p] = auth])
    /\ UNCHANGED <<live, backups, next, saved, pc, app, rollback, faults>>

\* unbindOfficialAuth; its answer is a fresh loadSettings.
Unbind(p) ==
    /\ BetweenSwitches
    /\ Stored(Migrated([Migrated(disk) EXCEPT !.bound[p] = None]))
    /\ UNCHANGED <<live, backups, next, saved, pc, app, rollback, faults>>

\* importCurrentRelayFiles.
ImportCurrent(p) ==
    /\ BetweenSwitches
    /\ Stored(Migrated(Backfilled(Migrated(disk), p)))
    /\ UNCHANGED <<live, backups, next, saved, pc, app, rollback, faults>>

\* activateOfficialAuth: the stored login over auth.json, at any time.
Activate(p) ==
    /\ BetweenSwitches
    /\ Migrated(disk).bound[p] # None
    /\ auth' = Migrated(disk).bound[p]
    /\ Stored(Migrated(disk))
    /\ UNCHANGED <<named, approvals, catalogs, backups, next, saved, pc, app, rollback, faults>>

\* Its write is not atomic: what it leaves when it fails is no login.
ActivateTorn(p) ==
    /\ BetweenSwitches
    /\ Migrated(disk).bound[p] # None
    /\ Fault
    /\ auth' = None
    /\ Stored(Migrated(disk))
    /\ UNCHANGED <<named, approvals, catalogs, backups, next, saved, pc, app, rollback>>

\* clearCurrentOfficialAuth: first a copy, then auth.json goes.
BackUpLogin ==
    /\ pc = "idle" /\ Operation
    /\ auth # None
    /\ backups' = backups \cup {auth}
    /\ entry' = auth
    /\ Goto("remove")
    /\ UNCHANGED <<live, disk, form, next, saved, app, rollback, faults>>

RemoveLogin ==
    /\ pc = "remove"
    /\ auth' = None
    /\ Goto("idle")
    /\ UNCHANGED <<named, approvals, catalogs, backups, disk, form, next, saved, entry, app,
                   rollback, faults, ops>>

\* The user spoils, mends or removes config.toml.
EditConfig(a) ==
    /\ pc = "idle" /\ Operation
    /\ approvals # a /\ {approvals, a} \cap {Unparsable, NoConfig} # {}
    /\ approvals' = a
    /\ named' = IF a = NoConfig THEN None ELSE named
    /\ UNCHANGED <<auth, catalogs, backups, disk, form, next, saved, pc, entry, app, rollback,
                   faults>>

\* Any command that loads the settings, and the page that shows them.
Reload ==
    /\ pc = "idle"
    /\ Stored(Migrated(disk))
    /\ UNCHANGED <<live, backups, next, saved, pc, entry, app, rollback, faults, ops>>

-----------------------------------------------------------------------------
\* The application.

AppMayAct == pc = "idle" \/ RaceWindow

AppStarts ==
    /\ app = "off" /\ AppMayAct
    /\ app' = "running"
    /\ UNCHANGED <<live, backups, disk, form, next, saved, pc, entry, rollback, faults, ops>>

AppQuits ==
    /\ app = "running"
    /\ app' = "off"
    /\ UNCHANGED <<live, backups, disk, form, next, saved, pc, entry, rollback, faults, ops>>

\* A token is refreshed, another account signs in, or the user signs out.
AppLogin(l) ==
    /\ app = "running" /\ AppMayAct /\ Operation
    /\ auth' = l
    /\ entry' = None
    /\ UNCHANGED <<named, approvals, catalogs, backups, disk, form, next, saved, pc, app,
                   rollback, faults>>

AppApproves(a) ==
    /\ app = "running" /\ AppMayAct /\ Operation
    /\ approvals # Unparsable
    /\ approvals' = a
    /\ UNCHANGED <<named, auth, catalogs, backups, disk, form, next, saved, pc, entry, app,
                   rollback, faults>>

Switch ==
    \/ \E q \in Profiles : Choose(q)
    \/ SaveChoice \/ Prepare \/ Refused \/ Capture
    \/ WriteCatalog \/ WriteConfig \/ WriteAuth \/ Maintain \/ SaveMode
    \/ StepFails \/ WriteFails \/ UndoAuth \/ UndoConfig \/ UndoCatalog \/ UndoFails
    \/ ReportFailure \/ Crash

UserStep ==
    \/ \E p \in Profiles :
          Unbind(p) \/ Bind(p) \/ ImportCurrent(p) \/ Activate(p) \/ ActivateTorn(p)
    \/ \E a \in ConfigTexts \cup {NoConfig} : EditConfig(a)
    \/ BackUpLogin \/ RemoveLogin \/ Reload

AppStep ==
    \/ AppStarts \/ AppQuits
    \/ \E l \in Logins \cup {None} : AppLogin(l)
    \/ \E a \in Approvals \cup {None} : AppApproves(a)

Next == Switch \/ UserStep \/ AppStep

Spec == Init /\ [][Next]_vars

-----------------------------------------------------------------------------
\* Properties.

Bound(s) == {s.bound[p] : p \in Profiles}
Kept == {auth} \cup Bound(disk) \cup backups

\* The login in use when a switch to another profile, or a clearing of
\* auth.json, began is still somewhere - in auth.json, a profile or a backup -
\* whatever fails and wherever the manager dies, until the user or the
\* application puts another one in its place (relay.go:634-653, 822-877,
\* 722-750).
LoginInUseSurvives == entry # None => entry \in Kept

\* config.toml never names a model catalog that is not on disk, also within a
\* switch, its rollback and after a crash, unless a rollback failed half-way
\* (relay.go:391-430, 500-525).
CatalogPresent == rollback = "ok" /\ named # None => named \in catalogs

\* A switch whose writing failed leaves the live files as it found them
\* (relay.go:420-430).
FailedSwitchUndone ==
    pc = "undone" /\ rollback = "ok" =>
        saved = [named |-> named, approvals |-> approvals, auth |-> auth,
                 catalogs |-> catalogs]

\* Only the running application changes which hooks are approved: no switch,
\* rollback or snapshot brings old approvals back or drops new ones, unless
\* config.toml is missing or it or the snapshot cannot be parsed
\* (relay.go:385-387, 433-457).
ApprovalsKept ==
    [][approvals' # approvals =>
         \/ app = "running"
         \/ {approvals, approvals'} \cap {Unparsable, NoConfig} # {}]_vars

\* A switch to a pure API profile never touches auth.json ("Preserves the
\* current ChatGPT login when switching into pure API relay mode",
\* release-notes/RELEASE_NOTES_v1.1.34.md:5).
PureKeepsLogin ==
    [][(pc \in Switching \ {"save"} /\ Pure(Target)) => auth' = auth]_vars

\* A switch leaves alone what is not its own: approvals, always, and the login,
\* if the profile chosen does not need one (relay.go:399-402, 433-457).
OthersUntouched == ApprovalsKept /\ PureKeepsLogin

\* A switch changes which profile is active and never makes the manager forget
\* an account: every profile has a snapshot of its own ("各自独立快照",
\* web/src/App.tsx:4347).
SwitchForgetsNoAccount ==
    [][(pc \in Switching) =>
         \A l \in Kept \ {None} : \E m \in Kept' \ {None} : SameAccount(l, m)]_vars

-----------------------------------------------------------------------------
\* The inductive invariant.

InFlight == pc \in Writing \cup Undoing \cup {"undone"}

\* What next and saved hold while they are in use.
Held ==
    /\ pc = "save" => next \in Settings
    /\ InFlight => saved \in Live

\* Where the login in use at the beginning is kept at each stage.
EntryKept ==
    /\ LoginInUseSurvives
    /\ pc \in Switching \ {"save"} => form.active = disk.active
    /\ entry # None /\ pc = "save" =>
          /\ auth = entry
          /\ \E p \in Profiles \ {next.active} : next.bound[p] = entry
    /\ entry # None /\ pc \in Switching \ {"save"} =>
          \E p \in Profiles \ {disk.active} : disk.bound[p] = entry /\ form.bound[p] = entry
    /\ entry # None /\ pc = "remove" => entry \in backups

\* Catalogs are added before config.toml names them and go after it.
CatalogsLead ==
    rollback = "ok" =>
        /\ CatalogPresent
        /\ InFlight => /\ saved.named # None => saved.named \in saved.catalogs
                       /\ saved.catalogs \subseteq catalogs
        /\ pc \in {"config", "auth"} /\ Target \in CatalogProfiles => Target \in catalogs
        /\ pc \in {"catalog", "config", "undoCatalog", "undone"} => named = saved.named

\* Without the application, a file not yet written or already restored is as
\* it was captured.
AsCaptured ==
    ~RaceWindow =>
        /\ InFlight =>
              approvals \in {saved.approvals,
                            PreserveLiveHookState(disk.approvals[Target], saved.approvals)}
        /\ pc \in {"catalog", "config"} => approvals = saved.approvals
        /\ InFlight /\ Pure(Target) => auth = saved.auth
        /\ pc \in {"catalog", "config", "auth"} => auth = saved.auth
        /\ pc = "catalog" => catalogs = saved.catalogs
        /\ rollback = "ok" =>
              /\ pc \in {"undoConfig", "undoCatalog", "undone"} => auth = saved.auth
              /\ pc \in {"undoCatalog", "undone"} => approvals = saved.approvals
              /\ pc = "undone" => catalogs = saved.catalogs

IInv == TypeOK /\ Held /\ EntryKept /\ CatalogsLead /\ AsCaptured
=============================================================================

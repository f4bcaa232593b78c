---------------------------- MODULE SettingsStore ----------------------------
(***************************************************************************)
(* The settings file (settings.go): read, changed and written without a    *)
(* lock by the manager, by the launchers, and by the goroutines that serve *)
(* calls of the page (bridge.go).  Reading may itself write, when a login  *)
(* is taken over from the live files.  Every write goes through one file   *)
(* settings.json.tmp, whose contents belong to whoever has it open.        *)
(*                                                                         *)
(* A file is a function from keys to values, or Damaged: the text is not   *)
(* JSON; Blank is the damage of a file just truncated.  Foreign keys are   *)
(* those this version does not know.                                       *)
(***************************************************************************)
EXTENDS Naturals, FiniteSets

CONSTANTS
    Savers,           \* goroutines of all processes
    Options, ForeignKeys,
    NoSettings, Blank, Damaged,
    MaxSaves          \* bound of commands

\* The texts that are settings, of this version or another.
Texts ==
    UNION {[known -> 0 .. 1] : known \in {keys \in SUBSET (Options \cup {"login"} \cup ForeignKeys) :
                                            Options \cup {"login"} \subseteq keys}}

ASSUME SettingsAssumption ==
    /\ Options \cap ForeignKeys = {} /\ "login" \notin Options \cup ForeignKeys
    /\ {"none", "form"} \cap Options = {}
    /\ {NoSettings, Blank, Damaged} \cap Texts = {}
    /\ NoSettings # Blank /\ NoSettings # Damaged /\ Blank # Damaged

VARIABLES
    settingsFile, tmp, \* settings.json and settings.json.tmp: their texts
    opened,          \* what became of the file each has opened to write: still
                     \* the one, now the other, or replaced by a later one
    saver,           \* the goroutines
    liveLogin,       \* the live files hold a login
    clash,           \* two have written the file at the same time
    saves

settingsVars == <<settingsFile, tmp, opened, saver, liveLogin, clash, saves>>

Files == {"none", "settings", "tmp", "replaced"}
Defaults == [k \in Options \cup {"login"} |-> 0]
Resting == [stage |-> "resting", held |-> Defaults, change |-> "none", text |-> NoSettings,
            alone |-> FALSE]

\* The keys of both, with the values of the first where it has one.
Overlay(values, text) ==
    [k \in DOMAIN values \cup DOMAIN text |-> IF k \in DOMAIN values THEN values[k] ELSE text[k]]

SettingsInit ==
    /\ \E known \in [Options \cup {"login"} -> 0 .. 1] :
          settingsFile \in {NoSettings, Damaged, Overlay(known, [k \in ForeignKeys |-> 1])}
    /\ tmp = NoSettings /\ opened = [s \in Savers |-> "none"]
    /\ saver = [s \in Savers |-> Resting]
    /\ liveLogin \in BOOLEAN
    /\ clash = FALSE /\ saves = 0

Whole(text) == text \notin {NoSettings, Blank, Damaged}

\* loadSettings: a file that is not there, or is not JSON, counts as the defaults.
Loaded(text) ==
    IF Whole(text) THEN [k \in DOMAIN Defaults |-> text[k]] ELSE Defaults

\* migrateOfficialAuthBinding
Migrates(text) == Whole(text) /\ text["login"] = 0 /\ liveLogin

\* Mutant of Merged: what this version does not know is left out.
MergedKnown(text, values) == values

\* atomicWriteSettingsPreservingUnknown
Merged(text, values) == IF Whole(text) THEN Overlay(values, text) ELSE values

------------------------------------------------------------------------------
\* A command begins; it is alone when no other is under way, until one begins.
Start(s, change) ==
    saver' = [o \in Savers |->
        IF o = s THEN [Resting EXCEPT !.stage = "loading", !.change = change,
                          !.alone = \A p \in Savers \ {s} : saver[p].stage = "resting"]
        ELSE [saver[o] EXCEPT !.alone = FALSE]]

\* A payload is read (no change; the manager's answer to a save is such a read),
\* one option is set by the page or the bridge, or the manager saves a form.
Command(s) ==
    /\ saver[s].stage = "resting" /\ saves < MaxSaves /\ saves' = saves + 1
    /\ \E change \in Options \cup {"none", "form"} : Start(s, change)
    /\ UNCHANGED <<settingsFile, tmp, opened, liveLogin, clash>>

\* The one option is the opposite of what it was; a form sets all to 1.
Changed(values, change) ==
    CASE change \in Options -> [values EXCEPT ![change] = 1 - @]
      [] change = "form"    -> Overlay([k \in Options |-> 1], values)
      [] OTHER              -> values

\* Reading, and the migration that is saved before the command goes on.
Load(s) ==
    /\ saver[s].stage = "loading"
    /\ LET values == Loaded(settingsFile)
       IN  saver' = [saver EXCEPT
             ![s].held = IF Migrates(settingsFile) THEN [values EXCEPT !["login"] = 1] ELSE values,
             ![s].stage = IF Migrates(settingsFile) THEN "migrating" ELSE "loaded"]
    /\ UNCHANGED <<settingsFile, tmp, opened, liveLogin, clash, saves>>

\* The command changes what it loaded, or was only a read.  saveSettings may
\* refuse the values.
Change(s) ==
    /\ saver[s].stage = "loaded"
    /\ \/ /\ saver[s].change # "none"
          /\ saver' = [saver EXCEPT ![s].held = Changed(@, saver[s].change), ![s].stage = "saving"]
       \/ saver' = [saver EXCEPT ![s] = Resting]
    /\ UNCHANGED <<settingsFile, tmp, opened, liveLogin, clash, saves>>

\* The file is read again for the keys this version does not know.
Merge(s) ==
    /\ saver[s].stage \in {"migrating", "saving"}
    /\ saver' = [saver EXCEPT
          ![s].text = Merged(settingsFile, saver[s].held),
          ![s].stage = IF @ = "migrating" THEN "migration" ELSE "save"]
    /\ UNCHANGED <<settingsFile, tmp, opened, liveLogin, clash, saves>>

------------------------------------------------------------------------------
\* atomicWrite.  A migration that fails is ignored; a save is the last step.
WriteStages == {"migration", "migrationWritten", "save", "saveWritten"}
Goes(s, stage) == saver' = [saver EXCEPT ![s].stage = stage]

After(s) ==
    IF saver[s].stage \in {"migration", "migrationWritten"} THEN Goes(s, "loaded")
    ELSE saver' = [saver EXCEPT ![s] = Resting]

Opened(s) == opened[s] # "none"
Closed(s) == opened' = [opened EXCEPT ![s] = "none"]

\* os.WriteFile truncates the file, whoever else has it open,
Open(s) ==
    /\ saver[s].stage \in {"migration", "save"} /\ ~Opened(s)
    /\ tmp' = Blank /\ opened' = [opened EXCEPT ![s] = "tmp"]
    /\ clash' = (clash \/ \E o \in Savers \ {s} :
                    saver[o].stage \in WriteStages /\ (Opened(o) \/ saver[o].stage \notin {"migration", "save"}))
    /\ UNCHANGED <<settingsFile, saver, liveLogin, saves>>

\* and what two have written may be a mixture, when one text is longer.
Mixed(old, new) == IF old \in {Blank, new} THEN {new} ELSE {new, Damaged}

\* The file may have become settings.json meanwhile.
Fill(s) ==
    /\ Opened(s) /\ Closed(s)
    /\ tmp' \in (IF opened[s] = "tmp" THEN Mixed(tmp, saver[s].text) ELSE {tmp})
    /\ settingsFile' \in (IF opened[s] = "settings" THEN Mixed(settingsFile, saver[s].text) ELSE {settingsFile})
    /\ Goes(s, IF saver[s].stage = "save" THEN "saveWritten" ELSE "migrationWritten")
    /\ UNCHANGED <<liveLogin, clash, saves>>

\* The disk is full: a part of the text is left.
FillFails(s) ==
    /\ Opened(s) /\ Closed(s)
    /\ tmp' = (IF opened[s] = "tmp" THEN Damaged ELSE tmp)
    /\ settingsFile' = (IF opened[s] = "settings" THEN Damaged ELSE settingsFile)
    /\ After(s)
    /\ UNCHANGED <<liveLogin, clash, saves>>

\* replaceFile takes the file from under those who have it open.  It fails when
\* another has renamed it already.
Rename(s) ==
    /\ saver[s].stage \in {"migrationWritten", "saveWritten"}
    /\ \/ /\ tmp # NoSettings /\ settingsFile' = tmp /\ tmp' = NoSettings
          /\ opened' = [o \in Savers |-> CASE opened[o] = "tmp" -> "settings"
                                         [] opened[o] = "settings" -> "replaced"
                                         [] OTHER -> opened[o]]
       \/ UNCHANGED <<settingsFile, tmp, opened>>
    /\ After(s)
    /\ UNCHANGED <<liveLogin, clash, saves>>

\* The process ends.
Die(s) ==
    /\ saver[s].stage # "resting"
    /\ saver' = [saver EXCEPT ![s] = Resting] /\ Closed(s)
    /\ UNCHANGED <<settingsFile, tmp, liveLogin, clash, saves>>

SettingsNext ==
    \E s \in Savers :
        \/ Command(s) \/ Load(s) \/ Change(s) \/ Merge(s)
        \/ Open(s) \/ Fill(s) \/ FillFails(s) \/ Rename(s) \/ Die(s)

SettingsSpec == SettingsInit /\ [][SettingsNext]_settingsVars

------------------------------------------------------------------------------
\* The text a command that was alone leaves: what it was asked to change, or the
\* login it took over, and all other keys as they were, of this version or not.
\* Only a file that could not be read is replaced by the defaults.
Saved(s) ==
    LET read == Loaded(settingsFile)
        values == IF Migrates(settingsFile) THEN [read EXCEPT !["login"] = 1] ELSE read
        asked == IF saver[s].stage = "migrationWritten" THEN values ELSE Changed(values, saver[s].change)
    IN  IF Whole(settingsFile) THEN Overlay(asked, settingsFile) ELSE asked

\* A command that is alone changes only what it was asked to.  And however the
\* commands of all processes interleave, fail and die, as long as no two have
\* written settings.json.tmp at once a whole file stays whole and keeps what
\* this version does not know; their other changes may be lost to one another
\* (loadSettings, atomicWriteSettingsPreservingUnknown, atomicWrite).
SavesKeepTheRest ==
    [][/\ \A s \in Savers :
            (settingsFile' # settingsFile /\ saver[s].alone /\ saver'[s] # saver[s]) => settingsFile' = Saved(s)
       /\ (Whole(settingsFile) /\ ~clash') =>
            /\ Whole(settingsFile')
            /\ \A k \in DOMAIN settingsFile \cap ForeignKeys :
                  k \in DOMAIN settingsFile' /\ settingsFile'[k] = settingsFile[k]]_settingsVars

\* What a proof of it needs.  The variables keep their types.
Stages == {"resting", "loading", "loaded", "migrating", "saving"} \cup WriteStages
SaverType ==
    [stage : Stages, held : [DOMAIN Defaults -> 0 .. 1], change : Options \cup {"none", "form"},
     text : Texts \cup {NoSettings}, alone : BOOLEAN]
SettingsTypeOK ==
    /\ settingsFile \in Texts \cup {NoSettings, Blank, Damaged}
    /\ tmp \in Texts \cup {NoSettings, Blank, Damaged}
    /\ opened \in [Savers -> Files]
    /\ saver \in [Savers -> SaverType]
    /\ liveLogin \in BOOLEAN /\ clash \in BOOLEAN

TextWritten(s) == saver[s].stage \in {"migrationWritten", "saveWritten"}
HasText(s) == saver[s].stage \in WriteStages

\* Only who is at the writing has a file open, and has a text to write.
WritersAreAtIt ==
    \A s \in Savers :
        /\ Opened(s) => saver[s].stage \in {"migration", "save"}
        /\ HasText(s) => Whole(saver[s].text)

\* Two texts have the same keys that this version does not know, with the same values.
Agree(text, other) ==
    \A k \in ForeignKeys :
        /\ (Whole(text) /\ k \in DOMAIN text) <=> (Whole(other) /\ k \in DOMAIN other)
        /\ (Whole(text) /\ k \in DOMAIN text) => text[k] = other[k]

\* Without a clash one at most has settings.json.tmp open, or has written it; it
\* holds the text then; and every text keeps what this version does not know.
OneWrites ==
    ~clash =>
        /\ \A s, o \in Savers : (Opened(s) \/ TextWritten(s)) /\ (Opened(o) \/ TextWritten(o)) => s = o
        /\ \A s \in Savers :
              /\ Opened(s) => opened[s] = "tmp" /\ tmp = Blank
              /\ TextWritten(s) => tmp = saver[s].text
              /\ HasText(s) => Agree(saver[s].text, settingsFile)

\* The values a command that is alone goes on with, and what it makes of them.
LoginMissing(file, live) == Whole(file) /\ file["login"] = 0 /\ live
Taken(file, live) ==
    IF LoginMissing(file, live) THEN [Loaded(file) EXCEPT !["login"] = 1] ELSE Loaded(file)
AloneIsExact ==
    \A s \in Savers :
        LET taken == Taken(settingsFile, liveLogin)
        IN  saver[s].alone =>
              /\ \A o \in Savers \ {s} : saver[o].stage = "resting"
              /\ Opened(s) => opened[s] = "tmp" /\ tmp = Blank
              /\ TextWritten(s) => tmp = saver[s].text
              /\ saver[s].stage \in {"migrating", "migration", "migrationWritten", "loaded"} =>
                    saver[s].held = taken
              /\ saver[s].stage \in {"migrating", "migration", "migrationWritten"} =>
                    LoginMissing(settingsFile, liveLogin)
              /\ saver[s].stage \in {"migration", "migrationWritten"} =>
                    saver[s].text = Merged(settingsFile, taken)
              /\ saver[s].stage = "saving" => saver[s].held = Changed(taken, saver[s].change)
              /\ saver[s].stage \in {"save", "saveWritten"} =>
                    saver[s].text = Merged(settingsFile, Changed(taken, saver[s].change))
SettingsIInv == SettingsTypeOK /\ WritersAreAtIt /\ OneWrites /\ AloneIsExact
=============================================================================

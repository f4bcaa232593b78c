----------------------------- MODULE SkillBackup -----------------------------
(***************************************************************************)
(* Backups of skills, plugins and marketplaces (skill_mcp_backup.go) with  *)
(* the copying of directories (file_ops.go) they use.  The commands of the *)
(* manager run concurrently and take no lock; the application and the user *)
(* change the same directories.                                            *)
(*                                                                         *)
(* A directory, or the tables of config.toml that belong to skills, has a  *)
(* version: Missing, HalfDone when a copy or a removal broke off, or a     *)
(* content.                                                                *)
(***************************************************************************)
EXTENDS Naturals, Sequences, FiniteSets, SequencesExt

CONSTANTS
    SkillCommands,   \* concurrent commands of the manager
    BackupIds,       \* names of backups, of the second they are made in
    Old,             \* a backup of an earlier run, whole or not
    SkillDirs,       \* the directories, a sequence: they are handled in order
    Versions, Missing, HalfDone,
    MaxEdits,        \* bound of changes of the home by others and of deletions
    MaxSkillCommands \* bound of backups made and restored

ConfigTables == "tables"
ASSUME SkillAssumption ==
    /\ Old \in BackupIds /\ {Missing, HalfDone} \cap Versions = {} /\ Missing # HalfDone
    /\ SkillDirs \in Seq(ToSet(SkillDirs)) /\ ConfigTables \notin ToSet(SkillDirs)

Parts == ToSet(SkillDirs) \cup {ConfigTables}

VARIABLES
    skillHome,   \* version of each part in the home
    backups,     \* version of each part in each backup that exists
    skill,       \* the commands
    edits, skillBegun

skillVars == <<skillHome, backups, skill, edits, skillBegun>>

Empty == [p \in Parts |-> Missing]
NoRestore == [stage |-> "idle", restores |-> FALSE, source |-> Empty, id |-> "", current |-> "",
         left |-> <<>>, before |-> Empty, alone |-> FALSE]

SkillInit ==
    /\ skillHome \in [Parts -> Versions \cup {Missing}]
    /\ backups \in [{Old} -> [Parts -> Versions \cup {Missing}]]
    /\ skill = [c \in SkillCommands |-> NoRestore]
    /\ edits = 0 /\ skillBegun = 0

------------------------------------------------------------------------------
Ended == {"idle", "restored", "broken"}
IsRunning(c) == skill[c].stage \notin Ended

\* A record whose restore somebody interfered with.
Meddled(record) ==
    IF record.stage \in Ended THEN NoRestore
    ELSE [record EXCEPT !.alone = FALSE, !.source = Empty, !.before = Empty]

\* The records after c changed the home or a backup.
Disturbed(c, record) ==
    [d \in SkillCommands |-> IF d = c THEN record ELSE Meddled(skill[d])]

AtStage(c, next) == [skill[c] EXCEPT !.stage = next]

\* An error ends a command; a restore may be half done then.
BrokenOff(c) == IF skill[c].alone THEN AtStage(c, "broken") ELSE NoRestore
Break(c) == skill' = [skill EXCEPT ![c] = BrokenOff(c)]

\* A backup directory whose name was free when createSkillMCPBackup looked.
FreeId(id) == id \notin DOMAIN backups

BeginCreate(c) ==
    /\ ~IsRunning(c) /\ skillBegun < MaxSkillCommands /\ skillBegun' = skillBegun + 1
    /\ \E id \in BackupIds : FreeId(id) /\
          skill' = [skill EXCEPT ![c] = [NoRestore EXCEPT !.stage = "naming", !.current = id]]
    /\ UNCHANGED <<skillHome, backups, edits>>

\* restoreSkillMCPBackup: the backup must exist.  The home is backed up first.
BeginRestore(c) ==
    /\ ~IsRunning(c) /\ skillBegun < MaxSkillCommands /\ skillBegun' = skillBegun + 1
    /\ \E id \in DOMAIN backups, current \in BackupIds :
          /\ FreeId(current)
          /\ skill' = [skill EXCEPT ![c] =
                [stage |-> "naming", restores |-> TRUE, source |-> backups[id], id |-> id,
                 current |-> current, left |-> <<>>, before |-> skillHome, alone |-> TRUE]]
    /\ UNCHANGED <<skillHome, backups, edits>>

\* MkdirAll, which another command may have called for the same name.
MakeDir(c) ==
    /\ skill[c].stage = "naming"
    /\ LET id == skill[c].current
       IN  /\ backups' = [i \in DOMAIN backups \cup {id} |->
                             IF i \in DOMAIN backups THEN backups[i] ELSE Empty]
           /\ skill' = Disturbed(c, [AtStage(c, "copying") EXCEPT !.left = SkillDirs])
    /\ UNCHANGED <<skillHome, edits, skillBegun>>

\* Two copies on one another leave files of both.
Over(old, new) == IF old \in {Missing, new} THEN new ELSE HalfDone

Stored(c, p, version) ==
    backups' = [i \in DOMAIN backups \cup {skill[c].current} |->
                   [IF i \in DOMAIN backups THEN backups[i] ELSE Empty EXCEPT
                       ![p] = IF i = skill[c].current THEN version ELSE @]]

VersionIn(id, p) == IF id \in DOMAIN backups THEN backups[id][p] ELSE Missing

\* Mutant of CopyOut: a copy that breaks off is taken for done.
CopyOutAnyway(c) ==
    /\ skill[c].stage = "copying" /\ skill[c].left # <<>>
    /\ LET dir == Head(skill[c].left)
       IN  /\ \/ Stored(c, dir, skillHome[dir])
              \/ Stored(c, dir, HalfDone)
           /\ skill' = Disturbed(c, [skill[c] EXCEPT !.left = Tail(@)])
    /\ UNCHANGED <<skillHome, edits, skillBegun>>

\* copyDirectory from the home, when the directory is there.  A failure breaks
\* off and leaves a part of it.
CopyOut(c) ==
    /\ skill[c].stage = "copying" /\ skill[c].left # <<>>
    /\ LET dir == Head(skill[c].left)
       IN  \/ /\ skillHome[dir] = Missing /\ UNCHANGED backups
              /\ skill' = [skill EXCEPT ![c].left = Tail(@)]
           \/ /\ skillHome[dir] # Missing
              /\ Stored(c, dir, Over(VersionIn(skill[c].current, dir), skillHome[dir]))
              /\ skill' = Disturbed(c, [skill[c] EXCEPT !.left = Tail(@)])
           \/ /\ skillHome[dir] # Missing /\ Stored(c, dir, HalfDone)
              /\ skill' = Disturbed(c, BrokenOff(c))
    /\ UNCHANGED <<skillHome, edits, skillBegun>>

\* The tables are written when there are any, then the metadata, which only the
\* list shows.  Either may fail: the tables may be in the backup or not.
Snapshot(c) ==
    /\ skill[c].stage = "copying" /\ skill[c].left = <<>>
    /\ \/ /\ IF skillHome[ConfigTables] = Missing THEN UNCHANGED backups
             ELSE Stored(c, ConfigTables, skillHome[ConfigTables])
          /\ \/ skill' = Disturbed(c,
                   IF skill[c].restores THEN [AtStage(c, "removing") EXCEPT !.left = SkillDirs]
                   ELSE NoRestore)
             \/ skill' = Disturbed(c, BrokenOff(c))
       \/ UNCHANGED backups /\ Break(c)
    /\ UNCHANGED <<skillHome, edits, skillBegun>>

------------------------------------------------------------------------------
\* replaceDirectory and the branch without a directory both remove first.  An
\* error may have removed a part.
RemoveDir(c) ==
    /\ skill[c].stage = "removing" /\ skill[c].left # <<>>
    /\ LET dir == Head(skill[c].left)
       IN  \/ /\ skillHome' = [skillHome EXCEPT ![dir] = Missing]
              /\ skill' = Disturbed(c, AtStage(c, "replacing"))
           \/ /\ skillHome' = [skillHome EXCEPT ![dir] = IF @ = Missing THEN Missing ELSE HalfDone]
              /\ skill' = Disturbed(c, BrokenOff(c))
    /\ UNCHANGED <<backups, edits, skillBegun>>

CopyBack(c) ==
    /\ skill[c].stage = "replacing"
    /\ LET dir == Head(skill[c].left)
           version == VersionIn(skill[c].id, dir)
       IN  \/ /\ skillHome' = [skillHome EXCEPT
                    ![dir] = IF version = Missing THEN @ ELSE Over(@, version)]
              /\ skill' = Disturbed(c, [AtStage(c, "removing") EXCEPT !.left = Tail(@)])
           \/ /\ version # Missing /\ skillHome' = [skillHome EXCEPT ![dir] = HalfDone]
              /\ skill' = Disturbed(c, BrokenOff(c))
    /\ UNCHANGED <<backups, edits, skillBegun>>

\* restoreSkillMCPConfigTables: without a snapshot the tables stay; otherwise
\* config.toml is backed up and replaced, or nothing is written.
RestoreTables(c) ==
    /\ skill[c].stage = "removing" /\ skill[c].left = <<>>
    /\ LET version == VersionIn(skill[c].id, ConfigTables)
       IN  \/ /\ skillHome' = [skillHome EXCEPT ![ConfigTables] = IF version = Missing THEN @ ELSE version]
              /\ skill' = Disturbed(c, IF skill[c].alone THEN AtStage(c, "restored") ELSE NoRestore)
           \/ /\ version # Missing /\ UNCHANGED skillHome /\ Break(c)
    /\ UNCHANGED <<backups, edits, skillBegun>>

\* deleteSkillMCPBackup; RemoveAll may break off and leave what it did not reach.
DeleteBackup(id) ==
    /\ edits < MaxEdits /\ edits' = edits + 1
    /\ \/ backups' = [i \in DOMAIN backups \ {id} |-> backups[i]]
       \/ \E p \in Parts : backups[id][p] # Missing /\ backups' = [backups EXCEPT ![id][p] = HalfDone]
    /\ skill' = [c \in SkillCommands |-> Meddled(skill[c])]
    /\ UNCHANGED <<skillHome, skillBegun>>

\* The user, the application or an installer changes a part of the home.
Edit(p, version) ==
    /\ edits < MaxEdits /\ edits' = edits + 1 /\ version # skillHome[p]
    /\ skillHome' = [skillHome EXCEPT ![p] = version]
    /\ skill' = [c \in SkillCommands |-> Meddled(skill[c])]
    /\ UNCHANGED <<backups, skillBegun>>

\* The manager ends in the middle of its commands.
SkillCrash ==
    /\ \E c \in SkillCommands : IsRunning(c)
    /\ skill' = [c \in SkillCommands |-> IF IsRunning(c) THEN BrokenOff(c) ELSE skill[c]]
    /\ UNCHANGED <<skillHome, backups, edits, skillBegun>>

SkillNext ==
    \/ \E c \in SkillCommands :
          BeginCreate(c) \/ BeginRestore(c) \/ MakeDir(c) \/ CopyOut(c) \/ Snapshot(c)
          \/ RemoveDir(c) \/ CopyBack(c) \/ RestoreTables(c)
    \/ \E id \in DOMAIN backups : DeleteBackup(id)
    \/ \E p \in Parts, version \in Versions \cup {Missing} : Edit(p, version)
    \/ SkillCrash

SkillSpec == SkillInit /\ [][SkillNext]_skillVars

------------------------------------------------------------------------------
\* As long as nobody else changes the home or the backups, a restore can be taken
\* back: whatever it has replaced, and wherever it failed or the manager ended,
\* the backup made before holds the home as it was; and one that succeeded has
\* made the directories those of the backup, the missing ones included.  ConfigTables
\* that the backup does not hold stay (restoreSkillMCPBackup).
RestoreIsReversible ==
    \A c \in SkillCommands :
        (skill[c].restores /\ skill[c].alone) =>
            /\ skillHome # skill[c].before => backups[skill[c].current] = skill[c].before
            /\ skill[c].stage = "restored" =>
                  \A p \in Parts :
                      skillHome[p] = IF p = ConfigTables /\ skill[c].source[p] = Missing
                                     THEN skill[c].before[p] ELSE skill[c].source[p]

\* What a proof of it needs.  The variables keep their types.
Content == [Parts -> Versions \cup {Missing, HalfDone}]
RunningStages == {"naming", "copying", "removing", "replacing"}
SkillRecords ==
    [stage : Ended \cup RunningStages, restores : BOOLEAN, source : Content, id : BackupIds \cup {""},
     current : BackupIds \cup {""}, left : Seq(ToSet(SkillDirs)), before : Content, alone : BOOLEAN]
SkillType ==
    {r \in SkillRecords : /\ r.stage \in RunningStages => r.current \in BackupIds
                          /\ r.stage = "replacing" => r.left # <<>>}
SkillTypeOK ==
    /\ skillHome \in Content
    /\ DOMAIN backups \subseteq BackupIds /\ backups \in [DOMAIN backups -> Content]
    /\ skill \in [SkillCommands -> SkillType]

\* A restore that is alone has its backup, copies the home into another, which
\* holds the home as it was before a part of it is touched, and has brought
\* back what it has done with.
SourceIsThere(r) == r.id \in DOMAIN backups /\ r.id # r.current /\ backups[r.id] = r.source
KeptWhole(r) == r.current \in DOMAIN backups /\ backups[r.current] = r.before
AlreadyCopied(r) ==
    /\ r.current \in DOMAIN backups /\ backups[r.current][ConfigTables] = Missing
    /\ \A p \in ToSet(SkillDirs) :
          \/ backups[r.current][p] = r.before[p]
          \/ p \in ToSet(r.left) /\ backups[r.current][p] = Missing
AlreadyBack(r) ==
    /\ skillHome[ConfigTables] = r.before[ConfigTables]
    /\ \A p \in ToSet(SkillDirs) \ ToSet(r.left) : skillHome[p] = r.source[p]
SourceIsBack(r) ==
    \A p \in Parts : skillHome[p] = IF p = ConfigTables /\ r.source[p] = Missing THEN r.before[p] ELSE r.source[p]
IsOrderly(r) ==
    /\ r.restores /\ r.stage # "idle"
    /\ r.stage \in RunningStages => SourceIsThere(r)
    /\ r.stage = "naming" => r.current \notin DOMAIN backups
    /\ r.stage \in {"naming", "copying"} => skillHome = r.before
    /\ r.stage = "copying" => AlreadyCopied(r)
    /\ r.stage \in {"removing", "replacing"} => KeptWhole(r) /\ AlreadyBack(r)
    /\ r.stage = "replacing" => skillHome[Head(r.left)] = Missing
    /\ r.stage \in {"restored", "broken"} => KeptWhole(r) \/ skillHome = r.before
    /\ r.stage = "restored" => SourceIsBack(r)
RestoreIsOrderly == \A c \in SkillCommands : skill[c].alone => IsOrderly(skill[c])
SkillIInv == SkillTypeOK /\ RestoreIsOrderly
=============================================================================

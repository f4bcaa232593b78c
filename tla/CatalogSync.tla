---------------------------- MODULE CatalogSync ----------------------------
(***************************************************************************)
(* What a provider sync writes (repair.go): the metadata lines of the      *)
(* rollout files, the rows of the threads in the databases, and the        *)
(* workspaces in the global state.  Module ProviderSync has the order of   *)
(* these writes and their failures; here one sync is one step, and its     *)
(* survey, which decides whether it writes at all, is computed the way the *)
(* code does it: not by the same functions as the writes.                  *)
(*                                                                         *)
(* A path is a directory and a form: plain, with the prefix \\?\, or       *)
(* spelled with other separators, capitals or a trailing one.              *)
(***************************************************************************)
EXTENDS Naturals, Sequences, SequencesExt

CONSTANTS
    ThreadIds, NoId,  \* NoId: the metadata has no id
    TargetProviders,
    ColumnTexts,      \* providers and sources
    CatalogDBs,
    Ordinary, Scratch, \* directories; Scratch: worktrees, outputs, new-chat...
    RolloutChoices,   \* files the application may have written
    LineChoices,      \* lines it may append
    RootChoices,      \* lists of roots it may have saved
    RowChoices,       \* rows it may keep
    MaxMoves          \* bound: steps of the application

Dirs == Ordinary \cup Scratch
NoPath == [dir |-> "none", form |-> "plain"]
Paths == [dir : Dirs, form : {"plain", "extended", "spelled"}]
RootKeys == {"electron-saved-workspace-roots", "project-order"}

VARIABLES
    home,    \* rollouts (in the order of their paths), rows, roots, hints, projectless
    moves

catalogVars == <<home, moves>>

\* A line of a rollout: session_meta, turn_context, a user message made of
\* pieces, or a record that only mentions user_message.
Line(kind, id, provider, cwd, pieces) ==
    [kind |-> kind, id |-> id, provider |-> provider, cwd |-> cwd, pieces |-> pieces]
\* window: how many of the lines are within providerSyncMetadataReadLimit.
Rollout(archived, lines, window) == [archived |-> archived, lines |-> lines, window |-> window]
LineType == [kind : STRING, id : ThreadIds \cup {NoId}, provider : ColumnTexts,
             cwd : Paths \cup {NoPath}, pieces : Seq(STRING)]
RolloutType == [archived : BOOLEAN, lines : Seq(LineType), window : Nat]

\* A row of a thread; path: the number of its rollout file.
RowType == [provider : ColumnTexts, source : ColumnTexts, user : BOOLEAN,
            cwd : Paths \cup {NoPath}, path : Nat]
NoThreadRow == [provider |-> "none", source |-> "none", user |-> FALSE, cwd |-> NoPath, path |-> 0]

\* Values of a list of roots in the JSON file.
Null == <<NoPath>>
Absent == <<NoPath, NoPath>>

ASSUME CatalogAssumption ==
    /\ NoId \notin ThreadIds /\ Ordinary \cap Scratch = {} /\ "none" \notin Dirs
    /\ TargetProviders \cup {"", "user", "none"} \subseteq ColumnTexts
    /\ "none" \notin TargetProviders
    /\ RolloutChoices \subseteq RolloutType /\ LineChoices \subseteq LineType
    /\ RootChoices \subseteq Seq(Paths) /\ <<>> \in RootChoices
    /\ RowChoices \subseteq RowType /\ MaxMoves \in Nat

------------------------------------------------------------------------------
\* collectSessionChanges.

\* toDesktopWorkspacePath
Desktop(path) == IF path.form = "extended" THEN [path EXCEPT !.form = "plain"] ELSE path

\* sessionDisplayText: what remains of a message without headings and context;
\* a context that is not closed takes the rest.
Shown(pieces) ==
    LET Open(i) == \E k \in 1 .. i - 1 : /\ pieces[k] = "open"
                                         /\ \A j \in k .. i - 1 : pieces[j] # "close"
    IN  \E i \in 1 .. Len(pieces) : pieces[i] = "text" /\ ~Open(i)

\* readProviderSyncMetadata
Truncated(r) == Len(r.lines) > r.window
ReadLines(r) == IF Truncated(r) THEN SubSeq(r.lines, 1, r.window) ELSE r.lines

HasUserEvent(r) ==
    \/ Truncated(r)
    \/ \E i \in 1 .. Len(ReadLines(r)) :
          \/ ReadLines(r)[i].kind = "mark"
          \/ ReadLines(r)[i].kind = "message" /\ Shown(ReadLines(r)[i].pieces)

FirstPath(paths) ==
    LET k == SelectInSeq(paths, LAMBDA path : path # NoPath) IN IF k = 0 THEN NoPath ELSE paths[k]
TurnPaths(lines) ==
    [i \in 1 .. Len(lines) |-> IF lines[i].kind = "turn" THEN Desktop(lines[i].cwd) ELSE NoPath]

\* providerSyncSessionMetaRewrites passes over a session_meta whose payload is
\* no object; "broken" is one.
FirstMeta(lines) == SelectInSeq(lines, LAMBDA l : l.kind = "meta")

\* The sessionChange of a file; the directory of a projectless thread is struck
\* out. A file without session_meta has none, which is as one that says nothing.
NoChange == [id |-> NoId, user |-> FALSE, cwd |-> NoPath, rewrite |-> FALSE]
ChangeOf(h, r, p) ==
    LET lines == ReadLines(r)
        meta == lines[FirstMeta(lines)]
        cwd == FirstPath(<<Desktop(meta.cwd)>> \o TurnPaths(lines))
    IN  IF FirstMeta(lines) = 0 THEN NoChange
        ELSE [id |-> meta.id, user |-> HasUserEvent(r),
              cwd |-> IF meta.id \in h.projectless THEN NoPath ELSE cwd,
              rewrite |-> \E i \in 1 .. Len(lines) : lines[i].kind = "meta" /\ lines[i].provider # p]
Changes(h, p) == [f \in 1 .. Len(h.rollouts) |-> ChangeOf(h, h.rollouts[f], p)]

------------------------------------------------------------------------------
\* normalizedGlobalState.

\* providerSyncShouldRestoreWorkspace
Restorable(c) == c.id # NoId /\ c.user /\ c.cwd.dir \in Ordinary

\* providerSyncWorkspaceRoots, dedupePaths: of the spellings of a directory
\* the first one stays.
WithPath(out, path) ==
    IF path = NoPath \/ (\E i \in 1 .. Len(out) : out[i].dir = path.dir) THEN out
    ELSE Append(out, Desktop(path))
DedupePaths(paths) == FoldLeft(WithPath, <<>>, paths)
WorkspaceRoots(changes) ==
    DedupePaths([f \in 1 .. Len(changes) |-> IF Restorable(changes[f]) THEN changes[f].cwd ELSE NoPath])
PathArray(value) == IF value \in {Absent, Null} THEN <<>> ELSE value

\* A nil slice is written as null.
Listed(paths) == IF paths = <<>> THEN Null ELSE paths
NormalRoots(value, changes) ==
    IF value # Absent THEN Listed(DedupePaths(PathArray(value) \o WorkspaceRoots(changes)))
    ELSE IF WorkspaceRoots(changes) # <<>> THEN WorkspaceRoots(changes) ELSE Absent

\* providerSyncWorkspaceHints: the last change of a thread decides.
Hint(h, changes, t) ==
    LET k == SelectLastInSeq(changes, LAMBDA c : c.id = t /\ Restorable(c))
    IN  IF k = 0 THEN h.hints[t] ELSE changes[k].cwd

NormalizedGlobalState(h, changes) ==
    [h EXCEPT !.roots = [key \in RootKeys |-> NormalRoots(h.roots[key], changes)],
              !.hints = [t \in ThreadIds |-> Hint(h, changes, t)]]

------------------------------------------------------------------------------
\* The survey.

\* countSQLiteUpdates, countMissingSQLiteThreads: a thread is judged by the last
\* file that has its id.
LastChange(changes, t) == SelectLastInSeq(changes, LAMBDA c : c.id = t)
RowUpdates(rows, p, changes) ==
    LET told(t) == LastChange(changes, t) # 0
        last(t) == changes[LastChange(changes, t)]
        Stale(t) == \/ rows[t].provider # p
                    \/ told(t) /\ last(t).user /\ (rows[t].source = "" \/ ~rows[t].user)
                    \/ told(t) /\ last(t).cwd # NoPath /\ rows[t].cwd # last(t).cwd
    IN  {t \in ThreadIds : IF rows[t] = NoThreadRow THEN told(t) /\ last(t).user ELSE Stale(t)}

\* countGlobalStateUpdates
GlobalUpdates(h, changes) ==
    LET next == NormalizedGlobalState(h, changes)
    IN  {key \in RootKeys : next.roots[key] # h.roots[key]}
        \cup {"thread-workspace-root-hints" : t \in {u \in ThreadIds : next.hints[u] # h.hints[u]}}

UpToDate(h, p) ==
    LET changes == Changes(h, p)
    IN  /\ \A i \in 1 .. Len(changes) : ~changes[i].rewrite
        /\ \A d \in CatalogDBs : RowUpdates(h.rows[d], p, changes) = {}
        /\ GlobalUpdates(h, changes) = {}

------------------------------------------------------------------------------
\* The writes.

\* rewriteProviderSyncSessionMetaLines pairs the lines it replaces with all the
\* session_meta lines of the file, broken ones too.
Rewritable(r) ==
    \A i, j \in 1 .. r.window :
        (i < j /\ i <= Len(r.lines) /\ j <= Len(r.lines)) =>
            ~(r.lines[i].kind = "broken" /\ r.lines[j].kind = "meta")
RewriteMetaLines(r, p) ==
    [r EXCEPT !.lines = [i \in 1 .. Len(r.lines) |->
        IF i <= r.window /\ r.lines[i].kind = "meta" THEN [r.lines[i] EXCEPT !.provider = p]
        ELSE r.lines[i]]]

\* Mutant of UpdatedRow: only the provider is written.
RowOfProvider(row, t, p, changes) == [row EXCEPT !.provider = p]

\* applySQLiteUpdates: every file in turn, and then the threads without row,
\* by the first file that shows a user.
UpdatedRow(row, t, p, changes) ==
    LET spoke == \E i \in 1 .. Len(changes) : changes[i].id = t /\ changes[i].user
        k == SelectLastInSeq(changes, LAMBDA c : c.id = t /\ c.cwd # NoPath)
    IN  [row EXCEPT !.provider = p, !.source = IF spoke /\ @ = "" THEN "user" ELSE @,
                    !.user = @ \/ spoke, !.cwd = IF k = 0 THEN @ ELSE changes[k].cwd]
\* insertMissingSQLiteThreadsTx, sqliteThreadRowFromChange
InsertedRow(t, p, changes) ==
    LET k == SelectInSeq(changes, LAMBDA c : c.id = t /\ c.user)
    IN  IF k = 0 THEN NoThreadRow
        ELSE [provider |-> p, source |-> "user", user |-> TRUE, cwd |-> changes[k].cwd,
              path |-> k]
ApplyRows(rows, p, changes) ==
    [t \in ThreadIds |-> IF rows[t] # NoThreadRow THEN UpdatedRow(rows[t], t, p, changes)
                         ELSE InsertedRow(t, p, changes)]

\* All of it, or nothing when a file cannot be rewritten.
Applied(h, p) ==
    LET changes == Changes(h, p)
        rewritten == {f \in 1 .. Len(changes) : changes[f].rewrite}
    IN  IF \E f \in rewritten : ~Rewritable(h.rollouts[f]) THEN h
        ELSE [NormalizedGlobalState(h, changes) EXCEPT
                !.rollouts = [f \in 1 .. Len(@) |->
                    IF f \in rewritten THEN RewriteMetaLines(@[f], p) ELSE @[f]],
                !.rows = [d \in CatalogDBs |-> ApplyRows(@[d], p, changes)]]

------------------------------------------------------------------------------
CatalogInit ==
    /\ \E r \in RolloutChoices, value \in RootChoices, silent \in SUBSET ThreadIds :
          home = [rollouts |-> <<r>>, rows |-> [d \in CatalogDBs |-> [t \in ThreadIds |-> NoThreadRow]],
                  roots |-> [key \in RootKeys |-> IF key = "project-order" THEN value ELSE Absent],
                  hints |-> [t \in ThreadIds |-> NoPath], projectless |-> silent]
    /\ moves = 0

\* runProviderSyncLocked, undisturbed.
SyncHome(p) == home' = (IF UpToDate(home, p) THEN home ELSE Applied(home, p)) /\ UNCHANGED moves

\* The application writes a file, appends to one, keeps a row of a thread, or
\* saves its roots.
AppMoves(next) == moves < MaxMoves /\ moves' = moves + 1 /\ home' = next
AppStarts(r) == AppMoves([home EXCEPT !.rollouts = Append(@, r)])
AppWrites(f, l) == AppMoves([home EXCEPT !.rollouts[f].lines = Append(@, l)])
AppRow(d, t, row) == AppMoves([home EXCEPT !.rows[d][t] = row])
AppRoots(key, value) == AppMoves([home EXCEPT !.roots[key] = value])

CatalogNext ==
    \/ \E p \in TargetProviders : SyncHome(p)
    \/ \E r \in RolloutChoices : AppStarts(r)
    \/ \E f \in 1 .. Len(home.rollouts), l \in LineChoices : AppWrites(f, l)
    \/ \E d \in CatalogDBs, t \in ThreadIds, row \in RowChoices : AppRow(d, t, row)
    \/ \E key \in RootKeys, value \in RootChoices : AppRoots(key, value)

CatalogSpec == CatalogInit /\ [][CatalogNext]_catalogVars
------------------------------------------------------------------------------
OneFilePerThread(h) ==
    LET changes == Changes(h, "openai")
    IN  \A i, j \in 1 .. Len(changes) : changes[i].id = changes[j].id => i = j \/ changes[i].id = NoId

\* A sync that reports "Provider sync already up to date" would have changed
\* nothing, one that writes leaves nothing to do, and no row loses its
\* directory.  Where two files tell of one thread the survey and the writes
\* disagree (the survey looks at the last, an insertion at the first), but two
\* syncs settle it.
SurveyIsExact ==
    \A p \in TargetProviders :
        LET once == Applied(home, p)
            twice == Applied(once, p)
            able == \A f \in 1 .. Len(home.rollouts) : Rewritable(home.rollouts[f])
        IN  able =>
            /\ OneFilePerThread(home) => (UpToDate(home, p) <=> once = home) /\ UpToDate(once, p)
            /\ UpToDate(twice, p)
            /\ \A d \in CatalogDBs, t \in ThreadIds :
                  home.rows[d][t].cwd # NoPath => once.rows[d][t].cwd # NoPath
=============================================================================

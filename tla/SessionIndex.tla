---------------------------- MODULE SessionIndex ----------------------------
(***************************************************************************)
(* Cleaning of session_index.jsonl (session_index_cleanup.go): lines whose *)
(* thread exists nowhere any more are offered, the user confirms some, and *)
(* they are taken out.  The application appends to the file while it runs, *)
(* and takes no lock of this program when it is not started by it.         *)
(*                                                                         *)
(* The index is a sequence of lines; a line is of a thread, or of a form   *)
(* the cleaning does not know (Foreign).  The hash of the file is modelled *)
(* by the file.                                                            *)
(***************************************************************************)
EXTENDS Naturals, Sequences, FiniteSets, SequencesExt

CONSTANTS
    IndexThreads, Foreign, NoFile,
    MaxLines     \* bound of the length of the index

ASSUME IndexAssumption == Foreign \notin IndexThreads /\ MaxLines \in Nat

VARIABLES
    sessionIndex,   \* the file
    threadsAlive,   \* threads with a rollout file or a row in a database
    appRuns,        \* the application runs
    guards,         \* the mutation guards are held by the cleaning
    shown,          \* what the preview showed: the file, and the candidates
    clean,          \* the cleaning
    indexBackup,
    intruded        \* the application ran after the last look at the file

indexVars == <<sessionIndex, threadsAlive, appRuns, guards, shown, clean, indexBackup, intruded>>

NotShown == [of |-> NoFile, candidates |-> {}]
AtRest == [stage |-> "rest", confirmed |-> {}, plan |-> NoFile, candidates |-> {}]

IndexInit ==
    /\ sessionIndex \in SeqOf(IndexThreads \cup {Foreign}, 2)
    /\ threadsAlive \in SUBSET IndexThreads
    /\ appRuns = FALSE /\ guards = FALSE /\ shown = NotShown /\ clean = AtRest
    /\ indexBackup = NoFile /\ intruded = FALSE

\* planSessionIndexCleanup: lines of the known form whose thread is not alive.
Candidates(file, live) == {t \in IndexThreads : t \notin live /\ t \in ToSet(file)}

\* filterSessionIndex keeps every other line as it is.
Filter(file, selected) ==
    LET Keep(line) == line \notin selected IN SelectSeq(file, Keep)

------------------------------------------------------------------------------
\* The application, started directly or by the launcher, which needs the guards.
AppBegins(direct) ==
    /\ ~appRuns /\ (direct \/ ~guards) /\ appRuns' = TRUE /\ intruded' = TRUE
    /\ UNCHANGED <<sessionIndex, threadsAlive, guards, shown, clean, indexBackup>>

EndApp ==
    /\ appRuns /\ appRuns' = FALSE
    /\ UNCHANGED <<sessionIndex, threadsAlive, guards, shown, clean, indexBackup, intruded>>

AppAppends(t) ==
    /\ appRuns /\ Len(sessionIndex) < MaxLines
    /\ sessionIndex' = Append(sessionIndex, t) /\ threadsAlive' = threadsAlive \cup {t}
    /\ UNCHANGED <<appRuns, guards, shown, clean, indexBackup, intruded>>

\* A session is deleted, or a deletion undone: neither takes the guards.
SessionChanges(t) ==
    /\ threadsAlive' = (IF t \in threadsAlive THEN threadsAlive \ {t} ELSE threadsAlive \cup {t})
    /\ UNCHANGED <<sessionIndex, appRuns, guards, shown, clean, indexBackup, intruded>>

------------------------------------------------------------------------------
\* previewSessionIndexCleanup, which takes no guards.
Preview ==
    /\ clean.stage = "rest"
    /\ shown' = [of |-> sessionIndex, candidates |-> Candidates(sessionIndex, threadsAlive)]
    /\ UNCHANGED <<sessionIndex, threadsAlive, appRuns, guards, clean, indexBackup, intruded>>

Stage(next) == clean' = [clean EXCEPT !.stage = next]
Stop == clean' = AtRest /\ guards' = FALSE

\* The user confirms some of what was shown; the application must be stopped.
Apply(ids) ==
    /\ clean.stage = "rest" /\ shown # NotShown /\ ids # {} /\ ids \subseteq shown.candidates
    /\ ~appRuns
    /\ clean' = [AtRest EXCEPT !.stage = "guarding", !.confirmed = ids]
    /\ UNCHANGED <<sessionIndex, threadsAlive, appRuns, guards, shown, indexBackup, intruded>>

Guard ==
    /\ clean.stage = "guarding" /\ guards' = TRUE /\ Stage("collecting")
    /\ UNCHANGED <<sessionIndex, threadsAlive, appRuns, shown, indexBackup, intruded>>

\* collectLiveSessionThreadIDs over files and databases, then the plan.
Collect ==
    /\ clean.stage = "collecting"
    /\ clean' = [clean EXCEPT !.stage = "planning", !.candidates = IndexThreads \ threadsAlive]
    /\ UNCHANGED <<sessionIndex, threadsAlive, appRuns, guards, shown, indexBackup, intruded>>

\* The file must be the one that was shown, and all that was confirmed still
\* a candidate; nothing to remove ends it too.
PlanIt ==
    /\ clean.stage = "planning"
    /\ IF /\ sessionIndex = shown.of
          /\ clean.confirmed \subseteq clean.candidates \cap ToSet(sessionIndex)
       THEN /\ clean' = [clean EXCEPT !.stage = "planned", !.plan = sessionIndex]
            /\ UNCHANGED guards
       ELSE Stop
    /\ UNCHANGED <<sessionIndex, threadsAlive, appRuns, shown, indexBackup, intruded>>

\* createSessionIndexCleanupBackup
BackUp ==
    /\ clean.stage = "planned"
    /\ \/ indexBackup' = clean.plan /\ Stage("backedUp") /\ UNCHANGED guards
       \/ Stop /\ UNCHANGED indexBackup
    /\ UNCHANGED <<sessionIndex, threadsAlive, appRuns, shown, intruded>>

\* Mutant of Compare: the file is not looked at again.
CompareNot ==
    /\ clean.stage = "backedUp" /\ Stage("compared")
    /\ intruded' = appRuns
    /\ UNCHANGED <<sessionIndex, threadsAlive, appRuns, guards, shown, indexBackup>>

Compare ==
    /\ clean.stage = "backedUp"
    /\ IF sessionIndex = clean.plan THEN Stage("compared") /\ UNCHANGED guards ELSE Stop
    /\ intruded' = appRuns
    /\ UNCHANGED <<sessionIndex, threadsAlive, appRuns, shown, indexBackup>>

\* ensureProviderSyncWritersStopped a second time.
WritersStopped ==
    /\ clean.stage = "compared"
    /\ IF appRuns THEN Stop ELSE Stage("clear") /\ UNCHANGED guards
    /\ UNCHANGED <<sessionIndex, threadsAlive, appRuns, shown, indexBackup, intruded>>

Write ==
    /\ clean.stage = "clear"
    /\ sessionIndex' = Filter(clean.plan, clean.confirmed) \/ UNCHANGED sessionIndex
    /\ Stop /\ shown' = NotShown
    /\ UNCHANGED <<threadsAlive, appRuns, indexBackup, intruded>>

IndexNext ==
    \/ \E direct \in BOOLEAN : AppBegins(direct)
    \/ EndApp \/ Preview \/ Guard \/ Collect \/ PlanIt \/ BackUp \/ Compare
    \/ WritersStopped \/ Write
    \/ \E t \in IndexThreads : AppAppends(t) \/ SessionChanges(t)
    \/ \E ids \in SUBSET IndexThreads : Apply(ids)

IndexSpec == IndexInit /\ [][IndexNext]_indexVars

------------------------------------------------------------------------------
\* A line leaves the index only when it is of a thread the user confirmed, and
\* the file as it was lies in the backup then: nothing the application wrote
\* meanwhile is lost, unless it ran, and ended again or was started by hand,
\* after the file was looked at for the last time (applySessionIndexCleanup).
OnlyConfirmedLeave ==
    [][(sessionIndex' # sessionIndex /\ clean.stage = "clear" /\ ~intruded) =>
          /\ sessionIndex' = Filter(sessionIndex, clean.confirmed)
          /\ clean.confirmed \subseteq shown.candidates
          /\ indexBackup = sessionIndex]_indexVars

\* What a proof of it needs.  The stages in their order, and types.
CleanStages ==
    {"rest", "guarding", "collecting", "planning", "planned", "backedUp", "compared", "clear"}
CleanTypeOK ==
    /\ clean \in [stage : CleanStages, confirmed : SUBSET IndexThreads, plan : {clean.plan},
                  candidates : SUBSET IndexThreads]
    /\ appRuns \in BOOLEAN /\ intruded \in BOOLEAN

\* What is confirmed was shown; the plan lies in the backup; and from the last
\* look on the plan is the file, and nobody writes it, unless the application
\* has begun since.
PlanIsTheFile ==
    /\ clean.stage # "rest" => clean.confirmed \subseteq shown.candidates
    /\ clean.stage \in {"backedUp", "compared", "clear"} => indexBackup = clean.plan
    /\ (clean.stage \in {"compared", "clear"} /\ ~intruded) => sessionIndex = clean.plan /\ ~appRuns
IndexIInv == CleanTypeOK /\ PlanIsTheFile
=============================================================================

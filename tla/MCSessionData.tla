---------------------------- MODULE MCSessionData ----------------------------
(* The sessions: a database with threads and automation runs, one rollout    *)
(* file; two deletions, of the page or of the manager, an undo and a move.   *)
(* And the backups of skills, a machine without common state with the first: *)
(* a behaviour runs one of them.                                             *)
EXTENDS SessionData, SkillBackup, TLC

CONSTANTS f1, w1, w2, d1, d2, s1, s2, b0

VARIABLE part
parts == <<vars, skillVars, part>>

RowPlaces == {<<"state", "threads">>, <<"state", "automation_runs">>}

MCSkillDirs == <<"skills", "cache">>
Twins == Permutations({w1, w2}) \cup Permutations({d1, d2}) \cup Permutations({s1, s2})

\* The parts that do not run stay in one of their initial states.  Of the home
\* the skills may be missing, of the old backup any part, and more after changes.
MCInit ==
    /\ part \in {"sessions", "skills"}
    /\ Init
    /\ part # "sessions" =>
          /\ \A p \in Places : rows[p] = Gone
          /\ \A f \in Files : files[f] # Gone
    /\ SkillInit
    /\ part = "skills" =>
          /\ \A p \in Parts \ {"skills"} : skillHome[p] # Missing
          /\ Cardinality({p \in Parts : backups[b0][p] = Missing}) <= 1
    /\ (part # "skills" => \A p \in Parts : skillHome[p] = Missing /\ backups[b0][p] = Missing)

MCNext ==
    /\ UNCHANGED part
    /\ \/ part = "sessions" /\ Next /\ UNCHANGED skillVars
       \/ part = "skills" /\ SkillNext /\ UNCHANGED vars

MCSpec == MCInit /\ [][MCNext]_parts
=============================================================================

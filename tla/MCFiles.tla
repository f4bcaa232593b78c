------------------------------- MODULE MCFiles -------------------------------
(* The switch of relays, a session with the page, the recovery of threads,    *)
(* the cleaning of the index, the list of sessions, the settings file, the    *)
(* cut of a member and the history of a request: machines without common      *)
(* state, of which a behaviour runs one.                                      *)
EXTENDS MCRelaySwitch, CdpSession, RecoveryQueue, SessionIndex, LocalSessions, SettingsStore,
        RemoveObjectKey, ChatInput
CONSTANTS t1, t2

VARIABLE part
parts == <<vars, cdpVars, queueVars, indexVars, listVars, settingsVars, objectVars, inputVars, part>>

MCMemberNames == {"namespace", "type"}
MCValues == {<<"v">>, <<"{", "namespace", ":", "v", "}">>, <<"[", "v", ",", "{", "}", "]">>}

\* Rows with a time in seconds or milliseconds, or with none in the first column;
\* a second row of a session; three rows.
MCRow(id, column, other, number) ==
    [id |-> id, column |-> column, other |-> other, number |-> number]
MCRows == UNION {{MCRow(id, 1, 0, 1), MCRow(id, 2, 0, 2), MCRow(id, 1500, 0, 1), MCRow(id, 0, 1200, 1)} : id \in SessionIds}
MCContents == UNION {kSubset(k, MCRows) : k \in 0 .. 3}

\* The parts that do not run stay in one of their initial states; at most one
\* profile has a bound login at first.
MCInit ==
    /\ part \in {"relay", "cdp", "recovery", "index", "list", "settings", "object", "history"}
    /\ Init
    /\ Cardinality({p \in Profiles : disk.bound[p] # None}) <= 1
    /\ (part # "relay" => /\ approvals = None /\ auth = None /\ disk.active = m1
                          /\ \A p \in Profiles : disk.bound[p] = None)
    /\ CdpInit
    /\ RecoveryInit
    /\ (part # "recovery" => \A t \in Threads, d \in Databases : catalog[t][d] = "openai")
    /\ IndexInit /\ (part # "index" => sessionIndex = <<>> /\ threadsAlive = {})
    /\ IF part = "list" THEN ListInit
       ELSE /\ rowsOf = [n \in Tables |-> {}]
            /\ wanted = [offset |-> 0, limit |-> 1] /\ answered = NoPage
    /\ SettingsInit /\ (part # "settings" => settingsFile = NoSettings /\ liveLogin)
    /\ IF part = "object" THEN ObjectInit ELSE object = <<>> /\ text = <<"{", "}">> /\ removed = 0
    /\ InputInit

MCNext ==
    /\ UNCHANGED part
    /\ \/ /\ part = "relay" /\ Next
          /\ UNCHANGED <<cdpVars, queueVars, indexVars, listVars, settingsVars, objectVars, inputVars>>
       \/ /\ part = "cdp" /\ CdpNext
          /\ UNCHANGED <<vars, queueVars, indexVars, listVars, settingsVars, objectVars, inputVars>>
       \/ /\ part = "recovery" /\ RecoveryNext
          /\ UNCHANGED <<vars, cdpVars, indexVars, listVars, settingsVars, objectVars, inputVars>>
       \/ /\ part = "index" /\ IndexNext
          /\ UNCHANGED <<vars, cdpVars, queueVars, listVars, settingsVars, objectVars, inputVars>>
       \/ /\ part = "list" /\ ListNext
          /\ UNCHANGED <<vars, cdpVars, queueVars, indexVars, settingsVars, objectVars, inputVars>>
       \/ /\ part = "settings" /\ SettingsNext
          /\ UNCHANGED <<vars, cdpVars, queueVars, indexVars, listVars, objectVars, inputVars>>
       \/ /\ part = "object" /\ ObjectNext
          /\ UNCHANGED <<vars, cdpVars, queueVars, indexVars, listVars, settingsVars, inputVars>>
       \/ /\ part = "history" /\ InputNext
          /\ UNCHANGED <<vars, cdpVars, queueVars, indexVars, listVars, settingsVars, objectVars>>

MCSpec == MCInit /\ [][MCNext]_parts
=============================================================================

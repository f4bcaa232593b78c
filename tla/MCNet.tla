------------------------------- MODULE MCNet -------------------------------
(* The relay proxy, the conversion of the answer and of the tools, and the  *)
(* calls of official voice: machines without common state, of which a       *)
(* behaviour runs one.                                                      *)
EXTENDS RelayProxy, ChatStream, ToolNames, OfficialRealtime, TLC
CONSTANTS r1, r2, m1, m2, m3, v1

VARIABLE part
parts == <<proxyVars, vars, nameVars, realtimeVars, part>>

MCStrategy(strategy, members) ==
    [aggregate |-> [strategy |-> strategy, members |-> members],
     active |-> m1, usable |-> {m1, m2, m3}, route |-> Absent]
MCThree == [k \in 1 .. 3 |-> [relay |-> <<m1, m2, m3>>[k], weight |-> 1]]
MCTwo == [k \in 1 .. 2 |-> [relay |-> <<m1, m3>>[k], weight |-> 3 - k]]
\* The page lets a supplier be taken twice.
MCTwice == [k \in 1 .. 2 |-> [relay |-> m1, weight |-> 1]] \o <<[relay |-> m2, weight |-> 1]>>
\* Without a conversation the turns are those of requestRoundRobin.
MCSettings ==
    {MCStrategy("failover", MCThree), MCStrategy("failover", MCTwice),
     MCStrategy("conversationRoundRobin", MCTwo),
     MCStrategy("weightedRoundRobin", MCTwo),
     [aggregate |-> Absent, active |-> m1, usable |-> {m1, m2}, route |-> m2]}

\* The others come with a save.
MCFirstSettings == {MCStrategy("failover", MCThree), MCStrategy("weightedRoundRobin", MCTwo)}

MCDeclarations ==
    [type : {"function"}, space : {<<>>}, name : {<<"b">>, <<"n", "__", "b">>}, edits : {FALSE}]
    \cup [type : {"custom"}, space : {<<>>}, name : {<<"patch">>, <<"b">>}, edits : BOOLEAN]
    \cup [type : {"custom"}, space : {<<>>}, name : {<<"n", "__", "b">>}, edits : {TRUE}]
    \cup [type : {"namespace"}, space : {<<"n">>, <<"n", "__">>, <<"m">>},
          name : {<<"b">>, <<"__", "b">>}, edits : {FALSE}]
    \cup [type : {"namespace", "unnoted"}, space : {<<>>}, name : {<<"n", "__", "b">>}, edits : {FALSE}]
    \cup [type : {"string"}, space : {<<>>}, name : {<<"b">>, <<"patch", "_add_file">>}, edits : {FALSE}]

MCLogin(account, token) == [account |-> account, token |-> token]
MCLogins == {MCLogin("a", "a2"), MCLogin("b", "b1"), Unsound}
MCBindings ==
    {<<MCLogin("a", "a1"), MCLogin("b", "b1")>>, <<EmptyLogin, MCLogin("a", NoOne)>>, <<EmptyLogin, EmptyLogin>>}
MCOffers ==
    {[type |-> type, fields |-> <<<<"sdp", "sdp">>, <<"session", "null">>>>] :
        type \in {"json", "multipart"}}

MCSymmetry == Permutations({r1, r2})

\* The parts that do not run stay in one of their initial states.
MCInit ==
    /\ part \in {"proxy", "answer", "tools", "voice"}
    /\ ProxyInit
    /\ IF part = "proxy" THEN onDisk \in MCFirstSettings ELSE onDisk.aggregate = Absent
    /\ Init /\ NamesInit
    /\ RealtimeInit
    /\ (part # "voice" => binding = <<EmptyLogin, EmptyLogin>> /\ authJson = Unsound)

MCNext ==
    /\ UNCHANGED part
    /\ \/ part = "proxy" /\ ProxyNext /\ UNCHANGED <<vars, nameVars, realtimeVars>>
       \/ part = "answer" /\ Next /\ UNCHANGED <<proxyVars, nameVars, realtimeVars>>
       \/ part = "tools" /\ NamesNext /\ UNCHANGED <<proxyVars, vars, realtimeVars>>
       \/ part = "voice" /\ RealtimeNext /\ UNCHANGED <<proxyVars, vars, nameVars>>

MCSpec == MCInit /\ [][MCNext]_parts
=============================================================================

---------------------------- MODULE MCCodexConfig ----------------------------
\* One tool that needs no quotes, one plugin that does.
EXTENDS CodexConfig

\* Documents: empty; with every table the edits know; with a header the edits
\* of tables do not see, and one they take for another table; with a key twice.
MCRootLines == <<KeyLine("model", "a"), KeyLine("openai_base_url", "managed")>>
MCFeatures == <<Header(Features), KeyLine("goals", "false")>>
MCNodeRepl == <<Header(NodeRepl), KeyLine("command", "x"), Header(NodeReplEnv), KeyLine("A", "b")>>
MCPlugin == <<Header(EntryTable("plugins", "gh@m")), KeyLine("enabled", "false")>>
MCTwice == <<KeyLine("model", "a"), KeyLine("model", "b")>>
MCLive ==
    {<<>>, MCTwice, MCRootLines \o MCFeatures \o MCPlugin, MCPlugin \o MCNodeRepl,
     MCFeatures \o <<Header(Relay), KeyLine("base_url", "x")>>,
     MCRootLines \o MCNodeRepl \o MCFeatures \o <<Header(Hooks), KeyLine("state", "s")>>,
     MCRootLines \o <<CommentedHeader(Features), KeyLine("goals", "c")>> \o MCNodeRepl,
     MCFeatures \o <<Header(Table(<<"plugins", "gh@m">>, "single"))>>}
MCProfile(contents, mode, models, shared, chosen) ==
    [text |-> contents, mode |-> mode, models |-> models, shared |-> shared, chosen |-> chosen]
MCOwn == <<KeyLine("model", "a"), Header(Features), KeyLine("goals", "false"), KeyLine("web", "own")>>
MCProfiles ==
    {MCProfile(<<>>, "official", FALSE, TRUE, {}),
     MCProfile(MCOwn, "mixedApi", TRUE, TRUE, {<<"plugins", "gh@m">>}),
     MCProfile(<<>>, "mixedApi", FALSE, FALSE, {}),
     MCProfile(MCOwn, "pureApi", FALSE, TRUE, {<<"mcp_servers", "node_repl">>, <<"plugins", "gh@m">>})}
MCCommon ==
    {<<>>, <<KeyLine("model", "b"), KeyLine("notify", "c"), Header(Features),
             KeyLine("goals", "true"), KeyLine("web", "common")>>}
MCUserLines == {KeyLine("goals", "u")}
MCMarketplaces == <<"openai-bundled">>
MCCached == <<"gh@m">>
\* Of the spelling run: headers that every edit sees, profiles that take nothing
\* from the common configuration.
MCPlainLive == {d \in MCLive \ {MCTwice} : \A i \in 1 .. Len(d) : d[i].plain /\ d[i].table.spelling # "single"}
MCUnshared == {p \in MCProfiles : ~p.shared}
=============================================================================

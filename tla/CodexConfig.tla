----------------------------- MODULE CodexConfig -----------------------------
(***************************************************************************)
(* config.toml of a Codex home and the documents the settings make it      *)
(* from: the configuration of a profile, the common one and the pool of    *)
(* tools and plugins.  A switch writes the file anew, the repairs of       *)
(* plugins, goals and computer use edit it, and the manager page edits the *)
(* pool and copies it over.  Module RelaySwitch has the files and failures *)
(* of a switch; here is the text.                                          *)
(***************************************************************************)
EXTENDS TomlText

CONSTANTS
    Ids,            \* of tools and plugins
    BareIds,        \* those that need no quotes
    Marketplaces,   \* sequence of those found on disk
    CachedPlugins,  \* sequence of the plugins found in the cache
    LiveChoices, CommonChoices,  \* documents
    ProfileChoices,
    UserLines,      \* what the user or Codex adds to the file
    MaxConfigSteps  \* bound

Kinds == {"mcp_servers", "skills", "plugins"}

ASSUME ConfigAssumption ==
    /\ BareIds \subseteq Ids /\ "node_repl" \in BareIds /\ MaxConfigSteps \in Nat
    /\ \A p \in ProfileChoices : p.mode \in {"official", "mixedApi", "pureApi"}

VARIABLES
    live,     \* config.toml
    profile,  \* of the active profile: its text, mode, whether it lists models or
              \* uses the common configuration, and the entries it selects
    common, pool, \* relayCommonConfigContents, relayContextConfigContents
    steps

configVars == <<live, profile, common, pool, steps>>

Features == Table(<<"features">>, "bare")
Hooks == Table(<<"hooks">>, "bare")
Windows32 == Table(<<"windows">>, "bare")
EntryTable(kind, id) == Table(<<kind, id>>, "double")  \* contextKindTable, quoteToml
Marketplace(name) == Table(<<"marketplaces", name>>, "bare")
Relay == Table(<<"model_providers", "CodexPlusPlus">>, "bare")
LegacyRelay == Table(<<"model_providers", "CodexPP">>, "bare")
NodeRepl == Table(<<"mcp_servers", "node_repl">>, "bare")
NodeReplEnv == Table(<<"mcp_servers", "node_repl", "env">>, "bare")

Bare == BareIds \cup {"CodexPlusPlus", "CodexPP", "env", "openai-bundled"} \cup ToSet(Marketplaces)
Clean(doc) == NormalizeDuplicates(doc, Bare)

------------------------------------------------------------------------------
\* Tools and plugins (context_config.go).

\* isContextTableHeader
IsContextTable(table) == Len(table.parts) >= 2 /\ table.parts[1] \in Kinds
CommonPart(doc) == RemoveTablesMatching(doc, {t \in TablesIn(doc) : IsContextTable(t)})
ContextPart(doc) == ExtractTables(doc, {t \in TablesIn(doc) : IsContextTable(t)})

\* contextEntryEnabled, of the block below a header
EntryEnabled(doc, start) ==
    LET at == SelectInSubSeq(doc, start + 1, BlockEnd(doc, start) - 1, LAMBDA l : l.key = "enabled")
    IN  at = 0 \/ doc[at].value # "false"
\* filterCommonConfigForSelection: the tables of two parts; splitTomlTablePath
\* knows double quotes only, so other ids are never selected by name.
FilterForSelection(doc, selected) ==
    PickLines(doc, {i \in DOMAIN doc :
        LET h == HeaderAbove(doc, i)
        IN  h # 0 /\ Len(doc[h].table.parts) = 2 /\ doc[h].table.parts[1] \in Kinds
                => doc[h].table \in selected /\ EntryEnabled(doc, h)})

\* listContextEntriesFromConfig, contextSelectionForAllEntries
ListedEntries(doc) ==
    {t \in TablesIn(doc) : Len(t.parts) = 2 /\ t.parts[1] \in Kinds}

\* What the page joins to the pool: a header that is there already is left out
\* with its block.
JoinedOnPage(doc) ==
    PickLines(doc, {i \in DOMAIN doc :
        \A j \in 1 .. HeaderAbove(doc, i) - 1 :
            ~(IsTomlHeader(doc[j]) /\ doc[j].table = doc[HeaderAbove(doc, i)].table)})

DeleteEntry(doc, kind, id) == RemoveTable(doc, EntryTable(kind, id))
UpsertEntry(doc, kind, id, body) == UpsertTomlTable(doc, EntryTable(kind, id), body)

------------------------------------------------------------------------------
\* What a switch writes (relay.go).

\* sanitizeCommonRelayConfig
ProviderKeys == {"model", "model_provider", "openai_base_url", "model_catalog_json"}
SanitizeCommon(doc) ==
    LET rest == RemoveTablesMatching(doc,
                    {t \in TablesIn(doc) : Len(t.parts) >= 2 /\ t.parts[1] = "model_providers"})
    IN  PickLines(rest, {i \in DOMAIN rest : HeaderAbove(rest, i) # 0 \/ rest[i].key \notin ProviderKeys})

\* stripCommonConfigFromConfig: what is left of a document without the root
\* keys and the headers of its common part.
StripCommon(doc, shared) ==
    LET keys == {l.key : l \in ToSet(RootSection(shared))}
        rest == RemoveTablesMatching(doc, TablesIn(shared))
    IN  PickLines(rest, {i \in DOMAIN rest :
            HeaderAbove(rest, i) = 0 /\ rest[i].kind = "key" => rest[i].key \notin keys})

\* upsertModelProviderConfig
ModelProviderEnd(doc) ==
    LET other == SelectInSeq(doc, LAMBDA l :
                    StartsBracket(l) /\ ~(Len(l.table.parts) >= 2 /\ l.table.parts[1] = "model_providers"))
    IN  IF other = 0 THEN Len(doc) + 1 ELSE other
InsertModelProvider(doc, end) ==
    SubSeq(doc, 1, end - 1) \o <<Header(Relay), KeyLine("base_url", "relay")>> \o SubSeq(doc, end, Len(doc))
WithoutModelProvider(doc) ==
    RemoveTable(RemoveTable(UpsertRootKey(doc, "model_provider", "CodexPlusPlus"), Relay), LegacyRelay)
ProviderInserted(doc) == InsertModelProvider(doc, ModelProviderEnd(doc))
UpsertModelProvider(doc) == ProviderInserted(WithoutModelProvider(doc))

\* applyRemoteControlOpenAIBaseURL
RemoteControlBaseURL(doc, mode) ==
    LET current == RootKeyString(doc, "openai_base_url")
    IN  IF mode = "mixedApi" THEN
            IF current \in {"", "managed"} THEN UpsertRootKey(doc, "openai_base_url", "managed") ELSE doc
        ELSE IF current = "managed" THEN RemoveRootKey(doc, "openai_base_url") ELSE doc

\* relayConfigWithCommonAndLimits: a catalog of the user is left alone.
CatalogKey(doc, models) ==
    LET current == RootKeyString(doc, "model_catalog_json")
    IN  IF models /\ current \in {"", "managed"} THEN UpsertRootKey(doc, "model_catalog_json", "managed")
        ELSE IF ~models /\ current = "managed" THEN RemoveRootKey(doc, "model_catalog_json")
        ELSE doc

\* Mutant of MergeCommon: the goals of the profile are not put back.
MergeCommonFeatures(doc, shared) == JoinRootFirst(doc, shared, Bare)

\* mergeRelayCommonConfig
RestoreGoals(goals, doc) == IF goals = "" THEN doc ELSE UpsertTableKey(doc, Features, "goals", goals)
MergeCommon(doc, shared) ==
    LET goals == TableValue(doc, Features, "goals")
        merged == JoinRootFirst(doc, shared, Bare)
        start == TableStart(shared, Features)
        features == IF start = 0 THEN <<>> ELSE SubSeq(shared, start + 1, BlockEnd(shared, start) - 1)
    IN  Clean(RestoreGoals(goals,
            FoldLeft(LAMBDA d, l : UpsertTableKey(d, Features, l.key, l.value), merged, features)))

\* applyOfficialRealtimeConfig
RealtimeKeys(doc, mode) ==
    IF mode = "official" THEN RemoveRootKey(doc, "experimental_realtime_ws_base_url")
    ELSE UpsertRootKey(RemoveRootKey(doc, "experimental_realtime_ws_base_url"),
                       "experimental_realtime_ws_base_url", "managed")

\* officialRelayConfigSnapshot
OfficialSnapshot(doc) ==
    LET without == RemoteControlBaseURL(RemoveRootKey(doc, "experimental_realtime_ws_base_url"), "official")
    IN  UpsertRootKey(RemoveRootKey(RemoveTable(RemoveTable(without, Relay), LegacyRelay), "model_provider"),
                      "model_provider", "openai")

\* ensureRelaySnapshot, relayConfigForWrite
OwnText(p, current) ==
    LET kept == IF p.text = <<>> THEN current ELSE p.text
    IN  CASE p.mode = "official" -> OfficialSnapshot(kept)
          [] p.mode = "mixedApi" \/ (p.mode = "pureApi" /\ p.text = <<>>) -> UpsertModelProvider(kept)
          [] OTHER -> p.text
RelayConfig(p, current) ==
    LET own == CatalogKey(RemoteControlBaseURL(CommonPart(OwnText(p, current)), p.mode), p.models)
        shared == JoinRootFirst(SanitizeCommon(common),
                    FilterForSelection(pool,
                        {t \in TablesIn(pool) : t.spelling # "single" /\ t.parts \in p.chosen}), Bare)
    IN  RealtimeKeys(IF p.shared THEN MergeCommon(own, shared) ELSE Clean(own), p.mode)

\* preserveLiveHookState
PreserveHookState(doc, current) ==
    LET state == TableValue(current, Hooks, "state")
    IN  IF ~Valid(doc) \/ ~Valid(current) THEN doc
        ELSE IF state # "" THEN UpsertTableKey(doc, Hooks, "state", state)
        ELSE IF TableValue(doc, Hooks, "state") # "" THEN RemoveTableKey(doc, Hooks, "state")
        ELSE doc

------------------------------------------------------------------------------
\* Repairs (repair.go, computer_use.go).

\* repairCodexMarketplaceTable
RepairMarketplace(doc, name) ==
    IF ~HasTable(doc, Marketplace(name)) THEN
        AppendTomlBlock(doc, Marketplace(name),
            <<KeyLine("last_updated", "now"), KeyLine("source_type", "local"), KeyLine("source", "disk")>>)
    ELSE IF TableValue(doc, Marketplace(name), "source_type") = "local"
            /\ TableValue(doc, Marketplace(name), "source") = "disk" THEN doc
    ELSE FoldLeft(LAMBDA d, l : UpsertTableKey(d, Marketplace(name), l.key, l.value), doc,
            <<KeyLine("last_updated", "now"), KeyLine("source_type", "local"), KeyLine("source", "disk")>>)
EnablePlugin(doc, id) ==
    IF HasTable(doc, EntryTable("plugins", id)) THEN doc
    ELSE AppendTomlBlock(doc, EntryTable("plugins", id), <<KeyLine("enabled", "true")>>)
\* repairNodeReplMCPConfig
RepairNodeRepl(doc) ==
    AppendTomlBlock(AppendTomlBlock(RemoveTable(RemoveTable(doc, NodeRepl), NodeReplEnv),
        NodeRepl, <<KeyLine("command", "node_repl")>>), NodeReplEnv, <<KeyLine("CODEX_HOME", "home")>>)
\* repairCodexPluginConfig
RepairPlugins(doc) ==
    RepairNodeRepl(FoldLeft(EnablePlugin, FoldLeft(RepairMarketplace, doc, Marketplaces), CachedPlugins))
RepairGoals(doc) == UpsertTableKey(doc, Features, "goals", "true")
\* updateComputerUseCodexConfig, computerUseGuardConfigText
ComputerUse(doc) ==
    LET guarded == FoldLeft(LAMBDA d, id : UpsertTomlTable(d, EntryTable("plugins", id), <<KeyLine("enabled", "true")>>),
                        UpsertTableKey(doc, Features, "js_repl", "true"), CachedPlugins)
        sourced == UpsertTomlTable(guarded, Marketplace("openai-bundled"),
                        <<KeyLine("source_type", "local"), KeyLine("source", "disk")>>)
        notified == UpsertRootKey(sourced, "notify", "turn-ended")
    IN  UpsertTomlTable(RepairNodeRepl(notified), Windows32, <<KeyLine("sandbox", "unelevated")>>)

------------------------------------------------------------------------------
ConfigInit ==
    /\ live \in LiveChoices /\ common \in CommonChoices /\ profile \in ProfileChoices
    /\ pool = <<>> /\ steps = 0

Step1 == steps < MaxConfigSteps /\ steps' = steps + 1

\* applyRelayInjection: the switch and the repair after it.
ApplyRelay ==
    /\ Step1 /\ live' = RepairPlugins(PreserveHookState(RelayConfig(profile, live), live))
    /\ UNCHANGED <<profile, common, pool>>
\* backfillRelayProfileFromLive
Backfill == Step1 /\ profile' = [profile EXCEPT !.text = live] /\ UNCHANGED <<live, common, pool>>
\* repairCodexConfig, repairComputerUse
Repair ==
    /\ Step1 /\ live' \in {RepairPlugins(live), RepairGoals(live), ComputerUse(live)}
    /\ UNCHANGED <<profile, common, pool>>
\* extractRelayCommonConfig, with the save of what the page makes of the answer.
ExtractCommon ==
    /\ Step1 /\ common' = CommonPart(SanitizeCommon(live))
    /\ pool' = JoinedOnPage(pool \o ContextPart(SanitizeCommon(live))) /\ UNCHANGED <<live, profile>>
\* upsertContextEntry, deleteContextEntry
SaveEntry(kind, id) ==
    /\ Step1 /\ pool' = UpsertEntry(pool, kind, id, <<KeyLine("command", "new")>>)
    /\ UNCHANGED <<live, profile, common>>
DropEntry(kind, id) ==
    /\ Step1 /\ pool' = DeleteEntry(pool, kind, id)
    /\ profile' = [profile EXCEPT !.chosen = @ \ {<<kind, id>>}]
    /\ UNCHANGED <<live, common>>
\* syncLiveContextEntries
SyncLive ==
    /\ Step1 /\ live' = CommonPart(live) \o FilterForSelection(pool, ListedEntries(pool))
    /\ UNCHANGED <<profile, common, pool>>
UserAdds(line) == Step1 /\ live' = Append(live, line) /\ UNCHANGED <<profile, common, pool>>

ConfigNext ==
    \/ ApplyRelay \/ Backfill \/ Repair \/ ExtractCommon \/ SyncLive
    \/ \E kind \in {"mcp_servers", "plugins"}, id \in Ids : SaveEntry(kind, id) \/ DropEntry(kind, id)
    \/ \E line \in UserLines : UserAdds(line)
ConfigSpec == ConfigInit /\ [][ConfigNext]_configVars
------------------------------------------------------------------------------
\* The edit of a document replaces what Gone says by put and leaves all else.
Exact(doc, next, Gone(_), put) ==
    Valid(next) /\ MeaningOf(next) = {e \in MeaningOf(doc) : ~Gone(e)} \cup put
\* Every header of the table is spelled as the edits expect.
AsExpected(doc, table) ==
    \A i \in 1 .. Len(doc) : StartsBracket(doc[i]) =>
        doc[i].plain /\ (doc[i].table.parts = table.parts => doc[i].table = table)

\* An edit of the text of a valid document does what its name says to what the
\* document means, and nothing else: keys of the root whatever the headers,
\* keys and tables where the headers are spelled as expected; a document falls
\* into its common part and its tools, and into what is extracted and what is
\* left, without loss; and a repair of what is
\* repaired changes nothing.
EditsAreExact ==
    Valid(live) =>
        /\ \A key \in ProviderKeys :
              LET Gone(e) == e.table = <<>> /\ e.key = key
              IN  /\ Exact(live, UpsertRootKey(live, key, "new"), Gone, {Entry(<<>>, key, "new")})
                  /\ Exact(live, RemoveRootKey(live, key), Gone, {})
        /\ \A t \in {Features, NodeRepl} \cup {EntryTable("plugins", id) : id \in Ids} :
              AsExpected(live, t) =>
                  LET OfKey(e) == e.table = t.parts /\ e.key = "goals"
                      OfTable(e) == e.table = t.parts
                  IN  /\ Exact(live, UpsertTableKey(live, t, "goals", "new"), OfKey, {Entry(t.parts, "goals", "new")})
                      /\ Exact(live, RemoveTableKey(live, t, "goals"), OfKey, {})
                      /\ Exact(live, RemoveTable(live, t), OfTable, {})
                      /\ Exact(live, UpsertTomlTable(live, t, <<KeyLine("a", "b")>>), OfTable, {Entry(t.parts, "a", "b")})
        /\ MeaningOf(CommonPart(live) \o ContextPart(live)) = MeaningOf(live)
        /\ LET taken == SanitizeCommon(live)
           IN  MeaningOf(live) = MeaningOf(StripCommon(live, taken)) \cup MeaningOf(taken)
        /\ (\A id \in Ids : AsExpected(live, EntryTable("plugins", id))) /\ AsExpected(live, NodeRepl) =>
              MeaningOf(RepairPlugins(RepairPlugins(live))) = MeaningOf(RepairPlugins(live))

\* Every header is plain, and the tools of the pool are spelled alike.
Tidy(own) ==
    /\ \A doc \in {own, common, pool} : \A i \in 1 .. Len(doc) :
          StartsBracket(doc[i]) =>
              /\ doc[i].plain
              /\ doc # pool /\ ~IsContextTable(doc[i].table) => doc[i].table.spelling = "bare"
    /\ RootSection(pool) = <<>> /\ Valid(own) /\ Valid(common) /\ Valid(pool)
Managed == {"openai_base_url", "model_catalog_json", "experimental_realtime_ws_base_url"}
SaysWhatItShould(next, own) ==
    /\ Valid(next)
    /\ \A e \in MeaningOf(own) :
          \/ e.table = <<>> /\ e.key \notin Managed
          \/ e.table = <<"features">> /\ e.key = "goals"
          => e \in MeaningOf(next)
    /\ profile.shared =>
          \A e \in MeaningOf(CommonPart(SanitizeCommon(common))) :
              \/ e \in MeaningOf(next)
              \/ /\ e.table = <<>> \/ e.key = "goals"
                 /\ \E o \in MeaningOf(own) : o.table = e.table /\ o.key = e.key
    /\ \A parts \in TablesOf(next) : Len(parts) = 2 /\ parts[1] \in Kinds => parts \in profile.chosen

\* What a switch writes is valid and says what profile and common configuration
\* say: at the root and for the goals the profile wins, elsewhere the common
\* configuration; a tool is there exactly if it is selected and enabled; and
\* switching again to what was written changes nothing.
SwitchIsExact ==
    LET own == CommonPart(OwnText(profile, live))
        Again(next) == RelayConfig([profile EXCEPT !.text = next], next)
    IN  Tidy(own) => \A next \in {RelayConfig(profile, live)} :
                        SaysWhatItShould(next, own) /\ MeaningOf(Again(next)) = MeaningOf(next)

ConfigIsExact == EditsAreExact /\ SwitchIsExact

\* config.toml stays a valid document.
LiveStaysValid == Valid(live)
=============================================================================

\* The tables of a tool in two spellings.
SPECIFICATION ConfigSpec
CONSTANTS
    Ids = {"node_repl", "gh@m"}
    BareIds = {"node_repl"}
    Marketplaces <- MCMarketplaces
    CachedPlugins <- MCCached
    LiveChoices <- MCPlainLive
    ProfileChoices <- MCUnshared
    CommonChoices <- MCCommon
    UserLines = {}
    MaxConfigSteps = 3
INVARIANT LiveStaysValid
CHECK_DEADLOCK FALSE

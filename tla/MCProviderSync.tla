---------------------------- MODULE MCProviderSync ----------------------------
\* Two session files, one database and the global state; two providers.
EXTENDS ProviderSync

CONSTANTS f1, f2, d1, global, openai, relay
=============================================================================

------------------------------- MODULE MCTexts -------------------------------
(* The lock of the maintenance, what a provider sync writes under it, the      *)
(* text of config.toml and that of patches: machines without common state, of  *)
(* which a behaviour runs one.                                                 *)
EXTENDS MCMaintenanceLock, MCCodexConfig, CatalogSync, PatchText

VARIABLE part

\* Rollouts: of the Windows form; with a turn in another directory; larger than
\* what is read; archived, in a scratch directory and without a word of the
\* user; without id; not to be rewritten.
MCPath(dir, form) == [dir |-> dir, form |-> form]
MCMeta(t, p, path) == Line("meta", t, p, path, <<>>)
MCOther(kind) == Line(kind, "", "", NoPath, <<>>)
MCTurn(path) == Line("turn", "", "", path, <<>>)
MCMessage(pieces) == Line("message", "", "", NoPath, pieces)
MCStuck == Rollout(FALSE, <<MCOther("broken"), MCMeta("t1", "custom", NoPath)>>, 2)
MCRollouts ==
    {MCStuck,
     Rollout(FALSE, <<MCMeta("t1", "custom", MCPath("work", "extended"))>>, 3),
     Rollout(FALSE, <<MCMeta("t1", "openai", NoPath), MCTurn(MCPath("work", "plain")),
                      MCMessage(<<"heading", "text">>)>>, 4),
     Rollout(FALSE, <<MCMeta("t2", "custom", MCPath("play", "spelled")),
                      MCMeta("t1", "openai", NoPath), MCOther("mark")>>, 2),
     Rollout(TRUE, <<MCMeta("t2", "openai", MCPath("tree", "plain")),
                     MCMessage(<<"open", "text", "close">>)>>, 3),
     Rollout(FALSE, <<MCMeta("", "custom", MCPath("play", "plain")), MCOther("mark")>>, 3)}
MCLineChoices ==
    {MCTurn(MCPath("play", "plain")), MCMessage(<<"open", "text">>),
     MCMessage(<<"open", "close", "text">>), MCOther("broken"),
     MCMeta("t1", "custom", NoPath)}
MCRoots == {<<>>, <<MCPath("work", "spelled"), MCPath("play", "extended"), MCPath("work", "plain")>>}
MCRows ==
    {NoThreadRow,
     [provider |-> "custom", source |-> "", user |-> FALSE, cwd |-> MCPath("work", "plain"), path |-> 1],
     [provider |-> "openai", source |-> "user", user |-> FALSE, cwd |-> NoPath, path |-> 1]}

MCPatchLines ==
    {PatchLine("*** Add File: ", "p"), PatchLine("*** Delete File: ", "p"),
     PatchLine("*** Update File: ", "p"), PatchLine("*** Move to: ", "q"), PatchLine("@@", ""),
     PatchLine("+", "x"), PatchLine("+", ""), PatchLine("-", "x"), PatchLine("bare", "x"),
     PatchLine(" ", "x")}

\* The parts that do not run stay in one of their initial states.
MCInit ==
    /\ part \in {"lock", "catalog", "config", "patch"}
    /\ Init
    /\ CatalogInit
    /\ (part # "catalog" => /\ home.rollouts[1] = MCStuck /\ home.projectless = {}
                            /\ home.roots["project-order"] = <<>>)
    /\ ConfigInit
    /\ (part # "config" => live = MCTwice /\ common = <<>> /\ profile.text = <<>> /\ profile.shared)
    /\ PatchInit

MCNext ==
    /\ UNCHANGED part
    /\ \/ part = "lock" /\ Next /\ UNCHANGED <<catalogVars, configVars, body>>
       \/ part = "catalog" /\ CatalogNext /\ UNCHANGED <<vars, configVars, body>>
       \/ part = "config" /\ ConfigNext /\ UNCHANGED <<vars, catalogVars, body>>
       \/ part = "patch" /\ PatchNext /\ UNCHANGED <<vars, catalogVars, configVars>>

\* The fairness of FairSpec, for the part that has it.
MCSpec ==
    /\ MCInit /\ [][MCNext]_<<vars, catalogVars, configVars, body, part>>
    /\ \A o \in Ops :
          WF_vars(part = "lock" /\ Acquire(o)) /\ WF_vars(part = "lock" /\ Work(o))
=============================================================================

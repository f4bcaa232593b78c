------------------------------ MODULE MCLauncher ------------------------------
(* Launchers of either platform, and the watch of the page by one of them:     *)
(* machines without common state, of which a behaviour runs one.               *)
EXTENDS Launcher, BridgeWatch

CONSTANTS l1, l2
VARIABLE part

\* The part that does not run stays in one of its initial states.
MCInit ==
    /\ part \in {"launch", "bridge"}
    /\ Init /\ (part # "launch" => Windows /\ app = None)
    /\ BridgeInit /\ (part # "bridge" => ~page)

MCNext ==
    /\ UNCHANGED part
    /\ \/ part = "launch" /\ Next /\ UNCHANGED bridgeVars
       \/ part = "bridge" /\ BridgeNext /\ UNCHANGED vars

\* The fairness of FairSpec and of BridgeFairness, for the parts that have it.
MCSpec ==
    /\ MCInit /\ [][MCNext]_<<vars, bridgeVars, part>>
    /\ \A l \in Launchers : WF_vars(part = "launch" /\ Step(l))
    /\ WF_bridgeVars(part = "bridge" /\ BridgeSteps)
=============================================================================

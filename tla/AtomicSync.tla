------------------------------ MODULE AtomicSync ------------------------------
(***************************************************************************)
(* What a provider synchronization promises its caller: seen from outside  *)
(* a run it either moved the whole history to one provider, or left the    *)
(* whole history alone, or says that the history may be partial.  Only a   *)
(* crash leaves a mixture without saying so, and even then every store is  *)
(* at its old value or at the value the run was writing.                   *)
(***************************************************************************)
CONSTANTS Stores, Providers, Want(_, _), Values

VARIABLES history, running, outcome

avars == <<history, running, outcome>>

AInit ==
    /\ history \in [Stores -> Values]
    /\ running = FALSE
    /\ outcome = "none"

\* Every store is at its old value or at the one provider p asks for.
Between(p) ==
    {h \in [Stores -> Values] : \A s \in Stores : h[s] \in {history[s], Want(p, s)}}

Begin ==
    /\ ~running
    /\ running' = TRUE
    /\ outcome' = "none"
    /\ UNCHANGED history

Synced ==
    /\ outcome' = "synced"
    /\ \E p \in Providers : history' = [s \in Stores |-> Want(p, s)]

Untouched ==
    /\ outcome' \in {"skipped", "failed"}
    /\ UNCHANGED history

Mixed ==
    /\ outcome' \in {"partial", "crashed"}
    /\ \E p \in Providers : history' \in Between(p)

End ==
    /\ running
    /\ running' = FALSE
    /\ Synced \/ Untouched \/ Mixed

ANext == Begin \/ End

ASpec == AInit /\ [][ANext]_avars
=============================================================================

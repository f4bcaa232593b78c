-------------------------- MODULE MCMaintenanceLock --------------------------
\* Two operations of the manager and the life of one launcher, in three
\* processes, so that each of them may crash alone.
EXTENDS MaintenanceLock, TLC

CONSTANTS repair, switch, launch, manager, second, launcher

InThreeProcesses ==
    (repair :> manager) @@ (switch :> second) @@ (launch :> launcher)
=============================================================================

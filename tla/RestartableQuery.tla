-------------------------- MODULE RestartableQuery --------------------------
(***************************************************************************)
(* What a skyline node promises a parent that may rescan it (ExecReScan,   *)
(* backend/executor/execAmi.c): after a rescan the node answers the query  *)
(* anew, over the rows its outer plan returns from then on.                *)
(***************************************************************************)
EXTENDS SkylineQuery

\* The rows may be others: a parameter of the outer plan may have changed.
Restart ==
    /\ output' = <<>>
    /\ done' = FALSE
    /\ node' = node

RestartableNext == Next \/ Restart

RestartableSpec == Init /\ [][RestartableNext]_vars

=============================================================================

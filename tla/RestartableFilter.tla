-------------------------- MODULE RestartableFilter --------------------------
(***************************************************************************)
(* What the elimination filter promises a node that may rescan it: after a *)
(* rescan it filters the rows of its outer plan anew.                      *)
(***************************************************************************)
EXTENDS SkylineFilter

\* The rows may be others: a parameter of the outer plan may have changed.
Restart ==
    /\ output' = <<>>
    /\ done' = FALSE
    /\ node' = node

RestartableNext == Next \/ Restart

RestartableSpec == Init /\ [][RestartableNext]_vars

=============================================================================

---------------------------- MODULE SkylineFilter ----------------------------
(***************************************************************************)
(* What the elimination filter promises the nodes above it: it passes the  *)
(* tuples of its outer plan on in their order and leaves out only tuples   *)
(* that one it has passed on before makes superfluous, because it          *)
(* dominates them or, under SKYLINE OF DISTINCT, equals them.  How many it *)
(* leaves out is up to the filter.                                         *)
(*                                                                         *)
(* Tuples are named by their position in the outer plan's result.          *)
(***************************************************************************)
EXTENDS Dominance

VARIABLES
    node,    \* the plan node
    input,   \* the rows of the outer plan, in the order it returns them
    output,  \* the positions of the tuples passed on so far
    done     \* has the filter returned NULL

vars == <<node, input, output, done>>

Ids == 1..Len(input)

Passed == {output[k] : k \in 1..Len(output)}

Superfluous(i) ==
    \E k \in Passed : \/ Dominates(node, input[k], input[i])
                      \/ node.skyline_distinct /\ AllEq(node, input[k], input[i])

\* The position of the last tuple passed on.
Reached == IF output = <<>> THEN 0 ELSE output[Len(output)]

Init ==
    /\ output = <<>>
    /\ done = FALSE

Pass(i) ==
    /\ ~done
    /\ i > Reached
    /\ \A j \in Reached+1..i-1 : Superfluous(j)
    /\ output' = Append(output, i)
    /\ UNCHANGED <<node, input, done>>

Finish ==
    /\ ~done
    /\ \A j \in Reached+1..Len(input) : Superfluous(j)
    /\ done' = TRUE
    /\ UNCHANGED <<node, input, output>>

Next == (\E i \in Ids : Pass(i)) \/ Finish

Spec == Init /\ [][Next]_vars

=============================================================================

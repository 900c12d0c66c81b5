---------------------------- MODULE SkylineQuery ----------------------------
(***************************************************************************)
(* What a skyline node promises its parent, whatever method it runs        *)
(* (include/nodes/plannodes.h, SkylineMethod): every tuple of the outer    *)
(* plan that no other one dominates comes out once, no other tuple comes   *)
(* out, and NULL (end of the result) comes only after all of them.  With   *)
(* SKYLINE OF DISTINCT one tuple stands for all those ALL_EQ to it.        *)
(*                                                                         *)
(* Tuples are named by their position in the outer plan's result.          *)
(***************************************************************************)
EXTENDS Dominance

VARIABLES
    node,    \* the plan node
    input,   \* the rows of the outer plan, in the order it returns them
    output,  \* the positions of the tuples returned so far
    done     \* has ExecSkyline returned NULL

vars == <<node, input, output, done>>

Ids == 1..Len(input)

Emitted == {output[k] : k \in 1..Len(output)}

\* j is a reason not to return i.
Beats(j, i) ==
    \/ Dominates(node, input[j], input[i])
    \/ node.skyline_distinct /\ j # i /\ AllEq(node, input[j], input[i])

InSkyline(i) == \A j \in Ids : ~Dominates(node, input[j], input[i])

\* Returning i is right: it is in the skyline, and neither it nor (DISTINCT)
\* a tuple equal to it has been returned.
MayEmit(i) ==
    /\ InSkyline(i)
    /\ i \notin Emitted
    /\ \A k \in Emitted : ~Beats(k, i)

Init ==
    /\ output = <<>>
    /\ done = FALSE

Emit(i) ==
    /\ ~done
    /\ MayEmit(i)
    /\ output' = Append(output, i)
    /\ UNCHANGED <<node, input, done>>

Finish ==
    /\ ~done
    /\ \A i \in Ids : ~MayEmit(i)
    /\ done' = TRUE
    /\ UNCHANGED <<node, input, output>>

Next == (\E i \in Ids : Emit(i)) \/ Finish

Spec == Init /\ [][Next]_vars

=============================================================================

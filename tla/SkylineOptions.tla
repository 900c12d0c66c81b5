---------------------------- MODULE SkylineOptions ----------------------------
(***************************************************************************)
(* The options of SKYLINE OF ... WITH (backend/utils/skyline/skyline.c).   *)
(* An option list is a sequence of [name, value].  A method is chosen by   *)
(* naming it; of two the last one counts, whereas of two options with a    *)
(* value the first one does.                                               *)
(***************************************************************************)
EXTENDS Integers, Sequences, SequencesExt

\* skyline_options, without the long names of the methods.
MethodOption ==
    [bnl |-> "SM_BLOCKNESTEDLOOP", mnl |-> "SM_MATERIALIZEDNESTEDLOOP",
     presort |-> "SM_2DIM_PRESORT", sfs |-> "SM_SFS"]

skyline_method_forced_by_options(options) ==
    LET methods == {k \in DOMAIN options : options[k].name \in DOMAIN MethodOption}
    IN  IF methods = {} THEN "SM_UNKNOWN" ELSE MethodOption[options[Max(methods)].name]

HasOption(options, name) == \E k \in DOMAIN options : options[k].name = name

\* skyline_option_get_int and skyline_option_get_window_policy: the value of
\* the first option of that name, or what the variable held before.
OptionValue(options, name, default) ==
    IF HasOption(options, name)
    THEN Head(SelectSeq(options, LAMBDA o : o.name = name)).value
    ELSE default

\* get_int(name) || get_int(synonym).
OptionOrSynonym(options, name, synonym, default) ==
    OptionValue(options, name, OptionValue(options, synonym, default))

\* ExecInitSkyline, ExecInitElimFilter and their ...InitTupleWindow: the policy
\* and the slots of the window of either node.
NodePolicy(options, isFilter) ==
    OptionValue(options, IF isFilter THEN "efwindowpolicy" ELSE "windowpolicy", "APPEND")

NodeSlots(options, isFilter) ==
    IF isFilter THEN OptionOrSynonym(options, "efslots", "efwindowslots", -1)
    ELSE OptionOrSynonym(options, "slots", "windowslots", -1)

=============================================================================

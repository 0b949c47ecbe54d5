------------------------- MODULE MCHistoryAutosuggest -------------------------
(***************************************************************************)
(* An instance of HistoryAutosuggest for TLC: commands that differ by case   *)
(* or are prefixes of each other, prefixes that LIKE reads as wildcards, two  *)
(* directories, two seconds, and host windows of up to three entries.        *)
(***************************************************************************)
EXTENDS HistoryAutosuggest

MCCommands == {<<"g">>, <<"g", "p">>, <<"G", "p">>, <<"_">>}
MCTyped == {<<>>, <<"g">>, <<"_">>, <<"%", "p">>}

WindowEntry(c, d, t) == [command |-> c, cwd |-> d, ts |-> t]

\* Two commands in every order, directory and with or without timestamps.
MCWindows ==
    LET es == {WindowEntry(c, d, t) : c \in {<<"g">>, <<"g", "p">>},
                                      d \in {"/a", NoCwd}, t \in {NoTs, 1, 2}}
        later == WindowEntry(<<"g">>, "/a", 2)
    IN {<<>>} \cup {<<e, f>> : e, f \in es} \cup {<<e, f, later>> : e, f \in es}
=============================================================================

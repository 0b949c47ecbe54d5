---------------------------- MODULE MCStdioDaemon ----------------------------
(***************************************************************************)
(* Instances of StdioDaemon for TLC, with a limit of two bytes: lines on     *)
(* both sides of the limit, of every length at which the loop's chunk of     *)
(* four bytes ends, blank chunks in front, carriage returns, characters cut  *)
(* by the chunk or by the slice, and bytes that are not text.                *)
(***************************************************************************)
EXTENDS StdioDaemon

\* Text, at and around every length that matters.
PlainLines ==
    {<<>>, <<"s">>, <<"x">>, <<"s", "x">>,
     <<"x", "x", "x">>,                         \* one byte over the limit
     <<"x", "x", "s">>,
     <<"x", "x", "x", "x">>,                    \* a full chunk
     <<"x", "x", "x", "x", "x">>,
     <<"s", "s", "s", "s">>,                    \* a blank chunk
     <<"s", "s", "s", "s", "x">>,
     <<"s", "s", "s", "s", "x", "x", "x">>,
     <<"x", "x", "r">>, <<"x", "x", "x", "r">>}

\* A character within the limit, cut by the slice, cut by the chunk.
Utf8Lines ==
    {<<"m1", "m2">>, <<"x", "x", "m1", "m2">>, <<"x", "x", "x", "m1", "m2">>}

AllLines == PlainLines \cup Utf8Lines \cup {<<"b">>}

ShortLines == {<<"x">>, <<"x", "x">>, <<"x", "x", "x">>, <<"x", "x", "x", "x">>}
=============================================================================

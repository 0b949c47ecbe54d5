----------------------------- MODULE MCCorrection -----------------------------
(***************************************************************************)
(* An instance of Correction for TLC: two directories, three commands whose *)
(* names are one or two edits away from what is typed, and rules of every    *)
(* kind, some of which propose the same command.                             *)
(***************************************************************************)
EXTENDS Correction

Dash == 1
A == 3
B == 4
C == 5

MCChars == {Dash, 2, A, B, C}

ab == <<A, B>>
aab == <<A, A, B>>
abc == <<A, B, C>>
ac == <<A, C>>
cc == <<C, C>>
flag == <<Dash, A>>

MCNames == {ab, aab, abc}

\* The kinds of ab, aab and abc in the two directories.
Held(k) == ab :> k[1] @@ aab :> k[2] @@ abc :> k[3]

MCPaths == {<<Held(<<"exec", "none", "none">>), Held(<<"none", "exec", "exec">>)>>,
            <<Held(<<"none", "link", "exec">>), Held(<<"exec", "exec", "none">>)>>,
            <<Held(<<"plain", "exec", "none">>), Held(<<"none", "exec", "none">>)>>}

Always == [startsWith |-> None, scriptRegex |-> None, stderrContains |-> {},
           stderrRegex |-> None, exitCodeIn |-> {}, commandExists |-> None]

Native(id, priority) ==
    [id |-> id, priority |-> priority, native |-> TRUE, match |-> Always, rewrite |-> None]

Json(id, priority, match, rewrite) ==
    [id |-> id, priority |-> priority, native |-> FALSE, match |-> match, rewrite |-> rewrite]

\* What a host asks about: two spaces, a subcommand unknown to the spec, a path,
\* and an empty line.
Asked(script, stderr, code) == [script |-> script, stderr |-> stderr, exit_code |-> code]

spaced == ac \o <<Space, Space>> \o cc
typo == ab \o <<Space, B, C>>

MCRequests ==
    {Asked(spaced, {"not found"}, 127), Asked(typo, {"denied"}, 1),
     Asked(<<2, A, B>>, {}, 1), Asked(<<>>, {}, None)}

\* The first spec that answers to ab is the one that counts.
MCSpecs == <<[name |-> {abc, ab}, subcommands |-> {{cc, <<C, B>>}, {ac}}],
             [name |-> {ab}, subcommands |-> {{<<B, B>>}}]>>

\* A replacement that changes no script.
Same == [s \in Scripts |-> s]

BadPattern == [valid |-> FALSE, matches |-> {}]

Swap == Json(31, 85, Always, [kind |-> "swapSubcommand", from |-> <<B, C>>, to |-> cc])
Insert == Json(10, 80, [Always EXCEPT !.exitCodeIn = {1, 127}, !.commandExists = ab],
               [kind |-> "insertFlag", after |-> ac, flag |-> flag])
Sudo == Json(5, 90, [Always EXCEPT !.stderrContains = {"denied", "root"}],
             [kind |-> "prefix", prefix |-> cc \o <<Space>>])
Squeeze == Json(6, 95, [Always EXCEPT !.startsWith = <<A>>],
                [kind |-> "regexReplace",
                 pattern |-> [valid |-> TRUE, matches |-> {spaced, typo}],
                 with |-> [Same EXCEPT ![spaced] = ac \o <<Space>> \o cc,
                                    ![typo] = ab \o <<Space>> \o ac]])
Fixed == Json(7, 90, [Always EXCEPT !.scriptRegex = [valid |-> TRUE, matches |-> {spaced}]],
              [kind |-> "replaceToken", index |-> 0, with |-> ab])
BadMatch == Json(12, 50, [Always EXCEPT !.startsWith = ac, !.stderrRegex = BadPattern], None)
\* A condition that compiles, in front of one that does not.
BadBehind == Json(14, 50, [Always EXCEPT !.scriptRegex = [valid |-> TRUE, matches |-> {spaced}],
                                         !.stderrRegex = BadPattern], None)
BadRewrite == Json(13, 50, [Always EXCEPT !.commandExists = aab],
                   [kind |-> "regexReplace", pattern |-> BadPattern, with |-> Same])

MCRuleSets ==
    {<<Native(20, 90), Insert, Fixed, Sudo, Squeeze>>,
     <<Swap, Native(30, 85), Sudo, Native(20, 85), Squeeze>>,
     <<Native(20, 90), BadMatch, BadRewrite>>,
     <<Native(20, 90), BadBehind, Swap>>,
     <<Insert, Native(40, 10), BadMatch>>}

=============================================================================

---------------------------- MODULE MCCompleteLine ----------------------------
(***************************************************************************)
(* An instance of CompleteLine for TLC: a command g with a subcommand c that *)
(* chains short flags and a subcommand s of c whose options must precede its *)
(* arguments.                                                               *)
(***************************************************************************)
EXTENDS CompleteLine

MCNodes == {"g", "c", "s"}

Option(names) ==
    [name |-> names, args |-> <<>>, isPersistent |-> FALSE,
     requiresSeparator |-> FALSE, isRepeatable |-> 1, exclusiveOn |-> {},
     dependsOn |-> {}]

Plain(names, value) == [name |-> names, insert |-> value, priority |-> 50, hidden |-> FALSE]

\* Suggestions (one hidden, one of high priority), files and a generator.
ArgFull ==
    [isVariadic |-> TRUE, template |-> "filepaths", generator |-> "gen", priority |-> 60,
     suggestions |-> <<[Plain(<<<<"x">>, <<"a", "x">>>>, <<"x">>) EXCEPT !.hidden = TRUE],
                       [Plain(<<<<"x", "a">>>>, <<"x", "a">>) EXCEPT !.priority = 90]>>]

ArgPlain ==
    [isVariadic |-> FALSE, template |-> "folders", generator |-> None, priority |-> 50,
     suggestions |-> <<Plain(<<<<"a">>>>, <<"a">>)>>]

\* -v is inherited and may be given twice; -q excludes it.
Verbose == [Option(<<<<"-", "v">>, <<"-", "-", "v">>>>) EXCEPT
              !.isPersistent = TRUE, !.isRepeatable = 2]
Quiet == [Option(<<<<"-", "q">>>>) EXCEPT
            !.isPersistent = TRUE, !.exclusiveOn = {<<"-", "v">>, <<"-", "-", "v">>}]
Message == [Option(<<<<"-", "m">>>>) EXCEPT
              !.args = <<ArgPlain>>, !.isRepeatable = Unlimited]
Amend == [Option(<<<<"-", "a">>>>) EXCEPT !.dependsOn = {<<"-", "m">>}]
Output == [Option(<<<<"-", "-", "o">>>>) EXCEPT
             !.args = <<ArgPlain>>, !.requiresSeparator = TRUE]

MCTree ==
    [n \in MCNodes |->
       CASE n = "g" -> [name |-> <<<<"g">>>>, subcommands |-> <<"c">>,
                        options |-> <<Verbose, Quiet>>, args |-> <<ArgPlain>>,
                        directives |-> None]
         [] n = "c" -> [name |-> <<<<"c">>, <<"k">>>>, subcommands |-> <<"s">>,
                        options |-> <<Message, Amend, Output>>, args |-> <<ArgFull>>,
                        directives |-> [chaining |-> TRUE, optionsFirst |-> FALSE,
                                        separators |-> <<"=", " ">>]]
         [] n = "s" -> [name |-> <<<<"s">>>>, subcommands |-> <<>>,
                        options |-> <<Message>>, args |-> <<ArgPlain, ArgFull>>,
                        directives |-> [chaining |-> FALSE, optionsFirst |-> TRUE,
                                        separators |-> <<>>]]]

MCProduces == [g \in {"gen"} |-> {<<>>, <<<<"a">>, <<>>, <<"x", "y">>>>}]

File(name, isDir) == [name |-> name, isDir |-> isDir]

MCListing ==
    [d \in {<<>>, <<"x", "/">>} |->
       IF d = <<>> THEN <<File(<<"x">>, TRUE), File(<<".", "a">>, FALSE), File(<<"a">>, FALSE)>>
       ELSE <<File(<<"y">>, FALSE)>>]

Characters == <<" ", "\"", "'", "-", ".", "/", "=", "\\", "a", "c", "g", "k", "m", "o",
                "q", "s", "v", "x", "y">>
MCOrd == [c \in ToSet(Characters) |-> CHOOSE i \in DOMAIN Characters : Characters[i] = c]

Words ==
    {<<"c">>, <<"s">>, <<"x", "a">>, <<"-">>, <<"-", "v">>, <<"-", "-", "v">>,
     <<"-", "q">>, <<"-", "m">>, <<"-", "a", "m">>, <<"-", "-", "o", "=", "a">>}

\* The word at the cursor: what begins, completes or contradicts a candidate.
LastWords == Words \cup {<<>>, <<"'", "x">>, <<"x", "/">>, <<".">>}

\* The line of a command and the words after it.
Line(ws) == FlattenSeq([i \in DOMAIN ws |-> IF i = 1 THEN ws[1] ELSE <<" ">> \o ws[i]])

Lines(few) == {Line(<<<<"g">>>> \o ws \o <<w>>) : ws \in SeqOf(Words, few), w \in LastWords}

AtEnd(lines) == {[line |-> l, cursor |-> Len(l)] : l \in lines}

Anywhere(lines) == UNION {{[line |-> l, cursor |-> c] : c \in 0 .. Len(l) + 1} : l \in lines}

\* The command and up to four words with the cursor at the end, up to two words
\* with the cursor anywhere, and every line of a few characters.
MCAsked == AtEnd(Lines(3)) \cup Anywhere(Lines(1))
             \cup Anywhere(SeqOf({"g", " ", "'", "\"", "\\"}, 4))
=============================================================================

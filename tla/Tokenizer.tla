------------------------------ MODULE Tokenizer ------------------------------
(***************************************************************************)
(* The tokenizer of core/src/tokenize.rs.  A line is a sequence of          *)
(* characters, each a string of length one; positions count characters      *)
(* from 0, as the code counts bytes (a cursor inside the bytes of a          *)
(* character is snapped to the start of that character).                     *)
(***************************************************************************)
EXTENDS Naturals, Sequences, SequencesExt

White == {" "}
Quotes == {"'", "\""}
Escape == "\\"

\* Where a scan stands: between words, in one, within quotes, or behind a
\* backslash, unquoted or within double quotes.
Modes == {"gap", "word", "'", "\"", "escape", "\"escape"}

\* One character c within a word, for lex and unquote alike: the mode it leads
\* to and what it adds to the text.  A backslash that is literal escapes
\* nothing.
Chew(mode, text, c, literal) ==
    CASE mode = "word" /\ c \in Quotes            -> <<c, text>>
      [] mode = "word" /\ c = Escape /\ ~literal  -> <<"escape", text>>
      [] mode = "\"" /\ c = Escape /\ ~literal    -> <<"\"escape", text>>
      [] mode \in Quotes /\ c = mode              -> <<"word", text>>
      [] mode = "escape"                          -> <<"word", Append(text, c)>>
      [] mode = "\"escape"                        -> <<"\"", Append(text, c)>>
      [] OTHER                                    -> <<mode, Append(text, c)>>

\* Character i of the line: the tokens completed so far and the one under way.
\* lex takes a backslash literally at the end of the line.
LexStep(line, s, i) ==
    LET c == line[i]
        next == IF s.mode = "gap" THEN Chew("word", <<>>, c, i = Len(line))
                ELSE Chew(s.mode, s.text, c, i = Len(line))
    IN CASE s.mode = "gap" /\ c \in White  -> s
         [] s.mode = "word" /\ c \in White ->
              [s EXCEPT !.mode = "gap", !.tokens =
                 Append(@, [text |-> s.text, start |-> s.start, end |-> i - 1])]
         [] OTHER ->
              [s EXCEPT !.mode = next[1], !.text = next[2],
                        !.start = IF s.mode = "gap" THEN i - 1 ELSE @]

\* The states of the scan, before the line and after each of its characters.
Lexed(line) ==
    LET scan[i \in 0 .. Len(line)] ==
            IF i = 0 THEN [mode |-> "gap", text |-> <<>>, start |-> 0, tokens |-> <<>>]
            ELSE LexStep(line, scan[i - 1], i)
    IN scan

\* The tokens of a line; quotes that are not closed end with the line.
lex(line) ==
    LET end == Lexed(line)[Len(line)]
    IN IF end.mode = "gap" THEN end.tokens
       ELSE Append(end.tokens, [text |-> end.text, start |-> end.start,
                                end |-> Len(line)])

\* The states of the scan of a part of a token: mode and text.
Unquoted(raw, literal) ==
    LET scan[i \in 0 .. Len(raw)] ==
            IF i = 0 THEN <<"word", <<>>>>
            ELSE Chew(scan[i - 1][1], scan[i - 1][2], raw[i], literal)
    IN scan

\* Fault: a backslash stays in the text.
unquote_keeping_escapes(raw) == Unquoted(raw, TRUE)[Len(raw)][2]

\* The text of a part of a token; a backslash at its end adds nothing.
unquote(raw) == Unquoted(raw, FALSE)[Len(raw)][2]

clamp_cursor(line, cursor) == IF cursor > Len(line) THEN Len(line) ELSE cursor

\* Fault: a token that ends with the line is not edited at its end.
EditsInside(line, cursor, tok) ==
    /\ tok.start <= cursor
    /\ \/ cursor < tok.end
       \/ cursor = tok.end /\ cursor < Len(line) /\ line[cursor + 1] \notin White

\* The cursor edits a token it is inside of, or at the end of unless white
\* space follows.
Edits(line, cursor, tok) ==
    /\ tok.start <= cursor
    /\ \/ cursor < tok.end
       \/ /\ cursor = tok.end
          /\ cursor = Len(line) \/ line[cursor + 1] \notin White

\* The tokens, the index of the token the cursor edits (0 for none) and the part
\* of that token before the cursor.  The line and the cursor are there for the properties
\* only.
tokenize(line, at) ==
    LET cursor == clamp_cursor(line, at)
        tokens == lex(line)
        edited == {i \in DOMAIN tokens : Edits(line, cursor, tokens[i])}
        i == CHOOSE k \in edited : \A j \in edited : k <= j
    IN IF edited = {}
       THEN [tokens |-> tokens, cursor_token |-> 0, query |-> <<>>,
             line |-> line, cursor |-> cursor]
       ELSE [tokens |-> tokens, cursor_token |-> i,
             query |-> unquote(SubSeq(line, tokens[i].start + 1, cursor)),
             line |-> line, cursor |-> cursor]

\* The tokens the parser consumes: those before the edited one, or all.
committed(list) ==
    IF list.cursor_token = 0 THEN list.tokens
    ELSE SubSeq(list.tokens, 1, list.cursor_token - 1)
=============================================================================

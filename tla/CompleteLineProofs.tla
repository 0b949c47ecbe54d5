-------------------------- MODULE CompleteLineProofs --------------------------
(***************************************************************************)
(* Proofs about CompleteLine: what the parser knows of a line, which options  *)
(* are offered and which candidates are answered, for any spec and any line.  *)
(***************************************************************************)
EXTENDS CompleteLine, SequenceLemmas, TLAPS

-----------------------------------------------------------------------------
(* The tokens of a line *)

LexState == [mode : Modes, text : Text, start : Nat, tokens : Seq(Token)]

LexStart == [mode |-> "gap", text |-> <<>>, start |-> 0, tokens |-> <<>>]

LEMMA ChewType ==
    ASSUME NEW mode \in Modes, NEW text \in Text, NEW c \in DOMAIN Ord, NEW literal \in BOOLEAN
    PROVE  Chew(mode, text, c, literal) \in Modes \X Text
<1>1. Append(text, c) \in Text
  BY DEF Text
<1>2. Quotes \subseteq Modes /\ {"word", "escape", "\"escape", "\""} \subseteq Modes
  BY DEF Quotes, Modes
<1>3. QED
  BY <1>1, <1>2 DEF Chew

LEMMA LexStepType ==
    ASSUME NEW line \in Text, NEW s \in LexState, NEW i \in 1 .. Len(line)
    PROVE  LexStep(line, s, i) \in LexState
<1> DEFINE c == line[i]
           literal == i = Len(line)
           from == IF s.mode = "gap" THEN "word" ELSE s.mode
           begun == IF s.mode = "gap" THEN <<>> ELSE s.text
           next == Chew(from, begun, c, literal)
           tok == [text |-> s.text, start |-> s.start, end |-> i - 1]
<1>1. /\ c \in DOMAIN Ord /\ i - 1 \in Nat /\ from \in Modes /\ begun \in Text /\ "gap" \in Modes
      /\ s.mode \in Modes /\ s.text \in Text /\ s.start \in Nat /\ s.tokens \in Seq(Token)
  <2>1. c \in DOMAIN Ord /\ i - 1 \in Nat /\ <<>> \in Text
    BY DEF Text
  <2>2. s.mode \in Modes /\ s.text \in Text /\ s.start \in Nat /\ s.tokens \in Seq(Token)
    BY DEF LexState
  <2>3. "word" \in Modes /\ "gap" \in Modes
    BY DEF Modes
  <2>4. QED
    BY <2>1, <2>2, <2>3
<1>2. next \in Modes \X Text
  BY <1>1, ChewType
<1>3. next[1] \in Modes /\ next[2] \in Text
  BY <1>2
<1>4. tok \in Token /\ Append(s.tokens, tok) \in Seq(Token)
  BY <1>1 DEF Token
<1>5. LexStep(line, s, i) =
        CASE s.mode = "gap" /\ c \in White  -> s
          [] s.mode = "word" /\ c \in White ->
               [s EXCEPT !.mode = "gap", !.tokens = Append(s.tokens, tok)]
          [] OTHER -> [s EXCEPT !.mode = next[1], !.text = next[2],
                                !.start = IF s.mode = "gap" THEN i - 1 ELSE s.start]
  BY DEF LexStep
<1> HIDE DEF c, from, begun, next, tok
<1>6. [s EXCEPT !.mode = "gap", !.tokens = Append(s.tokens, tok)] \in LexState
  BY <1>1, <1>4 DEF LexState
<1>7. [s EXCEPT !.mode = next[1], !.text = next[2],
                !.start = IF s.mode = "gap" THEN i - 1 ELSE s.start] \in LexState
  BY <1>1, <1>3 DEF LexState
<1>8. QED
  BY <1>5, <1>6, <1>7

\* The scan of a line, state by state.
LEMMA LexedFacts ==
    ASSUME NEW line \in Text, NEW L, L = Lexed(line)
    PROVE  /\ L \in [0 .. Len(line) -> LexState] /\ L[0] = LexStart
           /\ \A k \in 1 .. Len(line) : L[k] = LexStep(line, L[k - 1], k)
<1>1. PICK N \in Nat : N = Len(line)
  BY DEF Text
<1> DEFINE Body(f, i) == IF i = 0 THEN LexStart ELSE LexStep(line, f[i - 1], i)
           next == [x \in LexState \X (1 .. N) |-> LexStep(line, x[1], x[2])]
<1>2. LexStart \in LexState
  BY DEF LexStart, LexState, Modes, Text
<1>3. next \in [LexState \X (1 .. N) -> LexState]
  BY <1>1, LexStepType
<1>4. \A s \in LexState, k \in 1 .. N : next[<<s, k>>] = LexStep(line, s, k)
  OBVIOUS
<1> HIDE DEF next
<1>5. PICK f \in [0 .. N -> LexState] :
        f[0] = LexStart /\ \A k \in 1 .. N : f[k] = next[<<f[k - 1], k>>]
  <2>1. \E f : LoopOf(f, LexState, N, LexStart, next)
    BY <1>2, <1>3, LoopRuns
  <2>2. QED
    BY <2>1 DEF LoopOf
<1>6. \A i \in 0 .. N : f[i] = Body(f, i)
  <2>1. SUFFICES ASSUME NEW i \in 0 .. N, i # 0 PROVE f[i] = LexStep(line, f[i - 1], i)
    BY <1>5
  <2>2. i \in 1 .. N /\ i - 1 \in 0 .. N
    BY <2>1
  <2>3. QED
    BY <1>4, <1>5, <2>2
<1>7. \E g : g = [i \in 0 .. N |-> Body(g, i)]
  <2>1. f = [i \in 0 .. N |-> f[i]]
    OBVIOUS
  <2> HIDE DEF Body
  <2>2. f = [i \in 0 .. N |-> Body(f, i)]
    BY <1>6, <2>1
  <2>3. QED
    BY <2>2
<1>8. L = CHOOSE g : g = [i \in 0 .. N |-> Body(g, i)]
  BY <1>1 DEF Lexed, LexStart
<1> HIDE DEF Body
<1>9. L = [i \in 0 .. N |-> Body(L, i)]
  BY <1>7, <1>8, Zenon
<1>10. L[0] = LexStart
  <2>1. 0 \in 0 .. N
    OBVIOUS
  <2>2. QED
    BY <1>9, <2>1 DEF Body
<1>11. ASSUME NEW k \in 1 .. N PROVE L[k] = LexStep(line, L[k - 1], k)
  <2>1. k \in 0 .. N /\ k # 0
    OBVIOUS
  <2>2. L[k] = Body(L, k)
    BY <1>9, <2>1
  <2>3. QED
    BY <2>1, <2>2 DEF Body
<1>12. LoopOf(L, LexState, N, LexStart, next)
  <2>1. \A k \in 1 .. N : L[k - 1] \in LexState => L[k] = next[<<L[k - 1], k>>]
    BY <1>4, <1>11
  <2>2. L = [i \in 0 .. N |-> L[i]]
    BY <1>9
  <2>3. LoopOf(f, LexState, N, LexStart, next)
    BY <1>5 DEF LoopOf
  <2>4. QED
    BY <1>10, <2>1, <2>2, <2>3, LoopOnly
<1>13. L \in [0 .. N -> LexState]
  BY <1>12 DEF LoopOf
<1>14. QED
  BY <1>1, <1>10, <1>11, <1>13

LEMMA LexType ==
    ASSUME NEW line \in Text
    PROVE  lex(line) \in Seq(Token)
<1>1. PICK L : L = Lexed(line)
  OBVIOUS
<1>2. Len(line) \in Nat /\ Len(line) \in 0 .. Len(line)
  BY DEF Text
<1>3. L[Len(line)] \in LexState
  BY <1>1, <1>2, LexedFacts
<1>4. PICK e : e = L[Len(line)]
  OBVIOUS
<1> DEFINE tok == [text |-> e.text, start |-> e.start, end |-> Len(line)]
<1>5. e.text \in Text /\ e.start \in Nat /\ e.tokens \in Seq(Token)
  BY <1>3, <1>4 DEF LexState
<1>6. tok \in Token /\ Append(e.tokens, tok) \in Seq(Token)
  BY <1>2, <1>5 DEF Token
<1>7. lex(line) = IF e.mode = "gap" THEN e.tokens ELSE Append(e.tokens, tok)
  BY <1>1, <1>4 DEF lex
<1>8. QED
  BY <1>5, <1>6, <1>7

UnquoteStart == <<"word", <<>>>>

\* The scan of a part of a token, state by state.
LEMMA UnquotedFacts ==
    ASSUME NEW raw \in Text, NEW literal \in BOOLEAN, NEW L, L = Unquoted(raw, literal)
    PROVE  /\ L \in [0 .. Len(raw) -> Modes \X Text] /\ L[0] = UnquoteStart
           /\ \A k \in 1 .. Len(raw) : L[k] = Chew(L[k - 1][1], L[k - 1][2], raw[k], literal)
<1>1. PICK N \in Nat : N = Len(raw)
  BY DEF Text
<1>2. PICK S : S = Modes \X Text
  OBVIOUS
<1> DEFINE Body(f, i) ==
             IF i = 0 THEN UnquoteStart ELSE Chew(f[i - 1][1], f[i - 1][2], raw[i], literal)
           next == [x \in S \X (1 .. N) |-> Chew(x[1][1], x[1][2], raw[x[2]], literal)]
<1>3. UnquoteStart \in S
  <2>1. "word" \in Modes /\ <<>> \in Text
    BY DEF Modes, Text
  <2>2. QED
    BY <1>2, <2>1 DEF UnquoteStart
<1>4. next \in [S \X (1 .. N) -> S]
  <2>1. ASSUME NEW s \in S, NEW k \in 1 .. N PROVE Chew(s[1], s[2], raw[k], literal) \in S
    <3>1. s[1] \in Modes /\ s[2] \in Text
      BY <1>2
    <3>2. raw[k] \in DOMAIN Ord
      BY <1>1 DEF Text
    <3>3. QED
      BY <1>2, <3>1, <3>2, ChewType
  <2>2. QED
    BY <2>1
<1>5. \A s \in S, k \in 1 .. N : next[<<s, k>>] = Chew(s[1], s[2], raw[k], literal)
  OBVIOUS
<1> HIDE DEF next
<1>6. PICK f : LoopOf(f, S, N, UnquoteStart, next)
  BY <1>3, <1>4, LoopRuns
<1>7. \A i \in 0 .. N : f[i] = Body(f, i)
  <2>1. SUFFICES ASSUME NEW i \in 0 .. N, i # 0
                 PROVE  f[i] = Chew(f[i - 1][1], f[i - 1][2], raw[i], literal)
    BY <1>6 DEF LoopOf
  <2>2. i \in 1 .. N /\ i - 1 \in 0 .. N
    BY <2>1
  <2>3. f[i - 1] \in S /\ f[i] = next[<<f[i - 1], i>>]
    BY <1>6, <2>2 DEF LoopOf
  <2>4. QED
    BY <1>5, <2>2, <2>3
<1>8. \E g : g = [i \in 0 .. N |-> Body(g, i)]
  <2>1. f = [i \in 0 .. N |-> f[i]]
    BY <1>6 DEF LoopOf
  <2> HIDE DEF Body
  <2>2. f = [i \in 0 .. N |-> Body(f, i)]
    BY <1>7, <2>1
  <2>3. QED
    BY <2>2
<1>9. L = CHOOSE g : g = [i \in 0 .. N |-> Body(g, i)]
  BY <1>1 DEF Unquoted, UnquoteStart
<1> HIDE DEF Body
<1>10. L = [i \in 0 .. N |-> Body(L, i)]
  BY <1>8, <1>9, Zenon
<1>11. L[0] = UnquoteStart
  <2>1. 0 \in 0 .. N
    OBVIOUS
  <2>2. QED
    BY <1>10, <2>1 DEF Body
<1>12. ASSUME NEW k \in 1 .. N PROVE L[k] = Chew(L[k - 1][1], L[k - 1][2], raw[k], literal)
  <2>1. k \in 0 .. N /\ k # 0
    OBVIOUS
  <2>2. L[k] = Body(L, k)
    BY <1>10, <2>1
  <2>3. QED
    BY <2>1, <2>2 DEF Body
<1>13. LoopOf(L, S, N, UnquoteStart, next)
  <2>1. \A k \in 1 .. N : L[k - 1] \in S => L[k] = next[<<L[k - 1], k>>]
    BY <1>5, <1>12
  <2>2. L = [i \in 0 .. N |-> L[i]]
    BY <1>10
  <2>3. QED
    BY <1>6, <1>11, <2>1, <2>2, LoopOnly
<1>14. L \in [0 .. N -> S]
  BY <1>13 DEF LoopOf
<1>15. QED
  BY <1>1, <1>2, <1>11, <1>12, <1>14

LEMMA UnquoteType ==
    ASSUME NEW raw \in Text
    PROVE  unquote(raw) \in Text
<1>1. PICK L : L = Unquoted(raw, FALSE)
  OBVIOUS
<1>2. Len(raw) \in 0 .. Len(raw)
  BY DEF Text
<1>3. L[Len(raw)] \in Modes \X Text
  <2>1. L \in [0 .. Len(raw) -> Modes \X Text]
    BY <1>1, UnquotedFacts
  <2>2. QED
    BY <1>2, <2>1
<1>4. QED
  BY <1>1, <1>3 DEF unquote

\* A part of a sequence.
LEMMA PartType ==
    ASSUME NEW S, NEW s \in Seq(S), NEW m \in Nat, NEW n \in Nat, 1 <= m, m <= n + 1, n <= Len(s)
    PROVE  /\ SubSeq(s, m, n) \in Seq(S) /\ Len(SubSeq(s, m, n)) = n + 1 - m
           /\ \A i \in 1 .. n + 1 - m : SubSeq(s, m, n)[i] = s[m + i - 1]
OBVIOUS

Lines == [tokens : Seq(Token), cursor_token : Nat, query : Text, line : Text, cursor : Nat]

LEMMA TokenizeType ==
    ASSUME NEW line \in Text, NEW at \in Nat, NEW list, list = tokenize(line, at)
    PROVE  /\ list \in Lines /\ list.cursor_token <= Len(list.tokens)
           /\ committed(list) \in Seq(Token)
<1> DEFINE cursor0 == clamp_cursor(line, at)
           tokens == lex(line)
           edited == {i \in DOMAIN tokens : Edits(line, cursor0, tokens[i])}
           i == CHOOSE k \in edited : \A j \in edited : k <= j
           raw == SubSeq(line, tokens[i].start + 1, cursor0)
<1>1. Len(line) \in Nat /\ cursor0 \in Nat /\ cursor0 <= Len(line)
  BY DEF clamp_cursor, Text
<1>2. tokens \in Seq(Token)
  BY LexType
<1> HIDE DEF cursor0, tokens
<1>3. CASE edited = {}
  <2>1. list = [tokens |-> tokens, cursor_token |-> 0, query |-> <<>>,
                line |-> line, cursor |-> cursor0]
    BY <1>3 DEF tokenize, cursor0, tokens
  <2>2. <<>> \in Text
    BY DEF Text
  <2>3. QED
    BY <1>1, <1>2, <2>1, <2>2 DEF Lines, committed
<1>4. CASE edited # {}
  <2>1. edited \in SUBSET Nat /\ edited \subseteq 1 .. Len(tokens)
    BY <1>2
  <2>2. i \in edited
    <3> HIDE DEF edited
    <3>1. QED
      BY <1>4, <2>1, LeastNat
  <2>3. i \in 1 .. Len(tokens) /\ Len(tokens) \in Nat /\ tokens[i].start \in Nat
        /\ tokens[i].start <= cursor0
    <3> HIDE DEF i
    <3>1. i \in 1 .. Len(tokens) /\ Edits(line, cursor0, tokens[i])
      BY <2>1, <2>2
    <3>2. tokens[i] \in Token
      BY <1>2, <3>1
    <3>3. tokens[i].start \in Nat
      BY <3>2 DEF Token
    <3>4. QED
      BY <1>2, <3>1, <3>3 DEF Edits
  <2>4. list = [tokens |-> tokens, cursor_token |-> i, query |-> unquote(raw),
                line |-> line, cursor |-> cursor0]
    BY <1>4 DEF tokenize, cursor0, tokens
  <2> HIDE DEF i
  <2>5. raw \in Text
    BY <1>1, <2>3, PartType DEF Text
  <2>6. unquote(raw) \in Text
    BY <2>5, UnquoteType
  <2> HIDE DEF raw
  <2>7. list \in Lines /\ list.cursor_token = i /\ list.tokens = tokens
    BY <1>1, <1>2, <2>3, <2>4, <2>6 DEF Lines
  <2>8. SubSeq(tokens, 1, i - 1) \in Seq(Token)
    <3>1. i - 1 \in Nat /\ 1 <= i - 1 + 1 /\ i - 1 <= Len(tokens)
      BY <2>3
    <3>2. QED
      BY <1>2, <3>1, PartType
  <2>9. QED
    BY <2>3, <2>7, <2>8, <1>2 DEF committed
<1>5. QED
  BY <1>3, <1>4

LEMMA CommittedWords ==
    ASSUME NEW line \in Text, NEW at \in Nat, NEW ts, ts = committed(tokenize(line, at)),
           NEW text, text = [i \in DOMAIN ts |-> ts[i].text]
    PROVE  (IF text = <<>> THEN <<>> ELSE Tail(text)) \in Seq(Text)
<1>1. ts \in Seq(Token)
  BY TokenizeType
<1>2. \A i \in 1 .. Len(ts) : ts[i].text \in Text
  <2>1. \A t \in Token : t.text \in Text
    BY DEF Token
  <2>2. QED
    BY <1>1, <2>1
<1>3. text \in Seq(Text)
  BY <1>1, <1>2
<1>4. QED
  BY <1>3

-----------------------------------------------------------------------------
(* What the spec declares *)

LEMMA SpecFacts ==
    ASSUME NEW n \in Nodes
    PROVE  /\ Tree[n].options \in Seq(Opt) /\ Tree[n].args \in Seq(Arg)
           /\ Tree[n].subcommands \in Seq(Nodes) /\ Tree[n].name \in Seq(Text) \ {<<>>}
           /\ Tree[n].directives \in Directives \cup {None}
           /\ OptionsOf(n) \subseteq Opt /\ OptionsOf(n) \subseteq AllOptions
<1>1. Tree[n] \in Subcommand
  BY CompleteAssumption
<1>2. /\ Tree[n].options \in Seq(Opt) /\ Tree[n].args \in Seq(Arg)
      /\ Tree[n].subcommands \in Seq(Nodes) /\ Tree[n].name \in Seq(Text) \ {<<>>}
      /\ Tree[n].directives \in Directives \cup {None}
  BY <1>1 DEF Subcommand
<1>3. OptionsOf(n) \subseteq Opt
  BY <1>2 DEF OptionsOf, ToSet
<1>4. QED
  BY <1>2, <1>3 DEF AllOptions

LEMMA OptFacts ==
    ASSUME NEW o \in Opt
    PROVE  /\ o.name \in Seq(Text) /\ o.name # <<>> /\ canonical(o.name) \in Text
           /\ o.args \in Seq(Arg) /\ o.isPersistent \in BOOLEAN /\ o # None
           /\ 1 \in DOMAIN o.name /\ o.isRepeatable \in Nat \cup {Unlimited}
<1>1. /\ o.name \in Seq(Text) /\ o.name # <<>> /\ o.args \in Seq(Arg)
      /\ o.isPersistent \in BOOLEAN /\ o.isRepeatable \in Nat \cup {Unlimited}
  BY DEF Opt
<1>2. o # None
  BY CompleteAssumption
<1>3. 1 \in DOMAIN o.name /\ o.name[1] \in Text
  BY <1>1
<1>4. QED
  BY <1>1, <1>2, <1>3 DEF canonical

LEMMA FirstFacts ==
    ASSUME NEW S \in SUBSET Nat, S # {}
    PROVE  First(S) \in S /\ \A j \in S : First(S) <= j
BY LeastNat DEF First

LEMMA PersistentOf ==
    ASSUME NEW n \in Nodes, NEW r, r = collect_persistent(n)
    PROVE  r \in Seq(Opt) /\ ToSet(r) = {o \in OptionsOf(n) : o.isPersistent}
<1>1. PICK s : s = Tree[n].options
  OBVIOUS
<1>2. PICK K : K = {i \in DOMAIN s : s[i].isPersistent}
  OBVIOUS
<1>3. s \in Seq(Opt) /\ K \in SUBSET DOMAIN s
  BY <1>1, <1>2, SpecFacts
<1>4. r = Picked(s, K)
  BY <1>1, <1>2 DEF collect_persistent, Filter
<1>5. r \in Seq(Opt) /\ ToSet(r) = {s[i] : i \in K}
  BY <1>3, <1>4, PickedSet
<1>6. OptionsOf(n) = {s[i] : i \in DOMAIN s}
  BY <1>1 DEF OptionsOf, ToSet
<1>7. {s[i] : i \in K} = {o \in {s[i] : i \in DOMAIN s} : o.isPersistent}
  BY <1>2
<1>8. QED
  BY <1>5, <1>6, <1>7

\* What the walk knows is well-typed.
WalkType ==
    /\ path \in Seq(Nodes) \ {<<>>} /\ seen \subseteq Text
    /\ persistent \in Seq(Opt) /\ uses \in Seq(Opt)
    /\ arg_index \in Nat /\ positional_started \in BOOLEAN
    /\ pending_arg \in Opt \cup {None}

LEMMA ActiveFacts ==
    ASSUME path \in Seq(Nodes) \ {<<>>}
    PROVE  /\ Active \in Nodes /\ Len(path) \in DOMAIN path /\ path[Len(path)] = Active
           /\ Len(path) \in Nat /\ DOMAIN path = 1 .. Len(path)
<1>1. Len(path) \in Nat /\ DOMAIN path = 1 .. Len(path) /\ Len(path) \in 1 .. Len(path)
  OBVIOUS
<1>2. path[Len(path)] \in Nodes
  BY <1>1
<1>3. QED
  BY <1>1, <1>2 DEF Active

LEMMA LookupFacts ==
    ASSUME WalkType, NEW form, NEW o, o = lookup_option(form), o # None
    PROVE  o \in Opt /\ o \in OptionsOf(Active) \cup ToSet(persistent) /\ Named(o, form)
<1>1. PICK scope : scope = Tree[Active].options \o persistent
  OBVIOUS
<1>2. scope \in Seq(Opt) /\ ToSet(scope) = OptionsOf(Active) \cup ToSet(persistent)
  <2>1. Tree[Active].options \in Seq(Opt) /\ persistent \in Seq(Opt)
    BY ActiveFacts, SpecFacts DEF WalkType
  <2>2. QED
    BY <1>1, <2>1, ConcatSet DEF OptionsOf
<1>3. PICK hits : hits = {i \in DOMAIN scope : Named(scope[i], form)}
  OBVIOUS
<1>4. o = IF hits = {} THEN None ELSE scope[First(hits)]
  BY <1>1, <1>3 DEF lookup_option
<1>5. hits # {} /\ hits \in SUBSET Nat
  BY <1>2, <1>3, <1>4
<1>6. First(hits) \in hits
  BY <1>5, FirstFacts
<1>7. First(hits) \in DOMAIN scope /\ o = scope[First(hits)]
  BY <1>3, <1>4, <1>5, <1>6
<1>8. o \in Opt
  BY <1>2, <1>7
<1>9. o \in ToSet(scope)
  BY <1>7 DEF ToSet
<1>10. QED
  BY <1>2, <1>3, <1>6, <1>7, <1>8, <1>9

\* The options found are options of the path, and the last of them is the last form's.
LEMMA FoundFacts ==
    ASSUME WalkType, ScopeSound, NEW T, NEW forms \in Seq(T), NEW os, os = Found(forms)
    PROVE  /\ os \in Seq(Opt) /\ \A o \in ToSet(os) : DeclaredOnPath(o)
           /\ forms # <<>> /\ lookup_option(forms[Len(forms)]) # None =>
                os # <<>> /\ os[Len(os)] = lookup_option(forms[Len(forms)])
<1>1. PICK s : s = [i \in DOMAIN forms |-> lookup_option(forms[i])]
  OBVIOUS
<1>2. PICK K : K = {i \in DOMAIN s : s[i] # None}
  OBVIOUS
<1>3. os = Picked(s, K)
  BY <1>1, <1>2 DEF Found, Filter
<1>4. /\ DOMAIN forms = 1 .. Len(forms) /\ Len(forms) \in Nat /\ DOMAIN s = 1 .. Len(forms)
      /\ \A i \in DOMAIN s : s[i] = lookup_option(forms[i])
  BY <1>1
<1>5. \A i \in K : s[i] \in Opt /\ DeclaredOnPath(s[i])
  <2>1. SUFFICES ASSUME NEW i \in K PROVE s[i] \in Opt /\ DeclaredOnPath(s[i])
    OBVIOUS
  <2>2. s[i] = lookup_option(forms[i]) /\ s[i] # None
    BY <1>2, <1>4
  <2>3. s[i] \in Opt /\ s[i] \in OptionsOf(Active) \cup ToSet(persistent)
    BY <2>2, LookupFacts
  <2>4. s[i] \in OptionsOf(Active) => DeclaredOnPath(s[i])
    BY ActiveFacts DEF DeclaredOnPath, WalkType
  <2>5. s[i] \in ToSet(persistent) => DeclaredOnPath(s[i])
    BY DEF ScopeSound
  <2>6. QED
    BY <2>3, <2>4, <2>5
<1>6. s \in Seq(Opt \cup {None}) /\ K \in SUBSET DOMAIN s /\ Len(s) = Len(forms)
  <2>1. \A i \in DOMAIN s : s[i] \in Opt \cup {None}
    BY <1>2, <1>5
  <2>2. s \in [1 .. Len(forms) -> Opt \cup {None}]
    BY <1>1, <1>4, <2>1
  <2>3. QED
    BY <1>2, <1>4, <2>2
<1>7. /\ os \in Seq(Opt \cup {None}) /\ ToSet(os) = {s[i] : i \in K}
      /\ \A m \in K : (\A i \in K : i <= m) => os # <<>> /\ os[Len(os)] = s[m]
  BY <1>3, <1>6, PickedSet
<1>8. os \in Seq(Opt)
  <2>1. \A p \in 1 .. Len(os) : os[p] \in ToSet(os)
    BY <1>7 DEF ToSet
  <2>2. \A p \in 1 .. Len(os) : os[p] \in Opt
    BY <1>5, <1>7, <2>1
  <2>3. QED
    BY <1>7, <2>2
<1>9. ASSUME forms # <<>>, lookup_option(forms[Len(forms)]) # None
      PROVE  os # <<>> /\ os[Len(os)] = lookup_option(forms[Len(forms)])
  <2>1. Len(forms) \in DOMAIN s /\ s[Len(forms)] = lookup_option(forms[Len(forms)])
    BY <1>4, <1>9
  <2>2. Len(forms) \in K /\ \A i \in K : i <= Len(forms)
    BY <1>2, <1>4, <1>9, <2>1
  <2>3. QED
    BY <1>7, <2>1, <2>2
<1>10. QED
  BY <1>5, <1>7, <1>8, <1>9

-----------------------------------------------------------------------------
(* The walk *)

\* The options os are given: what is known of the options stays right.
LEMMA SeeSound ==
    ASSUME WalkType, ScopeSound, NEW os \in Seq(Opt), \A o \in ToSet(os) : DeclaredOnPath(o),
           See(os), UNCHANGED <<path, persistent, arg_index, positional_started>>,
           \/ pending_arg' = None
           \/ /\ pending_arg' \in Opt /\ TakesValue(pending_arg')
              /\ os # <<>> /\ pending_arg' = os[Len(os)]
    PROVE  WalkType' /\ ScopeSound'
<1>1. uses \in Seq(Opt) /\ path' = path /\ persistent' = persistent
  BY DEF WalkType
<1>2. PICK u : u = uses \o os
  OBVIOUS
<1>3. uses' = u /\ seen' = seen \cup {canonical(os[i].name) : i \in DOMAIN os}
  BY <1>2 DEF See
<1>4. /\ u \in Seq(Opt) /\ ToSet(u) = ToSet(uses) \cup ToSet(os)
      /\ os # <<>> => u # <<>> /\ u[Len(u)] = os[Len(os)]
  BY <1>1, <1>2, ConcatSet
<1>5. seen' = {canonical(o.name) : o \in ToSet(u)}
  <2>1. {canonical(os[i].name) : i \in DOMAIN os} = {canonical(o.name) : o \in ToSet(os)}
    BY DEF ToSet
  <2>2. seen = {canonical(o.name) : o \in ToSet(uses)}
    BY DEF ScopeSound
  <2>3. QED
    BY <1>3, <1>4, <2>1, <2>2
<1>6. seen' \subseteq Text
  <2>1. ToSet(u) \subseteq Opt
    BY <1>4 DEF ToSet
  <2>2. QED
    BY <1>5, <2>1, OptFacts
<1>7. WalkType'
  BY <1>1, <1>3, <1>4, <1>6 DEF WalkType
<1>8. \A o : DeclaredOnPath(o)' <=> DeclaredOnPath(o)
  BY <1>1 DEF DeclaredOnPath
<1>9. \A o \in ToSet(uses) \cup ToSet(os) : DeclaredOnPath(o)
  BY DEF ScopeSound
<1>10. \A o \in ToSet(uses') : DeclaredOnPath(o)'
  BY <1>3, <1>4, <1>8, <1>9, Zenon
<1>11. pending_arg' # None =>
         uses' # <<>> /\ pending_arg' = uses'[Len(uses')] /\ TakesValue(pending_arg')
  BY <1>3, <1>4
<1>12. /\ path'[1] = Root
       /\ \A i \in 1 .. Len(path') - 1 : path'[i + 1] \in ToSet(Tree[path'[i]].subcommands)
  BY <1>1 DEF ScopeSound
<1>13. ToSet(persistent') = {o \in AllOptions : o.isPersistent /\ DeclaredOnPath(o)'}
  <2>1. ToSet(persistent) = {o \in AllOptions : o.isPersistent /\ DeclaredOnPath(o)}
    BY DEF ScopeSound
  <2>2. QED
    BY <1>1, <1>8, <2>1
<1>14. seen' = {canonical(o.name) : o \in ToSet(uses')}
  BY <1>3, <1>5
<1>15. QED
  BY <1>7, <1>10, <1>11, <1>12, <1>13, <1>14 DEF ScopeSound

LEMMA TakeInlineSound ==
    ASSUME WalkType, ScopeSound, TakeInline
    PROVE  WalkType' /\ ScopeSound'
<1>1. PICK form : form = inline_flag(Word)
  OBVIOUS
<1>2. PICK os : os = Found(<<form>>)
  OBVIOUS
<1>3. <<form>> \in Seq({form})
  OBVIOUS
<1>4. os \in Seq(Opt) /\ \A o \in ToSet(os) : DeclaredOnPath(o)
  BY <1>2, <1>3, FoundFacts
<1>5. See(os)
  BY <1>1, <1>2 DEF TakeInline
<1>6. UNCHANGED <<path, persistent, arg_index, positional_started>> /\ pending_arg' = None
  BY DEF TakeInline, NextWord
<1>7. QED
  BY <1>4, <1>5, <1>6, SeeSound

LEMMA TakeClusterSound ==
    ASSUME WalkType, ScopeSound, TakeCluster, words \in Seq(Text)
    PROVE  WalkType' /\ ScopeSound'
<1>1. PICK w : w = Word
  OBVIOUS
<1>2. words # <<>> /\ is_short_cluster(w)
  BY <1>1 DEF TakeCluster, NextWord
<1>3. w \in Text /\ Len(w) \in Nat /\ Len(w) > 2
  BY <1>1, <1>2 DEF is_short_cluster, Word, Text
<1>4. PICK forms : forms = [i \in 1 .. Len(w) - 1 |-> <<"-", w[i + 1]>>]
  OBVIOUS
<1>5. /\ forms \in Seq({<<"-", c>> : c \in DOMAIN Ord}) /\ forms # <<>>
      /\ forms[Len(forms)] = <<"-", w[Len(w)]>>
  <2>1. \A i \in 1 .. Len(w) - 1 : w[i + 1] \in DOMAIN Ord
    BY <1>3 DEF Text
  <2>2. \A i \in 1 .. Len(w) - 1 : <<"-", w[i + 1]>> \in {<<"-", c>> : c \in DOMAIN Ord}
    BY <2>1
  <2>3. Len(w) - 1 \in Nat /\ Len(w) - 1 \in 1 .. Len(w) - 1 /\ Len(w) - 1 + 1 = Len(w)
    BY <1>3
  <2>4. forms \in Seq({<<"-", c>> : c \in DOMAIN Ord}) /\ Len(forms) = Len(w) - 1
    BY <1>4, <2>2, <2>3
  <2>5. forms[Len(w) - 1] = <<"-", w[Len(w)]>>
    BY <1>4, <2>3
  <2>6. QED
    BY <2>3, <2>4, <2>5
<1>6. PICK os : os = Found(forms)
  OBVIOUS
<1>7. PICK last : last = lookup_option(<<"-", w[Len(w)]>>)
  OBVIOUS
<1>8. /\ os \in Seq(Opt) /\ \A o \in ToSet(os) : DeclaredOnPath(o)
      /\ last # None => os # <<>> /\ os[Len(os)] = last
  BY <1>5, <1>6, <1>7, FoundFacts
<1>9. See(os) /\ pending_arg' = IF TakesValue(last) THEN last ELSE None
  BY <1>1, <1>4, <1>6, <1>7 DEF TakeCluster
<1>10. UNCHANGED <<path, persistent, arg_index, positional_started>>
  BY DEF TakeCluster
<1>11. last # None => last \in Opt
  BY <1>7, LookupFacts
<1>12. \/ pending_arg' = None
       \/ /\ pending_arg' \in Opt /\ TakesValue(pending_arg')
          /\ os # <<>> /\ pending_arg' = os[Len(os)]
  <2>1. CASE TakesValue(last)
    <3>1. last # None /\ pending_arg' = last
      BY <1>9, <2>1 DEF TakesValue
    <3>2. QED
      BY <1>8, <1>11, <2>1, <3>1
  <2>2. CASE ~TakesValue(last)
    BY <1>9, <2>2
  <2>3. QED
    BY <2>1, <2>2
<1>13. QED
  BY <1>8, <1>9, <1>10, <1>12, SeeSound

LEMMA TakeFlagSound ==
    ASSUME WalkType, ScopeSound, TakeFlag
    PROVE  WalkType' /\ ScopeSound'
<1>1. PICK w : w = Word
  OBVIOUS
<1>2. PICK os : os = Found(<<w>>)
  OBVIOUS
<1>3. PICK o : o = lookup_option(w)
  OBVIOUS
<1>4. <<w>> \in Seq({w}) /\ <<w>> # <<>> /\ <<w>>[Len(<<w>>)] = w
  OBVIOUS
<1>5. /\ os \in Seq(Opt) /\ \A x \in ToSet(os) : DeclaredOnPath(x)
      /\ o # None => os # <<>> /\ os[Len(os)] = o
  BY <1>2, <1>3, <1>4, FoundFacts
<1>6. /\ See(os) /\ pending_arg' = IF TakesValue(o) /\ ~o.requiresSeparator THEN o ELSE None
      /\ UNCHANGED <<path, persistent, arg_index, positional_started>>
  BY <1>1, <1>2, <1>3 DEF TakeFlag
<1>7. o # None => o \in Opt
  BY <1>3, LookupFacts
<1>8. \/ pending_arg' = None
      \/ /\ pending_arg' \in Opt /\ TakesValue(pending_arg')
         /\ os # <<>> /\ pending_arg' = os[Len(os)]
  <2>1. CASE TakesValue(o) /\ pending_arg' = o
    <3>1. o # None
      BY <2>1 DEF TakesValue
    <3>2. QED
      BY <1>5, <1>7, <2>1, <3>1
  <2>2. CASE pending_arg' = None
    BY <2>2
  <2>3. QED
    BY <1>6, <2>1, <2>2
<1>9. QED
  BY <1>5, <1>6, <1>8, SeeSound

\* A step down: the child is declared by the node it is a child of, and what it declares
\* persistent is inherited from there on.
LEMMA DescendSound ==
    ASSUME WalkType, ScopeSound, Descend
    PROVE  WalkType' /\ ScopeSound'
<1>1. PICK w : w = Word
  OBVIOUS
<1>2. PICK hits : hits = subcommands_named(w)
  OBVIOUS
<1>3. PICK child : child = Tree[Active].subcommands[First(hits)]
  OBVIOUS
<1>4. Active \in Nodes /\ Tree[Active].subcommands \in Seq(Nodes)
  BY ActiveFacts, SpecFacts DEF WalkType
<1>5. hits # {} /\ hits \in SUBSET DOMAIN Tree[Active].subcommands
  BY <1>1, <1>2 DEF Descend, CanDescend, subcommands_named
<1>6. First(hits) \in DOMAIN Tree[Active].subcommands
  <2>1. hits \in SUBSET Nat
    BY <1>4, <1>5
  <2>2. QED
    BY <1>5, <2>1, FirstFacts
<1>7. child \in Nodes /\ child \in ToSet(Tree[Active].subcommands)
  BY <1>3, <1>4, <1>6 DEF ToSet
<1>8. PICK more : more = collect_persistent(child)
  OBVIOUS
<1>9. more \in Seq(Opt) /\ ToSet(more) = {o \in OptionsOf(child) : o.isPersistent}
  BY <1>7, <1>8, PersistentOf
<1>10. /\ path' = Append(path, child) /\ persistent' = persistent \o more
       /\ arg_index' = 0 /\ UNCHANGED <<seen, positional_started, pending_arg, uses>>
  BY <1>1, <1>2, <1>3, <1>8 DEF Descend
<1>11. PICK p : p = Append(path, child)
  OBVIOUS
<1>12. /\ p \in Seq(Nodes) /\ p # <<>> /\ Len(p) = Len(path) + 1 /\ p[Len(path) + 1] = child
       /\ \A i \in 1 .. Len(path) : p[i] = path[i]
       /\ Len(path) \in Nat /\ Len(path) >= 1 /\ DOMAIN p = 1 .. Len(path) + 1
       /\ DOMAIN path = 1 .. Len(path)
  BY <1>7, <1>11 DEF WalkType
<1>13. \A o : DeclaredOnPath(o)' <=> DeclaredOnPath(o) \/ o \in OptionsOf(child)
  <2>1. path' = p
    BY <1>10, <1>11
  <2>2. \A o : DeclaredOnPath(o)' <=> \E i \in DOMAIN p : o \in OptionsOf(p[i])
    BY <2>1 DEF DeclaredOnPath
  <2>3. \A i \in DOMAIN p : (i \in DOMAIN path /\ p[i] = path[i]) \/ i = Len(path) + 1
    BY <1>12
  <2>4. \A i \in DOMAIN path : i \in DOMAIN p /\ p[i] = path[i]
    BY <1>12
  <2>5. Len(path) + 1 \in DOMAIN p /\ p[Len(path) + 1] = child
    BY <1>12
  <2>6. QED
    BY <2>2, <2>3, <2>4, <2>5, Zenon DEF DeclaredOnPath
<1>14. PICK q : q = persistent \o more
  OBVIOUS
<1>15. q \in Seq(Opt) /\ ToSet(q) = ToSet(persistent) \cup ToSet(more)
  BY <1>9, <1>14, ConcatSet DEF WalkType
<1>16. WalkType'
  BY <1>10, <1>11, <1>12, <1>14, <1>15 DEF WalkType
<1>17. ToSet(persistent') = {o \in AllOptions : o.isPersistent /\ DeclaredOnPath(o)'}
  <2>1. ToSet(persistent) = {o \in AllOptions : o.isPersistent /\ DeclaredOnPath(o)}
    BY DEF ScopeSound
  <2>2. OptionsOf(child) \subseteq AllOptions
    BY <1>7, SpecFacts
  <2>3. persistent' = q
    BY <1>10, <1>14
  <2>4. QED
    BY <1>9, <1>13, <1>15, <2>1, <2>2, <2>3, Zenon
<1>18. \A o \in ToSet(uses') : DeclaredOnPath(o)'
  <2>1. \A o \in ToSet(uses) : DeclaredOnPath(o)
    BY DEF ScopeSound
  <2>2. uses' = uses
    BY <1>10
  <2>3. QED
    BY <1>13, <2>1, <2>2, Zenon
<1>19. /\ path'[1] = Root
       /\ \A i \in 1 .. Len(path') - 1 : path'[i + 1] \in ToSet(Tree[path'[i]].subcommands)
  <2>1. p[1] = Root
    BY <1>12 DEF ScopeSound
  <2>2. ASSUME NEW i \in 1 .. Len(p) - 1 PROVE p[i + 1] \in ToSet(Tree[p[i]].subcommands)
    <3>1. CASE i = Len(path)
      BY <1>7, <1>12, <3>1 DEF Active
    <3>2. CASE i # Len(path)
      <4>0. Len(p) - 1 = Len(path) /\ Len(path) \in Nat
        BY <1>12
      <4>1. i \in 1 .. Len(path) - 1 /\ i \in 1 .. Len(path) /\ i + 1 \in 1 .. Len(path)
        BY <2>2, <3>2, <4>0
      <4>2. p[i] = path[i] /\ p[i + 1] = path[i + 1]
        BY <1>12, <4>1
      <4>3. QED
        BY <4>1, <4>2 DEF ScopeSound
    <3>3. QED
      BY <3>1, <3>2
  <2>3. QED
    BY <1>10, <1>11, <2>1, <2>2
<1>20. /\ seen' = {canonical(o.name) : o \in ToSet(uses')}
       /\ pending_arg' # None =>
            uses' # <<>> /\ pending_arg' = uses'[Len(uses')] /\ TakesValue(pending_arg')
  BY <1>10 DEF ScopeSound
<1>21. QED
  BY <1>16, <1>17, <1>18, <1>19, <1>20 DEF ScopeSound

\* Steps that leave the command and its options alone.
LEMMA ScopeFrame ==
    ASSUME WalkType, ScopeSound, UNCHANGED <<path, seen, persistent, uses>>,
           pending_arg' = None \/ pending_arg' = pending_arg,
           arg_index' \in Nat, positional_started' \in BOOLEAN
    PROVE  WalkType' /\ ScopeSound'
<1>1. WalkType'
  BY DEF WalkType
<1>2. \A o : DeclaredOnPath(o)' <=> DeclaredOnPath(o)
  BY DEF DeclaredOnPath
<1>3. ToSet(persistent') = {o \in AllOptions : o.isPersistent /\ DeclaredOnPath(o)'}
  <2>1. ToSet(persistent) = {o \in AllOptions : o.isPersistent /\ DeclaredOnPath(o)}
    BY DEF ScopeSound
  <2>2. QED
    BY <1>2, <2>1
<1>4. \A o \in ToSet(uses') : DeclaredOnPath(o)'
  <2>1. \A o \in ToSet(uses) : DeclaredOnPath(o)
    BY DEF ScopeSound
  <2>2. QED
    BY <1>2, <2>1
<1>5. pending_arg' # None =>
        uses' # <<>> /\ pending_arg' = uses'[Len(uses')] /\ TakesValue(pending_arg')
  BY DEF ScopeSound
<1>6. /\ path'[1] = Root
      /\ \A i \in 1 .. Len(path') - 1 : path'[i + 1] \in ToSet(Tree[path'[i]].subcommands)
      /\ seen' = {canonical(o.name) : o \in ToSet(uses')}
  BY DEF ScopeSound
<1>7. QED
  BY <1>1, <1>3, <1>4, <1>5, <1>6 DEF ScopeSound

\* The start of a parse.
FreshParse ==
    /\ path = <<Root>> /\ seen = {} /\ persistent = collect_persistent(Root)
    /\ arg_index = 0 /\ positional_started = FALSE
    /\ pending_arg = None /\ uses = <<>>

LEMMA FreshSound == FreshParse => WalkType /\ ScopeSound
<1> SUFFICES ASSUME FreshParse PROVE WalkType /\ ScopeSound
  OBVIOUS
<1>1. Root \in Nodes
  BY CompleteAssumption
<1>2. PICK q : q = collect_persistent(Root)
  OBVIOUS
<1>3. q \in Seq(Opt) /\ ToSet(q) = {o \in OptionsOf(Root) : o.isPersistent}
  BY <1>1, <1>2, PersistentOf
<1>4. /\ path = <<Root>> /\ seen = {} /\ persistent = q /\ arg_index = 0
      /\ positional_started = FALSE /\ pending_arg = None /\ uses = <<>>
  BY <1>2 DEF FreshParse
<1>5. WalkType
  <2>1. <<Root>> \in Seq(Nodes) /\ <<Root>> # <<>> /\ <<>> \in Seq(Opt)
    BY <1>1
  <2>2. QED
    BY <1>3, <1>4, <2>1 DEF WalkType
<1>6. \A o : DeclaredOnPath(o) <=> o \in OptionsOf(Root)
  <2>1. \A o : DeclaredOnPath(o) <=> \E i \in DOMAIN <<Root>> : o \in OptionsOf(<<Root>>[i])
    BY <1>4 DEF DeclaredOnPath
  <2>2. \A i : i \in DOMAIN <<Root>> <=> i = 1
    OBVIOUS
  <2>3. <<Root>>[1] = Root
    OBVIOUS
  <2>4. QED
    BY <2>1, <2>2, <2>3, Zenon
<1>7. ToSet(persistent) = {o \in AllOptions : o.isPersistent /\ DeclaredOnPath(o)}
  <2>1. OptionsOf(Root) \subseteq AllOptions
    BY <1>1, SpecFacts
  <2>2. QED
    BY <1>3, <1>4, <1>6, <2>1, Zenon
<1>8. ToSet(uses) = {}
  BY <1>4 DEF ToSet
<1>9. path[1] = Root /\ \A i \in 1 .. Len(path) - 1 : FALSE
  BY <1>4
<1>10. seen = {canonical(o.name) : o \in ToSet(uses)}
  BY <1>4, <1>8
<1>11. QED
  BY <1>4, <1>5, <1>7, <1>8, <1>9, <1>10 DEF ScopeSound

LEMMA NewParseSound ==
    ASSUME NewParse
    PROVE  WalkType' /\ ScopeSound'
<1>1. FreshParse'
  BY DEF NewParse, FreshParse
<1>2. QED
  BY <1>1, FreshSound, PTL

-----------------------------------------------------------------------------
(* The word at the cursor *)

LEMMA DirectedFrame ==
    ASSUME path' = path, NEW flag
    PROVE  Directed(flag)' <=> Directed(flag)
<1> DEFINE At(p) == {i \in DOMAIN p : Tree[p[i]].directives # None}
           F(p) == IF At(p) = {} THEN None
                   ELSE Tree[p[CHOOSE i \in At(p) : \A j \in At(p) : i >= j]].directives
<1>1. active_directives = F(path) /\ active_directives' = F(path')
  BY DEF active_directives
<1> HIDE DEF F
<1>2. active_directives' = active_directives
  BY <1>1
<1>3. QED
  BY <1>2 DEF Directed

CursorType == [kind : CursorKinds, of : Opt \cup Arg \cup {None}]

LEMMA CursorFacts ==
    ASSUME NEW k \in CursorKinds, NEW o \in Opt \cup Arg \cup {None}, NEW c, c = Cursor(k, o)
    PROVE  c \in CursorType /\ c.kind = k /\ c.of = o
BY DEF Cursor, CursorType

LEMMA ArgumentCursor ==
    ASSUME WalkType, NEW c, c = command_argument_cursor
    PROVE  /\ c \in CursorType
           /\ \/ c.kind = "CommandArgument" /\ c.of \in Arg
              \/ c.kind = "Empty" /\ c.of = None
<1>1. PICK args : args = Tree[Active].args
  OBVIOUS
<1>2. args \in Seq(Arg) /\ arg_index \in Nat
  BY <1>1, ActiveFacts, SpecFacts DEF WalkType
<1>3. {"CommandArgument", "Empty"} \subseteq CursorKinds
  BY DEF CursorKinds
<1>4. \/ arg_index < Len(args) /\ c = Cursor("CommandArgument", args[arg_index + 1])
      \/ args # <<>> /\ c = Cursor("CommandArgument", args[Len(args)])
      \/ c = Cursor("Empty", None)
  BY <1>1 DEF command_argument_cursor
<1>5. CASE arg_index < Len(args) /\ c = Cursor("CommandArgument", args[arg_index + 1])
  <2>1. PICK a : a = args[arg_index + 1]
    OBVIOUS
  <2>2. a \in Arg
    BY <1>2, <1>5, <2>1
  <2>3. c = [kind |-> "CommandArgument", of |-> a]
    BY <1>5, <2>1 DEF Cursor
  <2>4. QED
    BY <1>3, <2>2, <2>3 DEF CursorType
<1>6. CASE args # <<>> /\ c = Cursor("CommandArgument", args[Len(args)])
  <2>1. PICK a : a = args[Len(args)]
    OBVIOUS
  <2>2. a \in Arg
    BY <1>2, <1>6, <2>1
  <2>3. c = [kind |-> "CommandArgument", of |-> a]
    BY <1>6, <2>1 DEF Cursor
  <2>4. QED
    BY <1>3, <2>2, <2>3 DEF CursorType
<1>7. CASE c = Cursor("Empty", None)
  BY <1>3, <1>7, CursorFacts
<1>8. QED
  BY <1>4, <1>5, <1>6, <1>7

\* An option that awaits its value, or is given it inline, takes one; options are
\* completed only where they may still be given.
LEMMA ClassifyFacts ==
    ASSUME WalkType, ScopeSound, NEW c, c = classify_cursor
    PROVE  /\ c \in CursorType
           /\ c.kind \in {"Subcommand", "Option"} =>
                ~(Directed("optionsFirst") /\ positional_started)
           /\ c.kind = "OptionArgument" => c.of \in Opt /\ c.of.args # <<>>
           /\ c.kind = "CommandArgument" => c.of \in Arg
<1>1. {"Subcommand", "Option", "OptionArgument", "CommandArgument", "Empty"} \subseteq CursorKinds
  BY DEF CursorKinds
<1>2. \/ c = command_argument_cursor
      \/ pending_arg # None /\ c = Cursor("OptionArgument", pending_arg)
      \/ TakesValue(InlineOption) /\ c = Cursor("OptionArgument", InlineOption)
      \/ /\ ~(Directed("optionsFirst") /\ positional_started)
         /\ c = Cursor("Option", None) \/ c = Cursor("Subcommand", None)
  BY DEF classify_cursor
<1>3. CASE c = command_argument_cursor
  BY <1>3, ArgumentCursor
<1>4. CASE pending_arg # None /\ c = Cursor("OptionArgument", pending_arg)
  <2>1. pending_arg \in Opt /\ TakesValue(pending_arg)
    BY <1>4 DEF WalkType, ScopeSound
  <2>2. pending_arg.args # <<>>
    BY <2>1 DEF TakesValue
  <2>3. QED
    BY <1>1, <1>4, <2>1, <2>2, CursorFacts
<1>5. CASE TakesValue(InlineOption) /\ c = Cursor("OptionArgument", InlineOption)
  <2>1. PICK o : o = InlineOption
    OBVIOUS
  <2>2. o # None /\ o.args # <<>>
    BY <1>5, <2>1 DEF TakesValue
  <2>3. \E form : o = lookup_option(form)
    BY <2>1, <2>2 DEF InlineOption
  <2>4. o \in Opt
    BY <2>2, <2>3, LookupFacts
  <2>5. QED
    BY <1>1, <1>5, <2>1, <2>2, <2>4, CursorFacts
<1>6. CASE /\ ~(Directed("optionsFirst") /\ positional_started)
           /\ c = Cursor("Option", None) \/ c = Cursor("Subcommand", None)
  BY <1>1, <1>6, CursorFacts
<1>7. QED
  BY <1>2, <1>3, <1>4, <1>5, <1>6

LEMMA EffectiveQuery ==
    ASSUME typed \in Lines
    PROVE  effective_query \in Text
<1>1. PICK q : q = typed.query
  OBVIOUS
<1>2. q \in Text
  BY <1>1 DEF Lines
<1>3. PICK at : at = Equals(q)
  OBVIOUS
<1>4. effective_query = IF Dashed(q) /\ at # {} THEN SubSeq(q, First(at) + 1, Len(q)) ELSE q
  BY <1>1, <1>3 DEF effective_query, Query
<1>5. CASE at # {}
  <2>1. at \subseteq DOMAIN q /\ DOMAIN q = 1 .. Len(q) /\ Len(q) \in Nat /\ q \in Seq(DOMAIN Ord)
    BY <1>2, <1>3 DEF Equals, Text
  <2>2. First(at) \in at
    BY <1>5, <2>1, FirstFacts
  <2>3. First(at) + 1 \in Nat /\ 1 <= First(at) + 1 /\ First(at) + 1 <= Len(q) + 1
    BY <2>1, <2>2
  <2>4. SubSeq(q, First(at) + 1, Len(q)) \in Seq(DOMAIN Ord)
    BY <2>1, <2>3, PartType
  <2>5. QED
    BY <1>2, <1>4, <2>4 DEF Text
<1>6. CASE at = {}
  BY <1>2, <1>4, <1>6
<1>7. QED
  BY <1>5, <1>6

-----------------------------------------------------------------------------
(* The candidates *)

\* What a map over a sequence gives.
LEMMA EachType ==
    ASSUME NEW S, NEW s \in Seq(S), NEW T, NEW r, r = [i \in DOMAIN s |-> r[i]],
           \A i \in DOMAIN s : r[i] \in T
    PROVE  r \in Seq(T) /\ DOMAIN r = DOMAIN s /\ ToSet(r) \subseteq T
<1>1. DOMAIN s = 1 .. Len(s) /\ Len(s) \in Nat
  OBVIOUS
<1>2. r \in [1 .. Len(s) -> T]
  BY <1>1
<1>3. r \in Seq(T) /\ DOMAIN r = DOMAIN s
  BY <1>1, <1>2
<1>4. QED
  BY <1>3 DEF ToSet

\* What is offered for an option, and what is not.
PlainOffer == {c \in Offer : c.of = None}
OptionOffer == {c \in Offer : c.of \in Opt /\ Compatible(c.of)}

LEMMA AppendText ==
    ASSUME NEW t \in Text, NEW c \in DOMAIN Ord
    PROVE  Append(t, c) \in Text
BY DEF Text

LEMMA TimesType ==
    ASSUME WalkType, NEW o
    PROVE  Times(o) \in Nat
<1>1. PICK T : T = {i \in DOMAIN uses : uses[i] = o}
  OBVIOUS
<1>2. IsFiniteSet(DOMAIN uses)
  <2>1. PICK n \in Nat : DOMAIN uses = 1 .. n
    BY DEF WalkType
  <2>2. 1 \in Int /\ n \in Int
    OBVIOUS
  <2>3. IsFiniteSet(1 .. n)
    BY <2>2, FS_Interval, Zenon
  <2>4. QED
    BY <2>1, <2>3
<1>3. T \subseteq DOMAIN uses
  BY <1>1
<1>4. IsFiniteSet(T)
  BY <1>2, <1>3, FS_Subset, Zenon
<1>5. QED
  BY <1>1, <1>4, FS_CardinalityType DEF Times

\* An option that is valid by the names on the line is compatible with it.
LEMMA ValidIsCompatible ==
    ASSUME WalkType, ScopeSound, NEW o \in Opt,
           o \in OptionsOf(Active) \cup ToSet(persistent), option_is_valid(o)
    PROVE  Compatible(o)
<1>1. o \in OptionsOf(Active) \/ (o.isPersistent /\ DeclaredOnPath(o))
  BY DEF ScopeSound
<1>2. o \in AllOptions
  <2>1. o \in OptionsOf(Active) => o \in AllOptions
    BY ActiveFacts, SpecFacts DEF WalkType
  <2>2. o \in ToSet(persistent) => o \in AllOptions
    BY DEF ScopeSound
  <2>3. QED
    BY <2>1, <2>2
<1>3. /\ canonical(o.name) \in seen => Repeatable(o)
      /\ o.exclusiveOn \cap seen = {} /\ o.dependsOn \subseteq seen
  BY DEF option_is_valid
<1>4. seen = {canonical(u.name) : u \in ToSet(uses)} /\ \A u \in ToSet(uses) : DeclaredOnPath(u)
  BY DEF ScopeSound
<1>5. ASSUME o \in ToSet(uses)
      PROVE  o.isRepeatable = Unlimited \/ Times(o) < o.isRepeatable \/ CountLost(o)
  <2>1. Repeatable(o)
    <3>1. canonical(o.name) \in seen
      BY <1>4, <1>5
    <3>2. QED
      BY <1>3, <3>1
  <2>2. SUFFICES ASSUME o.isRepeatable # Unlimited, ~(Times(o) > 1)
                 PROVE  Times(o) < o.isRepeatable
    <3>1. o.isRepeatable # Unlimited => o.isRepeatable \in Nat /\ o.isRepeatable > 1
      BY <2>1, OptFacts DEF Repeatable
    <3>2. o.isRepeatable # Unlimited => o.isRepeatable \notin {0, 1, Unlimited}
      BY <3>1
    <3>3. QED
      BY <3>2 DEF CountLost
  <2>3. o.isRepeatable \in Nat /\ o.isRepeatable > 1
    BY <2>1, <2>2, OptFacts DEF Repeatable
  <2>4. Times(o) \in Nat
    BY TimesType
  <2>5. QED
    BY <2>2, <2>3, <2>4
<1>6. ASSUME NEW u \in ToSet(uses), NEW i \in DOMAIN u.name PROVE u.name[i] \notin o.exclusiveOn
  <2>1. u \in AllOptions
    <3>1. PICK k \in DOMAIN path : u \in OptionsOf(path[k])
      BY <1>4 DEF DeclaredOnPath
    <3>2. path[k] \in Nodes
      BY DEF WalkType
    <3>3. QED
      BY <3>1, <3>2, SpecFacts
  <2>2. u.name[i] \in o.exclusiveOn => canonical(u.name) \in o.exclusiveOn
    BY <1>2, <2>1, CompleteAssumption DEF CanonicalReferences
  <2>3. canonical(u.name) \in seen
    BY <1>4
  <2>4. QED
    BY <1>3, <2>2, <2>3
<1>7. ASSUME NEW d \in o.dependsOn PROVE \E u \in ToSet(uses) : Named(u, d)
  <2>1. d \in seen
    BY <1>3
  <2>2. PICK u \in ToSet(uses) : d = canonical(u.name)
    BY <1>4, <2>1
  <2>3. u \in Opt
    BY DEF WalkType, ToSet
  <2>4. 1 \in DOMAIN u.name /\ u.name[1] = d
    BY <2>2, <2>3, OptFacts DEF canonical
  <2>5. QED
    BY <2>4 DEF Named
<1>8. QED
  BY <1>1, <1>5, <1>6, <1>7 DEF Compatible

LEMMA SubcommandOffers ==
    ASSUME WalkType
    PROVE  subcommand_candidates \in Seq(Offer) /\ ToSet(subcommand_candidates) \subseteq PlainOffer
<1>1. PICK s : s = Tree[Active].subcommands
  OBVIOUS
<1>2. PICK r : r = subcommand_candidates
  OBVIOUS
<1>3. s \in Seq(Nodes)
  BY <1>1, ActiveFacts, SpecFacts DEF WalkType
<1>4. r = [i \in DOMAIN s |->
             Candidate(Append(canonical(Tree[s[i]].name), " "), Tree[s[i]].name, 50, FALSE, None)]
  BY <1>1, <1>2 DEF subcommand_candidates, Each
<1>5. ASSUME NEW i \in DOMAIN s PROVE r[i] \in PlainOffer
  <2>1. PICK name : name = Tree[s[i]].name
    OBVIOUS
  <2>2. name \in Seq(Text) /\ name # <<>>
    BY <1>3, <2>1, SpecFacts
  <2>3. PICK ins : ins = Append(canonical(name), " ")
    OBVIOUS
  <2>4. ins \in Text
    <3>1. canonical(name) \in Text
      BY <2>2 DEF canonical
    <3>2. " " \in DOMAIN Ord
      BY CompleteAssumption
    <3>3. QED
      BY <2>3, <3>1, <3>2, AppendText
  <2>5. r[i] = Candidate(ins, name, 50, FALSE, None)
    BY <1>4, <2>1, <2>3
  <2>6. 50 \in 0 .. 100
    OBVIOUS
  <2>7. QED
    BY <2>2, <2>4, <2>5, <2>6 DEF Candidate, Offer, PlainOffer
<1>6. r = [i \in DOMAIN s |-> r[i]]
  BY <1>4
<1>7. r \in Seq(PlainOffer) /\ ToSet(r) \subseteq PlainOffer
  BY <1>3, <1>5, <1>6, EachType
<1>8. r \in Seq(Offer)
  BY <1>7 DEF PlainOffer
<1>9. QED
  BY <1>2, <1>7, <1>8

LEMMA OptionOffers ==
    ASSUME WalkType, ScopeSound
    PROVE  option_candidates \in Seq(Offer) /\ ToSet(option_candidates) \subseteq OptionOffer
<1> DEFINE local == Tree[Active].options
           K == {j \in DOMAIN persistent :
                   \A i \in DOMAIN local : local[i].name # persistent[j].name}
           inherited == Picked(persistent, K)
           scope == local \o inherited
           V == {i \in DOMAIN scope : option_is_valid(scope[i])}
           s == Picked(scope, V)
           r == option_candidates
<1>8. r = [i \in DOMAIN s |-> Candidate(OptionInsert(s[i]), s[i].name, 50, FALSE, s[i])]
  BY DEF option_candidates, Each, Filter
<1>1. K \in SUBSET DOMAIN persistent /\ \A i \in V : i \in DOMAIN scope /\ option_is_valid(scope[i])
  OBVIOUS
<1>2. V \in SUBSET DOMAIN scope
  OBVIOUS
<1> HIDE DEF K, V, s, r
<1>9. local \in Seq(Opt) /\ persistent \in Seq(Opt) /\ ToSet(local) = OptionsOf(Active)
  BY ActiveFacts, SpecFacts DEF WalkType, OptionsOf
<1>10. inherited \in Seq(Opt) /\ ToSet(inherited) \subseteq ToSet(persistent)
  <2>2. inherited \in Seq(Opt) /\ ToSet(inherited) = {persistent[i] : i \in K}
    BY <1>1, <1>9, PickedSet
  <2>3. {persistent[i] : i \in K} \subseteq ToSet(persistent)
    BY <1>1 DEF ToSet
  <2>4. QED
    BY <2>2, <2>3
<1> HIDE DEF local, inherited
<1>11. scope \in Seq(Opt) /\ ToSet(scope) \subseteq OptionsOf(Active) \cup ToSet(persistent)
  BY <1>9, <1>10, ConcatSet
<1> HIDE DEF scope
<1>12. s \in Seq(Opt) /\ ToSet(s) = {scope[i] : i \in V}
  BY <1>2, <1>11, PickedSet DEF s
<1>13. ASSUME NEW i \in DOMAIN s PROVE r[i] \in OptionOffer
  <2>1. PICK o : o = s[i]
    OBVIOUS
  <2>2. o \in Opt /\ o \in ToSet(s)
    BY <1>12, <2>1 DEF ToSet
  <2>3. PICK k \in V : o = scope[k]
    BY <1>12, <2>2
  <2>4. option_is_valid(o) /\ o \in ToSet(scope)
    BY <1>1, <2>3 DEF ToSet
  <2>5. Compatible(o)
    BY <1>11, <2>2, <2>4, ValidIsCompatible
  <2>6. PICK ins : ins = OptionInsert(o)
    OBVIOUS
  <2>7. ins \in Text
    <3>1. canonical(o.name) \in Text
      BY <2>2, OptFacts
    <3>2. {" ", "="} \subseteq DOMAIN Ord
      BY CompleteAssumption
    <3>3. QED
      BY <2>6, <3>1, <3>2, AppendText DEF OptionInsert
  <2>8. r[i] = Candidate(ins, o.name, 50, FALSE, o)
    BY <1>8, <2>1, <2>6
  <2>9. PICK name : name = o.name
    OBVIOUS
  <2>10. name \in Seq(Text) /\ name # <<>> /\ 50 \in 0 .. 100
    BY <2>2, <2>9, OptFacts
  <2>11. r[i] \in Offer /\ r[i].of = o
    BY <2>2, <2>7, <2>8, <2>9, <2>10 DEF Candidate, Offer
  <2>12. QED
    BY <2>2, <2>5, <2>11 DEF OptionOffer
<1>14. r = [i \in DOMAIN s |-> r[i]]
  BY <1>8
<1>15. r \in Seq(OptionOffer) /\ ToSet(r) \subseteq OptionOffer
  BY <1>12, <1>13, <1>14, EachType
<1>16. r \in Seq(Offer)
  BY <1>15 DEF OptionOffer
<1>17. QED
  BY <1>15, <1>16 DEF r

LEMMA FileOffers ==
    ASSUME NEW partial \in Text, NEW folders \in BOOLEAN, NEW r, r = list_entries(partial, folders)
    PROVE  r \in Seq(PlainOffer)
<1> DEFINE slashes == {i \in DOMAIN partial : partial[i] = "/"}
           dirLen == IF slashes = {} THEN 0
                     ELSE CHOOSE i \in slashes : \A j \in slashes : i >= j
           dir == SubSeq(partial, 1, dirLen)
           file == SubSeq(partial, dirLen + 1, Len(partial))
           listed == IF dir \in DOMAIN Listing THEN Listing[dir] ELSE <<>>
           K == {i \in DOMAIN listed :
                   /\ IsPrefix(file, listed[i].name)
                   /\ IsPrefix(<<".">>, listed[i].name) => IsPrefix(<<".">>, file)
                   /\ folders => listed[i].isDir}
           s == Picked(listed, K)
           Insert(e) == dir \o e.name \o (IF e.isDir THEN <<"/">> ELSE <<>>)
<1>8. r = [i \in DOMAIN s |-> Candidate(Insert(s[i]), <<Insert(s[i])>>,
                                       IF s[i].isDir THEN 55 ELSE 50, FALSE, None)]
  BY DEF list_entries, Each, Filter
<1>1. K \in SUBSET DOMAIN listed
  OBVIOUS
<1> HIDE DEF Insert, s, K, listed
<1>2. dirLen = IF slashes = {} THEN 0 ELSE CHOOSE i \in slashes : \A j \in slashes : i >= j
  OBVIOUS
<1>3. dir = SubSeq(partial, 1, dirLen)
  OBVIOUS
<1> HIDE DEF dir, dirLen
<1>9. dir \in Text
  <2>1. partial \in Seq(DOMAIN Ord) /\ DOMAIN partial = 1 .. Len(partial) /\ Len(partial) \in Nat
    BY DEF Text
  <2>2. dirLen \in Nat /\ dirLen <= Len(partial)
    <3>1. CASE slashes = {}
      BY <1>2, <2>1, <3>1
    <3>2. CASE slashes # {}
      <4>1. slashes \in SUBSET (0 .. Len(partial))
        BY <2>1
      <4> HIDE DEF slashes
      <4>2. \E i \in slashes : \A j \in slashes : i >= j
        BY <2>1, <3>2, <4>1, GreatestNat
      <4>3. dirLen \in slashes
        BY <1>2, <3>2, <4>2
      <4>4. QED
        BY <2>1, <4>1, <4>3
    <3>3. QED
      BY <3>1, <3>2
  <2>3. 1 <= dirLen + 1
    BY <2>2
  <2>4. SubSeq(partial, 1, dirLen) \in Seq(DOMAIN Ord)
    BY <2>1, <2>2, <2>3, PartType
  <2>5. QED
    BY <1>3, <2>4 DEF Text
<1>10. PICK Entry : Entry = [name : Text, isDir : BOOLEAN]
  OBVIOUS
<1>11. listed \in Seq(Entry)
  <2>1. \A d \in DOMAIN Listing : Listing[d] \in Seq(Entry)
    BY <1>10, CompleteAssumption
  <2>2. <<>> \in Seq(Entry)
    OBVIOUS
  <2>3. QED
    BY <2>1, <2>2 DEF listed
<1>12. s \in Seq(Entry)
  BY <1>1, <1>11, PickedSet DEF s
<1>13. ASSUME NEW i \in DOMAIN s PROVE r[i] \in PlainOffer
  <2>1. PICK e : e = s[i]
    OBVIOUS
  <2>2. e.name \in Text /\ e.isDir \in BOOLEAN
    <3>1. e \in Entry
      BY <1>12, <2>1
    <3>2. QED
      BY <1>10, <3>1
  <2>3. PICK ins : ins = Insert(e)
    OBVIOUS
  <2>4. ins \in Text
    <3>1. "/" \in DOMAIN Ord
      BY CompleteAssumption
    <3>2. PICK tail : tail = IF e.isDir THEN <<"/">> ELSE <<>>
      OBVIOUS
    <3>3. tail \in Seq(DOMAIN Ord)
      <4>1. <<"/">> \in Seq(DOMAIN Ord) /\ <<>> \in Seq(DOMAIN Ord)
        BY <3>1
      <4>2. QED
        BY <3>2, <4>1
    <3>4. ins = dir \o e.name \o tail
      BY <2>3, <3>2 DEF Insert
    <3>5. QED
      BY <1>9, <2>2, <3>3, <3>4 DEF Text
  <2>5. PICK n : n = IF e.isDir THEN 55 ELSE 50
    OBVIOUS
  <2>6. r[i] = Candidate(ins, <<ins>>, n, FALSE, None)
    BY <1>8, <2>1, <2>3, <2>5
  <2>7. n \in 0 .. 100
    BY <2>5
  <2>8. PICK names : names = <<ins>>
    OBVIOUS
  <2>9. names \in Seq(Text) /\ names # <<>>
    BY <2>4, <2>8
  <2>10. QED
    BY <2>4, <2>6, <2>7, <2>8, <2>9 DEF Candidate, Offer, PlainOffer
<1>14. r = [i \in DOMAIN s |-> r[i]]
  BY <1>8
<1>15. QED
  BY <1>12, <1>13, <1>14, EachType

LEMMA ArgOffers ==
    ASSUME typed \in Lines, NEW arg \in Arg, NEW generated \in Seq(Text),
           NEW r, r = arg_candidates(arg, generated)
    PROVE  r \in Seq(PlainOffer) /\ ToSet(own_candidates(arg)) \subseteq ToSet(r)
<1>1. PICK a : a = [i \in DOMAIN arg.suggestions |->
                     Candidate(arg.suggestions[i].insert, arg.suggestions[i].name,
                               arg.suggestions[i].priority, arg.suggestions[i].hidden, None)]
  OBVIOUS
<1>2. PICK b : b = IF arg.template \in {"filepaths", "folders"}
                   THEN list_entries(effective_query, arg.template = "folders") ELSE <<>>
  OBVIOUS
<1>3. PICK K : K = {i \in DOMAIN generated : generated[i] # <<>>}
  OBVIOUS
<1>4. PICK s : s = Picked(generated, K)
  OBVIOUS
<1>5. PICK c : c = [i \in DOMAIN s |-> Candidate(s[i], <<s[i]>>, arg.priority, FALSE, None)]
  OBVIOUS
<1>6. own_candidates(arg) = a \o b /\ r = (a \o b) \o c
  <2>1. own_candidates(arg) = a \o b
    BY <1>1, <1>2 DEF own_candidates, Each
  <2>2. generator_to_candidates(arg, generated) = c
    BY <1>3, <1>4, <1>5 DEF generator_to_candidates, Each, Filter
  <2>3. QED
    BY <2>1, <2>2 DEF arg_candidates
<1>7. arg.suggestions \in Seq(Suggestion) /\ arg.priority \in 0 .. 100
  BY DEF Arg
<1>8. a \in Seq(PlainOffer)
  <2>1. ASSUME NEW i \in DOMAIN arg.suggestions PROVE a[i] \in PlainOffer
    <3>1. PICK g : g = arg.suggestions[i]
      OBVIOUS
    <3>2. g \in Suggestion
      BY <1>7, <3>1
    <3>3. /\ g.name \in Seq(Text) /\ g.name # <<>> /\ g.insert \in Text
          /\ g.priority \in 0 .. 100 /\ g.hidden \in BOOLEAN
      BY <3>2 DEF Suggestion
    <3>4. a[i] = Candidate(g.insert, g.name, g.priority, g.hidden, None)
      BY <1>1, <3>1
    <3>5. QED
      BY <3>3, <3>4 DEF Candidate, Offer, PlainOffer
  <2>2. a = [i \in DOMAIN arg.suggestions |-> a[i]]
    BY <1>1
  <2>3. QED
    BY <1>7, <2>1, <2>2, EachType
<1>9. b \in Seq(PlainOffer)
  <2>1. list_entries(effective_query, arg.template = "folders") \in Seq(PlainOffer)
    <3>1. PICK f : f = (arg.template = "folders")
      OBVIOUS
    <3>2. f \in BOOLEAN
      BY <3>1
    <3>3. PICK q : q = effective_query
      OBVIOUS
    <3>4. q \in Text
      BY <3>3, EffectiveQuery
    <3>5. QED
      BY <3>1, <3>2, <3>3, <3>4, FileOffers
  <2>2. QED
    BY <1>2, <2>1
<1>10. c \in Seq(PlainOffer)
  <2>1. s \in Seq(Text)
    BY <1>3, <1>4, PickedSet
  <2>2. ASSUME NEW i \in DOMAIN s PROVE c[i] \in PlainOffer
    <3>1. PICK v : v = s[i]
      OBVIOUS
    <3>2. v \in Text
      BY <2>1, <3>1
    <3>3. PICK names : names = <<v>>
      OBVIOUS
    <3>4. names \in Seq(Text) /\ names # <<>>
      BY <3>2, <3>3
    <3>5. PICK n : n = arg.priority
      OBVIOUS
    <3>6. c[i] = Candidate(v, names, n, FALSE, None) /\ n \in 0 .. 100
      BY <1>5, <1>7, <3>1, <3>3, <3>5
    <3>7. QED
      BY <3>2, <3>4, <3>6 DEF Candidate, Offer, PlainOffer
  <2>3. c = [i \in DOMAIN s |-> c[i]]
    BY <1>5
  <2>4. QED
    BY <2>1, <2>2, <2>3, EachType
<1>11. PICK ab : ab = a \o b
  OBVIOUS
<1>12. ab \in Seq(PlainOffer)
  BY <1>8, <1>9, <1>11
<1>13. ab \o c \in Seq(PlainOffer) /\ ToSet(ab) \subseteq ToSet(ab \o c)
  BY <1>10, <1>12, ConcatSet
<1>14. QED
  BY <1>6, <1>11, <1>13

-----------------------------------------------------------------------------
(* Ranking *)

LEMMA PrefixFacts ==
    ASSUME NEW S, NEW p \in Seq(S), NEW s \in Seq(S)
    PROVE  IsPrefix(p, s) <=> Len(p) <= Len(s) /\ \A i \in 1 .. Len(p) : p[i] = s[i]
<1>1. Len(p) \in Nat /\ Len(s) \in Nat
  OBVIOUS
<1>2. SUFFICES ASSUME Len(p) <= Len(s)
               PROVE  SubSeq(p, 1, Len(p)) = SubSeq(s, 1, Len(p))
                        <=> \A i \in 1 .. Len(p) : p[i] = s[i]
  BY <1>1 DEF IsPrefix
<1>3. PICK a, b : a = SubSeq(p, 1, Len(p)) /\ b = SubSeq(s, 1, Len(p))
  OBVIOUS
<1>4. /\ a \in Seq(S) /\ Len(a) = Len(p) /\ \A i \in 1 .. Len(p) : a[i] = p[i]
      /\ b \in Seq(S) /\ Len(b) = Len(p) /\ \A i \in 1 .. Len(p) : b[i] = s[i]
  BY <1>1, <1>2, <1>3
<1>5. (\A i \in 1 .. Len(p) : p[i] = s[i]) => a = b
  BY <1>4, SameSeq
<1>6. a = b => \A i \in 1 .. Len(p) : p[i] = s[i]
  BY <1>4
<1>7. QED
  BY <1>3, <1>5, <1>6

\* A query that begins a name, or is it, is within it.
LEMMA PrefixWithin ==
    ASSUME NEW p \in Text, NEW s \in Text, IsPrefix(p, s)
    PROVE  is_subsequence(p, s)
<1>1. /\ p \in Seq(DOMAIN Ord) /\ s \in Seq(DOMAIN Ord) /\ Len(p) \in Nat /\ Len(s) \in Nat
      /\ DOMAIN p = 1 .. Len(p) /\ DOMAIN s = 1 .. Len(s)
  BY DEF Text
<1>2. Len(p) <= Len(s) /\ \A i \in 1 .. Len(p) : p[i] = s[i]
  BY <1>1, PrefixFacts
<1> DEFINE at == [i \in DOMAIN p |-> i]
<1>3. at \in [DOMAIN p -> DOMAIN s] /\ \A i \in DOMAIN p : at[i] = i /\ s[i] = p[i]
  BY <1>1, <1>2
<1>4. \A i, j \in DOMAIN p : i < j => at[i] < at[j]
  BY <1>3
<1> HIDE DEF at
<1>5. \A i \in DOMAIN p : s[at[i]] = p[i]
  BY <1>3
<1>6. QED
  BY <1>3, <1>4, <1>5 DEF is_subsequence

LEMMA PrefixOfSelf ==
    ASSUME NEW p \in Text, NEW s \in Text, p = <<>> \/ p = s
    PROVE  IsPrefix(p, s)
<1>1. p \in Seq(DOMAIN Ord) /\ s \in Seq(DOMAIN Ord)
  BY DEF Text
<1>2. Len(p) <= Len(s) /\ \A i \in 1 .. Len(p) : p[i] = s[i]
  BY <1>1
<1>3. QED
  BY <1>1, <1>2, PrefixFacts

\* What matches contains the query.
LEMMA QualityFacts ==
    ASSUME NEW c \in Offer, NEW query \in Text, NEW q, q = best_quality(c, query)
    PROVE  /\ q \in Nat
           /\ q >= 1200 => \E i \in DOMAIN c.names : is_subsequence(query, c.names[i])
<1>1. c.names \in Seq(Text) /\ c.names # <<>>
  BY DEF Offer
<1>2. \A i \in DOMAIN c.names : c.names[i] \in Text
  BY <1>1
<1>3. CASE query = <<>>
  <2>1. q = 2250
    BY <1>3 DEF best_quality
  <2>2. 1 \in DOMAIN c.names
    BY <1>1
  <2>3. is_subsequence(query, c.names[1])
    BY <1>2, <1>3, <2>2, PrefixOfSelf, PrefixWithin
  <2>4. QED
    BY <2>1, <2>2, <2>3
<1>4. CASE query # <<>>
  <2>1. PICK qs : qs = {match_quality(c.names[i], query) : i \in DOMAIN c.names}
    OBVIOUS
  <2>2. q = CHOOSE x \in qs \cup {0} : \A r \in qs : x >= r
    BY <1>4, <2>1 DEF best_quality
  <2>3. \A i \in DOMAIN c.names : match_quality(c.names[i], query) \in 0 .. 3000
    BY DEF match_quality
  <2>4. PICK T : T = qs \cup {0}
    OBVIOUS
  <2>10. PICK b \in Nat : b = 3000
    OBVIOUS
  <2>5. T \in SUBSET (0 .. b) /\ T # {} /\ b \in Nat
    <3> DEFINE quality(i) == match_quality(c.names[i], query)
    <3>1. \A i \in DOMAIN c.names : quality(i) \in 0 .. 3000
      BY <2>3
    <3>2. qs = {quality(i) : i \in DOMAIN c.names}
      BY <2>1
    <3> HIDE DEF quality
    <3>3. qs \subseteq 0 .. 3000
      BY <3>1, <3>2
    <3>4. QED
      BY <2>4, <2>10, <3>3
  <2>6. q \in T
    <3>1. \E x \in T : \A r \in T : x >= r
      BY <2>5, GreatestNat
    <3>2. \E x \in qs \cup {0} : \A r \in qs : x >= r
      BY <2>4, <3>1
    <3>3. q \in qs \cup {0}
      BY <2>2, <3>2
    <3>4. QED
      BY <2>4, <3>3
  <2>7. q \in Nat
    BY <2>5, <2>6
  <2>8. ASSUME q >= 1200 PROVE \E i \in DOMAIN c.names : is_subsequence(query, c.names[i])
    <3>1. q # 0
      BY <2>7, <2>8
    <3>2. PICK i \in DOMAIN c.names : q = match_quality(c.names[i], query)
      BY <2>1, <2>4, <2>6, <3>1
    <3>3. \/ c.names[i] = query \/ IsPrefix(query, c.names[i])
          \/ is_subsequence(query, c.names[i])
      BY <3>1, <3>2 DEF match_quality
    <3>4. QED
      BY <1>2, <3>3, PrefixOfSelf, PrefixWithin
  <2>9. QED
    BY <2>7, <2>8
<1>5. QED
  BY <1>3, <1>4

LEMMA ScoreType ==
    ASSUME NEW c \in Offer, NEW query \in Text
    PROVE  score(c, query) \in Nat
<1>1. c.priority \in 0 .. 100
  BY DEF Offer
<1>2. PICK q : q = best_quality(c, query)
  OBVIOUS
<1>3. q \in Nat
  BY <1>2, QualityFacts
<1>4. QED
  BY <1>1, <1>2, <1>3 DEF score

LEMMA MatchFacts ==
    ASSUME NEW c \in Offer, NEW query \in Text, Matches(c, query)
    PROVE  \E i \in DOMAIN c.names : is_subsequence(query, c.names[i])
<1>1. PICK q : q = best_quality(c, query)
  OBVIOUS
<1>2. q \in Nat
  BY <1>1, QualityFacts
<1>3. q >= 1200
  BY <1>1, <1>2 DEF Matches
<1>4. QED
  BY <1>1, <1>3, QualityFacts

\* The order of strings of the same length.
LEMMA LexFacts ==
    ASSUME NEW a \in Text, NEW b \in Text, Len(a) = Len(b)
    PROVE  LexLess(a, b) <=> \E k \in 1 .. Len(a) :
             (\A i \in 1 .. k - 1 : a[i] = b[i]) /\ Ord[a[k]] < Ord[b[k]]
<1>1. /\ a \in Seq(DOMAIN Ord) /\ b \in Seq(DOMAIN Ord) /\ Len(a) \in Nat /\ Len(b) = Len(a)
  BY DEF Text
<1>2. ASSUME NEW k \in 1 .. Len(a)
      PROVE  IsPrefix(SubSeq(b, 1, k - 1), a) <=> \A i \in 1 .. k - 1 : a[i] = b[i]
  <2>1. PICK p : p = SubSeq(b, 1, k - 1)
    OBVIOUS
  <2>2. k - 1 \in Nat /\ 1 <= k - 1 + 1 /\ k - 1 <= Len(b) /\ k - 1 + 1 - 1 = k - 1
    BY <1>1
  <2>3. p \in Seq(DOMAIN Ord) /\ Len(p) = k - 1 /\ \A i \in 1 .. k - 1 : p[i] = b[i]
    BY <1>1, <2>1, <2>2
  <2>4. IsPrefix(p, a) <=> Len(p) <= Len(a) /\ \A i \in 1 .. Len(p) : p[i] = a[i]
    BY <1>1, <2>3, PrefixFacts
  <2>5. Len(p) <= Len(a)
    BY <1>1, <2>2, <2>3
  <2>6. (\A i \in 1 .. Len(p) : p[i] = a[i]) <=> \A i \in 1 .. k - 1 : a[i] = b[i]
    BY <2>3
  <2>7. QED
    BY <2>1, <2>4, <2>5, <2>6
<1>3. \A k \in 1 .. Len(a) : ~(k > Len(a))
  BY <1>1
<1>4. LexLess(a, b) <=> \E k \in 1 .. Len(a) :
        IsPrefix(SubSeq(b, 1, k - 1), a) /\ (k > Len(a) \/ Ord[a[k]] < Ord[b[k]])
  BY <1>1 DEF LexLess
<1>5. QED
  BY <1>2, <1>3, <1>4, Zenon

LEMMA LexOrder ==
    ASSUME NEW a \in Text, NEW b \in Text, NEW c \in Text, Len(a) = Len(b), Len(b) = Len(c)
    PROVE  /\ ~LexLess(a, a) /\ (LexLess(a, b) /\ LexLess(b, c) => LexLess(a, c))
           /\ a # b => LexLess(a, b) \/ LexLess(b, a)
<1>1. PICK n \in Nat : Len(a) = n /\ Len(b) = n /\ Len(c) = n
  BY DEF Text
<1>2. /\ \A i \in 1 .. n : a[i] \in DOMAIN Ord /\ b[i] \in DOMAIN Ord /\ c[i] \in DOMAIN Ord
      /\ a \in Seq(DOMAIN Ord) /\ b \in Seq(DOMAIN Ord)
  BY <1>1 DEF Text
<1>3. \A i \in 1 .. n : Ord[a[i]] \in Nat /\ Ord[b[i]] \in Nat /\ Ord[c[i]] \in Nat
  BY <1>2, CompleteAssumption
<1>4. ~LexLess(a, a)
  <2>1. LexLess(a, a) <=> \E k \in 1 .. n :
          (\A i \in 1 .. k - 1 : a[i] = a[i]) /\ Ord[a[k]] < Ord[a[k]]
    BY <1>1, LexFacts
  <2>2. QED
    BY <1>3, <2>1
<1>5. ASSUME LexLess(a, b), LexLess(b, c) PROVE LexLess(a, c)
  <2>1. PICK j \in 1 .. n : (\A i \in 1 .. j - 1 : a[i] = b[i]) /\ Ord[a[j]] < Ord[b[j]]
    BY <1>1, <1>5, LexFacts
  <2>2. PICK k \in 1 .. n : (\A i \in 1 .. k - 1 : b[i] = c[i]) /\ Ord[b[k]] < Ord[c[k]]
    BY <1>1, <1>5, LexFacts
  <2>3. PICK m \in 1 .. n : m = IF j <= k THEN j ELSE k
    OBVIOUS
  <2>4. \A i \in 1 .. m - 1 : i \in 1 .. j - 1 /\ i \in 1 .. k - 1
    BY <2>3
  <2>5. \A i \in 1 .. m - 1 : a[i] = c[i]
    BY <2>1, <2>2, <2>4
  <2>6. Ord[a[m]] < Ord[c[m]]
    <3>1. CASE j < k
      <4>1. m = j /\ j \in 1 .. k - 1
        BY <2>3, <3>1
      <4>2. QED
        BY <2>1, <2>2, <4>1
    <3>2. CASE k < j
      <4>1. m = k /\ k \in 1 .. j - 1
        BY <2>3, <3>2
      <4>2. QED
        BY <2>1, <2>2, <4>1
    <3>3. CASE j = k
      <4>1. m = k /\ m = j
        BY <2>3, <3>3
      <4>2. QED
        BY <1>3, <2>1, <2>2, <4>1
    <3>4. QED
      BY <1>1, <3>1, <3>2, <3>3
  <2>7. LexLess(a, c) <=> \E l \in 1 .. n :
          (\A i \in 1 .. l - 1 : a[i] = c[i]) /\ Ord[a[l]] < Ord[c[l]]
    BY <1>1, LexFacts
  <2>8. QED
    BY <2>5, <2>6, <2>7
<1>6. ASSUME a # b PROVE LexLess(a, b) \/ LexLess(b, a)
  <2> DEFINE D == {i \in 1 .. n : a[i] # b[i]}
  <2>1. D # {}
    <3>1. (\A i \in 1 .. n : a[i] = b[i]) => a = b
      BY <1>1, <1>2, SameSeq
    <3>2. QED
      BY <1>6, <3>1
  <2>2. D \in SUBSET Nat
    OBVIOUS
  <2>3. PICK k \in D : \A j \in D : k <= j
    <3> HIDE DEF D
    <3>1. QED
      BY <2>1, <2>2, LeastNat
  <2>4. k \in 1 .. n /\ a[k] # b[k]
    OBVIOUS
  <2>5. \A i \in 1 .. k - 1 : a[i] = b[i] /\ b[i] = a[i]
    <3>1. ASSUME NEW i \in 1 .. k - 1, a[i] # b[i] PROVE FALSE
      <4>1. i \in 1 .. n /\ ~(k <= i)
        BY <2>4
      <4>2. QED
        BY <2>3, <3>1, <4>1
    <3>2. QED
      BY <3>1
  <2>6. Ord[a[k]] < Ord[b[k]] \/ Ord[b[k]] < Ord[a[k]]
    <3>1. Ord[a[k]] # Ord[b[k]]
      BY <1>2, <2>4, CompleteAssumption
    <3>2. QED
      BY <1>3, <2>4, <3>1
  <2>7. LexLess(a, b) <=> \E l \in 1 .. n :
          (\A i \in 1 .. l - 1 : a[i] = b[i]) /\ Ord[a[l]] < Ord[b[l]]
    BY <1>1, LexFacts
  <2>8. LexLess(b, a) <=> \E l \in 1 .. n :
          (\A i \in 1 .. l - 1 : b[i] = a[i]) /\ Ord[b[l]] < Ord[a[l]]
    BY <1>1, LexFacts
  <2>9. QED
    BY <2>4, <2>5, <2>6, <2>7, <2>8, Zenon
<1>7. QED
  BY <1>4, <1>5, <1>6

\* The order in which candidates are answered.
LEMMA BeforeOrder ==
    ASSUME NEW cs \in Seq(Offer), NEW query \in Text, NEW R,
           \A i, j \in DOMAIN cs : <<i, j>> \in R <=> Before(cs, query, i, j)
    PROVE  StrictOrder(DOMAIN cs, R)
<1> DEFINE D == DOMAIN cs
           sc == [i \in D |-> score(cs[i], query)]
           ln == [i \in D |-> Len(cs[i].insert)]
           tx == [i \in D |-> cs[i].insert]
<1>1. \A i \in D : cs[i] \in Offer /\ i \in Nat
  OBVIOUS
<1>2. \A c \in Offer : c.insert \in Text
  BY DEF Offer
<1>3. \A i \in D : sc[i] \in Nat /\ ln[i] \in Nat /\ tx[i] \in Text /\ ln[i] = Len(tx[i])
  <2>1. \A t \in Text : Len(t) \in Nat
    BY DEF Text
  <2>2. \A i \in D : score(cs[i], query) \in Nat
    BY <1>1, ScoreType
  <2>3. QED
    BY <1>1, <1>2, <2>1, <2>2
<1>4. \A i, j \in D : <<i, j>> \in R <=>
        \/ sc[i] > sc[j]
        \/ sc[i] = sc[j] /\ ln[i] < ln[j]
        \/ /\ sc[i] = sc[j] /\ ln[i] = ln[j]
           /\ LexLess(tx[i], tx[j]) \/ (tx[i] = tx[j] /\ i < j)
  BY DEF Before
<1>5. \A i, j, k \in D : ln[i] = ln[j] /\ ln[j] = ln[k] =>
        /\ ~LexLess(tx[i], tx[i])
        /\ LexLess(tx[i], tx[j]) /\ LexLess(tx[j], tx[k]) => LexLess(tx[i], tx[k])
        /\ tx[i] # tx[j] => LexLess(tx[i], tx[j]) \/ LexLess(tx[j], tx[i])
  <2>1. ASSUME NEW i \in D, NEW j \in D, NEW k \in D, ln[i] = ln[j], ln[j] = ln[k]
        PROVE  /\ ~LexLess(tx[i], tx[i])
               /\ LexLess(tx[i], tx[j]) /\ LexLess(tx[j], tx[k]) => LexLess(tx[i], tx[k])
               /\ tx[i] # tx[j] => LexLess(tx[i], tx[j]) \/ LexLess(tx[j], tx[i])
    <3> HIDE DEF sc, ln, tx, D
    <3>1. PICK a, b, c : a = tx[i] /\ b = tx[j] /\ c = tx[k]
      OBVIOUS
    <3>2. a \in Text /\ b \in Text /\ c \in Text /\ Len(a) = Len(b) /\ Len(b) = Len(c)
      BY <1>3, <2>1, <3>1
    <3>3. QED
      BY <3>1, <3>2, LexOrder
  <2> HIDE DEF sc, ln, tx, D
  <2>2. QED
    BY <2>1
<1> HIDE DEF sc, ln, tx, D
<1>6. ASSUME NEW i \in D PROVE <<i, i>> \notin R
  BY <1>1, <1>3, <1>4, <1>5
<1>7. ASSUME NEW i \in D, NEW j \in D, i # j PROVE <<i, j>> \in R \/ <<j, i>> \in R
  <2>1. /\ sc[i] \in Nat /\ sc[j] \in Nat /\ ln[i] \in Nat /\ ln[j] \in Nat
        /\ i \in Nat /\ j \in Nat
    BY <1>1, <1>3
  <2>2. /\ sc[i] > sc[j] \/ sc[i] = sc[j] \/ sc[j] > sc[i]
        /\ ln[i] < ln[j] \/ ln[i] = ln[j] \/ ln[j] < ln[i]
        /\ i < j \/ j < i
    BY <1>7, <2>1
  <2>3. ln[i] = ln[j] /\ tx[i] # tx[j] => LexLess(tx[i], tx[j]) \/ LexLess(tx[j], tx[i])
    BY <1>5
  <2>4. CASE sc[i] # sc[j] \/ ln[i] # ln[j]
    BY <1>4, <2>2, <2>4, Zenon
  <2>5. CASE sc[i] = sc[j] /\ ln[i] = ln[j]
    BY <1>4, <2>2, <2>3, <2>5, Zenon
  <2>6. QED
    BY <2>4, <2>5
<1>8. ASSUME NEW i \in D, NEW j \in D, NEW k \in D, <<i, j>> \in R, <<j, k>> \in R
      PROVE  <<i, k>> \in R
  <2>1. sc[i] >= sc[j] /\ sc[j] >= sc[k]
    BY <1>3, <1>4, <1>8
  <2>2. CASE sc[i] > sc[k]
    BY <1>4, <2>2
  <2>3. CASE sc[i] = sc[j] /\ sc[j] = sc[k]
    <3>1. ln[i] <= ln[j] /\ ln[j] <= ln[k]
      BY <1>3, <1>4, <1>8, <2>3
    <3>2. CASE ln[i] < ln[k]
      BY <1>4, <2>3, <3>2
    <3>3. CASE ln[i] = ln[j] /\ ln[j] = ln[k]
      <4>1. /\ LexLess(tx[i], tx[j]) \/ (tx[i] = tx[j] /\ i < j)
            /\ LexLess(tx[j], tx[k]) \/ (tx[j] = tx[k] /\ j < k)
        BY <1>3, <1>4, <1>8, <2>3, <3>3
      <4>2. LexLess(tx[i], tx[k]) \/ (tx[i] = tx[k] /\ i < k)
        BY <1>1, <1>5, <3>3, <4>1
      <4>3. QED
        BY <1>4, <2>3, <3>3, <4>2
    <3>4. QED
      BY <1>3, <3>1, <3>2, <3>3
  <2>4. QED
    BY <1>3, <2>1, <2>2, <2>3
<1>9. QED
  BY <1>6, <1>7, <1>8 DEF StrictOrder, D

\* The answer holds candidates that match, no more than TopN, and the best of them.
LEMMA RankFacts ==
    ASSUME NEW all \in Seq(Offer), NEW query \in Text, NEW r, r = rank_top_n(all, query)
    PROVE  /\ r \in Seq(Offer) /\ Len(r) <= TopN
           /\ \A k \in DOMAIN r : r[k] \in ToSet(all) /\ Matches(r[k], query)
           /\ \A c \in ToSet(all) \ ToSet(r) :
                \/ ~Matches(c, query)
                \/ Len(r) = TopN /\ \A k \in DOMAIN r : score(r[k], query) >= score(c, query)
<1> DEFINE K == {i \in DOMAIN all : Matches(all[i], query)}
           cs == Picked(all, K)
           D == DOMAIN cs
           N == Len(cs)
           n == IF Len(cs) < TopN THEN Len(cs) ELSE TopN
           Place(i) == Cardinality({j \in D : Before(cs, query, j, i)})
           place == [p \in 1 .. N |-> CHOOSE i \in D : Place(i) = p - 1]
           R == {x \in D \X D : Before(cs, query, x[1], x[2])}
<1>1. r = [p \in 1 .. n |-> cs[CHOOSE i \in D : Place(i) = p - 1]]
  BY DEF rank_top_n, Filter
<1>2. K \in SUBSET DOMAIN all /\ \A i \in DOMAIN all : i \in K <=> Matches(all[i], query)
  OBVIOUS
<1> HIDE DEF K
<1>3. cs \in Seq(Offer) /\ ToSet(cs) = {all[i] : i \in K}
  BY <1>2, PickedSet
<1> HIDE DEF cs
<1>4. /\ N \in Nat /\ D = 1 .. N /\ IsFiniteSet(D) /\ Cardinality(D) = N
      /\ TopN \in Nat /\ n \in Nat /\ n <= N /\ n <= TopN /\ (n = N \/ n = TopN)
  <2>0. TopN \in Nat
    BY CompleteAssumption
  <2>1. N \in Nat /\ D = 1 .. N /\ TopN \in Nat
    BY <1>3, <2>0
  <2>2. IsFiniteSet(1 .. N) /\ Cardinality(1 .. N) = IF 1 > N THEN 0 ELSE N - 1 + 1
    <3>1. 1 \in Int /\ N \in Int
      BY <2>1
    <3>2. QED
      BY <3>1, FS_Interval, Zenon
  <2>3. QED
    BY <2>1, <2>2
<1>5. \A i, j \in D : <<i, j>> \in R <=> Before(cs, query, i, j)
  OBVIOUS
<1>6. \A i \in D : Under(D, R, i) = {j \in D : Before(cs, query, j, i)}
  BY <1>5 DEF Under
<1> HIDE DEF R
<1>7. StrictOrder(D, R)
  BY <1>3, <1>5, BeforeOrder
<1>8. \A i \in D : Place(i) = Cardinality(Under(D, R, i))
  BY <1>6
<1> HIDE DEF Place
<1>9. \A p \in 1 .. N : (\E i \in D : Place(i) = p - 1) => place[p] \in D /\ Place(place[p]) = p - 1
  OBVIOUS
<1>10. place = [p \in 1 .. N |-> place[p]]
  OBVIOUS
<1>11. \A p \in 1 .. N : place[p] = CHOOSE i \in D : Place(i) = p - 1
  OBVIOUS
<1> HIDE DEF place, D, N, n
<1>12. Lists(place, D, R)
  <2>1. \A p \in 1 .. Cardinality(D) :
          (\E i \in D : Cardinality(Under(D, R, i)) = p - 1)
            => place[p] \in D /\ Cardinality(Under(D, R, place[p])) = p - 1
    BY <1>4, <1>8, <1>9
  <2>2. QED
    BY <1>4, <1>7, <1>10, <2>1, RankLists
<1>13. /\ place \in [1 .. N -> D] /\ \A i \in D : \E p \in 1 .. N : place[p] = i
       /\ \A p, q \in 1 .. N : p < q => <<place[p], place[q]>> \in R
  BY <1>4, <1>12 DEF Lists
<1>14. r = [p \in 1 .. n |-> cs[place[p]]]
  <2>1. \A p \in 1 .. n : p \in 1 .. N
    BY <1>4
  <2>2. QED
    BY <1>1, <1>11, <2>1
<1>15. \A p \in 1 .. n : place[p] \in D /\ cs[place[p]] \in Offer /\ cs[place[p]] \in ToSet(cs)
  <2>1. \A i \in D : cs[i] \in Offer /\ cs[i] \in ToSet(cs)
    BY <1>3 DEF D, ToSet
  <2>2. \A p \in 1 .. n : p \in 1 .. N
    BY <1>4
  <2>3. QED
    BY <1>13, <2>1, <2>2
<1>16. /\ r \in Seq(Offer) /\ Len(r) = n /\ DOMAIN r = 1 .. n
       /\ \A p \in 1 .. n : r[p] = cs[place[p]]
  BY <1>4, <1>14, <1>15
<1>17. \A c \in ToSet(cs) : c \in ToSet(all) /\ Matches(c, query)
  BY <1>2, <1>3 DEF ToSet
<1>18. \A k \in DOMAIN r : r[k] \in ToSet(all) /\ Matches(r[k], query)
  BY <1>15, <1>16, <1>17
<1>19. ASSUME NEW c \in ToSet(all) \ ToSet(r), Matches(c, query)
       PROVE  Len(r) = TopN /\ \A k \in DOMAIN r : score(r[k], query) >= score(c, query)
  <2>1. PICK m \in DOMAIN all : c = all[m]
    BY DEF ToSet
  <2>2. c \in ToSet(cs)
    BY <1>2, <1>3, <1>19, <2>1
  <2>3. PICK i \in D : c = cs[i]
    BY <2>2 DEF ToSet, D
  <2>4. PICK q \in 1 .. N : place[q] = i
    BY <1>13
  <2>5. q > n
    <3>1. SUFFICES ASSUME q \in 1 .. n PROVE FALSE
      BY <1>4
    <3>2. r[q] = c /\ q \in DOMAIN r
      BY <1>16, <2>3, <2>4, <3>1
    <3>3. c \in ToSet(r)
      BY <3>2 DEF ToSet
    <3>4. QED
      BY <3>3
  <2>6. n = TopN
    BY <1>4, <2>5
  <2>7. ASSUME NEW k \in DOMAIN r PROVE score(r[k], query) >= score(c, query)
    <3>1. k \in 1 .. N /\ k < q /\ k \in 1 .. n
      BY <1>4, <1>16, <2>5
    <3>2. place[k] \in D /\ r[k] = cs[place[k]]
      BY <1>15, <1>16, <3>1
    <3>3. Before(cs, query, place[k], i)
      BY <1>5, <1>13, <2>4, <3>1, <3>2
    <3>4. score(r[k], query) > score(c, query) \/ score(r[k], query) = score(c, query)
      BY <2>3, <3>2, <3>3 DEF Before
    <3>5. score(r[k], query) \in Nat /\ score(c, query) \in Nat
      <4>1. c \in Offer /\ r[k] \in Offer
        BY <1>16, <2>1
      <4>2. QED
        BY <4>1, ScoreType
    <3>6. QED
      BY <3>4, <3>5
  <2>8. QED
    BY <1>16, <2>6, <2>7
<1>20. QED
  BY <1>4, <1>16, <1>18, <1>19

-----------------------------------------------------------------------------
(* The query and its token *)

LEMMA PrefixAppend ==
    ASSUME NEW p \in Text, NEW t \in Text, NEW c \in DOMAIN Ord, IsPrefix(p, t)
    PROVE  IsPrefix(p, Append(t, c))
<1>1. p \in Seq(DOMAIN Ord) /\ t \in Seq(DOMAIN Ord)
  BY DEF Text
<1>2. PICK u : u = Append(t, c)
  OBVIOUS
<1>3. u \in Seq(DOMAIN Ord) /\ Len(u) = Len(t) + 1 /\ \A i \in 1 .. Len(t) : u[i] = t[i]
  BY <1>1, <1>2
<1>4. Len(p) <= Len(t) /\ \A i \in 1 .. Len(p) : p[i] = t[i]
  BY <1>1, PrefixFacts
<1>5. Len(p) \in Nat /\ Len(t) \in Nat
  BY <1>1
<1>6. Len(p) <= Len(u) /\ \A i \in 1 .. Len(p) : p[i] = u[i]
  BY <1>3, <1>4, <1>5
<1>7. IsPrefix(p, u)
  BY <1>1, <1>3, <1>6, PrefixFacts
<1>8. QED
  BY <1>2, <1>7

\* A character adds itself to the text or nothing, and a backslash that escapes adds no
\* more than one that is literal.
LEMMA ChewText ==
    ASSUME NEW mode \in Modes, NEW text \in Text, NEW c \in DOMAIN Ord, NEW literal \in BOOLEAN
    PROVE  /\ Chew(mode, text, c, literal)[2] \in {text, Append(text, c)}
           /\ \/ Chew(mode, text, c, FALSE)[2] = Chew(mode, text, c, literal)[2]
              \/ Chew(mode, text, c, FALSE)[2] = text
<1>1. Chew(mode, text, c, literal)[2] \in {text, Append(text, c)}
  BY DEF Chew
<1>2. literal = FALSE \/ literal = TRUE
  OBVIOUS
<1>3. \/ Chew(mode, text, c, FALSE)[2] = Chew(mode, text, c, TRUE)[2]
      \/ Chew(mode, text, c, FALSE)[2] = text
  BY DEF Chew
<1>4. QED
  BY <1>1, <1>2, <1>3

\* The scan of a part of a token is the beginning of the scan of a longer part.
LEMMA UnquotedCut ==
    ASSUME NEW raw \in Text, NEW more \in Text, Len(raw) <= Len(more),
           \A j \in 1 .. Len(raw) : raw[j] = more[j]
    PROVE  Unquoted(more, FALSE)[Len(raw)] = Unquoted(raw, FALSE)[Len(raw)]
<1>1. PICK L, M : L = Unquoted(raw, FALSE) /\ M = Unquoted(more, FALSE)
  OBVIOUS
<1>2. PICK n \in Nat : n = Len(raw)
  BY DEF Text
<1>3. Len(more) \in Nat /\ n <= Len(more)
  BY <1>2 DEF Text
<1>4. /\ L[0] = UnquoteStart
      /\ \A k \in 1 .. n : L[k] = Chew(L[k - 1][1], L[k - 1][2], raw[k], FALSE)
  BY <1>1, <1>2, UnquotedFacts
<1>5. /\ M[0] = UnquoteStart
      /\ \A k \in 1 .. Len(more) : M[k] = Chew(M[k - 1][1], M[k - 1][2], more[k], FALSE)
  BY <1>1, UnquotedFacts
<1> DEFINE bad == {k \in 0 .. n : M[k] # L[k]}
<1>6. SUFFICES ASSUME bad # {} PROVE FALSE
  <2>1. n \in 0 .. n
    OBVIOUS
  <2>2. bad = {} => M[n] = L[n]
    BY <2>1
  <2>3. QED
    BY <1>1, <1>2, <2>2
<1>7. PICK m \in bad : \A j \in bad : m <= j
  <2>1. bad \in SUBSET Nat
    OBVIOUS
  <2> HIDE DEF bad
  <2>2. QED
    BY <1>6, <2>1, LeastNat
<1>8. m \in 0 .. n /\ M[m] # L[m]
  BY <1>7
<1>9. m # 0
  BY <1>4, <1>5, <1>8
<1>10. m \in 1 .. n /\ m \in 1 .. Len(more) /\ m - 1 \in 0 .. n /\ ~(m <= m - 1)
  BY <1>3, <1>8, <1>9
<1>11. M[m - 1] = L[m - 1]
  BY <1>7, <1>10
<1>12. raw[m] = more[m]
  BY <1>2, <1>10
<1>13. QED
  BY <1>4, <1>5, <1>8, <1>10, <1>11, <1>12

\* Where the scan of the part of a line between two places stands at its end.
Scan(line, a, c) == Unquoted(SubSeq(line, a + 1, c), FALSE)[c - a]

LEMMA ScanFacts ==
    ASSUME NEW line \in Text, NEW a \in Nat, NEW c \in Nat, a <= c, c <= Len(line)
    PROVE  /\ Scan(line, a, c) \in Modes \X Text
           /\ unquote(SubSeq(line, a + 1, c)) = Scan(line, a, c)[2]
           /\ a = c => Scan(line, a, c) = UnquoteStart
           /\ c < Len(line) =>
                Scan(line, a, c + 1) =
                  Chew(Scan(line, a, c)[1], Scan(line, a, c)[2], line[c + 1], FALSE)
<1>1. line \in Seq(DOMAIN Ord) /\ Len(line) \in Nat
  BY DEF Text
<1>2. PICK raw : raw = SubSeq(line, a + 1, c)
  OBVIOUS
<1>3. raw \in Text /\ Len(raw) = c - a /\ \A j \in 1 .. c - a : raw[j] = line[a + j]
  <2>1. a + 1 \in Nat /\ 1 <= a + 1 /\ a + 1 <= c + 1 /\ c + 1 - (a + 1) = c - a
    OBVIOUS
  <2>2. /\ raw \in Seq(DOMAIN Ord) /\ Len(raw) = c + 1 - (a + 1)
        /\ \A j \in 1 .. c + 1 - (a + 1) : raw[j] = line[a + 1 + j - 1]
    BY <1>1, <1>2, <2>1, PartType
  <2>3. QED
    BY <2>1, <2>2 DEF Text
<1>4. PICK L : L = Unquoted(raw, FALSE)
  OBVIOUS
<1>5. /\ L \in [0 .. c - a -> Modes \X Text] /\ L[0] = UnquoteStart
      /\ Scan(line, a, c) = L[c - a] /\ c - a \in 0 .. c - a
  <2>1. L \in [0 .. Len(raw) -> Modes \X Text] /\ L[0] = UnquoteStart
    BY <1>3, <1>4, UnquotedFacts
  <2>2. Scan(line, a, c) = Unquoted(SubSeq(line, a + 1, c), FALSE)[c - a]
    BY DEF Scan
  <2>3. c - a \in 0 .. c - a
    OBVIOUS
  <2>4. QED
    BY <1>2, <1>3, <1>4, <2>1, <2>2, <2>3
<1>6. Scan(line, a, c) \in Modes \X Text
  BY <1>5
<1>7. unquote(raw) = Scan(line, a, c)[2]
  BY <1>3, <1>4, <1>5 DEF unquote
<1>8. a = c => Scan(line, a, c) = UnquoteStart
  BY <1>5
<1>9. ASSUME c < Len(line)
      PROVE  Scan(line, a, c + 1) =
               Chew(Scan(line, a, c)[1], Scan(line, a, c)[2], line[c + 1], FALSE)
  <2>1. PICK more : more = SubSeq(line, a + 1, c + 1)
    OBVIOUS
  <2>2. PICK n \in Nat : n = c - a
    OBVIOUS
  <2>3. more \in Text /\ Len(more) = n + 1 /\ \A j \in 1 .. n + 1 : more[j] = line[a + j]
    <3>1. /\ a + 1 \in Nat /\ 1 <= a + 1 /\ a + 1 <= c + 1 + 1 /\ c + 1 + 1 - (a + 1) = n + 1
          /\ c + 1 \in Nat /\ c + 1 <= Len(line)
      BY <1>1, <1>9, <2>2
    <3>2. PICK f, l \in Nat : f = a + 1 /\ l = c + 1
      BY <3>1
    <3>3. 1 <= f /\ f <= l + 1 /\ l <= Len(line) /\ more = SubSeq(line, f, l)
      BY <2>1, <3>1, <3>2
    <3>4. /\ more \in Seq(DOMAIN Ord) /\ Len(more) = l + 1 - f
          /\ \A j \in 1 .. l + 1 - f : more[j] = line[f + j - 1]
      BY <1>1, <3>3, PartType
    <3>5. l + 1 - f = n + 1 /\ \A j \in 1 .. n + 1 : f + j - 1 = a + j
      BY <3>1, <3>2
    <3>6. QED
      BY <3>4, <3>5 DEF Text
  <2>4. \A j \in 1 .. Len(raw) : raw[j] = more[j]
    BY <1>3, <2>2, <2>3
  <2>5. Len(raw) <= Len(more) /\ Len(raw) = n
    BY <1>3, <2>2, <2>3
  <2>6. Unquoted(more, FALSE)[n] = Scan(line, a, c)
    BY <1>3, <1>4, <1>5, <2>2, <2>3, <2>4, <2>5, UnquotedCut
  <2>7. PICK M : M = Unquoted(more, FALSE)
    OBVIOUS
  <2>8. n + 1 \in 1 .. Len(more) /\ (n + 1) - 1 = n
    BY <2>3
  <2>9. M[n + 1] = Chew(M[n][1], M[n][2], more[n + 1], FALSE)
    <3>1. \A k \in 1 .. Len(more) : M[k] = Chew(M[k - 1][1], M[k - 1][2], more[k], FALSE)
      BY <2>3, <2>7, UnquotedFacts
    <3>2. QED
      BY <2>8, <3>1
  <2>10. more[n + 1] = line[c + 1] /\ c + 1 - a = n + 1
    BY <2>2, <2>3
  <2>11. Scan(line, a, c + 1) = M[n + 1]
    <3>1. Scan(line, a, c + 1) = Unquoted(SubSeq(line, a + 1, c + 1), FALSE)[c + 1 - a]
      BY DEF Scan
    <3>2. QED
      BY <2>1, <2>7, <2>10, <3>1
  <2>12. QED
    BY <2>6, <2>7, <2>9, <2>10, <2>11
<1>10. QED
  BY <1>2, <1>6, <1>7, <1>8, <1>9

\* The parts of the line from a on, up to a place before k, begin the text.
Begins(line, a, k, text) ==
    \A c \in a .. k : IsPrefix(unquote(SubSeq(line, a + 1, c)), text)

TokenSound(line, k, t) ==
    t.start <= t.end /\ t.end <= k /\ Begins(line, t.start, t.end, t.text)

\* What is known of the scan behind k characters: of the word under way and of each token.
OpenSound(line, k, s) ==
    /\ s.start < k /\ Begins(line, s.start, k, s.text)
    /\ k < Len(line) => Scan(line, s.start, k) = <<s.mode, s.text>>

LexSound(line, k, s) ==
    /\ s.mode # "gap" => OpenSound(line, k, s)
    /\ \A j \in DOMAIN s.tokens : TokenSound(line, k, s.tokens[j])

\* One more character of a word that began at a, where both scans stood in mode with text.
StandsAt(line, a, b, mode, text) ==
    a <= b /\ Begins(line, a, b, text) /\ Scan(line, a, b) = <<mode, text>>

ReadOn(line, a, i, next) ==
    /\ Begins(line, a, i, next[2])
    /\ i < Len(line) => Scan(line, a, i) = <<next[1], next[2]>>

LEMMA ChewSound ==
    ASSUME NEW line \in Text, NEW i \in 1 .. Len(line), NEW a \in Nat,
           NEW mode \in Modes, NEW text \in Text, StandsAt(line, a, i - 1, mode, text),
           NEW lit \in BOOLEAN, i < Len(line) => lit = FALSE
    PROVE  ReadOn(line, a, i, Chew(mode, text, line[i], lit))
<1>0. PICK next : next = Chew(mode, text, line[i], lit)
  OBVIOUS
<1>1. /\ line[i] \in DOMAIN Ord /\ i \in Nat /\ i - 1 \in Nat /\ a <= i - 1 /\ i <= Len(line)
      /\ Len(line) \in Nat /\ i - 1 < Len(line) /\ (i - 1) + 1 = i /\ i - 1 <= Len(line)
      /\ Begins(line, a, i - 1, text) /\ Scan(line, a, i - 1) = <<mode, text>>
  BY DEF Text, StandsAt
<1>2. PICK ch, b : ch = line[i] /\ b = i - 1
  OBVIOUS
<1>3. next \in Modes \X Text
  BY <1>0, <1>1, ChewType
<1>4. Scan(line, a, i) = Chew(mode, text, line[i], FALSE)
  <2>1. b \in Nat /\ a <= b /\ b <= Len(line) /\ b < Len(line) /\ b + 1 = i
    BY <1>1, <1>2
  <2>2. Scan(line, a, b + 1) = Chew(Scan(line, a, b)[1], Scan(line, a, b)[2], line[b + 1], FALSE)
    BY <2>1, ScanFacts
  <2>3. Scan(line, a, b) = <<mode, text>>
    BY <1>1, <1>2
  <2>4. Scan(line, a, b)[1] = mode /\ Scan(line, a, b)[2] = text
    BY <2>3
  <2>5. QED
    BY <2>1, <2>2, <2>4, Zenon
<1>5. next \in Modes \X Text /\ next = Chew(mode, text, line[i], lit)
  BY <1>0, <1>3
<1>6. /\ next[2] \in {text, Append(text, line[i])}
      /\ \/ Scan(line, a, i)[2] = next[2]
         \/ Scan(line, a, i)[2] = text
  <2>1. ch \in DOMAIN Ord
    BY <1>1, <1>2
  <2>2. /\ Chew(mode, text, ch, lit)[2] \in {text, Append(text, ch)}
        /\ \/ Chew(mode, text, ch, FALSE)[2] = Chew(mode, text, ch, lit)[2]
           \/ Chew(mode, text, ch, FALSE)[2] = text
    BY <2>1, ChewText
  <2>3. QED
    BY <1>2, <1>4, <1>5, <2>2
<1>7. next[2] \in Text
  BY <1>5
<1>8. \A p \in Text : IsPrefix(p, text) => IsPrefix(p, next[2])
  <2>1. ASSUME NEW p \in Text, IsPrefix(p, text) PROVE IsPrefix(p, Append(text, line[i]))
    BY <1>1, <2>1, PrefixAppend
  <2>2. QED
    BY <1>6, <2>1, Zenon
<1>9. ASSUME NEW c \in a .. i PROVE IsPrefix(unquote(SubSeq(line, a + 1, c)), next[2])
  <2>1. c \in Nat /\ a <= c /\ c <= Len(line)
    BY <1>1
  <2>2. PICK p : p = unquote(SubSeq(line, a + 1, c))
    OBVIOUS
  <2>3. p \in Text /\ p = Scan(line, a, c)[2]
    <3>1. PICK r : r = Scan(line, a, c)
      OBVIOUS
    <3>2. r \in Modes \X Text /\ p = r[2]
      BY <2>1, <2>2, <3>1, ScanFacts
    <3>3. r[2] \in Text
      BY <3>2
    <3>4. QED
      BY <3>1, <3>2, <3>3
  <2>4. CASE c = i
    <3>1. IsPrefix(text, text) /\ IsPrefix(next[2], next[2])
      BY <1>7, PrefixOfSelf
    <3>2. QED
      BY <1>6, <1>8, <2>2, <2>3, <2>4, <3>1
  <2>5. CASE c # i
    <3>1. c \in a .. i - 1
      BY <1>1, <2>5
    <3>2. IsPrefix(p, text)
      BY <1>1, <2>2, <3>1 DEF Begins
    <3>3. QED
      BY <1>8, <2>2, <2>3, <3>2
  <2>6. QED
    BY <2>4, <2>5
<1>10. i < Len(line) => Scan(line, a, i) = <<next[1], next[2]>>
  <2>1. i < Len(line) => Scan(line, a, i) = next
    BY <1>4, <1>5
  <2>2. next = <<next[1], next[2]>>
    BY <1>5
  <2>3. QED
    BY <2>1, <2>2
<1>11. QED
  BY <1>0, <1>9, <1>10 DEF Begins, ReadOn

LEMMA LexStepSound ==
    ASSUME NEW line \in Text, NEW s \in LexState, NEW i \in 1 .. Len(line),
           LexSound(line, i - 1, s), NEW n, n = LexStep(line, s, i)
    PROVE  LexSound(line, i, n)
<1>1. /\ line[i] \in DOMAIN Ord /\ i \in Nat /\ i - 1 \in Nat /\ i - 1 < i /\ Len(line) \in Nat
      /\ i - 1 < Len(line) /\ i - 1 <= Len(line)
  BY DEF Text
<1>2. /\ s.mode \in Modes /\ s.text \in Text /\ s.start \in Nat /\ s.tokens \in Seq(Token)
      /\ s = [mode |-> s.mode, text |-> s.text, start |-> s.start, tokens |-> s.tokens]
  BY DEF LexState
<1>3. \A j \in DOMAIN s.tokens : TokenSound(line, i, s.tokens[j])
  <2>1. \A t \in Token : TokenSound(line, i - 1, t) => TokenSound(line, i, t)
    <3>1. \A t \in Token : t.end \in Nat
      BY DEF Token
    <3>2. QED
      BY <1>1, <3>1 DEF TokenSound
  <2>2. \A j \in DOMAIN s.tokens : s.tokens[j] \in Token /\ TokenSound(line, i - 1, s.tokens[j])
    BY <1>2 DEF LexSound
  <2>3. QED
    BY <2>1, <2>2
<1>4. CASE s.mode = "gap" /\ line[i] \in White
  <2>1. n = s
    BY <1>4 DEF LexStep
  <2>2. QED
    BY <1>3, <1>4, <2>1 DEF LexSound
<1>5. CASE s.mode = "word" /\ line[i] \in White
  <2>1. PICK tok : tok = [text |-> s.text, start |-> s.start, end |-> i - 1]
    OBVIOUS
  <2>2. n = [s EXCEPT !.mode = "gap", !.tokens = Append(s.tokens, tok)]
    BY <1>5, <2>1 DEF LexStep
  <2>3. n.mode = "gap" /\ n.tokens = Append(s.tokens, tok)
    BY <1>2, <2>2
  <2>4. OpenSound(line, i - 1, s)
    BY <1>5 DEF LexSound
  <2>5. TokenSound(line, i, tok)
    <3>1. tok.text = s.text /\ tok.start = s.start /\ tok.end = i - 1
      BY <2>1
    <3>2. s.start <= i - 1 /\ i - 1 <= i /\ Begins(line, s.start, i - 1, s.text)
      BY <1>1, <1>2, <2>4 DEF OpenSound
    <3>3. QED
      BY <3>1, <3>2 DEF TokenSound
  <2>6. \A j \in DOMAIN n.tokens : TokenSound(line, i, n.tokens[j])
    <3>1. tok \in Token
      BY <1>1, <1>2, <2>1 DEF Token
    <3>2. /\ DOMAIN n.tokens = 1 .. Len(s.tokens) + 1 /\ n.tokens[Len(s.tokens) + 1] = tok
          /\ Len(s.tokens) \in Nat /\ DOMAIN s.tokens = 1 .. Len(s.tokens)
          /\ \A j \in 1 .. Len(s.tokens) : n.tokens[j] = s.tokens[j]
      BY <1>2, <2>3, <3>1
    <3>3. \A j \in DOMAIN n.tokens : j \in DOMAIN s.tokens \/ j = Len(s.tokens) + 1
      BY <3>2
    <3>4. QED
      BY <1>3, <2>5, <3>2, <3>3
  <2>7. QED
    BY <2>3, <2>6 DEF LexSound
<1>6. CASE ~(s.mode \in {"gap", "word"} /\ line[i] \in White)
  <2>1. PICK mode : mode = IF s.mode = "gap" THEN "word" ELSE s.mode
    OBVIOUS
  <2>2. PICK text : text = IF s.mode = "gap" THEN <<>> ELSE s.text
    OBVIOUS
  <2>3. PICK a : a = IF s.mode = "gap" THEN i - 1 ELSE s.start
    OBVIOUS
  <2>12. PICK lit : lit = (i = Len(line))
    OBVIOUS
  <2>4. PICK next : next = Chew(mode, text, line[i], lit)
    OBVIOUS
  <2>5. n = [s EXCEPT !.mode = next[1], !.text = next[2], !.start = a]
    BY <1>6, <2>1, <2>2, <2>3, <2>4, <2>12 DEF LexStep
  <2>6. n.mode = next[1] /\ n.text = next[2] /\ n.start = a /\ n.tokens = s.tokens
    BY <1>2, <2>5
  <2>7. mode \in Modes /\ text \in Text /\ a \in Nat
    <3>1. "word" \in Modes /\ <<>> \in Text
      BY DEF Modes, Text
    <3>2. QED
      BY <1>1, <1>2, <2>1, <2>2, <2>3, <3>1
  <2>8. a < i /\ Begins(line, a, i - 1, text) /\ Scan(line, a, i - 1) = <<mode, text>>
    <3>1. CASE s.mode = "gap"
      <4>1. mode = "word" /\ text = <<>> /\ a = i - 1
        BY <2>1, <2>2, <2>3, <3>1
      <4>2. /\ Scan(line, a, i - 1) = UnquoteStart
            /\ unquote(SubSeq(line, a + 1, i - 1)) = Scan(line, a, i - 1)[2]
        <5>1. a \in Nat /\ a <= a /\ a <= Len(line)
          BY <1>1, <4>1
        <5>2. Scan(line, a, a) = UnquoteStart /\ unquote(SubSeq(line, a + 1, a)) = Scan(line, a, a)[2]
          BY <5>1, ScanFacts
        <5>3. QED
          BY <4>1, <5>2
      <4>3. unquote(SubSeq(line, a + 1, i - 1)) = <<>>
        BY <4>2 DEF UnquoteStart
      <4>4. IsPrefix(<<>>, <<>>)
        BY <2>7, <4>1, PrefixOfSelf
      <4>5. \A c \in a .. i - 1 : c = i - 1
        BY <1>1, <4>1
      <4>6. Begins(line, a, i - 1, text)
        BY <4>1, <4>3, <4>4, <4>5 DEF Begins
      <4>7. QED
        BY <1>1, <4>1, <4>2, <4>6 DEF UnquoteStart
    <3>2. CASE s.mode # "gap"
      <4>1. mode = s.mode /\ text = s.text /\ a = s.start
        BY <2>1, <2>2, <2>3, <3>2
      <4>2. OpenSound(line, i - 1, s)
        BY <3>2 DEF LexSound
      <4>3. QED
        BY <1>1, <1>2, <4>1, <4>2 DEF OpenSound
    <3>3. QED
      BY <3>1, <3>2
  <2>9. /\ Begins(line, a, i, next[2])
        /\ i < Len(line) => Scan(line, a, i) = <<next[1], next[2]>>
    <3>1. lit \in BOOLEAN
      BY <2>12, Zenon
    <3>2. i < Len(line) => i # Len(line)
      BY <1>1
    <3>3. i < Len(line) => lit = FALSE
      BY <2>12, <3>2, Zenon
    <3>4. QED
      <4>1. StandsAt(line, a, i - 1, mode, text)
        BY <1>1, <2>7, <2>8 DEF StandsAt
      <4>2. ReadOn(line, a, i, next)
        BY <2>4, <2>7, <3>1, <3>3, <4>1, ChewSound
      <4>3. QED
        BY <4>2 DEF ReadOn
  <2>10. OpenSound(line, i, n)
    BY <2>6, <2>8, <2>9 DEF OpenSound
  <2>11. QED
    BY <1>3, <2>6, <2>10 DEF LexSound
<1>7. QED
  BY <1>4, <1>5, <1>6

\* Every token of a line begins with what unquote makes of each beginning of it.
LEMMA LexTokens ==
    ASSUME NEW line \in Text, NEW ts, ts = lex(line), NEW j \in DOMAIN ts
    PROVE  TokenSound(line, Len(line), ts[j])
<1>1. PICK N \in Nat : N = Len(line)
  BY DEF Text
<1>2. PICK L : L = Lexed(line)
  OBVIOUS
<1>3. /\ L \in [0 .. N -> LexState] /\ L[0] = LexStart
      /\ \A k \in 1 .. N : L[k] = LexStep(line, L[k - 1], k)
  BY <1>1, <1>2, LexedFacts
<1>4. LexSound(line, N, L[N])
  <2> DEFINE bad == {k \in 0 .. N : ~LexSound(line, k, L[k])}
  <2>1. SUFFICES ASSUME bad # {} PROVE FALSE
    <3>1. N \in 0 .. N
      OBVIOUS
    <3>2. QED
      BY <3>1
  <2>2. PICK m \in bad : \A k \in bad : m <= k
    <3>1. bad \in SUBSET Nat
      OBVIOUS
    <3> HIDE DEF bad
    <3>2. QED
      BY <2>1, <3>1, LeastNat
  <2>3. m \in 0 .. N /\ ~LexSound(line, m, L[m])
    BY <2>2
  <2>4. m # 0
    <3>1. LexStart.mode = "gap" /\ LexStart.tokens = <<>> /\ DOMAIN <<>> = {}
      BY DEF LexStart
    <3>2. LexSound(line, 0, LexStart)
      BY <3>1 DEF LexSound
    <3>3. QED
      BY <1>3, <2>3, <3>2
  <2>5. m \in 1 .. N /\ m - 1 \in 0 .. N /\ ~(m <= m - 1)
    BY <2>3, <2>4
  <2>6. LexSound(line, m - 1, L[m - 1])
    BY <2>2, <2>5
  <2>7. L[m - 1] \in LexState /\ L[m] = LexStep(line, L[m - 1], m)
    BY <1>3, <2>5
  <2>8. QED
    BY <1>1, <2>3, <2>5, <2>6, <2>7, LexStepSound
<1>5. PICK e : e = L[N]
  OBVIOUS
<1>6. /\ e.mode \in Modes /\ e.text \in Text /\ e.start \in Nat /\ e.tokens \in Seq(Token)
      /\ LexSound(line, N, e)
  <2>1. N \in 0 .. N
    OBVIOUS
  <2>2. e \in LexState
    BY <1>3, <1>5, <2>1
  <2>3. QED
    BY <1>4, <1>5, <2>2 DEF LexState
<1>7. PICK tok : tok = [text |-> e.text, start |-> e.start, end |-> N]
  OBVIOUS
<1>8. ts = IF e.mode = "gap" THEN e.tokens ELSE Append(e.tokens, tok)
  BY <1>1, <1>2, <1>5, <1>7 DEF lex
<1>9. \A k \in DOMAIN e.tokens : TokenSound(line, N, e.tokens[k])
  BY <1>6 DEF LexSound
<1>10. CASE e.mode = "gap"
  BY <1>1, <1>8, <1>9, <1>10
<1>11. CASE e.mode # "gap"
  <2>1. OpenSound(line, N, e)
    BY <1>6, <1>11 DEF LexSound
  <2>2. tok.text = e.text /\ tok.start = e.start /\ tok.end = N
    BY <1>7
  <2>3. TokenSound(line, N, tok)
    BY <1>6, <2>1, <2>2 DEF OpenSound, TokenSound
  <2>4. tok \in Token
    BY <1>6, <1>7 DEF Token
  <2>5. /\ DOMAIN ts = 1 .. Len(e.tokens) + 1 /\ ts[Len(e.tokens) + 1] = tok
        /\ Len(e.tokens) \in Nat /\ DOMAIN e.tokens = 1 .. Len(e.tokens)
        /\ \A k \in 1 .. Len(e.tokens) : ts[k] = e.tokens[k]
    BY <1>6, <1>8, <1>11, <2>4
  <2>6. j \in DOMAIN e.tokens \/ j = Len(e.tokens) + 1
    BY <2>5
  <2>7. QED
    BY <1>1, <1>9, <2>3, <2>5, <2>6
<1>12. QED
  BY <1>10, <1>11

LEMMA TokenizeContinues ==
    ASSUME NEW line \in Text, NEW at \in Nat, NEW list, list = tokenize(line, at),
           list.cursor_token # 0
    PROVE  IsPrefix(list.query, list.tokens[list.cursor_token].text)
<1> DEFINE cursor0 == clamp_cursor(line, at)
           tokens == lex(line)
           edited == {i \in DOMAIN tokens : Edits(line, cursor0, tokens[i])}
           i == CHOOSE k \in edited : \A j \in edited : k <= j
<1>1. Len(line) \in Nat /\ cursor0 \in Nat /\ cursor0 <= Len(line)
  BY DEF clamp_cursor, Text
<1>2. tokens \in Seq(Token)
  BY LexType
<1> HIDE DEF cursor0, tokens
<1>3. list = IF edited = {}
             THEN [tokens |-> tokens, cursor_token |-> 0, query |-> <<>>,
                   line |-> line, cursor |-> cursor0]
             ELSE [tokens |-> tokens, cursor_token |-> i,
                   query |-> unquote(SubSeq(line, tokens[i].start + 1, cursor0)),
                   line |-> line, cursor |-> cursor0]
  BY DEF tokenize, cursor0, tokens
<1>4. edited # {}
  BY <1>3
<1>5. i \in edited
  <2>1. edited \in SUBSET Nat
    BY <1>2
  <2> HIDE DEF edited
  <2>2. QED
    BY <1>4, <2>1, LeastNat
<1>6. PICK t : t = tokens[i]
  OBVIOUS
<1>7. i \in DOMAIN tokens /\ Edits(line, cursor0, t)
  <2> HIDE DEF i
  <2>1. QED
    BY <1>5, <1>6
<1>8. /\ list.tokens = tokens /\ list.cursor_token = i
      /\ list.query = unquote(SubSeq(line, t.start + 1, cursor0))
  <2> HIDE DEF i, edited
  <2>1. QED
    BY <1>3, <1>4, <1>6
<1> HIDE DEF i, edited
<1>9. t.start \in Nat /\ t.end \in Nat
  <2>1. t \in Token
    BY <1>2, <1>6, <1>7
  <2>2. QED
    BY <2>1 DEF Token
<1>10. TokenSound(line, Len(line), t)
  BY <1>6, <1>7, LexTokens DEF tokens
<1>11. cursor0 \in t.start .. t.end
  BY <1>1, <1>7, <1>9 DEF Edits
<1>12. IsPrefix(unquote(SubSeq(line, t.start + 1, cursor0)), t.text)
  BY <1>10, <1>11 DEF TokenSound, Begins
<1>13. QED
  BY <1>6, <1>8, <1>12

-----------------------------------------------------------------------------
(* The words before the cursor *)

LEMMA ChewOpen ==
    ASSUME NEW mode \in Modes, mode # "gap", NEW text, NEW c, NEW literal
    PROVE  Chew(mode, text, c, literal)[1] # "gap"
BY DEF Chew, Modes, Quotes

\* What a character does to the scan: it is a blank between words, it ends the word
\* under way, or it is part of one.
LEMMA LexStepCases ==
    ASSUME NEW line \in Text, NEW s \in LexState, NEW i \in 1 .. Len(line),
           NEW n, n = LexStep(line, s, i)
    PROVE  \/ s.mode = "gap" /\ line[i] \in White /\ n = s
           \/ /\ s.mode = "word" /\ line[i] \in White /\ n.mode = "gap"
              /\ n.tokens = Append(s.tokens, [text |-> s.text, start |-> s.start, end |-> i - 1])
           \/ /\ ~(s.mode \in {"gap", "word"} /\ line[i] \in White)
              /\ n.mode # "gap" /\ n.tokens = s.tokens
              /\ n.start = IF s.mode = "gap" THEN i - 1 ELSE s.start
<1>1. s = [mode |-> s.mode, text |-> s.text, start |-> s.start, tokens |-> s.tokens]
  BY DEF LexState
<1>2. CASE s.mode = "gap" /\ line[i] \in White
  BY <1>2 DEF LexStep
<1>3. CASE s.mode = "word" /\ line[i] \in White
  <2>1. PICK tok : tok = [text |-> s.text, start |-> s.start, end |-> i - 1]
    OBVIOUS
  <2>2. n = [s EXCEPT !.mode = "gap", !.tokens = Append(s.tokens, tok)]
    BY <1>3, <2>1 DEF LexStep
  <2>3. n.mode = "gap" /\ n.tokens = Append(s.tokens, tok)
    BY <1>1, <2>2
  <2>4. QED
    BY <1>3, <2>1, <2>3
<1>4. CASE ~(s.mode \in {"gap", "word"} /\ line[i] \in White)
  <2>1. PICK mode : mode = IF s.mode = "gap" THEN "word" ELSE s.mode
    OBVIOUS
  <2>2. PICK text : text = IF s.mode = "gap" THEN <<>> ELSE s.text
    OBVIOUS
  <2>3. PICK a : a = IF s.mode = "gap" THEN i - 1 ELSE s.start
    OBVIOUS
  <2>4. PICK lit : lit = (i = Len(line))
    OBVIOUS
  <2>5. PICK next : next = Chew(mode, text, line[i], lit)
    OBVIOUS
  <2>6. n = [s EXCEPT !.mode = next[1], !.text = next[2], !.start = a]
    BY <1>4, <2>1, <2>2, <2>3, <2>4, <2>5 DEF LexStep
  <2>7. n.mode = next[1] /\ n.start = a /\ n.tokens = s.tokens
    BY <1>1, <2>6
  <2>8. mode \in Modes /\ mode # "gap"
    BY <2>1 DEF LexState, Modes
  <2>9. next[1] # "gap"
    BY <2>5, <2>8, ChewOpen
  <2>10. QED
    BY <1>4, <2>3, <2>7, <2>9
<1>5. QED
  BY <1>2, <1>3, <1>4

\* The scan is behind what it has found.
Behind(k, s) ==
    /\ s.mode # "gap" => s.start < k
    /\ \A j \in DOMAIN s.tokens : s.tokens[j].end < k

LEMMA LexBehind ==
    ASSUME NEW line \in Text, NEW L, L = Lexed(line), NEW k \in 0 .. Len(line)
    PROVE  Behind(k, L[k])
<1>1. PICK N \in Nat : N = Len(line)
  BY DEF Text
<1>2. /\ L \in [0 .. N -> LexState] /\ L[0] = LexStart
      /\ \A i \in 1 .. N : L[i] = LexStep(line, L[i - 1], i)
  BY <1>1, LexedFacts
<1> DEFINE bad == {i \in 0 .. N : ~Behind(i, L[i])}
<1>3. SUFFICES ASSUME bad # {} PROVE FALSE
  BY <1>1
<1>4. PICK i \in bad : \A j \in bad : i <= j
  <2>1. bad \in SUBSET Nat
    OBVIOUS
  <2> HIDE DEF bad
  <2>2. QED
    BY <1>3, <2>1, LeastNat
<1>5. i \in 0 .. N /\ ~Behind(i, L[i])
  BY <1>4
<1>6. i # 0
  <2>1. LexStart.mode = "gap" /\ LexStart.tokens = <<>> /\ DOMAIN <<>> = {}
    BY DEF LexStart
  <2>2. QED
    BY <1>2, <1>5, <2>1 DEF Behind
<1>7. i \in 1 .. N /\ i - 1 \in 0 .. N /\ ~(i <= i - 1) /\ i \in Nat
  BY <1>5, <1>6
<1>8. PICK s, n : s = L[i - 1] /\ n = L[i]
  OBVIOUS
<1>9. Behind(i - 1, s)
  BY <1>4, <1>7, <1>8
<1>10. /\ s \in LexState /\ n = LexStep(line, s, i)
       /\ s.start \in Nat /\ s.tokens \in Seq(Token)
  <2>1. s \in LexState /\ n = LexStep(line, s, i)
    BY <1>2, <1>7, <1>8
  <2>2. QED
    BY <2>1 DEF LexState
<1>11. \A j \in DOMAIN s.tokens : s.tokens[j].end < i
  <2>1. \A t \in Token : t.end \in Nat
    BY DEF Token
  <2>2. \A j \in DOMAIN s.tokens : s.tokens[j].end \in Nat
    BY <1>10, <2>1
  <2>3. QED
    BY <1>7, <1>9, <2>2 DEF Behind
<1>12. CASE s.mode = "gap" /\ n = s
  BY <1>5, <1>8, <1>11, <1>12 DEF Behind
<1>13. CASE /\ n.mode = "gap"
            /\ n.tokens = Append(s.tokens, [text |-> s.text, start |-> s.start, end |-> i - 1])
  <2>1. PICK tok : tok = [text |-> s.text, start |-> s.start, end |-> i - 1]
    OBVIOUS
  <2>2. tok \in Token /\ tok.end < i
    <3>1. s.text \in Text /\ i - 1 \in Nat
      BY <1>7, <1>10 DEF LexState
    <3>2. QED
      BY <1>7, <1>10, <2>1, <3>1 DEF Token
  <2>3. /\ DOMAIN n.tokens = 1 .. Len(s.tokens) + 1 /\ n.tokens[Len(s.tokens) + 1] = tok
        /\ Len(s.tokens) \in Nat /\ DOMAIN s.tokens = 1 .. Len(s.tokens)
        /\ \A j \in 1 .. Len(s.tokens) : n.tokens[j] = s.tokens[j]
    BY <1>10, <1>13, <2>1, <2>2
  <2>4. \A j \in DOMAIN n.tokens : j \in DOMAIN s.tokens \/ j = Len(s.tokens) + 1
    BY <2>3
  <2>5. \A j \in DOMAIN n.tokens : n.tokens[j].end < i
    BY <1>11, <2>2, <2>3, <2>4
  <2>6. QED
    BY <1>5, <1>8, <1>13, <2>5 DEF Behind
<1>14. CASE /\ n.mode # "gap" /\ n.tokens = s.tokens
            /\ n.start = IF s.mode = "gap" THEN i - 1 ELSE s.start
  <2>1. n.start < i
    BY <1>7, <1>9, <1>10, <1>14 DEF Behind
  <2>2. QED
    BY <1>5, <1>8, <1>11, <1>14, <2>1 DEF Behind
<1>15. QED
  BY <1>1, <1>7, <1>10, <1>12, <1>13, <1>14, LexStepCases

\* A word began at a behind the tokens ts and goes on behind place c: it is under way, or it
\* is the token that follows ts.
Grown(ts, a, c, e) ==
    \/ e.mode # "gap" /\ e.tokens = ts /\ e.start = a
    \/ /\ Len(e.tokens) > Len(ts) /\ \A j \in 1 .. Len(ts) : e.tokens[j] = ts[j]
       /\ e.tokens[Len(ts) + 1].start = a /\ e.tokens[Len(ts) + 1].end > c

LEMMA GrownStep ==
    ASSUME NEW line \in Text, NEW s \in LexState, NEW i \in 1 .. Len(line),
           NEW n, n = LexStep(line, s, i), NEW ts \in Seq(Token), NEW a \in Nat, NEW c \in Nat,
           c < i - 1, Grown(ts, a, c, s)
    PROVE  Grown(ts, a, c, n)
<1>1. /\ s.tokens \in Seq(Token) /\ s.start \in Nat /\ s.text \in Text
      /\ i \in Nat /\ i - 1 \in Nat /\ Len(ts) \in Nat
  BY DEF LexState
<1>2. CASE n = s
  BY <1>2
<1>3. CASE /\ s.mode = "word"
           /\ n.tokens = Append(s.tokens, [text |-> s.text, start |-> s.start, end |-> i - 1])
  <2>1. PICK tok : tok = [text |-> s.text, start |-> s.start, end |-> i - 1]
    OBVIOUS
  <2>2. tok \in Token /\ tok.start = s.start /\ tok.end = i - 1
    BY <1>1, <2>1 DEF Token
  <2>3. /\ Len(n.tokens) = Len(s.tokens) + 1 /\ n.tokens[Len(s.tokens) + 1] = tok
        /\ Len(s.tokens) \in Nat
        /\ \A j \in 1 .. Len(s.tokens) : n.tokens[j] = s.tokens[j]
    BY <1>1, <1>3, <2>1, <2>2
  <2>4. CASE s.mode # "gap" /\ s.tokens = ts /\ s.start = a
    <3>1. /\ Len(n.tokens) > Len(ts) /\ \A j \in 1 .. Len(ts) : n.tokens[j] = ts[j]
          /\ n.tokens[Len(ts) + 1] = tok /\ tok.start = a /\ tok.end > c
      BY <1>1, <2>2, <2>3, <2>4
    <3>2. QED
      BY <3>1 DEF Grown
  <2>5. CASE /\ Len(s.tokens) > Len(ts) /\ \A j \in 1 .. Len(ts) : s.tokens[j] = ts[j]
             /\ s.tokens[Len(ts) + 1].start = a /\ s.tokens[Len(ts) + 1].end > c
    <3>1. Len(n.tokens) > Len(ts) /\ Len(ts) + 1 \in 1 .. Len(s.tokens)
      BY <1>1, <2>3, <2>5
    <3>2. \A j \in 1 .. Len(ts) : j \in 1 .. Len(s.tokens)
      BY <1>1, <2>3, <2>5
    <3>3. QED
      BY <2>3, <2>5, <3>1, <3>2 DEF Grown
  <2>6. QED
    BY <2>4, <2>5 DEF Grown
<1>4. CASE n.mode # "gap" /\ n.tokens = s.tokens /\ n.start = IF s.mode = "gap" THEN i - 1 ELSE s.start
  BY <1>4 DEF Grown
<1>5. QED
  BY <1>2, <1>3, <1>4, LexStepCases

LEMMA LexGrows ==
    ASSUME NEW line \in Text, NEW L, L = Lexed(line), NEW c \in Nat, c < Len(line),
           NEW ts \in Seq(Token), NEW a \in Nat, Grown(ts, a, c, L[c + 1])
    PROVE  Grown(ts, a, c, L[Len(line)])
<1>1. PICK N \in Nat : N = Len(line)
  BY DEF Text
<1>2. /\ L \in [0 .. N -> LexState]
      /\ \A i \in 1 .. N : L[i] = LexStep(line, L[i - 1], i)
  BY <1>1, LexedFacts
<1> DEFINE bad == {i \in c + 1 .. N : ~Grown(ts, a, c, L[i])}
<1>3. SUFFICES ASSUME bad # {} PROVE FALSE
  <2>1. N \in c + 1 .. N
    BY <1>1
  <2>2. QED
    BY <1>1, <2>1
<1>4. PICK i \in bad : \A j \in bad : i <= j
  <2>1. bad \in SUBSET Nat
    OBVIOUS
  <2> HIDE DEF bad
  <2>2. QED
    BY <1>3, <2>1, LeastNat
<1>5. i \in c + 1 .. N /\ ~Grown(ts, a, c, L[i])
  BY <1>4
<1>6. i # c + 1
  BY <1>5
<1>7. /\ i \in 1 .. N /\ i - 1 \in c + 1 .. N /\ i - 1 \in 0 .. N /\ ~(i <= i - 1) /\ c < i - 1
  BY <1>5, <1>6
<1>8. Grown(ts, a, c, L[i - 1])
  BY <1>4, <1>7
<1>9. L[i - 1] \in LexState /\ L[i] = LexStep(line, L[i - 1], i)
  BY <1>2, <1>7
<1>10. QED
  BY <1>1, <1>5, <1>7, <1>8, <1>9, GrownStep

\* The cursor is in blanks, or at the end of a word before a blank.
AtBlank(line, c, s) == c < Len(line) /\ line[c + 1] \in White /\ s.mode \in {"gap", "word"}

\* The tokens of a line are the ones complete before the cursor and, unless the line ends
\* there, the one the cursor edits.
CutAt(line, c, ts, tokens) ==
    /\ Len(ts) <= Len(tokens) /\ \A j \in 1 .. Len(ts) : tokens[j] = ts[j] /\ ts[j].end < c
    /\ Len(tokens) = Len(ts) \/ Edits(line, c, tokens[Len(ts) + 1])

LEMMA LexCut ==
    ASSUME NEW line \in Text, NEW c \in 0 .. Len(line), NEW s, s = Lexed(line)[c],
           ~AtBlank(line, c, s)
    PROVE  s.tokens \in Seq(Token) /\ CutAt(line, c, s.tokens, lex(line))
<1>1. PICK N \in Nat : N = Len(line)
  BY DEF Text
<1>2. PICK L : L = Lexed(line)
  OBVIOUS
<1>3. /\ L \in [0 .. N -> LexState]
      /\ \A i \in 1 .. N : L[i] = LexStep(line, L[i - 1], i)
  BY <1>1, <1>2, LexedFacts
<1>4. PICK e : e = L[N]
  OBVIOUS
<1>5. s = L[c] /\ s \in LexState /\ e \in LexState /\ Behind(c, s) /\ Behind(N, e) /\ c \in Nat
  <2>1. N \in 0 .. N /\ c \in 0 .. N
    BY <1>1
  <2>2. QED
    BY <1>1, <1>2, <1>3, <1>4, <2>1, LexBehind
<1>6. PICK ts : ts = s.tokens
  OBVIOUS
<1>7. /\ ts \in Seq(Token) /\ s.start \in Nat /\ Len(ts) \in Nat /\ DOMAIN ts = 1 .. Len(ts)
      /\ e.tokens \in Seq(Token) /\ e.start \in Nat /\ e.text \in Text /\ Len(e.tokens) \in Nat
  BY <1>5, <1>6 DEF LexState
<1>8. \A j \in 1 .. Len(ts) : ts[j].end < c
  BY <1>5, <1>6, <1>7 DEF Behind
<1>9. PICK tok : tok = [text |-> e.text, start |-> e.start, end |-> N]
  OBVIOUS
<1>10. PICK tokens : tokens = lex(line)
  OBVIOUS
<1>11. tokens = IF e.mode = "gap" THEN e.tokens ELSE Append(e.tokens, tok)
  BY <1>1, <1>2, <1>4, <1>9, <1>10 DEF lex
<1>12. e.mode # "gap" =>
         /\ Len(tokens) = Len(e.tokens) + 1 /\ tokens[Len(e.tokens) + 1] = tok
         /\ \A j \in 1 .. Len(e.tokens) : tokens[j] = e.tokens[j]
  <2>1. tok \in Token
    BY <1>7, <1>9 DEF Token
  <2>2. QED
    BY <1>7, <1>11, <2>1
<1>13. tok.start = e.start /\ tok.end = N
  BY <1>9
<1>14. CASE c = N
  <2>1. e = s /\ e.tokens = ts
    BY <1>4, <1>5, <1>6, <1>14
  <2>2. CASE e.mode = "gap"
    BY <1>8, <1>11, <2>1, <2>2, <1>6, <1>7, <1>10 DEF CutAt
  <2>3. CASE e.mode # "gap"
    <3>1. e.start < c
      BY <1>5, <2>1, <2>3 DEF Behind
    <3>2. Edits(line, c, tok)
      BY <1>1, <1>5, <1>7, <1>13, <1>14, <3>1 DEF Edits
    <3>3. Len(ts) <= Len(tokens) /\ tokens[Len(ts) + 1] = tok
      BY <1>7, <1>12, <2>1, <2>3
    <3>4. QED
      BY <1>6, <1>7, <1>8, <1>10, <1>12, <2>1, <2>3, <3>2, <3>3 DEF CutAt
  <2>4. QED
    BY <2>2, <2>3
<1>15. CASE c # N
  <2>1. c < N /\ c + 1 \in 1 .. N /\ c + 1 \in Nat /\ c + 1 - 1 = c
    BY <1>1, <1>15
  <2>2. L[c + 1] = LexStep(line, s, c + 1)
    BY <1>3, <1>5, <2>1
  <2>3. PICK a : a = IF s.mode = "gap" THEN c ELSE s.start
    OBVIOUS
  <2>4. a \in Nat /\ a <= c
    BY <1>5, <1>7, <2>3 DEF Behind
  <2>5. L[c + 1].mode # "gap" /\ L[c + 1].tokens = ts /\ L[c + 1].start = a
    <3>1. PICK i : i = c + 1
      OBVIOUS
    <3>2. i \in 1 .. Len(line) /\ L[i] = LexStep(line, s, i) /\ i - 1 = c
      BY <1>1, <2>1, <2>2, <3>1
    <3>3. ~(s.mode \in {"gap", "word"} /\ line[i] \in White)
      BY <1>1, <2>1, <3>1 DEF AtBlank
    <3>4. \/ s.mode = "gap" /\ line[i] \in White /\ L[i] = s
          \/ /\ s.mode = "word" /\ line[i] \in White /\ L[i].mode = "gap"
             /\ L[i].tokens = Append(s.tokens, [text |-> s.text, start |-> s.start, end |-> i - 1])
          \/ /\ ~(s.mode \in {"gap", "word"} /\ line[i] \in White)
             /\ L[i].mode # "gap" /\ L[i].tokens = s.tokens
             /\ L[i].start = IF s.mode = "gap" THEN i - 1 ELSE s.start
      BY <1>5, <3>2, LexStepCases
    <3>5. QED
      BY <1>6, <2>3, <3>1, <3>2, <3>3, <3>4
  <2>6. Grown(ts, a, c, e)
    <3>1. Grown(ts, a, c, L[c + 1])
      BY <2>5 DEF Grown
    <3>2. QED
      BY <1>1, <1>2, <1>4, <1>5, <1>7, <2>1, <2>4, <3>1, LexGrows
  <2>7. /\ Len(tokens) > Len(ts) /\ \A j \in 1 .. Len(ts) : tokens[j] = ts[j]
        /\ tokens[Len(ts) + 1].start = a /\ tokens[Len(ts) + 1].end > c
    <3>1. CASE e.mode # "gap" /\ e.tokens = ts /\ e.start = a
      BY <1>7, <1>12, <1>13, <2>1, <3>1
    <3>2. CASE /\ Len(e.tokens) > Len(ts) /\ \A j \in 1 .. Len(ts) : e.tokens[j] = ts[j]
               /\ e.tokens[Len(ts) + 1].start = a /\ e.tokens[Len(ts) + 1].end > c
      <4>1. \A j \in 1 .. Len(ts) + 1 : j \in 1 .. Len(e.tokens)
        BY <1>7, <3>2
      <4>2. Len(tokens) > Len(ts) /\ \A j \in 1 .. Len(e.tokens) : tokens[j] = e.tokens[j]
        BY <1>7, <1>11, <1>12, <3>2
      <4>3. Len(ts) + 1 \in 1 .. Len(ts) + 1
            /\ \A j \in 1 .. Len(ts) : j \in 1 .. Len(ts) + 1
        BY <1>7
      <4>4. QED
        BY <3>2, <4>1, <4>2, <4>3
    <3>3. QED
      BY <2>6, <3>1, <3>2 DEF Grown
  <2>8. tokens \in Seq(Token)
    BY <1>10, LexType
  <2>9. Edits(line, c, tokens[Len(ts) + 1])
    BY <2>4, <2>7 DEF Edits
  <2>10. Len(ts) <= Len(tokens)
    BY <1>7, <2>7, <2>8
  <2>11. QED
    BY <1>6, <1>7, <1>8, <1>10, <2>7, <2>9, <2>10 DEF CutAt
<1>16. QED
  BY <1>14, <1>15

LEMMA TokenizeCommits ==
    ASSUME NEW line \in Text, NEW at \in Nat, NEW list, list = tokenize(line, at),
           NEW s, s = Lexed(line)[list.cursor], ~AtBlank(line, list.cursor, s)
    PROVE  list.line = line /\ committed(list) = s.tokens
<1> DEFINE cursor0 == clamp_cursor(line, at)
           tokens == lex(line)
           edited == {i \in DOMAIN tokens : Edits(line, cursor0, tokens[i])}
           i == CHOOSE k \in edited : \A j \in edited : k <= j
<1>1. Len(line) \in Nat /\ cursor0 \in 0 .. Len(line) /\ cursor0 \in Nat
  BY DEF clamp_cursor, Text
<1>2. tokens \in Seq(Token)
  BY LexType
<1> HIDE DEF cursor0
<1>3. PICK c, ts : c = cursor0 /\ ts = s.tokens
  OBVIOUS
<1>4. /\ list.line = line /\ list.cursor = c /\ list.tokens = tokens
      /\ edited = {} => list.cursor_token = 0
      /\ edited # {} => list.cursor_token = i
  BY <1>3 DEF tokenize, cursor0
<1>5. ts \in Seq(Token) /\ CutAt(line, c, ts, tokens) /\ c \in Nat
  BY <1>1, <1>3, <1>4, LexCut
<1> HIDE DEF tokens
<1>6. Len(ts) \in Nat /\ Len(tokens) \in Nat /\ DOMAIN tokens = 1 .. Len(tokens)
  BY <1>2, <1>5
<1>7. \A j \in 1 .. Len(ts) : j \notin edited
  <2>1. SUFFICES ASSUME NEW j \in 1 .. Len(ts), Edits(line, c, tokens[j]) PROVE FALSE
    BY <1>3
  <2>2. tokens[j] = ts[j] /\ ts[j].end < c
    BY <1>5 DEF CutAt
  <2>3. ts[j].end \in Nat
    <3>1. ts[j] \in Token
      BY <1>5
    <3>2. QED
      BY <3>1 DEF Token
  <2>4. QED
    BY <1>5, <2>1, <2>2, <2>3 DEF Edits
<1>8. CASE edited = {}
  <2>1. Len(tokens) = Len(ts)
    <3>1. SUFFICES ASSUME Len(tokens) # Len(ts) PROVE FALSE
      OBVIOUS
    <3>2. Len(ts) + 1 \in DOMAIN tokens /\ Edits(line, c, tokens[Len(ts) + 1])
      BY <1>5, <1>6, <3>1 DEF CutAt
    <3>3. QED
      BY <1>3, <1>8, <3>2
  <2>2. tokens = ts
    BY <1>2, <1>5, <2>1, SameSeq DEF CutAt
  <2>3. QED
    BY <1>3, <1>4, <1>8, <2>2 DEF committed
<1>9. CASE edited # {}
  <2>1. edited \in SUBSET Nat /\ edited \subseteq 1 .. Len(tokens)
    BY <1>6
  <2>2. i \in edited /\ \A j \in edited : i <= j
    <3> HIDE DEF edited
    <3>1. QED
      BY <1>9, <2>1, LeastNat
  <2>3. i \in 1 .. Len(tokens) /\ i \notin 1 .. Len(ts)
    <3> HIDE DEF i, edited
    <3>1. QED
      BY <1>7, <2>1, <2>2
  <2>4. Len(tokens) # Len(ts)
    <3> HIDE DEF i, edited
    <3>1. QED
      BY <2>3
  <2>5. Len(ts) + 1 \in edited
    BY <1>3, <1>5, <1>6, <2>4 DEF CutAt
  <2>6. i = Len(ts) + 1
    <3> HIDE DEF i, edited
    <3>1. QED
      BY <1>6, <2>2, <2>3, <2>5
  <2>7. list.cursor_token = Len(ts) + 1
    <3> HIDE DEF i, edited
    <3>1. QED
      BY <1>4, <1>9, <2>6
  <2>8. committed(list) = SubSeq(tokens, 1, Len(ts))
    <3>1. Len(ts) + 1 # 0 /\ Len(ts) + 1 - 1 = Len(ts)
      BY <1>6
    <3>2. QED
      BY <1>4, <2>7, <3>1 DEF committed
  <2>9. SubSeq(tokens, 1, Len(ts)) = ts
    <3>1. PICK p : p = SubSeq(tokens, 1, Len(ts))
      OBVIOUS
    <3>2. 1 \in Nat /\ 1 <= Len(ts) + 1 /\ Len(ts) <= Len(tokens) /\ Len(ts) + 1 - 1 = Len(ts)
      BY <1>5, <1>6 DEF CutAt
    <3>3. /\ p \in Seq(Token) /\ Len(p) = Len(ts) + 1 - 1
          /\ \A j \in 1 .. Len(ts) + 1 - 1 : p[j] = tokens[1 + j - 1]
      BY <1>2, <1>6, <3>1, <3>2, PartType
    <3>4. \A j \in 1 .. Len(ts) : p[j] = ts[j]
      <4>1. \A j \in 1 .. Len(ts) : 1 + j - 1 = j
        OBVIOUS
      <4>2. QED
        BY <1>5, <3>2, <3>3, <4>1 DEF CutAt
    <3>5. QED
      BY <1>5, <3>1, <3>2, <3>3, <3>4, SameSeq
  <2>10. QED
    BY <1>3, <1>4, <2>8, <2>9
<1>10. QED
  BY <1>8, <1>9

-----------------------------------------------------------------------------
(* The invariant *)

\* The types besides those of the walk.
PhaseType ==
    /\ phase \in {"idle", "walk", "collect", "rank", "done"}
    /\ typed \in Lines /\ words \in Seq(Text) /\ cursor \in CursorType
    /\ candidates \in Seq(Offer) /\ items \in Seq(Offer) /\ Len(items) <= TopN

LEMMA TypeParts == TypeOK <=> PhaseType /\ WalkType
BY Zenon DEF TypeOK, PhaseType, WalkType, Lines, CursorType

Inv == PhaseType /\ WalkType /\ ScopeSound /\ StageInv

\* What an offered option satisfies.
OfferSound(c) ==
    c.of # None => Compatible(c.of) /\ ~(Directed("optionsFirst") /\ positional_started)

\* What the spec and the file system offer for the argument at the cursor is there.
OwnIn == AtArgument => ToSet(own_candidates(CursorArg)) \subseteq ToSet(candidates)

LEMMA StageParts ==
    StageInv <=>
      /\ phase \in {"idle", "walk", "collect"} => candidates = <<>>
      /\ phase = "collect" => CursorSound
      /\ phase # "done" \/ candidates = <<>> => items = <<>>
      /\ phase = "done" /\ candidates # <<>> => items = rank_top_n(candidates, effective_query)
      /\ \A k \in DOMAIN candidates : OfferSound(candidates[k])
      /\ phase = "idle" => cursor.kind = "Empty"
      /\ phase \in {"rank", "done"} => OwnIn
BY Zenon DEF StageInv, OfferSound, OwnIn

OffersSound == \A k \in DOMAIN candidates : OfferSound(candidates[k])

LEMMA StageMade ==
    (/\ phase \in {"idle", "walk", "collect"} => candidates = <<>>
     /\ phase = "collect" => CursorSound
     /\ phase # "done" \/ candidates = <<>> => items = <<>>
     /\ phase = "done" /\ candidates # <<>> =>
          items = rank_top_n(candidates, effective_query)
     /\ OffersSound
     /\ phase = "idle" => cursor.kind = "Empty"
     /\ phase \in {"rank", "done"} => OwnIn) => StageInv
BY StageParts DEF OffersSound

\* No candidates, no items, and no cursor yet unless words are still to be consumed.
Idle ==
    /\ candidates = <<>> /\ items = <<>> /\ phase # "collect"
    /\ phase = "walk" \/ cursor.kind = "Empty"

LEMMA NothingYet == Idle => StageInv
<1> SUFFICES ASSUME candidates = <<>>, items = <<>>, phase # "collect",
                    phase = "walk" \/ cursor.kind = "Empty"
             PROVE  StageInv
  BY DEF Idle
<1>1. DOMAIN candidates = {}
  OBVIOUS
<1>2. phase \in {"rank", "done"} => OwnIn
  BY DEF OwnIn, AtArgument
<1>3. QED
  BY <1>1, <1>2, StageParts

Ranking == phase = "rank" /\ items = <<>> /\ OffersSound /\ OwnIn

LEMMA RankingStage == Ranking => StageInv
BY StageParts DEF Ranking, OffersSound

AfterRank ==
    /\ PhaseType /\ OffersSound /\ OwnIn
    /\ phase = "done" /\ items = rank_top_n(candidates, effective_query)

LEMMA RankedStage == AfterRank => StageInv
<1> SUFFICES ASSUME AfterRank PROVE StageInv
  OBVIOUS
<1>1. PICK q : q = effective_query
  OBVIOUS
<1>2. q \in Text /\ candidates \in Seq(Offer)
  BY <1>1, EffectiveQuery DEF AfterRank, PhaseType
<1>3. \A k \in DOMAIN items : items[k] \in ToSet(candidates)
  BY <1>1, <1>2, RankFacts DEF AfterRank
<1>4. candidates = <<>> => items = <<>>
  <2>1. candidates = <<>> => ToSet(candidates) = {}
    BY DEF ToSet
  <2>2. ToSet(candidates) = {} => DOMAIN items = {}
    BY <1>3
  <2>3. items \in Seq(Offer)
    BY DEF AfterRank, PhaseType
  <2>4. DOMAIN items = {} => items = <<>>
    BY <2>3
  <2>5. QED
    BY <2>1, <2>2, <2>4
<1>5. QED
  BY <1>4, StageParts DEF AfterRank, OffersSound

LEMMA InitInv ==
    ASSUME Init
    PROVE  Inv
<1>1. WalkType /\ ScopeSound
  BY FreshSound DEF FreshParse, Init
<1>2. /\ phase = "idle" /\ typed = Untyped /\ words = <<>> /\ cursor = Cursor("Empty", None)
      /\ candidates = <<>> /\ items = <<>>
  BY DEF Init
<1>3. Untyped \in Lines
  BY DEF Untyped, Lines, Text
<1>4. Cursor("Empty", None) \in CursorType
  BY DEF Cursor, CursorType, CursorKinds
<1>5. TopN \in Nat
  BY CompleteAssumption
<1>6. PhaseType
  BY <1>2, <1>3, <1>4, <1>5 DEF PhaseType
<1>7. StageInv
  BY <1>2, NothingYet DEF Idle, Cursor
<1>8. QED
  BY <1>1, <1>6, <1>7 DEF Inv

\* A word is consumed.
LEMMA WordStep ==
    ASSUME Inv, phase = "walk", words # <<>>, words' = Tail(words),
           UNCHANGED <<phase, typed, cursor, candidates, items>>, WalkType', ScopeSound'
    PROVE  Inv'
<1>1. PhaseType /\ StageInv
  BY DEF Inv
<1>2. candidates = <<>> /\ items = <<>>
  BY <1>1 DEF StageInv
<1>3. Idle'
  BY <1>2 DEF Idle
<1>4. StageInv'
  BY <1>3, NothingYet, PTL
<1>5. Tail(words) \in Seq(Text)
  BY <1>1 DEF PhaseType
<1>6. PhaseType'
  BY <1>1, <1>5 DEF PhaseType
<1>7. QED
  BY <1>4, <1>6 DEF Inv

LEMMA RequestStep ==
    ASSUME Inv, phase = "idle", NEW line \in Text, NEW at \in Nat, Request(line, at)
    PROVE  Inv'
<1>1. PICK list : list = tokenize(line, at)
  OBVIOUS
<1>2. PICK ts : ts = committed(list)
  OBVIOUS
<1>3. PICK text : text = [i \in DOMAIN ts |-> ts[i].text]
  OBVIOUS
<1>4. /\ phase' = "walk" /\ typed' = list /\ NewParse
      /\ words' = IF text = <<>> THEN <<>> ELSE Tail(text)
      /\ UNCHANGED <<cursor, candidates, items>>
  BY <1>1, <1>2, <1>3 DEF Request
<1>5. WalkType' /\ ScopeSound'
  BY <1>4, NewParseSound
<1>6. PhaseType /\ candidates = <<>> /\ items = <<>>
  BY DEF Inv, StageInv
<1>7. words' \in Seq(Text)
  BY <1>1, <1>2, <1>3, <1>4, CommittedWords
<1>8. list \in Lines
  BY <1>1, TokenizeType
<1>9. PhaseType'
  BY <1>4, <1>6, <1>7, <1>8 DEF PhaseType
<1>10. Idle'
  BY <1>4, <1>6 DEF Idle
<1>11. StageInv'
  BY <1>10, NothingYet, PTL
<1>12. QED
  BY <1>5, <1>9, <1>11 DEF Inv

LEMMA UnknownStep ==
    ASSUME Inv, phase = "idle", NEW line, RequestUnknown(line)
    PROVE  Inv'
<1>1. phase' = "done" /\ UNCHANGED <<typed, words, walkVars, cursor, candidates, items>>
  BY DEF RequestUnknown
<1>2. WalkType' /\ ScopeSound'
  BY <1>1, ScopeFrame DEF Inv, walkVars, WalkType
<1>3. PhaseType /\ candidates = <<>> /\ items = <<>> /\ cursor.kind = "Empty"
  BY DEF Inv, StageInv
<1>4. PhaseType'
  BY <1>1, <1>3 DEF PhaseType
<1>5. Idle'
  BY <1>1, <1>3 DEF Idle
<1>6. StageInv'
  BY <1>5, NothingYet, PTL
<1>7. QED
  BY <1>2, <1>4, <1>6 DEF Inv

LEMMA ClassifyStep ==
    ASSUME Inv, Classify
    PROVE  Inv'
<1>1. /\ phase = "walk" /\ phase' = "collect" /\ cursor' = classify_cursor
      /\ UNCHANGED <<typed, words, walkVars, candidates, items>>
  BY DEF Classify
<1>2. WalkType' /\ ScopeSound'
  BY <1>1, ScopeFrame DEF Inv, walkVars, WalkType
<1>3. PhaseType /\ candidates = <<>> /\ items = <<>> /\ WalkType /\ ScopeSound
  BY <1>1 DEF Inv, StageInv
<1>4. PICK c : c = classify_cursor
  OBVIOUS
<1>5. /\ c \in CursorType
      /\ c.kind \in {"Subcommand", "Option"} => ~(Directed("optionsFirst") /\ positional_started)
      /\ c.kind = "OptionArgument" => c.of \in Opt /\ c.of.args # <<>>
      /\ c.kind = "CommandArgument" => c.of \in Arg
  BY <1>3, <1>4, ClassifyFacts
<1>6. cursor' = c /\ positional_started' = positional_started /\ path' = path
  BY <1>1, <1>4 DEF walkVars
<1>7. Directed("optionsFirst")' <=> Directed("optionsFirst")
  BY <1>6, DirectedFrame
<1>8. CursorSound'
  BY <1>5, <1>6, <1>7 DEF CursorSound
<1>9. PhaseType'
  BY <1>1, <1>3, <1>5, <1>6 DEF PhaseType
<1>10. DOMAIN candidates' = {} /\ candidates' = <<>> /\ items' = <<>>
  BY <1>1, <1>3
<1>11. StageInv'
  BY <1>1, <1>8, <1>10 DEF StageInv
<1>12. QED
  BY <1>2, <1>9, <1>11 DEF Inv

LEMMA OfferFrame ==
    ASSUME UNCHANGED walkVars, NEW c
    PROVE  OfferSound(c)' <=> OfferSound(c)
<1>1. path' = path /\ uses' = uses /\ positional_started' = positional_started
  BY DEF walkVars
<1>2. Directed("optionsFirst")' <=> Directed("optionsFirst")
  BY <1>1, DirectedFrame
<1>3. DeclaredOnPath(c.of)' <=> DeclaredOnPath(c.of)
  BY <1>1 DEF DeclaredOnPath
<1>4. Active' = Active
  BY <1>1 DEF Active
<1>5. Compatible(c.of)' <=> Compatible(c.of)
  <2>1. Times(c.of)' = Times(c.of)
    BY <1>1 DEF Times
  <2>2. CountLost(c.of)' <=> CountLost(c.of)
    BY <2>1 DEF CountLost
  <2>3. QED
    BY <1>1, <1>3, <1>4, <2>1, <2>2 DEF Compatible
<1>6. QED
  BY <1>1, <1>2, <1>5 DEF OfferSound

\* Steps that leave the argument at the cursor and the query alone.
LEMMA OwnFrame ==
    ASSUME UNCHANGED <<typed, cursor>>
    PROVE  /\ AtArgument' <=> AtArgument
           /\ own_candidates(CursorArg)' = own_candidates(CursorArg)
<1>1. effective_query' = effective_query
  BY DEF effective_query, Query
<1>2. CursorArg' = CursorArg
  BY DEF CursorArg
<1>3. own_candidates(CursorArg)' = own_candidates(CursorArg)
  <2> DEFINE F(arg, q) ==
               Each(arg.suggestions, LAMBDA s :
                   Candidate(s.insert, s.name, s.priority, s.hidden, None))
               \o (IF arg.template \in {"filepaths", "folders"}
                   THEN list_entries(q, arg.template = "folders") ELSE <<>>)
  <2>1. /\ own_candidates(CursorArg) = F(CursorArg, effective_query)
        /\ own_candidates(CursorArg)' = F(CursorArg', effective_query')
    BY DEF own_candidates, Each
  <2> HIDE DEF F
  <2>2. QED
    BY <1>1, <1>2, <2>1
<1>4. QED
  BY <1>3 DEF AtArgument

LEMMA CollectStep ==
    ASSUME Inv, Collect
    PROVE  Inv'
<1>1. phase = "collect" /\ phase' = "rank" /\ UNCHANGED <<typed, words, walkVars, cursor, items>>
  BY DEF Collect
<1>2. WalkType' /\ ScopeSound'
  BY <1>1, ScopeFrame DEF Inv, walkVars, WalkType
<1>3. PhaseType /\ items = <<>> /\ WalkType /\ ScopeSound /\ CursorSound
  BY <1>1 DEF Inv, StageInv
<1>4. \A c \in PlainOffer : OfferSound(c)
  BY DEF PlainOffer, OfferSound
<1>5. ~(Directed("optionsFirst") /\ positional_started) => \A c \in OptionOffer : OfferSound(c)
  BY DEF OptionOffer, OfferSound
<1>6. option_candidates \in Seq(Offer) /\ ToSet(option_candidates) \subseteq OptionOffer
  BY <1>3, OptionOffers
<1>7. /\ candidates' \in Seq(Offer) /\ \A c \in ToSet(candidates') : OfferSound(c)
      /\ AtArgument => ToSet(own_candidates(CursorArg)) \subseteq ToSet(candidates')
  <2>1. CASE cursor.kind = "Subcommand" /\ candidates' = subcommand_candidates \o option_candidates
    <3>1. /\ subcommand_candidates \in Seq(Offer)
          /\ ToSet(subcommand_candidates) \subseteq PlainOffer
      BY <1>3, SubcommandOffers
    <3>2. PICK a, b : a = subcommand_candidates /\ b = option_candidates
      OBVIOUS
    <3>3. a \o b \in Seq(Offer) /\ ToSet(a \o b) = ToSet(a) \cup ToSet(b)
      BY <1>6, <3>1, <3>2, ConcatSet
    <3>4. ~(Directed("optionsFirst") /\ positional_started)
      BY <1>3, <2>1 DEF CursorSound
    <3>5. candidates' = a \o b
      BY <2>1, <3>2
    <3>6. QED
      BY <1>4, <1>5, <1>6, <2>1, <3>1, <3>2, <3>3, <3>4, <3>5 DEF AtArgument
  <2>2. CASE cursor.kind = "Option" /\ candidates' = option_candidates
    <3>1. ~(Directed("optionsFirst") /\ positional_started)
      BY <1>3, <2>2 DEF CursorSound
    <3>2. QED
      BY <1>5, <1>6, <2>2, <3>1 DEF AtArgument
  <2>3. CASE /\ cursor.kind \in {"OptionArgument", "CommandArgument"}
             /\ \E values \in Generated(CursorArg) :
                  candidates' = arg_candidates(CursorArg, values)
    <3>1. PICK arg : arg = CursorArg
      OBVIOUS
    <3>2. arg \in Arg
      <4>1. CASE cursor.kind = "OptionArgument"
        <5>1. PICK o : o = cursor.of
          OBVIOUS
        <5>2. o \in Opt /\ o.args # <<>>
          BY <1>3, <4>1, <5>1 DEF CursorSound
        <5>3. o.args \in Seq(Arg)
          BY <5>2, OptFacts
        <5>4. o.args[1] \in Arg
          BY <5>2, <5>3
        <5>5. QED
          BY <3>1, <4>1, <5>1, <5>4 DEF CursorArg
      <4>2. CASE cursor.kind = "CommandArgument"
        BY <1>3, <3>1, <4>2 DEF CursorArg, CursorSound
      <4>3. QED
        BY <2>3, <4>1, <4>2
    <3>3. PICK values \in Generated(arg) : candidates' = arg_candidates(arg, values)
      BY <2>3, <3>1
    <3>4. values \in Seq(Text)
      <4>1. arg.generator \in DOMAIN Produces \cup {None}
        BY <3>2 DEF Arg
      <4>2. \A g \in DOMAIN Produces : Produces[g] \subseteq Seq(Text)
        BY CompleteAssumption
      <4>3. <<>> \in Seq(Text)
        OBVIOUS
      <4>4. QED
        BY <4>1, <4>2, <4>3 DEF Generated
    <3>5. /\ candidates' \in Seq(PlainOffer)
          /\ ToSet(own_candidates(arg)) \subseteq ToSet(candidates')
      BY <1>3, <3>2, <3>3, <3>4, ArgOffers DEF PhaseType
    <3>6. ToSet(candidates') \subseteq PlainOffer
      BY <3>5 DEF ToSet
    <3>7. candidates' \in Seq(Offer)
      BY <3>5 DEF PlainOffer
    <3>8. QED
      BY <1>4, <3>1, <3>5, <3>6, <3>7
  <2>4. CASE cursor.kind = "Empty" /\ candidates' = <<>>
    BY <2>4 DEF ToSet, AtArgument
  <2>5. QED
    BY <2>1, <2>2, <2>3, <2>4 DEF Collect
<1>8. OffersSound'
  <2>1. \A c \in ToSet(candidates') : OfferSound(c)'
    BY <1>1, <1>7, OfferFrame
  <2>2. (\A c \in ToSet(candidates) : OfferSound(c))' => OffersSound'
    BY DEF ToSet, OfferSound, OffersSound
  <2>3. QED
    BY <2>1, <2>2
<1>9. PhaseType'
  BY <1>1, <1>3, <1>7 DEF PhaseType
<1>10. StageInv'
  <2>0. OwnIn'
    BY <1>1, <1>7, OwnFrame DEF OwnIn
  <2>1. Ranking'
    BY <1>1, <1>3, <1>8, <2>0 DEF Ranking
  <2>2. QED
    BY <2>1, RankingStage, PTL
<1>11. QED
  BY <1>2, <1>9, <1>10 DEF Inv

LEMMA RankStep ==
    ASSUME Inv, Rank
    PROVE  Inv'
<1>1. /\ phase = "rank" /\ phase' = "done" /\ items' = rank_top_n(candidates, effective_query)
      /\ UNCHANGED <<typed, words, walkVars, cursor, candidates>>
  BY DEF Rank
<1>2. WalkType' /\ ScopeSound'
  BY <1>1, ScopeFrame DEF Inv, walkVars, WalkType
<1>3. PhaseType /\ OffersSound /\ OwnIn
  BY <1>1, StageParts DEF Inv, OffersSound
<1>4. PICK q : q = effective_query
  OBVIOUS
<1>5. effective_query' = effective_query
  BY <1>1 DEF effective_query, Query
<1>6. items' \in Seq(Offer) /\ Len(items') <= TopN
  <2>1. q \in Text /\ candidates \in Seq(Offer)
    BY <1>3, <1>4, EffectiveQuery DEF PhaseType
  <2>2. QED
    BY <1>1, <1>4, <2>1, RankFacts
<1>7. PhaseType'
  BY <1>1, <1>3, <1>6 DEF PhaseType
<1>8. OffersSound'
  <2>1. \A k \in DOMAIN candidates : OfferSound(candidates[k])
    BY <1>3 DEF OffersSound
  <2>2. \A c \in ToSet(candidates) : OfferSound(c)
    BY <2>1 DEF ToSet
  <2>3. candidates' = candidates
    BY <1>1
  <2>4. \A c \in ToSet(candidates') : OfferSound(c)'
    BY <1>1, <2>2, <2>3, OfferFrame
  <2>5. (\A c \in ToSet(candidates) : OfferSound(c))' => OffersSound'
    BY DEF ToSet, OfferSound, OffersSound
  <2>6. QED
    BY <2>4, <2>5
<1>9. AfterRank'
  <2>1. OwnIn'
    BY <1>1, <1>3, OwnFrame DEF OwnIn
  <2>2. QED
    BY <1>1, <1>5, <1>7, <1>8, <2>1 DEF AfterRank
<1>10. StageInv'
  BY <1>9, RankedStage, PTL
<1>11. QED
  BY <1>2, <1>7, <1>10 DEF Inv

LEMMA RespondStep ==
    ASSUME Inv, Respond
    PROVE  Inv'
<1>1. /\ phase' = "idle" /\ typed' = Untyped /\ words' = <<>> /\ NewParse
      /\ cursor' = Cursor("Empty", None) /\ candidates' = <<>> /\ items' = <<>>
  BY DEF Respond
<1>2. WalkType' /\ ScopeSound'
  BY <1>1, NewParseSound
<1>3. Untyped \in Lines
  BY DEF Untyped, Lines, Text
<1>4. Cursor("Empty", None) \in CursorType
  BY DEF Cursor, CursorType, CursorKinds
<1>5. TopN \in Nat
  BY CompleteAssumption
<1>6. PhaseType'
  BY <1>1, <1>3, <1>4, <1>5 DEF PhaseType
<1>7. Idle'
  BY <1>1 DEF Idle, Cursor
<1>8. StageInv'
  BY <1>7, NothingYet, PTL
<1>9. QED
  BY <1>2, <1>6, <1>8 DEF Inv

LEMMA NextInv == Inv /\ [Next]_vars => Inv'
<1> SUFFICES ASSUME Inv, [Next]_vars PROVE Inv'
  OBVIOUS
<1>0. WalkType /\ ScopeSound /\ words \in Seq(Text)
  BY DEF Inv, PhaseType
<1>1. CASE UNCHANGED vars
  <2>1. WalkType' /\ ScopeSound'
    BY <1>0, <1>1, ScopeFrame DEF vars, walkVars, WalkType
  <2>2. PhaseType'
    BY <1>1 DEF Inv, PhaseType, vars
  <2>3. StageInv'
    <3>1. StageInv /\ UNCHANGED <<phase, typed, cursor, candidates, items, walkVars>>
      BY <1>1 DEF Inv, vars
    <3>2. effective_query' = effective_query
      BY <3>1 DEF effective_query, Query
    <3>3. OffersSound'
      <4>1. \A k \in DOMAIN candidates : OfferSound(candidates[k])
        BY <3>1, StageParts
      <4>2. \A c \in ToSet(candidates) : OfferSound(c)
        BY <4>1 DEF ToSet
      <4>3. \A c \in ToSet(candidates') : OfferSound(c)'
        BY <3>1, <4>2, OfferFrame
      <4>4. (\A c \in ToSet(candidates) : OfferSound(c))' => OffersSound'
        BY DEF ToSet, OfferSound, OffersSound
      <4>5. QED
        BY <4>3, <4>4
    <3>4. CursorSound' <=> CursorSound
      <4>1. path' = path
        BY <3>1 DEF walkVars
      <4>2. Directed("optionsFirst")' <=> Directed("optionsFirst")
        BY <4>1, DirectedFrame
      <4>3. QED
        BY <3>1, <4>2 DEF CursorSound, walkVars
    <3>5. /\ phase \in {"idle", "walk", "collect"} => candidates = <<>>
          /\ phase = "collect" => CursorSound
          /\ phase # "done" \/ candidates = <<>> => items = <<>>
          /\ phase = "done" /\ candidates # <<>> => items = rank_top_n(candidates, effective_query)
          /\ phase = "idle" => cursor.kind = "Empty"
          /\ phase \in {"rank", "done"} => OwnIn
      BY <3>1, StageParts
    <3>6. OwnIn' <=> OwnIn
      BY <3>1, OwnFrame DEF OwnIn
    <3>7. (/\ phase \in {"idle", "walk", "collect"} => candidates = <<>>
           /\ phase = "collect" => CursorSound
           /\ phase # "done" \/ candidates = <<>> => items = <<>>
           /\ phase = "done" /\ candidates # <<>> =>
                items = rank_top_n(candidates, effective_query)
           /\ OffersSound
           /\ phase = "idle" => cursor.kind = "Empty"
           /\ phase \in {"rank", "done"} => OwnIn)'
      BY <3>1, <3>2, <3>3, <3>4, <3>5, <3>6
    <3>8. QED
      BY <3>7, StageMade, PTL
  <2>4. QED
    BY <2>1, <2>2, <2>3 DEF Inv
<1>2. ASSUME phase = "idle", NEW r \in Asked, Request(r.line, r.cursor) PROVE Inv'
  <2>1. r.line \in Text /\ r.cursor \in Nat
    BY CompleteAssumption
  <2>2. QED
    BY <1>2, <2>1, RequestStep
<1>3. ASSUME phase = "idle", NEW r \in Asked, RequestUnknown(r.line) PROVE Inv'
  BY <1>3, UnknownStep
<1>4. CASE TakeValue
  <2>1. WalkType' /\ ScopeSound'
    BY <1>0, <1>4, ScopeFrame DEF TakeValue, WalkType
  <2>2. QED
    BY <1>4, <2>1, WordStep DEF TakeValue
<1>5. CASE TakeInline
  BY <1>0, <1>5, TakeInlineSound, WordStep DEF TakeInline, NextWord
<1>6. CASE TakeCluster
  BY <1>0, <1>6, TakeClusterSound, WordStep DEF TakeCluster, NextWord
<1>7. CASE TakeFlag
  BY <1>0, <1>7, TakeFlagSound, WordStep DEF TakeFlag, NextWord
<1>8. CASE Descend
  BY <1>0, <1>8, DescendSound, WordStep DEF Descend, NextWord
<1>9. CASE TakePositional
  <2>1. arg_index' \in Nat /\ positional_started' \in BOOLEAN
    BY <1>0, <1>9 DEF TakePositional, WalkType
  <2>2. WalkType' /\ ScopeSound'
    BY <1>0, <1>9, <2>1, ScopeFrame DEF TakePositional
  <2>3. QED
    BY <1>9, <2>2, WordStep DEF TakePositional, NextWord
<1>10. CASE Classify
  BY <1>10, ClassifyStep
<1>11. CASE Collect
  BY <1>11, CollectStep
<1>12. CASE Rank
  BY <1>12, RankStep
<1>13. CASE Respond
  BY <1>13, RespondStep
<1>14. QED
  BY <1>1, <1>2, <1>3, <1>4, <1>5, <1>6, <1>7, <1>8, <1>9, <1>10, <1>11, <1>12, <1>13
     DEF Next, Walk

LEMMA AlwaysInv == Spec => []Inv
<1>1. Init => Inv
  BY InitInv
<1>2. QED
  BY <1>1, NextInv, PTL DEF Spec

-----------------------------------------------------------------------------
(* The theorems *)

\* The parser's state, the candidates and the response keep their types, and a response
\* has no more than TopN items (parse.rs, complete.rs, rank.rs).
THEOREM CompleteTypeCorrect == Spec => []TypeOK
<1>1. Inv => TypeOK
  BY TypeParts DEF Inv
<1>2. QED
  BY <1>1, AlwaysInv, PTL

\* Whatever words a line has, the walk of parse.rs knows the commands on it: the path
\* descends from the root, exactly the persistent options of the path are inherited, each
\* option seen is declared on it, and only the last one given awaits a value.
THEOREM CompleteScopeSound == Spec => []ScopeSound
<1>1. Inv => ScopeSound
  BY DEF Inv
<1>2. QED
  BY <1>1, AlwaysInv, PTL

\* The items of a response are candidates.
LEMMA ItemsAreCandidates ==
    ASSUME Inv, NEW k \in DOMAIN items
    PROVE  OfferSound(items[k])
<1>1. phase = "done" /\ candidates # <<>>
  <2>1. DOMAIN <<>> = {}
    OBVIOUS
  <2>2. items # <<>>
    BY <2>1
  <2>3. QED
    BY <2>2 DEF Inv, StageInv
<1>2. items = rank_top_n(candidates, effective_query) /\ OffersSound
  BY <1>1, StageParts DEF Inv, OffersSound
<1>3. PICK q : q = effective_query
  OBVIOUS
<1>4. q \in Text /\ candidates \in Seq(Offer)
  BY <1>3, EffectiveQuery DEF Inv, PhaseType
<1>5. items[k] \in ToSet(candidates)
  BY <1>2, <1>3, <1>4, RankFacts
<1>6. QED
  BY <1>2, <1>5 DEF ToSet, OffersSound

\* An option that complete.rs offers can still be given: the active command has it or
\* inherits it, it is unused or repeatable, nothing on the line excludes it under any of
\* its names, and what it depends on is there.
THEOREM CompleteOffersCompatible == Spec => []OffersAreCompatible
<1>1. Inv => OffersAreCompatible
  <2> SUFFICES ASSUME Inv, NEW o \in OfferedOptions PROVE Compatible(o)
    BY DEF OffersAreCompatible
  <2>1. PICK k \in DOMAIN items : o = items[k].of
    BY DEF OfferedOptions
  <2>2. o # None
    BY DEF OfferedOptions
  <2>3. OfferSound(items[k])
    BY ItemsAreCandidates
  <2>4. QED
    BY <2>1, <2>2, <2>3 DEF OfferSound
<1>2. QED
  BY <1>1, AlwaysInv, PTL

\* Where a spec's options must precede its arguments, none is offered after an argument
\* (classify_cursor, parse.rs).
THEOREM CompleteOptionsStop == Spec => []OptionsStopAtArguments
<1>1. Inv => OptionsStopAtArguments
  <2> SUFFICES ASSUME Inv, Directed("optionsFirst"), positional_started,
                      NEW o \in OfferedOptions
               PROVE  FALSE
    BY DEF OptionsStopAtArguments
  <2>1. PICK k \in DOMAIN items : o = items[k].of
    BY DEF OfferedOptions
  <2>2. o # None
    BY DEF OfferedOptions
  <2>3. OfferSound(items[k])
    BY ItemsAreCandidates
  <2>4. QED
    BY <2>1, <2>2, <2>3 DEF OfferSound
<1>2. QED
  BY <1>1, AlwaysInv, PTL

LEMMA InvBest == Inv => BestMatches
<1> SUFFICES ASSUME Inv, phase = "done", candidates # <<>>
             PROVE  /\ \A k \in DOMAIN items : \E i \in DOMAIN items[k].names :
                          is_subsequence(effective_query, items[k].names[i])
                    /\ \A c \in ToSet(candidates) \ ToSet(items) :
                         \/ ~Matches(c, effective_query)
                         \/ /\ Len(items) = TopN
                            /\ \A k \in DOMAIN items :
                                 score(items[k], effective_query) >= score(c, effective_query)
  BY DEF BestMatches
<1>1. PICK q : q = effective_query
  OBVIOUS
<1>2. q \in Text /\ candidates \in Seq(Offer) /\ items \in Seq(Offer)
  BY <1>1, EffectiveQuery DEF Inv, PhaseType
<1>3. items = rank_top_n(candidates, q)
  BY <1>1 DEF Inv, StageInv
<1>4. /\ \A k \in DOMAIN items : Matches(items[k], q)
      /\ \A c \in ToSet(candidates) \ ToSet(items) :
           \/ ~Matches(c, q)
           \/ Len(items) = TopN /\ \A k \in DOMAIN items : score(items[k], q) >= score(c, q)
  BY <1>2, <1>3, RankFacts
<1>5. \A k \in DOMAIN items : \E i \in DOMAIN items[k].names :
        is_subsequence(q, items[k].names[i])
  BY <1>2, <1>4, MatchFacts
<1>6. QED
  BY <1>1, <1>4, <1>5

\* rank.rs answers the best matches: every item has a name that contains the query, and
\* what is left out does not match or scores no better than any item of a full response.
THEOREM CompleteBestMatches == Spec => []BestMatches
BY InvBest, AlwaysInv, PTL

\* A generator that fails or floods costs the suggestions of the spec and the files nothing:
\* each of them that matches is answered, or TopN items that are no worse (complete.rs).
THEOREM CompleteGeneratorCosts == Spec => []GeneratorCostsOnlyItself
<1>1. Inv => GeneratorCostsOnlyItself
  <2> SUFFICES ASSUME Inv, phase = "done", AtArgument,
                      NEW c \in ToSet(own_candidates(CursorArg)) \ ToSet(items)
               PROVE  \/ ~Matches(c, effective_query)
                      \/ /\ Len(items) = TopN
                         /\ \A k \in DOMAIN items :
                              score(items[k], effective_query) >= score(c, effective_query)
    BY DEF GeneratorCostsOnlyItself
  <2>1. c \in ToSet(candidates)
    BY StageParts DEF Inv, OwnIn
  <2>2. candidates # <<>>
    BY <2>1 DEF ToSet
  <2>3. QED
    BY <2>1, <2>2, InvBest DEF BestMatches
<1>2. QED
  BY <1>1, AlwaysInv, PTL

\* The line is tokenized when it is asked about and forgotten with the response.
LEMMA TypedMoves ==
    ASSUME [Next]_vars
    PROVE  \/ typed' = typed \/ typed' = Untyped
           \/ \E r \in Asked : typed' = tokenize(r.line, r.cursor)
BY DEF Next, Request, RequestUnknown, Walk, TakeValue, TakeInline, TakeCluster, TakeFlag,
       Descend, TakePositional, NextWord, Classify, Collect, Rank, Respond, vars

\* What tokenize.rs makes of the part of a token before the cursor begins the token's
\* text, wherever the line's quotes and escapes are cut: the two scanners agree.
THEOREM CompleteQueryContinues == Spec => []QueryContinuesToken
<1>1. Init => QueryContinuesToken
  BY DEF Init, Untyped, QueryContinuesToken
<1>2. QueryContinuesToken /\ [Next]_vars => QueryContinuesToken'
  <2> SUFFICES ASSUME QueryContinuesToken, [Next]_vars PROVE QueryContinuesToken'
    OBVIOUS
  <2>1. CASE typed' = typed
    BY <2>1 DEF QueryContinuesToken
  <2>2. CASE typed' = Untyped
    BY <2>2 DEF Untyped, QueryContinuesToken
  <2>3. ASSUME NEW r \in Asked, typed' = tokenize(r.line, r.cursor) PROVE QueryContinuesToken'
    <3>1. r.line \in Text /\ r.cursor \in Nat
      BY CompleteAssumption
    <3>2. PICK list : list = tokenize(r.line, r.cursor)
      OBVIOUS
    <3>3. list.cursor_token # 0 => IsPrefix(list.query, list.tokens[list.cursor_token].text)
      BY <3>1, <3>2, TokenizeContinues
    <3>4. typed' = list
      BY <2>3, <3>2
    <3>5. QED
      BY <3>3, <3>4 DEF QueryContinuesToken
  <2>4. \/ typed' = typed \/ typed' = Untyped
        \/ \E r \in Asked : typed' = tokenize(r.line, r.cursor)
    BY TypedMoves
  <2>5. QED
    BY <2>1, <2>2, <2>3, <2>4
<1>3. QED
  BY <1>1, <1>2, PTL DEF Spec

\* The words of a line that are consumed.
CommittedOf(list) ==
    ~AtBlank(list.line, list.cursor, Lexed(list.line)[list.cursor])
      => committed(list) = Lexed(list.line)[list.cursor].tokens

LEMMA CommittedHolds == CommittedBeforeCursor <=> CommittedOf(typed)
BY DEF CommittedBeforeCursor, CommittedOf, AtBlank

LEMMA UntypedCommits == CommittedOf(Untyped)
<1>1. <<>> \in Text /\ Untyped.line = <<>> /\ Untyped.cursor = 0 /\ committed(Untyped) = <<>>
  BY DEF Untyped, Text, committed
<1>2. Lexed(<<>>)[0] = LexStart
  BY <1>1, LexedFacts
<1>3. QED
  BY <1>1, <1>2 DEF CommittedOf, LexStart

\* The words that parse.rs consumes are the ones that are complete before the cursor, wherever
\* it is in the line but in blanks or before one: no word that is edited is among them.
THEOREM CompleteCommitsBefore == Spec => []CommittedBeforeCursor
<1>1. Init => CommittedBeforeCursor
  BY UntypedCommits, CommittedHolds DEF Init
<1>2. CommittedBeforeCursor /\ [Next]_vars => CommittedBeforeCursor'
  <2> SUFFICES ASSUME CommittedBeforeCursor, [Next]_vars PROVE CommittedBeforeCursor'
    OBVIOUS
  <2>1. CommittedBeforeCursor' <=> CommittedOf(typed')
    BY DEF CommittedBeforeCursor, CommittedOf, AtBlank
  <2>2. CASE typed' = typed
    BY <2>1, <2>2, CommittedHolds
  <2>3. CASE typed' = Untyped
    BY <2>1, <2>3, UntypedCommits
  <2>4. ASSUME NEW r \in Asked, typed' = tokenize(r.line, r.cursor) PROVE CommittedBeforeCursor'
    <3>1. r.line \in Text /\ r.cursor \in Nat
      BY CompleteAssumption
    <3>2. PICK list : list = tokenize(r.line, r.cursor)
      OBVIOUS
    <3>3. CommittedOf(list)
      <4>1. list.line = r.line
        BY <3>2 DEF tokenize
      <4>2. QED
        BY <3>1, <3>2, <4>1, TokenizeCommits DEF CommittedOf, AtBlank
    <3>4. QED
      BY <2>1, <2>4, <3>2, <3>3
  <2>5. \/ typed' = typed \/ typed' = Untyped
        \/ \E r \in Asked : typed' = tokenize(r.line, r.cursor)
    BY TypedMoves
  <2>6. QED
    BY <2>2, <2>3, <2>4, <2>5
<1>3. QED
  BY <1>1, <1>2, PTL DEF Spec

=============================================================================

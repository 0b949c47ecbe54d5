----------------------------- MODULE CompleteLine -----------------------------
(***************************************************************************)
(* The complete request: Engine::handle_complete and core's pipeline        *)
(* tokenize -> parse -> complete -> rank.                                    *)
(*                                                                         *)
(* The parser consumes the committed words one by one against the command   *)
(* tree of a spec file, one action per kind of word; then the word at the    *)
(* cursor is classified, candidates are collected (a generator may run: any  *)
(* result the GeneratorRunner contract allows) and ranked.                   *)
(***************************************************************************)
EXTENDS Tokenizer, Selection, Integers, FiniteSets

CONSTANTS
    Nodes,         \* the subcommands of a spec, the root included
    Root,          \* the top-level command
    Tree,          \* Tree[n]: what the spec declares for n
    Asked,         \* what a host asks to complete: a line and a cursor
    Produces,      \* Produces[g]: the results a run of generator g may have
    Listing,       \* Listing[d]: the entries of directory d, as list_entries sorts them
    Ord,           \* Ord[c]: the place of character c in the order of strings
    TopN,          \* DEFAULT_TOP_N
    Unlimited,     \* isRepeatable: true
    None           \* no option, no argument, no directives, no generator

Text == Seq(DOMAIN Ord)

Suggestion == [name : Seq(Text) \ {<<>>}, insert : Text, priority : 0 .. 100, hidden : BOOLEAN]

Arg == [isVariadic : BOOLEAN, suggestions : Seq(Suggestion),
        template : {"none", "filepaths", "folders", "history"},
        generator : DOMAIN Produces \cup {None}, priority : 0 .. 100]

Opt == [name : Seq(Text) \ {<<>>}, args : Seq(Arg), isPersistent : BOOLEAN,
        requiresSeparator : BOOLEAN, isRepeatable : Nat \cup {Unlimited},
        exclusiveOn : SUBSET Text, dependsOn : SUBSET Text]

\* A separator other than the space divides an option after its dash.
Directives == [chaining : BOOLEAN, optionsFirst : BOOLEAN,
               separators : Seq(DOMAIN Ord \ {"-"})]

Subcommand == [name : Seq(Text) \ {<<>>}, subcommands : Seq(Nodes),
               options : Seq(Opt), args : Seq(Arg),
               directives : Directives \cup {None}]

canonical(names) == names[1]

Named(x, form) == \E i \in DOMAIN x.name : x.name[i] = form

OptionsOf(n) == ToSet(Tree[n].options)

AllOptions == UNION {OptionsOf(n) : n \in Nodes}

\* Whoever refers to an option refers to it by its canonical name, whatever
\* other names are listed too, as the specs shipped with the program do.
CanonicalReferences(refs) ==
    \A o \in AllOptions :
        (\E i \in DOMAIN o.name : o.name[i] \in refs) => canonical(o.name) \in refs

ASSUME CompleteAssumption ==
    /\ Root \in Nodes
    /\ Tree \in [Nodes -> Subcommand]
    /\ None \notin Opt /\ None \notin Arg /\ None \notin Directives
    /\ TopN \in Nat /\ Unlimited \notin Nat
    /\ Ord \in [DOMAIN Ord -> Nat] /\ \A c, d \in DOMAIN Ord : Ord[c] = Ord[d] => c = d
    /\ {" ", "-", "=", "/"} \subseteq DOMAIN Ord
    /\ Asked \subseteq [line : Text, cursor : Nat]
    /\ \A g \in DOMAIN Produces : Produces[g] \subseteq Seq(Text)
    /\ \A d \in DOMAIN Listing : Listing[d] \in Seq([name : Text, isDir : BOOLEAN])
    /\ \A o \in AllOptions : CanonicalReferences(o.exclusiveOn)

VARIABLES
    phase,               \* "idle", "walk", "collect", "rank" or "done"
    typed,               \* the line and its tokens, as tokenize returns them
    words,               \* the committed words still to be consumed
    path,                \* ParseState::command_path
    seen,                \* seen_options
    persistent,          \* persistent_options
    arg_index,           \* arg_index, from 0
    positional_started,
    pending_arg,         \* the option whose value is next, or None
    cursor,              \* CursorKind, and the option or argument it carries
    candidates,
    items,               \* the items of the response
    uses                 \* the options given on the line (not kept by the code)

walkVars == <<path, seen, persistent, arg_index, positional_started,
              pending_arg, uses>>
vars == <<phase, typed, words, walkVars, cursor, candidates, items>>

Active == path[Len(path)]

-----------------------------------------------------------------------------
(* parse.rs: what a word is *)

First(S) == CHOOSE i \in S : \A j \in S : i <= j

collect_persistent(n) == Filter(Tree[n].options, LAMBDA o : o.isPersistent)

\* The directives of the deepest node that declares some.
active_directives ==
    LET declared == {i \in DOMAIN path : Tree[path[i]].directives # None}
    IN IF declared = {} THEN None
       ELSE Tree[path[CHOOSE i \in declared : \A j \in declared : i >= j]].directives

Directed(flag) == active_directives # None /\ active_directives[flag]

\* A word that looks like an option is one, unless options must come first.
IsOption(text) ==
    /\ text # <<>> /\ text[1] = "-"
    /\ text # <<"-">> /\ text # <<"-", "-">>
    /\ ~(Directed("optionsFirst") /\ positional_started)

subcommands_named(text) ==
    {i \in DOMAIN Tree[Active].subcommands :
       Named(Tree[Tree[Active].subcommands[i]], text)}

\* Local options come before inherited ones.
lookup_option(form) ==
    LET scope == Tree[Active].options \o persistent
        hits == {i \in DOMAIN scope : Named(scope[i], form)}
    IN IF hits = {} THEN None ELSE scope[First(hits)]

\* The part of an option before the first separator listed that it contains, <<>> if
\* it contains none.
inline_flag(text) ==
    LET seps == IF active_directives = None THEN <<>>
                ELSE active_directives.separators
        At(s) == {j \in DOMAIN text : text[j] = s}
        found == {i \in DOMAIN seps : seps[i] # " " /\ At(seps[i]) # {}}
    IN IF found = {} THEN <<>>
       ELSE SubSeq(text, 1, First(At(seps[First(found)])) - 1)

is_short_cluster(text) ==
    Directed("chaining") /\ text[2] # "-" /\ Len(text) > 2

-----------------------------------------------------------------------------
(* parse.rs: the walk *)

Word == Head(words)

\* The next word is consumed, and it is no value of an option.
NextWord ==
    /\ phase = "walk" /\ words # <<>> /\ pending_arg = None
    /\ words' = Tail(words)
    /\ UNCHANGED <<phase, typed, cursor, candidates, items>>

TakeValue ==
    /\ phase = "walk" /\ words # <<>> /\ pending_arg # None
    /\ words' = Tail(words)
    /\ pending_arg' = None
    /\ UNCHANGED <<phase, typed, cursor, candidates, items, path, seen,
                   persistent, arg_index, positional_started, uses>>

\* The options os are on the line.
See(os) ==
    /\ seen' = seen \cup {canonical(os[i].name) : i \in DOMAIN os}
    /\ uses' = uses \o os

Found(forms) == Filter([i \in DOMAIN forms |-> lookup_option(forms[i])],
                          LAMBDA o : o # None)

TakeInline ==
    /\ NextWord /\ IsOption(Word) /\ inline_flag(Word) # <<>>
    /\ See(Found(<<inline_flag(Word)>>))
    /\ UNCHANGED <<path, persistent, arg_index, positional_started, pending_arg>>

TakesValue(o) == o # None /\ o.args # <<>>

\* -xyz stands for -x -y -z, of which the last may await a value.
TakeCluster ==
    /\ NextWord /\ IsOption(Word) /\ inline_flag(Word) = <<>>
    /\ is_short_cluster(Word)
    /\ See(Found([i \in 1 .. Len(Word) - 1 |-> <<"-", Word[i + 1]>>]))
    /\ LET last == lookup_option(<<"-", Word[Len(Word)]>>)
       IN pending_arg' = IF TakesValue(last) THEN last ELSE None
    /\ UNCHANGED <<path, persistent, arg_index, positional_started>>

TakeFlag ==
    /\ NextWord /\ IsOption(Word) /\ inline_flag(Word) = <<>>
    /\ ~is_short_cluster(Word)
    /\ See(Found(<<Word>>))
    /\ LET o == lookup_option(Word)
       IN pending_arg' = IF TakesValue(o) /\ ~o.requiresSeparator THEN o ELSE None
    /\ UNCHANGED <<path, persistent, arg_index, positional_started>>

CanDescend == ~positional_started /\ subcommands_named(Word) # {}

\* Fault: a subcommand inherits from its parent only.
DescendAlone ==
    /\ NextWord /\ ~IsOption(Word) /\ CanDescend
    /\ LET child == Tree[Active].subcommands[First(subcommands_named(Word))]
       IN /\ path' = Append(path, child)
          /\ persistent' = collect_persistent(child)
    /\ arg_index' = 0
    /\ UNCHANGED <<seen, positional_started, pending_arg, uses>>

Descend ==
    /\ NextWord /\ ~IsOption(Word) /\ CanDescend
    /\ LET child == Tree[Active].subcommands[First(subcommands_named(Word))]
       IN /\ path' = Append(path, child)
          /\ persistent' = persistent \o collect_persistent(child)
    /\ arg_index' = 0
    /\ UNCHANGED <<seen, positional_started, pending_arg, uses>>

\* A variadic argument stays the current one.
TakePositional ==
    /\ NextWord /\ ~IsOption(Word) /\ ~CanDescend
    /\ positional_started' = TRUE
    /\ arg_index' = IF /\ arg_index < Len(Tree[Active].args)
                       /\ Tree[Active].args[arg_index + 1].isVariadic
                    THEN arg_index ELSE arg_index + 1
    /\ UNCHANGED <<path, seen, persistent, pending_arg, uses>>

-----------------------------------------------------------------------------
(* parse.rs: the word at the cursor *)

Query == typed.query

Equals(text) == {i \in DOMAIN text : text[i] = "="}

Dashed(text) == text # <<>> /\ text[1] = "-"

\* What candidates are matched against: what follows the = of a dashed query.
effective_query ==
    IF Dashed(Query) /\ Equals(Query) # {}
    THEN SubSeq(Query, First(Equals(Query)) + 1, Len(Query)) ELSE Query

Cursor(kind, of) == [kind |-> kind, of |-> of]

command_argument_cursor ==
    LET args == Tree[Active].args
    IN IF arg_index < Len(args) THEN Cursor("CommandArgument", args[arg_index + 1])
       ELSE IF args # <<>> /\ args[Len(args)].isVariadic
            THEN Cursor("CommandArgument", args[Len(args)])
       ELSE Cursor("Empty", None)

InlineOption ==
    IF Equals(Query) = {} THEN None
    ELSE lookup_option(SubSeq(Query, 1, First(Equals(Query)) - 1))

\* Fault: options are completed after an argument, whatever the directives say.
classify_anywhere ==
    IF pending_arg # None THEN Cursor("OptionArgument", pending_arg)
    ELSE IF Dashed(Query) THEN Cursor("Option", None)
    ELSE command_argument_cursor

classify_cursor ==
    IF pending_arg # None THEN Cursor("OptionArgument", pending_arg)
    ELSE IF Dashed(Query) THEN
         IF Directed("optionsFirst") /\ positional_started
           THEN command_argument_cursor
         ELSE IF TakesValue(InlineOption) THEN Cursor("OptionArgument", InlineOption)
         ELSE Cursor("Option", None)
    ELSE IF Tree[Active].subcommands # <<>> /\ ~positional_started
         THEN Cursor("Subcommand", None)
    ELSE command_argument_cursor

Classify ==
    /\ phase = "walk" /\ words = <<>>
    /\ phase' = "collect"
    /\ cursor' = classify_cursor
    /\ UNCHANGED <<typed, words, walkVars, candidates, items>>

-----------------------------------------------------------------------------
(* complete.rs *)

Candidate(insert, names, priority, hidden, of) ==
    [insert |-> insert, names |-> names, priority |-> priority,
     hidden |-> hidden, of |-> of]

subcommand_candidates ==
    Each(Tree[Active].subcommands, LAMBDA n :
        Candidate(Append(canonical(Tree[n].name), " "), Tree[n].name, 50, FALSE, None))

\* A maximum count is read as a flag: more than once or not.
Repeatable(o) == o.isRepeatable = Unlimited \/ o.isRepeatable > 1

\* Fault: exclusiveOn is not looked at.
option_unused(o) ==
    /\ canonical(o.name) \in seen => Repeatable(o)
    /\ o.dependsOn \subseteq seen

option_is_valid(o) ==
    /\ canonical(o.name) \in seen => Repeatable(o)
    /\ o.exclusiveOn \cap seen = {}
    /\ o.dependsOn \subseteq seen

OptionInsert(o) ==
    IF o.args = <<>> THEN canonical(o.name)
    ELSE Append(canonical(o.name), IF o.requiresSeparator THEN "=" ELSE " ")

\* Options of the active node, then inherited ones of other names.
option_candidates ==
    LET local == Tree[Active].options
        inherited == Filter(persistent, LAMBDA p :
                        \A i \in DOMAIN local : local[i].name # p.name)
    IN Each(Filter(local \o inherited, option_is_valid), LAMBDA o :
         Candidate(OptionInsert(o), o.name, 50, FALSE, o))

\* list_entries: the entries of the directory the query names that start with
\* the rest of it; dot files only if asked for; directories end in a slash.
list_entries(partial, folders) ==
    LET slashes == {i \in DOMAIN partial : partial[i] = "/"}
        dirLen == IF slashes = {} THEN 0
                  ELSE CHOOSE i \in slashes : \A j \in slashes : i >= j
        dir == SubSeq(partial, 1, dirLen)
        file == SubSeq(partial, dirLen + 1, Len(partial))
        wanted == Filter(IF dir \in DOMAIN Listing THEN Listing[dir] ELSE <<>>,
                    LAMBDA e : /\ IsPrefix(file, e.name)
                               /\ IsPrefix(<<".">>, e.name) => IsPrefix(<<".">>, file)
                               /\ folders => e.isDir)
    IN Each(wanted, LAMBDA e :
         LET insert == dir \o e.name \o (IF e.isDir THEN <<"/">> ELSE <<>>)
         IN Candidate(insert, <<insert>>, IF e.isDir THEN 55 ELSE 50, FALSE, None))

\* What the spec and the file system offer: suggestions, then files.
own_candidates(arg) ==
    Each(arg.suggestions, LAMBDA s :
        Candidate(s.insert, s.name, s.priority, s.hidden, None))
    \o (IF arg.template \in {"filepaths", "folders"}
        THEN list_entries(effective_query, arg.template = "folders") ELSE <<>>)

generator_to_candidates(arg, generated) ==
    Each(Filter(generated, LAMBDA v : v # <<>>), LAMBDA v :
        Candidate(v, <<v>>, arg.priority, FALSE, None))

\* Fault: a generator that produces nothing ends the collection.
arg_candidates_or_none(arg, generated) ==
    IF arg.generator # None /\ generated = <<>> THEN <<>>
    ELSE own_candidates(arg) \o generator_to_candidates(arg, generated)

arg_candidates(arg, generated) ==
    own_candidates(arg) \o generator_to_candidates(arg, generated)

CursorArg ==
    IF cursor.kind = "OptionArgument" THEN cursor.of.args[1] ELSE cursor.of

\* The generator's result; one that fails produces nothing.
Generated(arg) == IF arg.generator = None THEN {<<>>} ELSE Produces[arg.generator]

Collect ==
    /\ phase = "collect"
    /\ phase' = "rank"
    /\ \/ /\ cursor.kind = "Subcommand"
          /\ candidates' = subcommand_candidates \o option_candidates
       \/ /\ cursor.kind = "Option"
          /\ candidates' = option_candidates
       \/ /\ cursor.kind \in {"OptionArgument", "CommandArgument"}
          /\ \E values \in Generated(CursorArg) :
               candidates' = arg_candidates(CursorArg, values)
       \/ /\ cursor.kind = "Empty"
          /\ candidates' = <<>>
    /\ UNCHANGED <<typed, words, walkVars, cursor, items>>

-----------------------------------------------------------------------------
(* rank.rs *)

is_subsequence(needle, hay) ==
    \E at \in [DOMAIN needle -> DOMAIN hay] :
        /\ \A i \in DOMAIN needle : hay[at[i]] = needle[i]
        /\ \A i, j \in DOMAIN needle : i < j => at[i] < at[j]

\* Weight of the match in units of 1/10000; 0 for no match.
match_quality(name, query) ==
    IF name = query THEN 3000
    ELSE IF IsPrefix(query, name) THEN 2250
    ELSE IF is_subsequence(query, name) THEN 1200 ELSE 0

best_quality(c, query) ==
    IF query = <<>> THEN 2250
    ELSE LET qs == {match_quality(c.names[i], query) : i \in DOMAIN c.names}
         IN CHOOSE q \in qs \cup {0} : \A r \in qs : q >= r

score(c, query) == c.priority * 50 + best_quality(c, query)

\* A candidate that matches; a hidden one must be spelled out.
Matches(c, query) ==
    best_quality(c, query) >= IF c.hidden THEN 3000 ELSE 1200

LexLess(a, b) ==
    \E k \in 1 .. Len(b) :
        /\ IsPrefix(SubSeq(b, 1, k - 1), a)
        /\ k > Len(a) \/ Ord[a[k]] < Ord[b[k]]

\* Place i of cs comes before place j: by score, by length, by the order of
\* strings, and otherwise as they were.
Before(cs, query, i, j) ==
    LET a == cs[i] b == cs[j]
        da == score(a, query) db == score(b, query)
    IN \/ da > db
       \/ da = db /\ Len(a.insert) < Len(b.insert)
       \/ /\ da = db /\ Len(a.insert) = Len(b.insert)
          /\ \/ LexLess(a.insert, b.insert)
             \/ a.insert = b.insert /\ i < j

\* Fault: the list is cut before it is sorted.
rank_cut_first(all, query) ==
    Filter(SubSeq(all, 1, IF Len(all) < TopN THEN Len(all) ELSE TopN),
              LAMBDA c : Matches(c, query))

\* Fault: the list is not cut.
rank_all(all, query) == Filter(all, LAMBDA c : Matches(c, query))

rank_top_n(all, query) ==
    LET cs == Filter(all, LAMBDA c : Matches(c, query))
        Place(i) == Cardinality({j \in DOMAIN cs : Before(cs, query, j, i)})
        n == IF Len(cs) < TopN THEN Len(cs) ELSE TopN
    IN [p \in 1 .. n |-> cs[CHOOSE i \in DOMAIN cs : Place(i) = p - 1]]

Rank ==
    /\ phase = "rank"
    /\ phase' = "done"
    /\ items' = rank_top_n(candidates, effective_query)
    /\ UNCHANGED <<typed, words, walkVars, cursor, candidates>>

-----------------------------------------------------------------------------
(* Engine::handle_complete *)

\* The first word of a line as split_whitespace sees it, quotes included.
base(line) ==
    LET ink == {i \in DOMAIN line : line[i] \notin White}
        start == First(ink)
        after == {i \in DOMAIN line : i > start /\ line[i] \in White}
    IN IF ink = {} THEN <<>>
       ELSE SubSeq(line, start, IF after = {} THEN Len(line) ELSE First(after) - 1)

NewParse ==
    /\ path' = <<Root>> /\ seen' = {} /\ persistent' = collect_persistent(Root)
    /\ arg_index' = 0 /\ positional_started' = FALSE
    /\ pending_arg' = None /\ uses' = <<>>

\* A request for the spec's command: the command name itself is not parsed.
Request(line, at) ==
    LET list == tokenize(line, at)
        text == [i \in DOMAIN committed(list) |-> committed(list)[i].text]
    IN /\ Named(Tree[Root], base(line))
       /\ phase' = "walk"
       /\ typed' = list
       /\ words' = IF text = <<>> THEN <<>> ELSE Tail(text)
       /\ NewParse
       /\ UNCHANGED <<cursor, candidates, items>>

\* No spec has that name: no items.
RequestUnknown(line) ==
    /\ ~Named(Tree[Root], base(line))
    /\ phase' = "done"
    /\ UNCHANGED <<typed, words, walkVars, cursor, candidates, items>>

Untyped == [tokens |-> <<>>, cursor_token |-> 0, query |-> <<>>, line |-> <<>>, cursor |-> 0]

\* The response is sent and nothing is kept.
Respond ==
    /\ phase = "done"
    /\ phase' = "idle"
    /\ typed' = Untyped /\ words' = <<>>
    /\ NewParse
    /\ cursor' = Cursor("Empty", None)
    /\ candidates' = <<>> /\ items' = <<>>

Init ==
    /\ phase = "idle" /\ typed = Untyped /\ words = <<>>
    /\ path = <<Root>> /\ seen = {} /\ persistent = collect_persistent(Root)
    /\ arg_index = 0 /\ positional_started = FALSE /\ pending_arg = None
    /\ uses = <<>>
    /\ cursor = Cursor("Empty", None) /\ candidates = <<>> /\ items = <<>>

Walk ==
    \/ TakeValue \/ TakeInline \/ TakeCluster \/ TakeFlag
    \/ Descend \/ TakePositional \/ Classify

Next ==
    \/ /\ phase = "idle"
       /\ \E r \in Asked : Request(r.line, r.cursor) \/ RequestUnknown(r.line)
    \/ Walk \/ Collect \/ Rank \/ Respond

Spec == Init /\ [][Next]_vars

-----------------------------------------------------------------------------
(* Properties *)

Token == [text : Text, start : Nat, end : Nat]

CursorKinds == {"Subcommand", "Option", "OptionArgument", "CommandArgument", "Empty"}

Offer == [insert : Text, names : Seq(Text) \ {<<>>}, priority : 0 .. 100, hidden : BOOLEAN,
          of : Opt \cup {None}]

\* The type of the parser's state, of the candidates and of the response.
TypeOK ==
    /\ phase \in {"idle", "walk", "collect", "rank", "done"}
    /\ typed \in [tokens : Seq(Token), cursor_token : Nat, query : Text,
                  line : Text, cursor : Nat]
    /\ words \in Seq(Text)
    /\ path \in Seq(Nodes) \ {<<>>}
    /\ seen \subseteq Text
    /\ persistent \in Seq(Opt) /\ uses \in Seq(Opt)
    /\ arg_index \in Nat /\ positional_started \in BOOLEAN
    /\ pending_arg \in Opt \cup {None}
    /\ cursor \in [kind : CursorKinds, of : Opt \cup Arg \cup {None}]
    /\ candidates \in Seq(Offer)
    /\ items \in Seq(Offer) /\ Len(items) <= TopN

\* What the user has typed of the word at the cursor begins that word
\* (tokenize.rs:126-134): the two scanners, lex over the whole line and unquote
\* over a part of it, agree wherever quotes and escapes are cut.
QueryContinuesToken ==
    typed.cursor_token # 0 =>
        IsPrefix(typed.query, typed.tokens[typed.cursor_token].text)

\* The words the parser consumes are the ones complete before the cursor, as a scan of that
\* part of the line sees them (parse.rs:3, tokenize.rs:20): the word that is edited is
\* never taken for a subcommand, an option or a value.  A cursor with a blank behind it,
\* at the end of a word or among blanks, edits no word; the words behind it are consumed
\* too then (tokenize.rs:77), and the property leaves that case out.
CommittedBeforeCursor ==
    LET line == typed.line
        c == typed.cursor
        before == Lexed(line)[c]
        atBlank == /\ c < Len(line) /\ line[c + 1] \in White
                   /\ before.mode \in {"gap", "word"}
    IN ~atBlank => committed(typed) = before.tokens

DeclaredOnPath(o) == \E i \in DOMAIN path : o \in OptionsOf(path[i])

\* What the walk knows is about the commands on the line (parse.rs:90-147):
\* the path descends from the root, inherited options are persistent options
\* of the path and all of them, seen names the options given, each
\* declared on the path, and only the option given last awaits a value.
ScopeSound ==
    /\ path[1] = Root
    /\ \A i \in 1 .. Len(path) - 1 :
         path[i + 1] \in ToSet(Tree[path[i]].subcommands)
    /\ ToSet(persistent) =
         {o \in AllOptions : o.isPersistent /\ DeclaredOnPath(o)}
    /\ seen = {canonical(o.name) : o \in ToSet(uses)}
    /\ \A o \in ToSet(uses) : DeclaredOnPath(o)
    /\ pending_arg # None =>
         uses # <<>> /\ pending_arg = uses[Len(uses)] /\ TakesValue(pending_arg)

OfferedOptions == {items[k].of : k \in DOMAIN items} \ {None}

Times(o) == Cardinality({i \in DOMAIN uses : uses[i] = o})

\* seen_options is a set: of an option whose maximum is 2 or more, the code no longer
\* knows whether it was given twice or more often (complete.rs:174).
CountLost(o) == o.isRepeatable \notin {0, 1, Unlimited} /\ Times(o) > 1

\* The active command declares or inherits the option, no option on the line excludes it,
\* the options it depends on are there, and it was given less often than it may be
\* (SCHEMA.md:39), as far as the count is kept.
Compatible(o) ==
    /\ o \in OptionsOf(Active) \/ (o.isPersistent /\ DeclaredOnPath(o))
    /\ o \in ToSet(uses) => \/ o.isRepeatable = Unlimited
                           \/ Times(o) < o.isRepeatable
                           \/ CountLost(o)
    /\ \A u \in ToSet(uses) : \A i \in DOMAIN u.name : u.name[i] \notin o.exclusiveOn
    /\ \A d \in o.dependsOn : \E u \in ToSet(uses) : Named(u, d)

\* An offered option goes with the options on the line (complete.rs:145-195), under
\* whichever name it or another was written.  That an option with a maximum of 2 or
\* more is not offered once it is exhausted is not promised: -v may be given twice and
\* "g -v -v -" still offers it.
OffersAreCompatible == \A o \in OfferedOptions : Compatible(o)

\* parse.rs:16-17: where options must precede arguments, none is offered after
\* an argument, not even for a query that begins with a dash.
OptionsStopAtArguments ==
    Directed("optionsFirst") /\ positional_started => OfferedOptions = {}

AtArgument == cursor.kind \in {"OptionArgument", "CommandArgument"}

\* For the proofs: what is known of the cursor, the candidates and the items as they
\* are determined.
CursorSound ==
    /\ cursor.kind \in {"Subcommand", "Option"} =>
         ~(Directed("optionsFirst") /\ positional_started)
    /\ cursor.kind = "OptionArgument" => cursor.of \in Opt /\ cursor.of.args # <<>>
    /\ cursor.kind = "CommandArgument" => cursor.of \in Arg

StageInv ==
    /\ phase \in {"idle", "walk", "collect"} => candidates = <<>>
    /\ phase = "collect" => CursorSound
    /\ phase # "done" \/ candidates = <<>> => items = <<>>
    /\ phase = "done" /\ candidates # <<>> => items = rank_top_n(candidates, effective_query)
    /\ \A k \in DOMAIN candidates :
         LET o == candidates[k].of
         IN o # None => Compatible(o) /\ ~(Directed("optionsFirst") /\ positional_started)
    /\ phase = "idle" => cursor.kind = "Empty"
    /\ phase \in {"rank", "done"} /\ AtArgument =>
         ToSet(own_candidates(CursorArg)) \subseteq ToSet(candidates)

\* The response holds the best matches (rank.rs:92-138): only candidates a name
\* of which contains the query, and no better one was left out than the ones
\* that are in, however many there were.
BestMatches ==
    phase = "done" /\ candidates # <<>> =>
        /\ \A k \in DOMAIN items : \E i \in DOMAIN items[k].names :
             is_subsequence(effective_query, items[k].names[i])
        /\ \A c \in ToSet(candidates) \ ToSet(items) :
             \/ ~Matches(c, effective_query)
             \/ /\ Len(items) = TopN
                /\ \A k \in DOMAIN items :
                     score(items[k], effective_query) >= score(c, effective_query)

\* Whatever a generator does (complete.rs:310-314), it costs no suggestion of the spec and
\* no file its place: each one that matches is answered, or TopN that are no worse are.
GeneratorCostsOnlyItself ==
    phase = "done" /\ AtArgument =>
        \A c \in ToSet(own_candidates(CursorArg)) \ ToSet(items) :
            \/ ~Matches(c, effective_query)
            \/ /\ Len(items) = TopN
               /\ \A k \in DOMAIN items :
                    score(items[k], effective_query) >= score(c, effective_query)
=============================================================================

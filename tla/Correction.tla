------------------------------ MODULE Correction ------------------------------
(***************************************************************************)
(* The correct request: Engine::handle_correct and core's correction rules.  *)
(*                                                                         *)
(* The rules run one after another. Two of them ask what is on $PATH while   *)
(* commands are installed and removed: `exists` and `path_commands` look at  *)
(* one directory after another, so an answer mixes what the directories held *)
(* at different moments. The corrections of all rules are then merged,       *)
(* ranked and cut.                                                          *)
(*                                                                         *)
(* Scripts, words and names are sequences of characters; a character is its  *)
(* place in the order of strings, and so is a rule id.                       *)
(***************************************************************************)
EXTENDS Selection, Naturals, FiniteSets, Sequences, SequencesExt

CONSTANTS
    Chars,           \* the characters other than white space
    Slash,           \* '/'
    Names,           \* the file names that come and go in the directories of $PATH
    Dirs,            \* how many directories $PATH lists
    Paths,           \* the contents $PATH may have at first
    RuleSets,        \* the rule files an engine may have loaded
    Specs,           \* the loaded specs: names, and the names of each subcommand
    Requests,        \* the failed commands a host asks about
    NoCommand,       \* the ids of the two native rules
    SubcommandTypo,
    Limit,           \* DEFAULT_LIMIT
    MaxChanges,      \* bound: changes of $PATH's directories
    None             \* a condition, a rewrite that is absent

MAX_EDIT_DISTANCE == 2

Space == 0
String == Seq(Chars \cup {Space})

\* What is found under a name: nothing, an executable file, a symbolic link to
\* one, or a file without an execute bit.
Kinds == {"none", "exec", "link", "plain"}

PathDirs == 1 .. Dirs

Scripts == {c.script : c \in Requests}

\* rule.rs: conditions, rewrites and rules as rule files declare them. A pattern
\* is known by the texts it matches; a condition that is not there is None.
Pattern(texts) == [valid : BOOLEAN, matches : SUBSET texts]

Match ==
    [startsWith : String \cup {None}, scriptRegex : Pattern(Scripts) \cup {None},
     stderrContains : SUBSET STRING, stderrRegex : Pattern(SUBSET STRING) \cup {None},
     exitCodeIn : SUBSET Nat, commandExists : String \cup {None}]

Rewrites ==
    [kind : {"insertFlag"}, after : String, flag : String]
    \cup [kind : {"replaceToken"}, index : Nat, with : String]
    \cup [kind : {"prefix"}, prefix : String]
    \cup [kind : {"swapSubcommand"}, from : String, to : String]
    \cup [kind : {"regexReplace"}, pattern : Pattern(Scripts), with : [Scripts -> String]]

Rules == [id : Nat, priority : 0 .. 255, native : BOOLEAN, match : Match,
          rewrite : Rewrites \cup {None}]

ASSUME CorrectionAssumption ==
    /\ Chars \subseteq Nat \ {Space} /\ Slash \in Chars
    /\ Names \subseteq String \ {<<>>} /\ \A n \in Names : ~Contains(n, Slash)
    /\ IsFiniteSet(Names)
    /\ Dirs \in Nat /\ Limit \in Nat /\ MaxChanges \in Nat
    /\ Paths \subseteq [PathDirs -> [Names -> Kinds]]
    /\ RuleSets \subseteq Seq(Rules)
    /\ Scripts \subseteq String
    /\ Specs \in Seq([name : SUBSET String, subcommands : SUBSET SUBSET String])
    /\ \A i \in DOMAIN Specs : IsFiniteSet(UNION Specs[i].subcommands)
    /\ NoCommand # SubcommandTypo
    /\ None \notin {"InvalidRegex", "UnknownNativeRule"}

VARIABLES
    path,        \* path[d][n]: what directory d of $PATH holds under name n
    changes,     \* how often that has changed
    rules,       \* the rules of the engine, in the order they were loaded
    pc,          \* "idle", "rule", "exists", "list" or "done"
    ctx,         \* the request: script, stderr and exit_code
    at,          \* the rule being evaluated
    dir,         \* the directory a walk over $PATH looks at next
    listed,      \* how often path_commands has met each name so far
    candidates,  \* the corrections so far
    answer,      \* the items of the response, or the error
    made,        \* every command a rule proposed, before any of them is dropped
    ever,        \* places that held something at some moment of the request,
    always       \* and at every moment (these three are not kept by the code)

envVars == <<path, changes>>
ghosts == <<made, ever, always>>
vars == <<envVars, rules, pc, ctx, at, dir, listed, candidates, answer, ghosts>>

Rule == rules[at]

-----------------------------------------------------------------------------
(* Words and scripts *)

Smallest(S) == CHOOSE x \in S : \A y \in S : x <= y

\* split_whitespace: a word goes from a character behind white space to the next
\* white space.
WordAt(script, i) ==
    SubSeq(script, i, Smallest({k \in i .. Len(script) :
                                  k = Len(script) \/ script[k + 1] = Space}))

tokens(script) ==
    Picked([i \in DOMAIN script |-> WordAt(script, i)],
           {i \in DOMAIN script : script[i] # Space /\ (i = 1 \/ script[i - 1] = Space)})

\* The words with single blanks between them.
Joined(toks) ==
    LET text[i \in 0 .. Len(toks)] ==
            IF i = 0 THEN <<>>
            ELSE text[i - 1] \o (IF i = 1 THEN <<>> ELSE <<Space>>) \o toks[i]
    IN text

join(toks) == Joined(toks)[Len(toks)]

\* The order of strings.
Lexical(s, t) ==
    \/ Len(s) < Len(t) /\ \A i \in DOMAIN s : s[i] = t[i]
    \/ \E i \in DOMAIN s \cap DOMAIN t :
         s[i] < t[i] /\ \A j \in 1 .. i - 1 : s[j] = t[j]

\* levenshtein.rs: row i holds the distances of the longer word's first i
\* characters from every prefix of the shorter.
NextRow(long, short, prev, i) ==
    LET curr[j \in 0 .. Len(short)] ==
            IF j = 0 THEN i
            ELSE Smallest({prev[j] + 1, curr[j - 1] + 1,
                           prev[j - 1] + (IF long[i] = short[j] THEN 0 ELSE 1)})
    IN curr

Rows(long, short) ==
    LET row[i \in 0 .. Len(long)] ==
            IF i = 0 THEN [j \in 0 .. Len(short) |-> j]
            ELSE NextRow(long, short, row[i - 1], i)
    IN row

distance(a, b) ==
    IF Len(a) <= Len(b) THEN Rows(b, a)[Len(b)][Len(a)] ELSE Rows(a, b)[Len(a)][Len(b)]

Near(word, name) == distance(word, name) \in 1 .. MAX_EDIT_DISTANCE

\* m comes before n: nearer, or met more often, or first in the order of strings.
Nearer(word, freq, m, n) ==
    \/ distance(word, m) < distance(word, n)
    \/ /\ distance(word, m) = distance(word, n)
       /\ freq[m] > freq[n] \/ (freq[m] = freq[n] /\ Lexical(m, n))

-----------------------------------------------------------------------------
(* native.rs: the two native rules *)

\* The script with each of the near words in place of word k, in the order Before.
Replaced(toks, k, near, Before) ==
    LET ranked == Ranked(near, Before)
    IN [i \in DOMAIN ranked |-> join([toks EXCEPT ![k] = ranked[i]])]

\* The names near the base command, the nearest first, then the one in most
\* directories.
no_command(toks, freq) ==
    LET near == {n \in Names : freq[n] > 0 /\ Near(toks[1], n)}
    IN Replaced(toks, 1, near,
                {x \in near \X near : Nearer(toks[1], freq, x[1], x[2])})

\* The first spec that answers to the base command decides; a command of its own
\* needs no correction.
subcommand_typo(toks) ==
    LET specs == {i \in DOMAIN Specs : toks[1] \in Specs[i].name}
        known == UNION Specs[Smallest(specs)].subcommands
        near == {k \in known : Near(toks[2], k)}
    IN IF Len(toks) < 2 \/ specs = {} \/ toks[2] \in known THEN <<>>
       ELSE Replaced(toks, 2, near,
                     {x \in near \X near :
                        Nearer(toks[2], [k \in near |-> 1], x[1], x[2])})

-----------------------------------------------------------------------------
(* mod.rs: conditions and rewrites of the other rules *)

Verdict(holds) == IF holds THEN "yes" ELSE "no"

\* Fault: a pattern that does not compile is a condition that does not hold.
PatternSkipped(p, text) ==
    IF p = None THEN "yes" ELSE Verdict(p.valid /\ text \in p.matches)

\* compile, then is_match.
PatternVerdict(p, text) ==
    IF p = None THEN "yes" ELSE IF ~p.valid THEN "error" ELSE Verdict(text \in p.matches)

\* The conditions of a rule, in the order they are tried.
Conditions(m, c) ==
    <<Verdict(m.startsWith = None \/ IsPrefix(m.startsWith, c.script)),
      PatternVerdict(m.scriptRegex, c.script),
      Verdict(m.stderrContains = {} \/ m.stderrContains \cap c.stderr # {}),
      PatternVerdict(m.stderrRegex, c.stderr),
      Verdict(m.exitCodeIn = {} \/ c.exit_code \in m.exitCodeIn)>>

\* The first that does not hold, or does not compile, decides.
matches(m, c) ==
    LET decisive == {i \in 1 .. 5 : Conditions(m, c)[i] # "yes"}
    IN IF decisive = {} THEN "yes" ELSE Conditions(m, c)[Smallest(decisive)]

\* The rewrite does not compile.
Unusable(rw) == rw # None /\ rw.kind = "regexReplace" /\ ~rw.pattern.valid

Only(applies, command) == IF applies THEN <<command>> ELSE <<>>

Position(toks, t) == Smallest({i \in DOMAIN toks : toks[i] = t})

\* The commands a rewrite makes of a script: one, or none where it does not apply.
apply_rewrite(rw, script) ==
    LET toks == tokens(script)
        InsertFlag(next) ==
            Only(next > Len(toks) \/ toks[next] # rw.flag, join(InsertAt(toks, next, rw.flag)))
    IN CASE rw.kind = "insertFlag" ->
              IF Contains(toks, rw.after) THEN InsertFlag(Position(toks, rw.after) + 1) ELSE <<>>
         [] rw.kind = "replaceToken" ->
              IF rw.index >= Len(toks) THEN <<>>
              ELSE Only(toks[rw.index + 1] # rw.with,
                        join([toks EXCEPT ![rw.index + 1] = rw.with]))
         [] rw.kind = "prefix" -> Only(~IsPrefix(rw.prefix, script), rw.prefix \o script)
         [] rw.kind = "swapSubcommand" ->
              IF Contains(toks, rw.from)
              THEN <<join([toks EXCEPT ![Position(toks, rw.from)] = rw.to])>> ELSE <<>>
         [] rw.kind = "regexReplace" ->
              Only(script \in rw.pattern.matches /\ rw.with[script] # script, rw.with[script])

-----------------------------------------------------------------------------
(* resolver.rs: what counts as a command in a directory of $PATH *)

\* fs::metadata follows a symbolic link; a name with a slash is never looked up.
exists_in(d, cmd) ==
    /\ cmd # <<>> /\ ~Contains(cmd, Slash)
    /\ cmd \in Names /\ path[d][cmd] \in {"exec", "link"}

\* Fault: every file counts, executable or not.
AllEntries(d) == {n \in Names : path[d][n] \in {"exec", "plain"}}

\* DirEntry::metadata does not follow it.
entries(d) == {n \in Names : path[d][n] = "exec"}

-----------------------------------------------------------------------------
(* One request *)

Answer(items) == [error |-> None, rule_id |-> None, items |-> items]

\* What each directory holds under each name.
Holding(p) == {<<d, n, p[d][n]>> : d \in PathDirs, n \in Names}

Init ==
    /\ path \in Paths /\ changes = 0
    /\ rules \in RuleSets
    /\ pc = "idle" /\ ctx = None /\ at = 1 /\ dir = 1
    /\ listed = [n \in Names |-> 0]
    /\ candidates = <<>> /\ answer = Answer(<<>>)
    /\ made = {} /\ ever = {} /\ always = {}

\* handle_correct builds the context; specs and rules are the engine's.
Correct(c) ==
    /\ pc \in {"idle", "done"}
    /\ pc' = "rule" /\ ctx' = c /\ at' = 1 /\ candidates' = <<>> /\ answer' = Answer(<<>>)
    /\ made' = {} /\ ever' = Holding(path) /\ always' = Holding(path)
    /\ UNCHANGED <<envVars, rules, dir, listed>>

normalized_original == join(tokens(ctx.script))

\* The commands of a rule that are kept, tagged with where they come from.
Tagged(commands) ==
    LET kept == Picked(commands, {i \in DOMAIN commands :
                         commands[i] # normalized_original /\ commands[i] # <<>>})
    IN [i \in DOMAIN kept |-> [command |-> kept[i], rule_id |-> Rule.id,
                               priority |-> Rule.priority]]

\* Fault: a rule that proposes nothing is tried again.
ProposeAgain(commands) ==
    /\ candidates' = candidates \o Tagged(commands)
    /\ made' = made \cup {[command |-> c, rule_id |-> Rule.id, priority |-> Rule.priority] :
                            c \in ToSet(commands)}
    /\ at' = (IF commands = <<>> THEN at ELSE at + 1) /\ pc' = "rule"

\* Fault: the rule after the one that proposed something is left out.
ProposeAndSkip(commands) ==
    /\ candidates' = candidates \o Tagged(commands)
    /\ made' = made \cup {[command |-> c, rule_id |-> Rule.id, priority |-> Rule.priority] :
                            c \in ToSet(commands)}
    /\ at' = (IF commands = <<>> THEN at + 1 ELSE at + 2) /\ pc' = "rule"

\* The rule is through; the loop goes on to the next.
Propose(commands) ==
    /\ candidates' = candidates \o Tagged(commands)
    /\ made' = made \cup {[command |-> c, rule_id |-> Rule.id, priority |-> Rule.priority] :
                            c \in ToSet(commands)}
    /\ at' = at + 1 /\ pc' = "rule"

\* Fault: a walk goes on where the one before it stopped.
WalkOn(how) == pc' = how /\ dir' = dir /\ listed' = [n \in Names |-> 0]

\* A walk over the directories of $PATH begins.
Walk(how) == pc' = how /\ dir' = 1 /\ listed' = [n \in Names |-> 0]

\* An error ends the loop: nothing of the rules before it is answered.
Fail(error) ==
    /\ answer' = [error |-> error, rule_id |-> Rule.id, items |-> <<>>]
    /\ pc' = "done"

Evaluating == pc = "rule" /\ at <= Len(rules)

\* A rule that is implemented in Rust, chosen by its id.
RunNative ==
    /\ Evaluating /\ Rule.native
    /\ LET toks == tokens(ctx.script)
       IN \/ /\ Rule.id = NoCommand /\ toks # <<>>
             /\ Walk("exists")
             /\ UNCHANGED <<at, candidates, answer, made>>
          \/ /\ Rule.id = NoCommand /\ toks = <<>>
             /\ Propose(<<>>)
             /\ UNCHANGED <<dir, listed, answer>>
          \/ /\ Rule.id = SubcommandTypo
             /\ Propose(subcommand_typo(toks))
             /\ UNCHANGED <<dir, listed, answer>>
          \/ /\ Rule.id \notin {NoCommand, SubcommandTypo}
             /\ Fail("UnknownNativeRule")
             /\ UNCHANGED <<at, dir, listed, candidates, made>>
    /\ UNCHANGED <<envVars, rules, ctx, ever, always>>

\* Apply the rewrite of a rule whose conditions hold.
Rewrite ==
    \/ /\ Unusable(Rule.rewrite) /\ Fail("InvalidRegex")
       /\ UNCHANGED <<at, candidates, made>>
    \/ /\ ~Unusable(Rule.rewrite)
       /\ Propose(IF Rule.rewrite = None THEN <<>> ELSE apply_rewrite(Rule.rewrite, ctx.script))
       /\ UNCHANGED answer

\* A rule of conditions and a rewrite; commandExists is asked last.
RunJson ==
    /\ Evaluating /\ ~Rule.native
    /\ LET verdict == matches(Rule.match, ctx)
       IN \/ /\ verdict = "error" /\ Fail("InvalidRegex")
             /\ UNCHANGED <<at, dir, listed, candidates, made>>
          \/ /\ verdict = "no" /\ Propose(<<>>)
             /\ UNCHANGED <<dir, listed, answer>>
          \/ /\ verdict = "yes" /\ Rule.match.commandExists # None /\ Walk("exists")
             /\ UNCHANGED <<at, candidates, answer, made>>
          \/ /\ verdict = "yes" /\ Rule.match.commandExists = None /\ Rewrite
             /\ UNCHANGED <<dir, listed>>
    /\ UNCHANGED <<envVars, rules, ctx, ever, always>>

\* One directory of resolver.exists: the walk stops where the command is found.
Exists ==
    /\ pc = "exists"
    /\ LET cmd == IF Rule.native THEN tokens(ctx.script)[1] ELSE Rule.match.commandExists
           more == dir <= Dirs
       IN \/ /\ more /\ exists_in(dir, cmd)
             /\ IF Rule.native THEN Propose(<<>>) /\ UNCHANGED answer ELSE Rewrite
             /\ UNCHANGED <<dir, listed>>
          \/ /\ more /\ ~exists_in(dir, cmd)
             /\ dir' = dir + 1
             /\ UNCHANGED <<pc, at, listed, candidates, answer, made>>
          \/ /\ ~more /\ Rule.native
             /\ Walk("list")
             /\ UNCHANGED <<at, candidates, answer, made>>
          \/ /\ ~more /\ ~Rule.native
             /\ Propose(<<>>)
             /\ UNCHANGED <<dir, listed, answer>>
    /\ UNCHANGED <<envVars, rules, ctx, ever, always>>

\* One directory of resolver.path_commands, and after the last what is near.
List ==
    /\ pc = "list"
    /\ \/ /\ dir <= Dirs
          /\ listed' = [n \in Names |-> listed[n] + (IF n \in entries(dir) THEN 1 ELSE 0)]
          /\ dir' = dir + 1
          /\ UNCHANGED <<pc, at, candidates, made>>
       \/ /\ dir > Dirs
          /\ Propose(no_command(tokens(ctx.script), listed))
          /\ UNCHANGED <<dir, listed>>
    /\ UNCHANGED <<envVars, rules, ctx, answer, ever, always>>

\* The declared rank of two origins.
BetterOrigin(a, b) ==
    a.priority > b.priority \/ (a.priority = b.priority /\ a.rule_id < b.rule_id)

\* The order in which the same commands meet, the best origin first.
ByCommand(a, b) ==
    Lexical(a.command, b.command) \/ (a.command = b.command /\ BetterOrigin(a, b))

\* The order of the answer.
ByPriority(a, b) ==
    \/ BetterOrigin(a, b)
    \/ /\ a.priority = b.priority /\ a.rule_id = b.rule_id
       /\ Lexical(a.command, b.command)

\* sort_by is stable: what is equal stays in its order.
Sorted(cs, Before(_, _)) ==
    LET order == Ranked(DOMAIN cs,
                        {x \in (DOMAIN cs) \X (DOMAIN cs) :
                           \/ Before(cs[x[1]], cs[x[2]])
                           \/ x[1] < x[2] /\ ~Before(cs[x[2]], cs[x[1]])})
    IN [p \in DOMAIN cs |-> cs[order[p]]]

\* Of consecutive equal commands the first stays.
dedup(cs) == Picked(cs, {i \in DOMAIN cs : i = 1 \/ cs[i - 1].command # cs[i].command})

truncate(s) == SubSeq(s, 1, IF Limit <= Len(s) THEN Limit ELSE Len(s))

\* Fault: the list is cut before it is ranked.
MergedCutFirst(cs) == Sorted(truncate(dedup(Sorted(cs, ByCommand))), ByPriority)

\* Each command once, ranked and cut.
Merged(cs) == truncate(Sorted(dedup(Sorted(cs, ByCommand)), ByPriority))

\* All rules are through.
Finish ==
    /\ pc = "rule" /\ at > Len(rules)
    /\ answer' = Answer(Merged(candidates))
    /\ pc' = "done"
    /\ UNCHANGED <<envVars, rules, ctx, at, dir, listed, candidates, ghosts>>

\* A command is installed, removed, replaced by a link or loses its execute bit.
Change(d, n, kind) ==
    /\ changes < MaxChanges /\ kind # path[d][n]
    /\ path' = [path EXCEPT ![d][n] = kind]
    /\ changes' = changes + 1
    /\ ever' = ever \cup Holding(path') /\ always' = always \cap Holding(path')
    /\ UNCHANGED <<rules, pc, ctx, at, dir, listed, candidates, answer, made>>

Handle == RunNative \/ RunJson \/ Exists \/ List \/ Finish

Next ==
    \/ \E c \in Requests : Correct(c)
    \/ Handle
    \/ \E d \in PathDirs, n \in Names, k \in Kinds : Change(d, n, k)

Spec == Init /\ [][Next]_vars

-----------------------------------------------------------------------------
(* Properties *)

Candidate == [command : String, rule_id : Nat, priority : 0 .. 255]

\* Where the loop over the rules and its walks stand, for the proofs.
ControlOK ==
    /\ path \in [PathDirs -> [Names -> Kinds]] /\ changes \in 0 .. MaxChanges
    /\ rules \in RuleSets /\ ctx \in Requests \cup {None}
    /\ pc \in {"idle", "rule", "exists", "list", "done"}
    /\ at \in 1 .. Len(rules) + 1 /\ dir \in 1 .. Dirs + 1

\* The type of the engine's state, of a request's and of its answer's.
TypeOK ==
    /\ ControlOK
    /\ listed \in [Names -> 0 .. Dirs]
    /\ candidates \in Seq(Candidate)
    /\ answer \in [error : {None, "InvalidRegex", "UnknownNativeRule"},
                   rule_id : Nat \cup {None}, items : Seq(Candidate)]

Answered == pc = "done" /\ answer.error = None

\* What the rules proposed, except the failed command itself.
Proposed == {m \in made : m.command # normalized_original /\ m.command # <<>>}

\* items holds each command of proposed under its best origin, by rank, and where the
\* limit cuts, nothing is left out that outranks an item.
BestOf(items, proposed) ==
    LET best == {m \in proposed : \A o \in proposed :
                   o.command = m.command => ~BetterOrigin(o, m)}
    IN /\ \A i, j \in DOMAIN items : i < j => ByPriority(items[i], items[j])
       /\ ToSet(items) \subseteq best
       /\ \A m \in best \ ToSet(items) :
            Len(items) = Limit /\ \A i \in DOMAIN items : ByPriority(items[i], m)

\* The answer is what the module comment of correct promises, whatever order the
\* rules are loaded in: of everything the rules proposed, except the failed
\* command itself, each command once under its best origin, by rank, and the cut
\* at the limit drops nothing that outranks an item (correct/mod.rs:315-346).
RankedBest == Answered => BestOf(answer.items, Proposed)

\* For the proofs: what is known of the walks, of the corrections so far and of the
\* answer.
DataInv ==
    /\ pc # "idle" => ctx \in Requests
    /\ pc \in {"exists", "list"} /\ Rule.native => tokens(ctx.script) # <<>>
    /\ pc = "list" => \A n \in Names : listed[n] < dir
    /\ made \subseteq Candidate /\ ToSet(candidates) = Proposed
    /\ Answered => answer.items = Merged(candidates)

\* One letter removed, replaced or put in.
OneEdit(w) ==
    {RemoveAt(w, i) : i \in DOMAIN w}
    \cup {[w EXCEPT ![i] = c] : i \in DOMAIN w, c \in Chars \cup {Space}}
    \cup {InsertAt(w, i, c) : i \in 1 .. Len(w) + 1, c \in Chars \cup {Space}}

AtMostTwoEdits(a, b) == b \in OneEdit(a) \/ OneEdit(a) \cap OneEdit(b) # {}

\* The script with one word changed for another that is a slip of the finger away.
Respelled(command, k, word) ==
    LET old == tokens(ctx.script)
    IN /\ command = join([old EXCEPT ![k] = word])
       /\ word # old[k] /\ AtMostTwoEdits(old[k], word)

Resolvable == {"exec", "link"}

\* A rule of conditions may bear the id of a native one; what it proposes is not a
\* native correction.
OnlyNative(id) == \A r \in ToSet(rules) : r.id = id => r.native

\* Why no_command and subcommand_typo may propose x.
CommandJustified(x) ==
    /\ \E d \in PathDirs, n \in Names :
         <<d, n, "exec">> \in ever /\ Respelled(x.command, 1, n)
    /\ ~\E d \in PathDirs, k \in Resolvable :
         <<d, tokens(ctx.script)[1], k>> \in always

SubcommandJustified(x) ==
    LET old == tokens(ctx.script)
    IN \E i \in DOMAIN Specs : \E k \in UNION Specs[i].subcommands :
         /\ old[1] \in Specs[i].name /\ \A j \in 1 .. i - 1 : old[1] \notin Specs[j].name
         /\ old[2] \notin UNION Specs[i].subcommands
         /\ Respelled(x.command, 2, k)

Justified(x) ==
    /\ x.rule_id = NoCommand /\ OnlyNative(NoCommand) => CommandJustified(x)
    /\ x.rule_id = SubcommandTypo /\ OnlyNative(SubcommandTypo) => SubcommandJustified(x)

\* A native correction is justified although $PATH may change while it is
\* looked at: the command it names was an executable file on $PATH during the
\* request and is at most two edits away, and the command that was typed did not
\* resolve in one place all along; a subcommand it names is one of the first spec's
\* that answers to the command, where the typed one is not (native.rs:48-143,
\* resolver.rs:136-167).
NativeJustified ==
    Answered => \A i \in DOMAIN answer.items : Justified(answer.items[i])

\* The typed command resolved nowhere at any moment of the request.
NeverResolved ==
    LET old == tokens(ctx.script)
    IN old # <<>> /\ \A e \in PathDirs, k \in Resolvable : <<e, old[1], k>> \notin ever

\* What rule r makes of the script with n for its command.
Instead(r, n) ==
    [command |-> join([tokens(ctx.script) EXCEPT ![1] = n]), rule_id |-> r.id,
     priority |-> r.priority]

\* No command that is near is missed: when the typed command never resolved
\* during the request, every executable file that was on $PATH all along and is
\* at most two edits away is answered, or Limit better corrections are
\* (native.rs:55-77, resolver.rs:149-167, mod.rs:345).
NearestNotMissed ==
    Answered =>
        \A r \in ToSet(rules), d \in PathDirs, n \in Names :
            LET x == Instead(r, n)
            IN (/\ r.native /\ r.id = NoCommand /\ NeverResolved
                /\ <<d, n, "exec">> \in always /\ Respelled(x.command, 1, n))
               => \/ \E i \in DOMAIN answer.items : answer.items[i].command = x.command
                  \/ /\ Len(answer.items) = Limit
                     /\ \A i \in DOMAIN answer.items : ByPriority(answer.items[i], x)

\* Everything rule r had to propose has been proposed.
Complete(r) ==
    r.native /\ r.id = NoCommand /\ NeverResolved =>
        \A d \in PathDirs, n \in Names :
            <<d, n, "exec">> \in always /\ Near(tokens(ctx.script)[1], n) => Instead(r, n) \in made

\* For the proofs: what the walks over $PATH have seen is tied to what was there at
\* some moment and at every moment of the request.
WalkInv ==
    /\ Rule.native => \A d \in 1 .. (IF pc = "exists" THEN dir - 1 ELSE Dirs), k \in Resolvable :
                        <<d, tokens(ctx.script)[1], k>> \notin always
    /\ pc = "list" =>
         \A n \in Names :
             /\ listed[n] > 0 => \E d \in PathDirs : <<d, n, "exec">> \in ever
             /\ \A d \in 1 .. dir - 1 : <<d, n, "exec">> \in always => listed[n] > 0

GhostInv ==
    /\ pc # "idle" => always \subseteq Holding(path) /\ Holding(path) \subseteq ever
    /\ pc \in {"exists", "list"} => WalkInv
    /\ \A m \in made : Justified(m)
    /\ pc # "idle" => \A i \in 1 .. at - 1 : Complete(rules[i])

\* A pattern that does not compile.
Broken(p) == p # None /\ ~p.valid

\* A rule that some request fails on.
MayFail(r) ==
    IF r.native THEN r.id \notin {NoCommand, SubcommandTypo}
    ELSE Broken(r.match.scriptRegex) \/ Broken(r.match.stderrRegex) \/ Unusable(r.rewrite)

\* The conditions of a rule that can be evaluated.
Compiling(m) == [m EXCEPT !.scriptRegex = IF Broken(@) THEN None ELSE @,
                          !.stderrRegex = IF Broken(@) THEN None ELSE @]

\* A rule that request c fails on whatever is on $PATH: all its conditions that
\* compile hold.
MustFail(r, c) ==
    /\ MayFail(r)
    /\ ~r.native => r.match.commandExists = None /\ matches(Compiling(r.match), c) = "yes"

\* One rule that cannot be evaluated fails the request, with no items, exactly
\* when the loop reaches it: what is reported is the first rule that had to fail,
\* and a rule that had to fail is never passed over (correct/mod.rs:145-188, 258,
\* 289-313).
FirstBadRuleReported ==
    pc = "done" =>
        /\ \A i \in 1 .. (IF Answered THEN Len(rules) ELSE at - 1) : ~MustFail(rules[i], ctx)
        /\ ~Answered => /\ MayFail(Rule) /\ answer.rule_id = Rule.id
                        /\ answer.items = <<>>

\* For the proofs: what is known of the rules behind the loop, of the one it walks
\* $PATH for and of the one it ended at.
RuleInv ==
    /\ pc # "idle" => \A i \in 1 .. at - 1 : ~MustFail(rules[i], ctx)
    /\ pc \in {"exists", "list"} =>
         /\ at <= Len(rules)
         /\ IF Rule.native THEN Rule.id = NoCommand
            ELSE /\ pc = "exists" /\ Rule.match.commandExists # None
                 /\ matches(Rule.match, ctx) = "yes"
    /\ pc = "done" =>
         IF answer.error = None THEN at = Len(rules) + 1
         ELSE /\ at <= Len(rules) /\ MayFail(Rule)
              /\ answer.rule_id = Rule.id /\ answer.items = <<>>

\* How far a request has got: its rule, and its place in the walks over $PATH.
Progress ==
    at * (2 * Dirs + 4) + CASE pc = "rule" -> 0
                            [] pc = "exists" -> dir
                            [] pc = "list" -> Dirs + 1 + dir
                            [] OTHER -> 2 * Dirs + 3

\* Every step of the engine on a request brings the answer nearer, by a measure
\* that what is installed or removed meanwhile does not touch: with no deadlock,
\* a request is answered within a bounded number of steps (correct/mod.rs:289-326).
EveryStepAdvances ==
    [][pc \notin {"idle", "done"} =>
         Progress' > Progress \/ (Progress' = Progress /\ path' # path)]_vars

\* SCHEMA.md:130-131: the suggestions of no_command are "ranked by distance then
\* frequency"; correct/mod.rs:338-343 ranks what one rule proposes by its text.
NearestFirst ==
    Answered =>
        \A i, j \in DOMAIN answer.items :
            LET base == tokens(ctx.script)[1]
                Off(k) == distance(base, tokens(answer.items[k].command)[1])
            IN (/\ i < j /\ answer.items[i].rule_id = NoCommand
                /\ answer.items[j].rule_id = NoCommand) => Off(i) <= Off(j)

=============================================================================

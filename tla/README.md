# Verification of autosuggest-core

TLA+ models of the completion, autosuggest and correction engine under
`src/crates/`, the TLC runs that check them on small instances, and TLAPS proofs
of what matters most. Paths below are relative to `src/`.

## 1. The system

A host (a terminal or a shell plugin) asks three things: `complete` the line
being typed, `autosuggest` a continuation from history, `correct` a command
that failed. It talks to a stdio daemon, one JSON request per line, or calls
the same engine in its own process through a C interface.

```
host --lines--> daemon/main.rs --+
host --C ABI--> ffi/lib.rs ------+--> daemon/lib.rs Engine
                                       |- complete:    core tokenize -> parse -> complete -> rank
                                       |                    complete --> data runner (processes, cache)
                                       |- autosuggest: core history <-- window in the request, or history-store
                                       '- correct:     core correct (rules, native rules, resolver)
```

| Component | State | Operations | What is hard | What makes it correct |
|---|---|---|---|---|
| Generator runner (`data/runner.rs`) | child process, stdout pipe, reader thread, deadline | `run`, `execute`, `kill_child_tree` | child, reader, wait loop and clock run concurrently; descendants keep the pipe | returns, with all output or an error; leaves no zombie, thread or process |
| TTL cache (`data/cache.rs`) | map from (argv, cwd) to values and expiry, behind a mutex | `get`, `put` | instant read before the lookup and used after the run; several threads; shared keys | a hit serves fresh output of the same command |
| Output parsing (`data/parse.rs`) | none | `parse_output` | - | - |
| Stdio loop (`daemon/main.rs`) | the chunk being read, position in stdin | read, drain, respond | lines at, one over and far over the limit; CR LF; UTF-8 cut by a chunk; lockstep hosts | one response per request line, in order |
| Engine (`daemon/lib.rs`) | specs, rules, runner, history store | `handle_line`, `handle_*` | bounded, malformed and unknown requests | a response to every request |
| History store (`history-store`) | an SQLite table | `record`, `recent`, `clear` | LIKE wildcards, one-second timestamps, a clock set back, the limit | the newest matching commands |
| Autosuggest (`core/history.rs`) | none | `autosuggest` | missing timestamps, duplicates, cwd before recency | the documented best continuation |
| Tokenizer (`core/tokenize.rs`) | none | `tokenize`, `lex`, `unquote` | two scanners over open quotes and escapes; cursor at every edge | the query is the typed part of the token at the cursor |
| Spec parser (`core/parse.rs`) | path, seen and inherited options, pending value, argument index | `parse` | the meaning of a word depends on all before it | scope and state describe the words of the line |
| Collection (`core/complete.rs`, `fs_source.rs`) | none | `collect_with_generators` | exclusions, dependencies, repeats; generators that fail | only options that can still be given are offered |
| Ranking (`core/rank.rs`) | none | `rank_top_n` | ties, hidden items, the cut | the best N matches |
| Correction (`core/correct/`) | rules, the directories of `$PATH` | `correct_with_limit`, `exists`, `path_commands` | two sorts around de-duplication, the cut; `$PATH` changes between and during two walks; rules that cannot be evaluated | best correction of each command, in order; corrections that were right at some moment, none missed that always was |
| Loading (`daemon/load.rs`) | none | `load_specs`, `load_rules` | one bad file among many; files and directories that change under the load | what was on disk, or the first error |
| C interface (`ffi/lib.rs`) | one engine per process | request, free | concurrent first calls; an error that sticks; a panic while others wait | a response for every call, from one finished load |

## 2. Modules

Every definition keeps the source's name where it has one; `PROJECT.json` maps
each to its lines. Operators commented "Fault" are the mutated forms used to
show that a property can fail; no specification uses them.

**SandboxedRunner** (runner.rs, cache.rs). `pc[t]` is where a host thread is in
`run`/`execute`; a step is what happens between two points where somebody else
can be observed (a lock, a system call, a join). `Call` reads the instant once;
`LookupHit`, `LookupMiss`, `Put` are the two critical sections of the cache;
`Spawn` starts child and reader; `PollExited`, `PollRunning`, `PollError`,
`CheckDeadline` are the wait loop; `KillAndWait`, `JoinErr` the error paths. The
group is killed by a program, `/bin/kill`, that may be missing, fail to start or fail, and
whose result is ignored: a descendant may be "spared" (`GroupKilled`).
`Collect` the join and the parsed output. The child writes and ends as it
likes (external), blocks on a full pipe, and is ended by SIGPIPE once the reader
has stopped at the cap; it may leave a descendant holding stdout, in its process
group or out of it. Output is counted in bytes; values remember the request
whose rules parsed them, when their process was spawned and how it ended.

**GeneratorRunner** (generator_runner.rs) is the contract of the trait the runner
implements, as its callers see it: a call is asked at one instant and answered
in one step, refused (`Deny`), from a memory keyed by argv and cwd (`Remember`),
with a result of its own that is stored in the same step (`Produce`), or with an
error (`Fail`), a timeout only once its time is over. `SandboxedRunner` maps its
state onto it: a thread anywhere inside `run` is "asked", the outcome is visible
from "ret" on, the cache is the memory. `KeepsContract` is the refinement.

**StdioDaemon** (main.rs and `handle_line`'s framing). Stdin is a sequence of
bytes of seven classes, tagged with the line they belong to. `Read` is
`take(MAX + 2).read_line`, its outcomes `ReadEof`, `ReadInvalid`, `ReadBlank`,
`ReadRequest`, `ReadOversized`; `DrainOversized` the drain and the response after
it. A host writes lines, perhaps without the last newline, closes either end, and
in lockstep waits for each response.

**HistoryAutosuggest** (history.rs, history-store, `handle_autosuggest`). The
table is a sequence of rows; hosts record and clear, the clock moves either way.
`recent` is the set of row sequences the SQL statement allows, since ties are
open; `Like` is what SQLite does with an unescaped prefix. Every request is
answered from a host's window, from the store, or with nothing.

**Tokenizer**, **CompleteLine** (tokenize.rs, parse.rs, complete.rs, fs_source.rs,
rank.rs, `handle_complete`). The tokenizer is a fold over characters.
`CompleteLine` consumes the committed words one action per kind (`TakeValue`,
`TakeInline`, `TakeCluster`, `TakeFlag`, `Descend`, `TakePositional`), then
`Classify`, `Collect` (`own_candidates` of an argument, and those of its generator,
whose result is any the runner's contract allows, a failure included) and `Rank`. A
spec is the constant `Tree`. Three things the code does not keep are there for
properties only: `uses`, the options given, in order, and `line` and `cursor` of the
tokenized request. Scores
are integers in units of 1/10000.

**Correction** (correct/mod.rs, native.rs, rule.rs, resolver.rs, levenshtein.rs,
`handle_correct`). A request walks the rules in order: `RunNative` and `RunJson`
evaluate one, `Exists` and `List` are one directory each of the resolver's two
walks over `$PATH`, and between any two steps `Change` may install, remove, link
or disable a command. `Finish` answers with `Merged`: sort, de-duplicate, sort, cut.
Text is a sequence of characters, and a character is its place in the order of
strings: splitting into words, joining them, edit distance and text order are
computed and not assumed. A regular expression is
known by the scripts or stderr texts it matches. `made`, `ever` and `always` record
what rules proposed and what `$PATH` held at some and at every moment of the
request; only properties read them.

**Selection** holds what the standard library's filters and sorts do to a sequence
(external): `Picked` keeps the elements at some places, `Ranked` lists a set by an order.
They are written by counting, so that TLC evaluates them and the proofs follow them.

**SharedEngine** (ffi/lib.rs, load.rs, `Engine::load`, `index_specs`). `Call` to
`Free` is the life of one call and of the string it returns; `BeginInit`, the load
steps and `Take` are `OnceLock::get_or_init`, whose other callers wait. The load
reads the environment (`ReadEnv`), checks, opens, scans, sorts and reads first the
specs, then the rules (`validate_data_dir`, `Open`, `Scan`, `SortPaths`, `Read`), a
step for each system call, while files, directories and variables change. `Panic`
is a panic in the load or in a handler, caught at the boundary. An entry that has
vanished between `readdir` and the look at its type is, depending on the file
system, still a file or NotFound: `Scan` allows both. The daemon's own start-up
is the same load with one caller.

## 3. Runs

| Run | Checks | Instance |
|---|---|---|
| RunnerCache | `HitJustified`, `CacheInv`, `KeepsContract` | 2 threads (symmetric), two generators with one key and ttls 1 and 2; clock to 2 |
| RunnerProcess | `TypeOK`, `WholeOutput`, `NothingLeftBehind`, `TimeoutKillsGroup`, `ProcInv`, `ReturnsUnlessHeld`, `KeepsContract` | 1 thread, a generator that may run, one with no argv, one whose program is gone; output 0..4 with cap 2 and pipe 1, timeout 2, all descendants |
| RunnerHang | `NeverAHang` is violated | as above |
| RunnerExitStatus | `AbnormalExitIsError` is violated | as above, no descendants |
| StdioFraming | `TypeOK`, `InOrderAtMostOnce`, `AnswersWholeLines`, `NothingOwed`, `CatchesUp` | limit 2, 3 lines out of 17 shapes |
| StdioSwallow | `OneResponsePerLine` is violated | limit 2, lockstep host |
| StdioUtf8 | `MalformedLineContinues` is violated | limit 2, characters of two bytes |
| HistoryStore | `TypeOK`, `SuggestionIsRecorded`, `BestContinuation`, `LastRecordedSuggested` | 3 rows, limit 2, 4 commands, 2 directories, 2 seconds; windows of up to 3 entries |
| Completion | `TypeOK`, `QueryContinuesToken`, `ScopeSound`, `OffersAreCompatible`, `OptionsStopAtArguments`, `BestMatches`, `CommittedBeforeCursor`, `GeneratorCostsOnlyItself` | 3 nested commands; lines of up to 4 words, all lines of up to 4 of 5 characters |
| Correction | `TypeOK`, `RankedBest`, `NativeJustified`, `NearestNotMissed`, `FirstBadRuleReported`, `EveryStepAdvances` | 2 directories, 3 commands, 2 changes, 5 rule sets of up to 5 rules, 4 requests, limit 2 |
| CorrectionNearest | `NearestFirst` is violated | as above |
| EngineLife | `TypeOK`, `AnswersFromOneEngine`, `LoadsWhatIsThere`, `FirstFailureReported`, `EveryCallReturns` | 2 threads, 2 directories, 2 spec files and a rule file, 4 environments, 1 change, 1 panic |

Why the bounds are enough. The runner's threads meet only in the cache, whose
entries are independent by key: two threads and one shared key with two ttls
give every order of lookups and stores; `MaxClock` bounds when calls start, not
how long they run. One execution depends on no other thread, so the process
instance has one; output goes over pipe, cap and both. In the daemon only the
comparison of lengths with MAX, MAX + 1 and MAX + 2 matters, so a limit of 2 has
all cases; three lines show a line, the one it disturbs and the one after. A
window of 2 with 3 rows has the limit cut, and 2 seconds have ties and a clock
set back. The spec tree has three levels, an inherited option that may repeat
and one that excludes it, a dependency, an option that needs a separator,
chaining, a generator that may fail, and a level where options come first; four words are enough to
descend twice, take an argument and go on. `TopN` is 3 so that the cut happens.
A correction walks the directories one by one, so two directories and two changes
let a command leave one before it is looked at and enter the other after, in
either walk; three rules propose one command from different origins, and more
corrections than the limit are made. The rule sets have rules that fail before,
after and behind a condition. In the engine's life one change already meets every
step of the load, and a second thread is enough for every way to wait; two spec
files declare the same command, and broken files stand in the reverse of the
order in which a directory may list them.

What the violations show (details in `PROJECT.json`, `findings`):
- a child that exits but leaves a background process holding stdout makes `run`
  wait for that process, past the deadline (runner.rs:215);
- a generator's exit status is dropped, so a failed run counts as a success and
  is cached (runner.rs:195);
- a line one byte over the limit makes the daemon swallow the next request, and
  deadlocks with a host that waits for the response (main.rs:120);
- a character at the limit, or a byte that is not UTF-8, ends the daemon
  (main.rs:104, 121);
- corrections of `no_command` come in alphabetical order, not nearest first, and
  the cut may drop the nearest (correct/mod.rs:338, against SCHEMA.md:130).

Met while modelling, and kept as hypotheses of a passing property rather than as
runs of their own: history recorded within a second, or by a clock set back, is
not returned most recent first (history-store/lib.rs:96, hypothesis `ClockKept`);
a maximum repeat count above one is no maximum, against the "integer max count" of
SCHEMA.md:39: the options seen are a set, and `g -v -v -` still offers a `-v` that may be
given twice (complete.rs:174; `OffersAreCompatible` leaves such options out, by
`CountLost`); with the cursor in blanks, or at the end of a word before a blank, the words
behind it are consumed as well, although parse.rs:3 speaks of those "before the cursor"
(tokenize.rs:77, the exception `atBlank` of `CommittedBeforeCursor`); a command that
is a symbolic link resolves but is never suggested (resolver.rs:143 and 156,
`NearestNotMissed` speaks of files); a file that vanishes during the scan can turn
the whole directory into "no data" (load.rs:109, hypothesis `Steady`).

Where a violation is known, the passing property next to it says exactly what
remains true: `ReturnsUnlessHeld` names the one case in which `run` waits, and
`NothingOwed` the one line that swallows its successor. `TimeoutKillsGroup` excepts the
descendants that a missing or failed kill program spares.

Fairness. `ReturnsUnlessHeld` and `NeverAHang` assume that the operating system
runs the program's own threads (`RunStep`, `ReaderStep`) and that time passes
(`Tick`), and nothing of the host, the child or its descendants: a child may
never write, never end. `OneResponsePerLine` and `CatchesUp` assume the daemon
keeps running, and nothing of the host. `EveryCallReturns` assumes that a thread
that can take a step does; hosts, disk and panics are free. A request for
corrections needs no fairness: `EveryStepAdvances` is a measure that every step
of the engine increases, whatever happens on `$PATH`, and TLC finds no deadlock.

## 4. Proofs

Every theorem holds for every value of the constants, under the named assumption
of its module (types of the constants, and what the table adds).

| Theorem | States | From |
|---|---|---|
| `TypeCorrect`, `CacheIsSound`, `HitsAreJustified`, `ExecutionsAreSound`, `OutputIsWhole`, `NothingIsLeftBehind`, `TimeoutsKillTheGroup` | `[]` of `TypeOK`, `CacheInv`, `HitJustified`, `ProcInv`, `WholeOutput`, `NothingLeftBehind`, `TimeoutKillsGroup` of SandboxedRunner | `RunnerAssumption` |
| `ImplementsContract` | `Spec => KeepsContract` | `RunnerAssumption` |
| `EngineTypeCorrect`, `EngineHoldsWhatIsThere`, `EngineReportsFirstFailure`, `EngineAnswersAgree` | `[]` of `TypeOK`, `LoadsWhatIsThere`, `FirstFailureReported`, `AnswersFromOneEngine` of SharedEngine | `SharedEngineAssumption`: files are finitely many, spec files are no rule files |
| `StdioTypeCorrect`, `StdioInOrder`, `StdioWholeLines`, `StdioOwesNothing` | `[]` of `TypeOK`, `InOrderAtMostOnce`, `AnswersWholeLines`, `NothingOwed` of StdioDaemon | `StdioAssumption`: the limit is not 0 |
| `HistoryTypeCorrect`, `HistoryBest`, `HistorySuggestsRecorded`, `HistorySuggestsLast` | `[]` of `TypeOK`, `BestContinuation`, `SuggestionIsRecorded`, `LastRecordedSuggested` of HistoryAutosuggest | `HistoryAssumption`: the window's limit is not 0 |
| `CompleteTypeCorrect`, `CompleteScopeSound`, `CompleteOffersCompatible`, `CompleteOptionsStop`, `CompleteBestMatches`, `CompleteQueryContinues`, `CompleteCommitsBefore`, `CompleteGeneratorCosts` | `[]` of `TypeOK`, `ScopeSound`, `OffersAreCompatible`, `OptionsStopAtArguments`, `BestMatches`, `QueryContinuesToken`, `CommittedBeforeCursor`, `GeneratorCostsOnlyItself` of CompleteLine | `CompleteAssumption`: characters are told apart by their order, exclusions name options by their canonical name |
| `CorrectionTypeCorrect`, `CorrectionRankedBest`, `CorrectionNativeJustified`, `CorrectionNearestNotMissed`, `CorrectionReportsFirstBadRule` | `[]` of `TypeOK`, `RankedBest`, `NativeJustified`, `NearestNotMissed`, `FirstBadRuleReported` of Correction | `CorrectionAssumption`: names on `$PATH` are not empty, hold no slash and are finitely many |
| `CorrectionAdvances` | `Spec => EveryStepAdvances` | `CorrectionAssumption` |
| `NearIsTwoEdits` | `Near(a, b) <=> a # b /\ AtMostTwoEdits(a, b)` for all words | `CorrectionAssumption` |

The arguments, each resting on an inductive invariant:

**Runner.** `TypeOK` alone is not inductive: a call indexes `Run` and `Ttl` by its
request and stores its values, so `TypeInv` adds that a call in progress has a
request and one about to store has values. Of the resources `TypeOK` bounds the pipe by its
capacity and the reader's buffer by the cap. `HitJustified` speaks of the moment of
return; `CacheInv` carries it back: each entry expires within its producer's ttl
of the spawn of the process that produced it (`CacheSound`), because `put` counts
from the instant read before the spawn (`now[t] <= born[t]` in `CallSound`). That
holds whoever stores last. `ProcInv` says, for each place of a call, what is
known of child, reader and pipe; the three properties are instances of it at
"ret". RunnerCache and RunnerProcess check both invariants with TLC.

`ImplementsContract` is the refinement. A call is answered in the step that brings
it to "ret": `LookupHit` is the contract's `Remember`, `Refuse` its `Deny`,
`SpawnFail` and `JoinErr` its `Fail`, `Put` its `Produce`; `Call`, `Return` and
`Tick` are `Ask`, `End` and `Pass`, and every other step is not seen. The answering
steps need all the invariants: that a remembered result is of an allowed program
and young enough comes from `CacheInv`, that a produced one is within the cap from
`ProcInv`. A fourth, `WaitInv`, adds that no values exist before they are parsed,
that the deadline lies `Timeout` or more after the call began, and that an outcome
"Timeout" is only noted once that time has passed.

**Shared engine.** `TypeInv` is `TypeOK` with where calls (`CallInv`) and the load
(`PlaceInv`) can be: while the cell is busy the thread that loads is in `engine()`,
and a thread that handles a request has seen it ready. `SoundInv` adds `LoadInv`: at every place
of the load, what was scanned, sorted and read so far was on disk at some moment,
and what stayed there all along has not been passed over. The properties of the
finished engine are instances of it at the end of the load.

**Daemon.** `TypeOK` bounds what is held of a line: a chunk by the limit of the reader, the
text of a response by MAX + 1. `InOrderAtMostOnce` is not inductive by itself: it must be known where
in the lines the unread bytes are. `StreamInv` says that stdin is what is left of the
lines sent, byte for byte and in order, `LastInv` how it ends, `PastInv` that
responses are for lines read before it. `ReadInv` says that between two reads only
whole chunks of blanks of the next line are gone, `DrainInv` what has been read of
a long line and what comes next, its rest or, after one byte too many, the next
line, and `DoneInv` that nothing is left at the end. `NothingOwed` follows: the only line that
is ever lost stands behind one a single byte over the limit.

**History.** `Inv` is `TypeOK`, `BestContinuation` and `StoreInv`: the window of an
answer from the store is one that the SQL statement may return from the table as it
is. The loop of `distinct_recent_first` is unrolled by `LoopRuns` and `LoopOnly`
(below): what it keeps of each command is its most recent entry, so the first in the
ranked order is the documented best. Ties of the SQL order are open, which is why
`LastRecordedSuggested` needs `ClockKept`.

**Completion.** `Inv` is the types, `ScopeSound` and `StageInv` (for each phase, what is known
of cursor, candidates and items; `CursorSound` where options may be offered). `ScopeSound` is
inductive over the words: `uses` is the history of options given, `seen` and
`persistent` its summary. `QueryContinuesToken` relates two scanners, `lex` over the
line and `unquote` over a part of it: run side by side from the start of a token they
are in the same state after each character, and what both have collected is the same,
up to the cursor, where one of them stops. `CommittedBeforeCursor` compares the scan of the whole line with
that of the part before the cursor: tokens found stay found, a word under way becomes the
next token, and the tokens after it begin behind the cursor, so `committed` cuts exactly
there. `BestMatches` is a fact about `rank_top_n` for
any list of candidates: scores and text give an order of places, `Ranked` lists them
by it, and the cut leaves out only what comes behind `TopN` others. `GeneratorCostsOnlyItself`
follows with what `StageInv` says of `Collect`: the candidates an argument has of its own
are among those ranked, whatever its generator did.

**Correction.** The loop over the rules has `ControlOK` and `RuleInv`: no rule behind it
had to fail, and the rule it walks `$PATH` for is `no_command` or one whose conditions
hold. `Progress` orders rule, walk and directory in one number. `DataInv` adds what
is known of the corrections: they are what the rules proposed, except the failed command
itself, and an answer is `Merged` of them. That `Merged` is the best of its input
(`MergedBest`) is proved in three steps: text has a strict total order, hence so have the
candidates, by command and by rank; after the first sort the first of each command has the best origin, so
`dedup` keeps that one (`DedupFacts`); after the second, the cut drops only what ranks below
all that stays (`CutFacts`). For `TypeOK` the table of the edit distance must be
known to hold numbers: `RowsFacts` states the recurrence of its cells.

`NativeJustified` and `NearestNotMissed` speak of what `$PATH` held at some moment of the
request and at every one, so neither is inductive: `GhostInv` ties the walks to `ever` and
`always`. What is on `$PATH` now is in `ever`, and `always` is part of it; a directory that
`exists` has passed over did not hold the typed command then, so it is not in `always`
under a kind that resolves; a name that `path_commands` has counted was there as a file at
some moment, and one that is there at all moments is counted once the walk has
passed its directory (`WalkInv`). Of everything proposed `GhostInv` says that it is justified, and of
every rule behind the loop that it has proposed what it had to (`Complete`). Another process may
change `$PATH` between any two directories; that only adds to `ever` and takes from `always`.

Two facts join this to the properties. The table of distances agrees with edits of
the word (`NearIsTwoEdits`): where a cell holds at most 2, so many edits turn one of the
two prefixes into the other (`TableWithin`), and one edit of a word changes no cell of its table by more than one
(`ApartTables`), so words one edit apart have distance at most 1 and words two edits apart
at most 2; both are shown for the first cell, in the order of the table, that could fail.
And a script with another first word is another script (`OtherWordOtherScript`), so that what
a rule proposes is not dropped as the failed command itself. From there `BestOf` does the rest
(`ProposedAnswered`): the best origin of a command is answered, or all that is answered ranks above it.
`NativeJustified` is about rules whose id no rule of a rule file bears (`OnlyNative`): the
loader does not rule that out, and such a rule may propose anything.

**SequenceLemmas** holds what the others share. The provers cannot use an induction
rule that takes an operator; `LeastNat` gives the least element of a set of numbers, and
induction is by the least counterexample. `LoopRuns` and `LoopOnly` say that a
recursive function over `0 .. N` exists and is determined by its steps, which is
how the recursive functions of the models (the scanners, `Deduped`, `Joined`, `Rows`) are unrolled.
`RankLists` says that placing each element behind as many as come before it lists a finite
set in order, from which the facts about `Picked`, `Ranked` and stable sorts follow.

Only model-checked: liveness (`ReturnsUnlessHeld`, `CatchesUp`, `EveryCallReturns`), which
is out of the prover's reach, and the five violations, which are traces. Not proved either is what a
recursive definition computes for every input, except where a loop lemma unrolls
it (above): that the scanners of the tokenizer agree is proved, that their words are
those of a shell is not stated.

## 5. Not modelled, and abstractions

- Protocol types and the spec and rule files: serialisation and data. The scan of
  a malformed request for its id (`best_effort_id`), regex and splitting of
  generator output: pure text.
- Runner: the Windows branch, poisoned locks, children that ignore SIGPIPE,
  descendants that write. Programs on the allow
  list are resolved once, as in the code; `Installed` does not change.
- Daemon: JSON itself; a request that parses badly is answered like any other.
- History: one ASCII letter has two cases; rows are added and cleared only.
- Completion: characters instead of bytes (the code snaps a cursor to the start
  of a character), one kind of white space, separators of one character, scores
  without rounding, priorities within the 0..100 of SCHEMA.md, one spec per run (`spec_for` picks it by its base command).
  `CompleteAssumption` holds for the specs in `specs/`: whoever excludes an option
  lists its canonical name.
- Correction: one kind of white space; the list of
  `$PATH` directories is read once, when the engine is built, as in the code; what
  a directory holds is seen in one look at it (`path_commands` reads its entries
  one by one). A rule without `match` is one whose conditions are all absent.
- Shared engine: requests look a command up; what the handlers do with it is in
  the other modules. One directory level; file types "file" and "other". The host
  frees each string once, as the interface asks of it, and does not change its working directory
  during the load: a path stays relative only where `current_dir` fails, since that directory is gone. Data races of `setenv` with
  `getenv` in the host are outside the program.

## 6. Plan

Done: all modules of section 2, and the theorems of section 4: every safety and action
property of the passing runs is proved for all values of the constants.

Open, in this order:
1. `path_commands` as it reads a directory, entry by entry, instead of in one look; the
   ghosts `ever` and `always` would not change, and `WalkInv` would speak of entries.
2. Text of several bytes a character in the completion of a line, and the
   rounding of scores.
3. The hazards without a property (`PROJECT.json`, `hazards`): the cache key that leaves
   out how output is parsed, inline values cut at `=`, a history store that fails, and the
   lost count of repeats, for which the property one would state does not hold.

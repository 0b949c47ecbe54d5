-------------------------- MODULE HistoryAutosuggest --------------------------
(***************************************************************************)
(* The autosuggest request: the pure algorithm of core/src/history.rs, the  *)
(* SQLite table of history-store/src/lib.rs that stands in for the host's   *)
(* history window, and Engine::handle_autosuggest, which picks one.         *)
(*                                                                         *)
(* A command is a sequence of characters.  Hosts record into the same       *)
(* database the engine reads; each statement is atomic.  SQL leaves the     *)
(* order of rows with equal timestamps open, so recent may return any.      *)
(***************************************************************************)
EXTENDS Integers, Sequences, FiniteSets, SequencesExt

CONSTANTS
    Commands,      \* commands a host records or sends
    Typed,         \* prefixes a host asks about
    Cwds,          \* working directories
    NoCwd,         \* cwd absent (NULL in the table, None in a request)
    NoTs,          \* ts absent from an entry of a host's window
    NoSuggestion,  \* None
    HostWindows,   \* history windows a host sends with a request
    WindowLimit,   \* the 50 of autosuggest_from_store
    Seconds,       \* values of the wall clock, which may be set back
    MaxRows        \* bound: rows of the table

VARIABLES
    clock,     \* strftime('%s','now')
    rows,      \* history_entries, in order of id
    attached,  \* the engine has opened its history store
    answer     \* the response the engine has computed, or Quiet

vars == <<clock, rows, attached, answer>>

MaybeCwd == Cwds \cup {NoCwd}

Entry == [command : Commands, cwd : MaybeCwd, ts : Seconds \cup {NoTs}]

ASSUME HistoryAssumption ==
    /\ Commands \cup Typed \subseteq Seq(STRING) /\ HostWindows \subseteq Seq(Entry)
    /\ WindowLimit \in Nat \ {0} /\ MaxRows \in Nat
    /\ Seconds \subseteq Nat /\ Seconds # {}
    /\ NoCwd \notin Cwds /\ NoTs \notin Seconds /\ NoSuggestion \notin Commands

Quiet == [from |-> "none"]

-----------------------------------------------------------------------------
(* core/src/history.rs *)

\* i is before j most-recent-first: by ts if every entry has one, stably, else
\* as given.
Precedes(entries, i, j) ==
    IF \A k \in DOMAIN entries : entries[k].ts # NoTs
    THEN \/ entries[i].ts > entries[j].ts
         \/ entries[i].ts = entries[j].ts /\ i < j
    ELSE i < j

\* Fault: entries are sorted oldest first.
oldest_first_order(entries) ==
    LET Before(i) == {j \in DOMAIN entries : Precedes(entries, i, j)}
    IN [p \in DOMAIN entries |->
          entries[CHOOSE i \in DOMAIN entries : Cardinality(Before(i)) = p - 1]]

recent_first_order(entries) ==
    LET Before(i) == {j \in DOMAIN entries : Precedes(entries, j, i)}
    IN [p \in DOMAIN entries |->
          entries[CHOOSE i \in DOMAIN entries : Cardinality(Before(i)) = p - 1]]

\* One candidate per command: the cwd of its first entry, the count of all.
AddEntry(candidates, e) ==
    LET seen == {i \in DOMAIN candidates : candidates[i].command = e.command}
    IN IF seen # {}
       THEN [candidates EXCEPT ![CHOOSE i \in seen : TRUE].count = @ + 1]
       ELSE Append(candidates, [command |-> e.command, cwd |-> e.cwd, count |-> 1])

\* The candidates after each turn of the loop over the ordered entries.
Deduped(ordered) ==
    LET candidates[n \in 0 .. Len(ordered)] ==
            IF n = 0 THEN <<>> ELSE AddEntry(candidates[n - 1], ordered[n])
    IN candidates

distinct_recent_first(entries) ==
    LET ordered == recent_first_order(entries) IN Deduped(ordered)[Len(ordered)]

\* (cwd match, recency, frequency), compared from the left.
rank_key(c, dedupe_index, req_cwd) ==
    <<IF req_cwd # NoCwd /\ c.cwd = req_cwd THEN 1 ELSE 0, -dedupe_index, c.count>>

KeyGeq(a, b) ==
    \/ a[1] > b[1]
    \/ a[1] = b[1] /\ a[2] > b[2]
    \/ a[1] = b[1] /\ a[2] = b[2] /\ a[3] >= b[3]

\* Fault: the window is trusted to hold matching commands only.
autosuggest_unfiltered(prefix, entries, cwd) ==
    LET cs == distinct_recent_first(entries)
        best == {i \in DOMAIN cs : \A j \in DOMAIN cs :
                   KeyGeq(rank_key(cs[i], i, cwd), rank_key(cs[j], j, cwd))}
    IN IF cs = <<>> THEN NoSuggestion ELSE cs[CHOOSE i \in best : TRUE].command

autosuggest(prefix, entries, cwd) ==
    LET cs == distinct_recent_first(entries)
        matching == {i \in DOMAIN cs : IsPrefix(prefix, cs[i].command)}
        best == {i \in matching : \A j \in matching :
                   KeyGeq(rank_key(cs[i], i, cwd), rank_key(cs[j], j, cwd))}
    IN IF matching = {} THEN NoSuggestion
       ELSE cs[CHOOSE i \in best : TRUE].command

-----------------------------------------------------------------------------
(* history-store/src/lib.rs *)

Lower(c) == IF c = "G" THEN "g" ELSE c

\* SQL's command LIKE prefix || '%': ASCII case is ignored, "_" stands for any
\* character and "%" for any run of them.  at[i] is how much of the command the
\* first i characters of the pattern cover.
Like(prefix, command) ==
    \E at \in [0 .. Len(prefix) -> 0 .. Len(command)] :
        /\ at[0] = 0
        /\ \A i \in 1 .. Len(prefix) :
             \/ prefix[i] = "%" /\ at[i] >= at[i - 1]
             \/ /\ at[i] = at[i - 1] + 1
                /\ prefix[i] = "_" \/ Lower(prefix[i]) = Lower(command[at[i]])

\* Fault: the table is not filtered by cwd.
SelectedAnywhere(prefix, cwd) ==
    {i \in DOMAIN rows : Like(prefix, rows[i].command)}

\* WHERE: a NULL cwd equals nothing.
Selected(prefix, cwd) ==
    {i \in DOMAIN rows : /\ Like(prefix, rows[i].command)
                         /\ cwd # NoCwd => rows[i].cwd = cwd}

\* Fault: the oldest rows come first, as without DESC, and the limit is lost.
recent_ascending(prefix, limit, cwd) ==
    LET found == Selected(prefix, cwd)
    IN {w \in [1 .. Cardinality(found) -> found] :
          \A i, j \in DOMAIN w : i < j => w[i] # w[j] /\ rows[w[i]].ts <= rows[w[j]].ts}

\* ORDER BY timestamp DESC LIMIT limit, in terms of row ids.
recent(prefix, limit, cwd) ==
    LET found == Selected(prefix, cwd)
        n == IF Cardinality(found) < limit THEN Cardinality(found) ELSE limit
    IN {w \in [1 .. n -> found] :
          /\ \A i, j \in 1 .. n : i < j => w[i] # w[j] /\ rows[w[i]].ts >= rows[w[j]].ts
          /\ \A i \in 1 .. n : \A k \in found \ Range(w) : rows[w[i]].ts >= rows[k].ts}

Record(command, cwd) ==
    /\ Len(rows) < MaxRows
    /\ rows' = Append(rows, [command |-> command, cwd |-> cwd, ts |-> clock])
    /\ UNCHANGED <<clock, attached, answer>>

Clear ==
    /\ rows # <<>>
    /\ rows' = <<>>
    /\ UNCHANGED <<clock, attached, answer>>

SetClock(n) ==
    /\ n # clock
    /\ clock' = n
    /\ UNCHANGED <<rows, attached, answer>>

-----------------------------------------------------------------------------
(* Engine::handle_autosuggest *)

Answer(from, prefix, cwd, window, ids, suggestion) ==
    answer' = [from |-> from, prefix |-> prefix, cwd |-> cwd,
               window |-> window, ids |-> ids, suggestion |-> suggestion]

\* The request carries a history window.
AskWithWindow(prefix, cwd, window) ==
    /\ Answer("host", prefix, cwd, window, <<>>, autosuggest(prefix, window, cwd))
    /\ UNCHANGED <<clock, rows, attached>>

\* No window: autosuggest_from_store.
AskStore(prefix, cwd) ==
    /\ attached
    /\ \E ids \in recent(prefix, WindowLimit, cwd) :
         LET window == [i \in DOMAIN ids |-> rows[ids[i]]]
         IN Answer("store", prefix, cwd, window, ids,
                   autosuggest(prefix, window, cwd))
    /\ UNCHANGED <<clock, rows, attached>>

\* The store is missing, poisoned or the query fails (the database is locked).
AskStoreFails(prefix, cwd) ==
    /\ Answer("nothing", prefix, cwd, <<>>, <<>>, NoSuggestion)
    /\ UNCHANGED <<clock, rows, attached>>

-----------------------------------------------------------------------------
\* load_with_history: a store that cannot be opened is left out with a warning.
Init ==
    /\ clock \in Seconds
    /\ rows = <<>>
    /\ attached \in BOOLEAN
    /\ answer = Quiet

\* Bound: AskWithWindow does not read the table, so it is explored with an
\* empty one.
TableUnused == rows = <<>>

\* The transport takes the response.
Deliver ==
    /\ answer # Quiet
    /\ answer' = Quiet
    /\ UNCHANGED <<clock, rows, attached>>

\* The query is one SQL statement and the rest of a request reads only its
\* result, so nothing is lost by not interleaving other steps with a response.
Idle == answer = Quiet

Next ==
    \/ Idle /\ \E c \in Commands, d \in MaybeCwd : Record(c, d)
    \/ Idle /\ Clear
    \/ Idle /\ \E n \in Seconds : SetClock(n)
    \/ Deliver
    \/ Idle /\ \E p \in Typed, d \in MaybeCwd :
         \/ \E w \in HostWindows : TableUnused /\ AskWithWindow(p, d, w)
         \/ AskStore(p, d)
         \/ AskStoreFails(p, d)

Spec == Init /\ [][Next]_vars

-----------------------------------------------------------------------------
(* Properties *)

Row == [command : Commands, cwd : MaybeCwd, ts : Seconds]

Response ==
    [from : {"host", "store", "nothing"}, prefix : Typed, cwd : MaybeCwd,
     window : Seq(Entry), ids : Seq(Nat), suggestion : Commands \cup {NoSuggestion}]

\* The type of the table and of the response: every row has a timestamp, and
\* the store never returns more rows than the limit.
TypeOK ==
    /\ clock \in Seconds /\ attached \in BOOLEAN
    /\ rows \in Seq(Row) /\ Len(rows) <= MaxRows
    /\ answer \in Response \cup {Quiet}
    /\ answer # Quiet => Len(answer.ids) <= WindowLimit

\* The rows that start with the prefix exactly, recorded in the cwd if there is one.
Recorded(prefix, cwd) ==
    {i \in DOMAIN rows : /\ IsPrefix(prefix, rows[i].command)
                         /\ cwd # NoCwd => rows[i].cwd = cwd}

\* A suggestion from the store is a command in the table that starts with the
\* prefix exactly, and was recorded in the request's cwd if there is one
\* (lib.rs:247-259), although LIKE matches more than prefixes.
SuggestionIsRecorded ==
    answer.from = "store" /\ answer.suggestion # NoSuggestion =>
        \E i \in Recorded(answer.prefix, answer.cwd) : rows[i].command = answer.suggestion

\* The newest entry of its command in the window.
IsNewest(entries, i) ==
    ~\E j \in DOMAIN entries :
        entries[j].command = entries[i].command /\ Precedes(entries, j, i)

\* Entry i is the newest of a command that starts with the prefix.
Starts(prefix, es, i) == IsPrefix(prefix, es[i].command) /\ IsNewest(es, i)

\* Entry i was used in the request's cwd.
Here(cwd, es, i) == cwd # NoCwd /\ es[i].cwd = cwd

\* Entry i comes before entry j: those used in the request's cwd first, then by age.
Preferred(cwd, es, i, j) ==
    \/ Here(cwd, es, i) /\ ~Here(cwd, es, j)
    \/ (Here(cwd, es, i) <=> Here(cwd, es, j)) /\ Precedes(es, i, j)

Documented(prefix, es, cwd, suggestion) ==
    IF suggestion = NoSuggestion
    THEN \A i \in DOMAIN es : ~Starts(prefix, es, i)
    ELSE \E i \in DOMAIN es :
           /\ Starts(prefix, es, i) /\ es[i].command = suggestion
           /\ \A j \in DOMAIN es : Starts(prefix, es, j) /\ j # i => Preferred(cwd, es, i, j)

\* The suggestion is the documented one (history.rs:13-31): the newest command
\* that starts with the prefix, those last used in the request's cwd first, and
\* nothing only if no command of the window starts with the prefix.
BestContinuation ==
    answer # Quiet =>
        Documented(answer.prefix, answer.window, answer.cwd, answer.suggestion)

\* For the proofs: the window of a response from the store is one that recent may
\* return from the table, which Idle keeps as it is until the response is taken.
StoreInv ==
    answer.from = "store" =>
        /\ answer.ids \in recent(answer.prefix, WindowLimit, answer.cwd)
        /\ answer.window = [i \in DOMAIN answer.ids |-> rows[answer.ids[i]]]

\* Rows recorded at different seconds, by a clock that was not set back.
ClockKept == \A i, j \in DOMAIN rows : i < j => rows[i].ts < rows[j].ts

\* With a clock that told the rows apart and no more rows than the limit, the
\* store suggests the last recorded command that starts with the prefix
\* (lib.rs:77-117, 247-259): the rows LIKE adds never displace it.
LastRecordedSuggested ==
    answer.from = "store" /\ ClockKept
    /\ Cardinality(Selected(answer.prefix, answer.cwd)) <= WindowLimit =>
        LET matches == Recorded(answer.prefix, answer.cwd)
        IN IF matches = {} THEN answer.suggestion = NoSuggestion
           ELSE \E i \in matches : /\ \A j \in matches : j <= i
                                   /\ rows[i].command = answer.suggestion
=============================================================================

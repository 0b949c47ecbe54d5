----------------------- MODULE HistoryAutosuggestProofs -----------------------
(***************************************************************************)
(* Proofs about HistoryAutosuggest: what the algorithm of core/src/history.rs *)
(* picks from any window of any length, and what that means for the store.   *)
(***************************************************************************)
EXTENDS HistoryAutosuggest, SequenceLemmas, TLAPS

-----------------------------------------------------------------------------
(* The order of the entries *)

\* Most-recent-first is a strict total order of the entries of a window.
LEMMA PrecedesOrders ==
    ASSUME NEW es \in Seq(Entry)
    PROVE  /\ \A i \in DOMAIN es : ~Precedes(es, i, i)
           /\ \A i, j, k \in DOMAIN es :
                Precedes(es, i, j) /\ Precedes(es, j, k) => Precedes(es, i, k)
           /\ \A i, j \in DOMAIN es : i # j => Precedes(es, i, j) \/ Precedes(es, j, i)
<1>1. DOMAIN es \subseteq Nat
  OBVIOUS
<1>2. CASE \A k \in DOMAIN es : es[k].ts # NoTs
  <2>1. \A k \in DOMAIN es : es[k].ts \in Nat
    <3>0. \A k \in DOMAIN es : es[k] \in Entry
      OBVIOUS
    <3>1. \A k \in DOMAIN es : es[k].ts \in Seconds \cup {NoTs}
      BY <3>0 DEF Entry
    <3>2. QED
      BY <1>2, <3>1, HistoryAssumption
  <2>2. \A i, j : Precedes(es, i, j) <=> \/ es[i].ts > es[j].ts
                                         \/ es[i].ts = es[j].ts /\ i < j
    BY <1>2 DEF Precedes
  <2>3. QED
    BY <1>1, <2>1, <2>2
<1>3. CASE ~\A k \in DOMAIN es : es[k].ts # NoTs
  <2>1. \A i, j : Precedes(es, i, j) <=> i < j
    BY <1>3 DEF Precedes
  <2>2. QED
    BY <1>1, <2>1
<1>4. QED
  BY <1>2, <1>3

\* recent_first_order arranges the entries in that order: all of them, each once.
Arranged(es, os, place) ==
    /\ os \in Seq(Entry) /\ Len(os) = Len(es) /\ Len(es) \in Nat
    /\ place \in [1 .. Len(es) -> 1 .. Len(es)]
    /\ \A p \in 1 .. Len(es) : os[p] = es[place[p]]
    /\ \A p, q \in 1 .. Len(es) : p < q => Precedes(es, place[p], place[q])
    /\ \A i \in 1 .. Len(es) : \E p \in 1 .. Len(es) : place[p] = i

\* Such an arrangement is what sort_by_key computes.
LEMMA OrderFacts ==
    ASSUME NEW es \in Seq(Entry)
    PROVE  \E place : Arranged(es, recent_first_order(es), place)
<1>1. PICK n \in Nat : n = Len(es)
  OBVIOUS
<1>2. PICK S : S = 1 .. n
  OBVIOUS
<1>3. DOMAIN es = S /\ \A i \in S : es[i] \in Entry
  BY <1>1, <1>2
<1>4. IsFiniteSet(S) /\ Cardinality(S) = n
  <2>1. 1 \in Int /\ n \in Int
    BY <1>1
  <2>2. IsFiniteSet(S) /\ Cardinality(S) = IF 1 > n THEN 0 ELSE n - 1 + 1
    BY <1>2, <2>1, FS_Interval, Zenon
  <2>3. QED
    BY <1>1, <2>2
<1> DEFINE R == {x \in S \X S : Precedes(es, x[1], x[2])}
           Before(i) == {j \in DOMAIN es : Precedes(es, j, i)}
           place == [p \in 1 .. n |-> CHOOSE i \in DOMAIN es : Cardinality(Before(i)) = p - 1]
           os == recent_first_order(es)
<1>5. \A i, j \in S : <<i, j>> \in R <=> Precedes(es, i, j)
  OBVIOUS
<1> HIDE DEF R
<1>6. \A i \in S : Under(S, R, i) = Before(i)
  BY <1>3, <1>5 DEF Under
<1>7. StrictOrder(S, R)
  BY <1>3, <1>5, PrecedesOrders DEF StrictOrder
<1>8. os = [p \in 1 .. n |-> es[place[p]]]
  BY <1>2, <1>3 DEF recent_first_order
<1>9. Lists(place, S, R)
  <2>1. ASSUME NEW p \in 1 .. n, NEW i \in S, Cardinality(Under(S, R, i)) = p - 1
        PROVE  place[p] \in S /\ Cardinality(Under(S, R, place[p])) = p - 1
    <3>1. i \in DOMAIN es /\ Cardinality(Before(i)) = p - 1
      BY <1>3, <1>6, <2>1
    <3> HIDE DEF Before
    <3>2. place[p] \in DOMAIN es /\ Cardinality(Before(place[p])) = p - 1
      BY <3>1
    <3> HIDE DEF place
    <3>3. QED
      BY <1>3, <1>6, <3>2
  <2>2. place = [p \in 1 .. n |-> place[p]]
    <3> HIDE DEF Before
    <3>1. QED
      OBVIOUS
  <2> HIDE DEF place
  <2>3. QED
    BY <1>4, <1>7, <2>1, <2>2, RankLists
<1> HIDE DEF place, os
<1>10. /\ place \in [1 .. n -> 1 .. n]
       /\ \A p, q \in 1 .. n : p < q => Precedes(es, place[p], place[q])
       /\ \A i \in 1 .. n : \E p \in 1 .. n : place[p] = i
  BY <1>2, <1>4, <1>5, <1>9 DEF Lists
<1>11. os \in Seq(Entry) /\ Len(os) = n /\ \A p \in 1 .. n : os[p] = es[place[p]]
  <2>1. \A p \in 1 .. n : es[place[p]] \in Entry
    BY <1>2, <1>3, <1>10
  <2>2. os \in [1 .. n -> Entry]
    BY <1>8, <2>1
  <2>3. QED
    BY <1>1, <1>8, <2>2
<1>12. Arranged(es, os, place)
  BY <1>1, <1>10, <1>11, Zenon DEF Arranged
<1>13. QED
  BY <1>12 DEF os

-----------------------------------------------------------------------------
(* The loop that drops duplicates *)

Candidate == [command : Commands, cwd : MaybeCwd, count : Nat]

\* The invariant of the loop of distinct_recent_first after n entries: there is one
\* candidate for each command so far, that of its first entry, in their order.
Distinct(os, n, cs, first) ==
    /\ cs \in Seq(Candidate) /\ Len(cs) \in Nat
    /\ first \in [1 .. Len(cs) -> 1 .. n]
    /\ \A a, b \in 1 .. Len(cs) : a < b => first[a] < first[b]
    /\ \A a \in 1 .. Len(cs) :
         /\ cs[a].command = os[first[a]].command /\ cs[a].cwd = os[first[a]].cwd
         /\ \A q \in 1 .. n : os[q].command = cs[a].command => first[a] <= q
    /\ \A q \in 1 .. n : \E a \in 1 .. Len(cs) : cs[a].command = os[q].command

\* One turn of the loop keeps it.
LEMMA AddEntryKeeps ==
    ASSUME NEW os \in Seq(Entry), NEW n \in 0 .. Len(os) - 1, NEW cs, NEW first,
           Distinct(os, n, cs, first)
    PROVE  \E next : Distinct(os, n + 1, AddEntry(cs, os[n + 1]), next)
<1> DEFINE e == os[n + 1]
           seen == {i \in DOMAIN cs : cs[i].command = e.command}
           i == CHOOSE i \in seen : TRUE
           more == AddEntry(cs, e)
           k == Len(cs)
<1>1. /\ cs \in Seq(Candidate) /\ k \in Nat /\ DOMAIN cs = 1 .. k
      /\ \A a \in 1 .. k : cs[a] \in Candidate
      /\ first \in [1 .. k -> 1 .. n] /\ n \in Nat /\ n + 1 \in 1 .. Len(os)
      /\ \A a, b \in 1 .. k : a < b => first[a] < first[b]
      /\ \A a \in 1 .. k : cs[a].command = os[first[a]].command /\ cs[a].cwd = os[first[a]].cwd
      /\ \A a \in 1 .. k : \A q \in 1 .. n : os[q].command = cs[a].command => first[a] <= q
      /\ \A q \in 1 .. n : \E a \in 1 .. k : cs[a].command = os[q].command
  BY DEF Distinct
<1>2. e \in Entry /\ e.command \in Commands /\ e.cwd \in MaybeCwd
  <2>1. e \in Entry
    BY <1>1
  <2>2. QED
    BY <2>1 DEF Entry
<1> HIDE DEF e, k
<1>3. CASE seen # {}
  <2>1. i \in 1 .. k /\ cs[i].command = e.command
    BY <1>1, <1>3
  <2>2. more = [cs EXCEPT ![i].count = cs[i].count + 1]
    BY <1>3 DEF AddEntry
  <2> HIDE DEF i, seen, more
  <2>3. cs[i] \in Candidate /\ cs[i].count \in Nat
    BY <1>1, <2>1 DEF Candidate
  <2> DEFINE c == [cs[i] EXCEPT !.count = cs[i].count + 1]
  <2>4. c \in Candidate /\ c.command = cs[i].command /\ c.cwd = cs[i].cwd
    BY <2>3 DEF Candidate
  <2>5. more = [cs EXCEPT ![i] = c]
    BY <2>2
  <2> HIDE DEF c
  <2>6. /\ more \in Seq(Candidate) /\ Len(more) = k
        /\ \A a \in 1 .. k : more[a] = IF a = i THEN c ELSE cs[a]
    BY <1>1, <2>1, <2>4, <2>5 DEF k
  <2>7. \A a \in 1 .. k : more[a].command = cs[a].command /\ more[a].cwd = cs[a].cwd
    BY <2>4, <2>6
  <2>8. first \in [1 .. k -> 1 .. n + 1]
    BY <1>1
  <2>9. \A a \in 1 .. k : \A q \in 1 .. n + 1 : os[q].command = cs[a].command => first[a] <= q
    <3>1. SUFFICES ASSUME NEW a \in 1 .. k, NEW q \in 1 .. n + 1, os[q].command = cs[a].command
                   PROVE  first[a] <= q
      OBVIOUS
    <3>2. first[a] \in 1 .. n
      BY <1>1
    <3>3. CASE q \in 1 .. n
      BY <1>1, <3>1, <3>3
    <3>4. CASE q = n + 1
      BY <1>1, <3>2, <3>4
    <3>5. QED
      BY <1>1, <3>3, <3>4
  <2>10. \A q \in 1 .. n + 1 : \E a \in 1 .. k : cs[a].command = os[q].command
    <3>1. SUFFICES ASSUME NEW q \in 1 .. n + 1 PROVE \E a \in 1 .. k : cs[a].command = os[q].command
      OBVIOUS
    <3>2. q \in 1 .. n \/ q = n + 1
      BY <1>1
    <3>3. QED
      BY <1>1, <2>1, <3>2 DEF e
  <2>11. Distinct(os, n + 1, more, first)
    <3>1. \A a \in 1 .. k :
            /\ more[a].command = os[first[a]].command /\ more[a].cwd = os[first[a]].cwd
            /\ \A q \in 1 .. n + 1 : os[q].command = more[a].command => first[a] <= q
      BY <1>1, <2>7, <2>9
    <3>2. \A q \in 1 .. n + 1 : \E a \in 1 .. k : more[a].command = os[q].command
      BY <2>7, <2>10
    <3>3. \A a, b \in 1 .. k : a < b => first[a] < first[b]
      BY <1>1
    <3>4. k \in Nat /\ Len(more) = k /\ more \in Seq(Candidate)
      BY <1>1, <2>6
    <3>5. QED
      BY <2>8, <3>1, <3>2, <3>3, <3>4, Zenon DEF Distinct
  <2>12. QED
    BY <2>11 DEF more, e
<1>4. CASE seen = {}
  <2> DEFINE c == [command |-> e.command, cwd |-> e.cwd, count |-> 1]
             next == [a \in 1 .. k + 1 |-> IF a = k + 1 THEN n + 1 ELSE first[a]]
  <2>1. more = Append(cs, c)
    BY <1>4 DEF AddEntry
  <2>2. c \in Candidate /\ c.command = e.command /\ c.cwd = e.cwd
    BY <1>2 DEF Candidate
  <2>3. \A a \in 1 .. k : cs[a].command # e.command
    BY <1>1, <1>4
  <2> HIDE DEF c, seen, more
  <2>4. /\ more \in Seq(Candidate) /\ Len(more) = k + 1 /\ more[k + 1] = c
        /\ \A a \in 1 .. k : more[a] = cs[a]
    BY <1>1, <2>1, <2>2 DEF k
  <2>5. /\ next \in [1 .. k + 1 -> 1 .. n + 1] /\ next[k + 1] = n + 1
        /\ \A a \in 1 .. k : next[a] = first[a] /\ next[a] \in 1 .. n
    <3>1. \A a \in 1 .. k + 1 : (IF a = k + 1 THEN n + 1 ELSE first[a]) \in 1 .. n + 1
      <4>1. \A a \in 1 .. k + 1 : a = k + 1 \/ a \in 1 .. k
        BY <1>1
      <4>2. \A a \in 1 .. k : first[a] \in 1 .. n + 1
        BY <1>1
      <4>3. n + 1 \in 1 .. n + 1
        BY <1>1
      <4>4. QED
        BY <4>1, <4>2, <4>3
    <3>2. k + 1 \in 1 .. k + 1 /\ \A a \in 1 .. k : a \in 1 .. k + 1 /\ a # k + 1
      BY <1>1
    <3>3. QED
      BY <1>1, <3>1, <3>2
  <2> HIDE DEF next
  <2>6. \A a \in 1 .. k + 1 : a = k + 1 \/ a \in 1 .. k
    BY <1>1
  <2>7. \A a, b \in 1 .. k + 1 : a < b => next[a] < next[b]
    <3>1. SUFFICES ASSUME NEW a \in 1 .. k + 1, NEW b \in 1 .. k + 1, a < b PROVE next[a] < next[b]
      OBVIOUS
    <3>2. a \in 1 .. k
      BY <1>1, <3>1
    <3>3. CASE b = k + 1
      BY <1>1, <2>5, <3>2, <3>3
    <3>4. CASE b \in 1 .. k
      BY <1>1, <2>5, <3>1, <3>2, <3>4
    <3>5. QED
      BY <2>6, <3>3, <3>4
  <2>8. ASSUME NEW a \in 1 .. k + 1
        PROVE  /\ more[a].command = os[next[a]].command /\ more[a].cwd = os[next[a]].cwd
               /\ \A q \in 1 .. n + 1 : os[q].command = more[a].command => next[a] <= q
    <3>1. CASE a = k + 1
      <4>1. more[a] = c /\ next[a] = n + 1 /\ os[next[a]] = e
        BY <2>4, <2>5, <3>1 DEF e
      <4>2. ASSUME NEW q \in 1 .. n + 1, os[q].command = more[a].command PROVE next[a] <= q
        <5>1. ~(q \in 1 .. n)
          BY <1>1, <2>2, <2>3, <4>1, <4>2
        <5>2. QED
          BY <1>1, <4>1, <5>1
      <4>3. QED
        BY <2>2, <4>1, <4>2
    <3>2. CASE a \in 1 .. k
      <4>1. more[a] = cs[a] /\ next[a] = first[a] /\ next[a] \in 1 .. n
        BY <2>4, <2>5, <3>2
      <4>2. ASSUME NEW q \in 1 .. n + 1, os[q].command = more[a].command PROVE next[a] <= q
        <5>1. CASE q \in 1 .. n
          BY <1>1, <3>2, <4>1, <4>2, <5>1
        <5>2. CASE q = n + 1
          BY <1>1, <4>1, <5>2
        <5>3. QED
          BY <1>1, <5>1, <5>2
      <4>3. QED
        BY <1>1, <3>2, <4>1, <4>2
    <3>3. QED
      BY <2>6, <3>1, <3>2
  <2>9. ASSUME NEW q \in 1 .. n + 1 PROVE \E a \in 1 .. k + 1 : more[a].command = os[q].command
    <3>1. CASE q = n + 1
      <4>1. k + 1 \in 1 .. k + 1
        BY <1>1
      <4>2. QED
        BY <2>2, <2>4, <3>1, <4>1 DEF e
    <3>2. CASE q \in 1 .. n
      <4>1. PICK a \in 1 .. k : cs[a].command = os[q].command
        BY <1>1, <3>2
      <4>2. a \in 1 .. k + 1
        BY <1>1
      <4>3. QED
        BY <2>4, <4>1, <4>2
    <3>3. QED
      BY <1>1, <3>1, <3>2
  <2>10. Distinct(os, n + 1, more, next)
    BY <1>1, <2>4, <2>5, <2>7, <2>8, <2>9 DEF Distinct
  <2>11. QED
    BY <2>10 DEF more, e
<1>5. QED
  BY <1>3, <1>4

\* One turn of the loop, as a function of the turns before it.
Turn(os, f, k) == IF k = 0 THEN <<>> ELSE AddEntry(f[k - 1], os[k])

\* The loop runs: there is a function with its turns as values.
LEMMA LoopExists ==
    ASSUME NEW os, NEW N \in Nat
    PROVE  \E f : f = [k \in 0 .. N |-> Turn(os, f, k)]
<1> DEFINE Runs(n) == \E f : f = [k \in 0 .. n |-> Turn(os, f, k)]
           bad == {n \in Nat : ~Runs(n)}
<1>1. SUFFICES ASSUME bad # {} PROVE FALSE
  OBVIOUS
<1>2. PICK m \in bad : \A j \in bad : m <= j
  <2>1. bad \in SUBSET Nat
    OBVIOUS
  <2> HIDE DEF bad
  <2>2. QED
    BY <1>1, <2>1, LeastNat
<1>3. m \in Nat /\ ~Runs(m)
  BY <1>2
<1>4. m # 0
  <2>1. SUFFICES ASSUME m = 0 PROVE FALSE
    OBVIOUS
  <2> DEFINE f == [k \in 0 .. 0 |-> <<>>]
  <2>2. f = [k \in 0 .. 0 |-> Turn(os, f, k)]
    <3> HIDE DEF f
    <3>1. \A k \in 0 .. 0 : Turn(os, f, k) = <<>>
      BY DEF Turn
    <3>2. QED
      BY <3>1 DEF f
  <2>3. QED
    BY <1>3, <2>1, <2>2
<1>5. m - 1 \in Nat /\ Runs(m - 1)
  <2>1. m - 1 \in Nat /\ ~(m <= m - 1)
    BY <1>3, <1>4
  <2>2. QED
    BY <1>2, <2>1
<1>6. PICK f : f = [k \in 0 .. m - 1 |-> Turn(os, f, k)]
  BY <1>5
<1> DEFINE g == [k \in 0 .. m |-> IF k = m THEN Turn(os, f, m) ELSE f[k]]
<1>7. \A k \in 0 .. m : g[k] = Turn(os, g, k)
  <2>1. SUFFICES ASSUME NEW k \in 0 .. m PROVE g[k] = Turn(os, g, k)
    OBVIOUS
  <2>2. k # 0 => k - 1 \in 0 .. m /\ k - 1 # m
    BY <1>3
  <2>3. k # 0 => g[k - 1] = f[k - 1]
    BY <2>2
  <2>4. g[k] = Turn(os, f, k)
    <3>1. CASE k = m
      BY <1>3, <3>1
    <3>2. CASE k # m
      <4>1. k \in 0 .. m - 1
        BY <1>3, <3>2
      <4>2. f[k] = Turn(os, f, k)
        BY <1>6, <4>1
      <4>3. QED
        BY <3>2, <4>2
    <3>3. QED
      BY <3>1, <3>2
  <2> HIDE DEF g
  <2>5. QED
    BY <2>3, <2>4 DEF Turn
<1>8. g = [k \in 0 .. m |-> g[k]]
  OBVIOUS
<1> HIDE DEF g
<1>9. g = [k \in 0 .. m |-> Turn(os, g, k)]
  BY <1>7, <1>8
<1>10. QED
  BY <1>3, <1>9

\* So Deduped is that function.
LEMMA DedupedTurns ==
    ASSUME NEW os \in Seq(Entry)
    PROVE  /\ Deduped(os)[0] = <<>>
           /\ \A n \in 0 .. Len(os) - 1 : Deduped(os)[n + 1] = AddEntry(Deduped(os)[n], os[n + 1])
<1> DEFINE N == Len(os)
           d == Deduped(os)
<1>1. N \in Nat
  OBVIOUS
<1>2. \E f : f = [k \in 0 .. N |-> Turn(os, f, k)]
  BY <1>1, LoopExists
<1>3. d = CHOOSE f : f = [k \in 0 .. N |-> Turn(os, f, k)]
  BY DEF Deduped, Turn
<1> HIDE DEF d
<1>4. d = [k \in 0 .. N |-> Turn(os, d, k)]
  BY <1>2, <1>3, Zenon
<1>5. \A k \in 0 .. N : d[k] = Turn(os, d, k)
  BY <1>4
<1>6. d[0] = <<>>
  <2>1. 0 \in 0 .. N
    BY <1>1
  <2>2. QED
    BY <1>5, <2>1 DEF Turn
<1>7. ASSUME NEW n \in 0 .. N - 1 PROVE d[n + 1] = AddEntry(d[n], os[n + 1])
  <2>1. n + 1 \in 0 .. N /\ n + 1 # 0 /\ (n + 1) - 1 = n
    BY <1>1
  <2>2. QED
    BY <1>5, <2>1 DEF Turn
<1>8. QED
  BY <1>6, <1>7 DEF d

\* The invariant of the loop holds after every turn.
LEMMA DedupedDistinct ==
    ASSUME NEW os \in Seq(Entry)
    PROVE  \E first : Distinct(os, Len(os), Deduped(os)[Len(os)], first)
<1> DEFINE N == Len(os)
           d == Deduped(os)
           Holds(n) == \E first : Distinct(os, n, d[n], first)
           bad == {n \in 0 .. N : ~Holds(n)}
<1>1. N \in Nat
  OBVIOUS
<1>2. d[0] = <<>> /\ \A n \in 0 .. N - 1 : d[n + 1] = AddEntry(d[n], os[n + 1])
  BY DedupedTurns
<1> HIDE DEF d
<1>3. Holds(0)
  <2> DEFINE first == [a \in 1 .. 0 |-> a]
  <2>1. d[0] \in Seq(Candidate) /\ Len(d[0]) = 0 /\ first \in [1 .. 0 -> 1 .. 0]
    BY <1>2
  <2>2. \A q \in 1 .. 0 : FALSE
    OBVIOUS
  <2> HIDE DEF first
  <2>3. Distinct(os, 0, d[0], first)
    BY <2>1, <2>2 DEF Distinct
  <2>4. QED
    BY <2>3
<1>4. SUFFICES ASSUME bad # {} PROVE FALSE
  <2>1. N \in 0 .. N
    BY <1>1
  <2>2. ASSUME bad = {} PROVE Holds(N)
    BY <2>1, <2>2
  <2>3. QED
    BY <2>2 DEF d
<1>5. PICK m \in bad : \A j \in bad : m <= j
  <2>1. bad \in SUBSET Nat
    BY <1>1
  <2> HIDE DEF bad
  <2>2. QED
    BY <1>4, <2>1, LeastNat
<1>6. m \in 0 .. N /\ ~Holds(m)
  BY <1>5
<1>7. m # 0
  BY <1>3, <1>6
<1> DEFINE n == m - 1
<1>8. n \in 0 .. N - 1 /\ n \in 0 .. N /\ n + 1 = m /\ ~(m <= n)
  BY <1>1, <1>6, <1>7
<1>9. Holds(n)
  BY <1>5, <1>8
<1> HIDE DEF n
<1>10. PICK first : Distinct(os, n, d[n], first)
  BY <1>9
<1>11. \E next : Distinct(os, n + 1, AddEntry(d[n], os[n + 1]), next)
  BY <1>8, <1>10, AddEntryKeeps
<1>12. Holds(n + 1)
  BY <1>2, <1>8, <1>11
<1>13. QED
  BY <1>6, <1>8, <1>12

-----------------------------------------------------------------------------
(* The choice *)

\* The candidates cs are the newest entries of the window's commands, newest
\* first; at says which entry each one is.
Newest(es, cs, at) ==
    /\ cs \in Seq(Candidate) /\ Len(cs) \in Nat
    /\ at \in [1 .. Len(cs) -> DOMAIN es]
    /\ \A a \in 1 .. Len(cs) :
         /\ es[at[a]].command = cs[a].command /\ es[at[a]].cwd = cs[a].cwd
         /\ IsNewest(es, at[a])
    /\ \A i \in DOMAIN es : IsNewest(es, i) => \E a \in 1 .. Len(cs) : at[a] = i
    /\ \A a, b \in 1 .. Len(cs) : a < b => Precedes(es, at[a], at[b])

\* distinct_recent_first returns such candidates.
LEMMA DistinctNewest ==
    ASSUME NEW es \in Seq(Entry)
    PROVE  \E at : Newest(es, distinct_recent_first(es), at)
<1>1. PICK os : os = recent_first_order(es)
  OBVIOUS
<1>2. PICK place : Arranged(es, os, place)
  BY <1>1, OrderFacts
<1>3. PICK cs : cs = Deduped(os)[Len(os)]
  OBVIOUS
<1>4. os \in Seq(Entry)
  BY <1>2 DEF Arranged
<1>5. PICK first : Distinct(os, Len(os), cs, first)
  BY <1>3, <1>4, DedupedDistinct
<1>6. cs = distinct_recent_first(es)
  BY <1>1, <1>3 DEF distinct_recent_first
<1>7. PICK n \in Nat : n = Len(es) /\ Len(os) = n /\ DOMAIN es = 1 .. n
  BY <1>2 DEF Arranged
<1>8. PICK k \in Nat : k = Len(cs)
  BY <1>5 DEF Distinct
<1>9. /\ place \in [1 .. n -> 1 .. n]
      /\ \A p \in 1 .. n : os[p] = es[place[p]]
      /\ \A p, q \in 1 .. n : p < q => Precedes(es, place[p], place[q])
      /\ \A i \in 1 .. n : \E p \in 1 .. n : place[p] = i
  BY <1>2, <1>7 DEF Arranged
<1>10. /\ cs \in Seq(Candidate) /\ first \in [1 .. k -> 1 .. n]
       /\ \A a, b \in 1 .. k : a < b => first[a] < first[b]
       /\ \A a \in 1 .. k : cs[a].command = os[first[a]].command /\ cs[a].cwd = os[first[a]].cwd
       /\ \A a \in 1 .. k : \A q \in 1 .. n : os[q].command = cs[a].command => first[a] <= q
       /\ \A q \in 1 .. n : \E a \in 1 .. k : cs[a].command = os[q].command
  BY <1>5, <1>7, <1>8 DEF Distinct
<1> DEFINE at == [a \in 1 .. k |-> place[first[a]]]
<1>11. at \in [1 .. k -> 1 .. n] /\ \A a \in 1 .. k : at[a] = place[first[a]]
  BY <1>9, <1>10
<1> HIDE DEF at
<1>12. \A a \in 1 .. k : es[at[a]].command = cs[a].command /\ es[at[a]].cwd = cs[a].cwd
  <2>1. SUFFICES ASSUME NEW a \in 1 .. k
                 PROVE  es[at[a]].command = cs[a].command /\ es[at[a]].cwd = cs[a].cwd
    OBVIOUS
  <2>2. first[a] \in 1 .. n
    BY <1>10
  <2>3. es[at[a]] = os[first[a]]
    BY <1>9, <1>11, <2>2
  <2>4. QED
    BY <1>10, <2>3
\* The entry of a command that is not before the q-th in the order is not newer.
<1>13. ASSUME NEW a \in 1 .. k, NEW q \in 1 .. n, os[q].command = cs[a].command
       PROVE  q = first[a] \/ Precedes(es, at[a], place[q])
  <2>1. first[a] \in 1 .. n /\ first[a] <= q
    BY <1>10, <1>13
  <2>2. first[a] = q \/ first[a] < q
    BY <2>1
  <2>3. QED
    BY <1>9, <1>11, <2>1, <2>2
<1>14. ASSUME NEW a \in 1 .. k PROVE IsNewest(es, at[a])
  <2>1. SUFFICES ASSUME NEW j \in 1 .. n, es[j].command = es[at[a]].command, Precedes(es, j, at[a])
                 PROVE  FALSE
    BY <1>7 DEF IsNewest
  <2>2. PICK q \in 1 .. n : place[q] = j
    BY <1>9
  <2>3. os[q].command = cs[a].command
    BY <1>9, <1>12, <2>1, <2>2
  <2>4. at[a] = j \/ Precedes(es, at[a], j)
    BY <1>11, <1>13, <2>2, <2>3
  <2>5. at[a] \in 1 .. n
    BY <1>11
  <2>6. QED
    BY <1>7, <2>1, <2>4, <2>5, PrecedesOrders
<1>15. ASSUME NEW i \in 1 .. n, IsNewest(es, i) PROVE \E a \in 1 .. k : at[a] = i
  <2>1. PICK q \in 1 .. n : place[q] = i
    BY <1>9
  <2>2. PICK a \in 1 .. k : cs[a].command = os[q].command
    BY <1>10
  <2>3. q = first[a] \/ Precedes(es, at[a], i)
    BY <1>13, <2>1, <2>2
  <2>4. ~Precedes(es, at[a], i)
    <3>1. es[at[a]].command = es[i].command /\ at[a] \in 1 .. n
      BY <1>9, <1>11, <1>12, <2>1, <2>2
    <3>2. QED
      BY <1>7, <1>15, <3>1 DEF IsNewest
  <2>5. QED
    BY <1>11, <2>1, <2>3, <2>4
<1>16. ASSUME NEW a \in 1 .. k, NEW b \in 1 .. k, a < b PROVE Precedes(es, at[a], at[b])
  BY <1>9, <1>10, <1>11, <1>16
<1>17. Newest(es, cs, at)
  BY <1>7, <1>8, <1>10, <1>11, <1>12, <1>14, <1>15, <1>16 DEF Newest
<1>18. QED
  BY <1>6, <1>17

\* Candidate a ranks before candidate b: its cwd is the request's, or it is newer.
Home(cs, cwd, a) == cwd # NoCwd /\ cs[a].cwd = cwd

Beats(cs, cwd, a, b) ==
    \/ Home(cs, cwd, a) /\ ~Home(cs, cwd, b)
    \/ (Home(cs, cwd, a) <=> Home(cs, cwd, b)) /\ a < b

\* The frequency never decides: no two candidates have the same recency.
LEMMA KeyOrder ==
    ASSUME NEW cs \in Seq(Candidate), NEW cwd, NEW a \in 1 .. Len(cs), NEW b \in 1 .. Len(cs)
    PROVE  KeyGeq(rank_key(cs[a], a, cwd), rank_key(cs[b], b, cwd))
             <=> a = b \/ Beats(cs, cwd, a, b)
<1>1. a \in Nat /\ b \in Nat /\ cs[a] \in Candidate /\ cs[b] \in Candidate
  OBVIOUS
<1>2. cs[a].count \in Nat /\ cs[b].count \in Nat
  BY <1>1 DEF Candidate
<1> DEFINE ka == rank_key(cs[a], a, cwd)
           kb == rank_key(cs[b], b, cwd)
<1>3. /\ ka[1] = (IF Home(cs, cwd, a) THEN 1 ELSE 0) /\ ka[2] = -a /\ ka[3] = cs[a].count
      /\ kb[1] = (IF Home(cs, cwd, b) THEN 1 ELSE 0) /\ kb[2] = -b /\ kb[3] = cs[b].count
  BY DEF rank_key, Home
<1> HIDE DEF ka, kb
<1>4. KeyGeq(ka, kb) <=> a = b \/ Beats(cs, cwd, a, b)
  <2>1. CASE Home(cs, cwd, a) /\ Home(cs, cwd, b)
    BY <1>1, <1>2, <1>3, <2>1 DEF KeyGeq, Beats
  <2>2. CASE Home(cs, cwd, a) /\ ~Home(cs, cwd, b)
    BY <1>1, <1>2, <1>3, <2>2 DEF KeyGeq, Beats
  <2>3. CASE ~Home(cs, cwd, a) /\ Home(cs, cwd, b)
    BY <1>1, <1>2, <1>3, <2>3 DEF KeyGeq, Beats
  <2>4. CASE ~Home(cs, cwd, a) /\ ~Home(cs, cwd, b)
    BY <1>1, <1>2, <1>3, <2>4 DEF KeyGeq, Beats
  <2>5. QED
    BY <2>1, <2>2, <2>3, <2>4
<1>5. QED
  BY <1>4 DEF ka, kb

\* Some candidate beats all others of any set of them.
LEMMA BestExists ==
    ASSUME NEW cs \in Seq(Candidate), NEW cwd, NEW M \in SUBSET (1 .. Len(cs)), M # {}
    PROVE  \E a \in M : \A b \in M : a = b \/ Beats(cs, cwd, a, b)
<1> DEFINE H == {a \in M : Home(cs, cwd, a)}
<1>1. M \in SUBSET Nat /\ H \in SUBSET Nat
  <2>1. \A a \in 1 .. Len(cs) : a \in Nat
    OBVIOUS
  <2>2. QED
    BY <2>1
<1>2. CASE H # {}
  <2>1. PICK a \in H : \A b \in H : a <= b
    BY <1>1, <1>2, LeastNat
  <2>2. \A b \in M : a = b \/ Beats(cs, cwd, a, b)
    BY <1>1, <2>1 DEF Beats
  <2>3. QED
    BY <2>1, <2>2
<1>3. CASE H = {}
  <2>1. PICK a \in M : \A b \in M : a <= b
    BY <1>1, LeastNat
  <2>2. \A b \in M : ~Home(cs, cwd, b)
    BY <1>3
  <2>3. \A b \in M : a = b \/ Beats(cs, cwd, a, b)
    BY <1>1, <2>1, <2>2 DEF Beats
  <2>4. QED
    BY <2>1, <2>3
<1>4. QED
  BY <1>2, <1>3

\* The candidate whose command autosuggest returns.
Chosen(cs, prefix, cwd, a) ==
    /\ a \in 1 .. Len(cs) /\ IsPrefix(prefix, cs[a].command)
    /\ \A b \in 1 .. Len(cs) : IsPrefix(prefix, cs[b].command) => a = b \/ Beats(cs, cwd, a, b)

LEMMA AutosuggestChooses ==
    ASSUME NEW prefix, NEW es, NEW cwd, NEW cs \in Seq(Candidate), cs = distinct_recent_first(es)
    PROVE  \/ /\ autosuggest(prefix, es, cwd) = NoSuggestion
              /\ \A a \in 1 .. Len(cs) : ~IsPrefix(prefix, cs[a].command)
           \/ \E a : Chosen(cs, prefix, cwd, a) /\ autosuggest(prefix, es, cwd) = cs[a].command
<1> DEFINE M == {a \in DOMAIN cs : IsPrefix(prefix, cs[a].command)}
           best == {a \in M : \A b \in M :
                      KeyGeq(rank_key(cs[a], a, cwd), rank_key(cs[b], b, cwd))}
           c == CHOOSE a \in best : TRUE
<1>1. DOMAIN cs = 1 .. Len(cs)
  OBVIOUS
<1>2. autosuggest(prefix, es, cwd) = IF M = {} THEN NoSuggestion ELSE cs[c].command
  BY DEF autosuggest
<1>3. CASE M = {}
  BY <1>1, <1>2, <1>3
<1>4. CASE M # {}
  <2>1. M \in SUBSET (1 .. Len(cs))
    BY <1>1
  <2>2. PICK a \in M : \A b \in M : a = b \/ Beats(cs, cwd, a, b)
    <3> HIDE DEF M
    <3>1. QED
      BY <1>4, <2>1, BestExists
  <2>3. a \in best
    <3>1. \A b \in M : KeyGeq(rank_key(cs[a], a, cwd), rank_key(cs[b], b, cwd))
      <4> HIDE DEF M
      <4>1. QED
        BY <2>1, <2>2, KeyOrder
    <3>2. QED
      BY <3>1
  <2>4. c \in best
    <3> HIDE DEF best
    <3>1. QED
      BY <2>3
  <2>5. c \in M /\ \A b \in M : KeyGeq(rank_key(cs[c], c, cwd), rank_key(cs[b], b, cwd))
    <3> HIDE DEF c, M
    <3>1. QED
      BY <2>4
  <2> HIDE DEF c, best
  <2>6. \A b \in M : c = b \/ Beats(cs, cwd, c, b)
    <3> HIDE DEF M
    <3>1. QED
      BY <2>1, <2>5, KeyOrder
  <2>7. Chosen(cs, prefix, cwd, c)
    BY <1>1, <2>5, <2>6 DEF Chosen
  <2>8. QED
    BY <1>2, <1>4, <2>7
<1>5. QED
  BY <1>3, <1>4

\* So what autosuggest returns for any window is what the documentation says.
LEMMA AutosuggestDocumented ==
    ASSUME NEW prefix, NEW es \in Seq(Entry), NEW cwd
    PROVE  Documented(prefix, es, cwd, autosuggest(prefix, es, cwd))
<1>1. PICK cs : cs = distinct_recent_first(es)
  OBVIOUS
<1>2. PICK at : Newest(es, cs, at)
  BY <1>1, DistinctNewest
<1>3. PICK s : s = autosuggest(prefix, es, cwd)
  OBVIOUS
<1>4. /\ cs \in Seq(Candidate) /\ Len(cs) \in Nat
      /\ at \in [1 .. Len(cs) -> DOMAIN es]
      /\ \A a \in 1 .. Len(cs) : es[at[a]].command = cs[a].command /\ es[at[a]].cwd = cs[a].cwd
      /\ \A a \in 1 .. Len(cs) : IsNewest(es, at[a])
      /\ \A i \in DOMAIN es : IsNewest(es, i) => \E a \in 1 .. Len(cs) : at[a] = i
      /\ \A a, b \in 1 .. Len(cs) : a < b => Precedes(es, at[a], at[b])
  BY <1>2 DEF Newest
<1>5. \A a \in 1 .. Len(cs) : cs[a].command # NoSuggestion
  <2>1. \A a \in 1 .. Len(cs) : cs[a] \in Candidate
    BY <1>4
  <2>2. QED
    BY <2>1, HistoryAssumption DEF Candidate
<1>6. \/ s = NoSuggestion /\ \A a \in 1 .. Len(cs) : ~IsPrefix(prefix, cs[a].command)
      \/ \E a : Chosen(cs, prefix, cwd, a) /\ s = cs[a].command
  BY <1>1, <1>3, <1>4, AutosuggestChooses
<1>7. ASSUME NEW i \in DOMAIN es, Starts(prefix, es, i)
      PROVE  \E a \in 1 .. Len(cs) : at[a] = i /\ IsPrefix(prefix, cs[a].command)
  <2>1. IsPrefix(prefix, es[i].command) /\ IsNewest(es, i)
    BY <1>7 DEF Starts
  <2>2. PICK a \in 1 .. Len(cs) : at[a] = i
    BY <1>4, <2>1
  <2>3. QED
    BY <1>4, <2>1, <2>2
<1>8. CASE s = NoSuggestion /\ \A a \in 1 .. Len(cs) : ~IsPrefix(prefix, cs[a].command)
  BY <1>3, <1>7, <1>8 DEF Documented
<1>9. CASE \E a : Chosen(cs, prefix, cwd, a) /\ s = cs[a].command
  <2>1. PICK a : Chosen(cs, prefix, cwd, a) /\ s = cs[a].command
    BY <1>9
  <2>2. /\ a \in 1 .. Len(cs) /\ IsPrefix(prefix, cs[a].command)
        /\ \A b \in 1 .. Len(cs) : IsPrefix(prefix, cs[b].command) => a = b \/ Beats(cs, cwd, a, b)
    BY <2>1 DEF Chosen
  <2>3. at[a] \in DOMAIN es /\ Starts(prefix, es, at[a]) /\ es[at[a]].command = s
    BY <1>4, <2>1, <2>2 DEF Starts
  <2>4. ASSUME NEW j \in DOMAIN es, Starts(prefix, es, j), j # at[a]
        PROVE  Preferred(cwd, es, at[a], j)
    <3>1. PICK b \in 1 .. Len(cs) : at[b] = j /\ IsPrefix(prefix, cs[b].command)
      BY <1>7, <2>4
    <3>2. Beats(cs, cwd, a, b)
      BY <2>2, <2>4, <3>1
    <3>3. /\ Here(cwd, es, at[a]) <=> Home(cs, cwd, a)
          /\ Here(cwd, es, j) <=> Home(cs, cwd, b)
      BY <1>4, <2>2, <3>1 DEF Here, Home
    <3>4. a < b => Precedes(es, at[a], j)
      BY <1>4, <2>2, <3>1
    <3>5. QED
      BY <3>2, <3>3, <3>4 DEF Beats, Preferred
  <2>5. s # NoSuggestion
    BY <1>5, <2>1, <2>2
  <2>6. QED
    BY <1>3, <2>3, <2>4, <2>5 DEF Documented
<1>10. QED
  BY <1>6, <1>8, <1>9

-----------------------------------------------------------------------------
(* The window of the store *)

\* A command that starts with the prefix is one LIKE matches.
LEMMA PrefixIsLike ==
    ASSUME NEW p \in Seq(STRING), NEW c \in Seq(STRING), IsPrefix(p, c)
    PROVE  Like(p, c)
<1>1. Len(p) \in Nat /\ Len(c) \in Nat /\ Len(p) <= Len(c)
  BY DEF IsPrefix
<1>2. \A i \in 1 .. Len(p) : p[i] = c[i]
  <2>1. SubSeq(p, 1, Len(p)) = SubSeq(c, 1, Len(p))
    BY DEF IsPrefix
  <2>2. \A i \in 1 .. Len(p) : SubSeq(p, 1, Len(p))[i] = p[i] /\ SubSeq(c, 1, Len(p))[i] = c[i]
    BY <1>1
  <2>3. QED
    BY <2>1, <2>2
<1> DEFINE at == [i \in 0 .. Len(p) |-> i]
<1>3. at \in [0 .. Len(p) -> 0 .. Len(c)] /\ at[0] = 0
  BY <1>1
<1>4. ASSUME NEW i \in 1 .. Len(p) PROVE at[i] = at[i - 1] + 1 /\ p[i] = c[at[i]]
  <2>1. i \in 0 .. Len(p) /\ i - 1 \in 0 .. Len(p)
    BY <1>1
  <2>2. QED
    BY <1>1, <1>2, <2>1
<1> HIDE DEF at
<1>5. QED
  BY <1>3, <1>4 DEF Like

\* What recent may return: rows that match, each once, and all of them if the limit
\* allows it.
Fetched(ids, p, d) ==
    /\ ids \in Seq(DOMAIN rows) /\ Len(ids) \in Nat /\ Len(ids) <= WindowLimit
    /\ \A i \in 1 .. Len(ids) : ids[i] \in Selected(p, d)
    /\ \A i, j \in 1 .. Len(ids) : i # j => ids[i] # ids[j]
    /\ Cardinality(Selected(p, d)) <= WindowLimit =>
         \A k \in Selected(p, d) : \E i \in 1 .. Len(ids) : ids[i] = k

LEMMA RecentFetches ==
    ASSUME rows \in Seq(Row), NEW p, NEW d, NEW ids \in recent(p, WindowLimit, d)
    PROVE  Fetched(ids, p, d)
<1>1. PICK found : found = Selected(p, d)
  OBVIOUS
<1>2. found \in SUBSET DOMAIN rows /\ DOMAIN rows = 1 .. Len(rows) /\ Len(rows) \in Nat
  BY <1>1 DEF Selected
<1>3. IsFiniteSet(found) /\ Cardinality(found) \in Nat
  <2>1. IsFiniteSet(1 .. Len(rows))
    BY <1>2, FS_Interval
  <2>2. QED
    BY <1>2, <2>1, FS_Subset, FS_CardinalityType
<1>4. PICK n : n = IF Cardinality(found) < WindowLimit THEN Cardinality(found) ELSE WindowLimit
  OBVIOUS
<1>5. n \in Nat /\ n <= WindowLimit /\ (Cardinality(found) <= WindowLimit => n = Cardinality(found))
  BY <1>3, <1>4, HistoryAssumption
<1>6. ids \in [1 .. n -> found] /\ \A i, j \in 1 .. n : i < j => ids[i] # ids[j]
  BY <1>1, <1>4 DEF recent
<1>7. ids \in Seq(DOMAIN rows) /\ Len(ids) = n
  <2>1. ids \in [1 .. n -> DOMAIN rows]
    BY <1>2, <1>6
  <2>2. QED
    BY <1>5, <2>1
<1>8. \A i, j \in 1 .. n : i # j => ids[i] # ids[j]
  BY <1>5, <1>6
<1>9. ASSUME Cardinality(found) <= WindowLimit PROVE \A k \in found : \E i \in 1 .. n : ids[i] = k
  <2>1. ids \in Injection(1 .. n, found)
    BY <1>6, <1>8 DEF Injection, IsInjective
  <2>2. IsFiniteSet(1 .. n) /\ Cardinality(1 .. n) = n
    <3>1. 1 \in Int /\ n \in Int
      BY <1>5
    <3>2. IsFiniteSet(1 .. n) /\ Cardinality(1 .. n) = IF 1 > n THEN 0 ELSE n - 1 + 1
      BY <3>1, FS_Interval, Zenon
    <3>3. QED
      BY <1>5, <3>2
  <2>3. ids \in Surjection(1 .. n, found)
    BY <1>3, <1>5, <1>9, <2>1, <2>2, FS_Injection
  <2>4. QED
    BY <2>3 DEF Surjection
<1>10. \A i \in 1 .. n : ids[i] \in found
  BY <1>6
<1>11. QED
  BY <1>1, <1>5, <1>7, <1>8, <1>9, <1>10 DEF Fetched

\* The window made of them.
WindowOf(ids) == [i \in DOMAIN ids |-> rows[ids[i]]]

LEMMA WindowFacts ==
    ASSUME rows \in Seq(Row), NEW ids \in Seq(DOMAIN rows)
    PROVE  /\ WindowOf(ids) \in Seq(Entry) /\ DOMAIN WindowOf(ids) = 1 .. Len(ids)
           /\ \A i \in 1 .. Len(ids) : ids[i] \in DOMAIN rows /\ WindowOf(ids)[i] = rows[ids[i]]
<1>1. Len(ids) \in Nat /\ DOMAIN ids = 1 .. Len(ids)
  OBVIOUS
<1>2. \A i \in 1 .. Len(ids) : ids[i] \in DOMAIN rows
  OBVIOUS
<1>3. \A k \in DOMAIN rows : rows[k] \in Entry
  <2>1. \A k \in DOMAIN rows : rows[k] \in Row
    OBVIOUS
  <2>2. QED
    BY <2>1 DEF Row, Entry
<1>4. WindowOf(ids) = [i \in 1 .. Len(ids) |-> rows[ids[i]]]
  BY <1>1 DEF WindowOf
<1>5. WindowOf(ids) \in [1 .. Len(ids) -> Entry]
  BY <1>2, <1>3, <1>4
<1>6. PICK w, n : w = WindowOf(ids) /\ n = Len(ids)
  OBVIOUS
<1>7. n \in Nat /\ w \in [1 .. n -> Entry]
  BY <1>1, <1>5, <1>6
<1>8. w \in Seq(Entry) /\ DOMAIN w = 1 .. n
  BY <1>7
<1>9. \A i \in 1 .. n : w[i] = rows[ids[i]]
  BY <1>4, <1>6
<1>10. QED
  BY <1>2, <1>6, <1>8, <1>9

-----------------------------------------------------------------------------
(* The invariants *)

\* What autosuggest returns is a command or nothing.
LEMMA SuggestionType ==
    ASSUME NEW prefix, NEW es \in Seq(Entry), NEW cwd
    PROVE  autosuggest(prefix, es, cwd) \in Commands \cup {NoSuggestion}
<1>1. PICK s : s = autosuggest(prefix, es, cwd)
  OBVIOUS
<1>2. s = NoSuggestion \/ \E i \in DOMAIN es : es[i].command = s
  BY <1>1, AutosuggestDocumented DEF Documented
<1>3. \A i \in DOMAIN es : es[i].command \in Commands
  <2>1. \A i \in DOMAIN es : es[i] \in Entry
    OBVIOUS
  <2>2. QED
    BY <2>1 DEF Entry
<1>4. QED
  BY <1>1, <1>2, <1>3

\* The inductive invariant: the responses have their type, are the documented ones,
\* and those of the store come from the table as it is.
Inv == TypeOK /\ StoreInv /\ BestContinuation

LEMMA QuietFacts ==
    ASSUME answer = Quiet
    PROVE  answer.from = "none"
BY DEF Quiet

LEMMA InitInv == Init => Inv
<1>1. SUFFICES ASSUME Init PROVE Inv
  OBVIOUS
<1>2. answer = Quiet /\ rows = <<>> /\ clock \in Seconds /\ attached \in BOOLEAN
  BY <1>1 DEF Init
<1>3. answer.from = "none"
  BY <1>2, QuietFacts
<1>4. rows \in Seq(Row) /\ Len(rows) = 0 /\ 0 <= MaxRows
  BY <1>2, HistoryAssumption
<1>5. TypeOK
  BY <1>2, <1>4 DEF TypeOK
<1>6. QED
  BY <1>2, <1>3, <1>5 DEF Inv, StoreInv, BestContinuation

\* A response that Answer makes, with the suggestion of autosuggest, keeps it.
LEMMA AnswerInv ==
    ASSUME TypeOK, UNCHANGED <<clock, rows, attached>>,
           NEW from \in {"host", "store", "nothing"}, NEW p \in Typed, NEW d \in MaybeCwd,
           NEW w \in Seq(Entry), NEW ids \in Seq(Nat), Len(ids) <= WindowLimit,
           NEW s \in Commands \cup {NoSuggestion}, Documented(p, w, d, s),
           Answer(from, p, d, w, ids, s),
           from = "store" => ids \in recent(p, WindowLimit, d) /\ w = WindowOf(ids)
    PROVE  Inv'
<1> DEFINE r == [from |-> from, prefix |-> p, cwd |-> d, window |-> w, ids |-> ids, suggestion |-> s]
<1>1. answer' = r
  BY DEF Answer
<1>2. /\ r \in Response /\ r.from = from /\ r.prefix = p /\ r.cwd = d
      /\ r.window = w /\ r.ids = ids /\ r.suggestion = s
  BY DEF Response
<1> HIDE DEF r
<1>3. rows' = rows /\ clock' = clock /\ attached' = attached
  OBVIOUS
<1>4. TypeOK'
  BY <1>1, <1>2, <1>3 DEF TypeOK
<1>5. StoreInv'
  <2>1. SUFFICES ASSUME from = "store"
                 PROVE  /\ ids \in recent(p, WindowLimit, d)'
                        /\ w = [i \in DOMAIN ids |-> rows'[ids[i]]]
    BY <1>1, <1>2 DEF StoreInv
  <2>2. w = [i \in DOMAIN ids |-> rows'[ids[i]]]
    BY <1>3, <2>1 DEF WindowOf
  <2>3. recent(p, WindowLimit, d)' = recent(p, WindowLimit, d)
    BY <1>3 DEF recent, Selected
  <2>4. QED
    BY <2>1, <2>2, <2>3
<1>6. BestContinuation'
  BY <1>1, <1>2 DEF BestContinuation
<1>7. QED
  BY <1>4, <1>5, <1>6 DEF Inv

\* Every step keeps it.
LEMMA NextInv == Inv /\ [Next]_vars => Inv'
<1>1. SUFFICES ASSUME Inv, [Next]_vars PROVE Inv'
  OBVIOUS
<1>2. TypeOK /\ StoreInv /\ BestContinuation
  BY <1>1 DEF Inv
<1>3. clock \in Seconds /\ attached \in BOOLEAN /\ rows \in Seq(Row) /\ Len(rows) <= MaxRows
  BY <1>2 DEF TypeOK
\* Steps that leave no response behind.
<1>4. ASSUME answer' = Quiet, clock' \in Seconds, attached' = attached,
             rows' \in Seq(Row), Len(rows') <= MaxRows
      PROVE  Inv'
  <2>1. answer'.from = "none"
    BY <1>4 DEF Quiet
  <2>2. TypeOK'
    BY <1>3, <1>4 DEF TypeOK
  <2>3. StoreInv'
    BY <2>1 DEF StoreInv
  <2>4. BestContinuation'
    BY <1>4 DEF BestContinuation
  <2>5. QED
    BY <2>2, <2>3, <2>4 DEF Inv
<1>5. ASSUME NEW c \in Commands, NEW d \in MaybeCwd, Idle, Record(c, d) PROVE Inv'
  <2> DEFINE row == [command |-> c, cwd |-> d, ts |-> clock]
  <2>1. rows' = Append(rows, row) /\ Len(rows) < MaxRows
    BY <1>5 DEF Record
  <2>2. row \in Row
    BY <1>3 DEF Row
  <2> HIDE DEF row
  <2>3. rows' \in Seq(Row) /\ Len(rows') <= MaxRows
    BY <1>3, <2>1, <2>2, HistoryAssumption
  <2>4. QED
    BY <1>3, <1>4, <1>5, <2>3 DEF Record, Idle
<1>6. ASSUME Idle, Clear PROVE Inv'
  <2>1. rows' \in Seq(Row) /\ Len(rows') <= MaxRows
    BY <1>6, HistoryAssumption DEF Clear
  <2>2. QED
    BY <1>3, <1>4, <1>6, <2>1 DEF Clear, Idle
<1>7. ASSUME NEW n \in Seconds, Idle, SetClock(n) PROVE Inv'
  BY <1>3, <1>4, <1>7 DEF SetClock, Idle
<1>8. ASSUME Deliver PROVE Inv'
  BY <1>3, <1>4, <1>8 DEF Deliver
<1>9. ASSUME NEW p \in Typed, NEW d \in MaybeCwd, NEW w \in HostWindows, AskWithWindow(p, d, w)
      PROVE  Inv'
  <2>1. w \in Seq(Entry)
    BY HistoryAssumption
  <2>2. PICK s : s = autosuggest(p, w, d)
    OBVIOUS
  <2>3. s \in Commands \cup {NoSuggestion} /\ Documented(p, w, d, s)
    BY <2>1, <2>2, SuggestionType, AutosuggestDocumented
  <2>4. Answer("host", p, d, w, <<>>, s) /\ UNCHANGED <<clock, rows, attached>>
    BY <1>9, <2>2 DEF AskWithWindow
  <2>5. <<>> \in Seq(Nat) /\ Len(<<>>) <= WindowLimit
    BY HistoryAssumption
  <2>6. QED
    BY <1>2, <2>1, <2>3, <2>4, <2>5, AnswerInv
<1>10. ASSUME NEW p \in Typed, NEW d \in MaybeCwd, AskStore(p, d) PROVE Inv'
  <2>1. PICK ids \in recent(p, WindowLimit, d) :
          Answer("store", p, d, WindowOf(ids), ids, autosuggest(p, WindowOf(ids), d))
    BY <1>10 DEF AskStore, WindowOf
  <2>2. Fetched(ids, p, d)
    BY <1>3, RecentFetches
  <2>3. ids \in Seq(DOMAIN rows) /\ Len(ids) <= WindowLimit
    BY <2>2 DEF Fetched
  <2>4. ids \in Seq(Nat)
    <3>1. DOMAIN rows \subseteq Nat
      BY <1>3
    <3>2. QED
      BY <2>3, <3>1
  <2>5. PICK w : w = WindowOf(ids)
    OBVIOUS
  <2>6. w \in Seq(Entry)
    BY <1>3, <2>3, <2>5, WindowFacts
  <2>7. PICK s : s = autosuggest(p, w, d)
    OBVIOUS
  <2>8. s \in Commands \cup {NoSuggestion} /\ Documented(p, w, d, s)
    BY <2>6, <2>7, SuggestionType, AutosuggestDocumented
  <2>9. Answer("store", p, d, w, ids, s)
    BY <2>1, <2>5, <2>7
  <2>10. UNCHANGED <<clock, rows, attached>>
    BY <1>10 DEF AskStore
  <2>11. QED
    BY <1>2, <2>1, <2>3, <2>4, <2>5, <2>6, <2>8, <2>9, <2>10, AnswerInv
<1>11. ASSUME NEW p \in Typed, NEW d \in MaybeCwd, AskStoreFails(p, d) PROVE Inv'
  <2>1. Answer("nothing", p, d, <<>>, <<>>, NoSuggestion) /\ UNCHANGED <<clock, rows, attached>>
    BY <1>11 DEF AskStoreFails
  <2>2. Documented(p, <<>>, d, NoSuggestion)
    <3>1. \A i \in DOMAIN <<>> : FALSE
      OBVIOUS
    <3>2. QED
      BY <3>1 DEF Documented
  <2>3. <<>> \in Seq(Nat) /\ <<>> \in Seq(Entry) /\ Len(<<>>) <= WindowLimit
    BY HistoryAssumption
  <2>4. QED
    BY <1>2, <2>1, <2>2, <2>3, AnswerInv
<1>12. ASSUME UNCHANGED vars PROVE Inv'
  <2>1. clock' = clock /\ rows' = rows /\ attached' = attached /\ answer' = answer
    BY <1>12 DEF vars
  <2>2. TypeOK'
    BY <1>2, <2>1 DEF TypeOK
  <2>3. StoreInv'
    BY <1>2, <2>1 DEF StoreInv, recent, Selected
  <2>4. BestContinuation'
    BY <1>2, <2>1 DEF BestContinuation
  <2>5. QED
    BY <2>2, <2>3, <2>4 DEF Inv
<1>13. QED
  BY <1>1, <1>5, <1>6, <1>7, <1>8, <1>9, <1>10, <1>11, <1>12 DEF Next

LEMMA Invariant == Spec => []Inv
BY InitInv, NextInv, PTL DEF Spec

\* Every reachable table and response has its type (history-store/src/lib.rs, Engine::
\* handle_autosuggest), for any commands, windows, limit and size of the table.
THEOREM HistoryTypeCorrect == Spec => []TypeOK
<1>1. Inv => TypeOK
  BY DEF Inv
<1>2. QED
  BY <1>1, Invariant, PTL

\* The suggestion from any window is the documented one (history.rs:13-31).
THEOREM HistoryBest == Spec => []BestContinuation
<1>1. Inv => BestContinuation
  BY DEF Inv
<1>2. QED
  BY <1>1, Invariant, PTL

-----------------------------------------------------------------------------
(* What the invariant says of the store *)

\* The response of the store in full: its window is made of the rows ids names.
LEMMA StoreResponse ==
    ASSUME Inv, answer.from = "store"
    PROVE  /\ rows \in Seq(Row) /\ answer.prefix \in Typed
           /\ Fetched(answer.ids, answer.prefix, answer.cwd)
           /\ answer.ids \in Seq(DOMAIN rows)
           /\ answer.window = WindowOf(answer.ids)
           /\ Documented(answer.prefix, answer.window, answer.cwd, answer.suggestion)
<1>1. answer # Quiet
  BY QuietFacts
<1>2. rows \in Seq(Row) /\ answer \in Response
  BY <1>1 DEF Inv, TypeOK
<1>3. answer.prefix \in Typed
  BY <1>2 DEF Response
<1>4. answer.ids \in recent(answer.prefix, WindowLimit, answer.cwd)
  BY DEF Inv, StoreInv
<1>5. Fetched(answer.ids, answer.prefix, answer.cwd)
  BY <1>2, <1>4, RecentFetches
<1>6. answer.ids \in Seq(DOMAIN rows)
  BY <1>5 DEF Fetched
<1>7. answer.window = WindowOf(answer.ids)
  BY DEF Inv, StoreInv, WindowOf
<1>8. QED
  BY <1>1, <1>2, <1>3, <1>5, <1>6, <1>7 DEF Inv, BestContinuation

\* An entry of its window that starts with the prefix is a row that does.
LEMMA FetchedRecorded ==
    ASSUME rows \in Seq(Row), NEW p, NEW d, NEW ids \in Seq(DOMAIN rows), Fetched(ids, p, d),
           NEW i \in DOMAIN WindowOf(ids), IsPrefix(p, WindowOf(ids)[i].command)
    PROVE  /\ i \in 1 .. Len(ids) /\ ids[i] \in Recorded(p, d)
           /\ WindowOf(ids)[i] = rows[ids[i]]
<1>1. i \in 1 .. Len(ids) /\ ids[i] \in DOMAIN rows /\ WindowOf(ids)[i] = rows[ids[i]]
  BY WindowFacts
<1>2. ids[i] \in Selected(p, d)
  BY <1>1 DEF Fetched
<1>3. QED
  BY <1>1, <1>2 DEF Selected, Recorded

LEMMA InvRecorded == Inv => SuggestionIsRecorded
<1>1. SUFFICES ASSUME Inv, answer.from = "store", answer.suggestion # NoSuggestion
               PROVE  \E i \in Recorded(answer.prefix, answer.cwd) :
                        rows[i].command = answer.suggestion
  BY DEF SuggestionIsRecorded
<1>2. /\ rows \in Seq(Row) /\ Fetched(answer.ids, answer.prefix, answer.cwd)
      /\ answer.ids \in Seq(DOMAIN rows) /\ answer.window = WindowOf(answer.ids)
      /\ Documented(answer.prefix, answer.window, answer.cwd, answer.suggestion)
  BY <1>1, StoreResponse
<1>3. PICK i \in DOMAIN answer.window :
        Starts(answer.prefix, answer.window, i) /\ answer.window[i].command = answer.suggestion
  BY <1>1, <1>2 DEF Documented
<1>4. IsPrefix(answer.prefix, answer.window[i].command)
  BY <1>3 DEF Starts
<1>5. QED
  BY <1>2, <1>3, <1>4, FetchedRecorded

\* With ClockKept the last recorded of the rows that match is the newest entry of the
\* window, and no entry that matches precedes it.
LEMMA LastIsNewest ==
    ASSUME rows \in Seq(Row), ClockKept, NEW p, NEW d,
           NEW ids \in Seq(DOMAIN rows), Fetched(ids, p, d), NEW w, w = WindowOf(ids),
           NEW x \in 1 .. Len(ids), ids[x] \in Recorded(p, d),
           \A k \in Recorded(p, d) : k <= ids[x]
    PROVE  \A y \in DOMAIN w : IsPrefix(p, w[y].command) => ~Precedes(w, y, x)
<1>1. SUFFICES ASSUME NEW y \in DOMAIN w, IsPrefix(p, w[y].command), Precedes(w, y, x) PROVE FALSE
  OBVIOUS
<1>2. /\ y \in 1 .. Len(ids) /\ ids[y] \in Recorded(p, d) /\ w[y] = rows[ids[y]]
      /\ x \in DOMAIN w /\ w[x] = rows[ids[x]] /\ DOMAIN w = 1 .. Len(ids)
      /\ \A k \in DOMAIN w : ids[k] \in DOMAIN rows /\ w[k] = rows[ids[k]]
  BY <1>1, FetchedRecorded, WindowFacts
<1>3. \A k \in DOMAIN rows : rows[k].ts \in Seconds
  <2>1. \A k \in DOMAIN rows : rows[k] \in Row
    OBVIOUS
  <2>2. QED
    BY <2>1 DEF Row
<1>4. \A k \in DOMAIN w : w[k].ts # NoTs
  BY <1>2, <1>3, HistoryAssumption
<1>5. \/ rows[ids[y]].ts > rows[ids[x]].ts
      \/ rows[ids[y]].ts = rows[ids[x]].ts /\ y < x
  BY <1>1, <1>2, <1>4 DEF Precedes
<1>6. /\ ids[x] \in DOMAIN rows /\ ids[y] \in DOMAIN rows /\ ids[y] <= ids[x]
      /\ ids[x] \in Nat /\ ids[y] \in Nat
  BY <1>2
<1>7. rows[ids[x]].ts \in Nat /\ rows[ids[y]].ts \in Nat
  BY <1>3, <1>6, HistoryAssumption
<1>8. CASE ids[y] < ids[x]
  <2>1. rows[ids[y]].ts < rows[ids[x]].ts
    BY <1>6, <1>8 DEF ClockKept
  <2>2. QED
    BY <1>5, <1>7, <2>1
<1>9. CASE ids[y] = ids[x]
  <2>1. x = y
    BY <1>2, <1>9 DEF Fetched
  <2>2. QED
    BY <1>5, <1>7, <2>1
<1>10. QED
  BY <1>6, <1>8, <1>9

LEMMA InvLast == Inv => LastRecordedSuggested
<1>1. SUFFICES ASSUME Inv, answer.from = "store", ClockKept,
                      Cardinality(Selected(answer.prefix, answer.cwd)) <= WindowLimit
               PROVE  LET matches == Recorded(answer.prefix, answer.cwd)
                      IN IF matches = {} THEN answer.suggestion = NoSuggestion
                         ELSE \E i \in matches : /\ \A j \in matches : j <= i
                                                 /\ rows[i].command = answer.suggestion
  BY DEF LastRecordedSuggested
<1>2. PICK p, d, w, ids, s : /\ p = answer.prefix /\ d = answer.cwd /\ w = answer.window
                             /\ ids = answer.ids /\ s = answer.suggestion
  OBVIOUS
<1>3. PICK M : M = Recorded(p, d)
  OBVIOUS
<1>4. SUFFICES IF M = {} THEN s = NoSuggestion
               ELSE \E i \in M : (\A j \in M : j <= i) /\ rows[i].command = s
  BY <1>2, <1>3
<1>5. /\ rows \in Seq(Row) /\ p \in Typed /\ Fetched(ids, p, d) /\ ids \in Seq(DOMAIN rows)
      /\ w = WindowOf(ids) /\ Documented(p, w, d, s)
  BY <1>1, <1>2, StoreResponse
<1>6. CASE M = {}
  BY <1>1, <1>2, <1>3, <1>6, InvRecorded DEF SuggestionIsRecorded
<1>7. CASE M # {}
  <2>1. M \in SUBSET (0 .. Len(rows)) /\ Len(rows) \in Nat
    BY <1>3, <1>5 DEF Recorded
  <2>2. PICK m \in M : \A j \in M : m >= j
    BY <1>7, <2>1, GreatestNat
  <2>3. \A j \in M : j <= m
    BY <2>1, <2>2
  <2>4. m \in Selected(p, d)
    <3>1. m \in DOMAIN rows /\ IsPrefix(p, rows[m].command) /\ (d # NoCwd => rows[m].cwd = d)
      BY <1>3 DEF Recorded
    <3>2. rows[m] \in Row
      BY <1>5, <3>1
    <3>3. rows[m].command \in Seq(STRING) /\ p \in Seq(STRING)
      BY <1>5, <3>2, HistoryAssumption DEF Row
    <3>4. Like(p, rows[m].command)
      BY <3>1, <3>3, PrefixIsLike
    <3>5. QED
      BY <3>1, <3>4 DEF Selected
  <2>5. PICK x \in 1 .. Len(ids) : ids[x] = m
    BY <1>1, <1>2, <1>5, <2>4 DEF Fetched
  <2>6. \A y \in DOMAIN w : IsPrefix(p, w[y].command) => ~Precedes(w, y, x)
    BY <1>1, <1>3, <1>5, <2>3, <2>5, LastIsNewest
  <2>7. x \in DOMAIN w /\ w[x] = rows[m] /\ IsPrefix(p, w[x].command)
    <3>1. x \in DOMAIN w /\ w[x] = rows[m]
      BY <1>5, <2>5, WindowFacts
    <3>2. QED
      BY <1>3, <3>1 DEF Recorded
  <2>8. Starts(p, w, x)
    BY <2>6, <2>7 DEF Starts, IsNewest
  <2>9. PICK i \in DOMAIN w : /\ Starts(p, w, i) /\ w[i].command = s
                              /\ \A j \in DOMAIN w : Starts(p, w, j) /\ j # i => Preferred(d, w, i, j)
    BY <1>5, <2>7, <2>8 DEF Documented
  <2>10. i = x
    <3>1. SUFFICES ASSUME i # x PROVE FALSE
      OBVIOUS
    <3>2. IsPrefix(p, w[i].command)
      BY <2>9 DEF Starts
    <3>3. Preferred(d, w, i, x) /\ ~Precedes(w, i, x)
      BY <2>6, <2>7, <2>8, <2>9, <3>1, <3>2
    <3>4. Here(d, w, i) /\ ~Here(d, w, x)
      BY <3>3 DEF Preferred
    <3>5. d # NoCwd => w[x].cwd = d
      BY <1>3, <2>7 DEF Recorded
    <3>6. QED
      BY <3>4, <3>5 DEF Here
  <2>11. QED
    BY <1>7, <2>3, <2>7, <2>9, <2>10
<1>8. QED
  BY <1>6, <1>7

\* Whatever LIKE selects, the store suggests a recorded command that starts with the
\* prefix, in the request's cwd if it has one (history-store/src/lib.rs:247-259).
THEOREM HistorySuggestsRecorded == Spec => []SuggestionIsRecorded
BY Invariant, InvRecorded, PTL

\* With a clock that told the rows apart and no more matches than the limit, it is the
\* last one recorded (history-store/src/lib.rs:77-117).
THEOREM HistorySuggestsLast == Spec => []LastRecordedSuggested
BY Invariant, InvLast, PTL

=============================================================================

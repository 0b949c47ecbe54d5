--------------------------- MODULE CorrectionProofs ---------------------------
(***************************************************************************)
(* Proofs about Correction: the loop over the rules of a request, with the   *)
(* walks over $PATH it takes, for any rules and any changes of $PATH.        *)
(***************************************************************************)
EXTENDS Correction, SequenceLemmas, TLAPS

LEMMA SmallestNat ==
    ASSUME NEW S \in SUBSET Nat, S # {}
    PROVE  Smallest(S) \in S /\ \A y \in S : Smallest(S) <= y
BY LeastNat DEF Smallest

-----------------------------------------------------------------------------
(* Strings *)

\* s comes before t in that it is a prefix of it, or at place i.
PrefixLess(s, t) == Len(s) < Len(t) /\ \A i \in 1 .. Len(s) : s[i] = t[i]
LessAt(s, t, i) == s[i] < t[i] /\ \A j \in 1 .. i - 1 : s[j] = t[j]

LEMMA LexicalParts ==
    ASSUME NEW a \in Seq(Nat), NEW b \in Seq(Nat)
    PROVE  /\ Len(a) \in Nat /\ \A i \in 1 .. Len(a) : a[i] \in Nat
           /\ Lexical(a, b) <=> \/ PrefixLess(a, b)
                                \/ \E i \in 1 .. Len(a) : i \in 1 .. Len(b) /\ LessAt(a, b, i)
<1>1. DOMAIN a = 1 .. Len(a) /\ DOMAIN b = 1 .. Len(b)
  OBVIOUS
<1>2. Len(a) \in Nat /\ \A i \in 1 .. Len(a) : a[i] \in Nat
  OBVIOUS
<1>3. Lexical(a, b) <=> \/ Len(a) < Len(b) /\ \A i \in 1 .. Len(a) : a[i] = b[i]
                        \/ \E i \in (1 .. Len(a)) \cap (1 .. Len(b)) :
                             a[i] < b[i] /\ \A j \in 1 .. i - 1 : a[j] = b[j]
  BY <1>1, Zenon DEF Lexical
<1>4. QED
  BY <1>2, <1>3, Zenon DEF PrefixLess, LessAt

\* Strings have a strict total order.
LEMMA LexicalTotal ==
    ASSUME NEW a \in Seq(Nat), NEW b \in Seq(Nat), a # b
    PROVE  Lexical(a, b) \/ Lexical(b, a)
<1>1. PICK m, n \in Nat : m = Len(a) /\ n = Len(b)
  OBVIOUS
<1> DEFINE D == {i \in 1 .. m : i \in 1 .. n /\ a[i] # b[i]}
<1>2. CASE D = {}
  <2>1. \A i \in 1 .. m : i \in 1 .. n => a[i] = b[i]
    BY <1>2
  <2>2. m = n => FALSE
    <3>1. SUFFICES ASSUME m = n PROVE FALSE
      OBVIOUS
    <3>2. \A i \in 1 .. Len(a) : a[i] = b[i]
      BY <1>1, <2>1, <3>1
    <3>3. QED
      BY <1>1, <3>1, <3>2, SameSeq
  <2>3. m < n => PrefixLess(a, b)
    BY <1>1, <2>1 DEF PrefixLess
  <2>4. n < m => PrefixLess(b, a)
    BY <1>1, <2>1 DEF PrefixLess
  <2>5. m < n \/ n < m
    BY <1>1, <2>2
  <2>6. QED
    BY <2>3, <2>4, <2>5, LexicalParts
<1>3. CASE D # {}
  <2>1. PICK i \in D : \A j \in D : i <= j
    <3>1. D \in SUBSET Nat
      OBVIOUS
    <3> HIDE DEF D
    <3>2. QED
      BY <1>3, <3>1, LeastNat
  <2>2. i \in 1 .. m /\ i \in 1 .. n /\ a[i] # b[i] /\ a[i] \in Nat /\ b[i] \in Nat
    BY <1>1, <2>1
  <2>3. \A j \in 1 .. i - 1 : a[j] = b[j]
    <3>1. SUFFICES ASSUME NEW j \in 1 .. i - 1, a[j] # b[j] PROVE FALSE
      OBVIOUS
    <3>2. j \in 1 .. m /\ j \in 1 .. n /\ ~(i <= j)
      BY <1>1, <2>2
    <3>3. j \in D
      BY <3>1, <3>2
    <3>4. QED
      BY <2>1, <3>2, <3>3
  <2>4. LessAt(a, b, i) \/ LessAt(b, a, i)
    BY <2>2, <2>3 DEF LessAt
  <2>5. QED
    BY <1>1, <2>2, <2>4, LexicalParts
<1>4. QED
  BY <1>2, <1>3

LEMMA LexicalIrreflexive ==
    ASSUME NEW a \in Seq(Nat)
    PROVE  ~Lexical(a, a)
<1>1. ~(Len(a) < Len(a)) /\ \A i \in 1 .. Len(a) : ~(a[i] < a[i])
  OBVIOUS
<1>2. QED
  BY <1>1, LexicalParts DEF PrefixLess, LessAt

LEMMA LexicalTransitive ==
    ASSUME NEW a \in Seq(Nat), NEW b \in Seq(Nat), NEW c \in Seq(Nat),
           Lexical(a, b), Lexical(b, c)
    PROVE  Lexical(a, c)
<1>1. PICK l, m, n \in Nat : l = Len(a) /\ m = Len(b) /\ n = Len(c)
  OBVIOUS
<1>2. CASE PrefixLess(a, b) /\ PrefixLess(b, c)
  <2>1. PrefixLess(a, c)
    BY <1>1, <1>2 DEF PrefixLess
  <2>2. QED
    BY <2>1, LexicalParts
<1>3. ASSUME PrefixLess(a, b), NEW i \in 1 .. m, i \in 1 .. n, LessAt(b, c, i)
      PROVE  Lexical(a, c)
  <2>1. CASE i <= l
    <3>1. i \in 1 .. l /\ LessAt(a, c, i)
      BY <1>1, <1>3, <2>1 DEF PrefixLess, LessAt
    <3>2. QED
      BY <1>1, <1>3, <3>1, LexicalParts
  <2>2. CASE l < i
    <3>1. PrefixLess(a, c)
      <4>1. l < n
        BY <1>1, <1>3, <2>2
      <4>2. \A j \in 1 .. l : j \in 1 .. i - 1
        BY <1>1, <2>2
      <4>3. QED
        BY <1>1, <1>3, <4>1, <4>2 DEF PrefixLess, LessAt
    <3>2. QED
      BY <3>1, LexicalParts
  <2>3. QED
    BY <1>1, <2>1, <2>2
<1>4. ASSUME NEW i \in 1 .. l, i \in 1 .. m, LessAt(a, b, i), PrefixLess(b, c)
      PROVE  Lexical(a, c)
  <2>1. i \in 1 .. n /\ LessAt(a, c, i)
    <3>1. i \in 1 .. n /\ c[i] = b[i] /\ \A j \in 1 .. i - 1 : j \in 1 .. m /\ c[j] = b[j]
      <4>1. m < n /\ \A j \in 1 .. m : b[j] = c[j]
        BY <1>1, <1>4 DEF PrefixLess
      <4>2. \A j \in 1 .. i - 1 : j \in 1 .. m
        BY <1>1, <1>4
      <4>3. QED
        BY <1>4, <4>1, <4>2
    <3>2. QED
      BY <1>4, <3>1 DEF LessAt
  <2>2. QED
    BY <1>1, <2>1, LexicalParts
<1>5. ASSUME NEW i \in 1 .. l, i \in 1 .. m, LessAt(a, b, i),
             NEW j \in 1 .. m, j \in 1 .. n, LessAt(b, c, j)
      PROVE  Lexical(a, c)
  <2>0. a[i] \in Nat /\ b[i] \in Nat /\ b[j] \in Nat /\ c[j] \in Nat
    <3>1. /\ \A k \in 1 .. Len(a) : a[k] \in Nat
          /\ \A k \in 1 .. Len(b) : b[k] \in Nat
          /\ \A k \in 1 .. Len(c) : c[k] \in Nat
      BY LexicalParts
    <3>2. QED
      BY <1>1, <1>5, <3>1
  <2>1. CASE i < j
    <3>0. i \in 1 .. n /\ i \in 1 .. j - 1
      BY <1>1, <1>5, <2>1
    <3>1. i \in 1 .. n /\ c[i] = b[i] /\ \A k \in 1 .. i - 1 : k \in 1 .. j - 1
      BY <1>1, <1>5, <2>1, <3>0 DEF LessAt
    <3>2. LessAt(a, c, i)
      BY <1>5, <3>1 DEF LessAt
    <3>3. QED
      BY <1>1, <1>5, <3>1, <3>2, LexicalParts
  <2>2. CASE j < i
    <3>1. j \in 1 .. l /\ j \in 1 .. i - 1 /\ \A k \in 1 .. j - 1 : k \in 1 .. i - 1
      BY <1>1, <1>5, <2>2
    <3>2. a[j] = b[j] /\ \A k \in 1 .. j - 1 : a[k] = b[k]
      BY <1>5, <3>1 DEF LessAt
    <3>3. LessAt(a, c, j)
      BY <1>5, <3>2 DEF LessAt
    <3>4. QED
      BY <1>1, <1>5, <3>1, <3>3, LexicalParts
  <2>3. CASE i = j
    <3>1. i \in 1 .. n /\ c[i] \in Nat
      BY <1>1, <1>5, <2>3
    <3>2. LessAt(a, c, i)
      BY <1>5, <2>0, <2>3, <3>1 DEF LessAt
    <3>3. QED
      BY <1>1, <3>1, <3>2, LexicalParts
  <2>4. QED
    BY <2>1, <2>2, <2>3
<1>6. /\ PrefixLess(a, b) \/ \E i \in 1 .. l : i \in 1 .. m /\ LessAt(a, b, i)
      /\ PrefixLess(b, c) \/ \E i \in 1 .. m : i \in 1 .. n /\ LessAt(b, c, i)
  BY <1>1, LexicalParts
<1>7. QED
  BY <1>2, <1>3, <1>4, <1>5, <1>6

-----------------------------------------------------------------------------
(* Words *)

LEMMA StringFacts ==
    /\ Chars \cup {Space} \subseteq Nat /\ Space \in Chars \cup {Space}
    /\ <<>> \in String /\ String \subseteq Seq(Nat)
    /\ \A s \in String : Len(s) \in Nat /\ DOMAIN s = 1 .. Len(s)
<1>1. Chars \cup {Space} \subseteq Nat
  BY CorrectionAssumption DEF Space
<1>2. QED
  BY <1>1 DEF String

\* A part of a sequence.
LEMMA PartOf ==
    ASSUME NEW T, NEW s \in Seq(T), NEW i \in 1 .. Len(s), NEW k \in i .. Len(s)
    PROVE  /\ SubSeq(s, i, k) \in Seq(T) /\ Len(SubSeq(s, i, k)) = k - i + 1
           /\ \A p \in 1 .. k - i + 1 : SubSeq(s, i, k)[p] = s[i + p - 1]
<1>1. i \in Nat /\ k \in Nat /\ Len(s) \in Nat /\ i <= k /\ k - i + 1 \in Nat
  OBVIOUS
<1>2. \A p \in 1 .. k - i + 1 : i + p - 1 \in 1 .. Len(s)
  BY <1>1
<1>3. QED
  BY <1>1, <1>2

LEMMA WordType ==
    ASSUME NEW s \in String, NEW i \in DOMAIN s
    PROVE  WordAt(s, i) \in String
<1>1. PICK n \in Nat : n = Len(s) /\ i \in 1 .. n
  BY StringFacts
<1> DEFINE E == {k \in i .. Len(s) : k = Len(s) \/ s[k + 1] = Space}
<1>2. E \in SUBSET Nat /\ n \in E
  BY <1>1
<1>3. Smallest(E) \in E
  <2> HIDE DEF E
  <2>1. QED
    BY <1>2, SmallestNat
<1>4. PICK k \in i .. n : k = Smallest(E)
  BY <1>1, <1>3
<1>5. WordAt(s, i) = SubSeq(s, i, k)
  BY <1>4 DEF WordAt
<1>6. PICK T : String = Seq(T)
  BY DEF String
<1>7. SubSeq(s, i, k) \in Seq(T)
  BY <1>1, <1>4, <1>6, PartOf
<1>8. QED
  BY <1>5, <1>6, <1>7

LEMMA TokensType ==
    ASSUME NEW s \in String
    PROVE  tokens(s) \in Seq(String)
<1> DEFINE f == [i \in DOMAIN s |-> WordAt(s, i)]
           K == {i \in DOMAIN s : s[i] # Space /\ (i = 1 \/ s[i - 1] = Space)}
<1>1. f \in Seq(String) /\ DOMAIN f = DOMAIN s
  <2>1. DOMAIN s = 1 .. Len(s) /\ Len(s) \in Nat
    BY StringFacts
  <2>2. \A i \in 1 .. Len(s) : WordAt(s, i) \in String
    BY <2>1, WordType
  <2>3. QED
    BY <2>1, <2>2
<1>2. K \in SUBSET DOMAIN f
  BY <1>1
<1>3. tokens(s) = Picked(f, K)
  BY DEF tokens
<1> HIDE DEF f, K
<1>4. QED
  BY <1>1, <1>2, <1>3, PickedSet

\* What stands before word i.
Glue(i) == IF i = 1 THEN <<>> ELSE <<Space>>

LEMMA JoinedFacts ==
    ASSUME NEW toks \in Seq(String), NEW L, L = Joined(toks)
    PROVE  /\ L \in [0 .. Len(toks) -> String] /\ L[0] = <<>>
           /\ \A k \in 1 .. Len(toks) : L[k] = L[k - 1] \o Glue(k) \o toks[k]
<1>1. PICK N \in Nat : N = Len(toks)
  OBVIOUS
<1>2. PICK S : S = String
  OBVIOUS
<1> DEFINE Body(f, i) == IF i = 0 THEN <<>> ELSE f[i - 1] \o Glue(i) \o toks[i]
           next == [x \in S \X (1 .. N) |-> x[1] \o Glue(x[2]) \o toks[x[2]]]
<1>3. <<>> \in S
  BY <1>2, StringFacts
<1>4. next \in [S \X (1 .. N) -> S]
  <2>1. ASSUME NEW s \in S, NEW k \in 1 .. N PROVE s \o Glue(k) \o toks[k] \in S
    <3>1. PICK T : T = Chars \cup {Space} /\ String = Seq(T) /\ Space \in T
      BY DEF String
    <3>2. <<>> \in Seq(T) /\ <<Space>> \in Seq(T)
      BY <3>1
    <3> Glue(k) \in Seq(T)
      BY <3>2 DEF Glue
    <3>3. toks[k] \in Seq(T) /\ s \in Seq(T)
      BY <1>1, <1>2, <3>1
    <3>4. QED
      BY <1>2, <3>1, <3>2, <3>3
  <2>2. QED
    BY <2>1
<1>5. \A s \in S, k \in 1 .. N : next[<<s, k>>] = s \o Glue(k) \o toks[k]
  OBVIOUS
<1> HIDE DEF next
<1>6. PICK f : LoopOf(f, S, N, <<>>, next)
  BY <1>3, <1>4, LoopRuns
<1>7. \A i \in 0 .. N : f[i] = Body(f, i)
  <2>1. SUFFICES ASSUME NEW i \in 0 .. N, i # 0
                 PROVE  f[i] = f[i - 1] \o Glue(i) \o toks[i]
    BY <1>6 DEF LoopOf
  <2>2. i \in 1 .. N /\ i - 1 \in 0 .. N
    BY <2>1
  <2>3. f[i - 1] \in S /\ f[i] = next[<<f[i - 1], i>>]
    BY <1>6, <2>2 DEF LoopOf
  <2>4. QED
    BY <1>5, <2>2, <2>3
<1>8. \E g : g = [i \in 0 .. N |-> Body(g, i)]
  <2>1. f = [i \in 0 .. N |-> f[i]]
    BY <1>6 DEF LoopOf
  <2> HIDE DEF Body
  <2>2. f = [i \in 0 .. N |-> Body(f, i)]
    BY <1>7, <2>1
  <2>3. QED
    BY <2>2
<1>9. L = CHOOSE g : g = [i \in 0 .. N |-> Body(g, i)]
  BY <1>1 DEF Joined, Glue
<1> HIDE DEF Body
<1>10. L = [i \in 0 .. N |-> Body(L, i)]
  BY <1>8, <1>9, Zenon
<1>11. L[0] = <<>>
  <2>1. 0 \in 0 .. N
    OBVIOUS
  <2>2. QED
    BY <1>10, <2>1 DEF Body
<1>12. ASSUME NEW k \in 1 .. N PROVE L[k] = L[k - 1] \o Glue(k) \o toks[k]
  <2>1. k \in 0 .. N /\ k # 0
    OBVIOUS
  <2>2. L[k] = Body(L, k)
    BY <1>10, <2>1
  <2>3. QED
    BY <2>1, <2>2 DEF Body
<1>13. LoopOf(L, S, N, <<>>, next)
  <2>1. \A k \in 1 .. N : L[k - 1] \in S => L[k] = next[<<L[k - 1], k>>]
    BY <1>5, <1>12
  <2>2. L = [i \in 0 .. N |-> L[i]]
    BY <1>10
  <2>3. QED
    BY <1>6, <1>11, <2>1, <2>2, LoopOnly
<1>14. L \in [0 .. N -> S]
  BY <1>13 DEF LoopOf
<1>15. QED
  BY <1>1, <1>2, <1>11, <1>12, <1>14

LEMMA JoinType ==
    ASSUME NEW toks \in Seq(String)
    PROVE  join(toks) \in String
<1>1. PICK L : L = Joined(toks)
  OBVIOUS
<1>2. L \in [0 .. Len(toks) -> String]
  BY <1>1, JoinedFacts
<1> Len(toks) \in 0 .. Len(toks)
  OBVIOUS
<1>3. QED
  BY <1>1, <1>2 DEF join

-----------------------------------------------------------------------------
(* The edit distance *)

\* One cell of the table from its neighbours.
Cost(long, short, i, j) == IF long[i] = short[j] THEN 0 ELSE 1
Cell(x, y, z) == Smallest({x, y, z})

LEMMA CellFacts ==
    ASSUME NEW x \in Nat, NEW y \in Nat, NEW z \in Nat
    PROVE  /\ Cell(x, y, z) \in Nat /\ Cell(x, y, z) \in {x, y, z}
           /\ Cell(x, y, z) <= x /\ Cell(x, y, z) <= y /\ Cell(x, y, z) <= z
<1> DEFINE S == {x, y, z}
<1>1. S \in SUBSET Nat /\ S # {} /\ x \in S /\ y \in S /\ z \in S
  OBVIOUS
<1>2. Cell(x, y, z) = Smallest(S)
  BY DEF Cell
<1> HIDE DEF S
<1>3. Cell(x, y, z) \in S /\ \A w \in S : Cell(x, y, z) <= w
  BY <1>1, <1>2, SmallestNat
<1>4. QED
  BY <1>1, <1>3 DEF S

\* A row of the table, made from the one before it.
RowFrom(L, prev, long, short, i, n) ==
    /\ L \in [0 .. n -> Nat] /\ L[0] = i
    /\ \A j \in 1 .. n :
         L[j] = Cell(prev[j] + 1, L[j - 1] + 1, prev[j - 1] + Cost(long, short, i, j))

LEMMA NextRowFacts ==
    ASSUME NEW long, NEW short, NEW N \in Nat, N = Len(short), NEW prev \in [0 .. N -> Nat],
           NEW i \in Nat, NEW L, L = NextRow(long, short, prev, i)
    PROVE  RowFrom(L, prev, long, short, i, N)
<1> DEFINE Turn(c, j) == Cell(prev[j] + 1, c + 1, prev[j - 1] + Cost(long, short, i, j))
           Body(f, j) == IF j = 0 THEN i ELSE Turn(f[j - 1], j)
           next == [x \in Nat \X (1 .. N) |-> Turn(x[1], x[2])]
<1>1. ASSUME NEW c \in Nat, NEW j \in 1 .. N PROVE Turn(c, j) \in Nat
  <2>1. j \in 0 .. N /\ j - 1 \in 0 .. N
    OBVIOUS
  <2>2. prev[j] + 1 \in Nat /\ c + 1 \in Nat /\ prev[j - 1] + Cost(long, short, i, j) \in Nat
    BY <2>1 DEF Cost
  <2>3. QED
    BY <2>2, CellFacts
<1> HIDE DEF Turn
<1>4. next \in [Nat \X (1 .. N) -> Nat]
  BY <1>1
<1>5. \A c \in Nat, j \in 1 .. N : next[<<c, j>>] = Turn(c, j)
  OBVIOUS
<1> HIDE DEF next
<1>6. PICK f : LoopOf(f, Nat, N, i, next)
  BY <1>4, LoopRuns
<1>7. \A j \in 0 .. N : f[j] = Body(f, j)
  <2>1. SUFFICES ASSUME NEW j \in 0 .. N, j # 0 PROVE f[j] = Turn(f[j - 1], j)
    BY <1>6 DEF LoopOf
  <2>2. j \in 1 .. N /\ j - 1 \in 0 .. N
    BY <2>1
  <2>3. f[j - 1] \in Nat /\ f[j] = next[<<f[j - 1], j>>]
    BY <1>6, <2>2 DEF LoopOf
  <2>4. QED
    BY <1>5, <2>2, <2>3
<1>8. \E g : g = [j \in 0 .. N |-> Body(g, j)]
  <2>1. f = [j \in 0 .. N |-> f[j]]
    BY <1>6 DEF LoopOf
  <2> HIDE DEF Body
  <2>2. f = [j \in 0 .. N |-> Body(f, j)]
    BY <1>7, <2>1
  <2>3. QED
    BY <2>2
<1>9. L = CHOOSE g : g = [j \in 0 .. N |-> Body(g, j)]
  BY DEF NextRow, Turn, Cell, Cost
<1> HIDE DEF Body
<1>10. L = [j \in 0 .. N |-> Body(L, j)]
  BY <1>8, <1>9, Zenon
<1>11. L[0] = i
  <2>1. 0 \in 0 .. N
    OBVIOUS
  <2>2. QED
    BY <1>10, <2>1 DEF Body
<1>12. ASSUME NEW k \in 1 .. N PROVE L[k] = Turn(L[k - 1], k)
  <2>1. k \in 0 .. N /\ k # 0
    OBVIOUS
  <2>2. L[k] = Body(L, k)
    BY <1>10, <2>1
  <2>3. QED
    BY <2>1, <2>2 DEF Body
<1>13. LoopOf(L, Nat, N, i, next)
  <2>1. \A k \in 1 .. N : L[k - 1] \in Nat => L[k] = next[<<L[k - 1], k>>]
    BY <1>5, <1>12
  <2>2. L = [j \in 0 .. N |-> L[j]]
    BY <1>10
  <2>3. QED
    BY <1>6, <1>11, <2>1, <2>2, LoopOnly
<1>14. L \in [0 .. N -> Nat]
  BY <1>13 DEF LoopOf
<1>15. QED
  BY <1>11, <1>12, <1>14 DEF Turn, RowFrom

\* T is the table of the distances between the prefixes of two words.
Table(T, long, short, m, n) ==
    /\ T \in [0 .. m -> [0 .. n -> Nat]]
    /\ \A j \in 0 .. n : T[0][j] = j
    /\ \A i \in 0 .. m : T[i][0] = i
    /\ \A i \in 1 .. m, j \in 1 .. n :
         T[i][j] = Cell(T[i - 1][j] + 1, T[i][j - 1] + 1,
                        T[i - 1][j - 1] + Cost(long, short, i, j))

LEMMA RowsFacts ==
    ASSUME NEW long, NEW short, NEW m \in Nat, NEW n \in Nat, m = Len(long), n = Len(short),
           NEW L, L = Rows(long, short)
    PROVE  Table(L, long, short, m, n)
<1>1. PICK S : S = [0 .. n -> Nat]
  OBVIOUS
<1> DEFINE first == [j \in 0 .. n |-> j]
           Body(f, i) == IF i = 0 THEN first ELSE NextRow(long, short, f[i - 1], i)
           next == [x \in S \X (1 .. m) |-> NextRow(long, short, x[1], x[2])]
<1>2. ASSUME NEW r \in S, NEW i \in 1 .. m PROVE NextRow(long, short, r, i) \in S
  <2>1. i \in Nat
    OBVIOUS
  <2>2. QED
    BY <1>1, <2>1, NextRowFacts DEF RowFrom
<1>3. first \in S /\ \A j \in 0 .. n : first[j] = j
  BY <1>1
<1>4. next \in [S \X (1 .. m) -> S]
  BY <1>2
<1>5. \A r \in S, i \in 1 .. m : next[<<r, i>>] = NextRow(long, short, r, i)
  OBVIOUS
<1> HIDE DEF next, first
<1>6. PICK f : LoopOf(f, S, m, first, next)
  BY <1>3, <1>4, LoopRuns
<1>7. \A i \in 0 .. m : f[i] = Body(f, i)
  <2>1. SUFFICES ASSUME NEW i \in 0 .. m, i # 0 PROVE f[i] = NextRow(long, short, f[i - 1], i)
    BY <1>6 DEF LoopOf
  <2>2. i \in 1 .. m /\ i - 1 \in 0 .. m
    BY <2>1
  <2>3. f[i - 1] \in S /\ f[i] = next[<<f[i - 1], i>>]
    BY <1>6, <2>2 DEF LoopOf
  <2>4. QED
    BY <1>5, <2>2, <2>3
<1>8. \E g : g = [i \in 0 .. m |-> Body(g, i)]
  <2>1. f = [i \in 0 .. m |-> f[i]]
    BY <1>6 DEF LoopOf
  <2> HIDE DEF Body
  <2>2. f = [i \in 0 .. m |-> Body(f, i)]
    BY <1>7, <2>1
  <2>3. QED
    BY <2>2
<1>9. L = CHOOSE g : g = [i \in 0 .. m |-> Body(g, i)]
  BY DEF Rows, first
<1> HIDE DEF Body
<1>10. L = [i \in 0 .. m |-> Body(L, i)]
  BY <1>8, <1>9, Zenon
<1>11. L[0] = first
  <2>1. 0 \in 0 .. m
    OBVIOUS
  <2>2. QED
    BY <1>10, <2>1 DEF Body
<1>12. ASSUME NEW k \in 1 .. m PROVE L[k] = NextRow(long, short, L[k - 1], k)
  <2>1. k \in 0 .. m /\ k # 0
    OBVIOUS
  <2>2. L[k] = Body(L, k)
    BY <1>10, <2>1
  <2>3. QED
    BY <2>1, <2>2 DEF Body
<1>13. LoopOf(L, S, m, first, next)
  <2>1. \A k \in 1 .. m : L[k - 1] \in S => L[k] = next[<<L[k - 1], k>>]
    BY <1>5, <1>12
  <2>2. L = [i \in 0 .. m |-> L[i]]
    BY <1>10
  <2>3. QED
    BY <1>6, <1>11, <2>1, <2>2, LoopOnly
<1>14. L \in [0 .. m -> [0 .. n -> Nat]]
  BY <1>1, <1>13 DEF LoopOf
<1>15. ASSUME NEW i \in 1 .. m
       PROVE  /\ L[i][0] = i
              /\ \A j \in 1 .. n :
                   L[i][j] = Cell(L[i - 1][j] + 1, L[i][j - 1] + 1,
                                  L[i - 1][j - 1] + Cost(long, short, i, j))
  <2>1. i - 1 \in 0 .. m /\ i \in Nat
    OBVIOUS
  <2>2. L[i - 1] \in [0 .. n -> Nat]
    BY <1>14, <2>1
  <2>3. PICK prev, row : prev = L[i - 1] /\ row = L[i]
    OBVIOUS
  <2>4. prev \in [0 .. n -> Nat] /\ row = NextRow(long, short, prev, i)
    BY <1>12, <2>2, <2>3
  <2>5. RowFrom(row, prev, long, short, i, n)
    BY <2>1, <2>4, NextRowFacts
  <2>6. QED
    BY <2>3, <2>5 DEF RowFrom
<1>16. \A i \in 0 .. m : L[i][0] = i
  <2>1. 0 \in 0 .. n /\ \A i \in 0 .. m : i = 0 \/ i \in 1 .. m
    OBVIOUS
  <2>2. QED
    BY <1>3, <1>11, <1>15, <2>1
<1>17. QED
  BY <1>3, <1>11, <1>14, <1>15, <1>16 DEF Table

LEMMA DistanceType ==
    ASSUME NEW a \in String, NEW b \in String
    PROVE  distance(a, b) \in Nat
<1>1. PICK m, n \in Nat : m = Len(a) /\ n = Len(b)
  BY StringFacts
<1>2. PICK P, Q : P = Rows(a, b) /\ Q = Rows(b, a)
  OBVIOUS
<1>3. Table(P, a, b, m, n) /\ Table(Q, b, a, n, m)
  BY <1>1, <1>2, RowsFacts
<1>4. m \in 0 .. m /\ n \in 0 .. n
  BY <1>1
<1>5. P[m][n] \in Nat /\ Q[n][m] \in Nat
  BY <1>3, <1>4 DEF Table
<1>6. QED
  BY <1>1, <1>2, <1>5 DEF distance

\* The order in which near words are proposed.
LEMMA NearerOrder ==
    ASSUME NEW word \in String, NEW near \in SUBSET String, NEW freq,
           \A n \in near : freq[n] \in Nat,
           NEW R, R = {x \in near \X near : Nearer(word, freq, x[1], x[2])}
    PROVE  StrictOrder(near, R)
<1>1. \A m, n \in near : <<m, n>> \in R <=> Nearer(word, freq, m, n)
  OBVIOUS
<1>2. PICK d : d = [n \in near |-> distance(word, n)]
  OBVIOUS
<1>3. \A n \in near : d[n] = distance(word, n) /\ d[n] \in Nat /\ freq[n] \in Nat
  BY <1>2, DistanceType
<1>4. \A m, n \in near : <<m, n>> \in R <=>
        \/ d[m] < d[n]
        \/ d[m] = d[n] /\ freq[m] > freq[n]
        \/ d[m] = d[n] /\ freq[m] = freq[n] /\ Lexical(m, n)
  <2>1. SUFFICES ASSUME NEW m \in near, NEW n \in near
                 PROVE  Nearer(word, freq, m, n) <=>
                          \/ d[m] < d[n]
                          \/ d[m] = d[n] /\ freq[m] > freq[n]
                          \/ d[m] = d[n] /\ freq[m] = freq[n] /\ Lexical(m, n)
    BY <1>1
  <2>2. d[m] = distance(word, m) /\ d[n] = distance(word, n)
    BY <1>3
  <2>3. QED
    BY <2>2, Zenon DEF Nearer
<1>5. \A n \in near : n \in Seq(Nat)
  BY StringFacts
<1>6. \A n \in near : ~Lexical(n, n)
  BY <1>5, LexicalIrreflexive
<1>7. \A m, n \in near : m # n => Lexical(m, n) \/ Lexical(n, m)
  BY <1>5, LexicalTotal
<1>8. \A l, m, n \in near : Lexical(l, m) /\ Lexical(m, n) => Lexical(l, n)
  BY <1>5, LexicalTransitive
<1>9. \A n \in near : <<n, n>> \notin R
  BY <1>3, <1>4, <1>6
<1>10. \A m, n \in near : m # n => <<m, n>> \in R \/ <<n, m>> \in R
  BY <1>3, <1>4, <1>7
<1>11. ASSUME NEW l \in near, NEW m \in near, NEW n \in near, <<l, m>> \in R, <<m, n>> \in R
       PROVE  <<l, n>> \in R
  <2>1. /\ d[l] \in Nat /\ d[m] \in Nat /\ d[n] \in Nat
        /\ freq[l] \in Nat /\ freq[m] \in Nat /\ freq[n] \in Nat
    BY <1>3
  <2>2. Lexical(l, m) /\ Lexical(m, n) => Lexical(l, n)
    BY <1>8
  <2>3. QED
    BY <1>4, <1>11, <2>1, <2>2
<1>12. QED
  BY <1>9, <1>10, <1>11 DEF StrictOrder

\* One element of a sequence changed.
LEMMA WithFacts ==
    ASSUME NEW T, NEW s \in Seq(T), NEW k, NEW w \in T
    PROVE  /\ [s EXCEPT ![k] = w] \in Seq(T) /\ Len([s EXCEPT ![k] = w]) = Len(s)
           /\ \A i \in 1 .. Len(s) : [s EXCEPT ![k] = w][i] = IF i = k THEN w ELSE s[i]
<1>1. [s EXCEPT ![k] = w] = [i \in 1 .. Len(s) |-> IF i = k THEN w ELSE s[i]]
  OBVIOUS
<1>2. \A i \in 1 .. Len(s) : (IF i = k THEN w ELSE s[i]) \in T
  OBVIOUS
<1>3. Len(s) \in Nat
  OBVIOUS
<1>4. PICK t : t = [i \in 1 .. Len(s) |-> IF i = k THEN w ELSE s[i]]
  OBVIOUS
<1>5. t \in Seq(T) /\ Len(t) = Len(s)
  BY <1>2, <1>3, <1>4
<1>6. \A i \in 1 .. Len(s) : t[i] = IF i = k THEN w ELSE s[i]
  BY <1>4
<1>7. QED
  BY <1>1, <1>4, <1>5, <1>6

\* The commands made by putting each of some words in place of one.
LEMMA ReplacedType ==
    ASSUME NEW toks \in Seq(String), NEW k \in Nat, NEW near \in SUBSET String,
           IsFiniteSet(near), NEW R, StrictOrder(near, R),
           NEW r, r = Replaced(toks, k, near, R)
    PROVE  /\ r \in Seq(String)
           /\ ToSet(r) = {join([toks EXCEPT ![k] = w]) : w \in near}
<1>1. PICK ranked : ranked = Ranked(near, R)
  OBVIOUS
<1>2. Lists(ranked, near, R) /\ ranked \in Seq(near) /\ Len(ranked) = Cardinality(near)
  BY <1>1, RankedLists
<1>3. PICK n \in Nat : n = Cardinality(near) /\ DOMAIN ranked = 1 .. n
  BY <1>2
<1> DEFINE C(w) == join([toks EXCEPT ![k] = w])
<1>4. \A w \in near : [toks EXCEPT ![k] = w] \in Seq(String)
  BY WithFacts
<1>5. \A w \in near : C(w) \in String
  BY <1>4, JoinType
<1>6. r = [i \in 1 .. n |-> C(ranked[i])]
  BY <1>1, <1>3 DEF Replaced
<1> HIDE DEF C
<1>7. \A i \in 1 .. n : ranked[i] \in near
  BY <1>2, <1>3
<1>8. r \in Seq(String) /\ DOMAIN r = 1 .. n
  BY <1>3, <1>5, <1>6, <1>7
<1>9. \A i \in 1 .. n : r[i] = C(ranked[i])
  BY <1>6
<1>10. \A w \in near : \E i \in 1 .. n : ranked[i] = w
  BY <1>2, <1>3 DEF Lists
<1>11. ToSet(r) = {r[i] : i \in 1 .. n}
  BY <1>8 DEF ToSet
<1>12. ToSet(r) = {C(w) : w \in near}
  BY <1>7, <1>9, <1>10, <1>11
<1>13. QED
  BY <1>8, <1>12 DEF C

\* What no_command and subcommand_typo propose.
LEMMA NoCommandProposes ==
    ASSUME NEW toks \in Seq(String), toks # <<>>, NEW freq \in [Names -> Nat],
           NEW r, r = no_command(toks, freq)
    PROVE  /\ r \in Seq(String)
           /\ ToSet(r) = {join([toks EXCEPT ![1] = n]) :
                            n \in {m \in Names : freq[m] > 0 /\ Near(toks[1], m)}}
<1>1. PICK near : near = {n \in Names : freq[n] > 0 /\ Near(toks[1], n)}
  OBVIOUS
<1>2. near \in SUBSET String /\ near \subseteq Names
  BY <1>1, CorrectionAssumption
<1>3. IsFiniteSet(near)
  BY <1>2, CorrectionAssumption, FS_Subset
<1>4. PICK R : R = {x \in near \X near : Nearer(toks[1], freq, x[1], x[2])}
  OBVIOUS
<1>5. toks[1] \in String /\ \A n \in near : freq[n] \in Nat
  BY <1>2
<1>6. StrictOrder(near, R)
  BY <1>2, <1>4, <1>5, NearerOrder
<1>7. r = Replaced(toks, 1, near, R)
  BY <1>1, <1>4 DEF no_command
<1>8. r \in Seq(String) /\ ToSet(r) = {join([toks EXCEPT ![1] = w]) : w \in near}
  BY <1>2, <1>3, <1>6, <1>7, ReplacedType
<1>9. QED
  BY <1>1, <1>8, Zenon

\* The subcommands of the first spec that answers to a command.
Known(word) == UNION Specs[Smallest({i \in DOMAIN Specs : word \in Specs[i].name})].subcommands

LEMMA TypoProposes ==
    ASSUME NEW toks \in Seq(String), NEW r, r = subcommand_typo(toks)
    PROVE  /\ r \in Seq(String)
           /\ r # <<>> =>
                /\ Len(toks) >= 2 /\ \E i \in DOMAIN Specs : toks[1] \in Specs[i].name
                /\ toks[2] \notin Known(toks[1])
                /\ ToSet(r) = {join([toks EXCEPT ![2] = w]) :
                                 w \in {k \in Known(toks[1]) : Near(toks[2], k)}}
<1> DEFINE specs == {i \in DOMAIN Specs : toks[1] \in Specs[i].name}
<1>1. PICK known : known = Known(toks[1])
  OBVIOUS
<1>2. PICK near : near = {k \in known : Near(toks[2], k)}
  OBVIOUS
<1>3. PICK freq, R : /\ freq = [k \in near |-> 1]
                     /\ R = {x \in near \X near : Nearer(toks[2], freq, x[1], x[2])}
  OBVIOUS
<1>4. r = IF Len(toks) < 2 \/ specs = {} \/ toks[2] \in known THEN <<>>
          ELSE Replaced(toks, 2, near, R)
  BY <1>1, <1>2, <1>3 DEF subcommand_typo, Known
<1>5. CASE Len(toks) < 2 \/ specs = {} \/ toks[2] \in known
  BY <1>4, <1>5
<1>6. CASE ~(Len(toks) < 2 \/ specs = {} \/ toks[2] \in known)
  <2>1. specs \in SUBSET Nat /\ specs # {} /\ specs \subseteq DOMAIN Specs
    BY <1>6, CorrectionAssumption
  <2>2. PICK i \in DOMAIN Specs : i = Smallest(specs)
    <3> HIDE DEF specs
    <3>1. QED
      BY <2>1, SmallestNat
  <2>3. known = UNION Specs[i].subcommands
    BY <1>1, <2>2 DEF Known
  <2>4. Specs[i].subcommands \in SUBSET SUBSET String
    <3>1. PICK X : X = [name : SUBSET String, subcommands : SUBSET SUBSET String]
      OBVIOUS
    <3>2. Specs \in Seq(X)
      BY <3>1, CorrectionAssumption
    <3>3. Specs[i] \in X
      BY <3>2
    <3>4. QED
      BY <3>1, <3>3
  <2>5. near \in SUBSET String /\ near \subseteq known
    BY <1>2, <2>3, <2>4
  <2>6. IsFiniteSet(near)
    BY <2>3, <2>5, CorrectionAssumption, FS_Subset
  <2>7. Len(toks) >= 2 /\ toks[2] \in String
    BY <1>6
  <2>8. StrictOrder(near, R)
    <3>1. \A n \in near : freq[n] \in Nat
      BY <1>3
    <3>2. QED
      BY <1>3, <2>5, <2>7, <3>1, NearerOrder
  <2>9. r \in Seq(String) /\ ToSet(r) = {join([toks EXCEPT ![2] = w]) : w \in near}
    BY <1>4, <1>6, <2>5, <2>6, <2>8, ReplacedType
  <2>10. QED
    BY <1>1, <1>2, <1>6, <2>1, <2>7, <2>9
<1>7. QED
  BY <1>5, <1>6

-----------------------------------------------------------------------------
(* Rewrites *)

LEMMA InsertType ==
    ASSUME NEW T, NEW s \in Seq(T), NEW i \in 1 .. Len(s) + 1, NEW e \in T
    PROVE  InsertAt(s, i, e) \in Seq(T)
<1>1. Len(s) \in Nat /\ i \in Nat
  OBVIOUS
<1>2. PICK a, b : a = SubSeq(s, 1, i - 1) /\ b = SubSeq(s, i, Len(s))
  OBVIOUS
<1>3. a \in Seq(T)
  <2>1. CASE i = 1
    BY <1>1, <1>2, <2>1
  <2>2. CASE i # 1
    <3>1. 1 \in 1 .. Len(s) /\ i - 1 \in 1 .. Len(s)
      BY <1>1, <2>2
    <3>2. QED
      BY <1>2, <3>1, PartOf
  <2>3. QED
    BY <2>1, <2>2
<1>4. b \in Seq(T)
  <2>1. CASE i = Len(s) + 1
    BY <1>1, <1>2, <2>1
  <2>2. CASE i # Len(s) + 1
    <3>1. i \in 1 .. Len(s) /\ Len(s) \in i .. Len(s)
      BY <1>1, <2>2
    <3>2. QED
      BY <1>2, <3>1, PartOf
  <2>3. QED
    BY <2>1, <2>2
<1>5. InsertAt(s, i, e) = a \o <<e>> \o b
  BY <1>2 DEF InsertAt
<1>6. <<e>> \in Seq(T)
  OBVIOUS
<1>7. QED
  BY <1>3, <1>4, <1>5, <1>6

LEMMA PositionType ==
    ASSUME NEW T, NEW toks \in Seq(T), NEW t, Contains(toks, t)
    PROVE  Position(toks, t) \in 1 .. Len(toks)
<1> DEFINE S == {i \in DOMAIN toks : toks[i] = t}
<1>1. DOMAIN toks = 1 .. Len(toks) /\ Len(toks) \in Nat
  OBVIOUS
<1>2. S \in SUBSET Nat /\ S # {} /\ S \subseteq 1 .. Len(toks)
  BY <1>1 DEF Contains
<1>3. Position(toks, t) = Smallest(S)
  BY DEF Position
<1> HIDE DEF S
<1>4. QED
  BY <1>2, <1>3, SmallestNat

\* What a rewrite makes are scripts.
LEMMA RewriteType ==
    ASSUME NEW rw \in Rewrites, NEW script \in Scripts
    PROVE  apply_rewrite(rw, script) \in Seq(String)
<1>1. script \in String
  BY CorrectionAssumption
<1>2. PICK toks \in Seq(String) : toks = tokens(script)
  BY <1>1, TokensType
<1>3. PICK n \in Nat : n = Len(toks)
  BY <1>2
<1>4. \A b : \A c \in String : Only(b, c) \in Seq(String)
  BY DEF Only
<1>5. <<>> \in Seq(String)
  OBVIOUS
<1>6. PICK r : r = apply_rewrite(rw, script)
  OBVIOUS
<1>7. \A k, w : w \in String => join([toks EXCEPT ![k] = w]) \in String
  BY WithFacts, JoinType
<1>8. CASE rw \in [kind : {"insertFlag"}, after : String, flag : String]
  <2>1. rw.kind = "insertFlag" /\ rw.flag \in String
    BY <1>8
  <2>2. PICK next : next = Position(toks, rw.after) + 1
    OBVIOUS
  <2>3. r = IF Contains(toks, rw.after)
            THEN Only(next > Len(toks) \/ toks[next] # rw.flag,
                      join(InsertAt(toks, next, rw.flag)))
            ELSE <<>>
    BY <1>2, <1>6, <2>1, <2>2 DEF apply_rewrite
  <2>4. CASE Contains(toks, rw.after)
    <3>1. next \in 1 .. Len(toks) + 1
      <4>1. Position(toks, rw.after) \in 1 .. Len(toks)
        BY <2>4, PositionType
      <4>2. QED
        BY <1>3, <2>2, <4>1
    <3>2. InsertAt(toks, next, rw.flag) \in Seq(String)
      BY <2>1, <3>1, InsertType
    <3>3. join(InsertAt(toks, next, rw.flag)) \in String
      BY <3>2, JoinType
    <3>4. QED
      BY <1>4, <1>6, <2>3, <2>4, <3>3
  <2>5. QED
    BY <1>5, <1>6, <2>3, <2>4
<1>9. CASE rw \in [kind : {"replaceToken"}, index : Nat, with : String]
  <2>1. rw.kind = "replaceToken" /\ rw.with \in String
    BY <1>9
  <2>2. r = IF rw.index >= Len(toks) THEN <<>>
            ELSE Only(toks[rw.index + 1] # rw.with,
                      join([toks EXCEPT ![rw.index + 1] = rw.with]))
    BY <1>2, <1>6, <2>1 DEF apply_rewrite
  <2>3. QED
    BY <1>4, <1>5, <1>6, <1>7, <2>1, <2>2
<1>10. CASE rw \in [kind : {"prefix"}, prefix : String]
  <2>1. rw.kind = "prefix" /\ rw.prefix \in String
    BY <1>10
  <2>2. r = Only(~IsPrefix(rw.prefix, script), rw.prefix \o script)
    BY <1>6, <2>1 DEF apply_rewrite
  <2>3. rw.prefix \o script \in String
    BY <1>1, <2>1 DEF String
  <2>4. QED
    BY <1>4, <1>6, <2>2, <2>3
<1>11. CASE rw \in [kind : {"swapSubcommand"}, from : String, to : String]
  <2>1. rw.kind = "swapSubcommand" /\ rw.to \in String
    BY <1>11
  <2>2. r = IF Contains(toks, rw.from)
            THEN <<join([toks EXCEPT ![Position(toks, rw.from)] = rw.to])>> ELSE <<>>
    BY <1>2, <1>6, <2>1 DEF apply_rewrite
  <2>3. join([toks EXCEPT ![Position(toks, rw.from)] = rw.to]) \in String
    BY <1>7, <2>1
  <2>4. QED
    BY <1>5, <1>6, <2>2, <2>3
<1>12. CASE rw \in [kind : {"regexReplace"}, pattern : Pattern(Scripts),
                    with : [Scripts -> String]]
  <2>1. rw.kind = "regexReplace" /\ rw.with[script] \in String
    BY <1>12
  <2>2. r = Only(script \in rw.pattern.matches /\ rw.with[script] # script, rw.with[script])
    BY <1>6, <2>1 DEF apply_rewrite
  <2>3. QED
    BY <1>4, <1>6, <2>1, <2>2
<1>13. QED
  BY <1>8, <1>9, <1>10, <1>11, <1>12 DEF Rewrites

-----------------------------------------------------------------------------
(* Merging: sort, dedup, sort, cut *)

\* The two orders of candidates as sets of pairs.
CommandOrder == {x \in Candidate \X Candidate : ByCommand(x[1], x[2])}
RankOrder == {x \in Candidate \X Candidate : ByPriority(x[1], x[2])}

LEMMA CandidateFacts ==
    ASSUME NEW a \in Candidate
    PROVE  /\ a.command \in Seq(Nat) /\ a.rule_id \in Nat /\ a.priority \in Nat
           /\ a = [command |-> a.command, rule_id |-> a.rule_id, priority |-> a.priority]
<1>1. PICK T : T = String
  OBVIOUS
<1>2. a \in [command : T, rule_id : Nat, priority : 0 .. 255]
  BY <1>1 DEF Candidate
<1>3. /\ a.command \in T /\ a.rule_id \in Nat /\ a.priority \in 0 .. 255
      /\ a = [command |-> a.command, rule_id |-> a.rule_id, priority |-> a.priority]
  BY <1>2
<1>4. a.command \in Seq(Nat)
  <2>1. PICK w : w = a.command
    OBVIOUS
  <2>2. w \in String
    BY <1>1, <1>3, <2>1
  <2>3. w \in Seq(Nat)
    BY <2>2, StringFacts
  <2>4. QED
    BY <2>1, <2>3
<1>5. \A k \in 0 .. 255 : k \in Nat
  OBVIOUS
<1>6. QED
  BY <1>3, <1>4, <1>5, Zenon

\* Two candidates are one, or one comes before the other.
LEMMA OriginFacts ==
    ASSUME NEW a \in Candidate, NEW b \in Candidate
    PROVE  /\ ~BetterOrigin(a, a) /\ ~(BetterOrigin(a, b) /\ BetterOrigin(b, a))
           /\ \/ BetterOrigin(a, b) \/ BetterOrigin(b, a)
              \/ a.priority = b.priority /\ a.rule_id = b.rule_id
BY CandidateFacts DEF BetterOrigin

LEMMA CommandOrderStrict == StrictOrder(Candidate, CommandOrder)
<1>1. \A a, b \in Candidate : <<a, b>> \in CommandOrder <=>
        Lexical(a.command, b.command) \/ (a.command = b.command /\ BetterOrigin(a, b))
  BY DEF CommandOrder, ByCommand
<1>2. \A a \in Candidate : <<a, a>> \notin CommandOrder
  BY <1>1, CandidateFacts, LexicalIrreflexive, OriginFacts
<1>3. ASSUME NEW a \in Candidate, NEW b \in Candidate, NEW c \in Candidate,
             <<a, b>> \in CommandOrder, <<b, c>> \in CommandOrder
      PROVE  <<a, c>> \in CommandOrder
  <2>1. BetterOrigin(a, b) /\ BetterOrigin(b, c) => BetterOrigin(a, c)
    BY CandidateFacts DEF BetterOrigin
  <2>2. Lexical(a.command, b.command) /\ Lexical(b.command, c.command)
          => Lexical(a.command, c.command)
    BY CandidateFacts, LexicalTransitive
  <2>3. QED
    BY <1>1, <1>3, <2>1, <2>2
<1>4. ASSUME NEW a \in Candidate, NEW b \in Candidate, a # b
      PROVE  <<a, b>> \in CommandOrder \/ <<b, a>> \in CommandOrder
  <2>1. CASE a.command = b.command
    <3>1. ~(a.priority = b.priority /\ a.rule_id = b.rule_id)
      BY <1>4, <2>1, CandidateFacts
    <3>2. QED
      BY <1>1, <2>1, <3>1, OriginFacts
  <2>2. CASE a.command # b.command
    BY <1>1, <2>2, CandidateFacts, LexicalTotal
  <2>3. QED
    BY <2>1, <2>2
<1>5. QED
  BY <1>2, <1>3, <1>4 DEF StrictOrder

LEMMA RankOrderStrict == StrictOrder(Candidate, RankOrder)
<1>1. \A a, b \in Candidate : <<a, b>> \in RankOrder <=>
        \/ BetterOrigin(a, b)
        \/ /\ a.priority = b.priority /\ a.rule_id = b.rule_id
           /\ Lexical(a.command, b.command)
  BY DEF RankOrder, ByPriority
<1>2. \A a \in Candidate : <<a, a>> \notin RankOrder
  BY <1>1, CandidateFacts, LexicalIrreflexive, OriginFacts
<1>3. ASSUME NEW a \in Candidate, NEW b \in Candidate, NEW c \in Candidate,
             <<a, b>> \in RankOrder, <<b, c>> \in RankOrder
      PROVE  <<a, c>> \in RankOrder
  <2>1. /\ BetterOrigin(a, b) /\ BetterOrigin(b, c) => BetterOrigin(a, c)
        /\ a.priority = b.priority /\ a.rule_id = b.rule_id /\ BetterOrigin(b, c)
             => BetterOrigin(a, c)
        /\ BetterOrigin(a, b) /\ b.priority = c.priority /\ b.rule_id = c.rule_id
             => BetterOrigin(a, c)
    BY CandidateFacts DEF BetterOrigin
  <2>2. Lexical(a.command, b.command) /\ Lexical(b.command, c.command)
          => Lexical(a.command, c.command)
    BY CandidateFacts, LexicalTransitive
  <2>3. QED
    BY <1>1, <1>3, <2>1, <2>2
<1>4. ASSUME NEW a \in Candidate, NEW b \in Candidate, a # b
      PROVE  <<a, b>> \in RankOrder \/ <<b, a>> \in RankOrder
  <2>1. CASE a.command = b.command
    <3>1. ~(a.priority = b.priority /\ a.rule_id = b.rule_id)
      BY <1>4, <2>1, CandidateFacts
    <3>2. QED
      BY <1>1, <3>1, OriginFacts
  <2>2. CASE a.command # b.command
    <3>1. Lexical(a.command, b.command) \/ Lexical(b.command, a.command)
      BY <2>2, CandidateFacts, LexicalTotal
    <3>2. QED
      BY <1>1, <3>1, OriginFacts
  <2>3. QED
    BY <2>1, <2>2
<1>5. QED
  BY <1>2, <1>3, <1>4 DEF StrictOrder

\* r is s in the order B, what is equal side by side.
SortOf(r, s, B) ==
    /\ Len(r) = Len(s) /\ ToSet(r) = ToSet(s)
    /\ \A p, q \in 1 .. Len(r) : p < q => <<r[p], r[q]>> \in B \/ r[p] = r[q]
    /\ (\A i, j \in 1 .. Len(s) : i < j => s[i] # s[j])
         => \A p, q \in 1 .. Len(r) : p < q => <<r[p], r[q]>> \in B

LEMMA SortFacts ==
    ASSUME NEW S, NEW s \in Seq(S), NEW B, StrictOrder(S, B),
           NEW r, r = [p \in DOMAIN s |-> s[Ranked(DOMAIN s, Stable(s, B))[p]]]
    PROVE  r \in Seq(S) /\ SortOf(r, s, B)
<1>1. PICK R : R = Stable(s, B)
  OBVIOUS
<1>2. /\ StrictOrder(DOMAIN s, R)
      /\ \A i, j \in DOMAIN s : <<i, j>> \in R => <<s[i], s[j]>> \in B \/ s[i] = s[j]
  BY <1>1, StableOrder
<1>3. r = [p \in DOMAIN s |-> s[Ranked(DOMAIN s, R)[p]]]
  BY <1>1
<1>4. r \in Seq(S) /\ Arranges(r, s, R)
  BY <1>2, <1>3, ArrangedBy
<1>5. PICK n \in Nat : n = Len(s) /\ n = Len(r) /\ DOMAIN s = 1 .. n /\ DOMAIN r = 1 .. n
  <2>1. Len(r) = Len(s)
    BY <1>4 DEF Arranges
  <2>2. Len(s) \in Nat /\ DOMAIN s = 1 .. Len(s) /\ DOMAIN r = 1 .. Len(r)
    BY <1>4
  <2>3. QED
    BY <2>1, <2>2
<1>6. PICK place : Lists(place, DOMAIN s, R) /\ \A p \in 1 .. n : r[p] = s[place[p]]
  BY <1>4, <1>5 DEF Arranges
<1>7. Cardinality(1 .. n) = n
  <2>1. 1 \in Int /\ n \in Int
    BY <1>5
  <2>2. Cardinality(1 .. n) = IF 1 > n THEN 0 ELSE n - 1 + 1
    BY <2>1, FS_Interval, Zenon
  <2>3. QED
    BY <1>5, <2>2
<1>8. /\ place \in [1 .. n -> 1 .. n]
      /\ \A p, q \in 1 .. n : p < q => <<place[p], place[q]>> \in R
      /\ \A i \in 1 .. n : \E p \in 1 .. n : place[p] = i
  BY <1>5, <1>6, <1>7 DEF Lists
<1>9. ToSet(r) = ToSet(s)
  <2>1. ASSUME NEW p \in 1 .. n
        PROVE  r[p] \in ToSet(s)
    <3>1. place[p] \in DOMAIN s /\ r[p] = s[place[p]]
      BY <1>5, <1>6, <1>8
    <3>2. QED
      BY <3>1 DEF ToSet
  <2>2. ASSUME NEW i \in 1 .. n
        PROVE  s[i] \in ToSet(r)
    <3>1. PICK p \in 1 .. n : place[p] = i
      BY <1>8
    <3>2. r[p] = s[i] /\ p \in DOMAIN r
      BY <1>5, <1>6, <3>1
    <3>3. QED
      BY <3>2 DEF ToSet
  <2>3. \A x \in ToSet(r) : x \in ToSet(s)
    BY <1>5, <2>1 DEF ToSet
  <2>4. \A x \in ToSet(s) : x \in ToSet(r)
    BY <1>5, <2>2 DEF ToSet
  <2>5. QED
    BY <2>3, <2>4
<1>10. ASSUME NEW p \in 1 .. n, NEW q \in 1 .. n, p < q
       PROVE  /\ <<r[p], r[q]>> \in B \/ r[p] = r[q]
              /\ place[p] # place[q]
  <2>1. PICK i, j \in 1 .. n : i = place[p] /\ j = place[q] /\ <<i, j>> \in R
    BY <1>8, <1>10
  <2>2. i # j
    BY <1>2, <1>5, <2>1 DEF StrictOrder
  <2>3. r[p] = s[i] /\ r[q] = s[j]
    BY <1>6, <2>1
  <2>4. QED
    BY <1>2, <1>5, <2>1, <2>2, <2>3
<1>11. ASSUME \A i, j \in 1 .. n : i < j => s[i] # s[j]
       PROVE  \A p, q \in 1 .. n : p < q => <<r[p], r[q]>> \in B
  <2>1. SUFFICES ASSUME NEW p \in 1 .. n, NEW q \in 1 .. n, p < q PROVE <<r[p], r[q]>> \in B
    OBVIOUS
  <2>2. (<<r[p], r[q]>> \in B \/ r[p] = r[q]) /\ place[p] # place[q]
    BY <1>10, <2>1
  <2>3. PICK i, j \in 1 .. n : i = place[p] /\ j = place[q]
    BY <1>8
  <2>4. i < j \/ j < i
    BY <2>2, <2>3
  <2>5. s[i] # s[j]
    BY <1>11, <2>4
  <2>6. r[p] = s[i] /\ r[q] = s[j]
    BY <1>6, <2>3
  <2>7. QED
    BY <2>2, <2>5, <2>6
<1>12. \A p, q \in 1 .. n : p < q => <<r[p], r[q]>> \in B \/ r[p] = r[q]
  BY <1>10
<1>13. SortOf(r, s, B)
  <2>1. Len(r) = n /\ Len(s) = n
    BY <1>5
  <2>2. QED
    BY <1>9, <1>11, <1>12, <2>1 DEF SortOf
<1>14. QED
  BY <1>4, <1>13

\* Of each command the one with the best origin.
BestOrigins(P) ==
    {m \in P : \A o \in P : o.command = m.command => ~BetterOrigin(o, m)}

\* By command, what is equal comes together, the best origin first: the first of
\* each command is the best of it.
LEMMA DedupFacts ==
    ASSUME NEW s \in Seq(Candidate), NEW P, P = ToSet(s),
           \A p, q \in 1 .. Len(s) : p < q => <<s[p], s[q]>> \in CommandOrder \/ s[p] = s[q],
           NEW d, d = dedup(s)
    PROVE  /\ d \in Seq(Candidate) /\ ToSet(d) = BestOrigins(P)
           /\ \A p, q \in 1 .. Len(d) : p < q => d[p] # d[q]
<1>1. PICK n \in Nat : n = Len(s) /\ DOMAIN s = 1 .. n
  OBVIOUS
<1>2. \A i \in 1 .. n : s[i] \in Candidate /\ s[i].command \in Seq(Nat)
  BY <1>1, CandidateFacts
<1>3. P = {s[i] : i \in 1 .. n}
  BY <1>1 DEF ToSet
<1>4. ASSUME NEW i \in 1 .. n, NEW j \in 1 .. n, i < j
      PROVE  /\ Lexical(s[i].command, s[j].command) \/ s[i].command = s[j].command
             /\ s[i].command = s[j].command => s[i] = s[j] \/ BetterOrigin(s[i], s[j])
  <2>1. <<s[i], s[j]>> \in CommandOrder \/ s[i] = s[j]
    BY <1>1, <1>4
  <2>2. ~(s[i].command = s[j].command /\ Lexical(s[i].command, s[j].command))
    BY <1>2, LexicalIrreflexive
  <2>3. QED
    BY <2>1, <2>2 DEF CommandOrder, ByCommand
<1>5. PICK K : K = {i \in DOMAIN s : i = 1 \/ s[i - 1].command # s[i].command}
  OBVIOUS
<1>6. d = Picked(s, K) /\ K \in SUBSET DOMAIN s
  BY <1>5 DEF dedup
<1>7. ASSUME NEW i \in K, NEW j \in 1 .. n, s[j].command = s[i].command
      PROVE  i <= j
  <2>1. i \in 1 .. n /\ (i = 1 \/ s[i - 1].command # s[i].command)
    BY <1>1, <1>5
  <2>2. SUFFICES ASSUME j < i PROVE FALSE
    BY <1>1, <2>1
  <2>3. i - 1 \in 1 .. n /\ i - 1 < i /\ (j < i - 1 \/ j = i - 1)
    BY <1>1, <2>1, <2>2
  <2>4. PICK a, b, c : a = s[j].command /\ b = s[i - 1].command /\ c = s[i].command
    OBVIOUS
  <2>5. a = c /\ b # c
    BY <1>7, <2>1, <2>2, <2>3, <2>4
  <2>6. Lexical(b, c)
    BY <1>4, <2>1, <2>3, <2>4, <2>5
  <2>7. Lexical(a, b)
    BY <1>4, <2>3, <2>4, <2>5
  <2>8. a \in Seq(Nat) /\ b \in Seq(Nat)
    BY <1>2, <2>3, <2>4
  <2>9. Lexical(a, a)
    BY <2>5, <2>6, <2>7, <2>8, LexicalTransitive
  <2>10. QED
    BY <2>8, <2>9, LexicalIrreflexive
<1>8. ASSUME NEW i \in K, NEW j \in 1 .. n, s[j].command = s[i].command
      PROVE  s[i] = s[j] \/ BetterOrigin(s[i], s[j])
  <2>1. i <= j /\ i \in 1 .. n
    BY <1>1, <1>5, <1>7, <1>8
  <2>2. i = j \/ i < j
    BY <1>1, <2>1
  <2>3. QED
    BY <1>4, <1>8, <2>1, <2>2
<1>9. d \in Seq(Candidate) /\ ToSet(d) = {s[i] : i \in K}
  BY <1>6, PickedSet
<1>10. ASSUME NEW i \in K PROVE s[i] \in BestOrigins(P)
  <2>1. i \in 1 .. n /\ s[i] \in P /\ s[i] \in Candidate
    BY <1>1, <1>2, <1>3, <1>5
  <2>2. ASSUME NEW o \in P, o.command = s[i].command PROVE ~BetterOrigin(o, s[i])
    <3>1. PICK j \in 1 .. n : o = s[j]
      BY <1>3
    <3>2. o = s[i] \/ BetterOrigin(s[i], o)
      BY <1>8, <2>2, <3>1
    <3>3. o \in Candidate
      BY <1>2, <3>1
    <3>4. QED
      BY <2>1, <3>2, <3>3, OriginFacts
  <2>3. QED
    BY <2>1, <2>2 DEF BestOrigins
<1>11. ASSUME NEW m \in BestOrigins(P) PROVE m \in {s[i] : i \in K}
  <2>1. PICK j \in 1 .. n : m = s[j]
    BY <1>3 DEF BestOrigins
  <2> DEFINE A == {i \in 1 .. n : s[i].command = m.command}
  <2>2. PICK i \in A : \A k \in A : i <= k
    <3>1. A \in SUBSET Nat /\ j \in A
      BY <2>1
    <3> HIDE DEF A
    <3>2. QED
      BY <3>1, LeastNat
  <2>3. i \in 1 .. n /\ s[i].command = m.command
    BY <2>2
  <2>4. i # 1 => i - 1 \in 1 .. n /\ ~(i <= i - 1)
    BY <1>1, <2>3
  <2>5. i # 1 => s[i - 1].command # s[i].command
    <3>1. i # 1 => i - 1 \notin A
      BY <2>2, <2>4
    <3>2. QED
      BY <2>3, <2>4, <3>1
  <2>6. i \in K
    BY <1>1, <1>5, <2>3, <2>5
  <2>7. s[i] = m \/ BetterOrigin(s[i], m)
    BY <1>8, <2>1, <2>3, <2>6
  <2>8. s[i] \in P
    BY <1>3, <2>3
  <2>9. QED
    BY <2>3, <2>6, <2>7, <2>8 DEF BestOrigins
<1>12. ASSUME NEW p \in 1 .. Len(d), NEW q \in 1 .. Len(d), p < q PROVE d[p] # d[q]
  <2>1. PICK place : PicksFrom(s, K, d, place)
    BY <1>6, PickedPlaces
  <2>2. place[p] \in K /\ place[q] \in K /\ place[p] < place[q]
    BY <1>12, <2>1 DEF PicksFrom
  <2>3. d[p] = s[place[p]] /\ d[q] = s[place[q]]
    BY <2>1 DEF PicksFrom
  <2>4. place[p] \in 1 .. n /\ place[q] \in 1 .. n
    BY <1>1, <1>5, <2>2
  <2>5. ~(place[q] <= place[p])
    BY <2>2, <2>4
  <2>6. QED
    BY <1>7, <2>2, <2>3, <2>4, <2>5
<1>13. QED
  BY <1>9, <1>10, <1>11, <1>12

\* A ranked list keeps its best when it is cut.
LEMMA CutFacts ==
    ASSUME NEW r \in Seq(Candidate), NEW t, t = truncate(r),
           \A p, q \in 1 .. Len(r) : p < q => <<r[p], r[q]>> \in RankOrder
    PROVE  /\ t \in Seq(Candidate) /\ ToSet(t) \subseteq ToSet(r)
           /\ \A i, j \in DOMAIN t : i < j => ByPriority(t[i], t[j])
           /\ \A m \in ToSet(r) \ ToSet(t) :
                Len(t) = Limit /\ \A i \in DOMAIN t : ByPriority(t[i], m)
<1>1. PICK n \in Nat : n = Len(r) /\ DOMAIN r = 1 .. n
  OBVIOUS
<1>2. PICK k \in Nat : k = IF Limit <= n THEN Limit ELSE n
  BY CorrectionAssumption
<1>3. k <= n /\ (k < n => k = Limit)
  BY <1>2, CorrectionAssumption
<1>4. t = SubSeq(r, 1, k)
  BY <1>1, <1>2 DEF truncate
<1>5. t \in Seq(Candidate) /\ Len(t) = k /\ \A i \in 1 .. k : t[i] = r[i]
  <2>1. CASE k = 0
    BY <1>4, <2>1
  <2>2. CASE k # 0
    <3>1. 1 \in 1 .. Len(r) /\ k \in 1 .. Len(r) /\ k - 1 + 1 = k
      BY <1>1, <1>2, <1>3, <2>2
    <3>2. /\ t \in Seq(Candidate) /\ Len(t) = k - 1 + 1
          /\ \A p \in 1 .. k - 1 + 1 : t[p] = r[1 + p - 1]
      BY <1>4, <3>1, PartOf
    <3>3. \A p \in 1 .. k : 1 + p - 1 = p
      OBVIOUS
    <3>4. QED
      BY <3>1, <3>2, <3>3
  <2>3. QED
    BY <2>1, <2>2
<1>6. DOMAIN t = 1 .. k /\ \A i \in 1 .. k : i \in 1 .. n
  BY <1>1, <1>2, <1>3, <1>5
<1>7. \A p, q \in 1 .. n : p < q => ByPriority(r[p], r[q])
  BY <1>1 DEF RankOrder
<1>8. ToSet(t) \subseteq ToSet(r)
  BY <1>1, <1>5, <1>6 DEF ToSet
<1>9. \A i, j \in DOMAIN t : i < j => ByPriority(t[i], t[j])
  BY <1>5, <1>6, <1>7
<1>10. ASSUME NEW m \in ToSet(r) \ ToSet(t)
       PROVE  Len(t) = Limit /\ \A i \in DOMAIN t : ByPriority(t[i], m)
  <2>1. PICK j \in 1 .. n : m = r[j]
    BY <1>1 DEF ToSet
  <2>2. j \notin 1 .. k
    BY <1>5, <1>6, <1>10, <2>1 DEF ToSet
  <2>3. k < j /\ k < n
    BY <1>1, <1>2, <2>1, <2>2
  <2>4. \A i \in 1 .. k : i < j
    BY <1>2, <2>3
  <2>5. QED
    BY <1>3, <1>5, <1>6, <1>7, <2>1, <2>3, <2>4
<1>11. QED
  BY <1>5, <1>8, <1>9, <1>10

\* So what is merged is the best of what there was, whatever order that was in.
LEMMA MergedBest ==
    ASSUME NEW cs \in Seq(Candidate), NEW items, items = Merged(cs)
    PROVE  items \in Seq(Candidate) /\ BestOf(items, ToSet(cs))
<1>1. PICK s : s = Sorted(cs, ByCommand)
  OBVIOUS
<1>2. s = [p \in DOMAIN cs |-> cs[Ranked(DOMAIN cs, Stable(cs, CommandOrder))[p]]]
  <2>1. Stable(cs, CommandOrder) =
          {x \in (DOMAIN cs) \X (DOMAIN cs) :
             \/ ByCommand(cs[x[1]], cs[x[2]])
             \/ x[1] < x[2] /\ ~ByCommand(cs[x[2]], cs[x[1]])}
    <3>1. \A i \in DOMAIN cs : cs[i] \in Candidate
      OBVIOUS
    <3>2. \A i, j \in DOMAIN cs :
            <<cs[i], cs[j]>> \in CommandOrder <=> ByCommand(cs[i], cs[j])
      BY <3>1 DEF CommandOrder
    <3>3. QED
      BY <3>2 DEF Stable
  <2>2. QED
    BY <1>1, <2>1, Zenon DEF Sorted
<1>3. s \in Seq(Candidate) /\ SortOf(s, cs, CommandOrder)
  BY <1>2, CommandOrderStrict, SortFacts
<1>4. PICK d : d = dedup(s)
  OBVIOUS
<1>5. /\ d \in Seq(Candidate) /\ ToSet(d) = BestOrigins(ToSet(cs))
      /\ \A p, q \in 1 .. Len(d) : p < q => d[p] # d[q]
  BY <1>3, <1>4, DedupFacts DEF SortOf
<1>6. PICK r : r = Sorted(d, ByPriority)
  OBVIOUS
<1>7. r = [p \in DOMAIN d |-> d[Ranked(DOMAIN d, Stable(d, RankOrder))[p]]]
  <2>1. Stable(d, RankOrder) =
          {x \in (DOMAIN d) \X (DOMAIN d) :
             \/ ByPriority(d[x[1]], d[x[2]])
             \/ x[1] < x[2] /\ ~ByPriority(d[x[2]], d[x[1]])}
    <3>1. \A i \in DOMAIN d : d[i] \in Candidate
      BY <1>5
    <3>2. \A i, j \in DOMAIN d :
            <<d[i], d[j]>> \in RankOrder <=> ByPriority(d[i], d[j])
      BY <3>1 DEF RankOrder
    <3>3. QED
      BY <3>2 DEF Stable
  <2>2. QED
    BY <1>6, <2>1, Zenon DEF Sorted
<1>8. r \in Seq(Candidate) /\ SortOf(r, d, RankOrder)
  BY <1>5, <1>7, RankOrderStrict, SortFacts
<1>9. /\ ToSet(r) = BestOrigins(ToSet(cs))
      /\ \A p, q \in 1 .. Len(r) : p < q => <<r[p], r[q]>> \in RankOrder
  BY <1>5, <1>8 DEF SortOf
<1>10. items = truncate(r)
  BY <1>1, <1>4, <1>6 DEF Merged
<1>11. /\ items \in Seq(Candidate) /\ ToSet(items) \subseteq ToSet(r)
       /\ \A i, j \in DOMAIN items : i < j => ByPriority(items[i], items[j])
       /\ \A m \in ToSet(r) \ ToSet(items) :
            Len(items) = Limit /\ \A i \in DOMAIN items : ByPriority(items[i], m)
  BY <1>8, <1>9, <1>10, CutFacts
<1>12. QED
  BY <1>9, <1>11, Zenon DEF BestOf, BestOrigins

-----------------------------------------------------------------------------
(* The conditions of a rule *)

\* Every condition is a verdict, and only patterns that do not compile are errors.
LEMMA ConditionFacts ==
    ASSUME NEW m, NEW c
    PROVE  /\ \A i \in 1 .. 5 : Conditions(m, c)[i] \in {"yes", "no", "error"}
           /\ \A i \in 1 .. 5 : Conditions(m, c)[i] = "error" =>
                (i = 2 /\ Broken(m.scriptRegex)) \/ (i = 4 /\ Broken(m.stderrRegex))
           /\ Broken(m.scriptRegex) => Conditions(m, c)[2] = "error"
           /\ Broken(m.stderrRegex) => Conditions(m, c)[4] = "error"
<1> DEFINE v == Conditions(m, c)
<1>1. /\ v[1] \in {"yes", "no"} /\ v[3] \in {"yes", "no"} /\ v[5] \in {"yes", "no"}
      /\ v[2] = PatternVerdict(m.scriptRegex, c.script)
      /\ v[4] = PatternVerdict(m.stderrRegex, c.stderr)
  BY DEF Conditions, Verdict
<1>2. \A p, t : /\ PatternVerdict(p, t) \in {"yes", "no", "error"}
                /\ PatternVerdict(p, t) = "error" <=> Broken(p)
  BY DEF PatternVerdict, Verdict, Broken
<1> HIDE DEF v
<1>3. \A i \in 1 .. 5 : i = 1 \/ i = 2 \/ i = 3 \/ i = 4 \/ i = 5
  OBVIOUS
<1>4. QED
  BY <1>1, <1>2, <1>3 DEF v

\* What the verdict of a rule says of its conditions.
LEMMA MatchesFacts ==
    ASSUME NEW m, NEW c
    PROVE  /\ matches(m, c) \in {"yes", "no", "error"}
           /\ matches(m, c) = "yes" <=> \A i \in 1 .. 5 : Conditions(m, c)[i] = "yes"
           /\ matches(m, c) # "yes" =>
                \E i \in 1 .. 5 : Conditions(m, c)[i] = matches(m, c)
<1> DEFINE decisive == {i \in 1 .. 5 : Conditions(m, c)[i] # "yes"}
           k == Smallest(decisive)
<1>1. decisive \in SUBSET Nat
  OBVIOUS
<1>2. decisive # {} => k \in decisive
  <2> HIDE DEF decisive
  <2>1. QED
    BY <1>1, SmallestNat
<1>3. matches(m, c) = IF decisive = {} THEN "yes" ELSE Conditions(m, c)[k]
  BY DEF matches
<1> HIDE DEF k
<1>4. decisive # {} => k \in 1 .. 5 /\ Conditions(m, c)[k] # "yes"
  BY <1>2
<1>5. decisive = {} <=> \A i \in 1 .. 5 : Conditions(m, c)[i] = "yes"
  OBVIOUS
<1> HIDE DEF decisive
<1>6. QED
  BY <1>3, <1>4, <1>5, ConditionFacts

\* A rule that is passed over or goes on to its rewrite is none that must fail for its
\* conditions.
LEMMA CompilingFacts ==
    ASSUME NEW m \in Match, NEW c
    PROVE  /\ matches(m, c) = "no" => matches(Compiling(m), c) # "yes"
           /\ matches(m, c) = "yes" => ~Broken(m.scriptRegex) /\ ~Broken(m.stderrRegex)
           /\ matches(m, c) = "error" => Broken(m.scriptRegex) \/ Broken(m.stderrRegex)
<1> DEFINE n == Compiling(m)
<1>1. /\ n.startsWith = m.startsWith /\ n.stderrContains = m.stderrContains
      /\ n.exitCodeIn = m.exitCodeIn
      /\ n.scriptRegex = (IF Broken(m.scriptRegex) THEN None ELSE m.scriptRegex)
      /\ n.stderrRegex = (IF Broken(m.stderrRegex) THEN None ELSE m.stderrRegex)
  BY DEF Compiling, Match
<1> HIDE DEF n
<1>2. ASSUME NEW i \in 1 .. 5, Conditions(m, c)[i] = "no" PROVE Conditions(n, c)[i] = "no"
  <2>1. i # 2 /\ i # 4 => Conditions(n, c)[i] = Conditions(m, c)[i]
    BY <1>1 DEF Conditions
  <2>2. CASE i = 2
    <3>1. ~Broken(m.scriptRegex)
      BY <1>2, <2>2, ConditionFacts
    <3>2. QED
      BY <1>1, <1>2, <2>2, <3>1 DEF Conditions
  <2>3. CASE i = 4
    <3>1. ~Broken(m.stderrRegex)
      BY <1>2, <2>3, ConditionFacts
    <3>2. QED
      BY <1>1, <1>2, <2>3, <3>1 DEF Conditions
  <2>4. QED
    BY <1>2, <2>1, <2>2, <2>3
<1>3. matches(m, c) = "no" => matches(n, c) # "yes"
  <2>1. SUFFICES ASSUME matches(m, c) = "no" PROVE matches(n, c) # "yes"
    OBVIOUS
  <2>2. PICK i \in 1 .. 5 : Conditions(m, c)[i] = "no"
    BY <2>1, MatchesFacts
  <2>3. Conditions(n, c)[i] = "no"
    BY <1>2, <2>2
  <2>4. QED
    BY <2>3, MatchesFacts
<1>4. matches(m, c) = "yes" => ~Broken(m.scriptRegex) /\ ~Broken(m.stderrRegex)
  BY MatchesFacts, ConditionFacts
<1>5. matches(m, c) = "error" => Broken(m.scriptRegex) \/ Broken(m.stderrRegex)
  BY MatchesFacts, ConditionFacts
<1>6. QED
  BY <1>3, <1>4, <1>5 DEF n

-----------------------------------------------------------------------------
(* The loop *)

\* What the loop knows of the rule it is at.
LEMMA RuleType ==
    ASSUME ControlOK, at <= Len(rules)
    PROVE  /\ at \in 1 .. Len(rules) /\ Len(rules) \in Nat /\ Dirs \in Nat
           /\ Rule \in Rules /\ Rule.match \in Match
<1>1. rules \in Seq(Rules) /\ at \in 1 .. Len(rules) /\ Len(rules) \in Nat
  BY CorrectionAssumption DEF ControlOK
<1>2. Rule \in Rules
  BY <1>1 DEF Rule
<1>3. Rule.match \in Match
  BY <1>2 DEF Rules
<1>4. QED
  BY <1>1, <1>2, <1>3, CorrectionAssumption

\* The inductive invariant.
Inv == ControlOK /\ RuleInv

\* What the steps of a request leave alone.
Steady ==
    /\ Inv /\ pc \in {"rule", "exists", "list"} /\ at <= Len(rules)
    /\ rules' = rules /\ ctx' = ctx /\ path' = path /\ changes' = changes

\* The loop goes on behind a rule that did not have to fail.
LEMMA PassKeeps ==
    ASSUME Steady, ~MustFail(Rule, ctx), at' = at + 1, pc' = "rule", dir' = dir
    PROVE  Inv'
<1>1. ControlOK /\ RuleInv /\ at <= Len(rules)
  BY DEF Steady, Inv
<1>2. at \in 1 .. Len(rules) /\ Len(rules) \in Nat
  BY <1>1, RuleType
<1>3. ControlOK'
  <2>1. at + 1 \in 1 .. Len(rules) + 1
    BY <1>2
  <2>2. QED
    BY <1>1, <2>1 DEF Steady, ControlOK
<1>4. \A i \in 1 .. at' - 1 : ~MustFail(rules'[i], ctx')
  <2>1. \A i \in 1 .. at - 1 : ~MustFail(rules[i], ctx)
    BY <1>1 DEF Steady, RuleInv
  <2>2. \A i \in 1 .. at' - 1 : i \in 1 .. at - 1 \/ i = at
    BY <1>2
  <2>3. rules' = rules /\ ctx' = ctx
    BY DEF Steady
  <2>4. QED
    BY <2>1, <2>2, <2>3 DEF Rule
<1>5. RuleInv'
  BY <1>4 DEF RuleInv
<1>6. QED
  BY <1>3, <1>5 DEF Inv

\* It stays at a rule: a walk over $PATH goes on, or the rule fails.
LEMMA StayKeeps ==
    ASSUME Steady, at' = at, dir' \in 1 .. Dirs + 1,
           \/ pc' = "exists" /\ Rule.native /\ Rule.id = NoCommand
           \/ pc' = "list" /\ Rule.native /\ Rule.id = NoCommand
           \/ /\ pc' = "exists" /\ ~Rule.native /\ Rule.match.commandExists # None
              /\ matches(Rule.match, ctx) = "yes"
           \/ /\ MayFail(Rule)
              /\ \E error \in {"InvalidRegex", "UnknownNativeRule"} : Fail(error)
    PROVE  Inv'
<1>1. ControlOK /\ RuleInv /\ at <= Len(rules)
  BY DEF Steady, Inv
<1>2. rules' = rules /\ ctx' = ctx /\ Rule' = Rule
  BY DEF Steady, Rule
<1>3. \A i \in 1 .. at' - 1 : ~MustFail(rules'[i], ctx')
  BY <1>1, <1>2 DEF Steady, RuleInv
<1>4. pc' \in {"exists", "list", "done"}
  BY DEF Fail
<1>5. ControlOK'
  BY <1>1, <1>4 DEF Steady, ControlOK
<1>6. CASE pc' \in {"exists", "list"}
  <2>1. IF Rule.native THEN Rule.id = NoCommand
        ELSE /\ pc' = "exists" /\ Rule.match.commandExists # None
             /\ matches(Rule.match, ctx) = "yes"
    BY <1>6 DEF Fail
  <2>2. RuleInv'
    BY <1>1, <1>2, <1>3, <1>6, <2>1 DEF RuleInv
  <2>3. QED
    BY <1>5, <2>2 DEF Inv
<1>7. CASE pc' = "done"
  <2>1. PICK error \in {"InvalidRegex", "UnknownNativeRule"} : MayFail(Rule) /\ Fail(error)
    BY <1>7
  <2>2. answer'.error # None /\ answer'.rule_id = Rule.id /\ answer'.items = <<>>
    BY <2>1, CorrectionAssumption DEF Fail
  <2>3. RuleInv'
    BY <1>1, <1>2, <1>3, <1>7, <2>1, <2>2 DEF RuleInv
  <2>4. QED
    BY <1>5, <2>3 DEF Inv
<1>8. QED
  BY <1>4, <1>6, <1>7

\* The rewrite of a rule whose conditions hold, which it may fail on.
LEMMA RewriteKeeps ==
    ASSUME Steady, ~Rule.native, matches(Rule.match, ctx) = "yes", Rewrite, dir' = dir
    PROVE  Inv'
<1>1. ControlOK /\ at <= Len(rules)
  BY DEF Steady, Inv
<1>2. Rule.match \in Match
  BY <1>1, RuleType
<1>3. CASE Unusable(Rule.rewrite) /\ Fail("InvalidRegex") /\ UNCHANGED <<at, candidates, made>>
  <2>1. MayFail(Rule)
    BY <1>3 DEF MayFail
  <2>2. dir' \in 1 .. Dirs + 1
    BY <1>1 DEF ControlOK
  <2>3. QED
    BY <1>3, <2>1, <2>2, StayKeeps
<1>4. CASE /\ ~Unusable(Rule.rewrite)
           /\ Propose(IF Rule.rewrite = None THEN <<>>
                      ELSE apply_rewrite(Rule.rewrite, ctx.script))
           /\ UNCHANGED answer
  <2>1. ~MayFail(Rule)
    BY <1>2, <1>4, CompilingFacts DEF MayFail
  <2>2. ~MustFail(Rule, ctx)
    BY <2>1 DEF MustFail
  <2>3. QED
    BY <1>4, <2>2, PassKeeps DEF Propose
<1>5. QED
  BY <1>3, <1>4 DEF Rewrite

LEMMA InitInv == Init => Inv
<1>1. SUFFICES ASSUME Init PROVE Inv
  OBVIOUS
<1>2. rules \in Seq(Rules) /\ path \in [PathDirs -> [Names -> Kinds]]
  BY <1>1, CorrectionAssumption DEF Init
<1>3. Len(rules) \in Nat
  BY <1>2
<1>4. ControlOK
  BY <1>1, <1>2, <1>3, CorrectionAssumption DEF Init, ControlOK
<1>5. RuleInv
  BY <1>1 DEF Init, RuleInv
<1>6. QED
  BY <1>4, <1>5 DEF Inv

LEMMA CorrectInv ==
    ASSUME Inv, NEW c \in Requests, Correct(c)
    PROVE  Inv'
<1>1. ControlOK /\ rules' = rules /\ pc' = "rule" /\ at' = 1 /\ ctx' = c
  BY DEF Inv, Correct
<1>2. Len(rules) \in Nat
  BY <1>1, CorrectionAssumption DEF ControlOK
<1>3. ControlOK'
  BY <1>1, <1>2 DEF ControlOK, Correct, envVars
<1>4. RuleInv'
  BY <1>1 DEF RuleInv
<1>5. QED
  BY <1>3, <1>4 DEF Inv

LEMMA NativeInv ==
    ASSUME Inv, RunNative
    PROVE  Inv'
<1>1. Steady /\ Rule.native /\ ControlOK /\ dir \in 1 .. Dirs + 1 /\ 1 \in 1 .. Dirs + 1
  BY CorrectionAssumption DEF Steady, Inv, ControlOK, RunNative, Evaluating, envVars
<1>2. CASE Rule.id = NoCommand /\ Walk("exists") /\ UNCHANGED at
  BY <1>1, <1>2, StayKeeps DEF Walk
<1>3. CASE Rule.id \in {NoCommand, SubcommandTypo} /\ at' = at + 1 /\ pc' = "rule" /\ dir' = dir
  <2>1. ~MustFail(Rule, ctx)
    BY <1>1, <1>3 DEF MustFail, MayFail
  <2>2. QED
    BY <1>1, <1>3, <2>1, PassKeeps
<1>4. CASE Rule.id \notin {NoCommand, SubcommandTypo} /\ Fail("UnknownNativeRule")
           /\ UNCHANGED <<at, dir>>
  <2>1. MayFail(Rule)
    BY <1>1, <1>4 DEF MayFail
  <2>2. QED
    BY <1>1, <1>4, <2>1, StayKeeps
<1>5. QED
  BY <1>2, <1>3, <1>4 DEF RunNative, Propose

LEMMA JsonInv ==
    ASSUME Inv, RunJson
    PROVE  Inv'
<1>1. Steady /\ ~Rule.native /\ ControlOK /\ dir \in 1 .. Dirs + 1 /\ 1 \in 1 .. Dirs + 1
  BY CorrectionAssumption DEF Steady, Inv, ControlOK, RunJson, Evaluating, envVars
<1>2. Rule.match \in Match
  BY <1>1, RuleType DEF Steady
<1>3. PICK verdict : verdict = matches(Rule.match, ctx)
  OBVIOUS
<1>4. CASE verdict = "error" /\ Fail("InvalidRegex") /\ UNCHANGED <<at, dir>>
  <2>1. MayFail(Rule)
    BY <1>1, <1>2, <1>3, <1>4, CompilingFacts DEF MayFail
  <2>2. QED
    BY <1>1, <1>4, <2>1, StayKeeps
<1>5. CASE verdict = "no" /\ Propose(<<>>) /\ UNCHANGED dir
  <2>1. ~MustFail(Rule, ctx)
    BY <1>1, <1>2, <1>3, <1>5, CompilingFacts DEF MustFail
  <2>2. QED
    BY <1>1, <1>5, <2>1, PassKeeps DEF Propose
<1>6. CASE verdict = "yes" /\ Rule.match.commandExists # None /\ Walk("exists") /\ UNCHANGED at
  BY <1>1, <1>3, <1>6, StayKeeps DEF Walk
<1>7. CASE verdict = "yes" /\ Rewrite /\ UNCHANGED dir
  BY <1>1, <1>3, <1>7, RewriteKeeps
<1>8. QED
  BY <1>3, <1>4, <1>5, <1>6, <1>7 DEF RunJson

LEMMA ExistsInv ==
    ASSUME Inv, Exists
    PROVE  Inv'
<1>1. /\ Steady /\ ControlOK /\ dir \in 1 .. Dirs + 1 /\ 1 \in 1 .. Dirs + 1
      /\ IF Rule.native THEN Rule.id = NoCommand
         ELSE Rule.match.commandExists # None /\ matches(Rule.match, ctx) = "yes"
  BY CorrectionAssumption DEF Steady, Inv, ControlOK, RuleInv, Exists, envVars
<1>2. ~MustFail(Rule, ctx)
  BY <1>1 DEF MustFail, MayFail
<1>3. CASE Rule.native /\ Propose(<<>>) /\ UNCHANGED dir
  BY <1>1, <1>2, <1>3, PassKeeps DEF Propose
<1>4. CASE ~Rule.native /\ Rewrite /\ UNCHANGED dir
  BY <1>1, <1>4, RewriteKeeps
<1>5. CASE dir <= Dirs /\ dir' = dir + 1 /\ UNCHANGED <<pc, at>>
  <2>1. dir' \in 1 .. Dirs + 1
    BY <1>1, <1>5, CorrectionAssumption
  <2>2. pc' = "exists"
    BY <1>5 DEF Exists
  <2>3. QED
    BY <1>1, <1>5, <2>1, <2>2, StayKeeps
<1>6. CASE Rule.native /\ Walk("list") /\ UNCHANGED at
  BY <1>1, <1>6, StayKeeps DEF Walk
<1>7. CASE ~Rule.native /\ Propose(<<>>) /\ UNCHANGED dir
  BY <1>1, <1>2, <1>7, PassKeeps DEF Propose
<1>8. QED
  BY <1>3, <1>4, <1>5, <1>6, <1>7 DEF Exists

LEMMA ListInv ==
    ASSUME Inv, List
    PROVE  Inv'
<1>1. Steady /\ ControlOK /\ dir \in 1 .. Dirs + 1 /\ Rule.native /\ Rule.id = NoCommand
  BY DEF Steady, Inv, ControlOK, RuleInv, List, envVars
<1>2. CASE dir <= Dirs /\ dir' = dir + 1 /\ UNCHANGED <<pc, at>>
  <2>1. dir' \in 1 .. Dirs + 1
    BY <1>1, <1>2, CorrectionAssumption
  <2>2. pc' = "list"
    BY <1>2 DEF List
  <2>3. QED
    BY <1>1, <1>2, <2>1, <2>2, StayKeeps
<1>3. CASE at' = at + 1 /\ pc' = "rule" /\ dir' = dir
  <2>1. ~MustFail(Rule, ctx)
    BY <1>1 DEF MustFail, MayFail
  <2>2. QED
    BY <1>1, <1>3, <2>1, PassKeeps
<1>4. QED
  BY <1>2, <1>3 DEF List, Propose

LEMMA FinishInv ==
    ASSUME Inv, Finish
    PROVE  Inv'
<1>1. /\ ControlOK /\ RuleInv /\ pc = "rule" /\ at > Len(rules) /\ pc' = "done"
      /\ at' = at /\ rules' = rules /\ ctx' = ctx
  BY DEF Inv, Finish
<1>2. Len(rules) \in Nat
  BY <1>1, CorrectionAssumption DEF ControlOK
<1>3. at = Len(rules) + 1
  BY <1>1, <1>2 DEF ControlOK
<1>4. answer'.error = None
  BY DEF Finish, Answer
<1>5. ControlOK'
  BY <1>1 DEF ControlOK, Finish, envVars
<1>6. RuleInv'
  BY <1>1, <1>3, <1>4 DEF RuleInv
<1>7. QED
  BY <1>5, <1>6 DEF Inv

LEMMA ChangeInv ==
    ASSUME Inv, NEW d \in PathDirs, NEW n \in Names, NEW k \in Kinds, Change(d, n, k)
    PROVE  Inv' /\ path' # path
<1>1. /\ ControlOK /\ RuleInv /\ k # path[d][n] /\ path' = [path EXCEPT ![d][n] = k]
      /\ changes < MaxChanges /\ changes' = changes + 1
      /\ UNCHANGED <<rules, pc, ctx, at, dir, answer>>
  BY DEF Inv, Change
<1>2. path \in [PathDirs -> [Names -> Kinds]]
  BY <1>1 DEF ControlOK
<1>3. path' \in [PathDirs -> [Names -> Kinds]] /\ path'[d][n] = k
  BY <1>1, <1>2
<1>4. changes' \in 0 .. MaxChanges
  BY <1>1, CorrectionAssumption DEF ControlOK
<1>5. ControlOK'
  BY <1>1, <1>3, <1>4 DEF ControlOK
<1>6. RuleInv'
  BY <1>1 DEF RuleInv, Rule
<1>7. QED
  BY <1>1, <1>3, <1>5, <1>6 DEF Inv

LEMMA NextInv == Inv /\ [Next]_vars => Inv'
<1>1. SUFFICES ASSUME Inv, [Next]_vars PROVE Inv'
  OBVIOUS
<1>2. CASE UNCHANGED vars
  <2>1. UNCHANGED <<path, changes, rules, pc, ctx, at, dir, answer>>
    BY <1>2 DEF vars, envVars
  <2>2. ControlOK'
    BY <1>1, <2>1 DEF Inv, ControlOK
  <2>3. RuleInv'
    BY <1>1, <2>1 DEF Inv, RuleInv, Rule
  <2>4. QED
    BY <2>2, <2>3 DEF Inv
<1>3. CASE Next
  BY <1>1, <1>3, CorrectInv, NativeInv, JsonInv, ExistsInv, ListInv, FinishInv, ChangeInv
  DEF Next, Handle
<1>4. QED
  BY <1>1, <1>2, <1>3

LEMMA Invariant == Spec => []Inv
BY InitInv, NextInv, PTL DEF Spec

\* The rule that a failed request reports is the first that had to fail, whatever the
\* rules are and however $PATH changes meanwhile (correct/mod.rs:145-188, 289-313).
THEOREM CorrectionReportsFirstBadRule == Spec => []FirstBadRuleReported
<1>1. Inv => FirstBadRuleReported
  <2>1. SUFFICES ASSUME Inv, pc = "done"
                 PROVE  /\ \A i \in 1 .. (IF Answered THEN Len(rules) ELSE at - 1) :
                             ~MustFail(rules[i], ctx)
                        /\ ~Answered => /\ MayFail(Rule) /\ answer.rule_id = Rule.id
                                        /\ answer.items = <<>>
    BY DEF FirstBadRuleReported
  <2>2. /\ \A i \in 1 .. at - 1 : ~MustFail(rules[i], ctx)
        /\ IF answer.error = None THEN at = Len(rules) + 1
           ELSE MayFail(Rule) /\ answer.rule_id = Rule.id /\ answer.items = <<>>
    BY <2>1 DEF Inv, RuleInv
  <2>3. Len(rules) \in Nat
    BY <2>1, CorrectionAssumption DEF Inv, ControlOK
  <2>4. Answered => at - 1 = Len(rules)
    BY <2>1, <2>2, <2>3 DEF Answered
  <2>5. QED
    BY <2>1, <2>2, <2>4 DEF Answered
<1>2. QED
  BY <1>1, Invariant, PTL

-----------------------------------------------------------------------------
(* The corrections of a request *)

\* A rule's commands with where they come from, and those of them that count.
From(commands) ==
    {[command |-> c, rule_id |-> Rule.id, priority |-> Rule.priority] : c \in ToSet(commands)}
Counting(ms) == {m \in ms : m.command # normalized_original /\ m.command # <<>>}

LEMMA TaggedFacts ==
    ASSUME NEW commands \in Seq(String), Rule \in Rules, NEW t, t = Tagged(commands)
    PROVE  /\ t \in Seq(Candidate) /\ From(commands) \subseteq Candidate
           /\ ToSet(t) = Counting(From(commands))
<1> DEFINE Tag(c) == [command |-> c, rule_id |-> Rule.id, priority |-> Rule.priority]
<1>1. Rule.id \in Nat /\ Rule.priority \in 0 .. 255
  BY DEF Rules
<1>2. \A c \in String : Tag(c) \in Candidate
  BY <1>1 DEF Candidate
<1>3. \A c : Tag(c).command = c
  OBVIOUS
<1>4. PICK K : K = {i \in DOMAIN commands :
                      commands[i] # normalized_original /\ commands[i] # <<>>}
  OBVIOUS
<1>5. PICK kept : kept = Picked(commands, K)
  OBVIOUS
<1>6. kept \in Seq(String) /\ ToSet(kept) = {commands[i] : i \in K}
  BY <1>4, <1>5, PickedSet
<1>7. t = [i \in DOMAIN kept |-> Tag(kept[i])]
  BY <1>4, <1>5 DEF Tagged
<1>8. From(commands) = {Tag(commands[i]) : i \in DOMAIN commands}
  <2>1. From(commands) = {Tag(c) : c \in ToSet(commands)}
    BY DEF From
  <2> HIDE DEF Tag
  <2>2. QED
    BY <2>1 DEF ToSet
<1> HIDE DEF Tag
<1>9. PICK n \in Nat : DOMAIN kept = 1 .. n /\ \A i \in 1 .. n : kept[i] \in String
  BY <1>6
<1>10. t \in Seq(Candidate) /\ DOMAIN t = 1 .. n /\ \A i \in 1 .. n : t[i] = Tag(kept[i])
  BY <1>2, <1>7, <1>9
<1>11. From(commands) \subseteq Candidate
  BY <1>2, <1>8
<1>12. ToSet(t) = {Tag(commands[i]) : i \in K}
  <2>1. ToSet(t) = {Tag(kept[i]) : i \in 1 .. n}
    BY <1>10 DEF ToSet
  <2>2. ToSet(kept) = {kept[i] : i \in 1 .. n}
    BY <1>9 DEF ToSet
  <2>3. {kept[i] : i \in 1 .. n} = {commands[i] : i \in K}
    BY <1>6, <2>2
  <2>4. {Tag(kept[i]) : i \in 1 .. n} \subseteq {Tag(commands[i]) : i \in K}
    <3>1. SUFFICES ASSUME NEW i \in 1 .. n PROVE \E j \in K : Tag(kept[i]) = Tag(commands[j])
      OBVIOUS
    <3>2. \E j \in K : kept[i] = commands[j]
      BY <2>3
    <3>3. QED
      BY <3>2, Zenon
  <2>5. {Tag(commands[i]) : i \in K} \subseteq {Tag(kept[i]) : i \in 1 .. n}
    <3>1. SUFFICES ASSUME NEW j \in K PROVE \E i \in 1 .. n : Tag(commands[j]) = Tag(kept[i])
      OBVIOUS
    <3>2. \E i \in 1 .. n : commands[j] = kept[i]
      BY <2>3
    <3>3. QED
      BY <3>2, Zenon
  <2>6. QED
    BY <2>1, <2>4, <2>5
<1>13. Counting(From(commands)) = {Tag(commands[i]) : i \in K}
  BY <1>3, <1>4, <1>8 DEF Counting
<1>14. QED
  BY <1>10, <1>11, <1>12, <1>13

\* The state of a request that is being answered.
LEMMA RequestFacts ==
    ASSUME Steady, DataInv
    PROVE  /\ ControlOK /\ Rule \in Rules /\ ctx \in Requests /\ ctx.script \in Scripts
           /\ tokens(ctx.script) \in Seq(String)
           /\ normalized_original' = normalized_original
<1>1. ControlOK /\ at <= Len(rules) /\ pc # "idle"
  BY DEF Steady, Inv
<1>2. Rule \in Rules
  BY <1>1, RuleType
<1>3. ctx \in Requests
  BY <1>1 DEF DataInv
<1>4. ctx.script \in Scripts /\ ctx.script \in String
  BY <1>3, CorrectionAssumption DEF Scripts
<1>5. tokens(ctx.script) \in Seq(String)
  BY <1>4, TokensType
<1>6. normalized_original' = normalized_original
  BY DEF Steady, normalized_original
<1>7. QED
  BY <1>1, <1>2, <1>3, <1>4, <1>5, <1>6

\* The inductive invariant of the corrections, on top of the loop's.
Data == TypeOK /\ DataInv

\* A rule's commands are added.
LEMMA ProposeKeeps ==
    ASSUME Steady, Inv', Data, NEW commands \in Seq(String), Propose(commands),
           UNCHANGED <<listed, answer>>
    PROVE  Data'
<1>1. /\ Rule \in Rules /\ ctx \in Requests /\ ctx' = ctx
      /\ normalized_original' = normalized_original
  BY RequestFacts DEF Data, Steady
<1>2. PICK t : t = Tagged(commands)
  OBVIOUS
<1>3. /\ t \in Seq(Candidate) /\ From(commands) \subseteq Candidate
      /\ ToSet(t) = Counting(From(commands))
  BY <1>1, <1>2, TaggedFacts
<1>4. /\ candidates' = candidates \o t /\ made' = made \cup From(commands) /\ pc' = "rule"
  BY <1>2 DEF Propose, From
<1>5. candidates \in Seq(Candidate) /\ made \subseteq Candidate /\ ToSet(candidates) = Proposed
  BY DEF Data, TypeOK, DataInv
<1>6. candidates' \in Seq(Candidate) /\ ToSet(candidates') = ToSet(candidates) \cup ToSet(t)
  BY <1>3, <1>4, <1>5, ConcatSet
<1>7. Proposed = Counting(made)
  BY DEF Proposed, Counting
<1>8. Proposed' = {m \in made' : m.command # normalized_original /\ m.command # <<>>}
  BY <1>1 DEF Proposed
<1>9. ToSet(candidates') = Proposed'
  BY <1>3, <1>4, <1>5, <1>6, <1>7, <1>8 DEF Counting
<1>10. made' \subseteq Candidate
  BY <1>3, <1>4, <1>5
<1>11. TypeOK'
  BY <1>6 DEF Data, TypeOK, Inv
<1>12. DataInv'
  BY <1>1, <1>4, <1>9, <1>10 DEF DataInv, Answered
<1>13. QED
  BY <1>11, <1>12 DEF Data

\* A walk over $PATH begins or goes on.
LEMMA WalkKeeps ==
    ASSUME Steady, Inv', Data, at' = at, UNCHANGED <<candidates, made, answer>>,
           listed' \in [Names -> 0 .. Dirs], pc' \in {"exists", "list"},
           Rule.native => tokens(ctx.script) # <<>>,
           pc' = "list" => \A n \in Names : listed'[n] < dir'
    PROVE  Data'
<1>1. ctx \in Requests /\ ctx' = ctx /\ normalized_original' = normalized_original
  BY RequestFacts DEF Data, Steady
<1>2. Rule' = Rule
  BY DEF Steady, Rule
<1>3. made \subseteq Candidate /\ ToSet(candidates) = Proposed
  BY DEF Data, DataInv
<1>4. Proposed' = Proposed
  BY <1>1 DEF Proposed
<1>5. made' \subseteq Candidate /\ ToSet(candidates') = Proposed'
  BY <1>3, <1>4
<1>6. TypeOK'
  BY DEF Data, TypeOK, Inv
<1>7. ~Answered'
  BY DEF Answered
<1>8. DataInv'
  BY <1>1, <1>2, <1>5, <1>7 DEF DataInv
<1>9. QED
  BY <1>6, <1>8 DEF Data

\* A rule fails.
LEMMA FailKeeps ==
    ASSUME Steady, Inv', Data, NEW error \in {"InvalidRegex", "UnknownNativeRule"}, Fail(error),
           UNCHANGED <<listed, candidates, made>>
    PROVE  Data'
<1>1. /\ Rule \in Rules /\ ctx \in Requests /\ ctx' = ctx
      /\ normalized_original' = normalized_original
  BY RequestFacts DEF Data, Steady
<1>2. Rule.id \in Nat
  BY <1>1 DEF Rules
<1>3. PICK C : C = Seq(Candidate) /\ <<>> \in C
  <2>1. <<>> \in Seq(Candidate)
    OBVIOUS
  <2>2. QED
    BY <2>1
<1>4. answer' = [error |-> error, rule_id |-> Rule.id, items |-> <<>>] /\ pc' = "done"
  BY DEF Fail
<1>5. /\ answer' \in [error : {None, "InvalidRegex", "UnknownNativeRule"},
                      rule_id : Nat \cup {None}, items : C]
      /\ answer'.error # None
  BY <1>2, <1>3, <1>4, CorrectionAssumption
<1>6. TypeOK'
  BY <1>3, <1>5 DEF Data, TypeOK, Inv
<1>7. made' \subseteq Candidate /\ ToSet(candidates') = Proposed'
  BY <1>1 DEF Data, DataInv, Proposed
<1>8. DataInv'
  BY <1>1, <1>4, <1>5, <1>7 DEF DataInv, Answered
<1>9. QED
  BY <1>6, <1>8 DEF Data

LEMMA RewriteData ==
    ASSUME Steady, Inv', Data, Rewrite, UNCHANGED listed
    PROVE  Data'
<1>1. CASE Fail("InvalidRegex") /\ UNCHANGED <<candidates, made>>
  BY <1>1, FailKeeps
<1>2. PICK commands : commands = IF Rule.rewrite = None THEN <<>>
                                 ELSE apply_rewrite(Rule.rewrite, ctx.script)
  OBVIOUS
<1>3. commands \in Seq(String)
  <2>1. Rule \in Rules /\ ctx.script \in Scripts
    BY RequestFacts DEF Data
  <2>2. Rule.rewrite \in Rewrites \cup {None}
    <3>1. PICK X : X = Rewrites \cup {None}
      OBVIOUS
    <3>2. QED
      BY <2>1, <3>1 DEF Rules
  <2>3. CASE Rule.rewrite = None
    BY <1>2, <2>3
  <2>4. CASE Rule.rewrite # None
    BY <1>2, <2>1, <2>2, <2>4, RewriteType
  <2>5. QED
    BY <2>3, <2>4
<1>4. CASE Propose(commands) /\ UNCHANGED answer
  BY <1>3, <1>4, ProposeKeeps
<1>5. QED
  BY <1>1, <1>2, <1>4 DEF Rewrite

LEMMA InitData == Init => Data
<1>1. SUFFICES ASSUME Init PROVE Data
  OBVIOUS
<1>2. ControlOK
  BY <1>1, InitInv DEF Inv
<1>3. listed \in [Names -> 0 .. Dirs] /\ candidates \in Seq(Candidate)
  BY <1>1, CorrectionAssumption DEF Init
<1>4. PICK C : C = Seq(Candidate) /\ <<>> \in C
  <2>1. <<>> \in Seq(Candidate)
    OBVIOUS
  <2>2. QED
    BY <2>1
<1>5. answer \in [error : {None, "InvalidRegex", "UnknownNativeRule"},
                  rule_id : Nat \cup {None}, items : C]
  BY <1>1, <1>4 DEF Init, Answer
<1>6. TypeOK
  BY <1>2, <1>3, <1>4, <1>5 DEF TypeOK
<1>7. ToSet(candidates) = {} /\ Proposed = {} /\ made = {}
  BY <1>1 DEF Init, ToSet, Proposed
<1>8. DataInv
  BY <1>1, <1>7 DEF Init, DataInv, Answered
<1>9. QED
  BY <1>6, <1>8 DEF Data

LEMMA CorrectData ==
    ASSUME Data, Inv', NEW c \in Requests, Correct(c)
    PROVE  Data'
<1>1. /\ pc' = "rule" /\ ctx' = c /\ candidates' = <<>> /\ made' = {} /\ listed' = listed
      /\ answer' = Answer(<<>>)
  BY DEF Correct
<1>2. PICK C : C = Seq(Candidate) /\ <<>> \in C
  <2>1. <<>> \in Seq(Candidate)
    OBVIOUS
  <2>2. QED
    BY <2>1
<1>3. answer' \in [error : {None, "InvalidRegex", "UnknownNativeRule"},
                   rule_id : Nat \cup {None}, items : C]
  BY <1>1, <1>2 DEF Answer
<1>4. TypeOK'
  BY <1>1, <1>2, <1>3 DEF Data, TypeOK, Inv
<1>5. ToSet(candidates') = {} /\ Proposed' = {}
  BY <1>1 DEF ToSet, Proposed
<1>6. DataInv'
  BY <1>1, <1>5 DEF DataInv, Answered
<1>7. QED
  BY <1>4, <1>6 DEF Data

LEMMA NoneListed ==
    ASSUME listed' = [n \in Names |-> 0], dir' = 1
    PROVE  listed' \in [Names -> 0 .. Dirs] /\ \A n \in Names : listed'[n] < dir'
BY CorrectionAssumption

LEMMA NativeData ==
    ASSUME Inv, Inv', Data, RunNative
    PROVE  Data'
<1>1. Steady
  BY DEF Steady, Inv, RunNative, Evaluating, envVars
<1>2. tokens(ctx.script) \in Seq(String)
  BY <1>1, RequestFacts DEF Data
<1>3. CASE tokens(ctx.script) # <<>> /\ Walk("exists") /\ UNCHANGED <<at, candidates, answer, made>>
  BY <1>1, <1>3, NoneListed, WalkKeeps DEF Walk
<1>4. CASE Propose(<<>>) /\ UNCHANGED <<listed, answer>>
  <2>1. <<>> \in Seq(String)
    OBVIOUS
  <2>2. QED
    BY <1>1, <1>4, <2>1, ProposeKeeps
<1>5. CASE Propose(subcommand_typo(tokens(ctx.script))) /\ UNCHANGED <<listed, answer>>
  <2>1. subcommand_typo(tokens(ctx.script)) \in Seq(String)
    BY <1>2, TypoProposes
  <2>2. QED
    BY <1>1, <1>5, <2>1, ProposeKeeps
<1>6. CASE Fail("UnknownNativeRule") /\ UNCHANGED <<listed, candidates, made>>
  BY <1>1, <1>6, FailKeeps
<1>7. QED
  BY <1>3, <1>4, <1>5, <1>6 DEF RunNative

LEMMA JsonData ==
    ASSUME Inv, Inv', Data, RunJson
    PROVE  Data'
<1>1. Steady /\ ~Rule.native
  BY DEF Steady, Inv, RunJson, Evaluating, envVars
<1>2. CASE Fail("InvalidRegex") /\ UNCHANGED <<listed, candidates, made>>
  BY <1>1, <1>2, FailKeeps
<1>3. CASE Propose(<<>>) /\ UNCHANGED <<listed, answer>>
  <2>1. <<>> \in Seq(String)
    OBVIOUS
  <2>2. QED
    BY <1>1, <1>3, <2>1, ProposeKeeps
<1>4. CASE Walk("exists") /\ UNCHANGED <<at, candidates, answer, made>>
  BY <1>1, <1>4, NoneListed, WalkKeeps DEF Walk
<1>5. CASE Rewrite /\ UNCHANGED listed
  BY <1>1, <1>5, RewriteData
<1>6. QED
  BY <1>2, <1>3, <1>4, <1>5 DEF RunJson

LEMMA ExistsData ==
    ASSUME Inv, Inv', Data, Exists
    PROVE  Data'
<1>1. Steady /\ (Rule.native => tokens(ctx.script) # <<>>) /\ listed \in [Names -> 0 .. Dirs]
  BY DEF Steady, Inv, RuleInv, Exists, envVars, Data, DataInv, TypeOK
<1>2. CASE Propose(<<>>) /\ UNCHANGED <<listed, answer>>
  <2>1. <<>> \in Seq(String)
    OBVIOUS
  <2>2. QED
    BY <1>1, <1>2, <2>1, ProposeKeeps
<1>3. CASE Rewrite /\ UNCHANGED listed
  BY <1>1, <1>3, RewriteData
<1>4. CASE UNCHANGED <<pc, at, listed, candidates, answer, made>>
  <2>1. pc' = "exists"
    BY <1>4 DEF Exists
  <2>2. QED
    BY <1>1, <1>4, <2>1, WalkKeeps
<1>5. CASE Walk("list") /\ UNCHANGED <<at, candidates, answer, made>>
  BY <1>1, <1>5, NoneListed, WalkKeeps DEF Walk
<1>6. QED
  BY <1>2, <1>3, <1>4, <1>5 DEF Exists

LEMMA ListData ==
    ASSUME Inv, Inv', Data, List
    PROVE  Data'
<1>1. /\ Steady /\ Rule.native /\ tokens(ctx.script) # <<>> /\ listed \in [Names -> 0 .. Dirs]
      /\ \A n \in Names : listed[n] < dir
  BY DEF Steady, Inv, RuleInv, List, envVars, Data, DataInv, TypeOK
<1>2. dir \in 1 .. Dirs + 1 /\ Dirs \in Nat
  BY CorrectionAssumption DEF Inv, ControlOK
<1>3. CASE /\ dir <= Dirs /\ dir' = dir + 1 /\ UNCHANGED <<pc, at, candidates, made, answer>>
           /\ listed' = [n \in Names |-> listed[n] + (IF n \in entries(dir) THEN 1 ELSE 0)]
  <2>1. pc' = "list"
    BY <1>3 DEF List
  <2>2. ASSUME NEW n \in Names
        PROVE  listed'[n] \in 0 .. Dirs /\ listed'[n] < dir'
    <3>1. listed[n] \in Nat /\ listed[n] < dir
      BY <1>1
    <3>2. listed'[n] = listed[n] \/ listed'[n] = listed[n] + 1
      BY <1>3, <3>1
    <3>3. QED
      BY <1>2, <1>3, <3>1, <3>2
  <2>3. listed' \in [Names -> 0 .. Dirs]
    BY <1>3, <2>2
  <2>4. QED
    BY <1>1, <1>3, <2>1, <2>2, <2>3, WalkKeeps
<1>4. CASE Propose(no_command(tokens(ctx.script), listed)) /\ UNCHANGED <<listed, answer>>
  <2>1. tokens(ctx.script) \in Seq(String)
    BY <1>1, RequestFacts DEF Data
  <2>2. listed \in [Names -> Nat]
    BY <1>1
  <2>3. no_command(tokens(ctx.script), listed) \in Seq(String)
    BY <1>1, <2>1, <2>2, NoCommandProposes
  <2>4. QED
    BY <1>1, <1>4, <2>3, ProposeKeeps
<1>5. QED
  BY <1>3, <1>4 DEF List

LEMMA FinishData ==
    ASSUME Inv, Inv', Data, Finish
    PROVE  Data'
<1>1. /\ pc = "rule" /\ answer' = Answer(Merged(candidates)) /\ pc' = "done"
      /\ UNCHANGED <<rules, ctx, at, dir, listed, candidates, made>>
  BY DEF Finish, ghosts
<1>2. candidates \in Seq(Candidate) /\ ctx \in Requests /\ made \subseteq Candidate
      /\ ToSet(candidates) = Proposed
  BY <1>1 DEF Data, TypeOK, DataInv
<1>3. PICK items : items = Merged(candidates)
  OBVIOUS
<1>4. items \in Seq(Candidate)
  BY <1>2, <1>3, MergedBest
<1>5. PICK C : C = Seq(Candidate)
  OBVIOUS
<1>6. /\ answer' \in [error : {None, "InvalidRegex", "UnknownNativeRule"},
                      rule_id : Nat \cup {None}, items : C]
      /\ answer'.items = items
  BY <1>1, <1>3, <1>4, <1>5 DEF Answer
<1>7. TypeOK'
  BY <1>1, <1>5, <1>6 DEF Data, TypeOK, Inv
<1>8. Proposed' = Proposed
  BY <1>1 DEF Proposed, normalized_original
<1>9. answer'.items = Merged(candidates')
  BY <1>1, <1>3, <1>6
<1>10. DataInv'
  BY <1>1, <1>2, <1>8, <1>9 DEF DataInv
<1>11. QED
  BY <1>7, <1>10 DEF Data

LEMMA UntouchedData ==
    ASSUME Inv', Data,
           UNCHANGED <<rules, pc, ctx, at, dir, listed, candidates, answer, made>>
    PROVE  Data'
<1>1. TypeOK'
  BY DEF Data, TypeOK, Inv
<1>2. Rule' = Rule /\ Proposed' = Proposed /\ (Answered' <=> Answered)
  BY DEF Rule, Proposed, normalized_original, Answered
<1>3. DataInv'
  BY <1>2 DEF Data, DataInv
<1>4. QED
  BY <1>1, <1>3 DEF Data

LEMMA NextData == Inv /\ Inv' /\ Data /\ [Next]_vars => Data'
<1>1. SUFFICES ASSUME Inv, Inv', Data, [Next]_vars PROVE Data'
  OBVIOUS
<1>2. CASE UNCHANGED vars
  BY <1>1, <1>2, UntouchedData DEF vars, ghosts
<1>3. ASSUME NEW d \in PathDirs, NEW n \in Names, NEW k \in Kinds, Change(d, n, k)
      PROVE  Data'
  BY <1>1, <1>3, UntouchedData DEF Change
<1>4. CASE Next
  BY <1>1, <1>3, <1>4, CorrectData, NativeData, JsonData, ExistsData, ListData, FinishData
  DEF Next, Handle
<1>5. QED
  BY <1>1, <1>2, <1>4

LEMMA DataInvariant == Spec => []Data
<1>1. Init => Data
  BY InitData
<1>2. QED
  BY <1>1, Invariant, NextData, PTL DEF Spec

\* Every command of an answer is a script, whatever the rules make of the words, and
\* the counts of path_commands stay within the directories (correct/mod.rs:190-247).
THEOREM CorrectionTypeCorrect == Spec => []TypeOK
<1>1. Data => TypeOK
  BY DEF Data
<1>2. QED
  BY <1>1, DataInvariant, PTL

\* Sorting, removing what is equal, sorting again and cutting leaves the best of what
\* the rules proposed, for any number of rules in any order (correct/mod.rs:315-346).
THEOREM CorrectionRankedBest == Spec => []RankedBest
<1>1. Data => RankedBest
  <2>1. SUFFICES ASSUME Data, Answered PROVE BestOf(answer.items, Proposed)
    BY DEF RankedBest
  <2>2. /\ candidates \in Seq(Candidate) /\ ToSet(candidates) = Proposed
        /\ answer.items = Merged(candidates)
    BY <2>1 DEF Data, TypeOK, DataInv
  <2>3. QED
    BY <2>2, MergedBest
<1>2. QED
  BY <1>1, DataInvariant, PTL

-----------------------------------------------------------------------------
(* Edits *)

\* v is u with another letter at p, or with one more letter there.
Changed(u, v, p) ==
    Len(v) = Len(u) /\ p \in 1 .. Len(u) /\ \A q \in 1 .. Len(u) : q # p => v[q] = u[q]
Longer(u, v, p) ==
    /\ Len(v) = Len(u) + 1 /\ p \in 1 .. Len(u) + 1
    /\ \A q \in 1 .. Len(u) : v[IF q < p THEN q ELSE q + 1] = u[q]

\* One edit turns either of the two into the other.
OneApart(u, v) == \E p \in Nat : Changed(u, v, p) \/ Longer(u, v, p) \/ Longer(v, u, p)

LEMMA ApartSym ==
    ASSUME NEW u, NEW v, OneApart(u, v)
    PROVE  OneApart(v, u)
<1>1. PICK p \in Nat : Changed(u, v, p) \/ Longer(u, v, p) \/ Longer(v, u, p)
  BY DEF OneApart
<1>2. Changed(u, v, p) => Changed(v, u, p)
  BY DEF Changed
<1>3. QED
  BY <1>1, <1>2 DEF OneApart

\* The letters of a string.
Letter == Chars \cup {Space}

\* The letters before and behind a place.
LEMMA HeadPart ==
    ASSUME NEW T, NEW s \in Seq(T), NEW i \in 1 .. Len(s) + 1, NEW h, h = SubSeq(s, 1, i - 1)
    PROVE  h \in Seq(T) /\ Len(h) = i - 1 /\ \A q \in 1 .. i - 1 : h[q] = s[q]
<1>1. i \in Nat /\ Len(s) \in Nat
  OBVIOUS
<1>2. CASE i = 1
  BY <1>1, <1>2
<1>3. CASE i # 1
  <2>1. 1 \in 1 .. Len(s) /\ i - 1 \in 1 .. Len(s)
    BY <1>1, <1>3
  <2>2. h \in Seq(T) /\ Len(h) = i - 1 - 1 + 1
        /\ \A p \in 1 .. i - 1 - 1 + 1 : h[p] = s[1 + p - 1]
    BY <2>1, PartOf
  <2>3. QED
    BY <1>1, <2>2
<1>4. QED
  BY <1>2, <1>3

LEMMA TailPart ==
    ASSUME NEW T, NEW s \in Seq(T), NEW i \in 1 .. Len(s) + 1, NEW t, t = SubSeq(s, i, Len(s))
    PROVE  /\ t \in Seq(T) /\ Len(t) = Len(s) - i + 1
           /\ \A q \in 1 .. Len(s) - i + 1 : t[q] = s[i + q - 1]
<1>1. i \in Nat /\ Len(s) \in Nat
  OBVIOUS
<1>2. CASE i = Len(s) + 1
  BY <1>1, <1>2
<1>3. CASE i # Len(s) + 1
  <2>1. i \in 1 .. Len(s) /\ Len(s) \in i .. Len(s)
    BY <1>1, <1>3
  <2>2. QED
    BY <2>1, PartOf
<1>4. QED
  BY <1>2, <1>3

LEMMA InsertFacts ==
    ASSUME NEW T, NEW u \in Seq(T), NEW i \in 1 .. Len(u) + 1, NEW c \in T,
           NEW v, v = InsertAt(u, i, c)
    PROVE  v \in Seq(T) /\ Longer(u, v, i) /\ v[i] = c
<1>1. PICK h, t : h = SubSeq(u, 1, i - 1) /\ t = SubSeq(u, i, Len(u))
  OBVIOUS
<1>2. PICK n \in Nat : n = Len(u)
  OBVIOUS
<1>3. h \in Seq(T) /\ Len(h) = i - 1 /\ \A q \in 1 .. i - 1 : h[q] = u[q]
  BY <1>1, HeadPart
<1>4. t \in Seq(T) /\ Len(t) = n - i + 1 /\ \A q \in 1 .. n - i + 1 : t[q] = u[i + q - 1]
  BY <1>1, <1>2, TailPart
<1>5. PICK g : g = h \o <<c>>
  OBVIOUS
<1>6. g \in Seq(T) /\ Len(g) = i /\ g[i] = c /\ \A q \in 1 .. i - 1 : g[q] = u[q]
  BY <1>3, <1>5
<1>7. v = g \o t
  BY <1>1, <1>5 DEF InsertAt
<1>8. /\ v \in Seq(T) /\ Len(v) = i + (n - i + 1)
      /\ \A q \in 1 .. i : v[q] = g[q]
      /\ \A q \in 1 .. n - i + 1 : v[i + q] = t[q]
  <2>0. g \in Seq(T) /\ t \in Seq(T)
    BY <1>4, <1>6
  <2>1. Len(g) = i /\ Len(t) = n - i + 1
    BY <1>4, <1>6
  <2>2. PICK w : w = g \o t
    OBVIOUS
  <2>3. /\ w \in Seq(T) /\ Len(w) = Len(g) + Len(t)
        /\ \A q \in 1 .. Len(g) : w[q] = g[q]
        /\ \A q \in 1 .. Len(t) : w[Len(g) + q] = t[q]
    BY <2>0, <2>2, ConcatFacts
  <2>4. v = w
    BY <1>7, <2>2
  <2>5. QED
    BY <2>1, <2>3, <2>4
<1>9. Len(v) = n + 1 /\ v[i] = c
  BY <1>2, <1>6, <1>8
<1>10. ASSUME NEW q \in 1 .. n
       PROVE  v[IF q < i THEN q ELSE q + 1] = u[q]
  <2>1. CASE q < i
    BY <1>6, <1>8, <2>1
  <2>2. CASE ~(q < i)
    <3>1. q - i + 1 \in 1 .. n - i + 1 /\ i + (q - i + 1) = q + 1 /\ i + (q - i + 1) - 1 = q
      BY <1>2, <2>2
    <3>2. v[q + 1] = t[q - i + 1] /\ t[q - i + 1] = u[q]
      BY <1>4, <1>8, <3>1
    <3>3. QED
      BY <2>2, <3>2
  <2>3. QED
    BY <2>1, <2>2
<1>11. QED
  BY <1>2, <1>8, <1>9, <1>10 DEF Longer

LEMMA RemoveFacts ==
    ASSUME NEW T, NEW u \in Seq(T), NEW i \in 1 .. Len(u), NEW v, v = RemoveAt(u, i)
    PROVE  v \in Seq(T) /\ Longer(v, u, i)
<1>1. PICK h, t : h = SubSeq(u, 1, i - 1) /\ t = SubSeq(u, i + 1, Len(u))
  OBVIOUS
<1>2. PICK n \in Nat : n = Len(u)
  OBVIOUS
<1>3. i \in 1 .. Len(u) + 1 /\ i + 1 \in 1 .. Len(u) + 1
  BY <1>2
<1>4. h \in Seq(T) /\ Len(h) = i - 1 /\ \A q \in 1 .. i - 1 : h[q] = u[q]
  BY <1>1, <1>3, HeadPart
<1>5. /\ t \in Seq(T) /\ Len(t) = Len(u) - (i + 1) + 1
      /\ \A q \in 1 .. Len(u) - (i + 1) + 1 : t[q] = u[i + 1 + q - 1]
  BY <1>1, <1>3, TailPart
<1>6. Len(t) = n - i /\ \A q \in 1 .. n - i : t[q] = u[i + q]
  BY <1>2, <1>5
<1>7. v = h \o t
  BY <1>1 DEF RemoveAt
<1>8. /\ v \in Seq(T) /\ Len(v) = i - 1 + (n - i)
      /\ \A q \in 1 .. i - 1 : v[q] = h[q]
      /\ \A q \in 1 .. n - i : v[i - 1 + q] = t[q]
  <2>0. h \in Seq(T) /\ t \in Seq(T)
    BY <1>4, <1>5
  <2>1. Len(h) = i - 1 /\ Len(t) = n - i
    BY <1>4, <1>6
  <2>2. PICK w : w = h \o t
    OBVIOUS
  <2>3. /\ w \in Seq(T) /\ Len(w) = Len(h) + Len(t)
        /\ \A q \in 1 .. Len(h) : w[q] = h[q]
        /\ \A q \in 1 .. Len(t) : w[Len(h) + q] = t[q]
    BY <2>0, <2>2, ConcatFacts
  <2>4. v = w
    BY <1>7, <2>2
  <2>5. QED
    BY <2>1, <2>3, <2>4
<1>9. Len(v) = n - 1 /\ n = Len(v) + 1
  BY <1>2, <1>8
<1>10. ASSUME NEW q \in 1 .. n - 1
       PROVE  u[IF q < i THEN q ELSE q + 1] = v[q]
  <2>1. CASE q < i
    BY <1>4, <1>8, <2>1
  <2>2. CASE ~(q < i)
    <3>1. PICK k \in 1 .. n - i : i - 1 + k = q /\ i + k = q + 1
      <4>1. q - i + 1 \in 1 .. n - i /\ i - 1 + (q - i + 1) = q /\ i + (q - i + 1) = q + 1
        BY <1>2, <2>2
      <4>2. QED
        BY <4>1
    <3>2. v[q] = t[k] /\ t[k] = u[q + 1]
      BY <1>6, <1>8, <3>1
    <3>3. QED
      BY <2>2, <3>2
  <2>3. QED
    BY <2>1, <2>2
<1>11. i \in 1 .. Len(v) + 1
  BY <1>2, <1>9
<1>12. QED
  BY <1>2, <1>8, <1>9, <1>10, <1>11 DEF Longer

\* The words one edit makes of a word are those one edit away from it.
LEMMA OneEditFacts ==
    ASSUME NEW u \in String, NEW v \in String
    PROVE  v \in OneEdit(u) <=> OneApart(u, v)
<1>1. PICK T : T = Letter /\ String = Seq(T)
  BY DEF String, Letter
<1>2. PICK m, n \in Nat : m = Len(u) /\ n = Len(v) /\ DOMAIN u = 1 .. m /\ DOMAIN v = 1 .. n
  BY StringFacts
<1>3. u \in Seq(T) /\ v \in Seq(T)
  BY <1>1
<1>4. v \in OneEdit(u) <=> \/ \E i \in 1 .. m : v = RemoveAt(u, i)
                           \/ \E i \in 1 .. m, c \in T : v = [u EXCEPT ![i] = c]
                           \/ \E i \in 1 .. m + 1, c \in T : v = InsertAt(u, i, c)
  <2> DEFINE A == {RemoveAt(u, i) : i \in DOMAIN u}
             B == {[u EXCEPT ![i] = c] : i \in DOMAIN u, c \in T}
             C == {InsertAt(u, i, c) : i \in 1 .. Len(u) + 1, c \in T}
  <2>1. v \in A <=> \E i \in 1 .. m : v = RemoveAt(u, i)
    BY <1>2
  <2>2. v \in B <=> \E i \in 1 .. m, c \in T : v = [u EXCEPT ![i] = c]
    BY <1>2
  <2>3. v \in C <=> \E i \in 1 .. m + 1, c \in T : v = InsertAt(u, i, c)
    BY <1>2
  <2>4. OneEdit(u) = A \cup B \cup C
    BY <1>1 DEF OneEdit, Letter
  <2> HIDE DEF A, B, C
  <2>5. QED
    BY <2>1, <2>2, <2>3, <2>4
<1>5. ASSUME NEW i \in 1 .. m, v = RemoveAt(u, i)
      PROVE  OneApart(u, v)
  <2>1. Longer(v, u, i) /\ i \in Nat
    BY <1>2, <1>3, <1>5, RemoveFacts
  <2>2. QED
    BY <2>1 DEF OneApart
<1>6. ASSUME NEW i \in 1 .. m, NEW c \in T, v = [u EXCEPT ![i] = c]
      PROVE  OneApart(u, v)
  <2>1. Changed(u, v, i) /\ i \in Nat
    BY <1>2, <1>3, <1>6, WithFacts DEF Changed
  <2>2. QED
    BY <2>1 DEF OneApart
<1>7. ASSUME NEW i \in 1 .. m + 1, NEW c \in T, v = InsertAt(u, i, c)
      PROVE  OneApart(u, v)
  <2>1. Longer(u, v, i) /\ i \in Nat
    BY <1>2, <1>3, <1>7, InsertFacts
  <2>2. QED
    BY <2>1 DEF OneApart
<1>8. ASSUME NEW p \in Nat, Changed(u, v, p)
      PROVE  \E i \in 1 .. m, c \in T : v = [u EXCEPT ![i] = c]
  <2>1. p \in 1 .. m /\ n = m /\ \A q \in 1 .. m : q # p => v[q] = u[q]
    BY <1>2, <1>8 DEF Changed
  <2>2. v[p] \in T
    BY <1>2, <1>3, <2>1
  <2>3. PICK w : w = [u EXCEPT ![p] = v[p]]
    OBVIOUS
  <2>4. w \in Seq(T) /\ Len(w) = m /\ \A q \in 1 .. m : w[q] = IF q = p THEN v[p] ELSE u[q]
    BY <1>2, <1>3, <2>2, <2>3, WithFacts
  <2>5. \A q \in 1 .. m : w[q] = v[q]
    BY <2>1, <2>4
  <2>6. w = v
    BY <1>2, <1>3, <2>1, <2>4, <2>5, SameSeq
  <2>7. QED
    BY <2>1, <2>2, <2>3, <2>6
<1>9. ASSUME NEW p \in Nat, Longer(u, v, p)
      PROVE  \E i \in 1 .. m + 1, c \in T : v = InsertAt(u, i, c)
  <2>1. p \in 1 .. m + 1 /\ n = m + 1 /\ \A q \in 1 .. m : v[IF q < p THEN q ELSE q + 1] = u[q]
    BY <1>2, <1>9 DEF Longer
  <2>2. v[p] \in T
    BY <1>2, <1>3, <2>1
  <2>3. PICK w : w = InsertAt(u, p, v[p])
    OBVIOUS
  <2>4. w \in Seq(T) /\ Longer(u, w, p) /\ w[p] = v[p]
    BY <1>2, <1>3, <2>1, <2>2, <2>3, InsertFacts
  <2>5. Len(w) = n /\ \A q \in 1 .. m : w[IF q < p THEN q ELSE q + 1] = u[q]
    BY <1>2, <2>1, <2>4 DEF Longer
  <2>6. ASSUME NEW q \in 1 .. n
        PROVE  w[q] = v[q]
    <3>1. CASE q < p
      <4>1. q \in 1 .. m
        BY <2>1, <3>1
      <4>2. QED
        BY <2>1, <2>5, <3>1, <4>1
    <3>2. CASE q = p
      BY <2>4, <3>2
    <3>3. CASE q > p
      <4>1. q - 1 \in 1 .. m /\ ~(q - 1 < p) /\ q - 1 + 1 = q
        BY <1>2, <2>1, <3>3
      <4>2. QED
        BY <2>1, <2>5, <4>1
    <3>4. QED
      BY <2>1, <3>1, <3>2, <3>3
  <2>7. w = v
    BY <1>2, <1>3, <2>4, <2>5, <2>6, SameSeq
  <2>8. QED
    BY <2>1, <2>2, <2>3, <2>7
<1>10. ASSUME NEW p \in Nat, Longer(v, u, p)
       PROVE  \E i \in 1 .. m : v = RemoveAt(u, i)
  <2>1. p \in 1 .. n + 1 /\ m = n + 1 /\ \A q \in 1 .. n : u[IF q < p THEN q ELSE q + 1] = v[q]
    BY <1>2, <1>10 DEF Longer
  <2>2. p \in 1 .. m
    BY <2>1
  <2>3. PICK w : w = RemoveAt(u, p)
    OBVIOUS
  <2>4. w \in Seq(T) /\ Longer(w, u, p)
    BY <1>2, <1>3, <2>2, <2>3, RemoveFacts
  <2>5. Len(w) = n /\ \A q \in 1 .. n : u[IF q < p THEN q ELSE q + 1] = w[q]
    <3>1. Len(w) \in Nat
      BY <2>4
    <3>2. m = Len(w) + 1 /\ \A q \in 1 .. Len(w) : u[IF q < p THEN q ELSE q + 1] = w[q]
      BY <1>2, <2>4 DEF Longer
    <3>3. QED
      BY <2>1, <3>1, <3>2
  <2>6. \A q \in 1 .. n : w[q] = v[q]
    BY <2>1, <2>5
  <2>7. w = v
    BY <1>2, <1>3, <2>4, <2>5, <2>6, SameSeq
  <2>8. QED
    BY <2>2, <2>3, <2>7
<1>11. OneApart(u, v) <=> \E p \in Nat : Changed(u, v, p) \/ Longer(u, v, p) \/ Longer(v, u, p)
  BY DEF OneApart
<1>12. QED
  BY <1>4, <1>5, <1>6, <1>7, <1>8, <1>9, <1>10, <1>11

LEMMA OneEditType ==
    ASSUME NEW u \in String
    PROVE  OneEdit(u) \subseteq String
<1>1. PICK T : T = Letter /\ String = Seq(T)
  BY DEF String, Letter
<1>2. u \in Seq(T) /\ DOMAIN u = 1 .. Len(u)
  BY <1>1, StringFacts
<1>3. \A i \in DOMAIN u : RemoveAt(u, i) \in Seq(T)
  BY <1>2, RemoveFacts
<1>4. \A i \in DOMAIN u, c \in T : [u EXCEPT ![i] = c] \in Seq(T)
  BY <1>2, WithFacts
<1>5. \A i \in 1 .. Len(u) + 1, c \in T : InsertAt(u, i, c) \in Seq(T)
  BY <1>2, InsertFacts
<1> DEFINE A == {RemoveAt(u, i) : i \in DOMAIN u}
           B == {[u EXCEPT ![i] = c] : i \in DOMAIN u, c \in T}
           C == {InsertAt(u, i, c) : i \in 1 .. Len(u) + 1, c \in T}
<1>6. A \subseteq Seq(T)
  BY <1>3
<1>7. B \subseteq Seq(T)
  BY <1>4
<1>8. C \subseteq Seq(T)
  BY <1>5
<1>9. OneEdit(u) = A \cup B \cup C
  BY <1>1 DEF OneEdit, Letter
<1> HIDE DEF A, B, C
<1>10. QED
  BY <1>1, <1>6, <1>7, <1>8, <1>9

\* One letter more or less at the end, or another one, is one edit.
LEMMA ApartAtEnd ==
    ASSUME NEW T, NEW u \in Seq(T), NEW c \in T, NEW d \in T
    PROVE  OneApart(u, Append(u, c)) /\ OneApart(Append(u, c), Append(u, d))
<1>1. PICK n \in Nat : n = Len(u) /\ n + 1 \in Nat
  OBVIOUS
<1>2. PICK v, w : v = Append(u, c) /\ w = Append(u, d)
  OBVIOUS
<1>3. /\ Len(v) = n + 1 /\ v[n + 1] = c /\ \A i \in 1 .. n : v[i] = u[i]
      /\ Len(w) = n + 1 /\ w[n + 1] = d /\ \A i \in 1 .. n : w[i] = u[i]
  BY <1>1, <1>2, AppendFacts
<1>4. Longer(u, v, n + 1)
  BY <1>1, <1>3 DEF Longer
<1>5. Changed(v, w, n + 1)
  BY <1>1, <1>3 DEF Changed
<1>6. QED
  BY <1>1, <1>2, <1>4, <1>5 DEF OneApart

\* The same letter behind both changes nothing.
LEMMA ApartAppend ==
    ASSUME NEW T, NEW u \in Seq(T), NEW v \in Seq(T), NEW c \in T, OneApart(u, v)
    PROVE  OneApart(Append(u, c), Append(v, c))
<1>1. PICK m, n \in Nat : m = Len(u) /\ n = Len(v)
  OBVIOUS
<1>2. PICK x, y : x = Append(u, c) /\ y = Append(v, c)
  OBVIOUS
<1>3. /\ Len(x) = m + 1 /\ x[m + 1] = c /\ \A i \in 1 .. m : x[i] = u[i]
      /\ Len(y) = n + 1 /\ y[n + 1] = c /\ \A i \in 1 .. n : y[i] = v[i]
  BY <1>1, <1>2, AppendFacts
<1>4. PICK p \in Nat : Changed(u, v, p) \/ Longer(u, v, p) \/ Longer(v, u, p)
  BY DEF OneApart
<1>5. CASE Changed(u, v, p)
  <2>1. n = m /\ p \in 1 .. m /\ \A q \in 1 .. m : q # p => v[q] = u[q]
    BY <1>1, <1>5 DEF Changed
  <2>2. Changed(x, y, p)
    BY <1>1, <1>3, <2>1 DEF Changed
  <2>3. QED
    BY <1>2, <2>2 DEF OneApart
<1>6. CASE Longer(u, v, p)
  <2>1. n = m + 1 /\ p \in 1 .. m + 1 /\ \A q \in 1 .. m : v[IF q < p THEN q ELSE q + 1] = u[q]
    BY <1>1, <1>6 DEF Longer
  <2>2. ASSUME NEW q \in 1 .. m + 1
        PROVE  y[IF q < p THEN q ELSE q + 1] = x[q]
    <3>1. CASE q = m + 1
      BY <1>1, <1>3, <2>1, <3>1
    <3>2. CASE q # m + 1
      <4>1. q \in 1 .. m /\ q \in 1 .. n /\ q + 1 \in 1 .. n
        BY <1>1, <2>1, <3>2
      <4>2. QED
        BY <1>3, <2>1, <4>1
    <3>3. QED
      BY <3>1, <3>2
  <2>3. Longer(x, y, p)
    BY <1>1, <1>3, <2>1, <2>2 DEF Longer
  <2>4. QED
    BY <1>2, <2>3 DEF OneApart
<1>7. CASE Longer(v, u, p)
  <2>1. m = n + 1 /\ p \in 1 .. n + 1 /\ \A q \in 1 .. n : u[IF q < p THEN q ELSE q + 1] = v[q]
    BY <1>1, <1>7 DEF Longer
  <2>2. ASSUME NEW q \in 1 .. n + 1
        PROVE  x[IF q < p THEN q ELSE q + 1] = y[q]
    <3>1. CASE q = n + 1
      BY <1>1, <1>3, <2>1, <3>1
    <3>2. CASE q # n + 1
      <4>1. q \in 1 .. n /\ q \in 1 .. m /\ q + 1 \in 1 .. m
        BY <1>1, <2>1, <3>2
      <4>2. QED
        BY <1>3, <2>1, <4>1
    <3>3. QED
      BY <3>1, <3>2
  <2>3. Longer(y, x, p)
    BY <1>1, <1>3, <2>1, <2>2 DEF Longer
  <2>4. QED
    BY <1>2, <2>3 DEF OneApart
<1>8. QED
  BY <1>4, <1>5, <1>6, <1>7

\* At most two edits, by their number, turn u into v.
Within(k, u, v) ==
    /\ k = 0 => u = v
    /\ k = 1 => OneApart(u, v)
    /\ k = 2 => \E w \in String : OneApart(u, w) /\ OneApart(w, v)

\* The three ways a cell of the table is made from its neighbours, and a letter that
\* the words share.
LEMMA WithinStep ==
    ASSUME NEW k \in Nat, NEW u \in String, NEW v \in String, Within(k, u, v),
           NEW c \in Letter, NEW d \in Letter
    PROVE  /\ Within(k + 1, Append(u, c), v) /\ Within(k + 1, u, Append(v, d))
           /\ Within(k + 1, Append(u, c), Append(v, d))
           /\ Within(k, Append(u, c), Append(v, c))
<1>1. PICK T : T = Letter /\ String = Seq(T)
  BY DEF String, Letter
<1>2. PICK uc, vc, vd : uc = Append(u, c) /\ vc = Append(v, c) /\ vd = Append(v, d)
  OBVIOUS
<1>3. u \in Seq(T) /\ v \in Seq(T) /\ c \in T /\ d \in T
  BY <1>1
<1>4. uc \in String /\ vc \in String /\ vd \in String
  BY <1>1, <1>2, <1>3, AppendFacts
<1>5. OneApart(v, vd) /\ OneApart(vc, vd) /\ OneApart(v, vc) /\ OneApart(uc, u)
  BY <1>2, <1>3, ApartAtEnd, ApartSym
<1>6. CASE k = 0
  <2>1. u = v /\ uc = vc
    BY <1>2, <1>6 DEF Within
  <2>2. OneApart(uc, v) /\ OneApart(u, vd) /\ OneApart(uc, vd)
    BY <1>5, <2>1
  <2>3. QED
    BY <1>2, <1>6, <2>1, <2>2 DEF Within
<1>7. CASE k = 1
  <2>1. OneApart(u, v)
    BY <1>7 DEF Within
  <2>2. OneApart(uc, vc)
    BY <1>2, <1>3, <2>1, ApartAppend
  <2>3. OneApart(vc, v)
    BY <1>5, ApartSym
  <2>4. QED
    BY <1>2, <1>4, <1>5, <1>7, <2>1, <2>2, <2>3 DEF Within
<1>8. CASE k = 2
  <2>1. PICK w \in String : OneApart(u, w) /\ OneApart(w, v)
    BY <1>8 DEF Within
  <2>2. PICK wc : wc = Append(w, c)
    OBVIOUS
  <2>3. w \in Seq(T)
    BY <1>1
  <2>4. OneApart(uc, wc) /\ OneApart(wc, vc)
    BY <1>2, <1>3, <2>1, <2>2, <2>3, ApartAppend
  <2>5. wc \in String
    BY <1>1, <1>3, <2>2, <2>3, AppendFacts
  <2>6. Within(k, uc, vc)
    BY <1>8, <2>4, <2>5 DEF Within
  <2>7. QED
    BY <1>2, <1>8, <2>6 DEF Within
<1>9. CASE k > 2
  BY <1>9 DEF Within
<1>10. QED
  BY <1>6, <1>7, <1>8, <1>9

\* The first letters of a word.
First(s, i) == SubSeq(s, 1, i)

LEMMA FirstFacts ==
    ASSUME NEW s \in String
    PROVE  /\ First(s, 0) = <<>> /\ First(s, Len(s)) = s
           /\ \A i \in 0 .. Len(s) : First(s, i) \in String
           /\ \A i \in 1 .. Len(s) : First(s, i) = Append(First(s, i - 1), s[i])
<1>1. PICK T : T = Letter /\ String = Seq(T)
  BY DEF String, Letter
<1>2. PICK n \in Nat : n = Len(s)
  BY StringFacts
<1>3. s \in Seq(T)
  BY <1>1
<1>4. ASSUME NEW i \in 0 .. n
      PROVE  /\ First(s, i) \in Seq(T) /\ Len(First(s, i)) = i
             /\ \A q \in 1 .. i : First(s, i)[q] = s[q]
  <2>1. i + 1 \in 1 .. Len(s) + 1 /\ (i + 1) - 1 = i
    BY <1>2
  <2>2. First(s, i) = SubSeq(s, 1, (i + 1) - 1)
    BY <2>1 DEF First
  <2>3. QED
    BY <1>3, <2>1, <2>2, HeadPart
<1>5. ASSUME NEW i \in 1 .. n
      PROVE  First(s, i) = Append(First(s, i - 1), s[i])
  <2>1. i \in 0 .. n /\ i - 1 \in 0 .. n /\ s[i] \in T
    BY <1>2, <1>3
  <2>2. PICK f, g : f = First(s, i) /\ g = First(s, i - 1)
    OBVIOUS
  <2>3. f \in Seq(T) /\ Len(f) = i /\ \A q \in 1 .. i : f[q] = s[q]
    BY <1>4, <2>1, <2>2
  <2>4. g \in Seq(T) /\ Len(g) = i - 1 /\ \A q \in 1 .. i - 1 : g[q] = s[q]
    BY <1>4, <2>1, <2>2
  <2>5. PICK h : h = Append(g, s[i])
    OBVIOUS
  <2>6. /\ h \in Seq(T) /\ Len(h) = Len(g) + 1 /\ h[Len(g) + 1] = s[i]
        /\ \A q \in 1 .. Len(g) : h[q] = g[q]
    BY <2>1, <2>4, <2>5, AppendFacts
  <2>7. Len(h) = i /\ \A q \in 1 .. i : h[q] = s[q]
    <3>1. Len(h) = i /\ h[i] = s[i] /\ \A q \in 1 .. i - 1 : h[q] = s[q]
      BY <2>4, <2>6
    <3>2. QED
      BY <3>1
  <2>8. f = h
    BY <2>3, <2>6, <2>7, SameSeq
  <2>9. QED
    BY <2>2, <2>5, <2>8
<1>6. First(s, 0) = <<>>
  BY <1>3 DEF First
<1>7. First(s, n) = s
  <2>1. n \in 0 .. n
    BY <1>2
  <2>2. PICK f : f = First(s, n)
    OBVIOUS
  <2>3. f \in Seq(T) /\ Len(f) = n /\ \A q \in 1 .. n : f[q] = s[q]
    BY <1>4, <2>1, <2>2
  <2>4. f = s
    BY <1>2, <1>3, <2>3, SameSeq
  <2>5. QED
    BY <2>2, <2>4
<1>8. QED
  BY <1>1, <1>2, <1>4, <1>5, <1>6, <1>7

\* Of the cells of a table that lack something, one whose neighbours do not.
HasFirst(bad, m, n) ==
    \E i \in 0 .. m, j \in 0 .. n :
        /\ <<i, j>> \in bad
        /\ <<i - 1, j>> \notin bad /\ <<i, j - 1>> \notin bad /\ <<i - 1, j - 1>> \notin bad

LEMMA FirstCell ==
    ASSUME NEW m \in Nat, NEW n \in Nat, NEW bad \in SUBSET ((0 .. m) \X (0 .. n)), bad # {}
    PROVE  HasFirst(bad, m, n)
<1>1. \A x \in bad : x[1] \in 0 .. m /\ x[2] \in 0 .. n /\ x = <<x[1], x[2]>>
  OBVIOUS
<1> DEFINE sums == {x[1] + x[2] : x \in bad}
<1>2. sums \in SUBSET Nat /\ sums # {}
  BY <1>1
<1>3. PICK s \in sums : \A t \in sums : s <= t
  <2> HIDE DEF sums
  <2>1. QED
    BY <1>2, LeastNat
<1>4. PICK x \in bad : s = x[1] + x[2]
  BY <1>3
<1>5. PICK i \in 0 .. m, j \in 0 .. n : x = <<i, j>> /\ s = i + j
  BY <1>1, <1>4
<1>6. ASSUME NEW k, NEW l, <<k, l>> \in bad
      PROVE  k \in Nat /\ l \in Nat /\ i + j <= k + l
  <2>1. k \in 0 .. m /\ l \in 0 .. n
    BY <1>6
  <2>2. k + l \in sums
    BY <1>6
  <2>3. QED
    BY <1>3, <1>5, <2>1, <2>2
<1>7. <<i - 1, j>> \notin bad
  <2>1. ~(i + j <= i - 1 + j)
    OBVIOUS
  <2>2. QED
    BY <1>6, <2>1
<1>8. <<i, j - 1>> \notin bad
  <2>1. ~(i + j <= i + (j - 1))
    OBVIOUS
  <2>2. QED
    BY <1>6, <2>1
<1>9. <<i - 1, j - 1>> \notin bad
  <2>1. ~(i + j <= i - 1 + (j - 1))
    OBVIOUS
  <2>2. QED
    BY <1>6, <2>1
<1>10. QED
  BY <1>4, <1>5, <1>7, <1>8, <1>9 DEF HasFirst

LEMMA TableType ==
    ASSUME NEW T, NEW a, NEW b, NEW m, NEW n, Table(T, a, b, m, n)
    PROVE  \A i \in 0 .. m, j \in 0 .. n : T[i][j] \in Nat
BY DEF Table

\* What a cell says, if its neighbours do, up to two.
LEMMA CellWithin ==
    ASSUME NEW a \in String, NEW b \in String, NEW m, NEW n, m = Len(a), n = Len(b),
           NEW T, Table(T, a, b, m, n), NEW i \in 0 .. m, NEW j \in 0 .. n,
           i > 0 => Within(T[i - 1][j], First(a, i - 1), First(b, j)),
           j > 0 => Within(T[i][j - 1], First(a, i), First(b, j - 1)),
           i > 0 /\ j > 0 => Within(T[i - 1][j - 1], First(a, i - 1), First(b, j - 1))
    PROVE  Within(T[i][j], First(a, i), First(b, j))
<1>1. m \in Nat /\ n \in Nat /\ i \in Nat /\ j \in Nat
  BY StringFacts
<1>2. First(a, i) \in String /\ First(b, j) \in String
  BY FirstFacts
<1>3. i > 0 => /\ i - 1 \in 0 .. m /\ First(a, i - 1) \in String /\ a[i] \in Letter
               /\ First(a, i) = Append(First(a, i - 1), a[i])
  <2>1. i > 0 => i \in 1 .. m /\ i - 1 \in 0 .. m
    BY <1>1
  <2>2. i > 0 => a[i] \in Letter
    BY <2>1 DEF String, Letter
  <2>3. QED
    BY <2>1, <2>2, FirstFacts
<1>4. j > 0 => /\ j - 1 \in 0 .. n /\ First(b, j - 1) \in String /\ b[j] \in Letter
               /\ First(b, j) = Append(First(b, j - 1), b[j])
  <2>1. j > 0 => j \in 1 .. n /\ j - 1 \in 0 .. n
    BY <1>1
  <2>2. j > 0 => b[j] \in Letter
    BY <2>1 DEF String, Letter
  <2>3. QED
    BY <2>1, <2>2, FirstFacts
<1>5. CASE i = 0 /\ j = 0
  <2>1. T[i][j] = 0 /\ First(a, i) = First(b, j)
    BY <1>5, FirstFacts DEF Table
  <2>2. QED
    BY <2>1 DEF Within
<1>6. CASE i = 0 /\ j > 0
  <2>1. T[i][j] = j /\ T[i][j - 1] = j - 1 /\ j - 1 \in Nat /\ j - 1 + 1 = j
    BY <1>1, <1>4, <1>6 DEF Table
  <2>2. Within(j - 1 + 1, First(a, i), Append(First(b, j - 1), b[j]))
    BY <1>2, <1>4, <1>6, <2>1, WithinStep
  <2>3. QED
    BY <1>4, <1>6, <2>1, <2>2
<1>7. CASE i > 0 /\ j = 0
  <2>1. T[i][j] = i /\ T[i - 1][j] = i - 1 /\ i - 1 \in Nat /\ i - 1 + 1 = i
    BY <1>1, <1>3, <1>7 DEF Table
  <2>2. Within(i - 1 + 1, Append(First(a, i - 1), a[i]), First(b, j))
    BY <1>2, <1>3, <1>7, <2>1, WithinStep
  <2>3. QED
    BY <1>3, <1>7, <2>1, <2>2
<1>8. CASE i > 0 /\ j > 0
  <2>1. PICK x, y, z : x = T[i - 1][j] /\ y = T[i][j - 1] /\ z = T[i - 1][j - 1]
    OBVIOUS
  <2>2. x \in Nat /\ y \in Nat /\ z \in Nat
    <3>1. i - 1 \in 0 .. m /\ j - 1 \in 0 .. n
      BY <1>3, <1>4, <1>8
    <3>2. QED
      BY <2>1, <3>1, TableType
  <2>3. i \in 1 .. m /\ j \in 1 .. n
    BY <1>1, <1>8
  <2>4. PICK e \in {0, 1} : e = Cost(a, b, i, j)
    BY DEF Cost
  <2>5. T[i][j] = Cell(x + 1, y + 1, z + e)
    BY <2>1, <2>3, <2>4 DEF Table
  <2>6. T[i][j] = x + 1 \/ T[i][j] = y + 1 \/ T[i][j] = z + e
    <3>1. x + 1 \in Nat /\ y + 1 \in Nat /\ z + e \in Nat
      BY <2>2
    <3>2. QED
      BY <2>5, <3>1, CellFacts
  <2>7. CASE T[i][j] = x + 1
    <3>1. Within(x + 1, Append(First(a, i - 1), a[i]), First(b, j))
      BY <1>2, <1>3, <1>4, <1>8, <2>1, <2>2, WithinStep
    <3>2. QED
      BY <1>3, <1>8, <2>7, <3>1
  <2>8. CASE T[i][j] = y + 1
    <3>1. Within(y + 1, First(a, i), Append(First(b, j - 1), b[j]))
      BY <1>2, <1>3, <1>4, <1>8, <2>1, <2>2, WithinStep
    <3>2. QED
      BY <1>4, <1>8, <2>8, <3>1
  <2>9. CASE T[i][j] = z + e
    <3>1. PICK u, v \in String : u = First(a, i - 1) /\ v = First(b, j - 1)
      BY <1>3, <1>4, <1>8
    <3>2. Within(z, u, v) /\ a[i] \in Letter /\ b[j] \in Letter
      BY <1>3, <1>4, <1>8, <2>1, <3>1
    <3>3. /\ Within(z + 1, Append(u, a[i]), Append(v, b[j]))
          /\ Within(z, Append(u, a[i]), Append(v, a[i]))
      BY <2>2, <3>2, WithinStep
    <3>4. e = 0 => a[i] = b[j]
      BY <2>4 DEF Cost
    <3>5. Within(z + e, Append(u, a[i]), Append(v, b[j]))
      <4>1. CASE e = 0
        <5>1. z + e = z
          BY <2>2, <4>1
        <5>2. QED
          BY <3>3, <3>4, <4>1, <5>1
      <4>2. CASE e = 1
        BY <3>3, <4>2
      <4>3. QED
        BY <2>4, <4>1, <4>2
    <3>6. QED
      BY <1>3, <1>4, <1>8, <2>9, <3>1, <3>5
  <2>10. QED
    BY <2>6, <2>7, <2>8, <2>9
<1>9. QED
  BY <1>1, <1>5, <1>6, <1>7, <1>8

\* The distance the table ends with, up to two, is that many edits.
LEMMA TableWithin ==
    ASSUME NEW a \in String, NEW b \in String, NEW m, NEW n, m = Len(a), n = Len(b),
           NEW T, Table(T, a, b, m, n)
    PROVE  Within(T[m][n], a, b)
<1>1. m \in Nat /\ n \in Nat
  BY StringFacts
<1> DEFINE Says(i, j) == Within(T[i][j], First(a, i), First(b, j))
           bad == {x \in (0 .. m) \X (0 .. n) : ~Says(x[1], x[2])}
<1>2. bad \in SUBSET ((0 .. m) \X (0 .. n))
  OBVIOUS
<1>3. \A i \in 0 .. m, j \in 0 .. n : <<i, j>> \in bad <=> ~Says(i, j)
  OBVIOUS
<1> HIDE DEF bad
<1>4. bad = {}
  <2>1. SUFFICES ASSUME bad # {} PROVE FALSE
    OBVIOUS
  <2>2. PICK i \in 0 .. m, j \in 0 .. n :
          /\ <<i, j>> \in bad
          /\ <<i - 1, j>> \notin bad /\ <<i, j - 1>> \notin bad /\ <<i - 1, j - 1>> \notin bad
    <3>1. HasFirst(bad, m, n)
      BY <1>1, <1>2, <2>1, FirstCell
    <3>2. QED
      BY <3>1 DEF HasFirst
  <2>3. /\ i > 0 => i - 1 \in 0 .. m
        /\ j > 0 => j - 1 \in 0 .. n
    BY <1>1
  <2>4. /\ i > 0 => Says(i - 1, j)
        /\ j > 0 => Says(i, j - 1)
        /\ i > 0 /\ j > 0 => Says(i - 1, j - 1)
    BY <1>3, <2>2, <2>3
  <2>5. Says(i, j)
    BY <2>4, CellWithin
  <2>6. QED
    BY <1>3, <2>2, <2>5
<1>5. m \in 0 .. m /\ n \in 0 .. n
  BY <1>1
<1>6. Says(m, n)
  BY <1>3, <1>4, <1>5
<1>7. First(a, m) = a /\ First(b, n) = b
  BY FirstFacts
<1>8. QED
  BY <1>6, <1>7

\* A cell is at most one more than each of its neighbours, and follows from one.
Above(T, m, n) == \A i \in 1 .. m, j \in 0 .. n : T[i][j] <= T[i - 1][j] + 1
Beside(T, m, n) == \A i \in 0 .. m, j \in 1 .. n : T[i][j] <= T[i][j - 1] + 1
Across(T, a, b, m, n) ==
    \A i \in 1 .. m, j \in 1 .. n :
        /\ T[i][j] <= T[i - 1][j - 1] + Cost(a, b, i, j)
        /\ \/ T[i][j] = T[i - 1][j] + 1 \/ T[i][j] = T[i][j - 1] + 1
           \/ T[i][j] = T[i - 1][j - 1] + Cost(a, b, i, j)

LEMMA TableCell ==
    ASSUME NEW T, NEW a, NEW b, NEW m \in Nat, NEW n \in Nat, Table(T, a, b, m, n)
    PROVE  Above(T, m, n) /\ Beside(T, m, n) /\ Across(T, a, b, m, n)
<1>1. ASSUME NEW i \in 1 .. m, NEW j \in 1 .. n
      PROVE  /\ T[i][j] <= T[i - 1][j] + 1 /\ T[i][j] <= T[i][j - 1] + 1
             /\ T[i][j] <= T[i - 1][j - 1] + Cost(a, b, i, j)
             /\ \/ T[i][j] = T[i - 1][j] + 1 \/ T[i][j] = T[i][j - 1] + 1
                \/ T[i][j] = T[i - 1][j - 1] + Cost(a, b, i, j)
  <2>1. PICK x, y, z : x = T[i - 1][j] /\ y = T[i][j - 1] /\ z = T[i - 1][j - 1]
    OBVIOUS
  <2>2. i \in 0 .. m /\ j \in 0 .. n /\ i - 1 \in 0 .. m /\ j - 1 \in 0 .. n
    OBVIOUS
  <2>3. x \in Nat /\ y \in Nat /\ z \in Nat
    BY <2>1, <2>2, TableType
  <2>4. PICK e \in {0, 1} : e = Cost(a, b, i, j)
    BY DEF Cost
  <2>5. T[i][j] = Cell(x + 1, y + 1, z + e)
    BY <2>1, <2>4 DEF Table
  <2>6. PICK f, g, h \in Nat : f = x + 1 /\ g = y + 1 /\ h = z + e
    BY <2>3
  <2>7. T[i][j] \in {f, g, h} /\ T[i][j] <= f /\ T[i][j] <= g /\ T[i][j] <= h
    <3>1. T[i][j] = Cell(f, g, h)
      BY <2>5, <2>6
    <3>2. Cell(f, g, h) \in {f, g, h} /\ Cell(f, g, h) <= f /\ Cell(f, g, h) <= g
          /\ Cell(f, g, h) <= h
      BY CellFacts
    <3>3. QED
      BY <3>1, <3>2
  <2>8. QED
    BY <2>1, <2>4, <2>6, <2>7
<1>2. ASSUME NEW i \in 1 .. m
      PROVE  T[i][0] <= T[i - 1][0] + 1
  <2>1. i \in 0 .. m /\ i - 1 \in 0 .. m
    OBVIOUS
  <2>2. T[i][0] = i /\ T[i - 1][0] = i - 1
    BY <2>1 DEF Table
  <2>3. QED
    BY <2>2
<1>3. ASSUME NEW j \in 1 .. n
      PROVE  T[0][j] <= T[0][j - 1] + 1
  <2>1. j \in 0 .. n /\ j - 1 \in 0 .. n
    OBVIOUS
  <2>2. T[0][j] = j /\ T[0][j - 1] = j - 1
    BY <2>1 DEF Table
  <2>3. QED
    BY <2>2
<1>4. (\A i \in 0 .. m : i = 0 \/ i \in 1 .. m) /\ (\A j \in 0 .. n : j = 0 \/ j \in 1 .. n)
  OBVIOUS
<1>5. Above(T, m, n) /\ Beside(T, m, n)
  BY <1>1, <1>2, <1>3, <1>4 DEF Above, Beside
<1>6. Across(T, a, b, m, n)
  BY <1>1 DEF Across
<1>7. QED
  BY <1>5, <1>6

\* Words that begin alike, columns that are equal, words that end alike, and a column
\* that is at most one more than another.
BeginAlike(b, w, r) == \A q \in 1 .. r : b[q] = w[q]
SameColumn(T, U, m, j) == \A i \in 0 .. m : T[i][j] = U[i][j]
EndAlike(b, w, s, t, r) == \A q \in 1 .. r : b[s + q] = w[t + q]
NearColumn(T, U, m, s, t) == \A i \in 0 .. m : T[i][s] <= U[i][t] + 1

\* The tables of words that begin alike begin alike.
LEMMA SameColumns ==
    ASSUME NEW a, NEW b, NEW w, NEW m \in Nat, NEW n \in Nat, NEW l \in Nat,
           NEW T, Table(T, a, b, m, n), NEW U, Table(U, a, w, m, l),
           NEW r \in Nat, r <= n, r <= l, BeginAlike(b, w, r)
    PROVE  SameColumn(T, U, m, r)
<1> DEFINE bad == {x \in (0 .. m) \X (0 .. r) : T[x[1]][x[2]] # U[x[1]][x[2]]}
<1>1. bad \in SUBSET ((0 .. m) \X (0 .. r))
  OBVIOUS
<1>2. \A i \in 0 .. m, j \in 0 .. r : <<i, j>> \in bad <=> T[i][j] # U[i][j]
  OBVIOUS
<1> HIDE DEF bad
<1>3. bad = {}
  <2>1. SUFFICES ASSUME bad # {} PROVE FALSE
    OBVIOUS
  <2>2. PICK i \in 0 .. m, j \in 0 .. r :
          /\ <<i, j>> \in bad
          /\ <<i - 1, j>> \notin bad /\ <<i, j - 1>> \notin bad /\ <<i - 1, j - 1>> \notin bad
    BY <1>1, <2>1, FirstCell DEF HasFirst
  <2>3. T[i][j] # U[i][j]
    BY <1>2, <2>2
  <2>4. j \in 0 .. n /\ j \in 0 .. l
    OBVIOUS
  <2>5. CASE i = 0
    <3>1. T[i][j] = j /\ U[i][j] = j
      BY <2>4, <2>5 DEF Table
    <3>2. QED
      BY <2>3, <3>1
  <2>6. CASE j = 0
    <3>1. T[i][j] = i /\ U[i][j] = i
      BY <2>6 DEF Table
    <3>2. QED
      BY <2>3, <3>1
  <2>7. CASE i # 0 /\ j # 0
    <3>1. /\ i \in 1 .. m /\ j \in 1 .. n /\ j \in 1 .. l /\ j \in 1 .. r
          /\ i - 1 \in 0 .. m /\ j - 1 \in 0 .. r
      BY <2>7
    <3>2. /\ T[i - 1][j] = U[i - 1][j] /\ T[i][j - 1] = U[i][j - 1]
          /\ T[i - 1][j - 1] = U[i - 1][j - 1]
      BY <1>2, <2>2, <3>1
    <3>3. Cost(a, b, i, j) = Cost(a, w, i, j)
      BY <3>1 DEF Cost, BeginAlike
    <3>4. /\ T[i][j] = Cell(T[i - 1][j] + 1, T[i][j - 1] + 1, T[i - 1][j - 1] + Cost(a, b, i, j))
          /\ U[i][j] = Cell(U[i - 1][j] + 1, U[i][j - 1] + 1, U[i - 1][j - 1] + Cost(a, w, i, j))
      BY <3>1 DEF Table
    <3>5. QED
      BY <2>3, <3>2, <3>3, <3>4
  <2>8. QED
    BY <2>5, <2>6, <2>7
<1>4. r \in 0 .. r
  OBVIOUS
<1>5. QED
  BY <1>2, <1>3, <1>4 DEF SameColumn

\* Columns from which on the words end alike: as near at the end as there.
LEMMA NearColumns ==
    ASSUME NEW a, NEW b, NEW w, NEW m \in Nat, NEW n \in Nat, NEW l \in Nat,
           NEW T, Table(T, a, b, m, n), NEW U, Table(U, a, w, m, l),
           NEW s \in Nat, NEW t \in Nat, NEW r \in Nat, s + r = n, t + r = l,
           EndAlike(b, w, s, t, r), NearColumn(T, U, m, s, t)
    PROVE  T[m][n] <= U[m][l] + 1
<1>1. s + r = n /\ t + r = l
  OBVIOUS
<1>2. \A i \in 0 .. m, j \in 0 .. r : T[i][s + j] \in Nat /\ U[i][t + j] \in Nat
  <2>1. \A j \in 0 .. r : s + j \in 0 .. n /\ t + j \in 0 .. l
    BY <1>1
  <2>2. QED
    BY <2>1, TableType
<1> DEFINE bad == {x \in (0 .. m) \X (0 .. r) : ~(T[x[1]][s + x[2]] <= U[x[1]][t + x[2]] + 1)}
<1>3. bad \in SUBSET ((0 .. m) \X (0 .. r))
  OBVIOUS
<1>4. \A i \in 0 .. m, j \in 0 .. r : <<i, j>> \in bad <=> ~(T[i][s + j] <= U[i][t + j] + 1)
  OBVIOUS
<1> HIDE DEF bad
<1>5. bad = {}
  <2>1. SUFFICES ASSUME bad # {} PROVE FALSE
    OBVIOUS
  <2>2. PICK i \in 0 .. m, j \in 0 .. r :
          /\ <<i, j>> \in bad
          /\ <<i - 1, j>> \notin bad /\ <<i, j - 1>> \notin bad /\ <<i - 1, j - 1>> \notin bad
    <3>1. HasFirst(bad, m, r)
      BY <1>3, <2>1, FirstCell
    <3>2. QED
      BY <3>1 DEF HasFirst
  <2>3. ~(T[i][s + j] <= U[i][t + j] + 1)
    BY <1>4, <2>2
  <2>4. CASE j = 0
    <3>1. s + j = s /\ t + j = t
      BY <2>4
    <3>2. QED
      BY <2>3, <3>1 DEF NearColumn
  <2>5. CASE i = 0
    <3>1. s + j \in 0 .. n /\ t + j \in 0 .. l /\ s \in 0 .. n /\ t \in 0 .. l
      BY <1>1
    <3>2. T[i][s + j] = s + j /\ U[i][t + j] = t + j /\ T[i][s] = s /\ U[i][t] = t
      BY <2>5, <3>1 DEF Table
    <3>3. s <= t + 1
      BY <2>5, <3>2 DEF NearColumn
    <3>4. QED
      BY <2>3, <3>2, <3>3
  <2>6. CASE i # 0 /\ j # 0
    <3>1. /\ i \in 1 .. m /\ s + j \in 1 .. n /\ t + j \in 1 .. l /\ j \in 1 .. r
          /\ i - 1 \in 0 .. m /\ j - 1 \in 0 .. r
      BY <1>1, <2>6
    <3>2. PICK g \in 1 .. n, h \in 1 .. l :
            g = s + j /\ h = t + j /\ g - 1 = s + (j - 1) /\ h - 1 = t + (j - 1)
      BY <3>1
    <3>3. /\ T[i - 1][g] <= U[i - 1][h] + 1 /\ T[i][g - 1] <= U[i][h - 1] + 1
          /\ T[i - 1][g - 1] <= U[i - 1][h - 1] + 1
      BY <1>4, <2>2, <3>1, <3>2
    <3>4. /\ T[i][g] \in Nat /\ T[i - 1][g] \in Nat /\ T[i][g - 1] \in Nat
          /\ T[i - 1][g - 1] \in Nat
          /\ U[i - 1][h] \in Nat /\ U[i][h - 1] \in Nat /\ U[i - 1][h - 1] \in Nat
      BY <1>2, <3>1, <3>2
    <3>5. PICK e \in {0, 1} : e = Cost(a, b, i, g) /\ e = Cost(a, w, i, h)
      <4>1. b[g] = w[h]
        BY <3>1, <3>2 DEF EndAlike
      <4>2. QED
        BY <4>1 DEF Cost
    <3>6. T[i][g] <= T[i - 1][g] + 1
      <4>1. Above(T, m, n) /\ g \in 0 .. n
        BY TableCell
      <4>2. QED
        BY <3>1, <4>1 DEF Above
    <3>7. T[i][g] <= T[i][g - 1] + 1
      <4>1. Beside(T, m, n)
        BY TableCell
      <4>2. QED
        BY <4>1 DEF Beside
    <3>8. T[i][g] <= T[i - 1][g - 1] + e
      <4>1. Across(T, a, b, m, n)
        BY TableCell
      <4>2. QED
        BY <3>1, <3>5, <4>1 DEF Across
    <3>9. U[i][h] = U[i - 1][h] + 1 \/ U[i][h] = U[i][h - 1] + 1 \/ U[i][h] = U[i - 1][h - 1] + e
      <4>1. Across(U, a, w, m, l)
        BY TableCell
      <4>2. QED
        BY <3>1, <3>5, <4>1 DEF Across
    <3>10. ~(T[i][g] <= U[i][h] + 1)
      BY <2>3, <3>2
    <3>11. QED
      BY <3>3, <3>4, <3>5, <3>6, <3>7, <3>8, <3>9, <3>10
  <2>7. QED
    BY <2>4, <2>5, <2>6
<1>6. m \in 0 .. m /\ r \in 0 .. r
  OBVIOUS
<1>7. QED
  BY <1>1, <1>4, <1>5, <1>6

\* A column p behind columns that are alike, and the one of the letter that differs.
LEMMA NextColumn ==
    ASSUME NEW a, NEW b, NEW w, NEW m \in Nat, NEW n \in Nat, NEW l \in Nat,
           NEW T, Table(T, a, b, m, n), NEW U, Table(U, a, w, m, l),
           NEW p \in 1 .. l, NEW s \in {p - 1, p}, s <= n,
           NEW r \in Nat, r = p - 1, SameColumn(T, U, m, r)
    PROVE  NearColumn(T, U, m, s, p)
<1>0. \A i \in 0 .. m : T[i][p - 1] = U[i][p - 1]
  BY DEF SameColumn
<1>1. s \in 0 .. n /\ p - 1 \in 0 .. n /\ p \in 0 .. l /\ p - 1 \in 0 .. l
  OBVIOUS
<1>2. \A i \in 0 .. m : /\ T[i][s] \in Nat /\ U[i][p] \in Nat /\ T[i][p - 1] \in Nat
                        /\ U[i][p - 1] \in Nat
  BY <1>1, TableType
<1> DEFINE bad == {i \in 0 .. m : ~(T[i][s] <= U[i][p] + 1)}
<1>3. bad \in SUBSET Nat
  OBVIOUS
<1>4. bad = {}
  <2>1. SUFFICES ASSUME bad # {} PROVE FALSE
    OBVIOUS
  <2>2. PICK i \in bad : \A k \in bad : i <= k
    <3> HIDE DEF bad
    <3>1. QED
      BY <1>3, <2>1, LeastNat
  <2>3. i \in 0 .. m /\ ~(T[i][s] <= U[i][p] + 1)
    BY <2>2
  <2>4. CASE i = 0
    <3>1. T[i][s] = s /\ U[i][p] = p
      BY <1>1, <2>4 DEF Table
    <3>2. QED
      BY <2>3, <3>1
  <2>5. CASE i # 0
    <3>1. i \in 1 .. m /\ i - 1 \in 0 .. m /\ ~(i <= i - 1)
      BY <2>3, <2>5
    <3>2. i - 1 \notin bad
      BY <2>2, <3>1
    <3>3. T[i - 1][s] <= U[i - 1][p] + 1
      BY <3>1, <3>2
    <3> HIDE DEF bad
    <3>4. PICK x, y, z, e : /\ x = U[i - 1][p] /\ y = U[i][p - 1] /\ z = U[i - 1][p - 1]
                            /\ e = Cost(a, w, i, p)
      OBVIOUS
    <3>5. x \in Nat /\ y \in Nat /\ z \in Nat /\ e \in {0, 1}
      BY <1>2, <2>3, <3>1, <3>4 DEF Cost
    <3>6. U[i][p] = x + 1 \/ U[i][p] = y + 1 \/ U[i][p] = z + e
      <4>1. Across(U, a, w, m, l)
        BY TableCell
      <4>2. QED
        BY <3>1, <3>4, <4>1 DEF Across
    <3>7. T[i][s] <= T[i - 1][s] + 1
      <4>1. Above(T, m, n)
        BY TableCell
      <4>2. QED
        BY <1>1, <3>1, <4>1 DEF Above
    <3>8. T[i][s] <= y + 1
      <4>1. T[i][p - 1] = y /\ T[i][p - 1] \in Nat
        BY <1>0, <1>2, <2>3, <3>4
      <4>2. CASE s = p - 1
        BY <3>5, <4>1, <4>2
      <4>3. CASE s = p
        <5>1. s \in 1 .. n /\ s - 1 = p - 1
          BY <4>3
        <5>2. Beside(T, m, n)
          BY TableCell
        <5>3. T[i][s] <= T[i][s - 1] + 1
          BY <2>3, <5>1, <5>2 DEF Beside
        <5>4. QED
          BY <4>1, <5>1, <5>3
      <4>4. QED
        BY <4>2, <4>3
    <3>9. T[i][s] <= z + 1
      <4>1. T[i - 1][p - 1] = z
        BY <1>0, <3>1, <3>4
      <4>2. CASE s = p - 1
        BY <3>7, <4>1, <4>2
      <4>3. CASE s = p
        <5>1. s \in 1 .. n /\ s - 1 = p - 1
          BY <4>3
        <5>2. PICK f \in {0, 1} : f = Cost(a, b, i, s)
          BY DEF Cost
        <5>3. T[i][s] <= z + f
          <6>1. Across(T, a, b, m, n)
            BY TableCell
          <6>2. T[i][s] <= T[i - 1][s - 1] + f
            BY <3>1, <5>1, <5>2, <6>1 DEF Across
          <6>3. QED
            BY <4>1, <5>1, <6>2
        <5>4. QED
          BY <1>2, <2>3, <3>5, <5>2, <5>3
      <4>4. QED
        BY <4>2, <4>3
    <3>10. T[i][s] \in Nat /\ T[i - 1][s] \in Nat
      BY <1>2, <2>3, <3>1
    <3>11. QED
      BY <2>3, <3>3, <3>4, <3>5, <3>6, <3>7, <3>8, <3>9, <3>10
  <2>6. QED
    BY <2>4, <2>5
<1>5. QED
  BY <1>4 DEF NearColumn

\* One edit of a word changes its distance from another by at most one.
LEMMA ApartTables ==
    ASSUME NEW a, NEW b \in String, NEW w \in String, NEW m \in Nat, NEW n \in Nat, NEW l \in Nat,
           n = Len(b), l = Len(w), OneApart(b, w),
           NEW T, Table(T, a, b, m, n), NEW U, Table(U, a, w, m, l)
    PROVE  T[m][n] <= U[m][l] + 1
<1>1. PICK p \in Nat : Changed(b, w, p) \/ Longer(b, w, p) \/ Longer(w, b, p)
  BY DEF OneApart
<1>2. CASE Changed(b, w, p)
  <2>1. l = n /\ p \in 1 .. n /\ \A q \in 1 .. n : q # p => w[q] = b[q]
    BY <1>2 DEF Changed
  <2>2. PICK r \in Nat : r = p - 1 /\ r <= n /\ r <= l
    BY <2>1
  <2>3. BeginAlike(b, w, r)
    <3>1. \A q \in 1 .. r : q \in 1 .. n /\ q \in 1 .. l /\ q < p
      BY <2>1, <2>2
    <3>2. QED
      BY <2>1, <3>1 DEF BeginAlike
  <2>4. SameColumn(T, U, m, r)
    BY <2>2, <2>3, SameColumns
  <2>5. NearColumn(T, U, m, p, p)
    <3>1. p \in 1 .. l /\ p \in {p - 1, p} /\ p <= n
      BY <2>1
    <3>2. QED
      BY <2>2, <2>4, <3>1, NextColumn
  <2>6. PICK k \in Nat : p + k = n /\ p + k = l
    <3>1. n - p \in Nat /\ p + (n - p) = n
      BY <2>1
    <3>2. QED
      BY <2>1, <3>1
  <2>7. EndAlike(b, w, p, p, k)
    <3>1. \A q \in 1 .. k : p + q \in 1 .. n /\ p + q # p
      BY <2>1, <2>6
    <3>2. QED
      BY <2>1, <3>1 DEF EndAlike
  <2>8. QED
    BY <2>5, <2>6, <2>7, NearColumns
<1>3. CASE Longer(b, w, p)
  <2>1. l = n + 1 /\ p \in 1 .. n + 1 /\ \A q \in 1 .. n : w[IF q < p THEN q ELSE q + 1] = b[q]
    BY <1>3 DEF Longer
  <2>2. PICK r \in Nat : r = p - 1 /\ r <= n /\ r <= l
    BY <2>1
  <2>3. BeginAlike(b, w, r)
    <3>1. \A q \in 1 .. r : q \in 1 .. n /\ q \in 1 .. l /\ q < p
      BY <2>1, <2>2
    <3>2. QED
      BY <2>1, <3>1 DEF BeginAlike
  <2>4. SameColumn(T, U, m, r)
    BY <2>2, <2>3, SameColumns
  <2>5. NearColumn(T, U, m, r, p)
    <3>1. p \in 1 .. l /\ r \in {p - 1, p}
      BY <2>1, <2>2
    <3>2. QED
      BY <2>2, <2>4, <3>1, NextColumn
  <2>6. PICK k \in Nat : r + k = n /\ p + k = l
    <3>1. n - r \in Nat /\ r + (n - r) = n /\ p + (n - r) = l
      BY <2>1, <2>2
    <3>2. QED
      BY <3>1
  <2>7. EndAlike(b, w, r, p, k)
    <3>1. \A q \in 1 .. k : r + q \in 1 .. n /\ ~(r + q < p) /\ r + q + 1 = p + q
      BY <2>1, <2>2, <2>6
    <3>2. QED
      BY <2>1, <3>1 DEF EndAlike
  <2>8. QED
    BY <2>5, <2>6, <2>7, NearColumns
<1>4. CASE Longer(w, b, p)
  <2>1. n = l + 1 /\ p \in 1 .. l + 1 /\ \A q \in 1 .. l : b[IF q < p THEN q ELSE q + 1] = w[q]
    BY <1>4 DEF Longer
  <2>2. PICK r \in Nat : r = p - 1 /\ r <= n /\ r <= l
    BY <2>1
  <2>3. BeginAlike(b, w, r)
    <3>1. \A q \in 1 .. r : q \in 1 .. n /\ q \in 1 .. l /\ q < p
      BY <2>1, <2>2
    <3>2. QED
      BY <2>1, <3>1 DEF BeginAlike
  <2>4. SameColumn(T, U, m, r)
    BY <2>2, <2>3, SameColumns
  <2>5. NearColumn(T, U, m, p, r)
    <3>1. Beside(T, m, n) /\ p \in 1 .. n
      BY <2>1, TableCell
    <3>2. \A i \in 0 .. m : T[i][p] <= T[i][p - 1] + 1
      BY <3>1 DEF Beside
    <3>3. QED
      BY <2>2, <2>4, <3>2 DEF SameColumn, NearColumn
  <2>6. PICK k \in Nat : p + k = n /\ r + k = l
    <3>1. l - r \in Nat /\ r + (l - r) = l /\ p + (l - r) = n
      BY <2>1, <2>2
    <3>2. QED
      BY <3>1
  <2>7. EndAlike(b, w, p, r, k)
    <3>1. \A q \in 1 .. k : r + q \in 1 .. l /\ ~(r + q < p) /\ r + q + 1 = p + q
      BY <2>1, <2>2, <2>6
    <3>2. QED
      BY <2>1, <3>1 DEF EndAlike
  <2>8. QED
    BY <2>5, <2>6, <2>7, NearColumns
<1>5. QED
  BY <1>1, <1>2, <1>3, <1>4

\* A word is at no distance from itself.
LEMMA SelfTable ==
    ASSUME NEW a, NEW m \in Nat, NEW T, Table(T, a, a, m, m)
    PROVE  T[m][m] = 0
<1> DEFINE bad == {i \in 0 .. m : T[i][i] # 0}
<1>1. bad \in SUBSET Nat
  OBVIOUS
<1>2. bad = {}
  <2>1. SUFFICES ASSUME bad # {} PROVE FALSE
    OBVIOUS
  <2>2. PICK i \in bad : \A k \in bad : i <= k
    <3> HIDE DEF bad
    <3>1. QED
      BY <1>1, <2>1, LeastNat
  <2>3. i \in 0 .. m /\ T[i][i] # 0 /\ T[i][i] \in Nat
    BY <2>2, TableType
  <2>4. i # 0
    BY <2>3 DEF Table
  <2>5. i \in 1 .. m /\ i - 1 \in 0 .. m /\ ~(i <= i - 1)
    BY <2>3, <2>4
  <2>6. T[i - 1][i - 1] = 0
    BY <2>2, <2>5
  <2>7. Across(T, a, a, m, m)
    BY TableCell
  <2>8. T[i][i] <= T[i - 1][i - 1] + Cost(a, a, i, i)
    BY <2>5, <2>7 DEF Across
  <2>9. QED
    BY <2>3, <2>6, <2>8 DEF Cost
<1>3. QED
  BY <1>2

\* The distance of b from a by the table with a row for each letter of a.
Edits(a, b) == Rows(a, b)[Len(a)][Len(b)]

LEMMA EditsFacts ==
    ASSUME NEW a \in String
    PROVE  /\ Edits(a, a) = 0
           /\ \A b \in String : Edits(a, b) \in Nat /\ Within(Edits(a, b), a, b)
           /\ \A b, w \in String : OneApart(b, w) => Edits(a, b) <= Edits(a, w) + 1
<1>1. PICK m \in Nat : m = Len(a)
  BY StringFacts
<1>2. \A b \in String : Len(b) \in Nat
  BY StringFacts
<1>3. \A b \in String : Table(Rows(a, b), a, b, m, Len(b))
  BY <1>1, <1>2, RowsFacts
<1>4. Edits(a, a) = 0
  <2>1. Table(Rows(a, a), a, a, m, m)
    BY <1>1, <1>3
  <2>2. QED
    BY <1>1, <2>1, SelfTable DEF Edits
<1>5. ASSUME NEW b \in String
      PROVE  Edits(a, b) \in Nat /\ Within(Edits(a, b), a, b)
  <2>1. PICK n, T : n \in Nat /\ n = Len(b) /\ T = Rows(a, b)
    BY <1>2
  <2>2. Table(T, a, b, m, n)
    BY <1>3, <2>1
  <2>3. T[m][n] \in Nat
    <3>1. m \in 0 .. m /\ n \in 0 .. n
      BY <1>1, <2>1
    <3>2. QED
      BY <2>2, <3>1, TableType
  <2>4. Within(T[m][n], a, b)
    BY <1>1, <2>1, <2>2, TableWithin
  <2>5. QED
    BY <1>1, <2>1, <2>3, <2>4 DEF Edits
<1>6. ASSUME NEW b \in String, NEW w \in String, OneApart(b, w)
      PROVE  Edits(a, b) <= Edits(a, w) + 1
  <2>1. PICK n, l \in Nat : n = Len(b) /\ l = Len(w)
    BY <1>2
  <2>2. PICK T, U : T = Rows(a, b) /\ U = Rows(a, w)
    OBVIOUS
  <2>3. Table(T, a, b, m, n) /\ Table(U, a, w, m, l)
    BY <1>3, <2>1, <2>2
  <2>4. T[m][n] <= U[m][l] + 1
    BY <1>6, <2>1, <2>3, ApartTables
  <2>5. QED
    BY <1>1, <2>1, <2>2, <2>4 DEF Edits
<1>7. QED
  BY <1>4, <1>5, <1>6

\* Words at most two edits apart, either way round.
LEMMA EditsExact ==
    ASSUME NEW a \in String, NEW b \in String
    PROVE  Edits(a, b) \in 1 .. 2 <=>
             a # b /\ (OneApart(a, b) \/ \E w \in String : OneApart(a, w) /\ OneApart(w, b))
<1>1. Edits(a, b) \in Nat /\ Within(Edits(a, b), a, b) /\ Edits(a, a) = 0
  BY EditsFacts
<1>2. ASSUME Edits(a, b) \in 1 .. 2
      PROVE  a # b /\ (OneApart(a, b) \/ \E w \in String : OneApart(a, w) /\ OneApart(w, b))
  <2>1. a # b
    BY <1>1, <1>2
  <2>2. Edits(a, b) = 1 \/ Edits(a, b) = 2
    BY <1>2
  <2>3. QED
    BY <1>1, <2>1, <2>2 DEF Within
<1>3. ASSUME a # b, OneApart(a, b)
      PROVE  Edits(a, b) \in 1 .. 2
  <2>1. Edits(a, b) <= Edits(a, a) + 1
    BY <1>3, ApartSym, EditsFacts
  <2>2. Edits(a, b) # 0
    BY <1>1, <1>3 DEF Within
  <2>3. QED
    BY <1>1, <2>1, <2>2
<1>4. ASSUME a # b, NEW w \in String, OneApart(a, w), OneApart(w, b)
      PROVE  Edits(a, b) \in 1 .. 2
  <2>1. OneApart(w, a) /\ OneApart(b, w)
    BY <1>4, ApartSym
  <2>2. Edits(a, w) <= Edits(a, a) + 1 /\ Edits(a, b) <= Edits(a, w) + 1
    BY <2>1, EditsFacts
  <2>3. Edits(a, w) \in Nat
    BY EditsFacts
  <2>4. Edits(a, b) # 0
    BY <1>1, <1>4 DEF Within
  <2>5. QED
    BY <1>1, <2>2, <2>3, <2>4
<1>5. QED
  BY <1>2, <1>3, <1>4

\* The table of distances is exact where the native rules look at it: a word is near
\* another one just where one or two edits turn it into the other, for words of any
\* length over any letters, and whichever of the two is the longer
\* (levenshtein.rs:7-50, native.rs:24, 69-70, 129-130).
THEOREM NearIsTwoEdits ==
    ASSUME NEW a \in String, NEW b \in String
    PROVE  Near(a, b) <=> a # b /\ AtMostTwoEdits(a, b)
<1>1. OneEdit(a) \subseteq String /\ OneEdit(b) \subseteq String
  BY OneEditType
<1>2. AtMostTwoEdits(a, b) <=> OneApart(a, b) \/ \E w \in String : OneApart(a, w) /\ OneApart(w, b)
  <2>1. b \in OneEdit(a) <=> OneApart(a, b)
    BY OneEditFacts
  <2>2. ASSUME NEW w \in OneEdit(a), w \in OneEdit(b)
        PROVE  w \in String /\ OneApart(a, w) /\ OneApart(w, b)
    BY <1>1, <2>2, OneEditFacts, ApartSym
  <2>3. ASSUME NEW w \in String, OneApart(a, w), OneApart(w, b)
        PROVE  w \in OneEdit(a) \cap OneEdit(b)
    BY <2>3, OneEditFacts, ApartSym
  <2>4. QED
    BY <2>1, <2>2, <2>3 DEF AtMostTwoEdits
<1>3. (\E w \in String : OneApart(a, w) /\ OneApart(w, b)) <=>
        (\E w \in String : OneApart(b, w) /\ OneApart(w, a))
  BY ApartSym
<1>4. OneApart(a, b) <=> OneApart(b, a)
  BY ApartSym
<1>5. distance(a, b) = Edits(a, b) \/ distance(a, b) = Edits(b, a)
  BY DEF distance, Edits
<1>6. Edits(a, b) \in 1 .. 2 <=> a # b /\ AtMostTwoEdits(a, b)
  BY <1>2, EditsExact
<1>7. Edits(b, a) \in 1 .. 2 <=> a # b /\ AtMostTwoEdits(a, b)
  BY <1>2, <1>3, <1>4, EditsExact
<1>8. QED
  BY <1>5, <1>6, <1>7 DEF Near, MAX_EDIT_DISTANCE

-----------------------------------------------------------------------------
(* What was on $PATH during a request *)

\* A step within a request, as far as the native rules' promises go.
Later ==
    /\ rules' = rules /\ ctx' = ctx
    /\ ever \subseteq ever' /\ always' \subseteq always /\ made \subseteq made'

LEMMA JustifiedStays ==
    ASSUME Later, NEW x, Justified(x)
    PROVE  Justified(x)'
<1>1. ctx' = ctx /\ rules' = rules /\ ever \subseteq ever' /\ always' \subseteq always
  BY DEF Later
<1>2. \A id : OnlyNative(id)' <=> OnlyNative(id)
  BY <1>1 DEF OnlyNative
<1>3. CommandJustified(x) => CommandJustified(x)'
  <2>1. \A c, k, n : Respelled(c, k, n)' <=> Respelled(c, k, n)
    BY <1>1 DEF Respelled
  <2>2. QED
    BY <1>1, <2>1 DEF CommandJustified
<1>4. SubcommandJustified(x) => SubcommandJustified(x)'
  BY <1>1 DEF SubcommandJustified, Respelled
<1>5. QED
  BY <1>2, <1>3, <1>4 DEF Justified

LEMMA CompleteStays ==
    ASSUME Later, NEW r, Complete(r)
    PROVE  Complete(r)'
<1>1. ctx' = ctx /\ ever \subseteq ever' /\ always' \subseteq always /\ made \subseteq made'
  BY DEF Later
<1>2. NeverResolved' => NeverResolved
  BY <1>1 DEF NeverResolved
<1>3. \A n : Instead(r, n)' = Instead(r, n)
  BY <1>1 DEF Instead
<1>4. QED
  BY <1>1, <1>2, <1>3 DEF Complete

\* Nothing is proposed: the loop stays at its rule, or ends.
LEMMA StayGhost ==
    ASSUME GhostInv, Later, made' = made, at' = at, pc = "idle" => pc' = "idle",
           pc' # "idle" => (always \subseteq Holding(path) /\ Holding(path) \subseteq ever)',
           pc' \in {"exists", "list"} => WalkInv'
    PROVE  GhostInv'
<1>1. \A m \in made' : Justified(m)'
  <2>1. \A m \in made : Justified(m)
    BY DEF GhostInv
  <2>2. QED
    BY <2>1, JustifiedStays
<1>2. ASSUME pc' # "idle", NEW i \in 1 .. at' - 1
      PROVE  Complete(rules[i])'
  <2>1. PICK r : r = rules[i]
    OBVIOUS
  <2>2. Complete(r)
    BY <1>2, <2>1 DEF GhostInv
  <2>3. r = rules'[i] /\ Complete(r)'
    BY <2>1, <2>2, CompleteStays DEF Later
  <2>4. QED
    BY <2>3 DEF Complete, Instead
<1>3. QED
  BY <1>1, <1>2 DEF GhostInv

\* A rule is through that proposed what it could justify, and all it had to.
LEMMA ProposeGhost ==
    ASSUME Steady, GhostInv, NEW commands, Propose(commands), UNCHANGED <<ever, always>>,
           NEW r, r = Rule,
           \A c \in ToSet(commands) :
             Justified([command |-> c, rule_id |-> Rule.id, priority |-> Rule.priority]),
           Complete(r)'
    PROVE  GhostInv'
<1>1. /\ pc # "idle" /\ rules' = rules /\ ctx' = ctx /\ path' = path
      /\ at \in 1 .. Len(rules) /\ Len(rules) \in Nat
  <2>1. ControlOK /\ at <= Len(rules)
    BY DEF Steady, Inv
  <2>2. QED
    BY <2>1, RuleType DEF Steady
<1>2. made' = made \cup From(commands) /\ at' = at + 1 /\ pc' = "rule"
  BY DEF Propose, From
<1>3. Later
  BY <1>1, <1>2 DEF Later
<1>4. \A m \in made' : Justified(m)'
  <2>1. \A m \in made : Justified(m)
    BY DEF GhostInv
  <2>2. \A m \in From(commands) : Justified(m)
    BY DEF From
  <2>3. \A m \in made' : Justified(m)
    BY <1>2, <2>1, <2>2
  <2>4. QED
    BY <1>3, <2>3, JustifiedStays
<1>5. ASSUME NEW i \in 1 .. at' - 1
      PROVE  Complete(rules[i])'
  <2>1. PICK q : q = rules[i]
    OBVIOUS
  <2>2. CASE i = at
    <3>1. q = r /\ q = rules'[i]
      BY <1>1, <2>1, <2>2 DEF Rule
    <3>2. Complete(q)'
      BY <3>1
    <3>3. QED
      BY <3>1, <3>2 DEF Complete, Instead
  <2>3. CASE i # at
    <3>1. i \in 1 .. at - 1
      BY <1>1, <1>2, <2>3
    <3>2. Complete(q)
      BY <1>1, <2>1, <3>1 DEF GhostInv
    <3>3. q = rules'[i] /\ Complete(q)'
      BY <1>1, <1>3, <2>1, <3>2, CompleteStays
    <3>4. QED
      BY <3>3 DEF Complete, Instead
  <2>4. QED
    BY <2>2, <2>3
<1>6. always' \subseteq Holding(path') /\ Holding(path') \subseteq ever'
  BY <1>1 DEF GhostInv
<1>7. QED
  BY <1>2, <1>4, <1>5, <1>6 DEF GhostInv

\* A rule that is not no_command has nothing it must propose; one of conditions makes
\* no native correction.
LEMMA OtherRule ==
    ASSUME NEW r, ~(r.native /\ r.id = NoCommand)
    PROVE  Complete(r)'
BY DEF Complete

LEMMA JsonJustified ==
    ASSUME Steady, ~Rule.native, NEW x, x.rule_id = Rule.id
    PROVE  Justified(x)
<1>1. at \in 1 .. Len(rules) /\ rules \in Seq(Rules)
  <2>1. ControlOK /\ at <= Len(rules)
    BY DEF Steady, Inv
  <2>2. QED
    BY <2>1, RuleType, CorrectionAssumption DEF ControlOK
<1>2. Rule \in ToSet(rules)
  BY <1>1 DEF ToSet, Rule
<1>3. ~OnlyNative(Rule.id)
  BY <1>2 DEF OnlyNative
<1>4. QED
  BY <1>3 DEF Justified

\* A rule of conditions proposes something, or nothing.
LEMMA JsonProposes ==
    ASSUME Steady, GhostInv, ~Rule.native, NEW commands, Propose(commands),
           UNCHANGED <<ever, always>>
    PROVE  GhostInv'
<1>1. PICK r : r = Rule
  OBVIOUS
<1>2. Complete(r)'
  BY <1>1, OtherRule
<1>3. \A c \in ToSet(commands) :
        Justified([command |-> c, rule_id |-> Rule.id, priority |-> Rule.priority])
  <2>1. SUFFICES ASSUME NEW c
                 PROVE  Justified([command |-> c, rule_id |-> Rule.id, priority |-> Rule.priority])
    OBVIOUS
  <2>2. PICK x : x = [command |-> c, rule_id |-> Rule.id, priority |-> Rule.priority]
    OBVIOUS
  <2>3. x.rule_id = Rule.id
    BY <2>2
  <2>4. Justified(x)
    BY <2>3, JsonJustified
  <2>5. QED
    BY <2>2, <2>4
<1>4. QED
  BY <1>1, <1>2, <1>3, ProposeGhost

\* Nothing is proposed by a rule that has to propose nothing.
LEMMA NothingProposed ==
    ASSUME Steady, GhostInv, Propose(<<>>), UNCHANGED <<ever, always>>,
           NEW r, r = Rule, Complete(r)'
    PROVE  GhostInv'
<1>1. ToSet(<<>>) = {}
  BY DEF ToSet
<1>2. QED
  BY <1>1, ProposeGhost

\* A walk over $PATH begins or goes on, or the request fails.
LEMMA WalkGhost ==
    ASSUME Steady, GhostInv, UNCHANGED <<at, made, ever, always>>,
           pc' \in {"exists", "list", "done"}, pc' \in {"exists", "list"} => WalkInv'
    PROVE  GhostInv'
<1>1. pc # "idle" /\ Later /\ path' = path
  BY DEF Steady, Later
<1>2. always' \subseteq Holding(path') /\ Holding(path') \subseteq ever'
  BY <1>1 DEF GhostInv
<1>3. QED
  BY <1>1, <1>2, StayGhost

LEMMA RewriteGhost ==
    ASSUME Steady, GhostInv, ~Rule.native, Rewrite, UNCHANGED <<ever, always>>
    PROVE  GhostInv'
<1>1. CASE Fail("InvalidRegex") /\ UNCHANGED <<at, made>>
  BY <1>1, WalkGhost DEF Fail
<1>2. CASE \E commands : Propose(commands)
  BY <1>2, JsonProposes
<1>3. QED
  BY <1>1, <1>2 DEF Rewrite

LEMMA InitGhost == Init => GhostInv
BY DEF Init, GhostInv

LEMMA CorrectGhost ==
    ASSUME GhostInv, NEW c \in Requests, Correct(c)
    PROVE  GhostInv'
<1>1. /\ pc' = "rule" /\ at' = 1 /\ made' = {} /\ path' = path
      /\ ever' = Holding(path) /\ always' = Holding(path)
  BY DEF Correct, envVars
<1>2. \A i \in 1 .. at' - 1 : FALSE
  BY <1>1
<1>3. always' \subseteq Holding(path') /\ Holding(path') \subseteq ever'
  BY <1>1
<1>4. QED
  BY <1>1, <1>2, <1>3 DEF GhostInv

\* What subcommand_typo proposes is justified.
LEMMA TypoJustified ==
    ASSUME NEW toks \in Seq(String), toks = tokens(ctx.script),
           NEW c \in ToSet(subcommand_typo(toks)), NEW x, x.command = c, x.rule_id = SubcommandTypo
    PROVE  Justified(x)
<1>1. PICK r : r = subcommand_typo(toks)
  OBVIOUS
<1>2. r \in Seq(String) /\ r # <<>>
  <2>1. r \in Seq(String)
    BY <1>1, TypoProposes
  <2>2. ToSet(<<>>) = {}
    BY DEF ToSet
  <2>3. QED
    BY <1>1, <2>1, <2>2
<1>3. /\ Len(toks) >= 2 /\ \E i \in DOMAIN Specs : toks[1] \in Specs[i].name
      /\ toks[2] \notin Known(toks[1])
      /\ ToSet(r) = {join([toks EXCEPT ![2] = w]) :
                       w \in {k \in Known(toks[1]) : Near(toks[2], k)}}
  BY <1>1, <1>2, TypoProposes
<1>4. PICK k \in Known(toks[1]) : Near(toks[2], k) /\ c = join([toks EXCEPT ![2] = k])
  BY <1>1, <1>3
<1> DEFINE specs == {i \in DOMAIN Specs : toks[1] \in Specs[i].name}
<1>5. PICK i \in DOMAIN Specs : /\ toks[1] \in Specs[i].name /\ i = Smallest(specs)
                              /\ \A j \in 1 .. i - 1 : toks[1] \notin Specs[j].name
  <2>1. specs \in SUBSET Nat /\ specs # {} /\ \A j \in specs : j \in DOMAIN Specs /\ toks[1] \in Specs[j].name
    BY <1>3, CorrectionAssumption
  <2>2. Smallest(specs) \in specs /\ \A j \in specs : Smallest(specs) <= j
    <3> HIDE DEF specs
    <3>1. QED
      BY <2>1, SmallestNat
  <2>3. PICK i \in DOMAIN Specs : i = Smallest(specs)
    BY <2>1, <2>2
  <2>4. \A j \in 1 .. i - 1 : j \in DOMAIN Specs /\ ~(i <= j)
    <3>1. PICK X : Specs \in Seq(X)
      BY CorrectionAssumption
    <3>2. PICK n \in Nat : DOMAIN Specs = 1 .. n
      BY <3>1
    <3>3. i \in 1 .. n
      BY <3>2
    <3>4. QED
      BY <3>2, <3>3
  <2>5. \A j \in 1 .. i - 1 : toks[1] \notin Specs[j].name
    <3>1. SUFFICES ASSUME NEW j \in 1 .. i - 1, toks[1] \in Specs[j].name PROVE FALSE
      OBVIOUS
    <3>2. j \in specs /\ ~(i <= j)
      BY <2>4, <3>1
    <3> HIDE DEF specs
    <3>3. QED
      BY <2>2, <2>3, <3>2
  <2>6. toks[1] \in Specs[i].name
    <3>1. i \in specs
      BY <2>2, <2>3, Zenon
    <3>2. QED
      BY <3>1
  <2> HIDE DEF specs
  <2>7. QED
    BY <2>3, <2>5, <2>6
<1>6. PICK s : s = Specs[i]
  OBVIOUS
<1>7. Known(toks[1]) = UNION s.subcommands
  BY <1>5, <1>6 DEF Known
<1>8. k \in String /\ toks[2] \in String
  <2>1. s \in [name : SUBSET String, subcommands : SUBSET SUBSET String]
    <3>1. PICK X : X = [name : SUBSET String, subcommands : SUBSET SUBSET String]
      OBVIOUS
    <3>2. Specs \in Seq(X)
      BY <3>1, CorrectionAssumption
    <3>3. Specs[i] \in X
      BY <1>5, <3>2
    <3>4. QED
      BY <1>6, <3>1, <3>3
  <2>2. s.subcommands \in SUBSET SUBSET String
    BY <2>1
  <2>3. k \in String
    BY <1>4, <1>7, <2>2
  <2>4. QED
    BY <1>3, <2>3
<1>9. k # toks[2] /\ AtMostTwoEdits(toks[2], k)
  BY <1>4, <1>8, NearIsTwoEdits
<1>10. Respelled(x.command, 2, k)
  BY <1>4, <1>9 DEF Respelled
<1>11. SubcommandJustified(x)
  BY <1>3, <1>4, <1>5, <1>6, <1>7, <1>10 DEF SubcommandJustified
<1>12. QED
  BY <1>11, CorrectionAssumption DEF Justified

LEMMA NativeGhost ==
    ASSUME Inv, Data, GhostInv, RunNative
    PROVE  GhostInv'
<1>1. Steady /\ Rule.native /\ UNCHANGED <<ever, always>>
  BY DEF Steady, Inv, RunNative, Evaluating, envVars
<1>2. PICK toks \in Seq(String) : toks = tokens(ctx.script)
  BY <1>1, RequestFacts DEF Data
<1>3. ctx' = ctx
  BY <1>1 DEF Steady
<1>4. PICK r : r = Rule
  OBVIOUS
<1>5. CASE Walk("exists") /\ UNCHANGED <<at, made>>
  <2>1. pc' = "exists" /\ dir' = 1
    BY <1>5 DEF Walk
  <2>2. WalkInv'
    BY <2>1 DEF WalkInv
  <2>3. QED
    BY <1>1, <1>5, <2>1, <2>2, WalkGhost
<1>6. CASE toks = <<>> /\ Propose(<<>>)
  <2>1. ~NeverResolved'
    BY <1>2, <1>3, <1>6 DEF NeverResolved
  <2>2. Complete(r)'
    BY <2>1 DEF Complete
  <2>3. QED
    BY <1>1, <1>4, <1>6, <2>2, NothingProposed
<1>7. CASE Rule.id = SubcommandTypo /\ Propose(subcommand_typo(toks))
  <2>1. Complete(r)'
    BY <1>4, <1>7, OtherRule, CorrectionAssumption
  <2>2. ASSUME NEW c \in ToSet(subcommand_typo(toks))
        PROVE  Justified([command |-> c, rule_id |-> Rule.id, priority |-> Rule.priority])
    <3>1. PICK x : x = [command |-> c, rule_id |-> Rule.id, priority |-> Rule.priority]
      OBVIOUS
    <3>2. x.command = c /\ x.rule_id = SubcommandTypo
      BY <1>7, <3>1
    <3>3. Justified(x)
      BY <1>2, <3>2, TypoJustified
    <3>4. QED
      BY <3>1, <3>3
  <2>3. QED
    BY <1>1, <1>4, <1>7, <2>1, <2>2, ProposeGhost
<1>8. CASE Fail("UnknownNativeRule") /\ UNCHANGED <<at, made>>
  BY <1>1, <1>8, WalkGhost DEF Fail
<1>9. QED
  BY <1>2, <1>5, <1>6, <1>7, <1>8 DEF RunNative

LEMMA JsonGhost ==
    ASSUME Inv, GhostInv, RunJson
    PROVE  GhostInv'
<1>1. Steady /\ ~Rule.native /\ UNCHANGED <<ever, always>>
  BY DEF Steady, Inv, RunJson, Evaluating, envVars
<1>2. CASE Fail("InvalidRegex") /\ UNCHANGED <<at, made>>
  BY <1>1, <1>2, WalkGhost DEF Fail
<1>3. CASE Propose(<<>>)
  BY <1>1, <1>3, JsonProposes
<1>4. CASE Walk("exists") /\ UNCHANGED <<at, made>>
  <2>1. pc' = "exists" /\ dir' = 1
    BY <1>4 DEF Walk
  <2>2. WalkInv'
    BY <2>1 DEF WalkInv
  <2>3. QED
    BY <1>1, <1>4, <2>1, <2>2, WalkGhost
<1>5. CASE Rewrite
  BY <1>1, <1>5, RewriteGhost
<1>6. QED
  BY <1>2, <1>3, <1>4, <1>5 DEF RunJson

\* A look at a directory: what it holds is what was there at this moment.
LEMMA HoldingFacts ==
    ASSUME NEW p, NEW d, NEW n, NEW k
    PROVE  <<d, n, k>> \in Holding(p) <=> d \in PathDirs /\ n \in Names /\ k = p[d][n]
BY DEF Holding

LEMMA ExistsGhost ==
    ASSUME Inv, Data, GhostInv, Exists
    PROVE  GhostInv'
<1>1. Steady /\ UNCHANGED <<ever, always>> /\ pc = "exists"
  BY DEF Steady, Inv, RuleInv, Exists, envVars
<1>2. PICK r : r = Rule
  OBVIOUS
<1>3. ctx' = ctx /\ rules' = rules /\ path' = path
  BY <1>1 DEF Steady
<1>4. dir \in Nat /\ 1 <= dir /\ dir <= Dirs + 1 /\ Dirs \in Nat
  BY CorrectionAssumption DEF Inv, ControlOK
<1>5. PICK base : base = tokens(ctx.script)[1]
  OBVIOUS
<1>6. /\ always \subseteq Holding(path) /\ Holding(path) \subseteq ever
      /\ Rule.native => \A d \in 1 .. dir - 1, k \in Resolvable : <<d, base, k>> \notin always
  BY <1>1, <1>5 DEF GhostInv, WalkInv
<1>7. ASSUME Rule.native, dir <= Dirs, exists_in(dir, base), Propose(<<>>)
      PROVE  GhostInv'
  <2>1. dir \in PathDirs /\ base \in Names /\ path[dir][base] \in Resolvable
    BY <1>4, <1>7 DEF PathDirs, exists_in, Resolvable
  <2>2. <<dir, base, path[dir][base]>> \in ever'
    BY <1>1, <1>6, <2>1, HoldingFacts
  <2>3. ~NeverResolved'
    BY <1>3, <1>5, <2>1, <2>2 DEF NeverResolved
  <2>4. Complete(r)'
    BY <2>3 DEF Complete
  <2>5. QED
    BY <1>1, <1>2, <1>7, <2>4, NothingProposed
<1>8. CASE ~Rule.native /\ Rewrite
  BY <1>1, <1>8, RewriteGhost
<1>9. ASSUME dir <= Dirs, Rule.native => ~exists_in(dir, base), dir' = dir + 1,
             UNCHANGED <<pc, at, listed, made>>
      PROVE  GhostInv'
  <2>1. Rule' = Rule /\ pc' = "exists" /\ dir' - 1 = dir
    BY <1>1, <1>3, <1>4, <1>9 DEF Rule
  <2>2. ASSUME Rule.native, NEW d \in 1 .. dir, NEW k \in Resolvable
        PROVE  <<d, base, k>> \notin always'
    <3>1. CASE d = dir
      <4>1. SUFFICES ASSUME <<d, base, k>> \in always PROVE FALSE
        BY <1>1
      <4>2. base \in Names /\ path[dir][base] = k
        BY <1>6, <3>1, <4>1, HoldingFacts
      <4>3. base # <<>> /\ ~Contains(base, Slash)
        BY <4>2, CorrectionAssumption
      <4>4. exists_in(dir, base)
        BY <4>2, <4>3 DEF exists_in, Resolvable
      <4>5. QED
        BY <1>9, <2>2, <4>4
    <3>2. CASE d # dir
      <4>1. d \in 1 .. dir - 1
        BY <1>4, <3>2
      <4>2. QED
        BY <1>1, <1>6, <2>2, <4>1
    <3>3. QED
      BY <3>1, <3>2
  <2>3. WalkInv'
    BY <1>3, <1>5, <2>1, <2>2 DEF WalkInv
  <2>4. QED
    BY <1>1, <1>9, <2>1, <2>3, WalkGhost
<1>10. ASSUME ~(dir <= Dirs), Rule.native, Walk("list"), UNCHANGED <<at, made>>
       PROVE  GhostInv'
  <2>1. pc' = "list" /\ dir' = 1 /\ (\A n \in Names : listed'[n] = 0) /\ dir - 1 = Dirs
    BY <1>4, <1>10 DEF Walk
  <2>2. Rule' = Rule
    BY <1>3, <1>10 DEF Rule
  <2>3. \A d \in 1 .. Dirs, k \in Resolvable : <<d, base, k>> \notin always'
    BY <1>1, <1>6, <1>10, <2>1
  <2>4. \A n \in Names : ~(listed'[n] > 0) /\ \A d \in 1 .. dir' - 1 : FALSE
    BY <2>1
  <2>5. WalkInv'
    BY <1>3, <1>5, <2>1, <2>2, <2>3, <2>4 DEF WalkInv
  <2>6. QED
    BY <1>1, <1>10, <2>1, <2>5, WalkGhost
<1>11. CASE ~Rule.native /\ Propose(<<>>)
  BY <1>1, <1>11, JsonProposes
<1>12. QED
  BY <1>5, <1>7, <1>8, <1>9, <1>10, <1>11 DEF Exists

\* What no_command proposes is justified.
LEMMA NameJustified ==
    ASSUME Data, GhostInv, pc = "list", Rule.native, NEW toks \in Seq(String),
           toks = tokens(ctx.script), toks # <<>>, NEW n \in Names, listed[n] > 0,
           Near(toks[1], n), NEW x, x.command = join([toks EXCEPT ![1] = n]), x.rule_id = NoCommand
    PROVE  Justified(x)
<1>1. /\ \A d \in 1 .. Dirs, k \in Resolvable : <<d, toks[1], k>> \notin always
      /\ \E d \in PathDirs : <<d, n, "exec">> \in ever
  BY DEF GhostInv, WalkInv
<1>2. n \in String /\ toks[1] \in String
  BY CorrectionAssumption
<1>3. n # toks[1] /\ AtMostTwoEdits(toks[1], n)
  BY <1>2, NearIsTwoEdits
<1>4. Respelled(x.command, 1, n)
  BY <1>3 DEF Respelled
<1>5. CommandJustified(x)
  BY <1>1, <1>4 DEF CommandJustified, PathDirs
<1>6. QED
  BY <1>5, CorrectionAssumption DEF Justified

LEMMA ListGhost ==
    ASSUME Inv, Data, GhostInv, List
    PROVE  GhostInv'
<1>1. /\ Steady /\ Rule.native /\ Rule.id = NoCommand /\ UNCHANGED <<ever, always>>
      /\ pc = "list" /\ tokens(ctx.script) # <<>> /\ listed \in [Names -> 0 .. Dirs]
  BY DEF Steady, Inv, RuleInv, List, envVars, Data, DataInv, TypeOK
<1>2. PICK r : r = Rule
  OBVIOUS
<1>3. ctx' = ctx /\ rules' = rules /\ path' = path
  BY <1>1 DEF Steady
<1>4. dir \in Nat /\ 1 <= dir /\ dir <= Dirs + 1 /\ Dirs \in Nat
  BY CorrectionAssumption DEF Inv, ControlOK
<1>5. PICK toks \in Seq(String) : toks = tokens(ctx.script)
  BY <1>1, RequestFacts DEF Data
<1>6. /\ always \subseteq Holding(path) /\ Holding(path) \subseteq ever
      /\ \A d \in 1 .. Dirs, k \in Resolvable : <<d, toks[1], k>> \notin always
      /\ \A n \in Names :
           /\ listed[n] > 0 => \E d \in PathDirs : <<d, n, "exec">> \in ever
           /\ \A d \in 1 .. dir - 1 : <<d, n, "exec">> \in always => listed[n] > 0
  BY <1>1, <1>5 DEF GhostInv, WalkInv
<1>7. CASE /\ dir <= Dirs /\ dir' = dir + 1 /\ UNCHANGED <<pc, at, made>>
           /\ listed' = [n \in Names |-> listed[n] + (IF n \in entries(dir) THEN 1 ELSE 0)]
  <2>1. Rule' = Rule /\ pc' = "list" /\ dir' - 1 = dir
    BY <1>1, <1>3, <1>4, <1>7 DEF Rule
  <2>2. ASSUME NEW n \in Names
        PROVE  /\ listed'[n] > 0 => \E d \in PathDirs : <<d, n, "exec">> \in ever'
               /\ \A d \in 1 .. dir : <<d, n, "exec">> \in always' => listed'[n] > 0
    <3>1. listed[n] \in Nat
      BY <1>1
    <3>2. listed'[n] = listed[n] + (IF n \in entries(dir) THEN 1 ELSE 0)
      BY <1>7
    <3>3. CASE n \in entries(dir)
      <4>1. path[dir][n] = "exec" /\ dir \in PathDirs
        BY <1>4, <1>7, <3>3 DEF entries, PathDirs
      <4>2. <<dir, n, "exec">> \in Holding(path)
        BY <4>1, HoldingFacts
      <4>3. listed'[n] > 0
        BY <3>1, <3>2, <3>3
      <4>4. QED
        BY <1>1, <1>6, <4>1, <4>2, <4>3
    <3>4. CASE n \notin entries(dir)
      <4>1. listed'[n] = listed[n]
        BY <3>1, <3>2, <3>4
      <4>2. <<dir, n, "exec">> \notin always
        BY <1>6, <3>4, HoldingFacts DEF entries
      <4>3. \A d \in 1 .. dir : d \in 1 .. dir - 1 \/ d = dir
        BY <1>4
      <4>4. QED
        BY <1>1, <1>6, <4>1, <4>2, <4>3
    <3>5. QED
      BY <3>3, <3>4
  <2>3. WalkInv'
    BY <1>1, <1>3, <1>5, <1>6, <2>1, <2>2 DEF WalkInv
  <2>4. QED
    BY <1>1, <1>7, <2>1, <2>3, WalkGhost
<1>8. CASE dir > Dirs /\ Propose(no_command(toks, listed))
  <2>1. listed \in [Names -> Nat]
    BY <1>1
  <2>2. PICK commands : commands = no_command(toks, listed)
    OBVIOUS
  <2>3. ToSet(commands) = {join([toks EXCEPT ![1] = n]) :
                             n \in {m \in Names : listed[m] > 0 /\ Near(toks[1], m)}}
    BY <1>1, <1>5, <2>1, <2>2, NoCommandProposes
  <2>4. ASSUME NEW c \in ToSet(commands)
        PROVE  Justified([command |-> c, rule_id |-> Rule.id, priority |-> Rule.priority])
    <3>1. PICK x : x = [command |-> c, rule_id |-> Rule.id, priority |-> Rule.priority]
      OBVIOUS
    <3>2. PICK n \in Names : listed[n] > 0 /\ Near(toks[1], n) /\ c = join([toks EXCEPT ![1] = n])
      BY <2>3
    <3>3. x.command = join([toks EXCEPT ![1] = n]) /\ x.rule_id = NoCommand
      BY <1>1, <3>1, <3>2
    <3>4. Justified(x)
      BY <1>1, <1>5, <3>2, <3>3, NameJustified
    <3>5. QED
      BY <3>1, <3>4
  <2>5. Complete(r)'
    <3>1. SUFFICES ASSUME NEW d \in PathDirs, NEW n \in Names, <<d, n, "exec">> \in always,
                          Near(toks[1], n)
                   PROVE  Instead(r, n)' \in made'
      BY <1>1, <1>3, <1>5 DEF Complete
    <3>2. d \in 1 .. dir - 1
      BY <1>4, <1>8 DEF PathDirs
    <3>3. listed[n] > 0
      BY <1>6, <3>1, <3>2
    <3>4. join([toks EXCEPT ![1] = n]) \in ToSet(commands)
      BY <2>3, <3>1, <3>3
    <3>5. Instead(r, n)' \in From(commands)
      BY <1>2, <1>3, <1>5, <3>4 DEF Instead, From
    <3>6. made' = made \cup From(commands)
      BY <1>8, <2>2 DEF Propose, From
    <3>7. QED
      BY <3>5, <3>6
  <2>6. QED
    BY <1>1, <1>2, <1>8, <2>2, <2>4, <2>5, ProposeGhost
<1>9. QED
  BY <1>5, <1>7, <1>8 DEF List

\* Steps of the environment, and none.
LEMMA AroundGhost ==
    ASSUME GhostInv, Later, UNCHANGED <<rules, pc, ctx, at, dir, listed, made>>,
           pc # "idle" => (always \subseteq Holding(path) /\ Holding(path) \subseteq ever)'
    PROVE  GhostInv'
<1>1. ever \subseteq ever' /\ always' \subseteq always /\ Rule' = Rule
  BY DEF Later, Rule
<1>2. WalkInv => WalkInv'
  BY <1>1 DEF WalkInv
<1>3. pc' \in {"exists", "list"} => WalkInv'
  BY <1>2 DEF GhostInv
<1>4. QED
  BY <1>3, StayGhost

LEMMA ChangeGhost ==
    ASSUME GhostInv, NEW d \in PathDirs, NEW n \in Names, NEW k \in Kinds, Change(d, n, k)
    PROVE  GhostInv'
<1>1. /\ UNCHANGED <<rules, pc, ctx, at, dir, listed, made>>
      /\ ever' = ever \cup Holding(path') /\ always' = always \cap Holding(path')
  BY DEF Change
<1>2. Later
  BY <1>1 DEF Later
<1>3. always' \subseteq Holding(path') /\ Holding(path') \subseteq ever'
  BY <1>1
<1>4. QED
  BY <1>1, <1>2, <1>3, AroundGhost

LEMMA FinishGhost ==
    ASSUME Inv, GhostInv, Finish
    PROVE  GhostInv'
<1>1. /\ UNCHANGED <<rules, ctx, at, path, made, ever, always>> /\ pc = "rule" /\ pc' = "done"
  BY DEF Finish, ghosts, envVars
<1>2. Later
  BY <1>1 DEF Later
<1>3. always' \subseteq Holding(path') /\ Holding(path') \subseteq ever'
  BY <1>1 DEF GhostInv
<1>4. QED
  BY <1>1, <1>2, <1>3, StayGhost

LEMMA NextGhost == Inv /\ Data /\ GhostInv /\ [Next]_vars => GhostInv'
<1>1. SUFFICES ASSUME Inv, Data, GhostInv, [Next]_vars PROVE GhostInv'
  OBVIOUS
<1>2. CASE UNCHANGED vars
  <2>1. UNCHANGED <<rules, pc, ctx, at, dir, listed, path, made, ever, always>>
    BY <1>2 DEF vars, ghosts, envVars
  <2>2. Later
    BY <2>1 DEF Later
  <2>3. pc # "idle" => always' \subseteq Holding(path') /\ Holding(path') \subseteq ever'
    BY <1>1, <2>1 DEF GhostInv
  <2>4. QED
    BY <1>1, <2>1, <2>2, <2>3, AroundGhost
<1>3. CASE Next
  BY <1>1, <1>3, CorrectGhost, NativeGhost, JsonGhost, ExistsGhost, ListGhost, FinishGhost,
     ChangeGhost DEF Next, Handle
<1>4. QED
  BY <1>1, <1>2, <1>3

LEMMA GhostInvariant == Spec => []GhostInv
<1>1. Init => GhostInv
  BY InitGhost
<1>2. QED
  BY <1>1, Invariant, DataInvariant, NextGhost, PTL DEF Spec

\* What the answer holds was proposed.
LEMMA AnswerProposed ==
    ASSUME Data, Answered
    PROVE  /\ answer.items \in Seq(Candidate) /\ BestOf(answer.items, Proposed)
           /\ \A i \in DOMAIN answer.items : answer.items[i] \in made
<1>1. /\ candidates \in Seq(Candidate) /\ ToSet(candidates) = Proposed
      /\ answer.items = Merged(candidates)
  BY DEF Data, TypeOK, DataInv
<1>2. PICK items : items = answer.items
  OBVIOUS
<1>3. items \in Seq(Candidate) /\ BestOf(items, Proposed)
  BY <1>1, <1>2, MergedBest
<1>4. ToSet(items) \subseteq Proposed
  BY <1>3 DEF BestOf
<1>5. \A i \in DOMAIN items : items[i] \in made
  BY <1>4 DEF ToSet, Proposed
<1>6. QED
  BY <1>2, <1>3, <1>5

\* What a native rule proposes is justified by what was on $PATH during the request,
\* however it changes between the directories of a walk: the named command was there
\* as an executable file at some moment and is at most two edits away, and the typed
\* one resolved in no directory all along; a subcommand is one of the first spec that
\* answers to the command, where the typed one is not (native.rs:48-143, resolver.rs:136-167).
THEOREM CorrectionNativeJustified == Spec => []NativeJustified
<1>1. Data /\ GhostInv => NativeJustified
  <2>1. SUFFICES ASSUME Data, GhostInv, Answered, NEW i \in DOMAIN answer.items
                 PROVE  Justified(answer.items[i])
    BY DEF NativeJustified
  <2>2. answer.items[i] \in made
    BY <2>1, AnswerProposed
  <2>3. QED
    BY <2>1, <2>2 DEF GhostInv
<1>2. QED
  BY <1>1, DataInvariant, GhostInvariant, PTL

-----------------------------------------------------------------------------
(* What is near is not missed *)

\* c is s with t behind it.
Whole(c, s, t) == c = s \o t

LEMMA WholeFacts ==
    ASSUME NEW T, NEW s \in Seq(T), NEW t \in Seq(T), NEW c, Whole(c, s, t)
    PROVE  /\ c \in Seq(T) /\ Len(c) = Len(s) + Len(t)
           /\ \A i \in 1 .. Len(s) : c[i] = s[i]
           /\ \A i \in 1 .. Len(t) : c[Len(s) + i] = t[i]
BY ConcatFacts DEF Whole

LEMMA WholeExists ==
    ASSUME NEW T, NEW s \in Seq(T), NEW t \in Seq(T)
    PROVE  \E c \in Seq(T) : Whole(c, s, t)
<1>1. PICK c : c = s \o t
  OBVIOUS
<1>2. c \in Seq(T)
  BY <1>1, ConcatFacts
<1>3. QED
  BY <1>1, <1>2 DEF Whole

LEMMA WholeOrder ==
    ASSUME NEW T, NEW s \in Seq(T), NEW t \in Seq(T), NEW u \in Seq(T),
           NEW x \in Seq(T), Whole(x, s, t), NEW y \in Seq(T), Whole(y, t, u),
           NEW v, Whole(v, x, u)
    PROVE  Whole(v, s, y)
<1>3. /\ Len(x) = Len(s) + Len(t)
      /\ \A i \in 1 .. Len(s) : x[i] = s[i]
      /\ \A i \in 1 .. Len(t) : x[Len(s) + i] = t[i]
  BY WholeFacts
<1>4. /\ Len(y) = Len(t) + Len(u)
      /\ \A i \in 1 .. Len(t) : y[i] = t[i]
      /\ \A i \in 1 .. Len(u) : y[Len(t) + i] = u[i]
  BY WholeFacts
<1>5. PICK w \in Seq(T) : Whole(w, s, y)
  BY WholeExists
<1>7. /\ v \in Seq(T) /\ Len(v) = Len(x) + Len(u)
      /\ \A i \in 1 .. Len(x) : v[i] = x[i]
      /\ \A i \in 1 .. Len(u) : v[Len(x) + i] = u[i]
  BY WholeFacts
<1>8. /\ w \in Seq(T) /\ Len(w) = Len(s) + Len(y)
      /\ \A i \in 1 .. Len(s) : w[i] = s[i]
      /\ \A i \in 1 .. Len(y) : w[Len(s) + i] = y[i]
  BY <1>5, WholeFacts
<1>9. PICK a, b, c \in Nat : a = Len(s) /\ b = Len(t) /\ c = Len(u)
  OBVIOUS
<1>10. Len(v) = a + b + c /\ Len(w) = a + b + c
  BY <1>3, <1>4, <1>7, <1>8, <1>9
<1>11. ASSUME NEW i \in 1 .. a + b + c PROVE v[i] = w[i]
  <2>1. CASE i <= a
    <3>1. i \in 1 .. a /\ i \in 1 .. a + b
      BY <1>9, <2>1
    <3>2. QED
      BY <1>3, <1>7, <1>8, <1>9, <3>1
  <2>2. CASE ~(i <= a) /\ i <= a + b
    <3>1. PICK j \in 1 .. b : i = a + j
      <4>1. i - a \in 1 .. b /\ i = a + (i - a)
        BY <1>9, <2>2
      <4>2. QED
        BY <4>1
    <3>2. i \in 1 .. a + b /\ j \in 1 .. b + c
      BY <1>9, <2>2, <3>1
    <3>3. v[i] = x[i] /\ x[i] = t[j]
      BY <1>3, <1>7, <1>9, <3>1, <3>2
    <3>4. w[i] = y[j] /\ y[j] = t[j]
      BY <1>4, <1>8, <1>9, <3>1, <3>2
    <3>5. QED
      BY <3>3, <3>4
  <2>3. CASE ~(i <= a + b)
    <3>1. PICK j \in 1 .. c : i = (a + b) + j
      <4>1. i - (a + b) \in 1 .. c /\ i = (a + b) + (i - (a + b))
        BY <1>9, <2>3
      <4>2. QED
        BY <4>1
    <3>2. b + j \in 1 .. b + c /\ i = a + (b + j)
      BY <1>9, <3>1
    <3>3. v[i] = u[j]
      BY <1>3, <1>7, <1>9, <3>1
    <3>4. w[i] = y[b + j] /\ y[b + j] = u[j]
      BY <1>4, <1>8, <1>9, <3>1, <3>2
    <3>5. QED
      BY <3>3, <3>4
  <2>4. QED
    BY <1>9, <2>1, <2>2, <2>3
<1>12. v = w
  BY <1>7, <1>8, <1>10, <1>11, SameSeq
<1>13. QED
  BY <1>5, <1>12

\* What stands before the same rest is the same where the whole is.
LEMMA SameRest ==
    ASSUME NEW T, NEW s \in Seq(T), NEW t \in Seq(T), NEW rest \in Seq(T),
           NEW x, Whole(x, s, rest), Whole(x, t, rest)
    PROVE  s = t
<1>1. Len(x) = Len(s) + Len(rest) /\ \A i \in 1 .. Len(s) : x[i] = s[i]
  BY WholeFacts
<1>2. Len(x) = Len(t) + Len(rest) /\ \A i \in 1 .. Len(t) : x[i] = t[i]
  BY WholeFacts
<1>3. Len(s) \in Nat /\ Len(t) \in Nat /\ Len(rest) \in Nat
  OBVIOUS
<1>4. Len(s) = Len(t)
  BY <1>1, <1>2, <1>3
<1>5. \A i \in 1 .. Len(s) : s[i] = t[i]
  BY <1>1, <1>2, <1>4
<1>6. QED
  BY <1>4, <1>5, SameSeq

\* x is head with glue and a word behind it.
Appended(x, head, glue, word, T) == \E c \in Seq(T) : Whole(c, head, glue) /\ Whole(x, c, word)

LEMMA SplitStep ==
    ASSUME NEW T, NEW a \in Seq(T), NEW rest \in Seq(T), NEW g \in Seq(T), NEW t \in Seq(T),
           NEW m \in Seq(T), Whole(m, rest, g), NEW more \in Seq(T), Whole(more, m, t),
           NEW c \in Seq(T), Whole(c, a, rest), NEW x, Appended(x, c, g, t, T)
    PROVE  Whole(x, a, more)
<1>1. PICK d \in Seq(T) : Whole(d, c, g) /\ Whole(x, d, t)
  BY DEF Appended
<1>2. Whole(d, a, m)
  BY <1>1, WholeOrder
<1>3. QED
  BY <1>1, <1>2, WholeOrder

\* The words before the rest of a script, and the script.
Splits(L, M, a, n, k, T) == \E rest \in Seq(T) : Whole(L[k], a, rest) /\ Whole(M[k], n, rest)

LEMMA WordsSplit ==
    ASSUME NEW T, NEW N \in Nat, NEW L, NEW M, NEW a \in Seq(T), NEW n \in Seq(T),
           NEW g \in Seq(T), NEW w, \A k \in 1 .. N : w[k] \in Seq(T),
           L[1] = a, M[1] = n,
           \A k \in 2 .. N : /\ L[k] \in Seq(T) /\ Appended(L[k], L[k - 1], g, w[k], T)
                             /\ M[k] \in Seq(T) /\ Appended(M[k], M[k - 1], g, w[k], T)
    PROVE  \A k \in 1 .. N : Splits(L, M, a, n, k, T)
<1> DEFINE bad == {k \in 1 .. N : ~Splits(L, M, a, n, k, T)}
<1>1. SUFFICES ASSUME bad # {} PROVE FALSE
  OBVIOUS
<1>2. bad \in SUBSET Nat
  OBVIOUS
<1>3. PICK k \in bad : \A j \in bad : k <= j
  <2> HIDE DEF bad
  <2>1. QED
    BY <1>1, <1>2, LeastNat
<1>4. k \in 1 .. N /\ ~Splits(L, M, a, n, k, T)
  BY <1>3
<1>5. k # 1
  <2>1. <<>> \in Seq(T) /\ Whole(a, a, <<>>) /\ Whole(n, n, <<>>)
    BY DEF Whole
  <2>2. Splits(L, M, a, n, 1, T)
    BY <2>1 DEF Splits
  <2>3. QED
    BY <1>4, <2>2
<1>6. k \in 2 .. N /\ k - 1 \in 1 .. N /\ ~(k <= k - 1)
  BY <1>4, <1>5
<1>7. Splits(L, M, a, n, k - 1, T)
  BY <1>3, <1>6
<1>8. PICK rest \in Seq(T) : Whole(L[k - 1], a, rest) /\ Whole(M[k - 1], n, rest)
  BY <1>7 DEF Splits
<1>9. PICK t \in Seq(T) : t = w[k]
  BY <1>4
<1>10. PICK c, d : c = L[k - 1] /\ d = M[k - 1]
  OBVIOUS
<1>11. c \in Seq(T) /\ d \in Seq(T)
  BY <1>8, <1>10, WholeFacts
<1>12. PICK x, y : x = L[k] /\ y = M[k]
  OBVIOUS
<1>13. Appended(x, c, g, t, T) /\ Appended(y, d, g, t, T)
  BY <1>6, <1>9, <1>10, <1>12
<1>14. PICK m \in Seq(T) : Whole(m, rest, g)
  BY WholeExists
<1>15. PICK more \in Seq(T) : Whole(more, m, t)
  BY WholeExists
<1>16. Whole(x, a, more) /\ Whole(y, n, more)
  <2>1. c \in Seq(T) /\ d \in Seq(T) /\ Whole(c, a, rest) /\ Whole(d, n, rest)
    BY <1>8, <1>10, <1>11
  <2>2. Whole(x, a, more)
    BY <1>13, <1>14, <1>15, <2>1, SplitStep
  <2>3. Whole(y, n, more)
    BY <1>13, <1>14, <1>15, <2>1, SplitStep
  <2>4. QED
    BY <2>2, <2>3
<1>17. Splits(L, M, a, n, k, T)
  BY <1>12, <1>16 DEF Splits
<1>18. QED
  BY <1>4, <1>17

\* The words of a script that is not empty, joined.
LEMMA JoinedWords ==
    ASSUME NEW toks \in Seq(String), NEW N \in Nat, N = Len(toks), N >= 1,
           NEW L, L = Joined(toks), NEW T, T = Letter
    PROVE  /\ L[1] = toks[1] /\ join(toks) = L[N]
           /\ \A k \in 2 .. N : L[k] \in Seq(T) /\ Appended(L[k], L[k - 1], <<Space>>, toks[k], T)
<1>1. /\ L \in [0 .. N -> String] /\ L[0] = <<>>
      /\ \A k \in 1 .. N : L[k] = L[k - 1] \o Glue(k) \o toks[k]
  BY JoinedFacts
<1>2. toks[1] \in String /\ 1 \in 1 .. N
  OBVIOUS
<1>3. Glue(1) = <<>> /\ 1 - 1 = 0
  BY DEF Glue
<1>4. L[1] = <<>> \o <<>> \o toks[1]
  BY <1>1, <1>2, <1>3
<1>5. String = Seq(T) /\ Space \in T /\ <<Space>> \in Seq(T)
  BY DEF String, Letter
<1>6. PICK t \in Seq(T) : t = toks[1]
  BY <1>2, <1>5
<1>7. <<>> \o <<>> \o t = t
  OBVIOUS
<1>8. ASSUME NEW k \in 2 .. N
      PROVE  L[k] \in Seq(T) /\ Appended(L[k], L[k - 1], <<Space>>, toks[k], T)
  <2>1. k \in 1 .. N /\ k \in 0 .. N /\ k - 1 \in 0 .. N /\ Glue(k) = <<Space>>
    BY DEF Glue
  <2>2. PICK x : x = L[k]
    OBVIOUS
  <2>3. PICK h \in Seq(T) : h = L[k - 1]
    BY <1>1, <1>5, <2>1
  <2>4. PICK g \in Seq(T) : g = <<Space>>
    BY <1>5
  <2>5. x \in Seq(T)
    BY <1>1, <1>5, <2>1, <2>2
  <2>6. x = h \o g \o toks[k]
    BY <1>1, <2>1, <2>2, <2>3, <2>4
  <2>7. PICK c \in Seq(T) : Whole(c, h, g)
    BY WholeExists
  <2>8. Whole(x, c, toks[k])
    BY <2>6, <2>7 DEF Whole
  <2>9. Appended(x, h, g, toks[k], T)
    BY <2>7, <2>8 DEF Appended
  <2>10. QED
    BY <2>2, <2>3, <2>4, <2>5, <2>9
<1>9. QED
  BY <1>4, <1>6, <1>7, <1>8 DEF join

\* The first word of a script stands before the rest of it, whatever it is.
LEMMA FirstWord ==
    ASSUME NEW toks \in Seq(String), toks # <<>>, NEW n \in String, NEW T, T = Letter
    PROVE  \E rest \in Seq(T) : /\ Whole(join(toks), toks[1], rest)
                                /\ Whole(join([toks EXCEPT ![1] = n]), n, rest)
<1>1. PICK N \in Nat : N = Len(toks) /\ N >= 1
  OBVIOUS
<1>2. PICK new : new = [toks EXCEPT ![1] = n]
  OBVIOUS
<1>3. /\ new \in Seq(String) /\ Len(new) = N
      /\ \A i \in 1 .. N : new[i] = IF i = 1 THEN n ELSE toks[i]
  <2>1. /\ [toks EXCEPT ![1] = n] \in Seq(String) /\ Len([toks EXCEPT ![1] = n]) = Len(toks)
        /\ \A i \in 1 .. Len(toks) : [toks EXCEPT ![1] = n][i] = IF i = 1 THEN n ELSE toks[i]
    BY WithFacts
  <2>2. /\ new \in Seq(String) /\ Len(new) = Len(toks)
        /\ \A i \in 1 .. Len(toks) : new[i] = IF i = 1 THEN n ELSE toks[i]
    BY ONLY <1>2, <2>1, Zenon
  <2>3. QED
    BY <1>1, <2>2
<1> new \in Seq(String)
  BY <1>3
<1>4. N = Len(new)
  BY <1>3
<1>5. PICK L : L = Joined(toks)
  OBVIOUS
<1>6. PICK M : M = Joined(new)
  OBVIOUS
<1>7. /\ L[1] = toks[1] /\ join(toks) = L[N]
      /\ \A k \in 2 .. N : L[k] \in Seq(T) /\ Appended(L[k], L[k - 1], <<Space>>, toks[k], T)
  BY <1>1, <1>5, JoinedWords
<1>8. /\ M[1] = new[1] /\ join(new) = M[N]
      /\ \A k \in 2 .. N : M[k] \in Seq(T) /\ Appended(M[k], M[k - 1], <<Space>>, new[k], T)
  BY <1>1, <1>4, <1>6, JoinedWords
<1>9. String = Seq(T) /\ Space \in T /\ <<Space>> \in Seq(T)
  BY DEF String, Letter
<1>10. PICK g \in Seq(T) : g = <<Space>>
  BY <1>9
<1>11. PICK a \in Seq(T) : a = toks[1]
  BY <1>1, <1>9
<1>12. n \in Seq(T) /\ \A k \in 1 .. N : toks[k] \in Seq(T)
  BY <1>1, <1>9
<1>13. L[1] = a /\ M[1] = n
  BY <1>1, <1>3, <1>7, <1>8, <1>11
<1>14. \A k \in 2 .. N : k \in 1 .. N /\ k # 1
  OBVIOUS
<1>15. \A k \in 2 .. N : /\ L[k] \in Seq(T) /\ Appended(L[k], L[k - 1], g, toks[k], T)
                         /\ M[k] \in Seq(T) /\ Appended(M[k], M[k - 1], g, toks[k], T)
  BY <1>3, <1>7, <1>8, <1>10, <1>14
<1>16. \A k \in 1 .. N : Splits(L, M, a, n, k, T)
  BY <1>12, <1>13, <1>15, WordsSplit
<1>17. N \in 1 .. N
  BY <1>1
<1>18. Splits(L, M, a, n, N, T)
  BY <1>16, <1>17
<1>19. \E rest \in Seq(T) : Whole(L[N], a, rest) /\ Whole(M[N], n, rest)
  BY <1>18 DEF Splits
<1>20. QED
  BY <1>2, <1>7, <1>8, <1>11, <1>19, Zenon

\* Another first word makes another script, and one that is not empty.
LEMMA OtherWordOtherScript ==
    ASSUME NEW toks \in Seq(String), toks # <<>>, NEW n \in String, n # <<>>, n # toks[1],
           NEW c, c = join([toks EXCEPT ![1] = n])
    PROVE  c # join(toks) /\ c # <<>>
<1>1. PICK T : T = Letter
  OBVIOUS
<1>2. PICK rest \in Seq(T) : Whole(join(toks), toks[1], rest) /\ Whole(c, n, rest)
  BY <1>1, FirstWord, Zenon
<1>3. toks[1] \in String /\ String = Seq(T)
  BY <1>1 DEF String, Letter
<1>4. PICK a \in Seq(T) : a = toks[1]
  BY <1>3
<1>5. n \in Seq(T)
  BY <1>3
<1>6. PICK o : o = join(toks)
  OBVIOUS
<1>7. Whole(o, a, rest)
  BY <1>2, <1>4, <1>6
<1>8. c # o
  <2>1. SUFFICES ASSUME c = o PROVE FALSE
    OBVIOUS
  <2>2. Whole(o, n, rest)
    BY <1>2, <2>1
  <2>3. n = a
    BY <1>5, <1>7, <2>2, SameRest
  <2>4. QED
    BY <1>4, <2>3
<1>9. c # <<>>
  <2>1. Len(c) = Len(n) + Len(rest)
    BY <1>2, <1>5, WholeFacts
  <2>2. Len(n) \in Nat /\ Len(n) # 0 /\ Len(rest) \in Nat
    BY <1>5
  <2>3. Len(c) # 0
    BY <2>1, <2>2
  <2>4. QED
    BY <2>3
<1>10. QED
  BY <1>6, <1>8, <1>9

\* Of the origins of a command one is the best.
LEMMA BestOrigin ==
    ASSUME NEW P \in SUBSET Candidate, NEW x \in P
    PROVE  \E m \in P : /\ m.command = x.command /\ ~BetterOrigin(x, m)
                         /\ \A o \in P : o.command = m.command => ~BetterOrigin(o, m)
<1>1. PICK S \in SUBSET Candidate : S = {o \in P : o.command = x.command}
  OBVIOUS
<1>2. x \in S
  BY <1>1
<1>3. PICK ps : ps = {o.priority : o \in S}
  OBVIOUS
<1>4. \A o \in S : o.priority \in 0 .. 255 /\ o.rule_id \in Nat
  BY DEF Candidate
<1>5. ps \in SUBSET (0 .. 255) /\ ps # {}
  BY <1>2, <1>3, <1>4
<1>6. PICK p \in ps : \A q \in ps : p >= q
  BY <1>5, GreatestNat, 255 \in Nat
<1>7. PICK ids : ids = {o.rule_id : o \in {e \in S : e.priority = p}}
  OBVIOUS
<1>8. PICK e \in S : e.priority = p
  BY <1>3, <1>6
<1>9. ids \in SUBSET Nat /\ ids # {}
  BY <1>4, <1>7, <1>8
<1>10. PICK i \in ids : \A j \in ids : i <= j
  BY <1>9, LeastNat
<1>11. PICK m \in S : m.priority = p /\ m.rule_id = i
  BY <1>7, <1>10
<1>12. ASSUME NEW o \in S PROVE ~BetterOrigin(o, m)
  <2>1. o.priority \in ps /\ o.priority \in Nat /\ m.priority \in Nat
    BY <1>3, <1>4
  <2>2. m.priority >= o.priority
    BY <1>6, <1>11, <2>1
  <2>3. o.priority = m.priority => o.rule_id \in ids
    BY <1>7, <1>11
  <2>4. o.priority = m.priority => m.rule_id <= o.rule_id
    BY <1>10, <1>11, <2>3
  <2>5. o.rule_id \in Nat /\ m.rule_id \in Nat
    BY <1>4
  <2>6. QED
    BY <2>1, <2>2, <2>4, <2>5 DEF BetterOrigin
<1>13. m \in P /\ m.command = x.command
  BY <1>1, <1>11
<1>14. \A o \in P : o.command = m.command => o \in S
  BY <1>1, <1>13
<1>15. QED
  BY <1>2, <1>12, <1>13, <1>14

\* What was proposed is answered, or the limit cuts it.
LEMMA ProposedAnswered ==
    ASSUME NEW P \in SUBSET Candidate, NEW items \in Seq(Candidate), BestOf(items, P), NEW x \in P
    PROVE  \/ \E i \in DOMAIN items : items[i].command = x.command
           \/ Len(items) = Limit /\ \A i \in DOMAIN items : ByPriority(items[i], x)
<1>1. PICK m \in P : /\ m.command = x.command /\ ~BetterOrigin(x, m)
                     /\ \A o \in P : o.command = m.command => ~BetterOrigin(o, m)
  BY BestOrigin
<1>2. CASE m \in ToSet(items)
  <2>1. PICK i \in DOMAIN items : items[i] = m
    BY <1>2 DEF ToSet
  <2>2. QED
    BY <1>1, <2>1
<1>3. CASE m \notin ToSet(items)
  <2>1. Len(items) = Limit /\ \A i \in DOMAIN items : ByPriority(items[i], m)
    <3>1. PICK best : best = {b \in P : \A o \in P : o.command = b.command => ~BetterOrigin(o, b)}
      OBVIOUS
    <3>2. m \in best \ ToSet(items)
      BY <1>1, <1>3, <3>1
    <3>3. \A b \in best \ ToSet(items) :
            Len(items) = Limit /\ \A i \in DOMAIN items : ByPriority(items[i], b)
      BY <3>1 DEF BestOf
    <3>4. QED
      BY <3>2, <3>3
  <2>2. ASSUME NEW i \in DOMAIN items PROVE ByPriority(items[i], x)
    <3>1. PICK a \in Candidate : a = items[i]
      OBVIOUS
    <3>2. m \in Candidate /\ x \in Candidate
      OBVIOUS
    <3>3. ByPriority(a, m)
      BY <2>1, <3>1
    <3>4. CASE BetterOrigin(m, x)
      <4>1. <<a, m>> \in RankOrder /\ <<m, x>> \in RankOrder
        BY <3>2, <3>3, <3>4 DEF RankOrder, ByPriority
      <4>2. <<a, x>> \in RankOrder
        BY <3>2, <4>1, RankOrderStrict DEF StrictOrder
      <4>3. QED
        BY <3>1, <4>2 DEF RankOrder
    <3>5. CASE ~BetterOrigin(m, x)
      <4>1. m.priority = x.priority /\ m.rule_id = x.rule_id
        BY <1>1, <3>2, <3>5, OriginFacts
      <4>2. m = x
        BY <1>1, <3>2, <4>1, CandidateFacts, Zenon
      <4>3. QED
        BY <3>1, <3>3, <4>2
    <3>6. QED
      BY <3>4, <3>5
  <2>3. QED
    BY <2>1, <2>2
<1>4. QED
  BY <1>2, <1>3

\* What a native rule had to propose is answered, or the limit cuts it.
LEMMA NearAnswered ==
    ASSUME Inv, Data, GhostInv, Answered, NEW r \in ToSet(rules), NEW d \in PathDirs,
           NEW n \in Names, r.native, r.id = NoCommand, NeverResolved,
           <<d, n, "exec">> \in always, NEW x, x = Instead(r, n), Respelled(x.command, 1, n)
    PROVE  x \in Proposed
<1>1. PICK toks \in Seq(String) : toks = tokens(ctx.script)
  <2>1. pc # "idle"
    BY DEF Answered
  <2>2. ctx \in Requests
    BY <2>1 DEF Data, DataInv
  <2>3. ctx.script \in String
    BY <2>2, CorrectionAssumption DEF Scripts
  <2>4. QED
    BY <2>3, TokensType
<1>2. toks # <<>>
  BY <1>1 DEF NeverResolved
<1>3. n \in String /\ n # <<>>
  BY CorrectionAssumption
<1>4. x.command = join([toks EXCEPT ![1] = n])
  BY <1>1 DEF Instead
<1>5. n # toks[1] /\ AtMostTwoEdits(toks[1], n)
  BY <1>1 DEF Respelled
<1>6. toks[1] \in String
  BY <1>2
<1>7. Near(toks[1], n)
  BY <1>3, <1>5, <1>6, NearIsTwoEdits
<1>8. x \in made
  <2>1. PICK i \in DOMAIN rules : rules[i] = r
    BY DEF ToSet
  <2>2. pc = "done" /\ at = Len(rules) + 1 /\ rules \in Seq(Rules)
    BY CorrectionAssumption DEF Answered, Inv, RuleInv, ControlOK
  <2>3. i \in 1 .. at - 1
    BY <2>1, <2>2
  <2>4. Complete(rules[i])
    BY <2>2, <2>3 DEF GhostInv
  <2>5. Complete(r)
    BY <2>1, <2>4
  <2>6. Instead(r, n) \in made
    BY <1>1, <1>7, <2>5 DEF Complete
  <2>7. QED
    BY <2>6
<1>9. PICK c : c = x.command
  OBVIOUS
<1>10. c # join(toks) /\ c # <<>>
  BY <1>2, <1>3, <1>4, <1>5, <1>9, OtherWordOtherScript
<1>11. QED
  BY <1>1, <1>8, <1>9, <1>10 DEF Proposed, normalized_original

\* No command that is near is missed although $PATH may change while it is walked:
\* what was an executable file on it at every moment of the request and is at most
\* two edits from the typed command, which never resolved, is answered, or the limit
\* cuts it (native.rs:55-77, resolver.rs:149-167, mod.rs:345).
THEOREM CorrectionNearestNotMissed == Spec => []NearestNotMissed
<1>1. Inv /\ Data /\ GhostInv => NearestNotMissed
  <2>1. SUFFICES ASSUME Inv, Data, GhostInv, Answered, NEW r \in ToSet(rules),
                        NEW d \in PathDirs, NEW n \in Names, r.native, r.id = NoCommand,
                        NeverResolved, <<d, n, "exec">> \in always,
                        NEW x, x = Instead(r, n), Respelled(x.command, 1, n)
                 PROVE  \/ \E i \in DOMAIN answer.items : answer.items[i].command = x.command
                        \/ /\ Len(answer.items) = Limit
                           /\ \A i \in DOMAIN answer.items : ByPriority(answer.items[i], x)
    BY Zenon DEF NearestNotMissed
  <2>2. x \in Proposed
    BY <2>1, NearAnswered
  <2>3. PICK items : items = answer.items
    OBVIOUS
  <2>4. items \in Seq(Candidate) /\ BestOf(items, Proposed)
    BY <2>1, <2>3, AnswerProposed
  <2>5. Proposed \in SUBSET Candidate
    BY <2>1 DEF Data, DataInv, Proposed
  <2>6. \/ \E i \in DOMAIN items : items[i].command = x.command
        \/ Len(items) = Limit /\ \A i \in DOMAIN items : ByPriority(items[i], x)
    BY <2>2, <2>4, <2>5, ProposedAnswered
  <2>7. QED
    BY <2>3, <2>6
<1>2. QED
  BY <1>1, Invariant, DataInvariant, GhostInvariant, PTL

-----------------------------------------------------------------------------
(* The measure of a request *)

\* The next rule is farther than any place of the one before it.
LEMMA NextRuleFarther ==
    ASSUME NEW n \in Nat
    PROVE  /\ n * (2 * Dirs + 4) \in Nat
           /\ (n + 1) * (2 * Dirs + 4) = n * (2 * Dirs + 4) + 2 * Dirs + 4
<1>1. PICK k \in Nat : k = 2 * Dirs + 4
  BY CorrectionAssumption
<1>2. n * k \in Nat /\ (n + 1) * k = n * k + k
  OBVIOUS
<1>3. QED
  BY <1>1, <1>2, CorrectionAssumption

\* Every step of the engine on a request gets farther, and no other step touches it
\* unless it changes $PATH.
LEMMA StepAdvances ==
    ASSUME Inv, Next, pc \notin {"idle", "done"}
    PROVE  Progress' > Progress \/ (Progress' = Progress /\ path' # path)
<1>1. /\ ControlOK /\ at \in Nat /\ Dirs \in Nat /\ dir \in Nat /\ dir <= Dirs + 1
      /\ pc \in {"rule", "exists", "list"}
  <2>1. ControlOK
    BY DEF Inv
  <2>2. Len(rules) \in Nat
    BY <2>1, CorrectionAssumption DEF ControlOK
  <2>3. QED
    BY <2>1, <2>2, CorrectionAssumption DEF ControlOK
<1>2. PICK b \in Nat : b = at * (2 * Dirs + 4) /\ (at + 1) * (2 * Dirs + 4) = b + 2 * Dirs + 4
  BY <1>1, NextRuleFarther
<1>3. Progress = b + (IF pc = "rule" THEN 0 ELSE IF pc = "exists" THEN dir ELSE Dirs + 1 + dir)
  BY <1>1, <1>2 DEF Progress
<1>4. CASE at' = at + 1 /\ pc' = "rule"
  <2>1. Progress' = b + 2 * Dirs + 4
    <3>1. Progress' = at' * (2 * Dirs + 4) + 0
      BY <1>4 DEF Progress
    <3>2. QED
      BY <1>1, <1>2, <1>4, <3>1
  <2>2. QED
    BY <1>1, <1>3, <2>1
<1>5. CASE at' = at /\ pc' = "done"
  <2>1. Progress' = b + 2 * Dirs + 3
    <3>1. Progress' = at' * (2 * Dirs + 4) + (2 * Dirs + 3)
      BY <1>5 DEF Progress
    <3>2. QED
      BY <1>1, <1>2, <1>5, <3>1
  <2>2. QED
    BY <1>1, <1>3, <2>1
<1>6. CASE pc = "rule" /\ at' = at /\ pc' = "exists" /\ dir' = 1
  <2>1. Progress' = b + 1
    BY <1>2, <1>6 DEF Progress
  <2>2. QED
    BY <1>1, <1>3, <1>6, <2>1
<1>7. CASE pc \in {"exists", "list"} /\ at' = at /\ pc' = pc /\ dir' = dir + 1
  <2>1. Progress' = b + (IF pc = "exists" THEN dir + 1 ELSE Dirs + 1 + (dir + 1))
    BY <1>2, <1>7 DEF Progress
  <2>2. QED
    BY <1>1, <1>3, <1>7, <2>1
<1>8. CASE pc = "exists" /\ at' = at /\ pc' = "list" /\ dir' = 1
  <2>1. Progress' = b + (Dirs + 1 + 1)
    BY <1>2, <1>8 DEF Progress
  <2>2. QED
    BY <1>1, <1>3, <1>8, <2>1
<1>9. ASSUME NEW d \in PathDirs, NEW n \in Names, NEW k \in Kinds, Change(d, n, k)
      PROVE  Progress' = Progress /\ path' # path
  BY <1>9, ChangeInv DEF Change, Progress
<1>10. CASE RunNative
  BY <1>4, <1>5, <1>6, <1>10 DEF RunNative, Evaluating, Walk, Propose, Fail
<1>11. CASE RunJson
  BY <1>4, <1>5, <1>6, <1>11 DEF RunJson, Evaluating, Walk, Propose, Fail, Rewrite
<1>12. CASE Exists
  BY <1>4, <1>5, <1>7, <1>8, <1>12 DEF Exists, Walk, Propose, Fail, Rewrite
<1>13. CASE List
  BY <1>4, <1>7, <1>13 DEF List, Propose
<1>14. CASE Finish
  BY <1>5, <1>14 DEF Finish
<1>15. QED
  BY <1>9, <1>10, <1>11, <1>12, <1>13, <1>14 DEF Next, Handle, Correct

\* Every step on a request brings its answer nearer, by a measure that is bounded by
\* the number of rules and directories (correct/mod.rs:289-326).
THEOREM CorrectionAdvances == Spec => EveryStepAdvances
<1>1. Inv /\ [Next]_vars =>
        [pc \notin {"idle", "done"} =>
           Progress' > Progress \/ (Progress' = Progress /\ path' # path)]_vars
  BY StepAdvances
<1>2. QED
  BY <1>1, Invariant, PTL DEF Spec, EveryStepAdvances

=============================================================================

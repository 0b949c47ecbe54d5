---------------------------- MODULE SequenceLemmas ----------------------------
(***************************************************************************)
(* Facts about numbers and sequences that the proofs share. Induction is by  *)
(* the least counterexample, which LeastNat gives.                           *)
(***************************************************************************)
EXTENDS Selection, SequencesExt, FiniteSetTheorems, WellFoundedInduction, TLAPS

\* Every set of numbers has a least one.
LEMMA LeastNat ==
    ASSUME NEW S \in SUBSET Nat, S # {}
    PROVE  \E n \in S : \A m \in S : n <= m
<1>1. PICK n \in S : \A m \in S : ~(<<m, n>> \in OpToRel(<, Nat))
  BY NatLessThanWellFounded, WFMin
<1>2. \A m \in S : ~(m < n)
  BY <1>1 DEF OpToRel
<1>3. n \in Nat /\ \A m \in S : m \in Nat
  OBVIOUS
<1>4. \A m \in S : n <= m
  BY <1>2, <1>3
<1>5. QED
  BY <1>4

\* And a greatest one, if it is bounded.
LEMMA GreatestNat ==
    ASSUME NEW b \in Nat, NEW S \in SUBSET (0 .. b), S # {}
    PROVE  \E n \in S : \A m \in S : n >= m
<1> DEFINE T == {b - n : n \in S}
<1>1. T \in SUBSET Nat /\ T # {}
  <2>1. \A n \in S : b - n \in Nat
    OBVIOUS
  <2>2. PICK n : n \in S
    OBVIOUS
  <2>3. b - n \in T
    BY <2>2
  <2>4. QED
    BY <2>1, <2>3
<1>2. PICK t \in T : \A u \in T : t <= u
  BY <1>1, LeastNat
<1>3. PICK n \in S : t = b - n
  OBVIOUS
<1>4. \A m \in S : b - n <= b - m
  BY <1>2, <1>3
<1>5. \A m \in S : n >= m
  BY <1>4
<1>6. QED
  BY <1>5

\* The elements of a sequence with one more, and of two put together.
LEMMA AppendFacts ==
    ASSUME NEW S, NEW s \in Seq(S), NEW x \in S
    PROVE  /\ Append(s, x) \in Seq(S) /\ Len(Append(s, x)) = Len(s) + 1
           /\ Append(s, x)[Len(s) + 1] = x
           /\ \A i \in 1 .. Len(s) : Append(s, x)[i] = s[i]
OBVIOUS

LEMMA ConcatFacts ==
    ASSUME NEW S, NEW s \in Seq(S), NEW t \in Seq(S), NEW c, c = s \o t
    PROVE  /\ c \in Seq(S) /\ Len(c) = Len(s) + Len(t)
           /\ \A i \in 1 .. Len(s) : c[i] = s[i]
           /\ \A i \in 1 .. Len(t) : c[Len(s) + i] = t[i]
OBVIOUS

\* Two sequences of the same length with the same elements are equal.
LEMMA SameSeq ==
    ASSUME NEW S, NEW s \in Seq(S), NEW T, NEW t \in Seq(T), Len(s) = Len(t),
           \A i \in 1 .. Len(s) : s[i] = t[i]
    PROVE  s = t
OBVIOUS

\* A sequence of all elements of a set has just those.
LEMMA OrderSet ==
    ASSUME NEW S, IsFiniteSet(S), NEW order \in SetToSeqs(S)
    PROVE  ToSet(order) = S
<1>1. Cardinality(S) \in Nat
  BY FS_CardinalityType
<1>2. /\ order \in [1 .. Cardinality(S) -> S]
      /\ \A i, j \in 1 .. Cardinality(S) : i # j => order[i] # order[j]
  BY <1>1 DEF SetToSeqs, IsInjective
<1>3. ToSet(order) \subseteq S
  BY <1>2 DEF ToSet
<1>4. IsFiniteSet(1 .. Cardinality(S)) /\ Cardinality(1 .. Cardinality(S)) = Cardinality(S)
  BY <1>1, FS_Interval
<1>5. order \in Injection(1 .. Cardinality(S), S)
  BY <1>2 DEF Injection, IsInjective
<1>6. order \in Surjection(1 .. Cardinality(S), S)
  BY <1>4, <1>5, FS_Injection
<1>7. QED
  BY <1>2, <1>3, <1>6 DEF Surjection, ToSet

\* What a longer sequence has.
LEMMA AppendSet ==
    ASSUME NEW S, NEW s \in Seq(S), NEW x \in S
    PROVE  ToSet(Append(s, x)) = ToSet(s) \cup {x}
<1>1. /\ DOMAIN Append(s, x) = 1 .. Len(s) + 1 /\ DOMAIN s = 1 .. Len(s) /\ Len(s) \in Nat
      /\ Append(s, x)[Len(s) + 1] = x /\ \A i \in 1 .. Len(s) : Append(s, x)[i] = s[i]
  OBVIOUS
<1>2. \A i \in DOMAIN Append(s, x) : Append(s, x)[i] \in ToSet(s) \cup {x}
  BY <1>1 DEF ToSet
<1>3. x \in ToSet(Append(s, x)) /\ \A i \in DOMAIN s : s[i] \in ToSet(Append(s, x))
  BY <1>1 DEF ToSet
<1>4. QED
  BY <1>2, <1>3 DEF ToSet

\* The elements of two sequences put together.
LEMMA ConcatSet ==
    ASSUME NEW S, NEW s \in Seq(S), NEW t \in Seq(S)
    PROVE  /\ s \o t \in Seq(S) /\ ToSet(s \o t) = ToSet(s) \cup ToSet(t)
           /\ t # <<>> => s \o t # <<>> /\ (s \o t)[Len(s \o t)] = t[Len(t)]
<1>1. PICK c : c = s \o t
  OBVIOUS
<1>2. /\ c \in Seq(S) /\ Len(c) = Len(s) + Len(t) /\ Len(s) \in Nat /\ Len(t) \in Nat
      /\ \A i \in 1 .. Len(s) : c[i] = s[i]
      /\ \A i \in 1 .. Len(t) : c[Len(s) + i] = t[i]
  BY <1>1, ConcatFacts
<1>3. DOMAIN c = 1 .. Len(c) /\ DOMAIN s = 1 .. Len(s) /\ DOMAIN t = 1 .. Len(t)
  BY <1>2
<1>4. ToSet(c) \subseteq ToSet(s) \cup ToSet(t)
  <2>1. ASSUME NEW i \in DOMAIN c PROVE c[i] \in ToSet(s) \cup ToSet(t)
    <3>1. CASE i \in 1 .. Len(s)
      BY <1>2, <1>3, <3>1 DEF ToSet
    <3>2. CASE i \notin 1 .. Len(s)
      <4>1. i - Len(s) \in 1 .. Len(t) /\ Len(s) + (i - Len(s)) = i
        BY <1>2, <1>3, <3>2
      <4>2. c[i] = t[i - Len(s)]
        BY <1>2, <4>1
      <4>3. QED
        BY <1>3, <4>1, <4>2 DEF ToSet
    <3>3. QED
      BY <3>1, <3>2
  <2>2. QED
    BY <2>1 DEF ToSet
<1>5. ToSet(s) \cup ToSet(t) \subseteq ToSet(c)
  <2>1. \A i \in DOMAIN s : i \in DOMAIN c /\ c[i] = s[i]
    BY <1>2, <1>3
  <2>2. \A i \in DOMAIN t : Len(s) + i \in DOMAIN c /\ c[Len(s) + i] = t[i]
    BY <1>2, <1>3
  <2>3. QED
    BY <2>1, <2>2 DEF ToSet
<1>6. t # <<>> => c # <<>> /\ c[Len(c)] = t[Len(t)]
  <2>1. SUFFICES ASSUME t # <<>> PROVE c # <<>> /\ c[Len(c)] = t[Len(t)]
    OBVIOUS
  <2>2. Len(t) \in 1 .. Len(t)
    BY <1>2, <2>1
  <2>3. QED
    BY <1>2, <2>2
<1>7. QED
  BY <1>1, <1>2, <1>4, <1>5, <1>6

-----------------------------------------------------------------------------
(* Sorting *)

\* R orders the elements of S.
StrictOrder(S, R) ==
    /\ \A i \in S : <<i, i>> \notin R
    /\ \A i, j, k \in S : <<i, j>> \in R /\ <<j, k>> \in R => <<i, k>> \in R
    /\ \A i, j \in S : i # j => <<i, j>> \in R \/ <<j, i>> \in R

\* place lists them in that order, each once.
Lists(place, S, R) ==
    /\ place \in [1 .. Cardinality(S) -> S]
    /\ \A p, q \in 1 .. Cardinality(S) : p < q => <<place[p], place[q]>> \in R
    /\ \A i \in S : \E p \in 1 .. Cardinality(S) : place[p] = i

\* The elements before one.
Under(S, R, i) == {j \in S : <<j, i>> \in R}

\* How many they are tells the elements apart, and orders them.
LEMMA UnderFacts ==
    ASSUME NEW S, IsFiniteSet(S), NEW R, StrictOrder(S, R), NEW n, n = Cardinality(S)
    PROVE  /\ n \in Nat /\ \A i \in S : Cardinality(Under(S, R, i)) \in 0 .. n - 1
           /\ \A i, j \in S : <<i, j>> \in R =>
                Cardinality(Under(S, R, i)) < Cardinality(Under(S, R, j))
<1>1. n \in Nat
  BY FS_CardinalityType
<1>2. \A i : Under(S, R, i) \in SUBSET S
  BY DEF Under
<1>3. \A i : IsFiniteSet(Under(S, R, i)) /\ Cardinality(Under(S, R, i)) \in Nat
  BY <1>2, FS_Subset, FS_CardinalityType
<1>4. ASSUME NEW i \in S PROVE Cardinality(Under(S, R, i)) \in 0 .. n - 1
  <2>1. i \notin Under(S, R, i)
    BY DEF Under, StrictOrder
  <2>2. Under(S, R, i) # S
    BY <2>1
  <2>3. Cardinality(Under(S, R, i)) <= n /\ n # Cardinality(Under(S, R, i))
    BY <1>2, <2>2, FS_Subset
  <2>4. QED
    BY <1>1, <1>3, <2>3
<1>5. ASSUME NEW i \in S, NEW j \in S, <<i, j>> \in R
      PROVE  Cardinality(Under(S, R, i)) < Cardinality(Under(S, R, j))
  <2>1. Under(S, R, i) \in SUBSET Under(S, R, j)
    BY <1>5 DEF Under, StrictOrder
  <2>2. i \in Under(S, R, j) /\ i \notin Under(S, R, i)
    BY <1>5 DEF Under, StrictOrder
  <2>3. /\ Cardinality(Under(S, R, i)) <= Cardinality(Under(S, R, j))
        /\ Cardinality(Under(S, R, j)) # Cardinality(Under(S, R, i))
    BY <1>3, <2>1, <2>2, FS_Subset
  <2>4. QED
    BY <1>3, <2>3
<1>6. QED
  BY <1>1, <1>4, <1>5

\* So placing each element by that number lists them. Place p has the element with
\* p - 1 others before it, if there is one.
LEMMA RankLists ==
    ASSUME NEW S, IsFiniteSet(S), NEW R, StrictOrder(S, R),
           NEW place, place = [p \in 1 .. Cardinality(S) |-> place[p]],
           \A p \in 1 .. Cardinality(S) :
             (\E i \in S : Cardinality(Under(S, R, i)) = p - 1)
               => place[p] \in S /\ Cardinality(Under(S, R, place[p])) = p - 1
    PROVE  Lists(place, S, R)
<1> DEFINE n == Cardinality(S)
           U(i) == Cardinality(Under(S, R, i))
           rank == [i \in S |-> U(i) + 1]
<1>1. /\ n \in Nat /\ \A i \in S : U(i) \in 0 .. n - 1
      /\ \A i, j \in S : <<i, j>> \in R => U(i) < U(j)
  BY UnderFacts
<1>2. /\ place = [p \in 1 .. n |-> place[p]]
      /\ \A p \in 1 .. n : (\E i \in S : U(i) = p - 1) => place[p] \in S /\ U(place[p]) = p - 1
  OBVIOUS
<1> HIDE DEF U
<1>3. \A i \in S : U(i) \in Nat
  BY <1>1
<1>4. \A i, j \in S : i # j => U(i) # U(j)
  <2>1. SUFFICES ASSUME NEW i \in S, NEW j \in S, i # j PROVE U(i) # U(j)
    OBVIOUS
  <2>2. <<i, j>> \in R \/ <<j, i>> \in R
    BY <2>1 DEF StrictOrder
  <2>3. QED
    BY <1>1, <1>3, <2>2
<1>5. rank \in Injection(S, 1 .. n)
  <2>1. \A i \in S : U(i) + 1 \in 1 .. n
    BY <1>1
  <2>2. \A i, j \in S : i # j => U(i) + 1 # U(j) + 1
    BY <1>3, <1>4
  <2>3. QED
    BY <2>1, <2>2 DEF Injection, IsInjective
<1>6. IsFiniteSet(1 .. n) /\ Cardinality(1 .. n) = n
  <2>1. 1 \in Int /\ n \in Int
    BY <1>1
  <2>2. IsFiniteSet(1 .. n) /\ Cardinality(1 .. n) = IF 1 > n THEN 0 ELSE n - 1 + 1
    BY <2>1, FS_Interval, Zenon
  <2>3. QED
    BY <1>1, <2>2
<1>7. rank \in Surjection(S, 1 .. n)
  BY <1>5, <1>6, FS_Injection
<1>8. \A p \in 1 .. n : \E i \in S : U(i) = p - 1
  <2>1. SUFFICES ASSUME NEW p \in 1 .. n PROVE \E i \in S : U(i) = p - 1
    OBVIOUS
  <2>2. PICK i \in S : rank[i] = p
    BY <1>7 DEF Surjection
  <2>3. U(i) + 1 = p /\ U(i) \in Nat
    BY <1>3, <2>2
  <2>4. QED
    BY <1>1, <2>3
<1>9. \A p \in 1 .. n : place[p] \in S /\ U(place[p]) = p - 1
  BY <1>2, <1>8
<1>10. place \in [1 .. n -> S]
  BY <1>2, <1>9
<1> HIDE DEF rank
<1>11. ASSUME NEW p \in 1 .. n, NEW q \in 1 .. n, p < q PROVE <<place[p], place[q]>> \in R
  <2>0. PICK a, b : a = place[p] /\ b = place[q]
    OBVIOUS
  <2>1. a \in S /\ b \in S /\ U(a) = p - 1 /\ U(b) = q - 1 /\ p - 1 < q - 1
    <3>1. a \in S /\ b \in S /\ U(a) = p - 1 /\ U(b) = q - 1
      BY <1>9, <2>0
    <3>2. p - 1 < q - 1
      BY <1>1, <1>11
    <3>3. QED
      BY <3>1, <3>2
  <2>2. a # b
    BY <1>1, <2>1
  <2>3. ~(<<b, a>> \in R)
    <3>1. <<b, a>> \in R => U(b) < U(a)
      BY <1>1, <2>1
    <3>2. QED
      BY <1>1, <2>1, <3>1
  <2>4. QED
    BY <2>0, <2>1, <2>2, <2>3 DEF StrictOrder
<1>12. ASSUME NEW i \in S PROVE \E p \in 1 .. n : place[p] = i
  <2>1. U(i) + 1 \in 1 .. n /\ (U(i) + 1) - 1 = U(i)
    BY <1>1
  <2>2. place[U(i) + 1] \in S /\ U(place[U(i) + 1]) = U(i)
    BY <1>9, <2>1
  <2>3. place[U(i) + 1] = i
    BY <1>4, <2>2
  <2>4. QED
    BY <2>1, <2>3
<1>13. QED
  BY <1>10, <1>11, <1>12 DEF Lists

\* Ranked lists the elements of a set in a given order.
LEMMA RankedLists ==
    ASSUME NEW S, IsFiniteSet(S), NEW R, StrictOrder(S, R), NEW r, r = Ranked(S, R)
    PROVE  Lists(r, S, R) /\ r \in Seq(S) /\ Len(r) = Cardinality(S)
<1>1. PICK n \in Nat : n = Cardinality(S)
  BY FS_CardinalityType
<1>2. r = [p \in 1 .. n |-> CHOOSE x \in S : Cardinality(Under(S, R, x)) = p - 1]
  BY <1>1 DEF Ranked, Under
<1>3. r = [p \in 1 .. n |-> r[p]]
  BY <1>2
<1>4. ASSUME NEW p \in 1 .. n, \E i \in S : Cardinality(Under(S, R, i)) = p - 1
      PROVE  r[p] \in S /\ Cardinality(Under(S, R, r[p])) = p - 1
  <2>1. r[p] = CHOOSE x \in S : Cardinality(Under(S, R, x)) = p - 1
    BY <1>2
  <2>2. QED
    BY <1>4, <2>1, Zenon
<1>5. Lists(r, S, R)
  BY <1>1, <1>3, <1>4, RankLists
<1>6. QED
  BY <1>1, <1>5 DEF Lists

\* r has the elements of the sequence s, each as often, in the order R of their places.
Arranges(r, s, R) ==
    \E place : /\ Lists(place, DOMAIN s, R) /\ Len(r) = Len(s)
               /\ \A p \in 1 .. Len(s) : r[p] = s[place[p]]

LEMMA ArrangedBy ==
    ASSUME NEW S, NEW s \in Seq(S), NEW R, StrictOrder(DOMAIN s, R),
           NEW r, r = [p \in DOMAIN s |-> s[Ranked(DOMAIN s, R)[p]]]
    PROVE  r \in Seq(S) /\ Arranges(r, s, R)
<1>1. PICK n \in Nat : n = Len(s)
  OBVIOUS
<1>2. DOMAIN s = 1 .. n /\ \A i \in 1 .. n : s[i] \in S
  BY <1>1
<1>3. IsFiniteSet(1 .. n) /\ Cardinality(1 .. n) = n
  <2>1. 1 \in Int /\ n \in Int
    BY <1>1
  <2>2. IsFiniteSet(1 .. n) /\ Cardinality(1 .. n) = IF 1 > n THEN 0 ELSE n - 1 + 1
    BY <2>1, FS_Interval, Zenon
  <2>3. QED
    BY <1>1, <2>2
<1>4. PICK place : place = Ranked(DOMAIN s, R)
  OBVIOUS
<1>5. Lists(place, DOMAIN s, R)
  BY <1>2, <1>3, <1>4, RankedLists
<1>6. \A p \in 1 .. n : place[p] \in 1 .. n
  BY <1>2, <1>3, <1>5 DEF Lists
<1>7. r = [p \in 1 .. n |-> s[place[p]]]
  BY <1>2, <1>4
<1>8. \A p \in 1 .. n : r[p] = s[place[p]] /\ r[p] \in S
  BY <1>2, <1>6, <1>7
<1>9. r \in Seq(S) /\ Len(r) = n
  BY <1>7, <1>8
<1>10. QED
  BY <1>1, <1>5, <1>8, <1>9 DEF Arranges

\* Elements in the order B, and those that are equal in the order they had: the order
\* of places of a stable sort.
Stable(s, B) ==
    {x \in (DOMAIN s) \X (DOMAIN s) :
       \/ <<s[x[1]], s[x[2]]>> \in B
       \/ x[1] < x[2] /\ <<s[x[2]], s[x[1]]>> \notin B}

LEMMA StableOrder ==
    ASSUME NEW S, NEW s \in Seq(S), NEW B, StrictOrder(S, B)
    PROVE  /\ StrictOrder(DOMAIN s, Stable(s, B))
           /\ \A i, j \in DOMAIN s : <<i, j>> \in Stable(s, B) =>
                <<s[i], s[j]>> \in B \/ s[i] = s[j]
<1>1. \A i \in DOMAIN s : i \in Nat /\ s[i] \in S
  OBVIOUS
<1>2. \A i, j \in DOMAIN s : <<i, j>> \in Stable(s, B) <=>
        <<s[i], s[j]>> \in B \/ (i < j /\ <<s[j], s[i]>> \notin B)
  BY DEF Stable
<1>3. \A i, j \in DOMAIN s : s[i] # s[j] => <<s[i], s[j]>> \in B \/ <<s[j], s[i]>> \in B
  BY <1>1 DEF StrictOrder
<1>4. \A i, j \in DOMAIN s : s[i] = s[j] => <<s[i], s[j]>> \notin B
  BY <1>1 DEF StrictOrder
<1>5. \A i, j \in DOMAIN s : ~(<<s[i], s[j]>> \in B /\ <<s[j], s[i]>> \in B)
  BY <1>1 DEF StrictOrder
<1>6. \A i, j, k \in DOMAIN s : <<s[i], s[j]>> \in B /\ <<s[j], s[k]>> \in B => <<s[i], s[k]>> \in B
  BY <1>1 DEF StrictOrder
<1>7. \A i, j \in DOMAIN s : <<i, j>> \in Stable(s, B) <=>
        <<s[i], s[j]>> \in B \/ (i < j /\ s[i] = s[j])
  BY <1>2, <1>3, <1>4, <1>5
<1>8. \A i \in DOMAIN s : <<i, i>> \notin Stable(s, B)
  <2>1. \A i \in DOMAIN s : ~(i < i)
    BY <1>1
  <2>2. QED
    BY <1>4, <1>7, <2>1, Zenon
<1>9. ASSUME NEW i \in DOMAIN s, NEW j \in DOMAIN s, NEW k \in DOMAIN s,
             <<i, j>> \in Stable(s, B), <<j, k>> \in Stable(s, B)
      PROVE  <<i, k>> \in Stable(s, B)
  <2>1. i < j /\ j < k => i < k
    BY <1>1
  <2>2. QED
    BY <1>6, <1>7, <1>9, <2>1
<1>10. ASSUME NEW i \in DOMAIN s, NEW j \in DOMAIN s, i # j
       PROVE  <<i, j>> \in Stable(s, B) \/ <<j, i>> \in Stable(s, B)
  <2>1. i < j \/ j < i
    BY <1>1, <1>10
  <2>2. QED
    BY <1>3, <1>7, <2>1
<1>11. StrictOrder(DOMAIN s, Stable(s, B))
  BY <1>8, <1>9, <1>10 DEF StrictOrder
<1>12. QED
  BY <1>7, <1>11

-----------------------------------------------------------------------------
(* Filters *)

\* r holds the elements of s at the places K, place[p] being that of element p.
PicksFrom(s, K, r, place) ==
    /\ Len(r) = Cardinality(K) /\ Len(r) \in Nat
    /\ place \in [1 .. Len(r) -> K]
    /\ \A p \in 1 .. Len(r) : r[p] = s[place[p]]
    /\ \A p, q \in 1 .. Len(r) : p < q => place[p] < place[q]
    /\ \A i \in K : \E p \in 1 .. Len(r) : place[p] = i

LEMMA PickedPlaces ==
    ASSUME NEW S, NEW s \in Seq(S), NEW K \in SUBSET DOMAIN s
    PROVE  Picked(s, K) \in Seq(S) /\ \E place : PicksFrom(s, K, Picked(s, K), place)
<1>1. DOMAIN s = 1 .. Len(s) /\ Len(s) \in Nat /\ \A i \in K : s[i] \in S /\ i \in Nat
  OBVIOUS
<1>2. IsFiniteSet(K) /\ Cardinality(K) \in Nat
  <2>1. IsFiniteSet(1 .. Len(s))
    BY <1>1, FS_Interval
  <2>2. QED
    BY <1>1, <2>1, FS_Subset, FS_CardinalityType
<1>3. PICK n \in Nat : n = Cardinality(K)
  BY <1>2
<1> DEFINE R == {x \in K \X K : x[1] < x[2]}
           Less(i) == {j \in K : j < i}
           place == [p \in 1 .. n |-> CHOOSE i \in K : Cardinality(Less(i)) = p - 1]
           r == Picked(s, K)
<1>4. \A i, j \in K : <<i, j>> \in R <=> i < j
  OBVIOUS
<1> HIDE DEF R
<1>5. \A i \in K : Under(K, R, i) = Less(i)
  BY <1>4 DEF Under
<1>6. StrictOrder(K, R)
  <2>1. \A i, j, k \in K : /\ ~(i < i) /\ (i < j /\ j < k => i < k)
                           /\ i # j => i < j \/ j < i
    BY <1>1
  <2>2. QED
    BY <1>4, <2>1 DEF StrictOrder
<1>7. r = [p \in 1 .. n |-> s[place[p]]]
  BY <1>3 DEF Picked
<1>8. Lists(place, K, R)
  <2>1. ASSUME NEW p \in 1 .. n, NEW i \in K, Cardinality(Under(K, R, i)) = p - 1
        PROVE  place[p] \in K /\ Cardinality(Under(K, R, place[p])) = p - 1
    <3>1. Cardinality(Less(i)) = p - 1
      BY <1>5, <2>1
    <3> HIDE DEF Less
    <3>2. place[p] \in K /\ Cardinality(Less(place[p])) = p - 1
      BY <3>1
    <3> HIDE DEF place
    <3>3. QED
      BY <1>5, <3>2
  <2>2. place = [p \in 1 .. n |-> place[p]]
    <3> HIDE DEF Less
    <3>1. QED
      OBVIOUS
  <2> HIDE DEF place
  <2>3. QED
    BY <1>2, <1>3, <1>6, <2>1, <2>2, RankLists
<1> HIDE DEF place, r
<1>9. /\ place \in [1 .. n -> K]
      /\ \A p, q \in 1 .. n : p < q => place[p] < place[q]
      /\ \A i \in K : \E p \in 1 .. n : place[p] = i
  BY <1>3, <1>4, <1>8 DEF Lists
<1>10. r \in Seq(S) /\ Len(r) = n /\ \A p \in 1 .. n : r[p] = s[place[p]]
  <2>1. \A p \in 1 .. n : s[place[p]] \in S
    BY <1>1, <1>9
  <2>2. r \in [1 .. n -> S]
    BY <1>7, <2>1
  <2>3. QED
    BY <1>3, <1>7, <2>2
<1>11. PicksFrom(s, K, r, place)
  BY <1>3, <1>9, <1>10, Zenon DEF PicksFrom
<1>12. QED
  BY <1>10, <1>11 DEF r

\* The elements it holds, and the last of them.
LEMMA PickedSet ==
    ASSUME NEW S, NEW s \in Seq(S), NEW K \in SUBSET DOMAIN s, NEW r, r = Picked(s, K)
    PROVE  /\ r \in Seq(S) /\ ToSet(r) = {s[i] : i \in K}
           /\ \A m \in K : (\A i \in K : i <= m) => r # <<>> /\ r[Len(r)] = s[m]
<1>1. r \in Seq(S)
  BY PickedPlaces
<1>2. PICK place : PicksFrom(s, K, r, place)
  BY PickedPlaces
<1>3. /\ Len(r) \in Nat /\ DOMAIN r = 1 .. Len(r)
      /\ place \in [1 .. Len(r) -> K]
      /\ \A p \in 1 .. Len(r) : r[p] = s[place[p]]
      /\ \A p, q \in 1 .. Len(r) : p < q => place[p] < place[q]
      /\ \A i \in K : \E p \in 1 .. Len(r) : place[p] = i
  BY <1>1, <1>2 DEF PicksFrom
<1>4. ToSet(r) = {s[i] : i \in K}
  <2>1. \A x \in ToSet(r) : x \in {s[i] : i \in K}
    BY <1>3 DEF ToSet
  <2>2. ASSUME NEW i \in K PROVE s[i] \in ToSet(r)
    <3>1. PICK p \in 1 .. Len(r) : place[p] = i
      BY <1>3
    <3>2. r[p] = s[i] /\ p \in DOMAIN r
      BY <1>3, <3>1
    <3>3. QED
      BY <3>2 DEF ToSet
  <2>3. QED
    BY <2>1, <2>2
<1>5. ASSUME NEW m \in K, \A i \in K : i <= m PROVE r # <<>> /\ r[Len(r)] = s[m]
  <2>1. PICK p \in 1 .. Len(r) : place[p] = m
    BY <1>3
  <2>2. Len(r) \in 1 .. Len(r)
    BY <1>3
  <2>3. place[Len(r)] \in K /\ place[Len(r)] <= m
    BY <1>3, <1>5, <2>2
  <2>4. m \in Nat /\ place[Len(r)] \in Nat
    BY <2>3
  <2>5. p = Len(r)
    <3>0. p \in Nat /\ p <= Len(r) /\ Len(r) \in Nat
      BY <1>3
    <3>1. SUFFICES ASSUME p < Len(r) PROVE FALSE
      BY <3>0
    <3>2. m < place[Len(r)]
      BY <1>3, <2>1, <2>2, <3>1
    <3>3. QED
      BY <2>3, <2>4, <3>2
  <2>6. QED
    BY <1>3, <2>1, <2>2, <2>5
<1>6. QED
  BY <1>1, <1>4, <1>5

-----------------------------------------------------------------------------
(* Recursive functions *)

\* f holds the states of a loop: x is the state before the first turn, and
\* next[s, k] the one after turn k from s.
LoopOf(f, S, N, x, next) ==
    /\ f \in [0 .. N -> S] /\ f[0] = x
    /\ \A k \in 1 .. N : f[k] = next[<<f[k - 1], k>>]

\* There is such a function.
LEMMA LoopRuns ==
    ASSUME NEW S, NEW N \in Nat, NEW x \in S, NEW next \in [S \X (1 .. N) -> S]
    PROVE  \E f : LoopOf(f, S, N, x, next)
<1> DEFINE Runs(n) == \E f \in [0 .. n -> S] :
                        f[0] = x /\ \A k \in 1 .. n : f[k] = next[<<f[k - 1], k>>]
           bad == {n \in 0 .. N : ~Runs(n)}
<1>1. SUFFICES ASSUME bad # {} PROVE FALSE
  <2>1. N \in 0 .. N
    OBVIOUS
  <2>2. QED
    BY <2>1 DEF LoopOf
<1>2. PICK m \in bad : \A j \in bad : m <= j
  <2>1. bad \in SUBSET Nat
    OBVIOUS
  <2> HIDE DEF bad
  <2>2. QED
    BY <1>1, <2>1, LeastNat
<1>3. m \in 0 .. N /\ ~Runs(m)
  BY <1>2
<1>4. Runs(0)
  <2> DEFINE f == [k \in 0 .. 0 |-> x]
  <2>1. f \in [0 .. 0 -> S] /\ f[0] = x /\ \A k \in 1 .. 0 : FALSE
    OBVIOUS
  <2> HIDE DEF f
  <2>2. QED
    BY <2>1
<1>5. m \in 1 .. N /\ m - 1 \in 0 .. N /\ ~(m <= m - 1)
  <2>1. m # 0
    BY <1>3, <1>4
  <2>2. QED
    BY <1>3, <2>1
<1>6. Runs(m - 1)
  BY <1>2, <1>5
<1>7. PICK f \in [0 .. m - 1 -> S] :
        f[0] = x /\ \A k \in 1 .. m - 1 : f[k] = next[<<f[k - 1], k>>]
  BY <1>6
<1> DEFINE g == [k \in 0 .. m |-> IF k = m THEN next[<<f[m - 1], m>>] ELSE f[k]]
<1>8. f[m - 1] \in S /\ next[<<f[m - 1], m>>] \in S
  <2>1. m - 1 \in 0 .. m - 1
    BY <1>5
  <2>2. f[m - 1] \in S
    BY <1>7, <2>1
  <2>3. <<f[m - 1], m>> \in S \X (1 .. N)
    BY <1>5, <2>2
  <2>4. QED
    BY <2>2, <2>3
<1>9. \A k \in 0 .. m : k = m \/ k \in 0 .. m - 1
  BY <1>5
<1>10. /\ g \in [0 .. m -> S] /\ g[m] = next[<<f[m - 1], m>>]
       /\ \A k \in 0 .. m - 1 : g[k] = f[k]
  <2>1. \A k \in 0 .. m : (IF k = m THEN next[<<f[m - 1], m>>] ELSE f[k]) \in S
    BY <1>7, <1>8, <1>9
  <2>2. m \in 0 .. m /\ \A k \in 0 .. m - 1 : k \in 0 .. m /\ k # m
    BY <1>5
  <2>3. QED
    BY <2>1, <2>2
<1> HIDE DEF g
<1>11. g[0] = x
  <2>1. 0 \in 0 .. m - 1
    BY <1>5
  <2>2. QED
    BY <1>7, <1>10, <2>1
<1>12. ASSUME NEW k \in 1 .. m PROVE g[k] = next[<<g[k - 1], k>>]
  <2>1. k - 1 \in 0 .. m - 1
    BY <1>5
  <2>2. g[k - 1] = f[k - 1]
    BY <1>10, <2>1
  <2>3. CASE k = m
    BY <1>10, <2>2, <2>3
  <2>4. CASE k # m
    <3>1. k \in 1 .. m - 1 /\ k \in 0 .. m - 1
      BY <1>5, <2>4
    <3>2. QED
      BY <1>7, <1>10, <2>2, <3>1
  <2>5. QED
    BY <2>3, <2>4
<1>13. QED
  BY <1>3, <1>10, <1>11, <1>12

\* And it is the only one: a function that takes the same steps from states in S.
LEMMA LoopOnly ==
    ASSUME NEW S, NEW N \in Nat, NEW x, NEW next, NEW f, LoopOf(f, S, N, x, next),
           NEW L, L = [i \in 0 .. N |-> L[i]], L[0] = x,
           \A k \in 1 .. N : L[k - 1] \in S => L[k] = next[<<L[k - 1], k>>]
    PROVE  LoopOf(L, S, N, x, next)
<1>1. f \in [0 .. N -> S] /\ f[0] = x /\ \A k \in 1 .. N : f[k] = next[<<f[k - 1], k>>]
  BY DEF LoopOf
<1>2. \A k \in 0 .. N : L[k] = f[k]
  <2> DEFINE bad == {k \in 0 .. N : L[k] # f[k]}
  <2>1. SUFFICES ASSUME bad # {} PROVE FALSE
    OBVIOUS
  <2>2. PICK m \in bad : \A j \in bad : m <= j
    <3>1. bad \in SUBSET Nat
      OBVIOUS
    <3> HIDE DEF bad
    <3>2. QED
      BY <2>1, <3>1, LeastNat
  <2>3. m \in 0 .. N /\ L[m] # f[m]
    BY <2>2
  <2>4. m # 0
    BY <1>1, <2>3
  <2>5. m \in 1 .. N /\ m - 1 \in 0 .. N /\ ~(m <= m - 1)
    BY <2>3, <2>4
  <2>6. L[m - 1] = f[m - 1]
    BY <2>2, <2>5
  <2>7. f[m - 1] \in S
    BY <1>1, <2>5
  <2>8. QED
    BY <1>1, <2>3, <2>5, <2>6, <2>7
<1>3. L \in [0 .. N -> S]
  BY <1>1, <1>2
<1>4. QED
  BY <1>1, <1>2, <1>3 DEF LoopOf

=============================================================================

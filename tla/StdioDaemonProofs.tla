-------------------------- MODULE StdioDaemonProofs --------------------------
(***************************************************************************)
(* Proofs about StdioDaemon, for every request limit, every set of lines a   *)
(* host may write and any number of them.  The inductive invariant says      *)
(* where in the stream of lines the daemon is; a read is shown to take a      *)
(* piece of one line and to leave off inside or behind it, and each action    *)
(* is then a matter of what became of that line.                             *)
(***************************************************************************)
EXTENDS StdioDaemon, SequenceLemmas, TLAPS

-----------------------------------------------------------------------------
(* Sequences *)

\* The first n of a sequence.
LEMMA TakeFacts ==
    ASSUME NEW S, NEW s \in Seq(S), NEW n \in 0 .. Len(s)
    PROVE  /\ Take(s, n) \in Seq(S) /\ Len(Take(s, n)) = n /\ DOMAIN Take(s, n) = 1 .. n
           /\ \A i \in 1 .. n : Take(s, n)[i] = s[i]
BY DEF Take

\* All but the first n of a sequence.
LEMMA DropFacts ==
    ASSUME NEW S, NEW s \in Seq(S), NEW n \in 0 .. Len(s)
    PROVE  /\ Drop(s, n) \in Seq(S) /\ Len(Drop(s, n)) = Len(s) - n
           /\ DOMAIN Drop(s, n) = 1 .. Len(s) - n
           /\ \A i \in 1 .. Len(s) - n : Drop(s, n)[i] = s[i + n]
BY DEF Drop

-----------------------------------------------------------------------------
(* Reading *)

\* What a read up to a newline, but no further than limit, takes.
LEMMA ReadLengthFacts ==
    ASSUME TypeOK, NEW limit \in Nat \ {0}
    PROVE  LET m == ReadLength(limit)
           IN /\ m \in 0 .. Len(stdin) /\ m <= limit
              /\ \A p \in 1 .. m - 1 : ~Newline(p)
              /\ m > 0 => Newline(m) \/ m = limit \/ (eof /\ m = Len(stdin))
              /\ m = 0 => /\ \A p \in DOMAIN stdin : ~Newline(p)
                          /\ Len(stdin) < limit /\ (eof => stdin = <<>>)
<1> DEFINE m == ReadLength(limit)
           newlines == {i \in DOMAIN stdin : stdin[i].byte = "n" /\ i <= limit}
<1>1. /\ stdin \in Seq(TaggedByte) /\ Len(stdin) \in Nat /\ DOMAIN stdin = 1 .. Len(stdin)
      /\ eof \in BOOLEAN
  BY DEF TypeOK
<1>2. newlines \in SUBSET Nat
  BY <1>1
<1>3. CASE newlines # {}
  <2>1. m = CHOOSE i \in newlines : \A j \in newlines : i <= j
    BY <1>3 DEF ReadLength
  <2>2. m \in newlines /\ \A j \in newlines : m <= j
    BY <1>2, <1>3, <2>1, LeastNat
  <2> HIDE DEF m
  <2>3. m \in 1 .. Len(stdin) /\ m <= limit /\ Newline(m)
    BY <1>1, <2>2 DEF Newline
  <2>4. \A p \in 1 .. m - 1 : ~Newline(p)
    BY <1>1, <2>2, <2>3 DEF Newline
  <2>5. QED
    BY <2>3, <2>4 DEF m
<1>4. CASE newlines = {}
  <2>1. \A p \in DOMAIN stdin : p <= limit => ~Newline(p)
    BY <1>4 DEF Newline
  <2>2. m = IF Len(stdin) >= limit THEN limit ELSE IF eof THEN Len(stdin) ELSE 0
    BY <1>4 DEF ReadLength
  <2> HIDE DEF m, newlines
  <2>3. CASE Len(stdin) >= limit
    <3>1. m = limit
      BY <2>2, <2>3
    <3>2. \A p \in 1 .. m - 1 : ~Newline(p)
      BY <1>1, <2>1, <2>3, <3>1
    <3>3. QED
      BY <1>1, <2>3, <3>1, <3>2 DEF m
  <2>4. CASE Len(stdin) < limit /\ eof
    <3>1. m = Len(stdin)
      <4>1. ~(Len(stdin) >= limit)
        BY <1>1, <2>4
      <4>2. QED
        BY <2>2, <2>4, <4>1
    <3>2. \A p \in DOMAIN stdin : ~Newline(p)
      BY <1>1, <2>1, <2>4
    <3>3. \A p \in 1 .. m - 1 : ~Newline(p)
      BY <1>1, <3>1, <3>2
    <3>4. m = 0 => stdin = <<>>
      BY <1>1, <3>1
    <3>5. m \in 0 .. Len(stdin) /\ m <= limit
      BY <1>1, <2>4, <3>1
    <3>6. QED
      BY <2>4, <3>1, <3>2, <3>3, <3>4, <3>5 DEF m
  <2>5. CASE Len(stdin) < limit /\ ~eof
    <3>1. m = 0
      BY <1>1, <2>2, <2>5
    <3>2. \A p \in DOMAIN stdin : ~Newline(p)
      BY <1>1, <2>1, <2>5
    <3>3. QED
      BY <1>1, <2>5, <3>1, <3>2 DEF m
  <2>6. QED
    BY <1>1, <2>3, <2>4, <2>5
<1>5. QED
  BY <1>3, <1>4

\* Bytes with no newline between them are of one line.
LEMMA OneLine ==
    ASSUME TypeOK, StreamInv, NEW m \in DOMAIN stdin, \A p \in 1 .. m - 1 : ~Newline(p)
    PROVE  \A p \in 1 .. m : /\ stdin[p].line = stdin[1].line
                             /\ stdin[p].col = stdin[1].col + (p - 1)
<1>1. DOMAIN stdin = 1 .. Len(stdin) /\ Len(stdin) \in Nat /\ stdin \in Seq(TaggedByte)
  BY DEF TypeOK
<1>2. SUFFICES ASSUME NEW p \in 1 .. m
               PROVE  stdin[p].line = stdin[1].line /\ stdin[p].col = stdin[1].col + (p - 1)
  OBVIOUS
<1>3. CASE p = 1
  <2>1. stdin[1] \in TaggedByte
    BY <1>1
  <2>2. stdin[1].col \in Nat
    BY <2>1 DEF TaggedByte
  <2>3. QED
    BY <1>3, <2>2
<1>4. CASE p # 1
  <2>1. 1 \in DOMAIN stdin /\ p \in DOMAIN stdin /\ 1 < p
    BY <1>1, <1>4
  <2>2. \A n \in 1 .. p - 1 : ~Newline(n)
    BY <1>1
  <2>3. QED
    BY <2>1, <2>2 DEF StreamInv
<1>5. QED
  BY <1>3, <1>4

\* Strip takes off the newline and a carriage return before it.
LEMMA StripFacts ==
    ASSUME NEW s \in Seq(TaggedByte), \A p \in 1 .. Len(s) - 1 : s[p].byte # "n"
    PROVE  \E n \in 0 .. Len(s) :
             /\ Strip(s) = Take(s, n)
             /\ \A p \in n + 1 .. Len(s) : s[p].byte \in {"r", "n"}
             /\ \A p \in 1 .. n : s[p].byte # "n"
             /\ ~EndsWith(s, "n") => n = Len(s)
             /\ EndsWith(s, "n") => \/ n = Len(s) - 1 /\ (n > 0 => s[n].byte # "r")
                                    \/ n = Len(s) - 2
<1>1. CASE ~EndsWith(s, "n")
  <2>1. Take(s, Len(s)) = s
    BY TakeFacts, SameSeq
  <2>2. QED
    BY <1>1, <2>1 DEF Strip, EndsWith
<1>2. CASE EndsWith(s, "n")
  <2> DEFINE k == Len(s) - 1
             t == Take(s, k)
  <2>1. k \in 0 .. Len(s) /\ Len(s) = k + 1 /\ s[k + 1].byte = "n" /\ k \in Nat
    BY <1>2 DEF EndsWith
  <2>2. t \in Seq(TaggedByte) /\ Len(t) = k /\ \A i \in 1 .. k : t[i] = s[i]
    BY <2>1, TakeFacts
  <2>3. Strip(s) = IF EndsWith(t, "r") THEN Take(t, Len(t) - 1) ELSE t
    BY <1>2 DEF Strip
  <2> HIDE DEF t
  <2>4. CASE EndsWith(t, "r")
    <3>1. k - 1 \in 0 .. Len(s) /\ k - 1 \in 0 .. Len(t) /\ s[k].byte = "r" /\ k > 0
      BY <2>1, <2>2, <2>4 DEF EndsWith
    <3>2. Take(t, k - 1) = Take(s, k - 1)
      <4>1. Take(t, k - 1) \in Seq(TaggedByte) /\ Len(Take(t, k - 1)) = k - 1
            /\ \A i \in 1 .. k - 1 : Take(t, k - 1)[i] = t[i]
        BY <2>2, <3>1, TakeFacts
      <4>2. Take(s, k - 1) \in Seq(TaggedByte) /\ Len(Take(s, k - 1)) = k - 1
            /\ \A i \in 1 .. k - 1 : Take(s, k - 1)[i] = s[i]
        BY <3>1, TakeFacts
      <4>3. \A i \in 1 .. k - 1 : Take(t, k - 1)[i] = Take(s, k - 1)[i]
        BY <2>1, <2>2, <4>1, <4>2
      <4>4. QED
        BY <4>1, <4>2, <4>3, SameSeq
    <3>3. \A p \in (k - 1) + 1 .. Len(s) : s[p].byte \in {"r", "n"}
      BY <2>1, <3>1
    <3>4. Strip(s) = Take(s, k - 1) /\ k - 1 = Len(s) - 2
      BY <2>1, <2>2, <2>3, <2>4, <3>2
    <3>5. \A p \in 1 .. k - 1 : s[p].byte # "n"
      BY <2>1
    <3> HIDE DEF k
    <3>6. QED
      BY <1>2, <3>1, <3>3, <3>4, <3>5
  <2>5. CASE ~EndsWith(t, "r")
    <3>1. k > 0 => s[k].byte # "r"
      BY <2>1, <2>2, <2>5 DEF EndsWith
    <3>2. Strip(s) = Take(s, k) /\ k = Len(s) - 1
      BY <2>3, <2>5 DEF t
    <3>3. \A p \in k + 1 .. Len(s) : s[p].byte \in {"r", "n"}
      BY <2>1
    <3>4. \A p \in 1 .. k : s[p].byte # "n"
      BY <2>1
    <3> HIDE DEF k
    <3>5. QED
      BY <1>2, <2>1, <3>1, <3>2, <3>3, <3>4
  <2>6. QED
    BY <2>4, <2>5
<1>3. QED
  BY <1>1, <1>2

-----------------------------------------------------------------------------
(* Trimming *)

Ink(b) == {i \in DOMAIN b : b[i] \notin {"s", "r"}}

\* What is left of a text that is not blank: from its first ink to its last.
LEMMA TrimFacts ==
    ASSUME NEW b \in Seq(Text), ~Blank(b)
    PROVE  \E f, l \in Ink(b) :
             /\ \A j \in Ink(b) : f <= j /\ j <= l
             /\ Trim(b) = SubSeq(b, f, l)
<1>1. DOMAIN b = 1 .. Len(b) /\ Len(b) \in Nat /\ \A i \in DOMAIN b : b[i] \in Text
  OBVIOUS
<1>2. Ink(b) # {} /\ Ink(b) \in SUBSET (0 .. Len(b)) /\ Ink(b) \in SUBSET Nat
  <2>1. \E i \in DOMAIN b : b[i] \notin {"s", "r"}
    BY DEF Blank
  <2>2. QED
    BY <1>1, <2>1 DEF Ink
<1> DEFINE first == CHOOSE i \in Ink(b) : \A j \in Ink(b) : i <= j
           last == CHOOSE i \in Ink(b) : \A j \in Ink(b) : i >= j
<1>3. first \in Ink(b) /\ \A j \in Ink(b) : first <= j
  BY <1>2, LeastNat
<1>4. last \in Ink(b) /\ \A j \in Ink(b) : last >= j
  BY <1>1, <1>2, GreatestNat
<1>5. Trim(b) = SubSeq(b, first, last)
  BY DEF Trim, Ink
<1> HIDE DEF first, last
<1>6. \A j \in Ink(b) : j <= last
  BY <1>2, <1>4
<1>7. QED
  BY <1>3, <1>4, <1>5, <1>6

\* Trimming leaves text, and no more of it.
LEMMA TrimType ==
    ASSUME NEW b \in Seq(Text)
    PROVE  Trim(b) \in Seq(Text) /\ Len(Trim(b)) <= Len(b)
<1>1. CASE Blank(b)
  BY <1>1 DEF Trim
<1>2. CASE ~Blank(b)
  <2>1. PICK f, l \in Ink(b) :
             /\ \A j \in Ink(b) : f <= j /\ j <= l
             /\ Trim(b) = SubSeq(b, f, l)
    BY <1>2, TrimFacts
  <2>2. f \in 1 .. Len(b) /\ l \in 1 .. Len(b) /\ f <= l
    BY <2>1 DEF Ink
  <2>3. SubSeq(b, f, l) \in Seq(Text) /\ Len(SubSeq(b, f, l)) <= Len(b)
    BY <2>2
  <2>4. QED
    BY <2>1, <2>3
<1>3. QED
  BY <1>1, <1>2

\* White space around a text makes no difference.
LEMMA TrimWithin ==
    ASSUME NEW w \in Seq(Text), NEW b \in Seq(Text), NEW a \in Nat, a + Len(b) <= Len(w),
           \A i \in 1 .. Len(b) : b[i] = w[i + a],
           \A i \in 1 .. Len(w) : (i <= a \/ i > a + Len(b)) => w[i] \in {"s", "r"}
    PROVE  Trim(b) = Trim(w)
<1>1. /\ DOMAIN b = 1 .. Len(b) /\ Len(b) \in Nat /\ DOMAIN w = 1 .. Len(w) /\ Len(w) \in Nat
      /\ \A i \in 1 .. Len(w) : w[i] \in Text /\ w[i] # "n"
      /\ \A i \in 1 .. Len(b) : b[i] \in Text /\ b[i] # "n"
  BY DEF Text
<1>2. \A i \in Ink(b) : i \in 1 .. Len(b) /\ i + a \in Ink(w)
  BY <1>1 DEF Ink
<1>3. \A i \in Ink(w) : i \in 1 .. Len(w) /\ i - a \in Ink(b)
  <2> SUFFICES ASSUME NEW i \in Ink(w) PROVE i \in 1 .. Len(w) /\ i - a \in Ink(b)
    OBVIOUS
  <2>1. i \in 1 .. Len(w) /\ w[i] \notin {"s", "r"}
    BY <1>1 DEF Ink
  <2>2. i - a \in 1 .. Len(b) /\ (i - a) + a = i
    BY <1>1, <2>1
  <2>3. b[i - a] = w[i]
    BY <2>2
  <2>4. QED
    BY <1>1, <2>1, <2>2, <2>3 DEF Ink
<1>4. Blank(b) <=> Ink(b) = {}
  BY <1>1 DEF Blank, Ink
<1>5. Blank(w) <=> Ink(w) = {}
  BY <1>1 DEF Blank, Ink
<1>6. Blank(b) <=> Blank(w)
  BY <1>2, <1>3, <1>4, <1>5
<1>7. CASE Blank(b)
  BY <1>6, <1>7 DEF Trim
<1>8. CASE ~Blank(b)
  <2>1. PICK f, l \in Ink(b) :
             /\ \A j \in Ink(b) : f <= j /\ j <= l
             /\ Trim(b) = SubSeq(b, f, l)
    BY <1>8, TrimFacts
  <2>2. PICK F, L \in Ink(w) :
             /\ \A j \in Ink(w) : F <= j /\ j <= L
             /\ Trim(w) = SubSeq(w, F, L)
    BY <1>6, <1>8, TrimFacts
  <2>3. F = f + a /\ L = l + a
    <3>1. F <= f + a /\ l + a <= L
      BY <1>2, <2>1, <2>2
    <3>2. f <= F - a /\ L - a <= l
      BY <1>3, <2>1, <2>2
    <3>3. f \in Nat /\ l \in Nat /\ F \in Nat /\ L \in Nat
      <4>1. Ink(b) \subseteq Nat /\ Ink(w) \subseteq Nat
        BY <1>1 DEF Ink
      <4>2. QED
        BY <4>1
    <3>4. QED
      BY <3>1, <3>2, <3>3
  <2>4. f \in 1 .. Len(b) /\ l \in 1 .. Len(b) /\ f <= l
    BY <1>2, <2>1
  <2>5. /\ SubSeq(b, f, l) \in Seq(Text) /\ Len(SubSeq(b, f, l)) = l - f + 1
        /\ \A i \in 1 .. l - f + 1 : SubSeq(b, f, l)[i] = b[f + i - 1]
    BY <2>4
  <2>6. /\ SubSeq(w, F, L) \in Seq(Text) /\ Len(SubSeq(w, F, L)) = l - f + 1
        /\ \A i \in 1 .. l - f + 1 : SubSeq(w, F, L)[i] = w[f + a + i - 1]
    BY <1>1, <2>3, <2>4
  <2>7. \A i \in 1 .. l - f + 1 : b[f + i - 1] = w[f + a + i - 1]
    <3> SUFFICES ASSUME NEW i \in 1 .. l - f + 1 PROVE b[f + i - 1] = w[f + a + i - 1]
      OBVIOUS
    <3>1. f + i - 1 \in 1 .. Len(b) /\ (f + i - 1) + a = f + a + i - 1
      BY <1>1, <2>4
    <3>2. QED
      BY <3>1
  <2>8. SubSeq(b, f, l) = SubSeq(w, F, L)
    <3> DEFINE u == SubSeq(b, f, l)
               v == SubSeq(w, F, L)
    <3>1. /\ u \in Seq(Text) /\ v \in Seq(Text) /\ Len(u) = l - f + 1 /\ Len(v) = Len(u)
          /\ \A i \in 1 .. l - f + 1 : u[i] = v[i]
      BY <2>5, <2>6, <2>7
    <3> HIDE DEF u, v
    <3>2. u = v
      BY <3>1, SameSeq
    <3>3. QED
      BY <3>2 DEF u, v
  <2>9. QED
    BY <2>1, <2>2, <2>8
<1>9. QED
  BY <1>7, <1>8

-----------------------------------------------------------------------------
(* The invariant, and the steps of the host *)

Inv ==
    /\ TypeOK /\ StreamInv /\ LastInv /\ PastInv /\ ReadInv /\ DrainInv /\ DoneInv
    /\ InOrderAtMostOnce /\ AnswersWholeLines

\* The invariant holds before anything is written or read.
LEMMA InitInv == Init => Inv
<1> SUFFICES ASSUME Init PROVE Inv
  OBVIOUS
<1>1. TypeOK
  <2>1. eof \in BOOLEAN /\ stdoutOpen \in BOOLEAN
    BY DEF Init
  <2>2. Len(line) <= Limit /\ DOMAIN responses = {}
    BY StdioAssumption DEF Init, Limit
  <2>3. QED
    BY <2>1, <2>2 DEF Init, TypeOK
<1>2. StreamInv /\ LastInv /\ DrainInv /\ DoneInv
  BY DEF Init, StreamInv, LastInv, DrainInv, DoneInv
<1>3. PastInv /\ InOrderAtMostOnce /\ AnswersWholeLines
  BY DEF Init, PastInv, InOrderAtMostOnce, AnswersWholeLines
<1>4. ReadInv
  BY DEF Init, ReadInv, Requests
<1>5. QED
  BY <1>1, <1>2, <1>3, <1>4 DEF Inv

\* The types of what the state is made of.
LEMMA Types ==
    ASSUME TypeOK
    PROVE  /\ Len(sent) \in Nat /\ DOMAIN sent = 1 .. Len(sent)
           /\ Len(stdin) \in Nat /\ DOMAIN stdin = 1 .. Len(stdin)
           /\ Len(responses) \in Nat /\ DOMAIN responses = 1 .. Len(responses)
           /\ \A i \in DOMAIN sent : /\ sent[i] \in Lines /\ sent[i] \in Seq(Text)
                                    /\ Len(sent[i]) \in Nat
           /\ \A p \in DOMAIN stdin :
                /\ stdin[p] \in TaggedByte /\ stdin[p].line \in Nat
                /\ stdin[p].col \in Nat /\ stdin[p].byte \in Text \cup {"n"}
           /\ \A k \in DOMAIN responses : responses[k].line \in Nat
           /\ MaxRequestBytes \in Nat \ {0} /\ Limit \in Nat \ {0}
<1>1. Lines \subseteq Seq(Text) /\ MaxRequestBytes \in Nat \ {0}
  BY StdioAssumption
<1>2. Len(sent) \in Nat /\ DOMAIN sent = 1 .. Len(sent) /\ \A i \in DOMAIN sent : sent[i] \in Lines
  BY DEF TypeOK
<1>3. \A i \in DOMAIN sent : sent[i] \in Seq(Text) /\ Len(sent[i]) \in Nat
  BY <1>1, <1>2
<1>4. Len(stdin) \in Nat /\ DOMAIN stdin = 1 .. Len(stdin)
      /\ \A p \in DOMAIN stdin : stdin[p] \in TaggedByte
  BY DEF TypeOK
<1>5. Len(responses) \in Nat /\ DOMAIN responses = 1 .. Len(responses)
      /\ \A k \in DOMAIN responses : responses[k] \in Responses
  BY DEF TypeOK
<1>6. Limit \in Nat \ {0}
  BY <1>1 DEF Limit
<1>7. QED
  BY <1>1, <1>2, <1>3, <1>4, <1>5, <1>6 DEF TaggedByte, Responses

\* The line the daemon is at is one that was sent, or the next.
LEMMA LeftType ==
    ASSUME TypeOK, StreamInv
    PROVE  Left \in 1 .. Len(sent) + 1
<1>1. CASE stdin = <<>>
  BY <1>1, Types DEF Left
<1>2. CASE stdin # <<>>
  <2>1. 1 \in DOMAIN stdin
    BY <1>2, Types
  <2>2. QED
    BY <1>2, <2>1, Types DEF Left, StreamInv
<1>3. QED
  BY <1>1, <1>2

\* What the state has after the host has written line l, with its newline or as
\* the last.
Written(l, w) ==
    /\ sent' \in Seq(Lines) /\ Len(sent') = Len(sent) + 1 /\ sent'[Len(sent) + 1] = l
    /\ \A i \in 1 .. Len(sent) : sent'[i] = sent[i]
    /\ stdin' \in Seq(TaggedByte) /\ Len(stdin') = Len(stdin) + Len(w)
    /\ \A p \in 1 .. Len(stdin) : stdin'[p] = stdin[p]
    /\ \A i \in 1 .. Len(w) :
         stdin'[Len(stdin) + i] = [line |-> Len(sent) + 1, col |-> i, byte |-> w[i]]
    /\ Len(w) \in Nat /\ Len(l) \in Nat /\ Len(w) <= Len(l) + 1
    /\ \A i \in 1 .. Len(w) : w[i] = Append(l, "n")[i]
    /\ \A i \in 1 .. Len(l) : w[i] # "n"

\* The bytes of a line written, with their places.
LEMMA TaggedFacts ==
    ASSUME NEW w \in Seq(Text \cup {"n"}), NEW n \in Nat
    PROVE  /\ Tagged(w, n) \in Seq(TaggedByte) /\ Len(Tagged(w, n)) = Len(w)
           /\ \A i \in 1 .. Len(w) : Tagged(w, n)[i] = [line |-> n, col |-> i, byte |-> w[i]]
<1> DEFINE Tag(i) == [line |-> n, col |-> i, byte |-> w[i]]
<1>1. DOMAIN w = 1 .. Len(w) /\ Len(w) \in Nat /\ \A i \in 1 .. Len(w) : w[i] \in Text \cup {"n"}
  OBVIOUS
<1>2. \A i \in 1 .. Len(w) : Tag(i) \in TaggedByte
  BY <1>1 DEF TaggedByte
<1>3. Tagged(w, n) = [i \in 1 .. Len(w) |-> Tag(i)]
  BY <1>1 DEF Tagged
<1> HIDE DEF Tag
<1>4. Tagged(w, n) \in Seq(TaggedByte) /\ Len(Tagged(w, n)) = Len(w)
      /\ \A i \in 1 .. Len(w) : Tagged(w, n)[i] = Tag(i)
  BY <1>1, <1>2, <1>3
<1>5. QED
  BY <1>4 DEF Tag

\* Both ways of writing a line have this outcome.
LEMMA WriteFacts ==
    ASSUME TypeOK, NEW l \in Lines, NEW w, w = Append(l, "n") \/ w = l,
           sent' = Append(sent, l), stdin' = stdin \o Tagged(w, Len(sent) + 1)
    PROVE  Written(l, w)
<1>1. sent \in Seq(Lines) /\ stdin \in Seq(TaggedByte) /\ l \in Seq(Text)
      /\ Len(sent) \in Nat /\ Len(l) \in Nat
  BY Types, StdioAssumption DEF TypeOK
<1>2. /\ Len(sent') = Len(sent) + 1 /\ sent'[Len(sent) + 1] = l /\ sent' \in Seq(Lines)
      /\ \A i \in 1 .. Len(sent) : sent'[i] = sent[i]
  BY <1>1
<1>3. l \in Seq(Text \cup {"n"}) /\ "n" \in Text \cup {"n"}
  BY <1>1
<1>4. /\ Append(l, "n") \in Seq(Text \cup {"n"}) /\ Len(Append(l, "n")) = Len(l) + 1
      /\ \A i \in 1 .. Len(l) : Append(l, "n")[i] = l[i]
  BY <1>3, AppendFacts
<1>5. /\ w \in Seq(Text \cup {"n"}) /\ Len(w) \in Nat /\ Len(w) <= Len(l) + 1
      /\ \A i \in 1 .. Len(w) : w[i] = Append(l, "n")[i]
      /\ \A i \in 1 .. Len(l) : w[i] = l[i]
  <2>1. CASE w = l
    BY <1>1, <1>3, <1>4, <2>1
  <2>2. CASE w = Append(l, "n")
    <3>1. w \in Seq(Text \cup {"n"}) /\ Len(w) = Len(l) + 1 /\ \A i \in 1 .. Len(l) : w[i] = l[i]
      BY <1>4, <2>2
    <3>2. QED
      BY <1>1, <2>2, <3>1
  <2>3. QED
    BY <2>1, <2>2
<1>6. \A i \in 1 .. Len(l) : w[i] # "n"
  <2>1. "n" \notin Text
    BY DEF Text
  <2>2. \A i \in 1 .. Len(l) : l[i] \in Text
    BY <1>1
  <2>3. QED
    BY <1>5, <2>1, <2>2
<1> DEFINE t == Tagged(w, Len(sent) + 1)
           c == stdin \o t
<1>7. /\ t \in Seq(TaggedByte) /\ Len(t) = Len(w)
      /\ \A i \in 1 .. Len(w) : t[i] = [line |-> Len(sent) + 1, col |-> i, byte |-> w[i]]
  <2> DEFINE n == Len(sent) + 1
  <2>1. n \in Nat
    BY <1>1
  <2> HIDE DEF n
  <2>2. /\ Tagged(w, n) \in Seq(TaggedByte) /\ Len(Tagged(w, n)) = Len(w)
        /\ \A i \in 1 .. Len(w) : Tagged(w, n)[i] = [line |-> n, col |-> i, byte |-> w[i]]
    BY <1>5, <2>1, TaggedFacts, Zenon
  <2>3. QED
    BY <2>2 DEF n
<1> HIDE DEF t
<1>8. /\ c \in Seq(TaggedByte) /\ Len(c) = Len(stdin) + Len(w)
      /\ \A p \in 1 .. Len(stdin) : c[p] = stdin[p]
      /\ \A i \in 1 .. Len(w) : c[Len(stdin) + i] = t[i]
  <2>1. stdin \in Seq(TaggedByte) /\ t \in Seq(TaggedByte) /\ c = stdin \o t
    BY <1>1, <1>7
  <2> HIDE DEF c
  <2>2. /\ c \in Seq(TaggedByte) /\ Len(c) = Len(stdin) + Len(t)
        /\ \A p \in 1 .. Len(stdin) : c[p] = stdin[p]
        /\ \A i \in 1 .. Len(t) : c[Len(stdin) + i] = t[i]
    BY <2>1, ConcatFacts
  <2>3. QED
    BY <1>7, <2>2
<1>10. stdin' = c
  BY DEF t
<1> HIDE DEF c
<1>9. QED
  BY <1>1, <1>2, <1>5, <1>6, <1>7, <1>8, <1>10 DEF Written

\* The bytes of the new stdin are the old ones and the new line's.
LEMMA NewBytes ==
    ASSUME TypeOK, NEW l \in Lines, NEW w, Written(l, w), NEW p \in DOMAIN stdin'
    PROVE  \/ p \in 1 .. Len(stdin) /\ p \in DOMAIN stdin /\ stdin'[p] = stdin[p]
           \/ /\ p > Len(stdin) /\ p - Len(stdin) \in 1 .. Len(w)
              /\ stdin'[p].line = Len(sent) + 1 /\ stdin'[p].col = p - Len(stdin)
              /\ stdin'[p].byte = w[p - Len(stdin)]
<1>1. p \in 1 .. Len(stdin) + Len(w) /\ Len(stdin) \in Nat /\ Len(w) \in Nat
      /\ DOMAIN stdin = 1 .. Len(stdin)
  BY Types DEF Written
<1>2. CASE p <= Len(stdin)
  BY <1>1, <1>2 DEF Written
<1>3. CASE p > Len(stdin)
  <2> DEFINE i == p - Len(stdin)
  <2>1. i \in 1 .. Len(w) /\ p = Len(stdin) + i
    BY <1>1, <1>3
  <2> HIDE DEF i
  <2>2. stdin'[p] = [line |-> Len(sent) + 1, col |-> i, byte |-> w[i]]
    BY <2>1 DEF Written
  <2>3. QED
    BY <1>3, <2>1, <2>2 DEF i
<1>4. QED
  BY <1>1, <1>2, <1>3

\* A line written after the others continues the stream.
LEMMA WriteStream ==
    ASSUME TypeOK, StreamInv, LastInv, ~eof, NEW l \in Lines, NEW w, Written(l, w)
    PROVE  StreamInv'
<1> DEFINE n == Len(sent)
           k == Len(stdin)
<1>1. /\ n \in Nat /\ k \in Nat /\ DOMAIN stdin = 1 .. k /\ DOMAIN sent = 1 .. n
      /\ DOMAIN sent' = 1 .. n + 1
      /\ \A p \in 1 .. k : stdin[p].line \in 1 .. n /\ stdin[p].line \in Nat
  BY Types DEF Written, StreamInv
<1>2. k > 0 => Newline(k) /\ stdin[k].line = n
  BY <1>1 DEF LastInv
<1>8. /\ Len(w) \in Nat /\ Len(l) \in Nat /\ Len(w) <= Len(l) + 1
      /\ \A i \in 1 .. Len(l) : w[i] # "n"
  BY DEF Written
<1>9. ASSUME NEW p \in DOMAIN stdin', p > k
      PROVE  /\ p \in Nat /\ p - k \in 1 .. Len(w)
             /\ stdin'[p].line = n + 1 /\ stdin'[p].col = p - k /\ stdin'[p].byte = w[p - k]
  <2>1. p \in Nat /\ ~(p \in 1 .. k)
    BY <1>1, <1>9 DEF Written
  <2>2. QED
    BY <1>9, <2>1, NewBytes
<1>3. ASSUME NEW p \in DOMAIN stdin'
      PROVE  /\ stdin'[p].line \in DOMAIN sent'
             /\ stdin'[p].col \in 1 .. Len(sent'[stdin'[p].line]) + 1
             /\ stdin'[p].byte = Append(sent'[stdin'[p].line], "n")[stdin'[p].col]
  <2>1. CASE p \in 1 .. k /\ stdin'[p] = stdin[p]
    <3>1. sent'[stdin[p].line] = sent[stdin[p].line]
      BY <1>1, <2>1 DEF Written
    <3>2. QED
      BY <1>1, <2>1, <3>1 DEF StreamInv
  <2>2. CASE /\ p - k \in 1 .. Len(w) /\ stdin'[p].line = n + 1 /\ stdin'[p].col = p - k
             /\ stdin'[p].byte = w[p - k]
    BY <1>1, <2>2 DEF Written
  <2>3. QED
    BY <1>3, <2>1, <2>2, NewBytes
<1>4. ASSUME NEW p \in DOMAIN stdin', NEW q \in DOMAIN stdin', p < q
      PROVE  \/ stdin'[p].line < stdin'[q].line
             \/ stdin'[p].line = stdin'[q].line /\ stdin'[p].byte # "n"
  <2>1. CASE p \in 1 .. k /\ q \in 1 .. k
    <3>1. p \in DOMAIN stdin /\ q \in DOMAIN stdin
      BY <1>1, <2>1
    <3>2. stdin'[p] = stdin[p] /\ stdin'[q] = stdin[q]
      BY <2>1 DEF Written
    <3>3. \/ stdin[p].line < stdin[q].line
          \/ stdin[p].line = stdin[q].line /\ ~Newline(p)
      BY <1>4, <3>1 DEF StreamInv
    <3>4. QED
      BY <3>2, <3>3 DEF Newline
  <2>2. CASE p \in 1 .. k /\ q > k
    <3>1. stdin'[p] = stdin[p] /\ stdin'[q].line = n + 1
      BY <1>1, <1>4, <2>2, NewBytes
    <3>2. QED
      BY <1>1, <2>2, <3>1
  <2>3. CASE p > k
    <3>1. p - k \in 1 .. Len(w) /\ q - k \in 1 .. Len(w) /\ stdin'[p].byte = w[p - k]
          /\ stdin'[p].line = n + 1 /\ stdin'[q].line = n + 1 /\ p \in Nat /\ q \in Nat
      <4>1. q > k
        BY <1>1, <1>4, <2>3 DEF Written
      <4>2. QED
        BY <1>4, <1>9, <2>3, <4>1
    <3>2. p - k \in 1 .. Len(l)
      BY <1>1, <1>4, <1>8, <3>1
    <3>3. QED
      BY <3>1, <3>2 DEF Written
  <2>4. QED
    BY <1>1, <1>4, <2>1, <2>2, <2>3, NewBytes
<1>5. ASSUME NEW p \in DOMAIN stdin', NEW q \in DOMAIN stdin', p < q,
             \A m \in p .. q - 1 : stdin'[m].byte # "n"
      PROVE  stdin'[q].line = stdin'[p].line /\ stdin'[q].col = stdin'[p].col + (q - p)
  <2>1. CASE p \in 1 .. k /\ q \in 1 .. k
    <3>1. \A m \in p .. q - 1 : ~Newline(m)
      BY <1>1, <1>5, <2>1 DEF Written, Newline
    <3>2. stdin[q].line = stdin[p].line /\ stdin[q].col = stdin[p].col + (q - p)
      <4>1. p \in DOMAIN stdin /\ q \in DOMAIN stdin
        BY <1>1, <2>1
      <4>2. QED
        BY <1>5, <3>1, <4>1 DEF StreamInv
    <3>3. stdin'[p] = stdin[p] /\ stdin'[q] = stdin[q]
      BY <2>1 DEF Written
    <3>4. QED
      BY <3>2, <3>3
  <2>2. CASE p \in 1 .. k /\ q > k
    <3>1. k \in p .. q - 1 /\ stdin'[k] = stdin[k]
      BY <1>1, <1>5, <2>2 DEF Written
    <3>2. QED
      BY <1>1, <1>2, <1>5, <2>2, <3>1 DEF Newline
  <2>3. CASE p > k
    <3>1. stdin'[p].line = n + 1 /\ stdin'[q].line = n + 1
          /\ stdin'[p].col = p - k /\ stdin'[q].col = q - k /\ p \in Nat /\ q \in Nat
      <4>1. q > k
        BY <1>1, <1>5, <2>3 DEF Written
      <4>2. QED
        BY <1>5, <1>9, <2>3, <4>1
    <3>2. QED
      BY <1>1, <3>1
  <2>4. QED
    BY <1>1, <1>5, <2>1, <2>2, <2>3, NewBytes
<1>6. ASSUME NEW p \in DOMAIN stdin', p + 1 \in DOMAIN stdin', stdin'[p].byte = "n"
      PROVE  stdin'[p + 1].line = stdin'[p].line + 1 /\ stdin'[p + 1].col = 1
  <2>1. CASE p \in 1 .. k /\ p + 1 \in 1 .. k
    <3>1. p \in DOMAIN stdin /\ p + 1 \in DOMAIN stdin
      BY <1>1, <2>1
    <3>2. stdin'[p] = stdin[p] /\ stdin'[p + 1] = stdin[p + 1]
      BY <2>1 DEF Written
    <3>3. Newline(p)
      BY <1>6, <3>2 DEF Newline
    <3>4. stdin[p + 1].line = stdin[p].line + 1 /\ stdin[p + 1].col = 1
      BY <3>1, <3>3 DEF StreamInv
    <3>5. QED
      BY <3>2, <3>4
  <2>2. CASE p = k
    <3>1. stdin'[p] = stdin[k] /\ stdin'[p + 1].line = n + 1 /\ stdin'[p + 1].col = 1
      <4>1. p \in 1 .. k /\ p + 1 > k
        BY <1>1, <1>6, <2>2 DEF Written
      <4>2. stdin'[p] = stdin[k]
        BY <2>2, <4>1 DEF Written
      <4>3. stdin'[p + 1].line = n + 1 /\ stdin'[p + 1].col = (p + 1) - k
        BY <1>6, <1>9, <4>1
      <4>4. (p + 1) - k = 1
        BY <1>1, <2>2
      <4>5. QED
        BY <4>2, <4>3, <4>4
    <3>2. QED
      BY <1>1, <1>2, <1>6, <2>2, <3>1 DEF Written
  <2>3. CASE p > k
    <3>1. p - k \in 1 .. Len(w) /\ (p + 1) - k \in 1 .. Len(w) /\ stdin'[p].byte = w[p - k]
      <4>1. p + 1 > k
        BY <1>1, <1>6, <2>3 DEF Written
      <4>2. QED
        BY <1>6, <1>9, <2>3, <4>1
    <3>2. p - k \in 1 .. Len(l)
      BY <1>1, <1>8, <1>9, <1>6, <2>3, <3>1
    <3>3. QED
      BY <1>6, <1>8, <3>1, <3>2
  <2>4. QED
    BY <1>1, <1>6, <2>1, <2>2, <2>3 DEF Written
<1>7. QED
  BY <1>3, <1>4, <1>5, <1>6 DEF StreamInv, Newline

\* The line written is now the last, with its newline unless stdin is closed.
LEMMA WriteLast ==
    ASSUME TypeOK, StreamInv, LastInv, ~eof, NEW l \in Lines, NEW w, Written(l, w),
           (w = Append(l, "n") /\ eof' = eof) \/ (w = l /\ eof')
    PROVE  LastInv'
<1> DEFINE n == Len(sent)
           k == Len(stdin)
           K == Len(stdin')
<1>1. /\ n \in Nat /\ k \in Nat /\ Len(w) \in Nat /\ K = k + Len(w) /\ Len(sent') = n + 1
      /\ sent'[n + 1] = l /\ l \in Seq(Text) /\ K \in Nat
      /\ stdin' \in Seq(TaggedByte) /\ DOMAIN stdin' = 1 .. K
  BY Types, StdioAssumption DEF Written
<1>2. SUFFICES ASSUME stdin' # <<>>
               PROVE  /\ \/ stdin'[K].byte = "n"
                         \/ eof' /\ stdin'[K].col = Len(sent'[stdin'[K].line])
                      /\ \/ stdin'[K].line = Len(sent')
                         \/ /\ eof' /\ stdin'[K].line + 1 = Len(sent')
                            /\ sent'[Len(sent')] = <<>>
  BY DEF LastInv, Newline
<1>3. K > 0 /\ K \in DOMAIN stdin'
  BY <1>1, <1>2
<1>4. CASE w = <<>>
  <2>1. l = <<>> /\ eof'
    <3>1. Append(l, "n") # <<>>
      BY <1>1
    <3>2. QED
      BY <1>4, <3>1
  <2>2. K = k /\ k \in 1 .. Len(stdin) /\ stdin # <<>>
    BY <1>1, <1>3, <1>4
  <2>3. stdin'[K] = stdin[k] /\ stdin[k].byte = "n" /\ stdin[k].line = n
    BY <2>2 DEF Written, LastInv, Newline
  <2>4. QED
    BY <1>1, <2>1, <2>3
<1>5. CASE w # <<>>
  <2>0. Len(w) \in 1 .. Len(w)
    <3>1. w \in Seq(Text \cup {"n"})
      <4>1. l \in Seq(Text \cup {"n"}) /\ "n" \in Text \cup {"n"}
        BY <1>1
      <4>2. Append(l, "n") \in Seq(Text \cup {"n"})
        BY <4>1
      <4>3. QED
        BY <4>1, <4>2
    <3>2. QED
      BY <1>1, <1>5, <3>1
  <2>1. stdin'[K] = [line |-> n + 1, col |-> Len(w), byte |-> w[Len(w)]]
    BY <1>1, <2>0 DEF Written
  <2>2. CASE w = l /\ eof'
    BY <1>1, <2>1, <2>2
  <2>3. CASE w = Append(l, "n")
    <3>1. w[Len(w)] = "n"
      BY <1>1, <2>3
    <3>2. QED
      BY <1>1, <2>1, <3>1
  <2>4. QED
    BY <2>2, <2>3
<1>6. QED
  BY <1>4, <1>5

\* Writing does not change where the daemon is, unless it writes nothing.
LEMMA WriteLeft ==
    ASSUME TypeOK, StreamInv, NEW l \in Lines, NEW w, Written(l, w),
           (w = Append(l, "n") /\ eof' = eof) \/ (w = l /\ eof')
    PROVE  /\ stdin # <<>> => stdin' # <<>> /\ stdin'[1] = stdin[1]
           /\ stdin = <<>> /\ stdin' # <<>> =>
                stdin'[1].line = Len(sent) + 1 /\ stdin'[1].col = 1
           /\ \/ Left' = Left
              \/ /\ stdin = <<>> /\ stdin' = <<>> /\ eof' /\ l = <<>>
                 /\ Left = Len(sent) + 1 /\ Left' = Len(sent) + 2
<1>1. /\ Len(sent) \in Nat /\ Len(stdin) \in Nat /\ Len(w) \in Nat
      /\ Len(stdin') = Len(stdin) + Len(w) /\ Len(sent') = Len(sent) + 1
      /\ l \in Seq(Text) /\ stdin' \in Seq(TaggedByte) /\ DOMAIN stdin' = 1 .. Len(stdin')
  BY Types, StdioAssumption DEF Written
<1>2. CASE stdin # <<>>
  <2>1. Len(stdin) > 0 /\ 1 \in 1 .. Len(stdin)
    BY <1>2, Types DEF TypeOK
  <2>2. stdin' # <<>> /\ stdin'[1] = stdin[1]
    BY <1>1, <2>1 DEF Written
  <2>3. QED
    BY <1>2, <2>2 DEF Left
<1>3. CASE stdin = <<>> /\ stdin' # <<>>
  <2>1. Len(stdin) = 0 /\ 1 \in DOMAIN stdin' /\ 1 \in 1 .. Len(w)
    BY <1>1, <1>3
  <2>6. stdin'[Len(stdin) + 1] = [line |-> Len(sent) + 1, col |-> 1, byte |-> w[1]]
    BY <2>1, Zenon DEF Written
  <2>7. Len(stdin) + 1 = 1
    BY <2>1
  <2>2. stdin'[1] = [line |-> Len(sent) + 1, col |-> 1, byte |-> w[1]]
    BY <2>6, <2>7, Zenon
  <2>3. stdin'[1].line = Len(sent) + 1 /\ stdin'[1].col = 1
    BY <2>2
  <2>4. Left = Len(sent) + 1 /\ Left' = stdin'[1].line
    BY <1>3 DEF Left
  <2>5. QED
    BY <1>3, <2>3, <2>4
<1>4. CASE stdin = <<>> /\ stdin' = <<>>
  <2>1. Len(w) = 0
    BY <1>1, <1>4
  <2>2. w = l /\ eof' /\ l = <<>>
    <3>1. Len(Append(l, "n")) = Len(l) + 1 /\ Len(l) \in Nat
      BY <1>1
    <3>2. w # Append(l, "n")
      <4>1. SUFFICES ASSUME w = Append(l, "n") PROVE FALSE
        OBVIOUS
      <4>2. Len(w) = Len(l) + 1
        BY <3>1, <4>1, Zenon
      <4>3. QED
        BY <2>1, <3>1, <4>2
    <3>3. w = l /\ eof'
      BY <3>2, Zenon
    <3>4. l = <<>>
      BY <1>1, <2>1, <3>3
    <3>5. QED
      BY <3>3, <3>4
  <2>3. Left = Len(sent) + 1 /\ Left' = Len(sent) + 2
    BY <1>1, <1>4 DEF Left
  <2>4. QED
    BY <1>4, <2>2, <2>3
<1>5. QED
  BY <1>2, <1>3, <1>4

\* What has been settled stays settled when the host writes.
LEMMA WritePaid ==
    ASSUME TypeOK, NEW l \in Lines, NEW w, Written(l, w), responses' = responses
    PROVE  \A i : Paid(i) => Paid(i)'
<1> SUFFICES ASSUME NEW i, Paid(i) PROVE Paid(i)'
  OBVIOUS
<1>1. CASE Answered(i)
  BY <1>1 DEF Paid, Answered
<1>2. CASE i - 1 \in DOMAIN sent /\ Swallows(sent[i - 1])
  <2>1. i - 1 \in DOMAIN sent' /\ sent'[i - 1] = sent[i - 1]
    BY <1>2, Types DEF Written
  <2>2. QED
    BY <1>2, <2>1 DEF Paid
<1>3. QED
  BY <1>1, <1>2 DEF Paid

\* The requests there are, and those a new line adds.
LEMMA WriteRequests ==
    ASSUME TypeOK, NEW l \in Lines, NEW w, Written(l, w)
    PROVE  /\ \A i \in Requests(sent) : i \in Requests(sent')
           /\ \A i \in Requests(sent') : \/ i \in Requests(sent)
                                         \/ i = Len(sent) + 1 /\ ~Blank(l)
<1>1. /\ Len(sent) \in Nat /\ DOMAIN sent = 1 .. Len(sent) /\ DOMAIN sent' = 1 .. Len(sent) + 1
      /\ sent'[Len(sent) + 1] = l /\ \A i \in 1 .. Len(sent) : sent'[i] = sent[i]
  BY Types DEF Written
<1>2. QED
  BY <1>1 DEF Requests

\* Writing a line keeps the invariant.
LEMMA WriteStep ==
    ASSUME Inv, ~eof, NEW l \in Lines, NEW w, Written(l, w), eof' \in BOOLEAN,
           (w = Append(l, "n") /\ eof' = eof) \/ (w = l /\ eof'),
           UNCHANGED <<stdoutOpen, pc, line, responses>>
    PROVE  Inv'
<1> DEFINE n == Len(sent)
<1>1. /\ TypeOK /\ StreamInv /\ LastInv /\ PastInv /\ ReadInv /\ DrainInv /\ DoneInv
      /\ InOrderAtMostOnce /\ AnswersWholeLines
  BY DEF Inv
<1>2. /\ n \in Nat /\ DOMAIN sent = 1 .. n /\ DOMAIN sent' = 1 .. n + 1 /\ Len(sent') = n + 1
      /\ Left \in 1 .. n + 1 /\ Left \in Nat /\ l \in Seq(Text)
      /\ \A i \in 1 .. n : sent'[i] = sent[i]
  BY <1>1, Types, LeftType, StdioAssumption DEF Written
<1>3. /\ \/ Left' = Left
         \/ /\ stdin = <<>> /\ stdin' = <<>> /\ eof' /\ l = <<>>
            /\ Left = n + 1 /\ Left' = n + 2
      /\ stdin # <<>> => stdin' # <<>> /\ stdin'[1] = stdin[1]
      /\ stdin = <<>> /\ stdin' # <<>> => stdin'[1].line = n + 1 /\ stdin'[1].col = 1
  BY <1>1, WriteLeft, Zenon
<1>4. /\ \A i \in Requests(sent) : i \in Requests(sent') /\ i \in 1 .. n
      /\ \A i \in Requests(sent') : i \in Requests(sent) \/ (i = n + 1 /\ ~Blank(l))
      /\ \A i : Paid(i) => Paid(i)'
  BY <1>1, <1>2, WriteRequests, WritePaid DEF Requests
<1>5. ASSUME NEW i \in Requests(sent'), i < Left' PROVE i \in Requests(sent) /\ i < Left
  <2>1. CASE Left' = Left
    BY <1>2, <1>4, <1>5, <2>1
  <2>2. CASE l = <<>> /\ Left = n + 1
    <3>1. Blank(l)
      BY <2>2 DEF Blank
    <3>2. QED
      BY <1>2, <1>4, <1>5, <2>2, <3>1
  <2>3. QED
    BY <1>3, <2>1, <2>2
<1>6. TypeOK'
  BY <1>1 DEF TypeOK, Written
<1>7. StreamInv' /\ LastInv'
  BY <1>1, WriteStream, WriteLast, Zenon
<1>8. PastInv'
  <2>1. Left' \in Nat /\ Left <= Left'
    BY <1>2, <1>3
  <2>2. \A k \in DOMAIN responses : responses[k].line \in 1 .. Left - 1
    BY <1>1 DEF PastInv
  <2>3. \A k \in DOMAIN responses : responses[k].line \in 1 .. Left' - 1
    BY <1>2, <2>1, <2>2
  <2>4. QED
    BY <2>3 DEF PastInv
<1>9. ReadInv'
  <2>1. SUFFICES ASSUME pc = "read"
                 PROVE  /\ stdin' # <<>> =>
                             /\ \E k \in 0 .. stdin'[1].col : stdin'[1].col = k * Limit + 1
                             /\ Blank(Take(sent'[stdin'[1].line], stdin'[1].col - 1))
                        /\ \A i \in Requests(sent') : i < Left' => Paid(i)'
    BY DEF ReadInv
  <2>2. \A i \in Requests(sent') : i < Left' => Paid(i)'
    BY <1>1, <1>4, <1>5, <2>1 DEF ReadInv
  <2>3. CASE stdin # <<>>
    <3>1. stdin[1].line \in 1 .. n
      <4>1. 1 \in DOMAIN stdin
        BY <1>1, <2>3, Types
      <4>2. QED
        BY <1>1, <1>2, <4>1 DEF StreamInv
    <3>2. stdin'[1] = stdin[1] /\ sent'[stdin[1].line] = sent[stdin[1].line]
      BY <1>2, <1>3, <2>3, <3>1
    <3>3. /\ \E k \in 0 .. stdin[1].col : stdin[1].col = k * Limit + 1
          /\ Blank(Take(sent[stdin[1].line], stdin[1].col - 1))
      BY <1>1, <2>1, <2>3 DEF ReadInv
    <3>4. QED
      BY <2>2, <3>2, <3>3
  <2>4. CASE stdin = <<>> /\ stdin' # <<>>
    <3>1. stdin'[1].col = 1 /\ stdin'[1].line = n + 1 /\ sent'[n + 1] = l
      BY <1>3, <2>4 DEF Written
    <3>2. 0 \in 0 .. 1 /\ 1 = 0 * Limit + 1
      BY <1>1, Types
    <3>3. Blank(Take(l, 1 - 1))
      <4>1. 1 - 1 \in 0 .. Len(l) /\ 1 - 1 = 0
        BY <1>2
      <4>2. DOMAIN Take(l, 1 - 1) = 1 .. (1 - 1)
        BY <1>2, <4>1, TakeFacts
      <4>3. QED
        BY <4>1, <4>2 DEF Blank
    <3>4. QED
      BY <2>2, <3>1, <3>2, <3>3
  <2>5. QED
    BY <2>2, <2>3, <2>4
<1>10. DrainInv'
  <2> DEFINE i == line[1].line
  <2>1. SUFFICES ASSUME pc = "drain" PROVE DrainInv'
    BY DEF DrainInv
  <2>2. /\ Len(line) > MaxRequestBytes /\ \A k \in DOMAIN line : line[k].byte # "n"
        /\ i \in DOMAIN sent /\ \A k \in DOMAIN responses : responses[k].line < i
        /\ \A j \in Requests(sent) : j < Left => Paid(j) \/ j = i
        /\ i \in Requests(sent)
        /\ \/ Left = i \/ (stdin = <<>> /\ eof)
           \/ Swallows(sent[i]) /\ Left = i + 1
    BY <1>1, <2>1 DEF DrainInv
  <2> HIDE DEF i
  <2>3. i \in DOMAIN sent' /\ sent'[i] = sent[i] /\ i \in Requests(sent')
    BY <1>2, <1>4, <2>2
  <2>4. \A j \in Requests(sent') : j < Left' => Paid(j)' \/ j = i
    BY <1>4, <1>5, <2>2
  <2>5. \/ Left' = i \/ (stdin' = <<>> /\ eof')
        \/ Swallows(sent'[i]) /\ Left' = i + 1
    <3>1. Left = i \/ (Swallows(sent[i]) /\ Left = i + 1)
      BY <2>2
    <3>2. CASE Left' = Left
      BY <2>3, <3>1, <3>2, Zenon
    <3>3. CASE stdin' = <<>> /\ eof'
      BY <3>3
    <3>4. QED
      BY <1>3, <3>2, <3>3, Zenon
  <2>6. line' = line /\ responses' = responses /\ line'[1].line = i
    BY DEF i
  <2>7. QED
    BY <2>2, <2>3, <2>4, <2>5, <2>6 DEF DrainInv
<1>11. DoneInv'
  BY <1>1 DEF DoneInv
<1>12. InOrderAtMostOnce'
  BY <1>1 DEF InOrderAtMostOnce
<1>13. AnswersWholeLines'
  <2>1. \A k \in DOMAIN responses : sent'[responses[k].line] = sent[responses[k].line]
    BY <1>1, <1>2 DEF PastInv
  <2>2. QED
    BY <1>1, <2>1 DEF AnswersWholeLines
<1>14. QED
  BY <1>6, <1>7, <1>8, <1>9, <1>10, <1>11, <1>12, <1>13 DEF Inv

\* So does everything the host does.
LEMMA HostKeepsInv ==
    ASSUME Inv, HostStep
    PROVE  Inv'
<1>1. ASSUME NEW l \in Lines, HostWrite(l) PROVE Inv'
  <2>1. Written(l, Append(l, "n"))
    BY <1>1, WriteFacts DEF HostWrite, Inv
  <2>2. eof' \in BOOLEAN /\ eof' = eof /\ ~eof /\ UNCHANGED <<stdoutOpen, pc, line, responses>>
    BY <1>1 DEF HostWrite, Inv, TypeOK
  <2>3. QED
    BY <2>1, <2>2, WriteStep, Zenon
<1>2. ASSUME NEW l \in Lines, HostWriteLast(l) PROVE Inv'
  <2>1. Written(l, l)
    BY <1>2, WriteFacts DEF HostWriteLast, Inv
  <2>2. eof' \in BOOLEAN /\ eof' /\ ~eof /\ UNCHANGED <<stdoutOpen, pc, line, responses>>
    BY <1>2 DEF HostWriteLast
  <2>3. QED
    BY <2>1, <2>2, WriteStep, Zenon
<1>3. CASE HostClose
  <2>1. ~eof /\ eof' = TRUE /\ UNCHANGED <<sent, stdin, stdoutOpen, pc, line, responses>>
    BY <1>3 DEF HostClose
  <2>2. TypeOK' /\ StreamInv' /\ PastInv' /\ ReadInv' /\ InOrderAtMostOnce' /\ AnswersWholeLines'
    BY <2>1 DEF Inv, TypeOK, StreamInv, Newline, PastInv, ReadInv, InOrderAtMostOnce,
                AnswersWholeLines, Left, Requests, Paid, Answered
  <2>3. LastInv'
    BY <2>1 DEF Inv, LastInv, Newline
  <2>4. DrainInv'
    BY <2>1 DEF Inv, DrainInv, Left, Requests, Paid, Answered
  <2>5. DoneInv'
    BY <2>1 DEF Inv, DoneInv
  <2>6. QED
    BY <2>2, <2>3, <2>4, <2>5 DEF Inv
<1>4. CASE HostHangUp
  <2>1. stdoutOpen' = FALSE /\ UNCHANGED <<sent, stdin, eof, pc, line, responses>>
    BY <1>4 DEF HostHangUp
  <2>2. TypeOK'
    BY <2>1 DEF Inv, TypeOK
  <2>3. StreamInv' /\ PastInv' /\ ReadInv' /\ InOrderAtMostOnce' /\ AnswersWholeLines'
    BY <2>1 DEF Inv, StreamInv, Newline, PastInv, ReadInv, InOrderAtMostOnce,
                AnswersWholeLines, Left, Requests, Paid, Answered
  <2>4. LastInv' /\ DoneInv'
    BY <2>1 DEF Inv, LastInv, DoneInv, Newline, Requests, Paid, Answered
  <2>5. DrainInv'
    BY <2>1 DEF Inv, DrainInv, Left, Requests, Paid, Answered
  <2>6. QED
    BY <2>2, <2>3, <2>4, <2>5 DEF Inv
<1>5. QED
  BY <1>1, <1>2, <1>3, <1>4 DEF HostStep

-----------------------------------------------------------------------------
(* The steps of the daemon *)

\* Taking bytes off the front leaves a stream.
LEMMA ConsumeStream ==
    ASSUME TypeOK, StreamInv, LastInv, NEW m \in 0 .. Len(stdin), stdin' = Drop(stdin, m),
           sent' = sent, eof' = eof
    PROVE  /\ stdin' \in Seq(TaggedByte) /\ Len(stdin') = Len(stdin) - m
           /\ \A p \in 1 .. Len(stdin') : stdin'[p] = stdin[p + m]
           /\ StreamInv' /\ LastInv'
<1> DEFINE K == Len(stdin')
<1>1. /\ stdin \in Seq(TaggedByte) /\ Len(stdin) \in Nat /\ DOMAIN stdin = 1 .. Len(stdin)
      /\ \A p \in DOMAIN stdin : stdin[p].line \in Nat /\ stdin[p].col \in Nat
  BY Types DEF TypeOK
<1>2. /\ stdin' \in Seq(TaggedByte) /\ K = Len(stdin) - m /\ DOMAIN stdin' = 1 .. K
      /\ \A p \in 1 .. K : stdin'[p] = stdin[p + m]
  BY <1>1, DropFacts
<1>3. K \in Nat /\ \A p \in 1 .. K : p + m \in DOMAIN stdin
  BY <1>1, <1>2
<1> HIDE DEF K
<1>4. StreamInv'
  <2>1. ASSUME NEW p \in DOMAIN stdin'
        PROVE  /\ stdin'[p].line \in DOMAIN sent
               /\ stdin'[p].col \in 1 .. Len(sent[stdin'[p].line]) + 1
               /\ stdin'[p].byte = Append(sent[stdin'[p].line], "n")[stdin'[p].col]
    <3>1. p + m \in DOMAIN stdin /\ stdin'[p] = stdin[p + m]
      BY <1>2, <1>3, <2>1
    <3>2. /\ stdin[p + m].line \in DOMAIN sent
          /\ stdin[p + m].col \in 1 .. Len(sent[stdin[p + m].line]) + 1
          /\ stdin[p + m].byte = Append(sent[stdin[p + m].line], "n")[stdin[p + m].col]
      BY <3>1, Zenon DEF StreamInv
    <3>3. QED
      BY <3>1, <3>2
  <2>2. ASSUME NEW p \in DOMAIN stdin', NEW q \in DOMAIN stdin', p < q
        PROVE  \/ stdin'[p].line < stdin'[q].line
               \/ stdin'[p].line = stdin'[q].line /\ stdin'[p].byte # "n"
    <3>1. p + m \in DOMAIN stdin /\ q + m \in DOMAIN stdin /\ p + m < q + m
      BY <1>2, <1>3, <2>2
    <3>2. \/ stdin[p + m].line < stdin[q + m].line
          \/ stdin[p + m].line = stdin[q + m].line /\ ~Newline(p + m)
      BY <3>1 DEF StreamInv
    <3>3. QED
      BY <1>2, <3>2 DEF Newline
  <2>3. ASSUME NEW p \in DOMAIN stdin', NEW q \in DOMAIN stdin', p < q,
               \A j \in p .. q - 1 : stdin'[j].byte # "n"
        PROVE  stdin'[q].line = stdin'[p].line /\ stdin'[q].col = stdin'[p].col + (q - p)
    <3>1. p + m \in DOMAIN stdin /\ q + m \in DOMAIN stdin /\ p + m < q + m
          /\ (q + m) - (p + m) = q - p /\ p \in Nat /\ q \in Nat
      BY <1>2, <1>3, <2>3
    <3>2. \A j \in p + m .. (q + m) - 1 : ~Newline(j)
      <4>1. SUFFICES ASSUME NEW j \in p + m .. (q + m) - 1 PROVE ~Newline(j)
        OBVIOUS
      <4>2. j - m \in p .. q - 1 /\ j - m \in 1 .. K /\ (j - m) + m = j
        <5>1. m \in Nat /\ p \in 1 .. K /\ q \in 1 .. K
          BY <1>2
        <5>2. j \in Nat /\ p + m <= j /\ j < q + m /\ p \in Nat /\ q \in Nat /\ q <= K
          BY <1>3, <3>1, <5>1
        <5>3. QED
          BY <1>3, <5>1, <5>2
      <4>3. QED
        BY <1>2, <2>3, <4>2 DEF Newline
    <3>3. /\ stdin[q + m].line = stdin[p + m].line
          /\ stdin[q + m].col = stdin[p + m].col + ((q + m) - (p + m))
      BY <3>1, <3>2 DEF StreamInv
    <3>4. QED
      BY <1>2, <3>1, <3>3
  <2>4. ASSUME NEW p \in DOMAIN stdin', p + 1 \in DOMAIN stdin', stdin'[p].byte = "n"
        PROVE  stdin'[p + 1].line = stdin'[p].line + 1 /\ stdin'[p + 1].col = 1
    <3>1. p + m \in DOMAIN stdin /\ (p + m) + 1 \in DOMAIN stdin /\ Newline(p + m)
          /\ (p + 1) + m = (p + m) + 1
      BY <1>2, <1>3, <2>4 DEF Newline
    <3>2. stdin[(p + m) + 1].line = stdin[p + m].line + 1 /\ stdin[(p + m) + 1].col = 1
      BY <3>1 DEF StreamInv
    <3>3. QED
      BY <1>2, <2>4, <3>1, <3>2
  <2>5. QED
    BY <2>1, <2>2, <2>3, <2>4 DEF StreamInv, Newline
<1>5. LastInv'
  <2>1. SUFFICES ASSUME stdin' # <<>> PROVE LastInv'
    BY DEF LastInv
  <2>2. K \in 1 .. K /\ K + m = Len(stdin) /\ stdin # <<>>
    BY <1>1, <1>2, <1>3, <2>1
  <2>3. stdin'[Len(stdin')] = stdin[Len(stdin)]
    BY <1>2, <2>2 DEF K
  <2>4. QED
    BY <2>2, <2>3 DEF LastInv, Newline
<1>6. QED
  BY <1>2, <1>4, <1>5 DEF K

\* A read that takes m > 0 bytes takes bytes of line L, which is b, from column c on.
Piece(limit, m, L, c, b) ==
    /\ L \in DOMAIN sent /\ L \in 1 .. Len(sent)
    /\ b = sent[L] /\ b \in Seq(Text) /\ Len(b) \in Nat
    /\ c \in 1 .. Len(b) + 1 /\ c \in Nat /\ m \in 1 .. Len(stdin) /\ m \in Nat /\ m <= limit
    /\ stdin # <<>> /\ Left = L
    /\ Take(stdin, m) \in Seq(TaggedByte) /\ Len(Take(stdin, m)) = m
    /\ \A p \in 1 .. m : Take(stdin, m)[p].line = L /\ c + p - 1 \in 1 .. Len(b) + 1
    /\ \A p \in 1 .. m : c + p - 1 <= Len(b) => /\ Take(stdin, m)[p].byte = b[c + p - 1]
                                                /\ Take(stdin, m)[p].byte # "n"
    /\ \A p \in 1 .. m : Take(stdin, m)[p].byte # "n" => c + p - 1 <= Len(b)
    /\ \A p \in 1 .. m - 1 : Take(stdin, m)[p].byte # "n"
    /\ Newline(m) <=> c + m - 1 = Len(b) + 1
    /\ EndsWith(Take(stdin, m), "n") <=> Newline(m)

\* Such a read is a piece of one line.
LEMMA Taken ==
    ASSUME TypeOK, StreamInv, NEW limit \in Nat \ {0}, NEW m, m = ReadLength(limit), m > 0,
           NEW L, L = stdin[1].line, NEW c, c = stdin[1].col, NEW b, b = sent[L]
    PROVE  Piece(limit, m, L, c, b)
<1> DEFINE s == Take(stdin, m)
<1>1. /\ m \in 0 .. Len(stdin) /\ m <= limit /\ \A p \in 1 .. m - 1 : ~Newline(p)
  BY ReadLengthFacts
<1>2. /\ Len(stdin) \in Nat /\ DOMAIN stdin = 1 .. Len(stdin) /\ stdin \in Seq(TaggedByte)
  BY Types DEF TypeOK
<1>3. m \in 1 .. Len(stdin) /\ m \in DOMAIN stdin /\ 1 \in DOMAIN stdin /\ stdin # <<>> /\ m \in Nat
  BY <1>1, <1>2
<1>4. Left = L
  BY <1>3 DEF Left
<1>5. /\ L \in DOMAIN sent /\ c \in 1 .. Len(b) + 1 /\ c \in Nat
  BY <1>3, Types DEF StreamInv
<1>6. L \in 1 .. Len(sent) /\ b \in Seq(Text) /\ Len(b) \in Nat
  BY <1>5, Types
<1>7. /\ s \in Seq(TaggedByte) /\ Len(s) = m /\ \A p \in 1 .. m : s[p] = stdin[p]
  BY <1>1, <1>2, TakeFacts
<1> HIDE DEF s
<1>8. \A p \in 1 .. m : stdin[p].line = L /\ stdin[p].col = c + (p - 1)
  BY <1>1, <1>3, OneLine
<1>9. ASSUME NEW p \in 1 .. m
      PROVE  /\ s[p].line = L /\ c + p - 1 \in 1 .. Len(b) + 1
             /\ s[p].byte = Append(b, "n")[c + p - 1]
  <2>1. p \in DOMAIN stdin /\ s[p] = stdin[p] /\ stdin[p].line = L /\ stdin[p].col = c + p - 1
    BY <1>2, <1>3, <1>5, <1>7, <1>8, <1>9
  <2>2. QED
    BY <2>1 DEF StreamInv
<1>10. \A i \in 1 .. Len(b) : Append(b, "n")[i] = b[i] /\ b[i] # "n"
  <2>1. \A i \in 1 .. Len(b) : b[i] \in Text /\ "n" \notin Text
    BY <1>6 DEF Text
  <2>2. QED
    BY <1>6, <2>1
<1>11. Append(b, "n")[Len(b) + 1] = "n"
  BY <1>6
<1>12. ASSUME NEW p \in 1 .. m, c + p - 1 <= Len(b)
       PROVE  s[p].byte = b[c + p - 1] /\ s[p].byte # "n"
  <2>1. c + p - 1 \in 1 .. Len(b)
    BY <1>6, <1>9, <1>12
  <2>2. QED
    BY <1>9, <1>10, <2>1
<1>13. ASSUME NEW p \in 1 .. m, s[p].byte # "n" PROVE c + p - 1 <= Len(b)
  <2>1. c + p - 1 # Len(b) + 1
    BY <1>9, <1>11, <1>13
  <2>2. c + p - 1 \in 1 .. Len(b) + 1
    BY <1>9, <1>13
  <2>3. QED
    BY <1>6, <2>1, <2>2
<1>14. \A p \in 1 .. m - 1 : s[p].byte # "n"
  BY <1>1, <1>3, <1>7 DEF Newline
<1>15. Newline(m) <=> s[m].byte = "n"
  BY <1>3, <1>7 DEF Newline
<1>16. Newline(m) <=> c + m - 1 = Len(b) + 1
  <2>1. m \in 1 .. m
    BY <1>3
  <2>2. s[m].byte = "n" <=> c + m - 1 = Len(b) + 1
    <3>1. c + m - 1 \in 1 .. Len(b) + 1
      BY <1>9, <2>1
    <3>2. c + m - 1 <= Len(b) => s[m].byte # "n"
      BY <1>12, <2>1
    <3>3. s[m].byte # "n" => c + m - 1 <= Len(b)
      BY <1>13, <2>1
    <3>4. QED
      BY <1>6, <3>1, <3>2, <3>3
  <2>3. QED
    BY <1>15, <2>2, Zenon
<1>17. EndsWith(s, "n") <=> Newline(m)
  <2>1. s # <<>>
    BY <1>3, <1>7
  <2>2. QED
    BY <1>7, <1>15, <2>1 DEF EndsWith
<1>18. QED
  BY <1>1, <1>3, <1>4, <1>5, <1>6, <1>7, <1>9, <1>12, <1>13, <1>14, <1>16, <1>17 DEF s, Piece

\* Where such a read leaves off: inside line L, because it took as much as it may,
\* or behind it.
Inside(limit, m, L, c) ==
    /\ ~Newline(m) /\ m = limit /\ Left' = L /\ stdin' # <<>>
    /\ stdin'[1].line = L /\ stdin'[1].col = c + m

Behind(m, L, c, b) ==
    /\ Left' > L /\ Left' \in Nat
    /\ Newline(m) \/ (~Newline(m) /\ eof /\ stdin' = <<>> /\ c + m - 1 = Len(b))
    /\ stdin' # <<>> => stdin'[1].line = L + 1 /\ stdin'[1].col = 1
    /\ \A j \in Requests(sent) : j < Left' => j <= L
    /\ Left' = L + 1 \/ (stdin' = <<>> /\ eof)

\* There is no third case.
LEMMA Moved ==
    ASSUME TypeOK, StreamInv, LastInv,
           NEW limit \in Nat \ {0}, NEW m, m = ReadLength(limit), m > 0,
           NEW L, L = stdin[1].line, NEW c, c = stdin[1].col, NEW b, b = sent[L],
           stdin' = Drop(stdin, m), sent' = sent, eof' = eof
    PROVE  Inside(limit, m, L, c) \/ Behind(m, L, c, b)
<1>1. /\ m \in 0 .. Len(stdin) /\ \A p \in 1 .. m - 1 : ~Newline(p)
      /\ Newline(m) \/ m = limit \/ (eof /\ m = Len(stdin))
  BY ReadLengthFacts
<1>2. /\ Len(stdin) \in Nat /\ DOMAIN stdin = 1 .. Len(stdin) /\ m \in 1 .. Len(stdin)
      /\ m \in Nat /\ 1 \in DOMAIN stdin /\ m \in DOMAIN stdin
      /\ stdin[m].line \in Nat /\ stdin[m].col \in Nat
      /\ L \in Nat /\ c \in Nat /\ Len(sent) \in Nat /\ L \in 1 .. Len(sent)
      /\ DOMAIN sent = 1 .. Len(sent)
  <2>1. /\ Len(stdin) \in Nat /\ DOMAIN stdin = 1 .. Len(stdin) /\ Len(sent) \in Nat
        /\ DOMAIN sent = 1 .. Len(sent)
        /\ \A p \in DOMAIN stdin : stdin[p].line \in Nat /\ stdin[p].col \in Nat
    BY Types
  <2>2. Piece(limit, m, L, c, b)
    BY Taken
  <2>3. m \in 1 .. Len(stdin) /\ m \in Nat /\ c \in Nat /\ L \in 1 .. Len(sent)
    BY <2>2 DEF Piece
  <2>4. 1 \in DOMAIN stdin /\ m \in DOMAIN stdin /\ L \in Nat
    BY <2>1, <2>3
  <2>5. QED
    BY <2>1, <2>3, <2>4
<1>3. stdin[m].line = L /\ stdin[m].col = c + (m - 1) /\ c + (m - 1) = c + m - 1
  <2>1. m \in 1 .. m
    BY <1>2
  <2>2. \A p \in 1 .. m : stdin[p].line = stdin[1].line /\ stdin[p].col = stdin[1].col + (p - 1)
    BY <1>1, <1>2, OneLine, Zenon
  <2>3. stdin[m].line = L /\ stdin[m].col = c + (m - 1)
    BY <2>1, <2>2, Zenon
  <2>4. c + (m - 1) = c + m - 1
    BY <1>2
  <2>5. QED
    BY <2>3, <2>4
<1>4. /\ stdin' \in Seq(TaggedByte) /\ Len(stdin') = Len(stdin) - m
      /\ \A p \in 1 .. Len(stdin') : stdin'[p] = stdin[p + m]
  BY <1>1, ConsumeStream
<1>5. CASE stdin' # <<>>
  <2>1. m + 1 \in DOMAIN stdin /\ stdin'[1] = stdin[m + 1] /\ m # Len(stdin)
        /\ stdin[m + 1].line \in Nat
    <3>1. Len(stdin') > 0 /\ 1 \in 1 .. Len(stdin')
      BY <1>4, <1>5
    <3>2. 1 + m = m + 1 /\ m + 1 \in DOMAIN stdin /\ m # Len(stdin)
      BY <1>2, <1>4, <3>1
    <3>3. QED
      BY <1>4, <3>1, <3>2, Types
  <2>2. Left' = stdin[m + 1].line
    BY <1>5, <2>1 DEF Left
  <2>3. CASE Newline(m)
    <3>1. stdin[m + 1].line = L + 1 /\ stdin[m + 1].col = 1
      <4>1. stdin[m + 1].line = stdin[m].line + 1 /\ stdin[m + 1].col = 1
        BY <1>2, <2>1, <2>3 DEF StreamInv
      <4>2. QED
        BY <1>3, <4>1
    <3>2. \A j \in Requests(sent) : j < Left' => j <= L
      BY <1>2, <2>2, <3>1 DEF Requests
    <3>3. Left' = L + 1 /\ Left' > L /\ Left' \in Nat
      BY <1>2, <2>2, <3>1
    <3>4. stdin'[1].line = L + 1 /\ stdin'[1].col = 1
      BY <2>1, <3>1
    <3>5. QED
      BY <2>3, <3>2, <3>3, <3>4, Zenon DEF Behind
  <2>4. CASE ~Newline(m)
    <3>1. \A p \in 1 .. (m + 1) - 1 : ~Newline(p)
      <4>1. SUFFICES ASSUME NEW p \in 1 .. (m + 1) - 1 PROVE ~Newline(p)
        OBVIOUS
      <4>2. p = m \/ p \in 1 .. m - 1
        BY <1>2
      <4>3. QED
        BY <1>1, <2>4, <4>2
    <3>2. stdin[m + 1].line = stdin[1].line /\ stdin[m + 1].col = stdin[1].col + ((m + 1) - 1)
      <4>1. m + 1 \in 1 .. m + 1
        BY <1>2
      <4>2. \A p \in 1 .. m + 1 : /\ stdin[p].line = stdin[1].line
                                  /\ stdin[p].col = stdin[1].col + (p - 1)
        BY <2>1, <3>1, OneLine, Zenon
      <4>3. QED
        BY <4>1, <4>2, Zenon
    <3>3. (m + 1) - 1 = m
      BY <1>2
    <3>4. stdin'[1].line = L /\ stdin'[1].col = c + m /\ Left' = L
      BY <2>1, <2>2, <3>2, <3>3
    <3>5. m = limit
      BY <1>1, <2>1, <2>4
    <3>6. QED
      BY <1>5, <2>4, <3>4, <3>5, Zenon DEF Inside
  <2>5. QED
    BY <2>3, <2>4
<1>6. CASE stdin' = <<>>
  <2>1. m = Len(stdin) /\ stdin # <<>>
    BY <1>2, <1>4, <1>6
  <2>2. Left' = Len(sent) + 1
    BY <1>6 DEF Left
  <2>3. Newline(m) \/ (~Newline(m) /\ eof /\ c + m - 1 = Len(b))
    <3>1. Newline(m) \/ (eof /\ stdin[m].col = Len(sent[stdin[m].line]))
      BY <2>1, Zenon DEF LastInv
    <3>2. QED
      BY <1>3, <3>1, Zenon
  <2>4. L = Len(sent) \/ (eof /\ L + 1 = Len(sent) /\ sent[Len(sent)] = <<>>)
    <3>1. \/ stdin[m].line = Len(sent)
          \/ eof /\ stdin[m].line + 1 = Len(sent) /\ sent[Len(sent)] = <<>>
      BY <2>1, Zenon DEF LastInv
    <3>2. QED
      BY <1>3, <3>1, Zenon
  <2>5. Left' > L /\ Left' \in Nat
    BY <1>2, <2>2
  <2>6. \A j \in Requests(sent) : j < Left' => j <= L
    <3>1. CASE L = Len(sent)
      BY <1>2, <2>2, <3>1 DEF Requests
    <3>2. CASE L + 1 = Len(sent) /\ sent[Len(sent)] = <<>>
      <4>1. L + 1 \notin Requests(sent)
        <5>1. Blank(<<>>)
          BY DEF Blank
        <5>2. QED
          BY <3>2, <5>1 DEF Requests
      <4>2. SUFFICES ASSUME NEW j \in Requests(sent), j < Left' PROVE j <= L
        OBVIOUS
      <4>3. j \in 1 .. Len(sent) /\ j # L + 1
        BY <1>2, <4>1 DEF Requests
      <4>4. QED
        BY <1>2, <3>2, <4>3
    <3>3. QED
      BY <2>4, <3>1, <3>2
  <2>7. Left' = L + 1 \/ eof
    BY <2>2, <2>4, Zenon
  <2>8. QED
    BY <1>6, <2>3, <2>5, <2>6, <2>7, Zenon DEF Behind
<1>7. QED
  BY <1>5, <1>6, Zenon

\* What has been settled stays settled when the daemon responds.
LEMMA RespondPaid ==
    ASSUME TypeOK, sent' = sent, NEW r, responses' = Append(responses, r)
    PROVE  /\ \A i : Paid(i) => Paid(i)'
           /\ Paid(r.line)'
<1>1. /\ Len(responses) \in Nat /\ DOMAIN responses = 1 .. Len(responses)
      /\ responses \in Seq(Responses)
  BY Types DEF TypeOK
<1>2. /\ DOMAIN responses' = 1 .. Len(responses) + 1 /\ responses'[Len(responses) + 1] = r
      /\ \A k \in 1 .. Len(responses) : responses'[k] = responses[k]
  BY <1>1
<1>3. \A i : Answered(i) => Answered(i)'
  BY <1>1, <1>2 DEF Answered
<1>4. Answered(r.line)'
  BY <1>1, <1>2 DEF Answered
<1>5. QED
  BY <1>3, <1>4 DEF Paid

\* A response to no more than MAX + 1 bytes keeps the bound on what is handled.
LEMMA RespondBound ==
    ASSUME TypeOK, NEW r \in Responses, responses' = Append(responses, r),
           Len(r.text) <= MaxRequestBytes + 1
    PROVE  \A k \in DOMAIN responses' :
             Len(responses'[k].text) <= MaxRequestBytes + 1
<1>1. /\ responses \in Seq(Responses) /\ DOMAIN responses = 1 .. Len(responses)
      /\ Len(responses) \in Nat
      /\ \A k \in DOMAIN responses :
           Len(responses[k].text) <= MaxRequestBytes + 1
  BY DEF TypeOK
<1>2. /\ DOMAIN responses' = 1 .. Len(responses) + 1
      /\ responses'[Len(responses) + 1] = r
      /\ \A k \in 1 .. Len(responses) : responses'[k] = responses[k]
  BY <1>1
<1>3. QED
  BY <1>1, <1>2

\* A response for a line after those answered, and left behind, keeps the order.
LEMMA RespondOrder ==
    ASSUME Inv, sent' = sent, NEW r \in Responses, responses' = Append(responses, r),
           \A k \in DOMAIN responses : responses[k].line < r.line,
           r.kind = "answer" => r.text = Trim(sent[r.line]) /\ Len(r.text) <= MaxRequestBytes,
           Left' \in Nat, Left <= Left', r.line \in 1 .. Left' - 1
    PROVE  /\ responses' \in Seq(Responses) /\ InOrderAtMostOnce' /\ AnswersWholeLines'
           /\ PastInv'
<1>0. TypeOK /\ PastInv /\ InOrderAtMostOnce /\ AnswersWholeLines /\ StreamInv
  BY DEF Inv
<1>1. /\ Len(responses) \in Nat /\ DOMAIN responses = 1 .. Len(responses)
      /\ responses \in Seq(Responses) /\ \A k \in DOMAIN responses : responses[k].line \in Nat
      /\ Left \in Nat
  BY <1>0, Types, LeftType DEF TypeOK
<1>2. /\ responses' \in Seq(Responses) /\ DOMAIN responses' = 1 .. Len(responses) + 1
      /\ responses'[Len(responses) + 1] = r
      /\ \A k \in 1 .. Len(responses) : responses'[k] = responses[k]
  BY <1>1
<1>3. ASSUME NEW k \in DOMAIN responses'
      PROVE  \/ k \in DOMAIN responses /\ responses'[k] = responses[k]
             \/ k = Len(responses) + 1 /\ responses'[k] = r
  BY <1>1, <1>2, <1>3
<1>4. InOrderAtMostOnce'
  <2>1. SUFFICES ASSUME NEW i \in DOMAIN responses', NEW j \in DOMAIN responses', i < j
                 PROVE  responses'[i].line < responses'[j].line
    BY DEF InOrderAtMostOnce
  <2>2. i \in DOMAIN responses /\ responses'[i] = responses[i]
    BY <1>1, <1>2, <2>1
  <2>3. CASE j \in DOMAIN responses /\ responses'[j] = responses[j]
    BY <1>0, <2>1, <2>2, <2>3 DEF InOrderAtMostOnce
  <2>4. CASE responses'[j] = r
    BY <2>2, <2>4
  <2>5. QED
    BY <1>3, <2>3, <2>4
<1>5. AnswersWholeLines'
  BY <1>0, <1>3 DEF AnswersWholeLines
<1>6. PastInv'
  <2>1. SUFFICES ASSUME NEW k \in DOMAIN responses' PROVE responses'[k].line \in 1 .. Left' - 1
    BY DEF PastInv
  <2>2. CASE k \in DOMAIN responses /\ responses'[k] = responses[k]
    <3>1. responses[k].line \in 1 .. Left - 1
      BY <1>0, <2>2 DEF PastInv
    <3>2. QED
      BY <1>1, <2>2, <3>1
  <2>3. CASE responses'[k] = r
    BY <2>3
  <2>4. QED
    BY <1>3, <2>2, <2>3
<1>7. QED
  BY <1>2, <1>4, <1>5, <1>6

\* What the loop makes of the bytes taken: n bytes of line L without its newline.
Part(t, n, m, L, c, b) ==
    /\ t \in Seq(TaggedByte) /\ Len(t) = n /\ n \in 0 .. m /\ n \in Nat
    /\ \A p \in 1 .. n : t[p].line = L
    /\ Bytes(t) \in Seq(Text) /\ Len(Bytes(t)) = n
    /\ \A p \in 1 .. n : /\ c + p - 1 \in 1 .. Len(b) /\ Bytes(t)[p] = b[c + p - 1]
                         /\ t[p].byte = b[c + p - 1] /\ t[p].byte # "n"
    /\ \A p \in n + 1 .. m : c + p - 1 \in 1 .. Len(b) => b[c + p - 1] = "r"
    /\ ~Newline(m) => n = m
    /\ Newline(m) => \/ n = m - 1 /\ (n > 0 => b[c + n - 1] # "r")
                     \/ n = m - 2

\* What is stripped off a piece is its newline and a carriage return before it.
LEMMA Stripped ==
    ASSUME NEW limit, NEW m, NEW L, NEW c, NEW b, Piece(limit, m, L, c, b),
           NEW t, t = Strip(Take(stdin, m))
    PROVE  \E n \in 0 .. m : Part(t, n, m, L, c, b)
<1> DEFINE s == Take(stdin, m)
<1>1. /\ b \in Seq(Text) /\ Len(b) \in Nat /\ c \in Nat /\ m \in 1 .. Len(stdin)
      /\ s \in Seq(TaggedByte) /\ Len(s) = m
      /\ \A p \in 1 .. m : s[p].line = L /\ c + p - 1 \in 1 .. Len(b) + 1
      /\ \A p \in 1 .. m : c + p - 1 <= Len(b) => s[p].byte = b[c + p - 1] /\ s[p].byte # "n"
      /\ \A p \in 1 .. m : s[p].byte # "n" => c + p - 1 <= Len(b)
      /\ \A p \in 1 .. m - 1 : s[p].byte # "n"
      /\ EndsWith(s, "n") <=> Newline(m)
  BY Zenon DEF Piece
<1>11. m \in Nat
  BY DEF Piece
<1> HIDE DEF s
<1>2. PICK n \in 0 .. Len(s) :
             /\ Strip(s) = Take(s, n)
             /\ \A p \in n + 1 .. Len(s) : s[p].byte \in {"r", "n"}
             /\ \A p \in 1 .. n : s[p].byte # "n"
             /\ ~EndsWith(s, "n") => n = Len(s)
             /\ EndsWith(s, "n") => \/ n = Len(s) - 1 /\ (n > 0 => s[n].byte # "r")
                                    \/ n = Len(s) - 2
  BY <1>1, StripFacts
<1>3. n \in 0 .. m /\ n \in Nat /\ t = Take(s, n)
  BY <1>1, <1>11, <1>2 DEF s
<1>4. t \in Seq(TaggedByte) /\ Len(t) = n /\ \A p \in 1 .. n : t[p] = s[p]
  <2>1. n \in 0 .. Len(s)
    BY <1>2
  <2>2. s \in Seq(TaggedByte)
    BY <1>1
  <2>3. /\ Take(s, n) \in Seq(TaggedByte) /\ Len(Take(s, n)) = n
        /\ \A p \in 1 .. n : Take(s, n)[p] = s[p]
    BY <2>1, <2>2, TakeFacts
  <2>4. QED
    BY <1>3, <2>3
<1>5. ASSUME NEW p \in 1 .. n
      PROVE  /\ p \in 1 .. m /\ c + p - 1 \in 1 .. Len(b) /\ t[p].line = L
             /\ t[p].byte = b[c + p - 1] /\ t[p].byte # "n"
  <2>1. p \in 1 .. m
    BY <1>1, <1>11, <1>3
  <2>2. s[p].byte # "n" /\ c + p - 1 <= Len(b) /\ c + p - 1 \in 1 .. Len(b) + 1
    BY <1>1, <1>2, <2>1
  <2>3. c + p - 1 \in 1 .. Len(b)
    BY <1>1, <2>2
  <2>4. QED
    BY <1>1, <1>4, <2>1, <2>2, <2>3
<1>6. /\ Bytes(t) \in Seq(Text) /\ Len(Bytes(t)) = n
      /\ \A p \in 1 .. n : Bytes(t)[p] = b[c + p - 1]
  <2>1. Bytes(t) = [p \in 1 .. n |-> t[p].byte]
    BY <1>3, <1>4 DEF Bytes
  <2>7. \A i \in 1 .. Len(b) : b[i] \in Text
    BY <1>1
  <2>2. \A p \in 1 .. n : b[c + p - 1] \in Text
    BY <1>5, <2>7
  <2>3. \A p \in 1 .. n : t[p].byte \in Text
    BY <1>5, <2>2
  <2>4. Bytes(t) \in [1 .. n -> Text]
    BY <2>1, <2>3
  <2>5. Bytes(t) \in Seq(Text) /\ Len(Bytes(t)) = n
    BY <1>3, <2>4
  <2>6. QED
    BY <1>5, <2>1, <2>5
<1>7. ASSUME NEW p \in n + 1 .. m, c + p - 1 \in 1 .. Len(b) PROVE b[c + p - 1] = "r"
  <2>1. p \in 1 .. m /\ c + p - 1 <= Len(b) /\ p \in n + 1 .. Len(s)
    BY <1>1, <1>11, <1>3, <1>7
  <2>2. s[p].byte = b[c + p - 1] /\ s[p].byte # "n" /\ s[p].byte \in {"r", "n"}
    BY <1>1, <1>2, <2>1
  <2>3. QED
    BY <2>2
<1>8. ~Newline(m) => n = m
  BY <1>1, <1>2, Zenon
<1>9. Newline(m) => \/ n = m - 1 /\ (n > 0 => b[c + n - 1] # "r")
                    \/ n = m - 2
  <2>1. SUFFICES ASSUME Newline(m), n > 0, s[n].byte # "r" PROVE b[c + n - 1] # "r"
    BY <1>1, <1>2, Zenon
  <2>2. n \in 1 .. n
    BY <1>3, <2>1
  <2>3. QED
    BY <1>4, <1>5, <2>1, <2>2
<1>10. QED
  BY <1>3, <1>4, <1>5, <1>6, <1>7, <1>8, <1>9, Zenon DEF Part

\* What every read keeps.
LEMMA ReadKeeps ==
    ASSUME TypeOK, StreamInv, LastInv,
           NEW limit \in Nat \ {0}, stdin' = Drop(stdin, ReadLength(limit)),
           sent' = sent, eof' = eof
    PROVE  /\ stdin' \in Seq(TaggedByte) /\ StreamInv' /\ LastInv'
           /\ Left \in Nat /\ Left' \in Nat /\ Left <= Left'
           /\ ReadLength(limit) = 0 => stdin' = stdin
<1> DEFINE m == ReadLength(limit)
<1>1. m \in 0 .. Len(stdin)
  BY ReadLengthFacts
<1> HIDE DEF m
<1>2. /\ stdin' \in Seq(TaggedByte) /\ StreamInv' /\ LastInv' /\ Len(stdin') = Len(stdin) - m
      /\ \A p \in 1 .. Len(stdin') : stdin'[p] = stdin[p + m]
  BY <1>1, ConsumeStream DEF m
<1>3. Left \in Nat /\ Len(stdin) \in Nat /\ stdin \in Seq(TaggedByte)
  BY LeftType, Types DEF TypeOK
<1>4. CASE m = 0
  <2>1. Len(stdin') = Len(stdin) /\ \A p \in 1 .. Len(stdin') : stdin'[p] = stdin[p]
    BY <1>2, <1>3, <1>4
  <2>2. stdin' = stdin
    BY <1>2, <1>3, <2>1, SameSeq
  <2>3. Left' = Left
    BY <2>2 DEF Left
  <2>4. QED
    BY <1>2, <1>3, <2>2, <2>3
<1>5. CASE m # 0
  <2>1. m > 0
    BY <1>1, <1>3, <1>5
  <2>2. Left = stdin[1].line
    BY <2>1, Taken, Zenon DEF m, Piece
  <2>4. Left' = stdin[1].line \/ (Left' > stdin[1].line /\ Left' \in Nat)
    BY <2>1, Moved, Zenon DEF m, Inside, Behind
  <2>3. QED
    BY <1>2, <1>3, <1>5, <2>2, <2>4 DEF m
<1>6. QED
  BY <1>4, <1>5

\* A step that writes no response keeps what is said of the responses.
LEMMA SilentKeeps ==
    ASSUME Inv, sent' = sent, responses' = responses, Left' \in Nat, Left <= Left'
    PROVE  /\ responses' \in Seq(Responses) /\ InOrderAtMostOnce' /\ AnswersWholeLines'
           /\ PastInv' /\ \A i : Paid(i) => Paid(i)'
<1>1. /\ TypeOK /\ PastInv /\ InOrderAtMostOnce /\ AnswersWholeLines /\ StreamInv
      /\ Left \in Nat
  BY LeftType, Types DEF Inv
<1>2. PastInv'
  <2>1. \A k \in DOMAIN responses : responses[k].line \in 1 .. Left' - 1
    BY <1>1 DEF PastInv
  <2>2. QED
    BY <2>1 DEF PastInv
<1>3. QED
  BY <1>1, <1>2 DEF TypeOK, InOrderAtMostOnce, AnswersWholeLines, Paid, Answered

\* End of file: all was read, so all is settled.
LEMMA ReadEofKeepsInv ==
    ASSUME Inv, ReadEof
    PROVE  Inv'
<1>1. /\ TypeOK /\ StreamInv /\ LastInv /\ ReadInv /\ Limit \in Nat \ {0}
  BY Types DEF Inv
<1>2. /\ pc = "read" /\ ReadReady(Limit) /\ stdin' = Drop(stdin, ReadLength(Limit))
      /\ Take(stdin, ReadLength(Limit)) = <<>> /\ pc' = "done"
      /\ UNCHANGED <<sent, eof, stdoutOpen, line, responses>>
  BY DEF ReadEof, Read, Chunk
<1>3. ReadLength(Limit) = 0
  <2>1. ReadLength(Limit) \in 0 .. Len(stdin)
    BY <1>1, ReadLengthFacts
  <2>2. Len(Take(stdin, ReadLength(Limit))) = ReadLength(Limit)
    BY <1>1, <2>1, TakeFacts DEF TypeOK
  <2>3. QED
    BY <1>2, <2>2
<1>4. eof /\ stdin = <<>>
  <2>1. ~(ReadLength(Limit) > 0)
    BY <1>3
  <2>2. QED
    BY <1>1, <1>2, <1>3, <2>1, ReadLengthFacts, Zenon DEF ReadReady
<1>5. /\ stdin' = stdin /\ StreamInv' /\ LastInv' /\ Left' \in Nat /\ Left <= Left'
  BY <1>1, <1>2, <1>3, ReadKeeps
<1>6. /\ responses' \in Seq(Responses) /\ InOrderAtMostOnce' /\ AnswersWholeLines' /\ PastInv'
      /\ \A i : Paid(i) => Paid(i)'
  BY <1>2, <1>5, SilentKeeps
<1>7. TypeOK'
  BY <1>1, <1>2, <1>5, <1>6 DEF TypeOK
<1>8. \A i \in Requests(sent) : Paid(i)
  <2>1. Left = Len(sent) + 1
    BY <1>4 DEF Left
  <2>2. \A i \in Requests(sent) : i < Left
    BY <1>1, <2>1, Types DEF Requests
  <2>3. QED
    BY <1>1, <1>2, <2>2 DEF ReadInv
<1>9. DoneInv'
  <2>1. \A i \in Requests(sent)' : Paid(i)'
    BY <1>2, <1>6, <1>8
  <2>2. QED
    BY <1>2, <1>4, <1>5, <2>1 DEF DoneInv
<1>10. ReadInv' /\ DrainInv'
  BY <1>2 DEF ReadInv, DrainInv
<1>11. QED
  BY <1>5, <1>6, <1>7, <1>9, <1>10 DEF Inv

\* The loop ends with an error: nothing is promised any more.
LEMMA ReadInvalidKeepsInv ==
    ASSUME Inv, ReadInvalid
    PROVE  Inv'
<1>1. /\ TypeOK /\ StreamInv /\ LastInv /\ Limit \in Nat \ {0}
  BY Types DEF Inv
<1>2. /\ stdin' = Drop(stdin, ReadLength(Limit)) /\ pc' = "failed"
      /\ UNCHANGED <<sent, eof, stdoutOpen, line, responses>>
  BY DEF ReadInvalid, Read
<1>3. /\ stdin' \in Seq(TaggedByte) /\ StreamInv' /\ LastInv' /\ Left' \in Nat /\ Left <= Left'
  BY <1>1, <1>2, ReadKeeps
<1>4. /\ responses' \in Seq(Responses) /\ InOrderAtMostOnce' /\ AnswersWholeLines' /\ PastInv'
  BY <1>2, <1>3, SilentKeeps
<1>5. TypeOK'
  BY <1>1, <1>2, <1>3, <1>4 DEF TypeOK
<1>6. ReadInv' /\ DrainInv' /\ DoneInv'
  BY <1>2 DEF ReadInv, DrainInv, DoneInv
<1>7. QED
  BY <1>3, <1>4, <1>5, <1>6 DEF Inv

\* The state before a read that finds text, and what the read does to it.
Reading(m, L, c, b, n) ==
    /\ TypeOK /\ StreamInv /\ LastInv /\ PastInv /\ Limit \in Nat \ {0}
    /\ MaxRequestBytes \in Nat \ {0} /\ Limit = MaxRequestBytes + 2
    /\ Piece(Limit, m, L, c, b)
    /\ Part(Strip(Chunk), n, m, L, c, b)
    /\ Inside(Limit, m, L, c) \/ Behind(m, L, c, b)
    /\ \E k \in 0 .. c : c = k * Limit + 1
    /\ Blank(Take(b, c - 1))
    /\ \A i \in Requests(sent) : i < L => Paid(i)
    /\ Left = L
    /\ stdin' \in Seq(TaggedByte) /\ StreamInv' /\ LastInv'
    /\ Left' \in Nat /\ L <= Left'

\* Every read that finds text is of this form.
LEMMA ReadTextFacts ==
    ASSUME Inv, ReadText, sent' = sent, eof' = eof
    PROVE  \E m, L, c, b, n : Reading(m, L, c, b, n)
<1> DEFINE m == ReadLength(Limit)
           L == stdin[1].line
           c == stdin[1].col
           b == sent[L]
<1>1. /\ TypeOK /\ StreamInv /\ LastInv /\ PastInv /\ ReadInv
      /\ Limit \in Nat \ {0} /\ MaxRequestBytes \in Nat \ {0} /\ Limit = MaxRequestBytes + 2
  BY Types DEF Inv, Limit
<1>2. pc = "read" /\ stdin' = Drop(stdin, m) /\ Chunk = Take(stdin, m) /\ Chunk # <<>>
  BY DEF ReadText, Read, Chunk
<1>3. m \in 0 .. Len(stdin)
  BY <1>1, ReadLengthFacts
<1>4. m > 0
  <2>1. Len(Chunk) = m /\ Chunk \in Seq(TaggedByte)
    BY <1>1, <1>2, <1>3, TakeFacts DEF TypeOK
  <2>2. QED
    BY <1>2, <1>3, <2>1
<1> HIDE DEF m, L, c, b
<1>5. Piece(Limit, m, L, c, b)
  BY <1>1, <1>4, Taken DEF m, L, c, b
<1>6. PICK n : Part(Strip(Chunk), n, m, L, c, b)
  BY <1>2, <1>5, Stripped
<1>7. Inside(Limit, m, L, c) \/ Behind(m, L, c, b)
  BY <1>1, <1>2, <1>4, Moved DEF m, L, c, b
<1>8. stdin # <<>> /\ Left = L
  BY <1>5 DEF Piece
<1>9. /\ \E k \in 0 .. c : c = k * Limit + 1
      /\ Blank(Take(b, c - 1))
      /\ \A i \in Requests(sent) : i < L => Paid(i)
  BY <1>1, <1>2, <1>8 DEF ReadInv, L, c, b
<1>10. /\ stdin' \in Seq(TaggedByte) /\ StreamInv' /\ LastInv' /\ Left' \in Nat /\ Left <= Left'
  BY <1>1, <1>2, ReadKeeps DEF m
<1>11. QED
  BY <1>1, <1>5, <1>6, <1>7, <1>8, <1>9, <1>10 DEF Reading

\* The line whose end has been read was blank up to column c, and then what was read.
LEMMA WholeLine ==
    ASSUME NEW m, NEW L, NEW c, NEW b, NEW n, Reading(m, L, c, b, n), Behind(m, L, c, b)
    PROVE  \A i \in 1 .. Len(b) : (i < c \/ i > c + n - 1) => b[i] \in {"s", "r"}
<1>1. /\ b \in Seq(Text) /\ Len(b) \in Nat /\ c \in 1 .. Len(b) + 1 /\ c \in Nat /\ m \in Nat
      /\ n \in 0 .. m /\ n \in Nat
  BY DEF Reading, Piece, Part
<1>2. c + m - 1 >= Len(b)
  <2>1. Newline(m) => c + m - 1 = Len(b) + 1
    BY DEF Reading, Piece
  <2>2. c + m - 1 = Len(b) + 1 \/ c + m - 1 = Len(b)
    BY <2>1, Zenon DEF Behind
  <2>3. QED
    BY <1>1, <2>2
<1>3. ASSUME NEW i \in 1 .. Len(b), i < c PROVE b[i] \in {"s", "r"}
  <2>1. c - 1 \in 0 .. Len(b) /\ i \in 1 .. c - 1
    BY <1>1, <1>3
  <2>2. Take(b, c - 1)[i] = b[i] /\ i \in DOMAIN Take(b, c - 1)
    <3>1. PICK k \in 0 .. Len(b) : k = c - 1
      BY <2>1
    <3>2. DOMAIN Take(b, k) = 1 .. k /\ \A j \in 1 .. k : Take(b, k)[j] = b[j]
      BY <1>1, TakeFacts
    <3>3. QED
      BY <2>1, <3>1, <3>2
  <2>3. b[i] \in {"s", "r", "n"}
    BY <2>2 DEF Reading, Blank
  <2>4. b[i] # "n"
    BY <1>1 DEF Text
  <2>5. QED
    BY <2>3, <2>4
<1>4. ASSUME NEW i \in 1 .. Len(b), i > c + n - 1 PROVE b[i] \in {"s", "r"}
  <2> DEFINE p == i - c + 1
  <2>1. p \in n + 1 .. m /\ c + p - 1 = i
    BY <1>1, <1>2, <1>4
  <2> HIDE DEF p
  <2>2. b[c + p - 1] = "r"
    <3>1. \A q \in n + 1 .. m : c + q - 1 \in 1 .. Len(b) => b[c + q - 1] = "r"
      BY DEF Reading, Part
    <3>2. QED
      BY <1>4, <2>1, <3>1
  <2>3. QED
    BY <2>1, <2>2
<1>5. QED
  BY <1>3, <1>4

\* Nothing has been read of a line that begins.
LEMMA FreshLine ==
    ASSUME TypeOK, StreamInv', sent' = sent, stdin' \in Seq(TaggedByte), stdin' # <<>>,
           stdin'[1].col = 1
    PROVE  /\ \E k \in 0 .. stdin'[1].col : stdin'[1].col = k * Limit + 1
           /\ Blank(Take(sent'[stdin'[1].line], stdin'[1].col - 1))
<1> DEFINE x == sent'[stdin'[1].line]
<1>1. 1 \in DOMAIN stdin'
  OBVIOUS
<1>2. stdin'[1].line \in DOMAIN sent
  BY <1>1 DEF StreamInv
<1>3. x \in Seq(Text) /\ Len(x) \in Nat
  BY <1>2, Types
<1> HIDE DEF x
<1>4. 1 - 1 \in 0 .. Len(x) /\ 1 - 1 = 0
  BY <1>3
<1>5. DOMAIN Take(x, 1 - 1) = 1 .. (1 - 1)
  BY <1>3, <1>4, TakeFacts
<1>6. Blank(Take(x, 1 - 1))
  BY <1>4, <1>5 DEF Blank
<1>7. 0 \in 0 .. 1 /\ 1 = 0 * Limit + 1
  BY Types
<1>8. QED
  BY <1>6, <1>7 DEF x

\* A blank chunk is a blank line, or the line goes on from a multiple of Limit.
LEMMA ReadBlankKeepsInv ==
    ASSUME Inv, ReadBlank
    PROVE  Inv'
<1>1. /\ ReadText /\ Blank(Bytes(Strip(Chunk)))
      /\ UNCHANGED <<sent, eof, stdoutOpen, pc, line, responses>> /\ pc = "read"
  BY DEF ReadBlank, ReadText, Read
<1>2. PICK m, L, c, b, n : Reading(m, L, c, b, n)
  BY <1>1, ReadTextFacts
<1>3. /\ TypeOK /\ StreamInv' /\ LastInv' /\ stdin' \in Seq(TaggedByte)
      /\ Left = L /\ Left' \in Nat /\ L <= Left' /\ Limit \in Nat \ {0}
      /\ Inside(Limit, m, L, c) \/ Behind(m, L, c, b)
      /\ \A i \in Requests(sent) : i < L => Paid(i)
  BY <1>2 DEF Reading
<1>4. /\ b \in Seq(Text) /\ Len(b) \in Nat /\ c \in Nat /\ c >= 1 /\ c - 1 \in 0 .. Len(b)
      /\ m \in Nat /\ n \in Nat /\ n \in 0 .. m /\ L \in DOMAIN sent /\ L \in Nat /\ m >= 1
  BY <1>2, <1>3, Types DEF Reading, Piece, Part
<1>5. /\ responses' \in Seq(Responses) /\ InOrderAtMostOnce' /\ AnswersWholeLines' /\ PastInv'
      /\ \A i : Paid(i) => Paid(i)'
  BY <1>1, <1>3, SilentKeeps
<1>6. TypeOK'
  BY <1>1, <1>3, <1>5 DEF TypeOK
<1>7. \A p \in 1 .. n : c + p - 1 \in 1 .. Len(b) /\ b[c + p - 1] \in {"s", "r", "n"}
  <2>1. \A p \in 1 .. n : c + p - 1 \in 1 .. Len(b) /\ Bytes(Strip(Chunk))[p] = b[c + p - 1]
    BY <1>2 DEF Reading, Part
  <2>2. DOMAIN Bytes(Strip(Chunk)) = 1 .. n
    BY <1>2, <1>4 DEF Reading, Part
  <2>3. QED
    BY <1>1, <2>1, <2>2 DEF Blank
<1>8. ReadInv'
  <2>1. CASE Inside(Limit, m, L, c)
    <3>1. /\ m = Limit /\ Left' = L /\ n = m /\ stdin'[1].line = L /\ stdin'[1].col = c + m
      BY <1>2, <2>1 DEF Reading, Inside, Part
    <3>2. \E k \in 0 .. stdin'[1].col : stdin'[1].col = k * Limit + 1
      <4>1. PICK k \in 0 .. c : c = k * Limit + 1
        BY <1>2 DEF Reading
      <4>2. k \in Nat /\ k <= c
        BY <1>4, <4>1
      <4>3. (k + 1) * Limit = k * Limit + Limit
        BY <1>3, <4>2
      <4>4. k + 1 \in 0 .. c + m /\ c + m = (k + 1) * Limit + 1
        BY <1>3, <1>4, <3>1, <4>1, <4>2, <4>3
      <4>5. QED
        BY <3>1, <4>4
    <3>3. Blank(Take(b, (c + m) - 1))
      <4>1. (c + m) - 1 \in 0 .. Len(b) /\ (c + m) - 1 = c + m - 1
        <5>1. m \in 1 .. n
          BY <1>4, <3>1
        <5>2. c + m - 1 \in 1 .. Len(b)
          BY <1>7, <5>1
        <5>3. QED
          BY <1>4, <5>2
      <4>2. DOMAIN Take(b, (c + m) - 1) = 1 .. (c + m) - 1
            /\ \A i \in 1 .. (c + m) - 1 : Take(b, (c + m) - 1)[i] = b[i]
        BY <1>4, <4>1, TakeFacts
      <4>3. ASSUME NEW i \in 1 .. (c + m) - 1 PROVE b[i] \in {"s", "r", "n"}
        <5>1. CASE i <= c - 1
          <6>3. i \in 1 .. c - 1
            BY <1>4, <5>1
          <6>1. i \in DOMAIN Take(b, c - 1) /\ Take(b, c - 1)[i] = b[i]
            <7>1. b \in Seq(Text) /\ c - 1 \in 0 .. Len(b)
              BY <1>4
            <7>2. DOMAIN Take(b, c - 1) = 1 .. c - 1 /\ \A j \in 1 .. c - 1 : Take(b, c - 1)[j] = b[j]
              BY <7>1, TakeFacts
            <7>3. QED
              BY <6>3, <7>2
          <6>2. QED
            BY <1>2, <6>1 DEF Reading, Blank
        <5>2. CASE i > c - 1
          <6>1. i - c + 1 \in 1 .. n /\ c + (i - c + 1) - 1 = i
            BY <1>4, <3>1, <5>2
          <6>2. QED
            BY <1>7, <6>1
        <5>3. QED
          BY <1>4, <5>1, <5>2
      <4>4. QED
        BY <4>2, <4>3 DEF Blank
    <3>4. b = sent'[stdin'[1].line]
      BY <1>1, <1>2, <3>1 DEF Reading, Piece
    <3>5. \A i \in Requests(sent)' : i < Left' => Paid(i)'
      BY <1>1, <1>3, <1>5, <3>1
    <3>6. QED
      BY <3>1, <3>2, <3>3, <3>4, <3>5 DEF ReadInv
  <2>2. CASE Behind(m, L, c, b)
    <3>1. /\ stdin' # <<>> => stdin'[1].col = 1
          /\ \A j \in Requests(sent) : j < Left' => j <= L
      BY <2>2 DEF Behind
    <3>2. L \notin Requests(sent)
      <4>1. ASSUME NEW i \in 1 .. Len(b) PROVE b[i] \in {"s", "r", "n"}
        <5>1. CASE i < c \/ i > c + n - 1
          BY <1>2, <2>2, <5>1, WholeLine
        <5>2. CASE ~(i < c \/ i > c + n - 1)
          <6>1. i - c + 1 \in 1 .. n /\ c + (i - c + 1) - 1 = i
            BY <1>4, <5>2
          <6>2. QED
            BY <1>7, <6>1
        <5>3. QED
          BY <5>1, <5>2
      <4>2. Blank(b)
        BY <1>4, <4>1 DEF Blank
      <4>3. b = sent[L]
        BY <1>2 DEF Reading, Piece
      <4>4. QED
        BY <4>2, <4>3 DEF Requests
    <3>3. \A j \in Requests(sent) : j < Left' => j < L
      <4>1. \A j \in Requests(sent) : j \in Nat
        BY <1>3, Types DEF Requests
      <4>2. QED
        BY <1>4, <3>1, <3>2, <4>1
    <3>4. \A j \in Requests(sent)' : j < Left' => Paid(j)'
      BY <1>1, <1>3, <1>5, <3>3
    <3>5. stdin' # <<>> => /\ \E k \in 0 .. stdin'[1].col : stdin'[1].col = k * Limit + 1
                           /\ Blank(Take(sent'[stdin'[1].line], stdin'[1].col - 1))
      BY <1>1, <1>3, <3>1, FreshLine
    <3>6. QED
      BY <3>4, <3>5 DEF ReadInv
  <2>3. QED
    BY <1>3, <2>1, <2>2
<1>9. DrainInv' /\ DoneInv'
  BY <1>1 DEF DrainInv, DoneInv
<1>10. QED
  BY <1>3, <1>5, <1>6, <1>8, <1>9 DEF Inv

\* A text that is not blank begins in its line, and the line is not blank.
LEMMA NotBlank ==
    ASSUME NEW m, NEW L, NEW c, NEW b, NEW n, Reading(m, L, c, b, n),
           ~Blank(Bytes(Strip(Chunk)))
    PROVE  /\ n >= 1 /\ Strip(Chunk)[1].line = L /\ L \in Requests(sent)
           /\ \E p \in 1 .. n : b[c + p - 1] \notin {"s", "r", "n"}
<1> DEFINE t == Strip(Chunk)
<1>1. /\ n \in Nat /\ Bytes(t) \in Seq(Text) /\ Len(Bytes(t)) = n /\ b \in Seq(Text)
      /\ \A p \in 1 .. n : t[p].line = L
      /\ \A p \in 1 .. n : c + p - 1 \in 1 .. Len(b) /\ Bytes(t)[p] = b[c + p - 1]
      /\ L \in DOMAIN sent /\ b = sent[L]
  BY DEF Reading, Part, Piece
<1> HIDE DEF t
<1>2. DOMAIN Bytes(t) = 1 .. n
  BY <1>1
<1>3. PICK p \in 1 .. n : Bytes(t)[p] \notin {"s", "r", "n"}
  BY <1>2 DEF Blank, t
<1>4. n >= 1 /\ 1 \in 1 .. n
  BY <1>1, <1>3
<1>5. c + p - 1 \in DOMAIN b /\ b[c + p - 1] \notin {"s", "r", "n"}
  <2>1. c + p - 1 \in 1 .. Len(b) /\ Bytes(t)[p] = b[c + p - 1]
    BY <1>1
  <2>2. DOMAIN b = 1 .. Len(b)
    BY <1>1
  <2>3. QED
    BY <1>3, <2>1, <2>2
<1>6. ~Blank(b)
  BY <1>5 DEF Blank
<1>7. QED
  BY <1>1, <1>4, <1>5, <1>6 DEF Requests, t

\* A chunk within the limit that is not blank is a whole line but for white space.
LEMMA ReadRequestKeepsInv ==
    ASSUME Inv, ReadRequest
    PROVE  Inv'
<1> DEFINE t == Strip(Chunk)
           r == Response(t)
<1>1. /\ ReadText /\ ~Blank(Bytes(t)) /\ Len(t) <= MaxRequestBytes /\ Respond(t)
      /\ UNCHANGED <<sent, eof, stdoutOpen, line>> /\ pc = "read"
  BY DEF ReadRequest, ReadText, Read
<1>2. PICK m, L, c, b, n : Reading(m, L, c, b, n)
  BY <1>1, ReadTextFacts
<1>3. /\ TypeOK /\ PastInv /\ StreamInv' /\ LastInv' /\ stdin' \in Seq(TaggedByte)
      /\ Left = L /\ Left' \in Nat /\ L <= Left' /\ Limit = MaxRequestBytes + 2
      /\ MaxRequestBytes \in Nat \ {0}
      /\ Inside(Limit, m, L, c) \/ Behind(m, L, c, b)
      /\ \A i \in Requests(sent) : i < L => Paid(i)
  BY <1>2 DEF Reading
<1>4. /\ b \in Seq(Text) /\ b = sent[L] /\ Len(b) \in Nat /\ c \in Nat /\ c >= 1
      /\ n \in Nat /\ L \in DOMAIN sent /\ L \in Nat /\ L >= 1 /\ Len(t) = n
      /\ Bytes(t) \in Seq(Text) /\ Len(Bytes(t)) = n
      /\ \A p \in 1 .. n : c + p - 1 \in 1 .. Len(b) /\ Bytes(t)[p] = b[c + p - 1]
  <2>1. Piece(Limit, m, L, c, b) /\ Part(t, n, m, L, c, b)
    BY <1>2 DEF Reading
  <2>2. /\ L \in DOMAIN sent /\ L \in 1 .. Len(sent) /\ b = sent[L] /\ b \in Seq(Text)
        /\ Len(b) \in Nat /\ c \in 1 .. Len(b) + 1 /\ c \in Nat
    BY <2>1 DEF Piece
  <2>3. /\ Len(t) = n /\ n \in Nat /\ Bytes(t) \in Seq(Text) /\ Len(Bytes(t)) = n
        /\ \A p \in 1 .. n : c + p - 1 \in 1 .. Len(b) /\ Bytes(t)[p] = b[c + p - 1]
    BY <2>1 DEF Part
  <2>4. L \in Nat /\ L >= 1 /\ c >= 1
    <3>1. Len(sent) \in Nat
      BY <1>3, Types
    <3>2. QED
      BY <2>2, <3>1
  <2>5. QED
    BY <2>2, <2>3, <2>4
<1>5. n >= 1 /\ t[1].line = L
  BY <1>1, <1>2, NotBlank
<1>6. Behind(m, L, c, b)
  <2>1. ASSUME Inside(Limit, m, L, c) PROVE FALSE
    <3>1. n = MaxRequestBytes + 2
      BY <1>2, <1>3, <2>1 DEF Inside, Reading, Part
    <3>2. QED
      BY <1>1, <1>3, <1>4, <3>1
  <2>2. QED
    BY <1>3, <2>1
<1> HIDE DEF t
<1>7. Trim(Bytes(t)) = Trim(b)
  <2> DEFINE u == Bytes(t)
             a == c - 1
  <2>1. a \in Nat /\ u \in Seq(Text) /\ Len(u) = n
    BY <1>4
  <2>2. a + Len(u) <= Len(b)
    <3>1. n \in 1 .. n
      BY <1>4, <1>5
    <3>2. c + n - 1 \in 1 .. Len(b)
      BY <1>4, <3>1
    <3>3. QED
      BY <1>4, <2>1, <3>2
  <2>3. \A i \in 1 .. Len(u) : u[i] = b[i + a]
    <3>1. SUFFICES ASSUME NEW i \in 1 .. n PROVE u[i] = b[i + a]
      BY <2>1
    <3>2. u[i] = b[c + i - 1] /\ c + i - 1 = i + a
      BY <1>4
    <3>3. QED
      BY <3>2
  <2>4. \A i \in 1 .. Len(b) : (i <= a \/ i > a + Len(u)) => b[i] \in {"s", "r"}
    <3>1. SUFFICES ASSUME NEW i \in 1 .. Len(b), i <= a \/ i > a + Len(u)
                   PROVE  b[i] \in {"s", "r"}
      OBVIOUS
    <3>2. i < c \/ i > c + n - 1
      BY <1>4, <2>1, <3>1
    <3>3. QED
      BY <1>2, <1>6, <3>2, WholeLine
  <2> HIDE DEF u, a
  <2>5. Trim(u) = Trim(b)
    BY <1>4, <2>1, <2>2, <2>3, <2>4, TrimWithin
  <2>6. QED
    BY <2>5 DEF u
<1>8. r.line = L /\ r.kind = "answer" /\ r.text = Trim(b) /\ r \in Responses
      /\ Len(r.text) <= MaxRequestBytes
  <2>1. ~(Len(t) > MaxRequestBytes)
    BY <1>1, <1>3, <1>4
  <2>2. r = [line |-> L, kind |-> "answer", text |-> Trim(b)]
    BY <1>5, <1>7, <2>1 DEF Response
  <2>3. Trim(b) \in Seq(Text) /\ Len(Trim(b)) <= MaxRequestBytes
    <3>1. Trim(Bytes(t)) \in Seq(Text) /\ Len(Trim(Bytes(t))) <= Len(Bytes(t))
      BY <1>4, TrimType
    <3>2. Trim(b) \in Seq(Text) /\ Len(Trim(b)) <= n
      BY <1>4, <1>7, <3>1
    <3>3. Len(Trim(b)) \in Nat
      BY <3>2
    <3>4. QED
      BY <1>1, <1>3, <1>4, <3>2, <3>3
  <2> HIDE DEF r
  <2>4. QED
    BY <1>4, <2>2, <2>3 DEF Responses
<1> HIDE DEF r
<1>9. CASE stdoutOpen
  <2>1. responses' = Append(responses, r) /\ pc' = "read"
    BY <1>1, <1>9 DEF Respond, r
  <2>2. /\ \A k \in DOMAIN responses : responses[k].line < r.line
    BY <1>3, <1>4, <1>8 DEF PastInv
  <2>3. r.line \in 1 .. Left' - 1 /\ Left <= Left'
    BY <1>3, <1>4, <1>6, <1>8 DEF Behind
  <2>4. /\ responses' \in Seq(Responses) /\ InOrderAtMostOnce' /\ AnswersWholeLines' /\ PastInv'
    BY <1>1, <1>3, <1>4, <1>8, <2>1, <2>2, <2>3, RespondOrder
  <2>5. TypeOK'
    <3>1. Len(r.text) <= MaxRequestBytes + 1
      BY <1>3, <1>8 DEF Responses
    <3>2. \A k \in DOMAIN responses' :
            Len(responses'[k].text) <= MaxRequestBytes + 1
      BY <1>3, <1>8, <2>1, <3>1, RespondBound
    <3>3. line' \in Seq(TaggedByte) /\ Len(line') <= Limit
      BY <1>1, <1>3 DEF TypeOK
    <3>4. QED
      BY <1>1, <1>3, <2>1, <2>4, <3>2, <3>3 DEF TypeOK, Limit
  <2>6. (\A i : Paid(i) => Paid(i)') /\ Paid(L)'
    BY <1>1, <1>3, <1>8, <2>1, RespondPaid
  <2>7. ReadInv'
    <3>1. /\ stdin' # <<>> => stdin'[1].col = 1
          /\ \A j \in Requests(sent) : j < Left' => j <= L
      BY <1>6 DEF Behind
    <3>2. \A j \in Requests(sent) : j < Left' => Paid(j)'
      <4>1. \A j \in Requests(sent) : j \in Nat
        BY <1>3, Types DEF Requests
      <4>2. QED
        BY <1>3, <1>4, <2>6, <3>1, <4>1
    <3>3. stdin' # <<>> => /\ \E k \in 0 .. stdin'[1].col : stdin'[1].col = k * Limit + 1
                           /\ Blank(Take(sent'[stdin'[1].line], stdin'[1].col - 1))
      BY <1>1, <1>3, <3>1, FreshLine
    <3>4. \A j \in Requests(sent)' : j < Left' => Paid(j)'
      BY <1>1, <3>2
    <3>5. QED
      BY <3>3, <3>4 DEF ReadInv
  <2>8. DrainInv' /\ DoneInv'
    BY <2>1 DEF DrainInv, DoneInv
  <2>9. QED
    BY <1>3, <2>4, <2>5, <2>7, <2>8 DEF Inv
<1>10. CASE ~stdoutOpen
  <2>1. responses' = responses /\ pc' = "failed"
    BY <1>1, <1>10 DEF Respond
  <2>2. /\ responses' \in Seq(Responses) /\ InOrderAtMostOnce' /\ AnswersWholeLines' /\ PastInv'
    BY <1>1, <1>3, <2>1, SilentKeeps
  <2>3. TypeOK'
    BY <1>1, <1>3, <2>1, <2>2 DEF TypeOK
  <2>4. ReadInv' /\ DrainInv' /\ DoneInv'
    BY <2>1 DEF ReadInv, DrainInv, DoneInv
  <2>5. QED
    BY <1>3, <2>2, <2>3, <2>4 DEF Inv
<1>11. QED
  BY <1>9, <1>10

\* A read that takes the newline and still finds too much finds one byte too much,
\* and that is all there is.
LEMMA OneByteOver ==
    ASSUME NEW m, NEW L, NEW c, NEW b, NEW n, Reading(m, L, c, b, n),
           ~Blank(Bytes(Strip(Chunk))), n > MaxRequestBytes, Newline(m)
    PROVE  Swallows(b)
<1>1. /\ b \in Seq(Text) /\ Len(b) \in Nat /\ c \in Nat /\ c >= 1 /\ c - 1 \in 0 .. Len(b)
      /\ n \in Nat /\ m \in Nat /\ m <= Limit /\ Limit \in Nat \ {0} /\ MaxRequestBytes \in Nat
      /\ Limit = MaxRequestBytes + 2
  BY DEF Reading, Piece, Part
<1>2. c + m - 1 = Len(b) + 1 /\ (n = m - 1 \/ n = m - 2) /\ (n = m - 1 => b[c + n - 1] # "r")
  <2>1. c + m - 1 = Len(b) + 1
    BY Zenon DEF Reading, Piece
  <2>2. n > 0
    BY <1>1
  <2>3. (n = m - 1 /\ (n > 0 => b[c + n - 1] # "r")) \/ n = m - 2
    BY Zenon DEF Reading, Part
  <2>4. m - 1 # m - 2
    BY <1>1
  <2>5. QED
    BY <2>1, <2>2, <2>3, <2>4
<1>3. n = MaxRequestBytes + 1 /\ m = n + 1 /\ Len(b) - (c - 1) = n /\ b[c + n - 1] # "r"
      /\ Len(b) = c + n - 1
  BY <1>1, <1>2
<1>4. PICK k \in 0 .. c : c = k * Limit + 1
  BY DEF Reading
<1> DEFINE rest == Drop(b, c - 1)
<1>5. /\ k * Limit = c - 1 /\ k \in 0 .. Len(b) /\ k * Limit < Len(b)
  <2>1. k \in Nat /\ k * Limit \in Nat
    BY <1>1, <1>4
  <2>2. k * Limit = c - 1
    BY <1>1, <1>4, <2>1
  <2>3. k <= k * Limit
    BY <1>1, <2>1
  <2>4. c - 1 < Len(b)
    BY <1>1, <1>3
  <2>5. QED
    BY <1>1, <2>1, <2>2, <2>3, <2>4
<1>6. /\ rest \in Seq(Text) /\ Len(rest) = n /\ DOMAIN rest = 1 .. n
      /\ \A i \in 1 .. n : rest[i] = b[i + (c - 1)]
  <2>1. /\ rest \in Seq(Text) /\ Len(rest) = Len(b) - (c - 1)
        /\ DOMAIN rest = 1 .. Len(b) - (c - 1)
        /\ \A i \in 1 .. Len(b) - (c - 1) : rest[i] = b[i + (c - 1)]
    <3>1. b \in Seq(Text) /\ c - 1 \in 0 .. Len(b)
      BY <1>1
    <3>2. QED
      BY <3>1, DropFacts
  <2> HIDE DEF rest
  <2>2. QED
    BY <1>3, <2>1
<1>7. ~Blank(rest)
  <2>1. PICK p \in 1 .. n : b[c + p - 1] \notin {"s", "r", "n"}
    BY NotBlank
  <2>2. rest[p] = b[c + p - 1]
    <3>1. p + (c - 1) = c + p - 1
      BY <1>1
    <3>2. QED
      BY <1>6, <3>1
  <2>3. QED
    BY <1>6, <2>1, <2>2 DEF Blank
<1>8. rest[Len(rest)] # "r"
  <2>1. n \in 1 .. n /\ n + (c - 1) = c + n - 1
    BY <1>1, <1>3
  <2>2. QED
    BY <1>3, <1>6, <2>1
<1>9. Blank(Take(b, c - 1))
  BY DEF Reading
<1> HIDE DEF rest
<1>10. rest = Drop(b, k * Limit) /\ Blank(Take(b, k * Limit))
  BY <1>5, <1>9 DEF rest
<1>11. QED
  BY <1>3, <1>5, <1>6, <1>7, <1>8, <1>10 DEF Swallows

\* A chunk over the limit leaves the rest of its line, or took exactly all of it.
LEMMA ReadOversizedKeepsInv ==
    ASSUME Inv, ReadOversized
    PROVE  Inv'
<1> DEFINE t == Strip(Chunk)
<1>1. /\ ReadText /\ ~Blank(Bytes(t)) /\ Len(t) > MaxRequestBytes
      /\ pc' = "drain" /\ line' = t
      /\ UNCHANGED <<sent, eof, stdoutOpen, responses>>
  BY DEF ReadOversized
<1>2. PICK m, L, c, b, n : Reading(m, L, c, b, n)
  BY <1>1, ReadTextFacts
<1>3. /\ TypeOK /\ PastInv /\ StreamInv' /\ LastInv' /\ stdin' \in Seq(TaggedByte)
      /\ Left = L /\ Left' \in Nat /\ L <= Left'
      /\ Inside(Limit, m, L, c) \/ Behind(m, L, c, b)
      /\ \A i \in Requests(sent) : i < L => Paid(i)
  BY <1>2 DEF Reading
<1>4. /\ b = sent[L] /\ n \in Nat /\ L \in DOMAIN sent /\ L \in Nat /\ Len(t) = n
      /\ t \in Seq(TaggedByte) /\ \A p \in 1 .. n : t[p].byte # "n"
  <2>1. Piece(Limit, m, L, c, b) /\ Part(t, n, m, L, c, b)
    BY <1>2 DEF Reading
  <2>2. b = sent[L] /\ L \in DOMAIN sent /\ L \in 1 .. Len(sent)
    BY <2>1 DEF Piece
  <2>3. /\ n \in Nat /\ Len(t) = n /\ t \in Seq(TaggedByte)
        /\ \A p \in 1 .. n : t[p].byte # "n"
    BY <2>1 DEF Part
  <2>4. Len(sent) \in Nat
    BY <1>3, Types
  <2>5. QED
    BY <2>2, <2>3, <2>4
<1>5. t[1].line = L /\ L \in Requests(sent)
  BY <1>1, <1>2, NotBlank
<1>6. /\ responses' \in Seq(Responses) /\ InOrderAtMostOnce' /\ AnswersWholeLines' /\ PastInv'
      /\ \A i : Paid(i) => Paid(i)'
  BY <1>1, <1>3, SilentKeeps
<1>7. TypeOK'
  <2>1. n <= Limit
    <3>1. Piece(Limit, m, L, c, b) /\ Part(t, n, m, L, c, b)
      BY <1>2 DEF Reading
    <3>2. m \in Nat /\ m <= Limit /\ Limit \in Nat
      BY <1>3, <3>1, Types DEF Piece
    <3>3. n \in 0 .. m
      BY <3>1 DEF Part
    <3>4. QED
      BY <3>2, <3>3
  <2> HIDE DEF t
  <2>2. line' \in Seq(TaggedByte) /\ Len(line') <= Limit'
    BY <1>1, <1>4, <2>1 DEF Limit
  <2>3. QED
    BY <1>1, <1>3, <1>6, <2>2 DEF TypeOK
<1>8. \A j \in Requests(sent) : j < Left' => Paid(j)' \/ j = L
  <2>1. \A j \in Requests(sent) : j \in Nat
    BY <1>3, Types DEF Requests
  <2>2. \A j \in Requests(sent) : j < Left' => j <= L
    BY <1>3, <1>4, <2>1 DEF Inside, Behind
  <2>3. QED
    BY <1>3, <1>4, <1>6, <2>1, <2>2
<1>9. Left' = L \/ (stdin' = <<>> /\ eof) \/ (Swallows(sent[L]) /\ Left' = L + 1)
  <2>1. CASE Inside(Limit, m, L, c)
    BY <2>1 DEF Inside
  <2>2. CASE Behind(m, L, c, b) /\ Newline(m)
    <3>1. Swallows(sent[L])
      BY <1>1, <1>2, <1>4, <2>2, OneByteOver
    <3>2. QED
      BY <2>2, <3>1, Zenon DEF Behind
  <2>3. CASE Behind(m, L, c, b) /\ ~Newline(m)
    BY <2>3, Zenon DEF Behind
  <2>4. QED
    BY <1>3, <2>1, <2>2, <2>3, Zenon
<1>10. DrainInv'
  <2>1. \A k \in DOMAIN responses : responses[k].line < L
    BY <1>3, <1>4 DEF PastInv
  <2>2. \A k \in DOMAIN t : t[k].byte # "n"
    BY <1>4
  <2> HIDE DEF t
  <2>3. QED
    BY <1>1, <1>4, <1>5, <1>8, <1>9, <2>1, <2>2 DEF DrainInv
<1>11. ReadInv' /\ DoneInv'
  BY <1>1 DEF ReadInv, DoneInv
<1>12. QED
  BY <1>3, <1>6, <1>7, <1>10, <1>11 DEF Inv

\* The drain ends the line, or takes the next one with it, and the line is answered.
LEMMA DrainKeepsInv ==
    ASSUME Inv, DrainOversized
    PROVE  Inv'
<1> DEFINE limit == Len(stdin) + 1
           m == ReadLength(limit)
           t == Take(line, MaxRequestBytes + 1)
           r == Response(t)
<1>0. PICK i : i = line[1].line
  OBVIOUS
<1>1. /\ pc = "drain" /\ (m > 0 \/ eof) /\ stdin' = Drop(stdin, m) /\ line' = <<>>
      /\ UNCHANGED <<sent, eof, stdoutOpen>>
      /\ \/ stdoutOpen /\ responses' = Append(responses, r) /\ pc' = "read"
         \/ pc' = "failed" /\ responses' = responses
  BY DEF DrainOversized, Respond
<1>2. /\ TypeOK /\ StreamInv /\ LastInv /\ PastInv /\ DrainInv /\ MaxRequestBytes \in Nat \ {0}
      /\ limit \in Nat \ {0} /\ Len(sent) \in Nat /\ DOMAIN sent = 1 .. Len(sent)
      /\ line \in Seq(TaggedByte) /\ Len(stdin) \in Nat
  BY Types DEF Inv, TypeOK
<1>3. /\ Len(line) > MaxRequestBytes /\ \A k \in DOMAIN line : line[k].byte # "n"
      /\ i \in DOMAIN sent /\ \A k \in DOMAIN responses : responses[k].line < i
      /\ \A j \in Requests(sent) : j < Left => Paid(j) \/ j = i
      /\ Left = i \/ (stdin = <<>> /\ eof) \/ (Swallows(sent[i]) /\ Left = i + 1)
  BY <1>0, <1>1, <1>2 DEF DrainInv
<1>4. /\ stdin' \in Seq(TaggedByte) /\ StreamInv' /\ LastInv'
      /\ Left \in Nat /\ Left' \in Nat /\ Left <= Left' /\ (m = 0 => stdin' = stdin)
  BY <1>1, <1>2, ReadKeeps
<1>5. /\ r.line = i /\ r.kind = "bad_request" /\ r \in Responses
      /\ Len(r.text) <= MaxRequestBytes + 1
  <2>1. MaxRequestBytes + 1 \in 0 .. Len(line) /\ MaxRequestBytes + 1 \in Nat
    BY <1>2, <1>3
  <2>2. /\ t \in Seq(TaggedByte) /\ Len(t) = MaxRequestBytes + 1
        /\ \A p \in 1 .. MaxRequestBytes + 1 : t[p] = line[p]
    BY <1>2, <2>1, TakeFacts
  <2> HIDE DEF t
  <2>3. \A p \in 1 .. Len(t) : t[p].byte \in Text
    <3>1. SUFFICES ASSUME NEW p \in 1 .. Len(t) PROVE t[p].byte \in Text
      OBVIOUS
    <3>2. p \in DOMAIN line /\ t[p] = line[p] /\ t[p] \in TaggedByte
      BY <1>2, <2>1, <2>2
    <3>3. QED
      BY <1>3, <3>2 DEF TaggedByte
  <2>4. Bytes(t) \in Seq(Text) /\ Len(Bytes(t)) = MaxRequestBytes + 1
    <3>1. Bytes(t) = [p \in 1 .. Len(t) |-> t[p].byte]
      BY <2>2 DEF Bytes
    <3>2. Bytes(t) \in [1 .. Len(t) -> Text]
      BY <2>3, <3>1
    <3>3. QED
      BY <2>1, <2>2, <3>2
  <2>5. /\ Trim(Bytes(t)) \in Seq(Text)
        /\ Len(Trim(Bytes(t))) <= MaxRequestBytes + 1
    BY <2>4, TrimType
  <2>6. t[1].line = i /\ i \in Nat
    BY <1>0, <1>2, <1>3, <2>2
  <2>7. Len(t) > MaxRequestBytes
    BY <1>2, <2>2
  <2>8. r = [line |-> i, kind |-> "bad_request", text |-> Trim(Bytes(t))]
    BY <2>6, <2>7 DEF Response
  <2> HIDE DEF r
  <2>9. QED
    BY <2>5, <2>6, <2>8 DEF Responses
<1> HIDE DEF r, t
<1>6. /\ Left' > i
      /\ \A j \in Requests(sent) : j < Left' => Paid(j) \/ j = i
      /\ stdin' # <<>> => stdin'[1].col = 1
  <2>0. \A j \in Requests(sent) : j \in Nat
    BY <1>2 DEF Requests
  <2>1. CASE m = 0
    <3>1. ~(m > 0)
      BY <2>1
    <3>2. stdin = <<>>
      BY <1>1, <1>2, <2>1, <3>1, ReadLengthFacts, Zenon
    <3>3. stdin' = <<>> /\ Left' = Len(sent) + 1 /\ Left = Len(sent) + 1
      BY <1>1, <1>4, <2>1, <3>2 DEF Left
    <3>4. Left' > i
      BY <1>2, <1>3, <3>3
    <3>5. QED
      BY <1>3, <3>3, <3>4
  <2>2. CASE m # 0
    <3> DEFINE L == stdin[1].line
               c == stdin[1].col
               b == sent[L]
    <3>1. m \in 0 .. Len(stdin)
      BY <1>2, ReadLengthFacts
    <3>2. m > 0 /\ m # limit
      BY <1>2, <2>2, <3>1
    <3>3. Piece(limit, m, L, c, b)
      BY <1>2, <3>2, Taken
    <3>4. Inside(limit, m, L, c) \/ Behind(m, L, c, b)
      BY <1>1, <1>2, <3>2, Moved
    <3>5. stdin # <<>> /\ Left = L
      BY <3>3 DEF Piece
    <3> HIDE DEF L, c, b, m, limit
    <3>6. Behind(m, L, c, b)
      BY <3>2, <3>4 DEF Inside
    <3>7. /\ Left' > L /\ \A j \in Requests(sent) : j < Left' => j <= L
          /\ stdin' # <<>> => stdin'[1].col = 1
      BY <3>6 DEF Behind
    <3>8. L = i \/ (Swallows(sent[i]) /\ L = i + 1)
      BY <1>3, <3>5, Zenon
    <3>9. i \in Nat /\ L \in Nat
      BY <1>2, <1>3, <1>4, <3>5
    <3>10. Left' > i
      BY <1>4, <3>7, <3>8, <3>9
    <3>11. ASSUME NEW j \in Requests(sent), j < Left' PROVE Paid(j) \/ j = i
      <4>1. j <= L /\ j \in Nat
        BY <2>0, <3>7, <3>11
      <4>2. CASE j < L
        BY <1>3, <3>5, <4>2
      <4>3. CASE j = L /\ L = i
        BY <4>3
      <4>4. CASE j = L /\ L = i + 1 /\ Swallows(sent[i])
        <5>1. j - 1 = i
          BY <3>9, <4>4
        <5>2. QED
          BY <1>3, <4>4, <5>1 DEF Paid
      <4>5. j < L \/ j = L
        BY <3>9, <4>1
      <4>6. QED
        BY <3>8, <4>2, <4>3, <4>4, <4>5, Zenon
    <3>12. QED
      BY <3>7, <3>10, <3>11
  <2>3. QED
    BY <2>1, <2>2
<1>7. CASE responses' = Append(responses, r) /\ pc' = "read"
  <2>1. r.line \in 1 .. Left' - 1
    BY <1>2, <1>3, <1>4, <1>5, <1>6
  <2>2. \A k \in DOMAIN responses : responses[k].line < r.line
    BY <1>3, <1>5
  <2>3. /\ responses' \in Seq(Responses) /\ InOrderAtMostOnce' /\ AnswersWholeLines' /\ PastInv'
    BY <1>1, <1>4, <1>5, <1>7, <2>1, <2>2, RespondOrder
  <2>4. TypeOK'
    <3>1. line' \in Seq(TaggedByte) /\ Len(line') <= Limit'
      BY <1>1, <1>2 DEF Limit
    <3>2. \A k \in DOMAIN responses' :
            Len(responses'[k].text) <= MaxRequestBytes + 1
      BY <1>2, <1>5, <1>7, RespondBound
    <3>3. QED
      BY <1>1, <1>2, <1>4, <1>7, <2>3, <3>1, <3>2 DEF TypeOK
  <2>5. (\A j : Paid(j) => Paid(j)') /\ Paid(i)'
    BY <1>1, <1>2, <1>5, <1>7, RespondPaid
  <2>6. ReadInv'
    <3>1. \A j \in Requests(sent)' : j < Left' => Paid(j)'
      BY <1>1, <1>6, <2>5
    <3>2. stdin' # <<>> => /\ \E k \in 0 .. stdin'[1].col : stdin'[1].col = k * Limit + 1
                           /\ Blank(Take(sent'[stdin'[1].line], stdin'[1].col - 1))
      BY <1>1, <1>2, <1>4, <1>6, FreshLine
    <3>3. QED
      BY <3>1, <3>2 DEF ReadInv
  <2>7. DrainInv' /\ DoneInv'
    BY <1>7 DEF DrainInv, DoneInv
  <2>8. QED
    BY <1>4, <2>3, <2>4, <2>6, <2>7 DEF Inv
<1>8. CASE pc' = "failed" /\ responses' = responses
  <2>1. /\ responses' \in Seq(Responses) /\ InOrderAtMostOnce' /\ AnswersWholeLines' /\ PastInv'
    BY <1>1, <1>4, <1>8, SilentKeeps
  <2>2. TypeOK'
    <3>1. line' \in Seq(TaggedByte) /\ Len(line') <= Limit'
      BY <1>1, <1>2 DEF Limit
    <3>2. QED
      BY <1>1, <1>2, <1>4, <1>8, <2>1, <3>1 DEF TypeOK
  <2>3. ReadInv' /\ DrainInv' /\ DoneInv'
    BY <1>8 DEF ReadInv, DrainInv, DoneInv
  <2>4. QED
    BY <1>4, <2>1, <2>2, <2>3 DEF Inv
<1>9. QED
  BY <1>1, <1>7, <1>8, Zenon

-----------------------------------------------------------------------------
(* The theorems *)

\* A step that changes nothing keeps the invariant.
LEMMA StutterKeepsInv ==
    ASSUME Inv, UNCHANGED vars
    PROVE  Inv'
<1>1. UNCHANGED <<sent, stdin, eof, stdoutOpen, pc, line, responses>>
  BY DEF vars
<1>2. TypeOK'
  BY <1>1 DEF Inv, TypeOK
<1>3. StreamInv' /\ PastInv' /\ ReadInv' /\ InOrderAtMostOnce' /\ AnswersWholeLines'
  BY <1>1 DEF Inv, StreamInv, Newline, PastInv, ReadInv, InOrderAtMostOnce,
              AnswersWholeLines, Left, Requests, Paid, Answered
<1>4. LastInv' /\ DoneInv'
  BY <1>1 DEF Inv, LastInv, DoneInv, Newline, Requests, Paid, Answered
<1>5. DrainInv'
  BY <1>1 DEF Inv, DrainInv, Left, Requests, Paid, Answered
<1>6. QED
  BY <1>2, <1>3, <1>4, <1>5 DEF Inv

\* The invariant is inductive.
LEMMA NextKeepsInv == Inv /\ [Next]_vars => Inv'
<1> SUFFICES ASSUME Inv, [Next]_vars PROVE Inv'
  OBVIOUS
<1>1. CASE HostStep
  BY <1>1, HostKeepsInv
<1>2. CASE ReadEof
  BY <1>2, ReadEofKeepsInv
<1>3. CASE ReadInvalid
  BY <1>3, ReadInvalidKeepsInv
<1>4. CASE ReadBlank
  BY <1>4, ReadBlankKeepsInv
<1>5. CASE ReadRequest
  BY <1>5, ReadRequestKeepsInv
<1>6. CASE ReadOversized
  BY <1>6, ReadOversizedKeepsInv
<1>7. CASE DrainOversized
  BY <1>7, DrainKeepsInv
<1>8. CASE Ended
  BY <1>8, StutterKeepsInv DEF Ended
<1>9. CASE UNCHANGED vars
  BY <1>9, StutterKeepsInv
<1>10. QED
  BY <1>1, <1>2, <1>3, <1>4, <1>5, <1>6, <1>7, <1>8, <1>9 DEF Next, DaemonStep

\* The invariant holds in every state.
LEMMA SpecInv == Spec => []Inv
<1>1. QED
  BY InitInv, NextKeepsInv, PTL DEF Spec

\* A daemon that waits for more input has read all there is: a byte left in stdin
\* that is no newline, and no end of file, would have been followed by one.
LEMMA NothingLeft ==
    ASSUME Inv, ~eof, NEW limit \in Nat \ {0}, ReadLength(limit) = 0
    PROVE  stdin = <<>> /\ Left = Len(sent) + 1
<1>1. TypeOK /\ LastInv
  BY DEF Inv
<1>2. SUFFICES ASSUME stdin # <<>> PROVE FALSE
  BY DEF Left
<1>3. Len(stdin) \in DOMAIN stdin
  BY <1>1, <1>2, Types
<1>4. ~Newline(Len(stdin))
  BY <1>1, <1>3, ReadLengthFacts
<1>5. Newline(Len(stdin))
  BY <1>1, <1>2, Zenon DEF LastInv
<1>6. QED
  BY <1>4, <1>5

\* A daemon that waits has nothing left to read, so it owes nothing.
LEMMA InvOwesNothing == Inv => NothingOwed
<1> SUFFICES ASSUME Inv, Waiting, NEW i \in Requests(sent)
             PROVE  Answered(i) \/ Excused(i)
  BY DEF NothingOwed
<1>1. /\ TypeOK /\ ReadInv /\ DrainInv /\ DoneInv /\ Limit \in Nat \ {0}
      /\ Len(sent) \in Nat /\ DOMAIN sent = 1 .. Len(sent) /\ Len(stdin) + 1 \in Nat \ {0}
  BY Types DEF Inv
<1>2. i \in 1 .. Len(sent)
  BY <1>1 DEF Requests
<1>3. ASSUME Paid(i) PROVE Answered(i) \/ Excused(i)
  BY <1>3 DEF Paid, Excused
<1>4. CASE pc = "done"
  BY <1>1, <1>3, <1>4 DEF DoneInv
<1>5. CASE pc = "read" /\ ~ReadReady(Limit)
  <2>1. ~eof /\ ReadLength(Limit) = 0
    <3>1. ReadLength(Limit) \in 0 .. Len(stdin)
      BY <1>1, ReadLengthFacts
    <3>2. ~eof /\ ~(ReadLength(Limit) > 0)
      BY <1>5, Zenon DEF ReadReady
    <3>3. QED
      BY <3>1, <3>2
  <2>2. Left = Len(sent) + 1
    BY <1>1, <2>1, NothingLeft
  <2>3. i < Left
    BY <1>1, <1>2, <2>2
  <2>4. Paid(i)
    BY <1>1, <1>5, <2>3 DEF ReadInv
  <2>5. QED
    BY <1>3, <2>4
<1>6. CASE pc = "drain" /\ ReadLength(Len(stdin) + 1) = 0 /\ ~eof
  <2>1. Left = Len(sent) + 1
    BY <1>1, <1>6, NothingLeft
  <2>2. i < Left
    BY <1>1, <1>2, <2>1
  <2> DEFINE j == line[1].line
  <2>3. /\ j \in DOMAIN sent /\ (Paid(i) \/ i = j)
        /\ Left = j \/ (Swallows(sent[j]) /\ Left = j + 1)
    BY <1>1, <1>6, <2>2 DEF DrainInv
  <2> HIDE DEF j
  <2>4. Swallows(sent[j]) /\ j = Len(sent)
    BY <1>1, <2>1, <2>3
  <2>5. CASE Paid(i)
    BY <1>3, <2>5
  <2>6. CASE i = j
    BY <1>6, <2>4, <2>6 DEF Excused
  <2>7. QED
    BY <2>3, <2>5, <2>6
<1>7. QED
  BY <1>4, <1>5, <1>6 DEF Waiting

\* In every state of the loop of main.rs:99-135 the variables have their types.
THEOREM StdioTypeCorrect == Spec => []TypeOK
<1>1. Inv => TypeOK
  BY DEF Inv
<1>2. QED
  BY SpecInv, <1>1, PTL

\* Whatever the host writes and however the loop cuts it into chunks, no line gets
\* two responses and they come in the order of the lines (main.rs:99-128).
THEOREM StdioInOrder == Spec => []InOrderAtMostOnce
<1>1. Inv => InOrderAtMostOnce
  BY DEF Inv
<1>2. QED
  BY SpecInv, <1>1, PTL

\* An answer is always to a whole line as the host wrote it, of a length the limit
\* allows: never to a piece of a line, nor to the tail of one that was too long
\* (main.rs:101-124).
THEOREM StdioWholeLines == Spec => []AnswersWholeLines
<1>1. Inv => AnswersWholeLines
  BY DEF Inv
<1>2. QED
  BY SpecInv, <1>1, PTL

\* Whenever the daemon waits for the host or has ended at end of file, every
\* request line has its response, but for a line one byte over the limit that is
\* still waiting and the line after such a line (main.rs:99-128).
THEOREM StdioOwesNothing == Spec => []NothingOwed
<1>1. QED
  BY SpecInv, InvOwesNothing, PTL
=============================================================================

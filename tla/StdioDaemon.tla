----------------------------- MODULE StdioDaemon -----------------------------
(***************************************************************************)
(* The read-dispatch-write loop of the stdio daemon (daemon/src/main.rs):   *)
(* how request lines are cut out of stdin, including lines longer than the  *)
(* request limit, and how the host that writes them meets the responses.    *)
(*                                                                         *)
(* A byte is one of the classes the loop can tell apart: "x" text, "s" white *)
(* space, "r" carriage return, "n" newline, "m1" and "m2" the two bytes of   *)
(* a UTF-8 character, "b" a byte no UTF-8 text has.  Bytes in stdin carry    *)
(* the number of the line the host wrote them in and their place in it,      *)
(* which the daemon never looks at.                                         *)
(***************************************************************************)
EXTENDS Naturals, Sequences, FiniteSets

CONSTANTS
    MaxRequestBytes,   \* MAX_REQUEST_BYTES
    Lines,             \* the lines a host may write, without their newline
    Lockstep,          \* the host reads each response before it writes again
    MaxLines           \* bound: lines a host writes

Text == {"x", "s", "r", "m1", "m2", "b"}

ASSUME StdioAssumption ==
    /\ MaxRequestBytes \in Nat \ {0}
    /\ Lines \subseteq Seq(Text)
    /\ Lockstep \in BOOLEAN
    /\ MaxLines \in Nat

VARIABLES
    sent,        \* the lines the host has written
    stdin,       \* bytes written and not yet read
    eof,         \* the host has closed the daemon's stdin
    stdoutOpen,  \* the host still reads the daemon's stdout
    pc,          \* "read", "drain", or how the daemon ended
    line,        \* the String the loop reads into, while it drains
    responses    \* responses written: the line answered, the text handled

vars == <<sent, stdin, eof, stdoutOpen, pc, line, responses>>

-----------------------------------------------------------------------------
(* Strings *)

Bytes(s) == [i \in DOMAIN s |-> s[i].byte]
Take(s, n) == SubSeq(s, 1, n)
Drop(s, n) == SubSeq(s, n + 1, Len(s))
EndsWith(s, b) == s # <<>> /\ s[Len(s)].byte = b

\* str::trim leaves nothing.
Blank(b) == \A i \in DOMAIN b : b[i] \in {"s", "r", "n"}

\* White space at both ends taken off: what the JSON parser reads.
Trim(b) ==
    IF Blank(b) THEN <<>>
    ELSE LET ink == {i \in DOMAIN b : b[i] \notin {"s", "r"}}
             first == CHOOSE i \in ink : \A j \in ink : i <= j
             last == CHOOSE i \in ink : \A j \in ink : i >= j
         IN SubSeq(b, first, last)

\* The bytes are UTF-8: every character is whole.
Utf8(b) ==
    \A i \in DOMAIN b :
        /\ b[i] # "b"
        /\ b[i] = "m1" => i < Len(b) /\ b[i + 1] = "m2"
        /\ b[i] = "m2" => i > 1 /\ b[i - 1] = "m1"

\* Slicing a str after n bytes does not cut a character.
CharBoundary(b, n) == n = Len(b) \/ b[n + 1] # "m2"

\* How many bytes a read up to and including the next newline takes from stdin:
\* no more than limit, and what is left at end of file; 0 if it must wait.
ReadLength(limit) ==
    LET newlines == {i \in DOMAIN stdin : stdin[i].byte = "n" /\ i <= limit}
    IN IF newlines # {} THEN CHOOSE i \in newlines : \A j \in newlines : i <= j
       ELSE IF Len(stdin) >= limit THEN limit
       ELSE IF eof THEN Len(stdin) ELSE 0

ReadReady(limit) == ReadLength(limit) > 0 \/ eof

\* Fault: the newline is dropped but not the carriage return before it.
StripNewline(s) == IF EndsWith(s, "n") THEN Take(s, Len(s) - 1) ELSE s

\* main.rs:108-113: drop a newline, and a carriage return before it.
Strip(s) ==
    IF ~EndsWith(s, "n") THEN s
    ELSE LET t == Take(s, Len(s) - 1)
         IN IF EndsWith(t, "r") THEN Take(t, Len(t) - 1) ELSE t

\* Engine::handle_line: one response, for the line the text began in.
Response(s) ==
    [line |-> s[1].line,
     kind |-> IF Len(s) > MaxRequestBytes THEN "bad_request" ELSE "answer",
     text |-> Trim(Bytes(s))]

-----------------------------------------------------------------------------
(* The host *)

Requests(ls) == {i \in DOMAIN ls : ~Blank(ls[i])}

\* A host in lockstep has the response to everything it asked.
HostReady ==
    Lockstep => Cardinality(Requests(sent)) = Len(responses)

Tagged(l, i) == [k \in DOMAIN l |-> [line |-> i, col |-> k, byte |-> l[k]]]

HostWrite(l) ==
    /\ ~eof /\ Len(sent) < MaxLines /\ HostReady
    /\ sent' = Append(sent, l)
    /\ stdin' = stdin \o Tagged(Append(l, "n"), Len(sent) + 1)
    /\ UNCHANGED <<eof, stdoutOpen, pc, line, responses>>

HostClose ==
    /\ ~eof
    /\ eof' = TRUE
    /\ UNCHANGED <<sent, stdin, stdoutOpen, pc, line, responses>>

\* The last line may lack its newline.
HostWriteLast(l) ==
    /\ ~eof /\ Len(sent) < MaxLines /\ HostReady
    /\ sent' = Append(sent, l)
    /\ stdin' = stdin \o Tagged(l, Len(sent) + 1)
    /\ eof' = TRUE
    /\ UNCHANGED <<stdoutOpen, pc, line, responses>>

HostHangUp ==
    /\ stdoutOpen
    /\ stdoutOpen' = FALSE
    /\ UNCHANGED <<sent, stdin, eof, pc, line, responses>>

-----------------------------------------------------------------------------
(* The daemon *)

Limit == MaxRequestBytes + 2

\* write_all and flush; a host that is gone ends the loop with an error.
Respond(s) ==
    IF stdoutOpen
    THEN responses' = Append(responses, Response(s)) /\ pc' = "read"
    ELSE pc' = "failed" /\ UNCHANGED responses

\* take(MAX + 2).read_line, the part every outcome shares.
Read ==
    /\ pc = "read"
    /\ ReadReady(Limit)
    /\ stdin' = Drop(stdin, ReadLength(Limit))

Chunk == Take(stdin, ReadLength(Limit))

\* Zero bytes: end of file, exit 0.
ReadEof ==
    /\ Read
    /\ Chunk = <<>>
    /\ pc' = "done"
    /\ UNCHANGED <<sent, eof, stdoutOpen, line, responses>>

\* read_line fails: what it read is not UTF-8.
ReadInvalid ==
    /\ Read
    /\ Chunk # <<>> /\ ~Utf8(Bytes(Chunk))
    /\ pc' = "failed"
    /\ UNCHANGED <<sent, eof, stdoutOpen, line, responses>>

\* Text has been read into line.
ReadText == Read /\ Chunk # <<>> /\ Utf8(Bytes(Chunk))

\* Fault: a long line that begins with a blank chunk is waited for to its end.
ReadBlankWhole ==
    /\ ReadText
    /\ Blank(Bytes(Strip(Chunk)))
    /\ EndsWith(Chunk, "n")
    /\ UNCHANGED <<sent, eof, stdoutOpen, pc, line, responses>>

ReadBlank ==
    /\ ReadText
    /\ Blank(Bytes(Strip(Chunk)))
    /\ UNCHANGED <<sent, eof, stdoutOpen, pc, line, responses>>

ReadRequest ==
    /\ ReadText
    /\ ~Blank(Bytes(Strip(Chunk)))
    /\ Len(Strip(Chunk)) <= MaxRequestBytes
    /\ Respond(Strip(Chunk))
    /\ UNCHANGED <<sent, eof, stdoutOpen, line>>

\* Fault: the response of a long line is composed from its first chunk.
ReadOversizedAnswered ==
    /\ ReadText
    /\ ~Blank(Bytes(Strip(Chunk)))
    /\ Len(Strip(Chunk)) > MaxRequestBytes
    /\ Respond(Take(Strip(Chunk), MaxRequestBytes))
    /\ UNCHANGED <<sent, eof, stdoutOpen, line>>

ReadOversized ==
    /\ ReadText
    /\ ~Blank(Bytes(Strip(Chunk)))
    /\ Len(Strip(Chunk)) > MaxRequestBytes
    /\ pc' = "drain"
    /\ line' = Strip(Chunk)
    /\ UNCHANGED <<sent, eof, stdoutOpen, responses>>

\* Fault: the rest of an oversized line is left in stdin.
DrainNothing ==
    /\ pc = "drain"
    /\ line' = <<>>
    /\ Respond(Take(line, MaxRequestBytes + 1))
    /\ UNCHANGED <<sent, stdin, eof, stdoutOpen>>

\* Fault: a long line is handled whole, without the slice after MAX + 1 bytes.
DrainOversizedUncut ==
    /\ pc = "drain"
    /\ ReadLength(Len(stdin) + 1) > 0 \/ eof
    /\ stdin' = Drop(stdin, ReadLength(Len(stdin) + 1))
    /\ line' = <<>>
    /\ Respond(line)
    /\ UNCHANGED <<sent, eof, stdoutOpen>>

\* drain_oversized_line reads to the next newline, however far; then the first
\* MAX + 1 bytes are handled, and slicing inside a character panics.
DrainOversized ==
    /\ pc = "drain"
    /\ ReadLength(Len(stdin) + 1) > 0 \/ eof
    /\ stdin' = Drop(stdin, ReadLength(Len(stdin) + 1))
    /\ line' = <<>>
    /\ IF CharBoundary(Bytes(line), MaxRequestBytes + 1)
         THEN Respond(Take(line, MaxRequestBytes + 1))
         ELSE pc' = "failed" /\ UNCHANGED responses
    /\ UNCHANGED <<sent, eof, stdoutOpen>>

Ended == pc \in {"done", "failed"} /\ UNCHANGED vars

-----------------------------------------------------------------------------
Init ==
    /\ sent = <<>> /\ stdin = <<>> /\ eof = FALSE /\ stdoutOpen = TRUE
    /\ pc = "read" /\ line = <<>> /\ responses = <<>>

HostStep ==
    \/ \E l \in Lines : HostWrite(l) \/ HostWriteLast(l)
    \/ HostClose \/ HostHangUp

DaemonStep ==
    \/ ReadEof \/ ReadInvalid \/ ReadBlank \/ ReadRequest \/ ReadOversized
    \/ DrainOversized

Next == HostStep \/ DaemonStep \/ Ended

Spec == Init /\ [][Next]_vars

\* The daemon keeps running; nothing is assumed of the host.
FairSpec == Spec /\ WF_vars(DaemonStep)

-----------------------------------------------------------------------------
(* Properties *)

TaggedByte == [line : Nat, col : Nat, byte : Text \cup {"n"}]
Responses == [line : Nat, kind : {"answer", "bad_request"}, text : Seq(Text)]

\* The type of every variable of the loop, with the bound it reads for: however
\* long the lines of a host are, the loop holds MAX + 2 bytes of one (main.rs:98-104)
\* and the engine is handed MAX + 1 (main.rs:120-124).
TypeOK ==
    /\ sent \in Seq(Lines)
    /\ stdin \in Seq(TaggedByte)
    /\ eof \in BOOLEAN /\ stdoutOpen \in BOOLEAN
    /\ pc \in {"read", "drain", "done", "failed"}
    /\ line \in Seq(TaggedByte) /\ Len(line) <= Limit
    /\ responses \in Seq(Responses)
    /\ \A i \in DOMAIN responses :
         Len(responses[i].text) <= MaxRequestBytes + 1

\* Responses come in the order of the request lines and no line gets two, not
\* even one that is read in several chunks (main.rs:99-128).
InOrderAtMostOnce ==
    \A i, j \in DOMAIN responses : i < j => responses[i].line < responses[j].line

\* What is answered is a line as the host wrote it, never a piece of a line or
\* pieces of two (main.rs:101-124), and never longer than the limit.
AnswersWholeLines ==
    \A i \in DOMAIN responses : responses[i].kind = "answer" =>
        /\ responses[i].text = Trim(sent[responses[i].line])
        /\ Len(responses[i].text) <= MaxRequestBytes

\* The lines that make the drain read on into the next line: what is left of
\* them after blank chunks is one byte over the limit, and read with its newline.
Swallows(l) ==
    \E k \in {n \in 0 .. Len(l) : n * Limit < Len(l)} :
        LET rest == Drop(l, k * Limit) IN
        /\ Blank(Take(l, k * Limit))
        /\ Len(rest) = MaxRequestBytes + 1
        /\ ~Blank(rest) /\ rest[Len(rest)] # "r"

Answered(i) == \E k \in DOMAIN responses : responses[k].line = i

\* The daemon waits for more input, or has ended at end of file.
Waiting ==
    \/ pc = "done"
    \/ pc = "read" /\ ~ReadReady(Limit)
    \/ pc = "drain" /\ ReadLength(Len(stdin) + 1) = 0 /\ ~eof

\* Line i need not have been answered (yet): the line before it took it, or it is
\* one byte too long itself and nothing follows it.
Excused(i) ==
    \/ i - 1 \in DOMAIN sent /\ Swallows(sent[i - 1])
    \/ Len(sent) = i /\ Swallows(sent[i]) /\ ~eof

\* Whenever the daemon waits for the host or has seen end of file, it owes no
\* response (main.rs:99-128): every request line is answered, with one exception.
\* A line one byte over the limit is answered only once another line or end of
\* file follows, and the line that follows it is lost.
NothingOwed == Waiting => \A i \in Requests(sent) : Answered(i) \/ Excused(i)

\* A request line waits for its response and the host for it.
Owing ==
    /\ stdoutOpen /\ pc # "failed"
    /\ \E i \in Requests(sent) : ~Answered(i) /\ ~Excused(i)

\* However many lines the host has written, the daemon comes to owe none of them
\* a response, with the exceptions of NothingOwed: the loop never reads on for
\* ever nor waits for more than the host has to write (main.rs:99-135).
CatchesUp == Owing ~> ~Owing

\* INTEGRATING.md:30-31: "the daemon writes exactly one response line per
\* request line".
OneResponsePerLine ==
    \A i \in 1 .. MaxLines :
        (i \in Requests(sent)) ~> (Answered(i) \/ pc = "failed" \/ ~stdoutOpen)

\* main.rs:5-6: malformed lines produce a response "and the loop continues".
MalformedLineContinues == stdoutOpen => pc # "failed"

-----------------------------------------------------------------------------
(* The inductive invariants behind InOrderAtMostOnce, AnswersWholeLines and   *)
(* NothingOwed.                                                              *)

Newline(p) == stdin[p].byte = "n"

\* What is in stdin is what is left of the lines sent, in order: where a newline
\* is not between them, bytes are of one line; behind one, the next line begins.
StreamInv ==
    /\ \A p \in DOMAIN stdin :
         LET x == stdin[p]
         IN /\ x.line \in DOMAIN sent /\ x.col \in 1 .. Len(sent[x.line]) + 1
            /\ x.byte = Append(sent[x.line], "n")[x.col]
    /\ \A p, q \in DOMAIN stdin :
         p < q => \/ stdin[p].line < stdin[q].line
                  \/ stdin[p].line = stdin[q].line /\ ~Newline(p)
    /\ \A p, q \in DOMAIN stdin :
         p < q /\ (\A m \in p .. q - 1 : ~Newline(m)) =>
            stdin[q].line = stdin[p].line /\ stdin[q].col = stdin[p].col + (q - p)
    /\ \A p \in DOMAIN stdin : p + 1 \in DOMAIN stdin /\ Newline(p) =>
         stdin[p + 1].line = stdin[p].line + 1 /\ stdin[p + 1].col = 1

\* The last line alone may lack its newline, or be nothing at all.
LastInv ==
    stdin # <<>> =>
        LET x == stdin[Len(stdin)]
        IN /\ Newline(Len(stdin)) \/ (eof /\ x.col = Len(sent[x.line]))
           /\ \/ x.line = Len(sent)
              \/ eof /\ x.line + 1 = Len(sent) /\ sent[Len(sent)] = <<>>

\* The first line that has not been read to its end.
Left == IF stdin = <<>> THEN Len(sent) + 1 ELSE stdin[1].line

\* Responses are for lines that have been read.
PastInv ==
    \A k \in DOMAIN responses : responses[k].line \in 1 .. Left - 1

\* Before line Left, nothing is owed.
Paid(i) == Answered(i) \/ (i - 1 \in DOMAIN sent /\ Swallows(sent[i - 1]))

\* Between two reads (main.rs:99-128): what has been read of the next line are
\* blank chunks.
ReadInv ==
    pc = "read" =>
        /\ stdin # <<>> =>
             LET x == stdin[1]
             IN /\ \E k \in 0 .. x.col : x.col = k * Limit + 1
                /\ Blank(Take(sent[x.line], x.col - 1))
        /\ \A i \in Requests(sent) : i < Left => Paid(i)

\* Between the two reads of a long line (main.rs:114-124): line is its beginning,
\* and the rest of it, or the line after it, comes next.
DrainInv ==
    pc = "drain" =>
        LET i == line[1].line
        IN /\ Len(line) > MaxRequestBytes /\ \A k \in DOMAIN line : line[k].byte # "n"
           /\ i \in DOMAIN sent
           /\ \A k \in DOMAIN responses : responses[k].line < i
           /\ \A j \in Requests(sent) : j < Left => Paid(j) \/ j = i
           /\ i \in Requests(sent)
           /\ \/ Left = i \/ (stdin = <<>> /\ eof)
              \/ Swallows(sent[i]) /\ Left = i + 1

\* At the end nothing is left.
DoneInv == pc = "done" => eof /\ stdin = <<>> /\ \A i \in Requests(sent) : Paid(i)
=============================================================================

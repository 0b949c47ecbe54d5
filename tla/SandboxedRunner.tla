--------------------------- MODULE SandboxedRunner ---------------------------
(***************************************************************************)
(* The generator runner of crates/data: SandboxedRunner::run, its TtlCache  *)
(* and the child process, stdout pipe and reader thread of one execution.   *)
(*                                                                         *)
(* A Thread is a host thread inside Engine::handle (several of them call    *)
(* the C ABI at once and share one runner).  Each step below is what runs   *)
(* between two points where another thread, the child, the reader thread    *)
(* or the clock can be observed: a lock, a system call or a join.           *)
(*                                                                         *)
(* Data: a request stands for a (generator, cwd) pair; output is counted    *)
(* in bytes, and the parsed values remember whose rules parsed them, when   *)
(* their process was spawned and how it ended.                              *)
(***************************************************************************)
EXTENDS Integers, Sequences, FiniteSets

CONSTANTS
    Threads,         \* host threads that share the runner
    Requests,        \* (generator, cwd) pairs
    Run,             \* Run[r]: the generator's argv
    Cwd,             \* Cwd[r]: the working directory
    Ttl,             \* Ttl[r]: cache.ttlMs, 0 when the generator has no cache
    Programs,        \* the programs passed to with_allow_list
    Installed,       \* the programs found executable in the trusted directories
    Timeout,         \* SandboxedRunner::timeout
    Cap,             \* SandboxedRunner::max_output_bytes
    PipeCap,         \* capacity of the OS pipe
    KillTool,        \* /bin/kill or /usr/bin/kill exists
    Holders,         \* what a child may leave holding its stdout
    None,            \* no request, no parsed values
    MaxOut,          \* bound: bytes a child writes
    MaxClock         \* bound: no call starts after this time

Values == [from : Requests, born : Nat, bytes : Nat, failed : BOOLEAN]

ASSUME RunnerAssumption ==
    /\ Run \in [Requests -> Seq(STRING)]
    /\ Ttl \in [Requests -> Nat]
    /\ DOMAIN Cwd = Requests
    /\ Timeout \in Nat /\ Cap \in Nat /\ PipeCap \in Nat \ {0}
    /\ MaxOut \in Nat /\ MaxClock \in Nat
    /\ KillTool \in BOOLEAN
    /\ Holders \subseteq {"none", "group", "escaped"}
    /\ None \notin Values /\ None \notin Requests

VARIABLES
    clock,      \* Instant::now()
    cache,      \* TtlCache::entries, a map from CacheKey to CacheEntry
    pc,         \* pc[t]: where thread t is inside run/execute
    req,        \* req[t]: the request being served
    now,        \* now[t]: the instant taken when run was entered
    deadline,   \* deadline[t]: when the poll loop gives up
    outcome,    \* outcome[t]: the result run is about to return
    vals,       \* vals[t]: the parsed values, None before there are any
    child,      \* child[t]: the spawned process
    failed,     \* failed[t]: the child ended abnormally
    born,       \* born[t]: when the child was spawned
    holder,     \* holder[t]: a descendant of the child that holds its stdout
    pipe,       \* pipe[t]: bytes in the pipe, not yet read
    reader,     \* reader[t]: the thread that drains stdout
    captured    \* captured[t]: bytes the reader has read

callVars == <<req, now, deadline, outcome, vals>>
procVars == <<child, failed, born, holder, pipe, reader, captured>>
vars == <<clock, cache, pc, callVars, procVars>>

-----------------------------------------------------------------------------
(* Cache keys, entries and the allow-list *)

CacheKey(r) == [run |-> Run[r], cwd |-> Cwd[r]]

CacheKeys == {CacheKey(r) : r \in Requests}

CacheEntry == [values : Values, expires_at : Nat]

resolve_allowed_program(p) == p # "" /\ p \in Installed

AllowList == {p \in Programs : resolve_allowed_program(p)}

allowed_executable(p) == p \in AllowList

\* Fault: an entry is still served at the instant it expires.
FreshAtExpiry(k, n) == k \in DOMAIN cache /\ cache[k].expires_at >= n

\* The entry TtlCache::get serves at instant n: present and not yet expired.
Fresh(k, n) == k \in DOMAIN cache /\ cache[k].expires_at > n

\* TtlCache::put: a zero ttl stores nothing, anything else overwrites.
CachePut(k, v, ttl, n) ==
    cache' = IF ttl = 0 THEN cache
             ELSE [x \in DOMAIN cache \cup {k} |->
                     IF x = k THEN [values |-> v, expires_at |-> n + ttl]
                              ELSE cache[x]]

-----------------------------------------------------------------------------
PCs == {"idle", "lookup", "execute", "poll", "check", "kill", "joinErr",
        "join", "put", "ret"}
Errors == {"EmptyRun", "NotAllowListed", "Execution", "Timeout"}
Outcomes == {"none", "hit", "ran"} \cup Errors

\* The type of every variable of the runner, with its limits in memory: whatever
\* the child writes, the pipe and the buffer of the reader thread (runner.rs:185)
\* never hold more than their capacities.
TypeOK ==
    /\ clock \in Nat
    /\ DOMAIN cache \subseteq CacheKeys
    /\ \A k \in DOMAIN cache : cache[k] \in CacheEntry
    /\ pc \in [Threads -> PCs]
    /\ req \in [Threads -> Requests \cup {None}]
    /\ now \in [Threads -> Nat]
    /\ deadline \in [Threads -> Nat]
    /\ outcome \in [Threads -> Outcomes]
    /\ vals \in [Threads -> Values \cup {None}]
    /\ child \in [Threads -> {"none", "running", "zombie", "reaped"}]
    /\ failed \in [Threads -> BOOLEAN]
    /\ born \in [Threads -> Nat]
    /\ holder \in [Threads -> {"none", "group", "escaped", "spared"}]
    /\ pipe \in [Threads -> 0 .. PipeCap]
    /\ reader \in [Threads -> {"none", "reading", "sent"}]
    /\ captured \in [Threads -> 0 .. Cap]

Init ==
    /\ clock = 0
    /\ cache = [k \in {} |-> None]
    /\ pc = [t \in Threads |-> "idle"]
    /\ req = [t \in Threads |-> None]
    /\ now = [t \in Threads |-> 0]
    /\ deadline = [t \in Threads |-> 0]
    /\ outcome = [t \in Threads |-> "none"]
    /\ vals = [t \in Threads |-> None]
    /\ child = [t \in Threads |-> "none"]
    /\ failed = [t \in Threads |-> FALSE]
    /\ born = [t \in Threads |-> 0]
    /\ holder = [t \in Threads |-> "none"]
    /\ pipe = [t \in Threads |-> 0]
    /\ reader = [t \in Threads |-> "none"]
    /\ captured = [t \in Threads |-> 0]

-----------------------------------------------------------------------------
(* SandboxedRunner::run, up to the child process *)

Goto(t, label) == pc' = [pc EXCEPT ![t] = label]

\* Leave run with result o; the caller sees it in state "ret".
Finish(t, o) == Goto(t, "ret") /\ outcome' = [outcome EXCEPT ![t] = o]

\* run is entered: Instant::now() is read once, before the cache is looked at.
Call(t, r) ==
    /\ pc[t] = "idle"
    /\ clock <= MaxClock
    /\ req' = [req EXCEPT ![t] = r]
    /\ now' = [now EXCEPT ![t] = clock]
    /\ Goto(t, IF Ttl[r] = 0 THEN "execute" ELSE "lookup")
    /\ UNCHANGED <<clock, cache, deadline, outcome, vals, procVars>>

\* TtlCache::get under the lock, with the instant read by Call.
LookupHit(t) ==
    /\ pc[t] = "lookup"
    /\ Fresh(CacheKey(req[t]), now[t])
    /\ vals' = [vals EXCEPT ![t] = cache[CacheKey(req[t])].values]
    /\ Finish(t, "hit")
    /\ UNCHANGED <<clock, cache, req, now, deadline, procVars>>

LookupMiss(t) ==
    /\ pc[t] = "lookup"
    /\ ~Fresh(CacheKey(req[t]), now[t])
    /\ Goto(t, "execute")
    /\ UNCHANGED <<clock, cache, callVars, procVars>>

\* The error execute returns before it spawns anything, "none" if it goes on.
Refusal(r) ==
    IF Run[r] = <<>> THEN "EmptyRun"
    ELSE IF ~allowed_executable(Head(Run[r])) THEN "NotAllowListed"
    ELSE "none"

Refuse(t) ==
    /\ pc[t] = "execute"
    /\ Refusal(req[t]) # "none"
    /\ Finish(t, Refusal(req[t]))
    /\ UNCHANGED <<clock, cache, req, now, deadline, vals, procVars>>

SpawnFail(t) ==
    /\ pc[t] = "execute"
    /\ Refusal(req[t]) = "none"
    /\ Finish(t, "Execution")
    /\ UNCHANGED <<clock, cache, req, now, deadline, vals, procVars>>

\* spawn, take stdout, start the reader thread, compute the deadline.
Spawn(t, h) ==
    /\ pc[t] = "execute"
    /\ Refusal(req[t]) = "none"
    /\ child' = [child EXCEPT ![t] = "running"]
    /\ failed' = [failed EXCEPT ![t] = FALSE]
    /\ born' = [born EXCEPT ![t] = clock]
    /\ holder' = [holder EXCEPT ![t] = h]
    /\ pipe' = [pipe EXCEPT ![t] = 0]
    /\ reader' = [reader EXCEPT ![t] = "reading"]
    /\ captured' = [captured EXCEPT ![t] = 0]
    /\ deadline' = [deadline EXCEPT ![t] = clock + Timeout]
    /\ Goto(t, "poll")
    /\ UNCHANGED <<clock, cache, req, now, outcome, vals>>

-----------------------------------------------------------------------------
(* The poll loop, the kill path and the join *)

\* try_wait reaps an ended child; its exit status is dropped.
PollExited(t) ==
    /\ pc[t] = "poll"
    /\ child[t] = "zombie"
    /\ child' = [child EXCEPT ![t] = "reaped"]
    /\ Goto(t, "join")
    /\ UNCHANGED <<clock, cache, callVars, failed, born, holder, pipe, reader,
                   captured>>

PollRunning(t) ==
    /\ pc[t] = "poll"
    /\ child[t] = "running"
    /\ Goto(t, "check")
    /\ UNCHANGED <<clock, cache, callVars, procVars>>

\* try_wait itself fails.
PollError(t) ==
    /\ pc[t] = "poll"
    /\ outcome' = [outcome EXCEPT ![t] = "Execution"]
    /\ Goto(t, "kill")
    /\ UNCHANGED <<clock, cache, req, now, deadline, vals, procVars>>

\* Fault: the loop gives up when the next poll would come too late.
CheckEarly(t) ==
    /\ pc[t] = "check"
    /\ IF clock + 1 >= deadline[t]
         THEN outcome' = [outcome EXCEPT ![t] = "Timeout"] /\ Goto(t, "kill")
         ELSE Goto(t, "poll") /\ UNCHANGED outcome
    /\ UNCHANGED <<clock, cache, req, now, deadline, vals, procVars>>

\* Fault: the deadline is never looked at.
CheckNothing(t) ==
    /\ pc[t] = "check"
    /\ Goto(t, "poll")
    /\ UNCHANGED <<clock, cache, callVars, procVars>>

\* The child was running: give up at the deadline, else sleep and poll again.
CheckDeadline(t) ==
    /\ pc[t] = "check"
    /\ IF clock >= deadline[t]
         THEN outcome' = [outcome EXCEPT ![t] = "Timeout"] /\ Goto(t, "kill")
         ELSE Goto(t, "poll") /\ UNCHANGED outcome
    /\ UNCHANGED <<clock, cache, req, now, deadline, vals, procVars>>

\* Fault: only the child is killed, not its process group.
KillChildOnly(t) ==
    /\ pc[t] = "kill"
    /\ child' = [child EXCEPT ![t] = "reaped"]
    /\ failed' = [failed EXCEPT ![t] = TRUE]
    /\ Goto(t, "joinErr")
    /\ UNCHANGED <<clock, cache, callVars, born, holder, pipe, reader, captured>>

\* Fault: the killed child is not waited for.
KillNoWait(t) ==
    /\ pc[t] = "kill"
    /\ child' = [child EXCEPT ![t] = "zombie"]
    /\ holder' = [holder EXCEPT ![t] = "none"]
    /\ Goto(t, "joinErr")
    /\ UNCHANGED <<clock, cache, callVars, failed, born, pipe, reader, captured>>

\* What a descendant h becomes when its process group is to be killed: spared, if
\* there is no kill program or it cannot be run or fails (its result is ignored).
GroupKilled(h) ==
    IF h # "group" THEN {h}
    ELSE {"spared"} \cup (IF KillTool THEN {"none"} ELSE {})

\* kill_child_tree, then child.wait(): the child itself dies in any case.
KillAndWait(t) ==
    /\ pc[t] = "kill"
    /\ child' = [child EXCEPT ![t] = "reaped"]
    /\ failed' = [failed EXCEPT ![t] = @ \/ child[t] = "running"]
    /\ \E h \in GroupKilled(holder[t]) : holder' = [holder EXCEPT ![t] = h]
    /\ Goto(t, "joinErr")
    /\ UNCHANGED <<clock, cache, callVars, born, pipe, reader, captured>>

\* Fault: the error paths do not join the reader thread.
NoJoinErr(t) ==
    /\ pc[t] = "joinErr"
    /\ Goto(t, "ret")
    /\ UNCHANGED <<clock, cache, callVars, procVars>>

\* reader.join() on the two error paths.
JoinErr(t) ==
    /\ pc[t] = "joinErr"
    /\ reader[t] = "sent"
    /\ Goto(t, "ret")
    /\ UNCHANGED <<clock, cache, callVars, procVars>>

\* Fault: the buffer is received without joining the reader thread first.
CollectUnjoined(t) ==
    /\ pc[t] = "join"
    /\ vals' = [vals EXCEPT ![t] =
                  [from |-> req[t], born |-> born[t], failed |-> failed[t],
                   bytes |-> IF reader[t] = "sent" THEN captured[t] ELSE 0]]
    /\ Goto(t, "put")
    /\ UNCHANGED <<clock, cache, req, now, deadline, outcome, procVars>>

\* reader.join(), recv_timeout and parse_output: the reader has sent its buffer
\* when it ends, so what is received is all it captured.
Collect(t) ==
    /\ pc[t] = "join"
    /\ reader[t] = "sent"
    /\ vals' = [vals EXCEPT ![t] = [from |-> req[t], born |-> born[t],
                                    bytes |-> captured[t],
                                    failed |-> failed[t]]]
    /\ Goto(t, "put")
    /\ UNCHANGED <<clock, cache, req, now, deadline, outcome, procVars>>

\* Fault: the ttl is counted from the end of the execution.
PutLate(t) ==
    /\ pc[t] = "put"
    /\ CachePut(CacheKey(req[t]), vals[t], Ttl[req[t]], clock)
    /\ Finish(t, "ran")
    /\ UNCHANGED <<clock, req, now, deadline, vals, procVars>>

\* TtlCache::put, with the instant read by Call.
Put(t) ==
    /\ pc[t] = "put"
    /\ CachePut(CacheKey(req[t]), vals[t], Ttl[req[t]], now[t])
    /\ Finish(t, "ran")
    /\ UNCHANGED <<clock, req, now, deadline, vals, procVars>>

\* run returns: its locals are gone, what it left in the system stays.
Return(t) ==
    /\ pc[t] = "ret"
    /\ Goto(t, "idle")
    /\ req' = [req EXCEPT ![t] = None]
    /\ now' = [now EXCEPT ![t] = 0]
    /\ deadline' = [deadline EXCEPT ![t] = 0]
    /\ outcome' = [outcome EXCEPT ![t] = "none"]
    /\ vals' = [vals EXCEPT ![t] = None]
    /\ failed' = [failed EXCEPT ![t] = FALSE]
    /\ born' = [born EXCEPT ![t] = 0]
    /\ pipe' = [pipe EXCEPT ![t] = 0]
    /\ captured' = [captured EXCEPT ![t] = 0]
    /\ UNCHANGED <<clock, cache, child, holder, reader>>

-----------------------------------------------------------------------------
(* The child process, its stdout, the reader thread and time *)

\* Somebody still has the write end of the pipe.
StdoutOpen(t) == child[t] = "running" \/ holder[t] # "none"

\* A byte is written: it waits in the pipe, or SIGPIPE ends the child if the
\* reader has stopped at the cap and closed its end.
ChildWrite(t) ==
    /\ child[t] = "running"
    /\ captured[t] + pipe[t] < MaxOut
    /\ \/ /\ reader[t] = "reading"
          /\ pipe[t] < PipeCap
          /\ pipe' = [pipe EXCEPT ![t] = @ + 1]
          /\ UNCHANGED <<child, failed>>
       \/ /\ reader[t] = "sent"
          /\ child' = [child EXCEPT ![t] = "zombie"]
          /\ failed' = [failed EXCEPT ![t] = TRUE]
          /\ UNCHANGED pipe
    /\ UNCHANGED <<clock, cache, pc, callVars, born, holder, reader, captured>>

\* The child ends by itself, normally or not (nonzero status, a signal).
ChildExit(t, abnormal) ==
    /\ child[t] = "running"
    /\ child' = [child EXCEPT ![t] = "zombie"]
    /\ failed' = [failed EXCEPT ![t] = abnormal]
    /\ UNCHANGED <<clock, cache, pc, callVars, born, holder, pipe, reader,
                   captured>>

\* A descendant the child started in the background ends.
HolderExit(t) ==
    /\ holder[t] # "none"
    /\ holder' = [holder EXCEPT ![t] = "none"]
    /\ UNCHANGED <<clock, cache, pc, callVars, child, failed, born, pipe,
                   reader, captured>>

\* Fault: stdout is read to its end, without take(cap).
ReaderReadUncapped(t) ==
    /\ reader[t] = "reading"
    /\ pipe[t] > 0
    /\ pipe' = [pipe EXCEPT ![t] = @ - 1]
    /\ captured' = [captured EXCEPT ![t] = @ + 1]
    /\ UNCHANGED <<clock, cache, pc, callVars, child, failed, born, holder,
                   reader>>

\* read_to_end on stdout.take(cap).
ReaderRead(t) ==
    /\ reader[t] = "reading"
    /\ pipe[t] > 0 /\ captured[t] < Cap
    /\ pipe' = [pipe EXCEPT ![t] = @ - 1]
    /\ captured' = [captured EXCEPT ![t] = @ + 1]
    /\ UNCHANGED <<clock, cache, pc, callVars, child, failed, born, holder,
                   reader>>

\* The cap or end of file: send the buffer, close stdout, end.
ReaderEnd(t) ==
    /\ reader[t] = "reading"
    /\ captured[t] = Cap \/ (pipe[t] = 0 /\ ~StdoutOpen(t))
    /\ reader' = [reader EXCEPT ![t] = "sent"]
    /\ UNCHANGED <<clock, cache, pc, callVars, child, failed, born, holder,
                   pipe, captured>>

\* Past MaxClock time only passes while a poll loop waits for its deadline.
Tick ==
    /\ \/ clock < MaxClock
       \/ \E t \in Threads : pc[t] \in {"poll", "check"} /\ clock < deadline[t]
    /\ clock' = clock + 1
    /\ UNCHANGED <<cache, pc, callVars, procVars>>

-----------------------------------------------------------------------------
\* The bound on time is reached and every call has returned.
Horizon ==
    /\ clock > MaxClock
    /\ \A t \in Threads : pc[t] = "idle"
    /\ UNCHANGED vars

RunStep(t) ==
    \/ LookupHit(t) \/ LookupMiss(t)
    \/ Refuse(t) \/ SpawnFail(t) \/ \E h \in Holders : Spawn(t, h)
    \/ PollExited(t) \/ PollRunning(t) \/ PollError(t) \/ CheckDeadline(t)
    \/ KillAndWait(t) \/ JoinErr(t) \/ Collect(t) \/ Put(t) \/ Return(t)

ReaderStep(t) == ReaderRead(t) \/ ReaderEnd(t)

ChildStep(t) ==
    \/ ChildWrite(t)
    \/ \E abnormal \in BOOLEAN : ChildExit(t, abnormal)
    \/ HolderExit(t)

Next ==
    \/ \E t \in Threads :
         \/ \E r \in Requests : Call(t, r)
         \/ RunStep(t) \/ ReaderStep(t) \/ ChildStep(t)
    \/ Tick
    \/ Horizon

Spec == Init /\ [][Next]_vars

\* The operating system schedules the program's own threads and time passes.
\* Nothing is assumed of the host, the child or its descendants.
FairSpec ==
    /\ Spec
    /\ \A t \in Threads : WF_vars(RunStep(t)) /\ WF_vars(ReaderStep(t))
    /\ WF_vars(Tick)

-----------------------------------------------------------------------------
(* Properties *)

Min2(a, b) == IF a < b THEN a ELSE b

\* A warm hit (runner.rs:349) serves values a run of the same argv in the same
\* cwd produced, of a program on the allow-list although the hit skips that
\* check, and no older than the ttl they were stored with when the call began:
\* whatever other threads store, however late, in between.
HitJustified ==
    \A t \in Threads : pc[t] = "ret" /\ outcome[t] = "hit" =>
        LET v == vals[t] IN
        /\ CacheKey(v.from) = CacheKey(req[t])
        /\ Refusal(req[t]) = "none"
        /\ now[t] < v.born + Ttl[v.from]

\* A run that completes (runner.rs:215-219) returns everything its child wrote
\* up to the output cap: the wait loop never gets ahead of the reader thread.
WholeOutput ==
    \A t \in Threads : pc[t] = "ret" /\ outcome[t] = "ran" =>
        vals[t].bytes = Min2(Cap, captured[t] + pipe[t])

\* On every path out of execute the child has been waited for and the reader
\* thread joined (runner.rs:194-215): a call leaves no zombie and no thread.
NothingLeftBehind ==
    \A t \in Threads : pc[t] \in {"idle", "ret"} =>
        child[t] \in {"none", "reaped"} /\ reader[t] # "reading"

\* After a timeout (runner.rs:198, 317-332) nothing is left of the child's process
\* group, except what the kill program was missing for or failed to kill.
TimeoutKillsGroup ==
    \A t \in Threads : pc[t] = "ret" /\ outcome[t] = "Timeout" =>
        holder[t] # "group"

\* The child is gone and a process it started keeps the reader in read_to_end.
OrphanHoldsPipe(t) ==
    child[t] = "reaped" /\ reader[t] = "reading" /\ holder[t] # "none"

\* Every call returns (runner.rs:193-219), whatever the child does, even if it
\* never ends, except while a process the child left behind holds its stdout.
ReturnsUnlessHeld ==
    \A t \in Threads :
        pc[t] # "idle" ~> (pc[t] = "idle" \/ OrphanHoldsPipe(t))

\* runner.rs:14-16: execution is bounded by the deadline, "never a hang".
NeverAHang == \A t \in Threads : pc[t] # "idle" ~> pc[t] = "idle"

\* generator_runner.rs:28: a process that "exited abnormally" is an error.
AbnormalExitIsError ==
    \A t \in Threads : pc[t] = "ret" /\ outcome[t] = "ran" => ~vals[t].failed

-----------------------------------------------------------------------------
(* The inductive invariants behind HitJustified and behind WholeOutput,     *)
(* NothingLeftBehind and TimeoutKillsGroup.                                 *)

\* An execution has got past the allow-list.
Executing == {"poll", "check", "kill", "joinErr", "join", "put"}

\* Values v answer a call for key k that began at instant n.
Justified(v, k, n) ==
    /\ v \in Values
    /\ CacheKey(v.from) = k
    /\ Refusal(v.from) = "none"
    /\ n < v.born + Ttl[v.from]

\* Every stored entry expires within its producer's ttl of the moment its
\* process was spawned: put counts the ttl from before the spawn.
CacheSound ==
    \A k \in DOMAIN cache :
        LET v == cache[k].values IN
        /\ CacheKey(v.from) = k
        /\ Refusal(v.from) = "none"
        /\ cache[k].expires_at <= v.born + Ttl[v.from]

CallSound(t) ==
    /\ pc[t] # "idle" => req[t] \in Requests /\ now[t] <= clock
    /\ pc[t] \in Executing => Refusal(req[t]) = "none" /\ now[t] <= born[t]
    /\ pc[t] = "put" => /\ vals[t] \in Values
                        /\ vals[t].from = req[t] /\ vals[t].born = born[t]
    /\ pc[t] = "joinErr" => outcome[t] # "hit"
    /\ pc[t] = "kill" => outcome[t] # "hit"
    /\ pc[t] = "ret" /\ outcome[t] = "hit" =>
         Justified(vals[t], CacheKey(req[t]), now[t])

\* The cache and every call in progress: what a hit relies on (runner.rs:341-359,
\* cache.rs:54-88), strong enough to be preserved by every step.
CacheInv == CacheSound /\ \A t \in Threads : CallSound(t)

ProcSound(t) ==
    /\ captured[t] <= Cap
    /\ reader[t] = "sent" => captured[t] = Cap \/ pipe[t] = 0
    /\ pc[t] \notin Executing => child[t] \in {"none", "reaped"}
                                 /\ reader[t] # "reading"
    /\ pc[t] \in {"join", "joinErr", "put"} => child[t] = "reaped"
    /\ pc[t] \in Executing => reader[t] # "none"
    /\ pc[t] = "put" => reader[t] = "sent" /\ vals[t].bytes = captured[t]
    /\ pc[t] = "ret" /\ outcome[t] = "ran" =>
         reader[t] = "sent" /\ vals[t].bytes = captured[t]
    /\ pc[t] \in {"joinErr", "ret"} /\ outcome[t] = "Timeout" =>
         holder[t] # "group"
    /\ pc[t] \in {"kill", "joinErr"} => outcome[t] # "ran"

\* The child, the pipe and the reader in every state of a call
\* (runner.rs:171-219), strong enough to be preserved by every step.
ProcInv == \A t \in Threads : ProcSound(t)

WaitSound(t) ==
    /\ pc[t] \notin {"put", "ret"} => vals[t] = None
    /\ pc[t] = "lookup" => Ttl[req[t]] # 0
    /\ pc[t] \in Executing => born[t] <= clock
    /\ pc[t] \in {"poll", "check"} => now[t] + Timeout <= deadline[t]
    /\ pc[t] \in {"kill", "joinErr"} =>
         /\ outcome[t] \in {"Execution", "Timeout"}
         /\ outcome[t] = "Timeout" => now[t] + Timeout <= clock

\* What a call relies on while it waits (runner.rs:191-212): no deadline is nearer
\* than the timeout, and no timeout is reported before it has passed.
WaitInv == \A t \in Threads : WaitSound(t)

-----------------------------------------------------------------------------
(* The runner seen from its callers: a call is "asked" until its result is    *)
(* there; the execution in between is invisible, and so is its outcome while  *)
(* a child is still killed and joined.                                       *)

Stage == [t \in Threads |-> IF pc[t] = "idle" THEN "out"
                            ELSE IF pc[t] = "ret" THEN "answered"
                            ELSE "asked"]
Result == [t \in Threads |-> IF pc[t] = "ret" THEN outcome[t] ELSE "none"]
Got == [t \in Threads |-> IF pc[t] = "ret" THEN vals[t] ELSE None]

Contract == INSTANCE GeneratorRunner WITH
    Permitted <- AllowList,
    time <- clock, memory <- cache,
    stage <- Stage, asked <- req, since <- now, result <- Result, got <- Got

\* The runner implements the contract of the trait it is an instance of: every
\* call is answered as if in one step, from a memory no thread sees half written,
\* with what the allow-list, the ttl, the cap and the deadline permit
\* (runner.rs:340-360 behind generator_runner.rs:60-64).
KeepsContract == Contract!Spec
=============================================================================

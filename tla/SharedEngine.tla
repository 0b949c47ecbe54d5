----------------------------- MODULE SharedEngine -----------------------------
(***************************************************************************)
(* The C interface: host threads call autosuggest_request_json; the first    *)
(* of them builds the one engine of the process from the specs and rules on  *)
(* disk (load.rs, Engine::load), the others wait for it (OnceLock).          *)
(*                                                                         *)
(* The environment, the directories and their files may change at any moment *)
(* of the load, which reads them one after another. A file name is its place *)
(* in the order of paths.                                                   *)
(***************************************************************************)
EXTENDS Naturals, FiniteSets, Sequences, SequencesExt

CONSTANTS
    Threads,
    DataDirs,          \* absolute paths of data directories
    Relative,          \* a relative path that current_dir could not make absolute
    SpecFiles,         \* names that end in .spec.json
    RuleFiles,         \* names that end in .rule.json
    Contents,          \* what may be found under a name
    Writes,            \* what may come under a name while the process runs
    Disks, Envs,       \* the disks and environments a process may start with
    Requests,          \* what hosts pass in
    MAX_REQUEST_BYTES,
    MaxChanges,        \* bound: changes of the disk and of the environment
    MaxPanics,         \* bound: panics inside a call
    None

Kinds == {"specs", "rules"}

Files == SpecFiles \cup RuleFiles

Suffixed(k) == IF k = "specs" THEN SpecFiles ELSE RuleFiles

\* A good file parses; a spec answers to some names.
Content == [kind : {"absent", "other", "unreadable", "bad", "good"}, names : SUBSET STRING]

Dir == [kind : {"missing", "dir", "link", "denied"}, files : [Files -> Contents]]

\* What is kept of a file that was loaded, and of all of them.
Loads == [file : Files, names : SUBSET STRING]
Engine == [specs : Seq(Loads), rules : Seq(Loads)]

ASSUME SharedEngineAssumption ==
    /\ Files \subseteq Nat \ {0} /\ IsFiniteSet(Files)
    /\ SpecFiles \cap RuleFiles = {} /\ Files \cap (DataDirs \cup {Relative}) = {}
    /\ Contents \subseteq Content /\ Writes \subseteq Contents
    /\ \A c \in Contents : c.kind # "good" => c.names = {}
    /\ None \notin Threads \cup Files \cup Engine \cup DataDirs \cup {Relative}
    /\ Disks \subseteq [DataDirs -> Dir]
    /\ Relative \notin DataDirs
    /\ Envs \subseteq [specs : DataDirs \cup {Relative}, rules : DataDirs \cup {Relative},
                       allow : BOOLEAN]
    /\ Requests \subseteq [null : BOOLEAN, bytes : Nat, utf8 : BOOLEAN, base : STRING]
    /\ MAX_REQUEST_BYTES \in Nat /\ MaxChanges \in Nat /\ MaxPanics \in Nat

VARIABLES
    disk, env,     \* the data directories, and what the environment says of them
    once,          \* the OnceLock: "unset", "busy" or "ready"
    engine,        \* what it holds when ready: the engine, or None if the load failed
    load,          \* the load under way
    pc, req,       \* where each call is, and its request
    answer,        \* the string a call returned and the host has not freed
    changes, panics,
    report,        \* how the load ended (the daemon prints an error, the C interface drops it)
    ever, always   \* what was on disk at some moment and at every moment of the load

envVars == <<disk, env, changes>>
ghosts == <<report, ever, always>>
vars == <<envVars, once, engine, load, pc, req, answer, panics, ghosts>>

\* What is under every name of a disk; name 0 stands for the directory itself.
On(d) == {<<e, f, d[e].files[f].kind, d[e].files[f].names>> : e \in DataDirs, f \in Files}
             \cup {<<e, 0, d[e].kind, {}>> : e \in DataDirs}

NoLoad == [by |-> None, step |-> "env", kind |-> "specs",
           dirs |-> [specs |-> None, rules |-> None],
           pending |-> {}, found |-> {}, todo |-> <<>>,
           out |-> [specs |-> <<>>, rules |-> <<>>]]

Init ==
    /\ disk \in Disks /\ env \in Envs /\ changes = 0 /\ panics = 0
    /\ once = "unset" /\ engine = None /\ load = NoLoad
    /\ pc = [t \in Threads |-> "idle"]
    /\ req = [t \in Threads |-> None]
    /\ answer = [t \in Threads |-> None]
    /\ report = None /\ ever = {} /\ always = {}

-----------------------------------------------------------------------------
(* ffi: one call *)

Call(t, r) ==
    /\ pc[t] = "idle"
    /\ pc' = [pc EXCEPT ![t] = "enter"]
    /\ req' = [req EXCEPT ![t] = r]
    /\ UNCHANGED <<envVars, once, engine, load, answer, panics, ghosts>>

\* into_c_string: the host owns the string that is returned.
Return(t, string) ==
    /\ answer' = [answer EXCEPT ![t] = string]
    /\ pc' = [pc EXCEPT ![t] = "returned"]

\* autosuggest_string_free.
Free(t) ==
    /\ pc[t] = "returned"
    /\ answer' = [answer EXCEPT ![t] = None]
    /\ req' = [req EXCEPT ![t] = None]
    /\ pc' = [pc EXCEPT ![t] = "idle"]
    /\ UNCHANGED <<envVars, once, engine, load, panics, ghosts>>

bad_request == [code |-> "bad_request", spec |-> None]
FALLBACK_ERROR == [code |-> "internal", spec |-> None]
items(spec) == [code |-> "items", spec |-> spec]

\* Where the scan for the NUL stops.
bounded_cstr_len(bytes, limit) == IF bytes < limit THEN bytes ELSE limit

Refused(r) ==
    \/ r.null
    \/ bounded_cstr_len(r.bytes, MAX_REQUEST_BYTES + 1) > MAX_REQUEST_BYTES
    \/ ~r.utf8

\* A null, oversized or non-UTF-8 request is answered without an engine.
CheckInput(t) ==
    /\ pc[t] = "enter"
    /\ \/ Refused(req[t]) /\ Return(t, bad_request)
       \/ /\ ~Refused(req[t]) /\ pc' = [pc EXCEPT ![t] = "engine"]
          /\ UNCHANGED answer
    /\ UNCHANGED <<envVars, once, engine, load, req, panics, ghosts>>

\* Fault: a thread does not wait for the one that builds the engine.
TakeUnready(t) ==
    /\ pc[t] = "engine" /\ once # "unset"
    /\ \/ engine = None /\ Return(t, FALLBACK_ERROR)
       \/ /\ engine # None /\ pc' = [pc EXCEPT ![t] = "handle"]
          /\ UNCHANGED answer
    /\ UNCHANGED <<envVars, once, engine, load, req, panics, ghosts>>

\* get_or_init returns what is there; while another thread builds it, it blocks.
Take(t) ==
    /\ pc[t] = "engine" /\ once = "ready"
    /\ \/ engine = None /\ Return(t, FALLBACK_ERROR)
       \/ /\ engine # None /\ pc' = [pc EXCEPT ![t] = "handle"]
          /\ UNCHANGED answer
    /\ UNCHANGED <<envVars, once, engine, load, req, panics, ghosts>>

\* index_specs: on a name collision the first spec wins.
index_specs(specs, name) ==
    LET hits == {i \in DOMAIN specs : name \in specs[i].names}
    IN IF hits = {} THEN None ELSE specs[CHOOSE i \in hits : \A j \in hits : i <= j].file

\* handle_line, for a request that looks a command up.
Handle(t) ==
    /\ pc[t] = "handle"
    /\ Return(t, items(index_specs(engine.specs, req[t].base)))
    /\ UNCHANGED <<envVars, once, engine, load, req, panics, ghosts>>

-----------------------------------------------------------------------------
(* The load, by the thread that found the lock unset *)

BeginInit(t) ==
    /\ pc[t] = "engine" /\ once = "unset"
    /\ once' = "busy"
    /\ load' = [NoLoad EXCEPT !.by = t, !.dirs.specs = env.specs]
    /\ ever' = On(disk) /\ always' = On(disk)
    /\ UNCHANGED <<envVars, engine, pc, req, answer, panics, report>>

Loading(t, step) == once = "busy" /\ load.by = t /\ load.step = step

loadUnchanged == <<envVars, pc, req, answer, panics, ever, always>>

Ready(value, error, path) ==
    /\ once' = "ready" /\ engine' = value /\ load' = NoLoad
    /\ report' = [error |-> error, path |-> path, kind |-> load.kind, dirs |-> load.dirs]

FailLoad(error, path) == Ready(None, error, path)

Continue(l) == load' = l /\ UNCHANGED <<once, engine, report>>

here == load.dirs[load.kind]

\* What a directory's files look like from outside: nothing, if it is gone.
Found(f) == IF disk[here].kind \in {"dir", "link"} THEN disk[here].files[f].kind ELSE "absent"

\* load_dir is through: specs come first, then rules, then the engine is built.
Loaded(data) ==
    LET out == [load.out EXCEPT ![load.kind] = data]
    IN IF load.kind = "specs"
       THEN Continue([NoLoad EXCEPT !.by = load.by, !.dirs = load.dirs, !.out = out,
                        !.kind = "rules", !.step = "validate"])
       ELSE Ready(out, None, None)

\* The second variable is read after the first.
ReadEnv(t) ==
    /\ Loading(t, "env")
    /\ Continue([load EXCEPT !.step = "validate", !.dirs.rules = env.rules])
    /\ UNCHANGED loadUnchanged

Untrusted == IF here = Relative THEN ~env.allow ELSE disk[here].kind = "link"

validate_data_dir(t) ==
    /\ Loading(t, "validate")
    /\ \/ Untrusted /\ FailLoad("UntrustedDir", here)
       \/ ~Untrusted /\ Continue([load EXCEPT !.step = "open"])
    /\ UNCHANGED loadUnchanged

\* read_dir: a directory that is not there is no data.  A path is still relative only
\* because the working directory itself is gone, and then nothing is found under it.
Open(t) ==
    /\ Loading(t, "open")
    /\ LET kind == IF here = Relative THEN "missing" ELSE disk[here].kind
       IN \/ kind = "missing" /\ Loaded(<<>>)
          \/ kind = "denied" /\ FailLoad("Io", here)
          \/ /\ kind \in {"dir", "link"}
             /\ Continue([load EXCEPT !.step = "scan", !.found = {},
                            !.pending = {f \in Files : Found(f) # "absent"}])
    /\ UNCHANGED loadUnchanged

\* One entry of the directory, in any order. An entry that has gone still counts
\* as a file where the directory itself tells types; where its type has to be
\* looked up it is NotFound, and so, to load_dir, is the directory.
Scan(t) ==
    /\ Loading(t, "scan")
    /\ \E f \in load.pending :
         LET rest == [load EXCEPT !.pending = @ \ {f}]
             taken == [rest EXCEPT !.found = @ \cup ({f} \cap Suffixed(load.kind))]
         IN \/ Found(f) \notin {"absent", "other"} /\ Continue(taken)
            \/ Found(f) = "other" /\ Continue(rest)
            \/ Found(f) = "absent" /\ Continue(taken)
            \/ Found(f) = "absent" /\ Loaded(<<>>)
    /\ UNCHANGED loadUnchanged

Ascending(s) == \A i, j \in DOMAIN s : i < j => s[i] < s[j]

\* Fault: the files are read in the order of the directory.
LeaveUnsorted(t) ==
    /\ Loading(t, "scan") /\ load.pending = {}
    /\ \E order \in SetToSeqs(load.found) :
         Continue([load EXCEPT !.step = "read", !.found = {}, !.todo = order])
    /\ UNCHANGED loadUnchanged

\* paths.sort().
SortPaths(t) ==
    /\ Loading(t, "scan") /\ load.pending = {}
    /\ \E order \in SetToSeqs(load.found) :
         /\ Ascending(order)
         /\ Continue([load EXCEPT !.step = "read", !.found = {}, !.todo = order])
    /\ UNCHANGED loadUnchanged

\* Fault: a file that does not parse is passed over.
ReadSkippingBad(t) ==
    /\ Loading(t, "read")
    /\ IF load.todo = <<>>
       THEN Loaded(load.out[load.kind])
       ELSE LET f == Head(load.todo)
            IN \/ Found(f) \in {"absent", "other", "unreadable"} /\ FailLoad("Io", f)
               \/ Found(f) = "bad" /\ Continue([load EXCEPT !.todo = Tail(@)])
               \/ /\ Found(f) = "good"
                  /\ Continue([load EXCEPT !.todo = Tail(@),
                                 !.out[load.kind] =
                                   Append(@, [file |-> f, names |-> disk[here].files[f].names])])
    /\ UNCHANGED loadUnchanged

\* The files are read and parsed in order; the first that fails ends the load.
Read(t) ==
    /\ Loading(t, "read")
    /\ IF load.todo = <<>>
       THEN Loaded(load.out[load.kind])
       ELSE LET f == Head(load.todo)
            IN \/ Found(f) \in {"absent", "other", "unreadable"} /\ FailLoad("Io", f)
               \/ Found(f) = "bad" /\ FailLoad("Parse", f)
               \/ /\ Found(f) = "good"
                  /\ Continue([load EXCEPT !.todo = Tail(@),
                                 !.out[load.kind] =
                                   Append(@, [file |-> f, names |-> disk[here].files[f].names])])
    /\ UNCHANGED loadUnchanged

LoadStep(t) ==
    ReadEnv(t) \/ validate_data_dir(t) \/ Open(t) \/ Scan(t) \/ SortPaths(t) \/ Read(t)

\* Fault: a panic in the load leaves the lock taken.
PanicPoisoned(t) ==
    /\ panics < MaxPanics /\ panics' = panics + 1
    /\ \/ /\ load.by = t /\ once = "busy"
          /\ load' = NoLoad /\ UNCHANGED once
       \/ /\ pc[t] = "handle" /\ UNCHANGED <<once, load>>
    /\ Return(t, FALLBACK_ERROR)
    /\ UNCHANGED <<envVars, engine, req, ghosts>>

\* catch_unwind: the call still returns; a load that panicked leaves the lock unset.
Panic(t) ==
    /\ panics < MaxPanics /\ panics' = panics + 1
    /\ \/ /\ load.by = t /\ once = "busy"
          /\ once' = "unset" /\ load' = NoLoad
       \/ /\ pc[t] = "handle" /\ UNCHANGED <<once, load>>
    /\ Return(t, FALLBACK_ERROR)
    /\ UNCHANGED <<envVars, engine, req, ghosts>>

-----------------------------------------------------------------------------
(* The world around *)

Changing == changes < MaxChanges /\ changes' = changes + 1

Witness(d) ==
    IF once = "busy" THEN ever' = ever \cup On(d) /\ always' = always \cap On(d)
    ELSE UNCHANGED <<ever, always>>

\* A file is written, replaced or removed.
ChangeFile(d, f, c) ==
    /\ Changing /\ disk[d].kind = "dir" /\ disk[d].files[f] # c
    /\ disk' = [disk EXCEPT ![d].files[f] = c]
    /\ Witness(disk')
    /\ UNCHANGED <<env, once, engine, load, pc, req, answer, panics, report>>

\* A data directory is moved away, put back, or put behind a link.
ChangeDir(d, kind) ==
    /\ Changing /\ disk[d].kind # kind
    /\ disk' = [disk EXCEPT ![d].kind = kind]
    /\ Witness(disk')
    /\ UNCHANGED <<env, once, engine, load, pc, req, answer, panics, report>>

\* A host thread sets the variables.
SetEnv(e) ==
    /\ Changing /\ env # e /\ env' = e
    /\ UNCHANGED <<disk, once, engine, load, pc, req, answer, panics, ghosts>>

Step(t) == CheckInput(t) \/ Take(t) \/ BeginInit(t) \/ LoadStep(t) \/ Handle(t)

Next ==
    \/ \E t \in Threads : Step(t) \/ Panic(t) \/ Free(t) \/ \E r \in Requests : Call(t, r)
    \/ \E d \in DataDirs, f \in Files, c \in Writes : ChangeFile(d, f, c)
    \/ \E d \in DataDirs, k \in {"missing", "dir", "link"} : ChangeDir(d, k)
    \/ \E e \in Envs : SetEnv(e)

Spec == Init /\ [][Next]_vars

\* A thread that can go on does; nothing is assumed of hosts and of the disk.
FairSpec == Spec /\ \A t \in Threads : WF_vars(Step(t))

-----------------------------------------------------------------------------
(* Properties *)

Places == DataDirs \cup {Relative, None}

LoadState ==
    [by : Threads \cup {None}, step : {"env", "validate", "open", "scan", "read"},
     kind : Kinds, dirs : [specs : Places, rules : Places],
     pending : SUBSET Files, found : SUBSET Files, todo : Seq(Files), out : Engine]

\* The type of calls, lock, load and engine.
TypeOK ==
    /\ disk \in [DataDirs -> Dir] /\ env \in Envs
    /\ once \in {"unset", "busy", "ready"}
    /\ engine \in Engine \cup {None}
    /\ load \in LoadState /\ (once = "busy" <=> load.by # None)
    /\ pc \in [Threads -> {"idle", "enter", "engine", "handle", "returned"}]
    /\ answer \in [Threads -> [code : {"bad_request", "internal", "items"},
                               spec : Files \cup {None}] \cup {None}]
    /\ req \in [Threads -> Requests \cup {None}]
    /\ panics \in Nat /\ changes \in Nat

\* The files of the engine that declare a command.
Declaring(base) == {x.file : x \in {y \in ToSet(engine.specs) : base \in y.names}}

\* Request r was rightly answered with a.
RightAnswer(r, a) ==
    /\ a.code = "bad_request" <=> (r.null \/ r.bytes > MAX_REQUEST_BYTES \/ ~r.utf8)
    /\ a.code = "internal" => panics > 0 \/ (once = "ready" /\ engine = None)
    /\ a.code = "items" =>
         /\ once = "ready" /\ engine # None
         /\ IF Declaring(r.base) = {} THEN a.spec = None
            ELSE a.spec \in Declaring(r.base) /\ \A f \in Declaring(r.base) : a.spec <= f

\* Whatever the threads' timing, all calls see one and the same finished load: a
\* command is answered by the first file, in the order of paths, that declares it,
\* "engine unavailable" is said only when the one load failed or a panic was
\* caught, and a request up to the limit is never refused for its size
\* (ffi/lib.rs:45-118, daemon/lib.rs:302-310).
AnswersFromOneEngine ==
    \A t \in Threads : pc[t] = "returned" => RightAnswer(req[t], answer[t])

\* The directory stays one all through the load and none of its entries comes or goes.
Steady(d) ==
    /\ <<d, 0, "dir", {}>> \in always
    /\ \A f \in Files : <<d, f, "absent", {}>> \in ever => <<d, f, "absent", {}>> \in always

Regular(c) == c.kind \notin {"absent", "other"}

\* Content c stays under name f of d all through the load and is a file's.
Stays(d, f, c) == <<d, f, c.kind, c.names>> \in always /\ Regular(c)

\* data comes from files of kind k that were in directory d, in the order of paths.
WasThere(k, d, data) ==
    /\ \A i, j \in DOMAIN data : i < j => data[i].file < data[j].file
    /\ \A x \in ToSet(data) :
         x.file \in Suffixed(k) /\ <<d, x.file, "good", x.names>> \in ever

\* File f with content c is good and in data.
Kept(f, c, data) == c.kind = "good" /\ [file |-> f, names |-> c.names] \in ToSet(data)

\* And all of those that stayed, if no entry of the directory came or went.
Holds(k, d, data) ==
    /\ WasThere(k, d, data)
    /\ d \in DataDirs /\ Steady(d) =>
         \A f \in Suffixed(k), c \in Contents : Stays(d, f, c) => Kept(f, c, data)

\* A load that succeeds holds what was on disk while it ran: only contents that
\* files of the right kind had at some moment, in the order of paths; and, in a
\* directory whose entries did not come and go, every file that stayed the same,
\* all of them good. One bad file fails the whole load (load.rs:100-176).
LoadsWhatIsThere ==
    (once = "ready" /\ engine # None) =>
        \A k \in Kinds : Holds(k, report.dirs[k], engine[k])

\* A file that fails the load whenever it is read.
Broken(d, f) == <<d, f, "bad", {}>> \in always \/ <<d, f, "unreadable", {}>> \in always

\* At some moment of the load something of these kinds was at path p of d.
Was(d, p, kinds) == \E x \in ever : x[1] = d /\ x[2] = p /\ x[3] \in kinds

\* The report r of a failed load is true and names the first failure.
Explains(r) ==
    LET d == r.dirs[r.kind]
        p == r.path
        s == r.dirs.specs
    IN /\ r.error = "UntrustedDir" => p = d /\ (d = Relative \/ Was(d, 0, {"link"}))
       /\ r.error = "Parse" => Was(d, p, {"bad"})
       /\ r.error = "Io" =>
            \/ p = d /\ Was(d, 0, {"denied"})
            \/ p # d /\ (Was(d, p, {"unreadable", "absent", "other"}) \/ Was(d, 0, {"missing"}))
       /\ p # d /\ Steady(d) => \A f \in Suffixed(r.kind) : f < p => ~Broken(d, f)
       /\ (r.kind = "rules" /\ s \in DataDirs /\ Steady(s)) =>
            \A f \in SpecFiles : ~Broken(s, f)

\* A load that fails says why: the file or directory it names was as reported at
\* some moment of the load, and nothing that comes before it, in the order of
\* paths and with specs before rules, was broken all along (load.rs:100-176,
\* daemon/lib.rs:145-146).
FirstFailureReported == (once = "ready" /\ engine = None) => Explains(report)

\* Every call returns: no thread waits for ever on the lock, whether the thread
\* that builds the engine succeeds, fails or panics (ffi/lib.rs:46-53, 92-117).
EveryCallReturns ==
    \A t \in Threads : pc[t] \in {"enter", "engine", "handle"} ~> pc[t] = "returned"

-----------------------------------------------------------------------------
(* The inductive invariants behind AnswersFromOneEngine, LoadsWhatIsThere and *)
(* FirstFailureReported.                                                     *)

\* Of what stays in directory d, nothing is missing from the files that are still
\* to be looked at and those that have been taken up.
ScanSound(k, d, pending, found) ==
    /\ found \subseteq Suffixed(k)
    /\ Steady(d) =>
         /\ \A f \in pending : <<d, f, "absent", {}>> \notin always
         /\ \A f \in Suffixed(k), c \in Contents :
              Stays(d, f, c) => f \in pending \cup found

\* What has been read comes before what is still to be read, and together they
\* are everything that stays.
ReadSound(k, d, todo, data) ==
    /\ Ascending(todo) /\ ToSet(todo) \subseteq Suffixed(k)
    /\ WasThere(k, d, data)
    /\ \A x \in ToSet(data), f \in ToSet(todo) : x.file < f
    /\ Steady(d) =>
         \A f \in Suffixed(k), c \in Contents :
             Stays(d, f, c) => f \in ToSet(todo) \/ Kept(f, c, data)

\* A load under way (load.rs:100-176): the thread that does it is in engine(), and
\* the directory it reads from could be opened.
PlaceInv ==
    once = "busy" =>
        /\ load.by \in Threads /\ pc[load.by] = "engine"
        /\ load.dirs.specs # None /\ (load.step # "env" => load.dirs.rules # None)
        /\ load.step = "env" => load.kind = "specs"
        /\ load.step \in {"scan", "read"} => here \in DataDirs /\ disk[here].kind # "denied"

\* The ghosts bracket the disk, the specs are through before the rules begin, and
\* what has been read so far holds what it should.
LoadInv ==
    once = "busy" =>
        LET k == load.kind
            data == load.out[k]
        IN /\ always \subseteq On(disk) /\ On(disk) \subseteq ever
           /\ k = "specs" => load.out.rules = <<>>
           /\ k = "rules" => Holds("specs", load.dirs.specs, load.out.specs)
           /\ load.step # "read" => data = <<>>
           /\ load.step = "scan" => ScanSound(k, here, load.pending, load.found)
           /\ load.step = "read" => ReadSound(k, here, load.todo, data)

\* Where a call is, what it has passed and what it was answered
\* (ffi/lib.rs:45-118).
CallInv ==
    /\ once # "ready" => engine = None
    /\ \A t \in Threads :
         /\ pc[t] # "idle" => req[t] \in Requests
         /\ pc[t] \in {"engine", "handle"} => ~Refused(req[t])
         /\ pc[t] = "handle" => once = "ready" /\ engine # None
=============================================================================

-------------------------- MODULE SharedEngineProofs --------------------------
(***************************************************************************)
(* Proofs about SharedEngine.                                               *)
(***************************************************************************)
EXTENDS SharedEngine, SequenceLemmas, FiniteSetTheorems, TLAPS

\* A pair of fields named by the two kinds, seen as a function of the kind.
LEMMA ByKind ==
    ASSUME NEW S, NEW T, NEW p \in [specs : S, rules : T]
    PROVE  /\ p["specs"] = p.specs /\ p["rules"] = p.rules
           /\ p.specs \in S /\ p.rules \in T
OBVIOUS

\* Changing one of two fields.
LEMMA SetKind ==
    ASSUME NEW S, NEW p \in [specs : S, rules : S], NEW k \in Kinds, NEW v \in S
    PROVE  /\ p[k] \in S
           /\ [p EXCEPT ![k] = v] \in [specs : S, rules : S]
           /\ [p EXCEPT ![k] = v][k] = v
           /\ \A m \in Kinds \ {k} : [p EXCEPT ![k] = v][m] = p[m]
<1>1. CASE k = "specs"
  BY <1>1 DEF Kinds
<1>2. CASE k = "rules"
  BY <1>2 DEF Kinds
<1>3. QED
  BY <1>1, <1>2 DEF Kinds

LEMMA NoLoadType == NoLoad \in LoadState /\ NoLoad.by = None
BY DEF NoLoad, LoadState, Places, Engine, Kinds

LEMMA InitType == Init => TypeOK
<1> SUFFICES ASSUME Init PROVE TypeOK
  OBVIOUS
<1>1. NoLoad \in LoadState
  BY NoLoadType
<1>2. disk \in [DataDirs -> Dir] /\ env \in Envs
  BY SharedEngineAssumption DEF Init
<1>3. QED
  BY <1>1, <1>2 DEF Init, TypeOK, NoLoad

\* The types, with what makes them inductive: where calls and the load are.
TypeInv == TypeOK /\ CallInv /\ PlaceInv

LEMMA InitTypeInv == Init => TypeInv
BY InitType DEF TypeInv, Init, CallInv, PlaceInv

\* The specs that declare a name.
Hits(specs, name) == {i \in DOMAIN specs : name \in specs[i].names}

LEMMA IndexLeast ==
    ASSUME NEW specs \in Seq(Loads), NEW name
    PROVE  \/ Hits(specs, name) = {} /\ index_specs(specs, name) = None
           \/ \E i \in Hits(specs, name) :
                 /\ index_specs(specs, name) = specs[i].file
                 /\ \A j \in Hits(specs, name) : i <= j
<1>1. CASE Hits(specs, name) = {}
  BY <1>1 DEF index_specs, Hits
<1>2. CASE Hits(specs, name) # {}
  <2>1. Hits(specs, name) \in SUBSET Nat
    BY DEF Hits
  <2> DEFINE least == CHOOSE i \in Hits(specs, name) : \A j \in Hits(specs, name) : i <= j
  <2>2. least \in Hits(specs, name) /\ \A j \in Hits(specs, name) : least <= j
    BY <1>2, <2>1, LeastNat
  <2>3. index_specs(specs, name) = specs[least].file
    BY <1>2 DEF index_specs, Hits
  <2> HIDE DEF least
  <2>4. QED
    BY <2>2, <2>3
<1>3. QED
  BY <1>1, <1>2

LEMMA IndexType ==
    ASSUME NEW specs \in Seq(Loads), NEW name
    PROVE  index_specs(specs, name) \in Files \cup {None}
<1>1. \A i \in Hits(specs, name) : specs[i] \in Loads
  BY DEF Hits
<1>2. \A x \in Loads : x.file \in Files
  BY DEF Loads
<1>3. QED
  BY <1>1, <1>2, IndexLeast

-----------------------------------------------------------------------------
(* Types *)

\* A step of the load that goes on.
LEMMA ContinueType ==
    ASSUME TypeInv, once = "busy", NEW l \in LoadState, Continue(l),
           UNCHANGED loadUnchanged,
           l.by = load.by, l.dirs.specs # None, l.step # "env", l.dirs.rules # None,
           l.step \in {"scan", "read"} =>
             l.dirs[l.kind] \in DataDirs /\ disk[l.dirs[l.kind]].kind # "denied"
    PROVE  TypeInv'
<1>1. TypeOK'
  BY DEF TypeInv, TypeOK, Continue, loadUnchanged, envVars
<1>2. CallInv'
  BY DEF TypeInv, CallInv, Continue, loadUnchanged, envVars, Refused
<1>3. PlaceInv'
  BY DEF TypeInv, PlaceInv, Continue, loadUnchanged, envVars, here
<1>4. QED
  BY <1>1, <1>2, <1>3 DEF TypeInv

\* The step that ends it.
LEMMA ReadyType ==
    ASSUME TypeInv, once = "busy", NEW v \in Engine \cup {None}, NEW e, NEW p,
           Ready(v, e, p), UNCHANGED loadUnchanged
    PROVE  TypeInv'
<1>2. TypeOK'
  BY NoLoadType DEF TypeInv, TypeOK, Ready, loadUnchanged, envVars
<1>3. CallInv'
  BY DEF TypeInv, CallInv, Ready, loadUnchanged, envVars, Refused
<1>4. PlaceInv'
  BY DEF PlaceInv, Ready
<1>5. QED
  BY <1>2, <1>3, <1>4 DEF TypeInv

LEMMA LoadedType ==
    ASSUME TypeInv, once = "busy", load.step # "env", NEW data \in Seq(Loads),
           Loaded(data), UNCHANGED loadUnchanged
    PROVE  TypeInv'
<1> DEFINE out == [load.out EXCEPT ![load.kind] = data]
           l == [NoLoad EXCEPT !.by = load.by, !.dirs = load.dirs, !.out = out,
                               !.kind = "rules", !.step = "validate"]
<1>1. load \in LoadState /\ load.by # None /\ load.dirs.specs # None
      /\ load.dirs.rules # None
  BY DEF TypeInv, TypeOK, PlaceInv
<1>2. load.kind \in Kinds /\ load.out \in Engine
      /\ load.dirs \in [specs : Places, rules : Places]
  BY <1>1 DEF LoadState
<1>3. out \in Engine
  BY <1>2, SetKind DEF Engine
<1> HIDE DEF out
<1>4. CASE load.kind = "specs"
  <2>1. Continue(l)
    BY <1>4 DEF Loaded, out
  <2>2. NoLoad \in LoadState /\ load.by \in Threads \cup {None}
    BY <1>1, NoLoadType DEF LoadState
  <2>3. l \in LoadState /\ l.by = load.by /\ l.dirs = load.dirs
        /\ l.step = "validate"
    BY <1>2, <1>3, <2>2 DEF LoadState, Kinds
  <2> HIDE DEF l
  <2>4. QED
    BY <1>1, <2>1, <2>3, ContinueType
<1>5. CASE load.kind # "specs"
  BY <1>3, <1>5, ReadyType DEF Loaded, out
<1>6. QED
  BY <1>4, <1>5

LEMMA LoadedNothingType ==
    ASSUME TypeInv, once = "busy", load.step # "env", Loaded(<<>>), UNCHANGED loadUnchanged
    PROVE  TypeInv'
<1> DEFINE data == <<>>
<1>1. data \in Seq(Loads) /\ Loaded(data)
  OBVIOUS
<1> HIDE DEF data
<1>2. QED
  BY <1>1, LoadedType

\* What a load under way is known to have.
LEMMA LoadFacts ==
    ASSUME TypeInv, NEW t, NEW step, Loading(t, step)
    PROVE  /\ once = "busy" /\ load.by = t /\ t \in Threads /\ load.step = step
           /\ load \in LoadState /\ load.kind \in Kinds
           /\ load.dirs \in [specs : Places, rules : Places]
           /\ load.dirs.specs # None
           /\ step # "env" => load.dirs.rules # None /\ here \in DataDirs \cup {Relative}
           /\ step \in {"scan", "read"} => here \in DataDirs /\ disk[here].kind # "denied"
<1>1. /\ once = "busy" /\ load.by = t /\ load.step = step /\ load \in LoadState
  BY DEF Loading, TypeInv, TypeOK
<1>2. /\ load.kind \in Kinds /\ load.dirs \in [specs : Places, rules : Places]
  BY <1>1 DEF LoadState
<1>3. /\ t \in Threads /\ load.dirs.specs # None
      /\ step # "env" => load.dirs.rules # None
      /\ step \in {"scan", "read"} => here \in DataDirs /\ disk[here].kind # "denied"
  BY <1>1 DEF TypeInv, PlaceInv
<1>4. step # "env" => here \in DataDirs \cup {Relative}
  BY <1>2, <1>3, ByKind DEF here, Kinds, Places
<1>5. QED
  BY <1>1, <1>2, <1>3, <1>4

\* An entry of a directory that is there.
LEMMA FoundFile ==
    ASSUME TypeOK, here \in DataDirs, NEW f \in Files, Found(f) # "absent"
    PROVE  /\ disk[here] \in Dir /\ disk[here].files[f] \in Contents
           /\ disk[here].files[f].kind = Found(f)
           /\ disk[here].files[f].names \in SUBSET STRING
<1>1. disk[here] \in Dir
  BY DEF TypeOK
<1>2. disk[here].files[f] \in Contents
  BY <1>1 DEF Dir
<1>3. disk[here].files[f] \in Content
  BY <1>2, SharedEngineAssumption
<1>4. QED
  BY <1>1, <1>2, <1>3 DEF Content, Found

LEMMA ReadEnvType == ASSUME TypeInv, NEW t \in Threads, ReadEnv(t) PROVE TypeInv'
<1> DEFINE l == [load EXCEPT !.step = "validate", !.dirs.rules = env.rules]
<1>1. Loading(t, "env") /\ Continue(l) /\ UNCHANGED loadUnchanged
  BY DEF ReadEnv
<1>2. /\ once = "busy" /\ load \in LoadState /\ load.dirs.specs # None
      /\ load.dirs \in [specs : Places, rules : Places]
  BY <1>1, LoadFacts
<1>3. env.rules \in DataDirs \cup {Relative} /\ env.rules # None
  BY SharedEngineAssumption DEF TypeInv, TypeOK
<1>4. /\ l \in LoadState /\ l.by = load.by /\ l.dirs.specs = load.dirs.specs
      /\ l.dirs.rules = env.rules /\ l.step = "validate"
  BY <1>2, <1>3 DEF LoadState, Places
<1> HIDE DEF l
<1>5. QED
  BY <1>1, <1>2, <1>3, <1>4, ContinueType

LEMMA ValidateType ==
    ASSUME TypeInv, NEW t \in Threads, validate_data_dir(t) PROVE TypeInv'
<1> DEFINE l == [load EXCEPT !.step = "open"]
<1>1. Loading(t, "validate") /\ UNCHANGED loadUnchanged
  BY DEF validate_data_dir
<1>2. /\ once = "busy" /\ load \in LoadState /\ load.dirs.specs # None
      /\ load.dirs.rules # None
  BY <1>1, LoadFacts
<1>3. CASE FailLoad("UntrustedDir", here)
  BY <1>1, <1>2, <1>3, ReadyType DEF FailLoad
<1>4. CASE Continue(l)
  <2>1. l \in LoadState /\ l.by = load.by /\ l.dirs = load.dirs /\ l.step = "open"
    BY <1>2 DEF LoadState
  <2> HIDE DEF l
  <2>2. QED
    BY <1>1, <1>2, <1>4, <2>1, ContinueType
<1>5. QED
  BY <1>3, <1>4 DEF validate_data_dir

LEMMA OpenType == ASSUME TypeInv, NEW t \in Threads, Open(t) PROVE TypeInv'
<1> DEFINE l == [load EXCEPT !.step = "scan", !.found = {},
                             !.pending = {f \in Files : Found(f) # "absent"}]
<1>1. Loading(t, "open") /\ UNCHANGED loadUnchanged
  BY DEF Open
<1>2. /\ once = "busy" /\ load \in LoadState /\ load.dirs.specs # None
      /\ load.dirs.rules # None /\ load.step # "env"
  BY <1>1, LoadFacts
<1>3. CASE Loaded(<<>>)
  BY <1>1, <1>2, <1>3, LoadedNothingType
<1>4. CASE FailLoad("Io", here)
  BY <1>1, <1>2, <1>4, ReadyType DEF FailLoad
<1>5. CASE here # Relative /\ disk[here].kind \in {"dir", "link"} /\ Continue(l)
  <2>1. here \in DataDirs
    BY <1>1, <1>5, LoadFacts
  <2>2. /\ l \in LoadState /\ l.by = load.by /\ l.dirs = load.dirs
        /\ l.kind = load.kind
    BY <1>2 DEF LoadState
  <2>3. l.step = "scan"
    BY <1>2 DEF LoadState
  <2> HIDE DEF l
  <2>4. QED
    BY <1>1, <1>2, <1>5, <2>1, <2>2, <2>3, ContinueType DEF here
<1>6. here = Relative => Loaded(<<>>)
  BY DEF Open
<1>7. here # Relative =>
        \/ Loaded(<<>>) \/ FailLoad("Io", here)
        \/ disk[here].kind \in {"dir", "link"} /\ Continue(l)
  BY DEF Open
<1>8. QED
  BY <1>3, <1>4, <1>5, <1>6, <1>7

\* A step of the load that stays in its directory.
LEMMA SamePlaceType ==
    ASSUME TypeInv, NEW t, NEW l \in LoadState,
           Loading(t, "scan") \/ Loading(t, "read"), Continue(l), UNCHANGED loadUnchanged,
           l.by = load.by, l.dirs = load.dirs, l.kind = load.kind, l.step # "env"
    PROVE  TypeInv'
<1>1. /\ once = "busy" /\ load.dirs.specs # None /\ load.dirs.rules # None
      /\ here \in DataDirs /\ disk[here].kind # "denied"
  BY LoadFacts
<1>2. QED
  BY <1>1, ContinueType DEF here

LEMMA ScanType == ASSUME TypeInv, NEW t \in Threads, Scan(t) PROVE TypeInv'
<1>1. Loading(t, "scan") /\ UNCHANGED loadUnchanged
  BY DEF Scan
<1>2. once = "busy" /\ load \in LoadState /\ load.step = "scan" /\ load.step # "env"
  BY <1>1, LoadFacts
<1> DEFINE Rest(f) == [load EXCEPT !.pending = @ \ {f}]
           Taken(f) == [Rest(f) EXCEPT !.found = @ \cup ({f} \cap Suffixed(load.kind))]
<1>3. PICK f \in load.pending :
        Continue(Taken(f)) \/ Continue(Rest(f)) \/ Loaded(<<>>)
  BY DEF Scan
<1> DEFINE rest == Rest(f)
           taken == [rest EXCEPT !.found = @ \cup ({f} \cap Suffixed(load.kind))]
<1>4. f \in Files
  BY <1>2 DEF LoadState
<1>5. /\ rest \in LoadState /\ rest.by = load.by /\ rest.dirs = load.dirs
      /\ rest.kind = load.kind /\ rest.step = "scan"
  BY <1>2, <1>4 DEF LoadState
<1> HIDE DEF rest
<1>6. /\ taken \in LoadState /\ taken.by = load.by /\ taken.dirs = load.dirs
      /\ taken.kind = load.kind /\ taken.step = "scan"
  BY <1>4, <1>5 DEF LoadState
<1> HIDE DEF taken
<1>7. CASE Loaded(<<>>)
  BY <1>1, <1>2, <1>7, LoadedNothingType
<1>8. CASE Continue(rest)
  BY <1>1, <1>5, <1>8, SamePlaceType
<1>9. CASE Continue(taken)
  BY <1>1, <1>6, <1>9, SamePlaceType
<1>10. QED
  BY <1>3, <1>7, <1>8, <1>9 DEF rest, taken

LEMMA SortType == ASSUME TypeInv, NEW t \in Threads, SortPaths(t) PROVE TypeInv'
<1>1. Loading(t, "scan") /\ UNCHANGED loadUnchanged
  BY DEF SortPaths
<1>2. load \in LoadState /\ load.found \in SUBSET Files
  BY <1>1, LoadFacts DEF LoadState
<1>3. PICK order \in SetToSeqs(load.found) :
        Continue([load EXCEPT !.step = "read", !.found = {}, !.todo = order])
  BY DEF SortPaths
<1> DEFINE l == [load EXCEPT !.step = "read", !.found = {}, !.todo = order]
<1>4. order \in Seq(Files)
  <2>1. IsFiniteSet(load.found)
    BY <1>2, FS_Subset, SharedEngineAssumption
  <2>2. Cardinality(load.found) \in Nat
    BY <2>1, FS_CardinalityType
  <2>3. order \in [1 .. Cardinality(load.found) -> load.found]
    BY <1>3 DEF SetToSeqs
  <2>4. QED
    BY <1>2, <2>2, <2>3
<1>5. /\ l \in LoadState /\ l.by = load.by /\ l.dirs = load.dirs
      /\ l.kind = load.kind /\ l.step = "read"
  BY <1>2, <1>4 DEF LoadState
<1> HIDE DEF l
<1>6. QED
  BY <1>1, <1>3, <1>5, SamePlaceType DEF l

LEMMA ReadType == ASSUME TypeInv, NEW t \in Threads, Read(t) PROVE TypeInv'
<1>1. Loading(t, "read") /\ UNCHANGED loadUnchanged
  BY DEF Read
<1>2. /\ once = "busy" /\ load \in LoadState /\ load.step # "env"
      /\ here \in DataDirs /\ load.kind \in Kinds
  BY <1>1, LoadFacts
<1>3. load.out \in Engine /\ load.todo \in Seq(Files)
  BY <1>2 DEF LoadState
<1>4. load.out[load.kind] \in Seq(Loads)
  BY <1>2, <1>3, SetKind DEF Engine, Kinds
<1>5. CASE load.todo = <<>>
  BY <1>1, <1>2, <1>4, <1>5, LoadedType DEF Read
<1>6. CASE load.todo # <<>>
  <2> DEFINE f == Head(load.todo)
             x == [file |-> f, names |-> disk[here].files[f].names]
             l == [load EXCEPT !.todo = Tail(@), !.out[load.kind] = Append(@, x)]
  <2>1. \/ FailLoad("Io", f) \/ FailLoad("Parse", f)
        \/ Found(f) = "good" /\ Continue(l)
    BY <1>6 DEF Read
  <2>2. CASE FailLoad("Io", f) \/ FailLoad("Parse", f)
    BY <1>1, <1>2, <2>2, ReadyType DEF FailLoad
  <2>3. CASE Found(f) = "good" /\ Continue(l)
    <3>1. f \in Files
      BY <1>3, <1>6
    <3>2. x \in Loads
      BY <1>2, <2>3, <3>1, FoundFile DEF Loads, TypeInv
    <3> HIDE DEF x
    <3>3. Append(load.out[load.kind], x) \in Seq(Loads)
      BY <1>4, <3>2
    <3>4. [load.out EXCEPT ![load.kind] = Append(@, x)] \in Engine
      BY <1>2, <1>3, <3>3, SetKind DEF Engine
    <3>5. Tail(load.todo) \in Seq(Files)
      BY <1>3, <1>6
    <3>6. /\ l \in LoadState /\ l.by = load.by /\ l.dirs = load.dirs
          /\ l.kind = load.kind /\ l.step = load.step
      BY <1>2, <3>4, <3>5 DEF LoadState
    <3> HIDE DEF l
    <3>7. QED
      BY <1>1, <1>2, <2>3, <3>6, SamePlaceType
  <2>4. QED
    BY <2>1, <2>2, <2>3
<1>7. QED
  BY <1>5, <1>6

\* A step that leaves the lock, the engine and the load alone.
LEMMA CallType ==
    ASSUME TypeInv, UNCHANGED <<disk, env, changes, once, engine, load>>, panics' \in Nat,
           NEW t \in Threads,
           once = "busy" => load.by # t,
           NEW p \in {"idle", "enter", "engine", "handle", "returned"},
           pc' = [pc EXCEPT ![t] = p],
           answer' \in [Threads -> [code : {"bad_request", "internal", "items"},
                                    spec : Files \cup {None}] \cup {None}],
           req' \in [Threads -> Requests \cup {None}],
           \A u \in Threads \ {t} : req'[u] = req[u],
           p # "idle" => req'[t] \in Requests,
           p \in {"engine", "handle"} => ~Refused(req'[t]),
           p = "handle" => once = "ready" /\ engine # None
    PROVE  TypeInv'
<1>1. TypeOK'
  BY DEF TypeInv, TypeOK
<1>2. pc \in [Threads -> {"idle", "enter", "engine", "handle", "returned"}]
  BY DEF TypeInv, TypeOK
<1>3. CallInv'
  BY <1>2 DEF TypeInv, CallInv, Refused
<1>4. PlaceInv'
  BY <1>2 DEF TypeInv, PlaceInv, here
<1>5. QED
  BY <1>1, <1>3, <1>4 DEF TypeInv

\* What a call returns has the type of answers.
LEMMA AnswerType ==
    ASSUME TypeOK, NEW t \in Threads, NEW code \in {"bad_request", "internal", "items"},
           NEW spec \in Files \cup {None},
           answer' = [answer EXCEPT ![t] = [code |-> code, spec |-> spec]]
    PROVE  answer' \in [Threads -> [code : {"bad_request", "internal", "items"},
                                    spec : Files \cup {None}] \cup {None}]
BY DEF TypeOK

\* The thread that loads is in engine().
LEMMA NotLoading ==
    ASSUME TypeInv, NEW t \in Threads, pc[t] # "engine" PROVE once = "busy" => load.by # t
BY DEF TypeInv, PlaceInv

LEMMA CallAndFreeType ==
    ASSUME TypeInv, NEW t \in Threads, Free(t) \/ \E r \in Requests : Call(t, r)
    PROVE  TypeInv'
<1>1. req \in [Threads -> Requests \cup {None}]
  BY DEF TypeInv, TypeOK
<1>2. CASE Free(t)
  <2>1. /\ UNCHANGED <<disk, env, changes, once, engine, load>> /\ panics' \in Nat
        /\ pc[t] # "engine" /\ pc' = [pc EXCEPT ![t] = "idle"]
    BY <1>2 DEF Free, envVars, TypeInv, TypeOK
  <2>2. /\ req' \in [Threads -> Requests \cup {None}]
        /\ \A u \in Threads \ {t} : req'[u] = req[u]
    BY <1>1, <1>2 DEF Free
  <2>3. answer' \in [Threads -> [code : {"bad_request", "internal", "items"},
                                 spec : Files \cup {None}] \cup {None}]
    BY <1>2 DEF Free, TypeInv, TypeOK
  <2>4. QED
    BY <2>1, <2>2, <2>3, NotLoading, CallType
<1>3. CASE \E r \in Requests : Call(t, r)
  <2>1. PICK r \in Requests : Call(t, r)
    BY <1>3
  <2>2. /\ UNCHANGED <<disk, env, changes, once, engine, load>> /\ panics' \in Nat
        /\ pc[t] # "engine" /\ pc' = [pc EXCEPT ![t] = "enter"]
    BY <2>1 DEF Call, envVars, TypeInv, TypeOK
  <2>3. /\ req' \in [Threads -> Requests \cup {None}]
        /\ \A u \in Threads \ {t} : req'[u] = req[u]
        /\ req'[t] \in Requests
    BY <1>1, <2>1 DEF Call
  <2>4. answer' \in [Threads -> [code : {"bad_request", "internal", "items"},
                                 spec : Files \cup {None}] \cup {None}]
    BY <2>1 DEF Call, TypeInv, TypeOK
  <2>5. QED
    BY <2>2, <2>3, <2>4, NotLoading, CallType
<1>4. QED
  BY <1>2, <1>3

\* A call that goes on or returns, its request unchanged.
LEMMA AnswerStepType ==
    ASSUME TypeInv, UNCHANGED <<disk, env, changes, once, engine, load, req>>,
           panics' \in Nat, NEW t \in Threads, pc[t] # "idle",
           once = "busy" => load.by # t,
           \/ \E code \in {"bad_request", "internal", "items"}, spec \in Files \cup {None} :
                Return(t, [code |-> code, spec |-> spec])
           \/ /\ UNCHANGED answer
              /\ \E p \in {"engine", "handle"} :
                   /\ pc' = [pc EXCEPT ![t] = p] /\ ~Refused(req[t])
                   /\ p = "handle" => once = "ready" /\ engine # None
    PROVE  TypeInv'
<1>1. /\ req' \in [Threads -> Requests \cup {None}]
      /\ \A u \in Threads \ {t} : req'[u] = req[u]
      /\ req' = req
  BY DEF TypeInv, TypeOK
<1>2. req'[t] \in Requests
  BY <1>1 DEF TypeInv, CallInv
<1>3. TypeOK
  BY DEF TypeInv
<1>4. CASE \E code \in {"bad_request", "internal", "items"}, spec \in Files \cup {None} :
                Return(t, [code |-> code, spec |-> spec])
  <2>1. /\ answer' \in [Threads -> [code : {"bad_request", "internal", "items"},
                                    spec : Files \cup {None}] \cup {None}]
        /\ pc' = [pc EXCEPT ![t] = "returned"]
    BY <1>3, <1>4, AnswerType DEF Return
  <2>2. QED
    BY <1>1, <1>2, <2>1, CallType
<1>5. CASE /\ UNCHANGED answer
           /\ \E p \in {"engine", "handle"} :
                   /\ pc' = [pc EXCEPT ![t] = p] /\ ~Refused(req[t])
                   /\ p = "handle" => once = "ready" /\ engine # None
  <2>1. PICK p \in {"engine", "handle"} :
                   /\ pc' = [pc EXCEPT ![t] = p] /\ ~Refused(req[t])
                   /\ p = "handle" => once = "ready" /\ engine # None
    BY <1>5
  <2>2. answer' \in [Threads -> [code : {"bad_request", "internal", "items"},
                                 spec : Files \cup {None}] \cup {None}]
    BY <1>3, <1>5 DEF TypeOK
  <2>3. ~Refused(req'[t])
    BY <1>1, <2>1
  <2>4. QED
    BY <1>1, <1>2, <2>1, <2>2, <2>3, CallType
<1>6. QED
  BY <1>4, <1>5

LEMMA CheckTakeHandleType ==
    ASSUME TypeInv, NEW t \in Threads, CheckInput(t) \/ Take(t) \/ Handle(t)
    PROVE  TypeInv'
<1>1. /\ UNCHANGED <<disk, env, changes, once, engine, load, req>>
      /\ panics' \in Nat /\ pc[t] # "idle"
  BY DEF CheckInput, Take, Handle, envVars, TypeInv, TypeOK
<1>2. CASE CheckInput(t)
  BY <1>1, <1>2, NotLoading, AnswerStepType DEF CheckInput, bad_request
<1>3. CASE Take(t)
  <2>1. once = "ready" /\ ~Refused(req[t])
    BY <1>3 DEF Take, TypeInv, CallInv
  <2>2. QED
    BY <1>1, <1>3, <2>1, AnswerStepType DEF Take, FALLBACK_ERROR
<1>4. CASE Handle(t)
  <2>1. pc[t] = "handle" /\ engine # None
    BY <1>4 DEF Handle, TypeInv, CallInv
  <2>2. engine.specs \in Seq(Loads)
    BY <2>1 DEF TypeInv, TypeOK, Engine
  <2>3. index_specs(engine.specs, req[t].base) \in Files \cup {None}
    BY <2>2, IndexType
  <2>4. QED
    BY <1>1, <1>4, <2>1, <2>3, NotLoading, AnswerStepType DEF Handle, items
<1>5. QED
  BY <1>2, <1>3, <1>4

LEMMA BeginInitType == ASSUME TypeInv, NEW t \in Threads, BeginInit(t) PROVE TypeInv'
<1>1. NoLoad \in LoadState /\ NoLoad.step = "env" /\ NoLoad.kind = "specs"
  BY NoLoadType DEF NoLoad
<1>2. env.specs \in DataDirs \cup {Relative} /\ env.specs # None /\ t # None
  BY SharedEngineAssumption DEF TypeInv, TypeOK
<1>3. /\ load' = [NoLoad EXCEPT !.by = t, !.dirs.specs = env.specs] /\ once' = "busy"
      /\ pc[t] = "engine" /\ once = "unset"
      /\ UNCHANGED <<disk, env, changes, engine, pc, req, answer, panics>>
  BY DEF BeginInit, envVars
<1>4. /\ load' \in LoadState /\ load'.by = t /\ load'.step = "env" /\ load'.kind = "specs"
      /\ load'.dirs.specs = env.specs
  BY <1>1, <1>2, <1>3 DEF LoadState, Places
<1>5. TypeOK'
  BY <1>2, <1>3, <1>4 DEF TypeInv, TypeOK
<1>6. CallInv'
  BY <1>3 DEF TypeInv, CallInv, Refused
<1>7. PlaceInv'
  BY <1>2, <1>3, <1>4 DEF PlaceInv
<1>8. QED
  BY <1>5, <1>6, <1>7 DEF TypeInv

LEMMA PanicType == ASSUME TypeInv, NEW t \in Threads, Panic(t) PROVE TypeInv'
<1>1. /\ UNCHANGED <<disk, env, changes, engine, req>> /\ panics' \in Nat
      /\ Return(t, [code |-> "internal", spec |-> None])
  BY DEF Panic, envVars, FALLBACK_ERROR, TypeInv, TypeOK
<1>2. CASE pc[t] = "handle" /\ UNCHANGED <<once, load>>
  BY <1>1, <1>2, NotLoading, AnswerStepType
<1>3. CASE load.by = t /\ once = "busy" /\ once' = "unset" /\ load' = NoLoad
  <2>1. /\ answer' \in [Threads -> [code : {"bad_request", "internal", "items"},
                                    spec : Files \cup {None}] \cup {None}]
        /\ pc' = [pc EXCEPT ![t] = "returned"]
    BY <1>1, AnswerType DEF Return, TypeInv
  <2>2. /\ pc \in [Threads -> {"idle", "enter", "engine", "handle", "returned"}]
        /\ pc[t] = "engine"
    BY <1>3 DEF TypeInv, TypeOK, PlaceInv
  <2>3. TypeOK'
    BY <1>1, <1>3, <2>1, NoLoadType DEF TypeInv, TypeOK
  <2>4. CallInv'
    BY <1>1, <1>3, <2>1, <2>2 DEF TypeInv, CallInv, Refused
  <2>5. PlaceInv'
    BY <1>3 DEF PlaceInv
  <2>6. QED
    BY <2>3, <2>4, <2>5 DEF TypeInv
<1>4. QED
  BY <1>2, <1>3 DEF Panic

\* A step of the world: calls, lock, engine and load stay.
LEMMA WorldType ==
    ASSUME TypeInv, UNCHANGED <<once, engine, load, pc, req, answer, panics>>,
           disk' \in [DataDirs -> Dir], env' \in Envs, changes' \in Nat,
           \A d \in DataDirs : disk'[d].kind = "denied" => disk[d].kind = "denied"
    PROVE  TypeInv'
<1>1. TypeOK'
  BY DEF TypeInv, TypeOK
<1>2. CallInv'
  BY DEF TypeInv, CallInv, Refused
<1>3. here' = here
  BY DEF here
<1>4. PlaceInv'
  BY <1>3 DEF TypeInv, PlaceInv
<1>5. QED
  BY <1>1, <1>2, <1>4 DEF TypeInv

LEMMA ChangeFileType ==
    ASSUME TypeInv, NEW d \in DataDirs, NEW f \in Files, NEW c \in Writes, ChangeFile(d, f, c)
    PROVE  TypeInv'
<1>1. disk \in [DataDirs -> Dir] /\ c \in Contents
  BY SharedEngineAssumption DEF TypeInv, TypeOK
<1>2. disk' = [disk EXCEPT ![d].files[f] = c]
  BY DEF ChangeFile
<1>3. disk[d] \in Dir
  BY <1>1
<1>4. [disk[d] EXCEPT !.files[f] = c] \in Dir
      /\ [disk[d] EXCEPT !.files[f] = c].kind = disk[d].kind
  BY <1>1, <1>3 DEF Dir
<1>5. disk' = [disk EXCEPT ![d] = [disk[d] EXCEPT !.files[f] = c]]
  BY <1>2
<1>6. disk' \in [DataDirs -> Dir] /\ \A e \in DataDirs : disk'[e].kind = disk[e].kind
  BY <1>1, <1>4, <1>5
<1>7. QED
  BY <1>6, WorldType DEF ChangeFile, Changing, TypeInv, TypeOK

LEMMA ChangeDirType ==
    ASSUME TypeInv, NEW d \in DataDirs, NEW k \in {"missing", "dir", "link"}, ChangeDir(d, k)
    PROVE  TypeInv'
<1>1. disk \in [DataDirs -> Dir] /\ disk' = [disk EXCEPT ![d].kind = k]
  BY DEF TypeInv, TypeOK, ChangeDir
<1>2. disk[d] \in Dir
  BY <1>1
<1>3. /\ [disk[d] EXCEPT !.kind = k] \in Dir
      /\ [disk[d] EXCEPT !.kind = k].kind = k
  BY <1>2 DEF Dir
<1>4. disk' = [disk EXCEPT ![d] = [disk[d] EXCEPT !.kind = k]]
  BY <1>1
<1>5. /\ disk' \in [DataDirs -> Dir]
      /\ \A e \in DataDirs : disk'[e].kind = "denied" => disk[e].kind = "denied"
  BY <1>1, <1>3, <1>4
<1>6. QED
  BY <1>5, WorldType DEF ChangeDir, Changing, TypeInv, TypeOK

LEMMA NextType == TypeInv /\ [Next]_vars => TypeInv'
<1> SUFFICES ASSUME TypeInv, [Next]_vars PROVE TypeInv'
  OBVIOUS
<1>1. ASSUME NEW t \in Threads, Step(t) PROVE TypeInv'
  BY <1>1, CheckTakeHandleType, BeginInitType, ReadEnvType, ValidateType, OpenType,
     ScanType, SortType, ReadType DEF Step, LoadStep
<1>2. ASSUME NEW t \in Threads, Panic(t) \/ Free(t) \/ \E r \in Requests : Call(t, r)
      PROVE  TypeInv'
  BY <1>2, PanicType, CallAndFreeType
<1>3. ASSUME NEW d \in DataDirs, NEW f \in Files, NEW c \in Writes, ChangeFile(d, f, c)
      PROVE  TypeInv'
  BY <1>3, ChangeFileType
<1>4. ASSUME NEW d \in DataDirs, NEW k \in {"missing", "dir", "link"}, ChangeDir(d, k)
      PROVE  TypeInv'
  BY <1>4, ChangeDirType
<1>5. ASSUME NEW e \in Envs, SetEnv(e) PROVE TypeInv'
  BY <1>5, WorldType DEF SetEnv, Changing, TypeInv, TypeOK
<1>6. CASE UNCHANGED vars
  <2>1. UNCHANGED <<once, engine, load, pc, req, answer, panics, disk, env, changes>>
    BY <1>6 DEF vars, envVars
  <2>2. QED
    BY <2>1, WorldType DEF TypeInv, TypeOK
<1>7. QED
  BY <1>1, <1>2, <1>3, <1>4, <1>5, <1>6 DEF Next

LEMMA TypeInvariant == Spec => []TypeInv
BY InitTypeInv, NextType, PTL DEF Spec

\* Calls, lock, load and engine keep their types, whatever the threads, the disk and
\* the environment do; the one lock is busy exactly while some thread loads
\* (ffi/lib.rs:45-118, load.rs:100-176).
THEOREM EngineTypeCorrect == Spec => []TypeOK
BY TypeInvariant, PTL DEF TypeInv

-----------------------------------------------------------------------------
(* What a load holds and what it reports *)

\* What is on disk under a name, and of what kind a directory is.
LEMMA OnFile ==
    ASSUME TypeOK, NEW d \in DataDirs, NEW f \in Files
    PROVE  /\ disk[d].files[f] \in Contents
           /\ <<d, f, disk[d].files[f].kind, disk[d].files[f].names>> \in On(disk)
           /\ \A k, n : <<d, f, k, n>> \in On(disk) =>
                k = disk[d].files[f].kind /\ n = disk[d].files[f].names
<1>1. disk[d] \in Dir
  BY DEF TypeOK
<1>2. disk[d].files[f] \in Contents
  BY <1>1 DEF Dir
<1>3. f # 0
  BY SharedEngineAssumption
<1>4. QED
  BY <1>2, <1>3 DEF On

LEMMA OnDir ==
    ASSUME TypeOK, NEW d \in DataDirs
    PROVE  /\ <<d, 0, disk[d].kind, {}>> \in On(disk)
           /\ \A k, n : <<d, 0, k, n>> \in On(disk) => k = disk[d].kind
<1>1. 0 \notin Files
  BY SharedEngineAssumption
<1>2. QED
  BY <1>1 DEF On

\* While always is part of the disk: what stays is there, and a steady directory is one.
LEMMA StaysNow ==
    ASSUME TypeOK, always \subseteq On(disk), NEW d \in DataDirs, NEW f \in Files,
           NEW c, Stays(d, f, c)
    PROVE  /\ c.kind = disk[d].files[f].kind /\ c.names = disk[d].files[f].names
           /\ c.kind \notin {"absent", "other"}
BY OnFile DEF Stays, Regular

LEMMA SteadyNow ==
    ASSUME TypeOK, always \subseteq On(disk), NEW d \in DataDirs, Steady(d)
    PROVE  disk[d].kind = "dir"
BY OnDir DEF Steady

LEMMA SuffixedFiles == \A k \in Kinds : Suffixed(k) \subseteq Files
BY DEF Suffixed, Files, Kinds

\* A broken file stays, and is not good.
LEMMA BrokenStays ==
    ASSUME TypeOK, always \subseteq On(disk), NEW d \in DataDirs, NEW f \in Files,
           Broken(d, f)
    PROVE  \E c \in Contents : Stays(d, f, c) /\ c.kind # "good"
<1> DEFINE c == disk[d].files[f]
<1>1. /\ c \in Contents /\ <<d, f, c.kind, c.names>> \in always
      /\ c.kind \in {"bad", "unreadable"}
  BY OnFile DEF Broken
<1> HIDE DEF c
<1>2. QED
  BY <1>1 DEF Stays, Regular

\* So a load that holds what stays has met no broken file.
LEMMA HoldsNotBroken ==
    ASSUME TypeOK, always \subseteq On(disk), NEW k \in Kinds, NEW d \in DataDirs,
           NEW data, Holds(k, d, data), Steady(d), NEW f \in Suffixed(k)
    PROVE  ~Broken(d, f)
<1>1. f \in Files
  BY SuffixedFiles
<1>2. SUFFICES ASSUME Broken(d, f) PROVE FALSE
  OBVIOUS
<1>3. PICK c \in Contents : Stays(d, f, c) /\ c.kind # "good"
  BY <1>1, <1>2, BrokenStays
<1>4. QED
  BY <1>3 DEF Holds, Kept

SoundInv == LoadInv /\ LoadsWhatIsThere /\ FirstFailureReported

LEMMA InitSound == Init => SoundInv
BY DEF Init, SoundInv, LoadInv, LoadsWhatIsThere, FirstFailureReported

\* A step that leaves what the load has done and the ghosts alone.
LEMMA QuietSound ==
    ASSUME SoundInv, UNCHANGED <<disk, once, engine, load, ghosts>>
    PROVE  SoundInv'
<1>1. UNCHANGED <<report, ever, always>>
  BY DEF ghosts
<1>2. LoadInv'
  BY <1>1 DEF SoundInv, LoadInv, Holds, WasThere, Kept, Stays, Steady, ScanSound, ReadSound,
              On, here
<1>3. LoadsWhatIsThere'
  BY <1>1 DEF SoundInv, LoadsWhatIsThere, Holds, WasThere, Kept, Stays, Steady
<1>4. FirstFailureReported'
  BY <1>1 DEF SoundInv, FirstFailureReported, Explains, Was, Steady, Broken
<1>5. QED
  BY <1>2, <1>3, <1>4 DEF SoundInv

\* A change of the disk while a load is under way: what was ever there grows, what
\* was always there shrinks, and what has been read still holds what it should.
LEMMA WitnessSound ==
    ASSUME SoundInv, Witness(disk'), UNCHANGED <<once, engine, load, report>>
    PROVE  SoundInv'
<1>1. CASE once # "busy"
  <2>1. UNCHANGED <<ever, always>>
    BY <1>1 DEF Witness
  <2>2. LoadInv'
    BY <1>1 DEF LoadInv
  <2>3. LoadsWhatIsThere'
    BY <2>1 DEF SoundInv, LoadsWhatIsThere, Holds, WasThere, Kept, Stays, Steady
  <2>4. FirstFailureReported'
    BY <2>1 DEF SoundInv, FirstFailureReported, Explains, Was, Steady, Broken
  <2>5. QED
    BY <2>2, <2>3, <2>4 DEF SoundInv
<1>2. CASE once = "busy"
  <2>1. ever' = ever \cup On(disk') /\ always' = always \cap On(disk')
    BY <1>2 DEF Witness
  <2>2. \A d : Steady(d)' => Steady(d)
    BY <2>1 DEF Steady
  <2>3. \A d, f, c : Stays(d, f, c)' => Stays(d, f, c)
    BY <2>1 DEF Stays
  <2>4. \A k, d, data : WasThere(k, d, data) => WasThere(k, d, data)'
    BY <2>1 DEF WasThere
  <2>5. \A k, d, data : Holds(k, d, data) => Holds(k, d, data)'
    BY <2>2, <2>3, <2>4 DEF Holds
  <2>6. \A k, d, pending, found :
          ScanSound(k, d, pending, found) => ScanSound(k, d, pending, found)'
    BY <2>1, <2>2, <2>3 DEF ScanSound
  <2>7. \A k, d, todo, data :
          ReadSound(k, d, todo, data) => ReadSound(k, d, todo, data)'
    BY <2>2, <2>3, <2>4 DEF ReadSound
  <2>8. always' \subseteq On(disk)' /\ On(disk)' \subseteq ever'
    BY <2>1
  <2>9. LoadInv'
    BY <1>2, <2>5, <2>6, <2>7, <2>8 DEF SoundInv, LoadInv, here
  <2>10. LoadsWhatIsThere' /\ FirstFailureReported'
    BY <1>2 DEF LoadsWhatIsThere, FirstFailureReported
  <2>11. QED
    BY <2>9, <2>10 DEF SoundInv
<1>3. QED
  BY <1>1, <1>2

\* A step of the load that goes on with l.
LEMMA ContinueSound ==
    ASSUME SoundInv, once = "busy", NEW l, Continue(l), UNCHANGED loadUnchanged,
           l.kind = "specs" => l.out.rules = <<>>,
           l.kind = "rules" => Holds("specs", l.dirs.specs, l.out.specs),
           l.step # "read" => l.out[l.kind] = <<>>,
           l.step = "scan" => ScanSound(l.kind, l.dirs[l.kind], l.pending, l.found),
           l.step = "read" => ReadSound(l.kind, l.dirs[l.kind], l.todo, l.out[l.kind])
    PROVE  SoundInv'
<1>1. UNCHANGED <<disk, ever, always, once>> /\ load' = l
  BY DEF loadUnchanged, envVars, Continue
<1>2. always' \subseteq On(disk)' /\ On(disk)' \subseteq ever'
  BY <1>1 DEF SoundInv, LoadInv, On
<1>3. l.kind = "rules" => Holds("specs", load.dirs.specs, load.out.specs)'
  BY <1>1 DEF Holds, WasThere, Kept, Stays, Steady
<1>4. l.step = "scan" => ScanSound(load.kind, here, load.pending, load.found)'
  BY <1>1 DEF ScanSound, Stays, Steady, here
<1>5. l.step = "read" => ReadSound(load.kind, here, load.todo, load.out[load.kind])'
  BY <1>1 DEF ReadSound, WasThere, Kept, Stays, Steady, here
<1>6. LoadInv'
  BY <1>1, <1>2, <1>3, <1>4, <1>5 DEF LoadInv
<1>7. LoadsWhatIsThere' /\ FirstFailureReported'
  BY <1>1 DEF LoadsWhatIsThere, FirstFailureReported
<1>8. QED
  BY <1>6, <1>7 DEF SoundInv

\* A directory is through and what was read of it holds what it should.
LEMMA LoadedSound ==
    ASSUME TypeInv, SoundInv, once = "busy", NEW data \in Seq(Loads), Loaded(data),
           UNCHANGED loadUnchanged, Holds(load.kind, here, data)
    PROVE  SoundInv'
<1> DEFINE out == [load.out EXCEPT ![load.kind] = data]
           l == [NoLoad EXCEPT !.by = load.by, !.dirs = load.dirs, !.out = out,
                               !.kind = "rules", !.step = "validate"]
<1>1. /\ load \in LoadState /\ load.kind \in Kinds /\ load.out \in Engine
      /\ load.dirs \in [specs : Places, rules : Places]
  BY DEF TypeInv, TypeOK, LoadState
<1>2. UNCHANGED <<disk, ever, always>>
  BY DEF loadUnchanged, envVars
<1>3. CASE load.kind = "specs"
  <2>1. Continue(l)
    BY <1>3 DEF Loaded
  <2>2. out.specs = data /\ out.rules = <<>> /\ out \in Engine
    BY <1>1, <1>3, SetKind, ByKind DEF SoundInv, LoadInv, Engine, Kinds
  <2>3. NoLoad \in LoadState
    BY NoLoadType
  <2> HIDE DEF out
  <2>4. l.out = out /\ l.kind = "rules" /\ l.step = "validate" /\ l.dirs = load.dirs
    BY <2>3 DEF LoadState
  <2>5. l.out["rules"] = <<>>
    BY <2>2, <2>4, ByKind DEF Engine
  <2>6. here = load.dirs.specs
    BY <1>1, <1>3, ByKind DEF here
  <2> HIDE DEF l
  <2>7. Holds("specs", l.dirs.specs, l.out.specs)
    BY <1>3, <2>2, <2>4, <2>6
  <2>8. QED
    BY <2>1, <2>2, <2>4, <2>5, <2>7, ContinueSound
<1>4. CASE load.kind = "rules"
  <2>1. Ready(out, None, None)
    BY <1>4 DEF Loaded
  <2>2. out["specs"] = load.out.specs /\ out["rules"] = data /\ out \in Engine
    BY <1>1, <1>4, SetKind, ByKind DEF Engine, Kinds
  <2> HIDE DEF out
  <2>3. engine' = out /\ once' = "ready" /\ report'.dirs = load.dirs
    BY <2>1 DEF Ready
  <2>4. here = load.dirs["rules"] /\ load.dirs.specs = load.dirs["specs"]
    BY <1>1, <1>4, ByKind DEF here
  <2>5. Holds("specs", load.dirs["specs"], out["specs"])
    BY <1>4, <2>2, <2>4 DEF SoundInv, LoadInv
  <2>6. Holds("rules", load.dirs["rules"], out["rules"])
    BY <1>4, <2>2, <2>4
  <2>7. Holds("specs", report.dirs["specs"], engine["specs"])'
    BY <1>2, <2>3, <2>5 DEF Holds, WasThere, Kept, Stays, Steady
  <2>8. Holds("rules", report.dirs["rules"], engine["rules"])'
    BY <1>2, <2>3, <2>6 DEF Holds, WasThere, Kept, Stays, Steady
  <2>9. LoadsWhatIsThere'
    BY <2>7, <2>8 DEF LoadsWhatIsThere, Kinds
  <2>10. out # None
    BY <2>2, SharedEngineAssumption
  <2>11. FirstFailureReported' /\ LoadInv'
    BY <2>3, <2>10 DEF FirstFailureReported, LoadInv
  <2>12. QED
    BY <2>9, <2>11 DEF SoundInv
<1>5. QED
  BY <1>1, <1>3, <1>4 DEF Kinds

\* The load fails with error e at path p, for a reason.
LEMMA FailSound ==
    ASSUME TypeInv, SoundInv, once = "busy", NEW e, NEW p, FailLoad(e, p),
           UNCHANGED loadUnchanged,
           e = "UntrustedDir" => p = here /\ (here = Relative \/ Was(here, 0, {"link"})),
           e = "Parse" => Was(here, p, {"bad"}),
           e = "Io" =>
             \/ p = here /\ Was(here, 0, {"denied"})
             \/ p # here /\ (\/ Was(here, p, {"unreadable", "absent", "other"})
                            \/ Was(here, 0, {"missing"})),
           p # here /\ Steady(here) =>
             \A f \in Suffixed(load.kind) : f < p => ~Broken(here, f)
    PROVE  SoundInv'
<1> DEFINE r == [error |-> e, path |-> p, kind |-> load.kind, dirs |-> load.dirs]
           s == load.dirs.specs
<1>1. UNCHANGED <<ever, always>> /\ once' = "ready" /\ engine' = None /\ report' = r
  BY DEF loadUnchanged, FailLoad, Ready
<1>2. (load.kind = "rules" /\ s \in DataDirs /\ Steady(s)) =>
        \A f \in SpecFiles : ~Broken(s, f)
  <2> SUFFICES ASSUME load.kind = "rules", s \in DataDirs, Steady(s), NEW f \in SpecFiles
               PROVE  ~Broken(s, f)
    OBVIOUS
  <2>1. Holds("specs", s, load.out.specs) /\ always \subseteq On(disk)
    BY DEF SoundInv, LoadInv
  <2>2. f \in Suffixed("specs") /\ "specs" \in Kinds
    BY DEF Suffixed, Kinds
  <2> HIDE DEF s
  <2>3. QED
    BY <2>1, <2>2, HoldsNotBroken DEF TypeInv
<1>3. /\ r.error = e /\ r.path = p /\ r.kind = load.kind
      /\ r.dirs[r.kind] = here /\ r.dirs.specs = s
  BY DEF here
<1> HIDE DEF r
<1>4. Explains(r)
  BY <1>2, <1>3 DEF Explains
<1>5. Explains(report)'
  BY <1>1, <1>4 DEF Explains, Was, Steady, Broken
<1>6. LoadInv' /\ LoadsWhatIsThere' /\ FirstFailureReported'
  BY <1>1, <1>5 DEF LoadInv, LoadsWhatIsThere, FirstFailureReported
<1>7. QED
  BY <1>6 DEF SoundInv

\* What the ghosts and the load are known to have during a load.
LEMMA SoundFacts ==
    ASSUME TypeInv, SoundInv, NEW t, NEW step, Loading(t, step)
    PROVE  /\ TypeOK /\ always \subseteq On(disk) /\ On(disk) \subseteq ever
           /\ load.kind = "specs" => load.out.rules = <<>>
           /\ load.kind = "rules" => Holds("specs", load.dirs.specs, load.out.specs)
           /\ step # "read" => load.out[load.kind] = <<>>
           /\ step = "scan" => ScanSound(load.kind, here, load.pending, load.found)
           /\ step = "read" => ReadSound(load.kind, here, load.todo, load.out[load.kind])
BY DEF TypeInv, SoundInv, LoadInv, Loading

\* The disk shows at this moment a directory of kind k at d.
LEMMA WasDir ==
    ASSUME TypeOK, On(disk) \subseteq ever, NEW d \in DataDirs, NEW kinds,
           disk[d].kind \in kinds
    PROVE  Was(d, 0, kinds)
<1>1. <<d, 0, disk[d].kind, {}>> \in ever
  BY OnDir
<1>2. QED
  BY <1>1 DEF Was

\* And content of kind k under name f.
LEMMA WasFile ==
    ASSUME TypeOK, On(disk) \subseteq ever, NEW d \in DataDirs, NEW f \in Files, NEW kinds,
           disk[d].files[f].kind \in kinds
    PROVE  Was(d, f, kinds)
<1>1. <<d, f, disk[d].files[f].kind, disk[d].files[f].names>> \in ever
  BY OnFile
<1>2. QED
  BY <1>1 DEF Was

LEMMA ReadEnvSound ==
    ASSUME TypeInv, SoundInv, NEW t \in Threads, ReadEnv(t) PROVE SoundInv'
<1> DEFINE l == [load EXCEPT !.step = "validate", !.dirs.rules = env.rules]
<1>1. Loading(t, "env") /\ Continue(l) /\ UNCHANGED loadUnchanged
  BY DEF ReadEnv
<1>2. once = "busy" /\ load \in LoadState /\ load.kind = "specs"
  BY <1>1, LoadFacts DEF TypeInv, PlaceInv
<1>3. load.out.rules = <<>> /\ load.out[load.kind] = <<>>
  BY <1>1, <1>2, SoundFacts
<1>4. l.step = "validate" /\ l.kind = "specs" /\ l.out = load.out
  BY <1>2 DEF LoadState
<1> HIDE DEF l
<1>5. QED
  BY <1>1, <1>2, <1>3, <1>4, ContinueSound

LEMMA ValidateSound ==
    ASSUME TypeInv, SoundInv, NEW t \in Threads, validate_data_dir(t) PROVE SoundInv'
<1> DEFINE l == [load EXCEPT !.step = "open"]
<1>1. Loading(t, "validate") /\ UNCHANGED loadUnchanged
  BY DEF validate_data_dir
<1>2. once = "busy" /\ load \in LoadState /\ here \in DataDirs \cup {Relative}
  BY <1>1, LoadFacts
<1>3. CASE Untrusted /\ FailLoad("UntrustedDir", here)
  <2>1. here = Relative \/ Was(here, 0, {"link"})
    BY <1>1, <1>2, <1>3, SoundFacts, WasDir DEF Untrusted
  <2>2. QED
    BY <1>1, <1>2, <1>3, <2>1, FailSound
<1>4. CASE Continue(l)
  <2>1. l.step = "open" /\ l.kind = load.kind /\ l.out = load.out /\ l.dirs = load.dirs
    BY <1>2 DEF LoadState
  <2>2. load.out[load.kind] = <<>>
    BY <1>1, SoundFacts
  <2> HIDE DEF l
  <2>3. QED
    BY <1>1, <1>2, <1>4, <2>1, <2>2, SoundFacts, ContinueSound
<1>5. QED
  BY <1>3, <1>4 DEF validate_data_dir

\* Nothing was read and nothing had to be.
LEMMA LoadedNothingSound ==
    ASSUME TypeInv, SoundInv, once = "busy", Loaded(<<>>), UNCHANGED loadUnchanged,
           ~(here \in DataDirs /\ Steady(here))
    PROVE  SoundInv'
<1> DEFINE data == <<>>
<1>1. data \in Seq(Loads) /\ Loaded(data)
  OBVIOUS
<1>2. WasThere(load.kind, here, data)
  BY DEF WasThere, ToSet
<1> HIDE DEF data
<1>3. Holds(load.kind, here, data)
  BY <1>2 DEF Holds
<1>4. QED
  BY <1>1, <1>3, LoadedSound

LEMMA OpenSound == ASSUME TypeInv, SoundInv, NEW t \in Threads, Open(t) PROVE SoundInv'
<1> DEFINE l == [load EXCEPT !.step = "scan", !.found = {},
                             !.pending = {f \in Files : Found(f) # "absent"}]
<1>1. Loading(t, "open") /\ UNCHANGED loadUnchanged
  BY DEF Open
<1>2. /\ once = "busy" /\ load \in LoadState /\ here \in DataDirs \cup {Relative}
      /\ load.kind \in Kinds
  BY <1>1, LoadFacts
<1>3. TypeOK /\ always \subseteq On(disk) /\ On(disk) \subseteq ever
  BY <1>1, SoundFacts
<1>4. CASE here = Relative
  <2>1. Loaded(<<>>)
    BY <1>4 DEF Open
  <2>2. here \notin DataDirs
    BY <1>4, SharedEngineAssumption
  <2>3. QED
    BY <1>1, <1>2, <2>1, <2>2, LoadedNothingSound
<1>5. CASE here # Relative /\ disk[here].kind = "missing" /\ Loaded(<<>>)
  <2>1. ~(here \in DataDirs /\ Steady(here))
    BY <1>3, <1>5, SteadyNow
  <2>2. QED
    BY <1>1, <1>2, <1>5, <2>1, LoadedNothingSound
<1>6. CASE here # Relative /\ disk[here].kind = "denied" /\ FailLoad("Io", here)
  <2>1. Was(here, 0, {"denied"})
    BY <1>2, <1>3, <1>6, WasDir
  <2>2. QED
    BY <1>1, <1>2, <1>6, <2>1, FailSound
<1>7. CASE here # Relative /\ disk[here].kind \in {"dir", "link"} /\ Continue(l)
  <2>1. here \in DataDirs
    BY <1>2, <1>7
  <2>2. /\ l.dirs = load.dirs /\ l.kind = load.kind /\ l.step = "scan" /\ l.out = load.out
        /\ l.found = {} /\ l.pending = {f \in Files : Found(f) # "absent"}
    BY <1>2 DEF LoadState
  <2> HIDE DEF l
  <2>3. \A f \in l.pending : <<here, f, "absent", {}>> \notin always
    <3> SUFFICES ASSUME NEW f \in l.pending, <<here, f, "absent", {}>> \in always
                 PROVE  FALSE
      OBVIOUS
    <3>1. f \in Files /\ Found(f) # "absent"
      BY <2>2
    <3>2. disk[here].files[f].kind = "absent"
      BY <1>3, <2>1, <3>1, OnFile
    <3>3. QED
      BY <3>1, <3>2 DEF Found
  <2>4. \A f \in Suffixed(load.kind), c \in Contents :
          Stays(here, f, c) => f \in l.pending
    BY <1>2, <1>3, <1>7, <2>1, <2>2, StaysNow, SuffixedFiles DEF Found
  <2>5. ScanSound(load.kind, here, l.pending, l.found)
    BY <2>2, <2>3, <2>4 DEF ScanSound
  <2>6. /\ l.kind = "specs" => l.out.rules = <<>>
        /\ l.kind = "rules" => Holds("specs", l.dirs.specs, l.out.specs)
        /\ l.out[l.kind] = <<>>
    BY <1>1, <2>2, SoundFacts
  <2>7. ScanSound(l.kind, l.dirs[l.kind], l.pending, l.found)
    BY <2>2, <2>5 DEF here
  <2>8. l.step # "read"
    BY <2>2
  <2>9. QED
    BY <1>1, <1>2, <1>7, <2>6, <2>7, <2>8, ContinueSound
<1>8. here # Relative =>
        \/ disk[here].kind = "missing" /\ Loaded(<<>>)
        \/ disk[here].kind = "denied" /\ FailLoad("Io", here)
        \/ disk[here].kind \in {"dir", "link"} /\ Continue(l)
  BY DEF Open
<1>9. QED
  BY <1>4, <1>5, <1>6, <1>7, <1>8

LEMMA ScanSoundStep ==
    ASSUME TypeInv, SoundInv, NEW t \in Threads, Scan(t) PROVE SoundInv'
<1> DEFINE Rest(f) == [load EXCEPT !.pending = @ \ {f}]
           Taken(f) == [Rest(f) EXCEPT !.found = @ \cup ({f} \cap Suffixed(load.kind))]
<1>1. Loading(t, "scan") /\ UNCHANGED loadUnchanged
  BY DEF Scan
<1>2. /\ once = "busy" /\ load \in LoadState /\ load.step = "scan" /\ here \in DataDirs
      /\ disk[here].kind # "denied" /\ load.kind \in Kinds
  BY <1>1, LoadFacts
<1>3. /\ TypeOK /\ always \subseteq On(disk) /\ On(disk) \subseteq ever
      /\ ScanSound(load.kind, here, load.pending, load.found)
      /\ load.kind = "specs" => load.out.rules = <<>>
      /\ load.kind = "rules" => Holds("specs", load.dirs.specs, load.out.specs)
      /\ load.out[load.kind] = <<>>
  BY <1>1, SoundFacts
<1>4. PICK f \in load.pending :
        \/ Continue(Taken(f))
        \/ Found(f) = "other" /\ Continue(Rest(f))
        \/ Found(f) = "absent" /\ Loaded(<<>>)
  BY DEF Scan
<1> DEFINE rest == Rest(f)
           taken == [rest EXCEPT !.found = @ \cup ({f} \cap Suffixed(load.kind))]
<1>5. f \in Files
  BY <1>2 DEF LoadState
<1>6. /\ rest \in LoadState /\ rest.dirs = load.dirs /\ rest.kind = load.kind
      /\ rest.step = "scan" /\ rest.out = load.out /\ rest.found = load.found
      /\ rest.pending = load.pending \ {f}
  BY <1>2, <1>5 DEF LoadState
<1> HIDE DEF rest
<1>7. /\ taken.dirs = load.dirs /\ taken.kind = load.kind /\ taken.step = "scan"
      /\ taken.out = load.out /\ taken.pending = load.pending \ {f}
      /\ taken.found = load.found \cup ({f} \cap Suffixed(load.kind))
  BY <1>5, <1>6 DEF LoadState
<1> HIDE DEF taken
<1>8. ASSUME NEW l, Continue(l), l.dirs = load.dirs, l.kind = load.kind, l.step = "scan",
             l.out = load.out, ScanSound(load.kind, here, l.pending, l.found)
      PROVE  SoundInv'
  <2>1. ScanSound(l.kind, l.dirs[l.kind], l.pending, l.found)
    BY <1>8 DEF here
  <2>2. l.step # "read"
    BY <1>8
  <2>3. QED
    BY <1>1, <1>2, <1>3, <1>8, <2>1, <2>2, ContinueSound
<1>9. CASE Continue(taken)
  <2>1. ScanSound(load.kind, here, taken.pending, taken.found)
    BY <1>3, <1>7 DEF ScanSound
  <2>2. QED
    BY <1>7, <1>8, <1>9, <2>1
<1>10. CASE Found(f) = "other" /\ Continue(rest)
  <2>1. disk[here].files[f].kind = "other"
    BY <1>10 DEF Found
  <2>2. \A c \in Contents : ~Stays(here, f, c)
    BY <1>2, <1>3, <1>5, <2>1, StaysNow
  <2>3. ScanSound(load.kind, here, rest.pending, rest.found)
    BY <1>3, <1>6, <2>2 DEF ScanSound
  <2>4. QED
    BY <1>6, <1>8, <1>10, <2>3
<1>11. CASE Found(f) = "absent" /\ Loaded(<<>>)
  <2>1. ASSUME Steady(here) PROVE FALSE
    <3>1. disk[here].kind = "dir"
      BY <1>2, <1>3, <2>1, SteadyNow
    <3>2. disk[here].files[f].kind = "absent"
      BY <1>11, <3>1 DEF Found
    <3>3. /\ disk[here].files[f].names = {}
          /\ <<here, f, disk[here].files[f].kind, disk[here].files[f].names>> \in ever
      BY <1>2, <1>3, <1>5, <3>2, OnFile, SharedEngineAssumption
    <3>4. <<here, f, "absent", {}>> \in always
      BY <1>5, <2>1, <3>2, <3>3 DEF Steady
    <3>5. QED
      BY <1>3, <2>1, <3>4 DEF ScanSound
  <2>2. QED
    BY <1>1, <1>2, <1>11, <2>1, LoadedNothingSound
<1>12. QED
  BY <1>4, <1>9, <1>10, <1>11 DEF rest, taken

LEMMA SortSound == ASSUME TypeInv, SoundInv, NEW t \in Threads, SortPaths(t) PROVE SoundInv'
<1>1. Loading(t, "scan") /\ UNCHANGED loadUnchanged /\ load.pending = {}
  BY DEF SortPaths
<1>2. /\ once = "busy" /\ load \in LoadState /\ load.found \in SUBSET Files
      /\ here \in DataDirs
  BY <1>1, LoadFacts DEF LoadState
<1>3. PICK order \in SetToSeqs(load.found) :
        /\ Ascending(order)
        /\ Continue([load EXCEPT !.step = "read", !.found = {}, !.todo = order])
  BY DEF SortPaths
<1> DEFINE l == [load EXCEPT !.step = "read", !.found = {}, !.todo = order]
<1>4. ToSet(order) = load.found
  BY <1>2, OrderSet, FS_Subset, SharedEngineAssumption
<1>5. /\ ScanSound(load.kind, here, load.pending, load.found)
      /\ load.out[load.kind] = <<>>
      /\ load.kind = "specs" => load.out.rules = <<>>
      /\ load.kind = "rules" => Holds("specs", load.dirs.specs, load.out.specs)
  BY <1>1, SoundFacts
<1>6. /\ l.dirs = load.dirs /\ l.kind = load.kind /\ l.step = "read"
      /\ l.out = load.out /\ l.todo = order
  BY <1>2 DEF LoadState
<1>7. WasThere(load.kind, here, <<>>) /\ ToSet(<<>>) = {}
  BY DEF WasThere, ToSet
<1>8. ReadSound(load.kind, here, order, <<>>)
  BY <1>1, <1>3, <1>4, <1>5, <1>7 DEF ScanSound, ReadSound
<1>9. ReadSound(l.kind, l.dirs[l.kind], l.todo, l.out[l.kind])
  BY <1>5, <1>6, <1>8 DEF here
<1>10. Continue(l)
  BY <1>3
<1> HIDE DEF l
<1>11. l.step # "scan"
  BY <1>6
<1>12. QED
  BY <1>1, <1>2, <1>5, <1>6, <1>9, <1>10, <1>11, ContinueSound

\* The first of the files still to be read is the least.
LEMMA HeadLeast ==
    ASSUME NEW todo \in Seq(Files), todo # <<>>, Ascending(todo)
    PROVE  /\ Head(todo) \in ToSet(todo) /\ Head(todo) \in Files
           /\ Tail(todo) \in Seq(Files) /\ Ascending(Tail(todo))
           /\ ToSet(todo) = {Head(todo)} \cup ToSet(Tail(todo))
           /\ \A f \in ToSet(Tail(todo)) : Head(todo) < f
<1>1. /\ Len(todo) \in Nat \ {0} /\ DOMAIN todo = 1 .. Len(todo) /\ Head(todo) = todo[1]
      /\ Tail(todo) \in Seq(Files) /\ DOMAIN Tail(todo) = 1 .. Len(todo) - 1
      /\ \A i \in 1 .. Len(todo) - 1 : Tail(todo)[i] = todo[i + 1]
  OBVIOUS
<1>2. Head(todo) \in ToSet(todo) /\ Head(todo) \in Files
  BY <1>1 DEF ToSet
<1>3. Ascending(Tail(todo))
  BY <1>1 DEF Ascending
<1>4. \A f \in ToSet(Tail(todo)) : Head(todo) < f
  BY <1>1 DEF ToSet, Ascending
<1>5. \A i \in DOMAIN todo : todo[i] \in {Head(todo)} \cup ToSet(Tail(todo))
  <2> SUFFICES ASSUME NEW i \in 1 .. Len(todo), i # 1
               PROVE  todo[i] \in ToSet(Tail(todo))
    BY <1>1
  <2>1. i - 1 \in 1 .. Len(todo) - 1 /\ Tail(todo)[i - 1] = todo[i]
    BY <1>1
  <2>2. QED
    BY <1>1, <2>1 DEF ToSet
<1>6. ToSet(Tail(todo)) \subseteq ToSet(todo)
  BY <1>1 DEF ToSet
<1>7. QED
  BY <1>1, <1>2, <1>3, <1>4, <1>5, <1>6 DEF ToSet

\* A good file at the head of the list is read.
LEMMA ReadGood ==
    ASSUME TypeOK, always \subseteq On(disk), On(disk) \subseteq ever,
           NEW k \in Kinds, NEW d \in DataDirs, NEW todo \in Seq(Files), todo # <<>>,
           NEW data \in Seq(Loads), ReadSound(k, d, todo, data),
           NEW c, c = disk[d].files[Head(todo)], c.kind = "good",
           NEW x \in Loads, x = [file |-> Head(todo), names |-> c.names]
    PROVE  ReadSound(k, d, Tail(todo), Append(data, x))
<1> DEFINE f == Head(todo)
<1>1. /\ f \in ToSet(todo) /\ f \in Files /\ Ascending(Tail(todo))
      /\ ToSet(todo) = {f} \cup ToSet(Tail(todo))
      /\ \A g \in ToSet(Tail(todo)) : f < g
  BY HeadLeast DEF ReadSound
<1>2. f \in Suffixed(k) /\ x.file = f /\ x.names = c.names
  BY <1>1 DEF ReadSound
<1>3. ToSet(Append(data, x)) = ToSet(data) \cup {x}
  BY AppendSet
<1>4. <<d, f, "good", x.names>> \in ever
  BY <1>1, <1>2, OnFile
<1>5. \A i \in DOMAIN data : data[i] \in ToSet(data) /\ data[i].file < f
  BY <1>1 DEF ReadSound, ToSet
<1>6. \A i, j \in DOMAIN Append(data, x) :
        i < j => Append(data, x)[i].file < Append(data, x)[j].file
  <2> SUFFICES ASSUME NEW i \in 1 .. Len(data) + 1, NEW j \in 1 .. Len(data) + 1, i < j
               PROVE  Append(data, x)[i].file < Append(data, x)[j].file
    OBVIOUS
  <2>1. i \in DOMAIN data /\ Append(data, x)[i] = data[i]
    OBVIOUS
  <2>2. CASE j = Len(data) + 1
    <3>1. Append(data, x)[j] = x
      BY <2>2
    <3>2. QED
      BY <1>2, <1>5, <2>1, <3>1
  <2>3. CASE j # Len(data) + 1
    <3>1. j \in DOMAIN data /\ Append(data, x)[j] = data[j]
      BY <2>3
    <3>2. QED
      BY <2>1, <3>1 DEF ReadSound, WasThere
  <2>4. QED
    BY <2>2, <2>3
<1>7. WasThere(k, d, Append(data, x))
  BY <1>2, <1>3, <1>4, <1>6 DEF ReadSound, WasThere
<1>8. \A y \in ToSet(Append(data, x)), g \in ToSet(Tail(todo)) : y.file < g
  BY <1>1, <1>2, <1>3 DEF ReadSound
<1>9. ASSUME Steady(d), NEW g \in Suffixed(k), NEW e \in Contents, Stays(d, g, e)
      PROVE  g \in ToSet(Tail(todo)) \/ Kept(g, e, Append(data, x))
  <2>1. CASE g = f
    <3>1. e.kind = c.kind /\ e.names = c.names
      BY <1>1, <1>9, <2>1, StaysNow
    <3>2. x = [file |-> g, names |-> e.names] /\ e.kind = "good"
      BY <2>1, <3>1
    <3>3. QED
      BY <1>3, <3>2 DEF Kept
  <2>2. CASE g # f
    BY <1>1, <1>3, <1>9, <2>2 DEF ReadSound, Kept
  <2>3. QED
    BY <2>1, <2>2
<1>10. ToSet(Tail(todo)) \subseteq Suffixed(k)
  BY <1>1 DEF ReadSound
<1>11. QED
  BY <1>1, <1>7, <1>8, <1>9, <1>10 DEF ReadSound

\* No file before the head of the list is broken.
LEMMA NoneBrokenBefore ==
    ASSUME TypeOK, always \subseteq On(disk), NEW k \in Kinds, NEW d \in DataDirs,
           NEW todo \in Seq(Files), todo # <<>>, NEW data, ReadSound(k, d, todo, data),
           Steady(d), NEW f \in Suffixed(k), f < Head(todo)
    PROVE  ~Broken(d, f)
<1> SUFFICES ASSUME Broken(d, f) PROVE FALSE
  OBVIOUS
<1>1. f \in Files
  BY SuffixedFiles
<1>2. PICK c \in Contents : Stays(d, f, c) /\ c.kind # "good"
  BY <1>1, BrokenStays
<1>3. f \in ToSet(todo)
  BY <1>2 DEF ReadSound, Kept
<1>4. f = Head(todo) \/ Head(todo) < f
  BY <1>3, HeadLeast DEF ReadSound
<1>5. f \in Nat /\ Head(todo) \in Nat
  <2>1. Head(todo) \in Files
    BY HeadLeast DEF ReadSound
  <2>2. QED
    BY <1>1, <2>1, SharedEngineAssumption
<1>6. QED
  BY <1>4, <1>5

LEMMA ReadSoundStep ==
    ASSUME TypeInv, SoundInv, NEW t \in Threads, Read(t) PROVE SoundInv'
<1> DEFINE k == load.kind
           data == load.out[load.kind]
           todo == load.todo
           f == Head(todo)
<1>1. Loading(t, "read") /\ UNCHANGED loadUnchanged
  BY DEF Read
<1>2. /\ once = "busy" /\ load \in LoadState /\ load.step = "read" /\ k \in Kinds
      /\ here \in DataDirs /\ disk[here].kind # "denied"
  BY <1>1, LoadFacts
<1>3. load.out \in Engine /\ todo \in Seq(Files) /\ data \in Seq(Loads)
  <2>1. load.out \in Engine /\ todo \in Seq(Files)
    BY <1>2 DEF LoadState
  <2>2. QED
    BY <1>2, <2>1, SetKind DEF Engine
<1>4. /\ TypeOK /\ always \subseteq On(disk) /\ On(disk) \subseteq ever
      /\ ReadSound(k, here, todo, data)
      /\ k = "specs" => load.out.rules = <<>>
      /\ k = "rules" => Holds("specs", load.dirs.specs, load.out.specs)
  BY <1>1, SoundFacts
<1>5. CASE todo = <<>>
  <2>1. Loaded(data)
    BY <1>5 DEF Read
  <2>2. ToSet(todo) = {}
    BY <1>5 DEF ToSet
  <2>3. Holds(k, here, data)
    BY <1>4, <2>2 DEF ReadSound, Holds
  <2>4. QED
    BY <1>1, <1>2, <1>3, <2>1, <2>3, LoadedSound
<1>6. CASE todo # <<>>
  <2>1. f \in Files /\ f # here
    <3>1. f \in Files
      BY <1>3, <1>6
    <3>2. QED
      BY <1>2, <3>1, SharedEngineAssumption
  <2>2. Steady(here) => \A g \in Suffixed(k) : g < f => ~Broken(here, g)
    BY <1>2, <1>3, <1>4, <1>6, NoneBrokenBefore
  <2>3. CASE Found(f) \in {"absent", "other", "unreadable"} /\ FailLoad("Io", f)
    <3>1. disk[here].kind \in {"dir", "link", "missing"}
      BY <1>2, <1>4 DEF TypeOK, Dir
    <3>2. \/ disk[here].kind = "missing"
          \/ disk[here].files[f].kind \in {"unreadable", "absent", "other"}
      BY <2>3, <3>1 DEF Found
    <3>3. Was(here, f, {"unreadable", "absent", "other"}) \/ Was(here, 0, {"missing"})
      BY <1>2, <1>4, <2>1, <3>2, WasDir, WasFile
    <3> HIDE DEF f
    <3>4. QED
      BY <1>1, <1>2, <2>1, <2>2, <2>3, <3>3, FailSound
  <2>4. CASE Found(f) = "bad" /\ FailLoad("Parse", f)
    <3>1. disk[here].files[f].kind \in {"bad"}
      BY <2>4 DEF Found
    <3>2. Was(here, f, {"bad"})
      BY <1>2, <1>4, <2>1, <3>1, WasFile
    <3> HIDE DEF f
    <3>3. QED
      BY <1>1, <1>2, <2>1, <2>2, <2>4, <3>2, FailSound
  <2> DEFINE c == disk[here].files[f]
             x == [file |-> f, names |-> c.names]
             l == [load EXCEPT !.todo = Tail(@), !.out[load.kind] = Append(@, x)]
  <2>5. CASE Found(f) = "good" /\ Continue(l)
    <3>1. c.kind = "good"
      BY <2>5 DEF Found
    <3>2. x \in Loads
      BY <1>2, <1>4, <2>1, <2>5, FoundFile DEF Loads
    <3>3. ReadSound(k, here, Tail(todo), Append(data, x))
      BY <1>2, <1>3, <1>4, <1>6, <3>1, <3>2, ReadGood
    <3> HIDE DEF x
    <3> DEFINE more == Append(data, x)
               out == [load.out EXCEPT ![load.kind] = more]
    <3>4. more \in Seq(Loads)
      BY <1>3, <3>2
    <3> HIDE DEF more
    <3>5. /\ out \in Engine /\ out[k] = more
          /\ \A m \in Kinds \ {k} : out[m] = load.out[m]
      BY <1>2, <1>3, <3>4, SetKind DEF Engine
    <3>6. /\ k = "specs" => out.rules = load.out.rules
          /\ k = "rules" => out.specs = load.out.specs
      BY <1>3, <3>5, ByKind DEF Engine, Kinds
    <3>7. /\ l.dirs = load.dirs /\ l.kind = k /\ l.step = "read" /\ l.todo = Tail(todo)
          /\ l.out = out
      BY <1>2 DEF LoadState, more
    <3> HIDE DEF out, l
    <3>8. ReadSound(l.kind, l.dirs[l.kind], l.todo, l.out[l.kind])
      BY <3>3, <3>5, <3>7 DEF here, more
    <3>9. /\ l.kind = "specs" => l.out.rules = <<>>
          /\ l.kind = "rules" => Holds("specs", l.dirs.specs, l.out.specs)
          /\ l.step # "scan"
      BY <1>4, <3>6, <3>7
    <3>10. QED
      BY <1>1, <1>2, <2>5, <3>7, <3>8, <3>9, ContinueSound
  <2>6. QED
    BY <1>6, <2>3, <2>4, <2>5 DEF Read
<1>7. QED
  BY <1>5, <1>6

LEMMA BeginInitSound == ASSUME NEW t, BeginInit(t) PROVE SoundInv'
<1>1. /\ load' = [NoLoad EXCEPT !.by = t, !.dirs.specs = env.specs] /\ once' = "busy"
      /\ ever' = On(disk) /\ always' = On(disk) /\ disk' = disk
  BY DEF BeginInit, envVars
<1>2. NoLoad \in LoadState /\ NoLoad.kind = "specs" /\ NoLoad.step = "env"
      /\ NoLoad.out = [specs |-> <<>>, rules |-> <<>>]
  BY NoLoadType DEF NoLoad
<1>3. load'.kind = "specs" /\ load'.step = "env" /\ load'.out = NoLoad.out
  BY <1>1, <1>2 DEF LoadState
<1>4. load'.out.rules = <<>> /\ load'.out["specs"] = <<>>
  BY <1>2, <1>3
<1>5. always' \subseteq On(disk)' /\ On(disk)' \subseteq ever'
  BY <1>1 DEF On
<1>6. LoadInv'
  BY <1>1, <1>3, <1>4, <1>5 DEF LoadInv
<1>7. LoadsWhatIsThere' /\ FirstFailureReported'
  BY <1>1 DEF LoadsWhatIsThere, FirstFailureReported
<1>8. QED
  BY <1>6, <1>7 DEF SoundInv

LEMMA PanicSound == ASSUME SoundInv, NEW t, Panic(t) PROVE SoundInv'
<1>1. CASE UNCHANGED <<once, load>>
  <2>1. UNCHANGED <<disk, once, engine, load, ghosts>>
    BY <1>1 DEF Panic, envVars
  <2>2. QED
    BY <2>1, QuietSound
<1>2. CASE once' = "unset"
  BY <1>2 DEF SoundInv, LoadInv, LoadsWhatIsThere, FirstFailureReported
<1>3. QED
  BY <1>1, <1>2 DEF Panic

LEMMA NextSound == TypeInv /\ SoundInv /\ [Next]_vars => SoundInv'
<1> SUFFICES ASSUME TypeInv, SoundInv, [Next]_vars PROVE SoundInv'
  OBVIOUS
<1>1. ASSUME NEW t \in Threads, LoadStep(t) PROVE SoundInv'
  BY <1>1, ReadEnvSound, ValidateSound, OpenSound, ScanSoundStep, SortSound, ReadSoundStep
     DEF LoadStep
<1>2. ASSUME NEW t \in Threads, CheckInput(t) \/ Take(t) \/ Handle(t) PROVE SoundInv'
  <2>1. UNCHANGED <<disk, once, engine, load, ghosts>>
    BY <1>2 DEF CheckInput, Take, Handle, envVars
  <2>2. QED
    BY <2>1, QuietSound
<1>3. ASSUME NEW t \in Threads, Free(t) \/ \E r \in Requests : Call(t, r) PROVE SoundInv'
  <2>1. UNCHANGED <<disk, once, engine, load, ghosts>>
    BY <1>3 DEF Free, Call, envVars
  <2>2. QED
    BY <2>1, QuietSound
<1>4. ASSUME NEW t \in Threads, BeginInit(t) \/ Panic(t) PROVE SoundInv'
  BY <1>4, BeginInitSound, PanicSound
<1>5. ASSUME NEW d \in DataDirs, NEW f \in Files, NEW c \in Writes, ChangeFile(d, f, c)
      PROVE  SoundInv'
  BY <1>5, WitnessSound DEF ChangeFile
<1>6. ASSUME NEW d \in DataDirs, NEW k \in {"missing", "dir", "link"}, ChangeDir(d, k)
      PROVE  SoundInv'
  BY <1>6, WitnessSound DEF ChangeDir
<1>7. ASSUME NEW e \in Envs, SetEnv(e) PROVE SoundInv'
  BY <1>7, QuietSound DEF SetEnv
<1>8. CASE UNCHANGED vars
  BY <1>8, QuietSound DEF vars, envVars
<1>9. QED
  BY <1>1, <1>2, <1>3, <1>4, <1>5, <1>6, <1>7, <1>8 DEF Next, Step

LEMMA SoundInvariant == Spec => []SoundInv
BY TypeInvariant, InitSound, NextSound, PTL DEF Spec

\* A load that succeeds holds what was on disk while it ran: only contents that files
\* of the right kind had at some moment, in the order of paths, and every file that
\* stayed the same in a directory whose entries did not come and go
\* (load.rs:100-176).
THEOREM EngineHoldsWhatIsThere == Spec => []LoadsWhatIsThere
BY SoundInvariant, PTL DEF SoundInv

\* A load that fails says why, and nothing before what it names was broken all along
\* (load.rs:100-176, daemon/lib.rs:145-146).
THEOREM EngineReportsFirstFailure == Spec => []FirstFailureReported
BY SoundInvariant, PTL DEF SoundInv

-----------------------------------------------------------------------------
(* What calls are answered *)

\* The bounded scan refuses exactly what is over the limit.
LEMMA RefusedRequests ==
    ASSUME NEW r \in Requests
    PROVE  Refused(r) <=> (r.null \/ r.bytes > MAX_REQUEST_BYTES \/ ~r.utf8)
<1>1. r.bytes \in Nat /\ MAX_REQUEST_BYTES \in Nat
  BY SharedEngineAssumption
<1>2. bounded_cstr_len(r.bytes, MAX_REQUEST_BYTES + 1) > MAX_REQUEST_BYTES
        <=> r.bytes > MAX_REQUEST_BYTES
  BY <1>1 DEF bounded_cstr_len
<1>3. QED
  BY <1>2 DEF Refused

\* The first spec that declares a command is the first file that does, for specs are
\* in the order of paths.
LEMMA FirstDeclares ==
    ASSUME NEW specs \in Seq(Loads), NEW base,
           \A i, j \in DOMAIN specs : i < j => specs[i].file < specs[j].file,
           NEW D, D = {x.file : x \in {y \in ToSet(specs) : base \in y.names}}
    PROVE  IF D = {} THEN index_specs(specs, base) = None
           ELSE /\ index_specs(specs, base) \in D
                /\ \A f \in D : index_specs(specs, base) <= f
<1>1. D = {specs[i].file : i \in Hits(specs, base)}
  BY DEF ToSet, Hits
<1>2. CASE Hits(specs, base) = {}
  BY <1>1, <1>2, IndexLeast
<1>3. CASE Hits(specs, base) # {}
  <2>1. PICK i \in Hits(specs, base) :
          /\ index_specs(specs, base) = specs[i].file
          /\ \A j \in Hits(specs, base) : i <= j
    BY <1>3, IndexLeast
  <2>2. \A j \in Hits(specs, base) : j \in Nat /\ j \in DOMAIN specs /\ specs[j] \in Loads
    BY DEF Hits
  <2>3. \A x \in Loads : x.file \in Nat
    BY SharedEngineAssumption DEF Loads
  <2>4. \A j \in Hits(specs, base) : specs[i].file <= specs[j].file
    <3> SUFFICES ASSUME NEW j \in Hits(specs, base) PROVE specs[i].file <= specs[j].file
      OBVIOUS
    <3>1. i = j \/ i < j
      BY <2>1, <2>2
    <3>2. specs[i].file \in Nat /\ specs[j].file \in Nat
      BY <2>2, <2>3
    <3>3. QED
      BY <2>2, <3>1, <3>2
  <2>5. QED
    BY <1>1, <2>1, <2>4
<1>4. QED
  BY <1>2, <1>3

\* An answer that was right stays right, for a finished load is never replaced; the
\* threads of T have a new answer, and a right one.
LEMMA AnswersStep ==
    ASSUME AnswersFromOneEngine,
           once = "ready" => UNCHANGED <<once, engine>>,
           panics > 0 => panics' > 0,
           NEW T, \A u \in Threads \ T : pc'[u] = "returned" =>
             pc[u] = "returned" /\ req'[u] = req[u] /\ answer'[u] = answer[u],
           \A u \in Threads \cap T : pc'[u] = "returned" => RightAnswer(req[u], answer[u])'
    PROVE  AnswersFromOneEngine'
<1> SUFFICES ASSUME NEW u \in Threads, pc'[u] = "returned"
             PROVE  RightAnswer(req[u], answer[u])'
  BY DEF AnswersFromOneEngine
<1>1. CASE u \in T
  BY <1>1
<1>2. CASE u \notin T
  <2>1. RightAnswer(req[u], answer[u])
    BY <1>2 DEF AnswersFromOneEngine
  <2>2. req'[u] = req[u] /\ answer'[u] = answer[u]
    BY <1>2
  <2>3. QED
    BY <2>1, <2>2 DEF RightAnswer, Declaring
<1>3. QED
  BY <1>1, <1>2

\* Thread t gets answer a.
LEMMA ReturnStep ==
    ASSUME TypeInv, AnswersFromOneEngine, NEW t \in Threads, NEW a, Return(t, a),
           UNCHANGED <<req, engine>>, once = "ready" => UNCHANGED once,
           panics > 0 => panics' > 0,
           a.code = "bad_request" <=> Refused(req[t]), pc[t] # "idle",
           a.code = "internal" => panics' > 0 \/ (once' = "ready" /\ engine' = None),
           a.code = "items" =>
             /\ once' = "ready" /\ engine # None
             /\ IF Declaring(req[t].base) = {} THEN a.spec = None
                ELSE /\ a.spec \in Declaring(req[t].base)
                     /\ \A f \in Declaring(req[t].base) : a.spec <= f
    PROVE  AnswersFromOneEngine'
<1>1. answer \in [Threads -> [code : {"bad_request", "internal", "items"},
                              spec : Files \cup {None}] \cup {None}]
      /\ pc \in [Threads -> {"idle", "enter", "engine", "handle", "returned"}]
  BY DEF TypeInv, TypeOK
<1>2. answer'[t] = a /\ \A u \in Threads \ {t} : answer'[u] = answer[u] /\ pc'[u] = pc[u]
  BY <1>1 DEF Return
<1>3. req[t] \in Requests
  BY DEF TypeInv, CallInv
<1>4. a.code = "bad_request" <=>
        (req[t].null \/ req[t].bytes > MAX_REQUEST_BYTES \/ ~req[t].utf8)
  BY <1>3, RefusedRequests
<1>5. Declaring(req[t].base)' = Declaring(req[t].base) /\ req'[t] = req[t] /\ engine' = engine
  BY DEF Declaring
<1>6. RightAnswer(req[t], answer[t])'
  BY <1>2, <1>4, <1>5 DEF RightAnswer
<1>7. \A u \in Threads \cap {t} : pc'[u] = "returned" => RightAnswer(req[u], answer[u])'
  BY <1>6 DEF RightAnswer, Declaring
<1>8. QED
  BY <1>2, <1>7, AnswersStep

LEMMA NextAnswers ==
    TypeInv /\ SoundInv /\ AnswersFromOneEngine /\ [Next]_vars => AnswersFromOneEngine'
<1> SUFFICES ASSUME TypeInv, SoundInv, AnswersFromOneEngine, [Next]_vars
             PROVE  AnswersFromOneEngine'
  OBVIOUS
<1>1. ASSUME NEW t \in Threads, CheckInput(t) PROVE AnswersFromOneEngine'
  <2>1. pc \in [Threads -> {"idle", "enter", "engine", "handle", "returned"}]
    BY DEF TypeInv, TypeOK
  <2>2. CASE Refused(req[t]) /\ Return(t, bad_request)
    BY <1>1, <2>2, ReturnStep DEF CheckInput, bad_request
  <2>3. CASE pc' = [pc EXCEPT ![t] = "engine"] /\ UNCHANGED answer
    <3>1. \A u \in Threads : pc'[u] = "returned" => pc[u] = "returned"
      BY <2>1, <2>3
    <3>2. \A u \in Threads \cap {} : pc'[u] = "returned" => RightAnswer(req[u], answer[u])'
      OBVIOUS
    <3>3. QED
      BY <1>1, <2>3, <3>1, <3>2, AnswersStep DEF CheckInput
  <2>4. QED
    BY <1>1, <2>2, <2>3 DEF CheckInput
<1>2. ASSUME NEW t \in Threads, Take(t) PROVE AnswersFromOneEngine'
  <2>1. /\ pc \in [Threads -> {"idle", "enter", "engine", "handle", "returned"}]
        /\ ~Refused(req[t])
    BY <1>2 DEF TypeInv, TypeOK, CallInv, Take
  <2>2. CASE engine = None /\ Return(t, FALLBACK_ERROR)
    BY <1>2, <2>1, <2>2, ReturnStep DEF Take, FALLBACK_ERROR
  <2>3. CASE pc' = [pc EXCEPT ![t] = "handle"] /\ UNCHANGED answer
    <3>1. \A u \in Threads : pc'[u] = "returned" => pc[u] = "returned"
      BY <2>1, <2>3
    <3>2. \A u \in Threads \cap {} : pc'[u] = "returned" => RightAnswer(req[u], answer[u])'
      OBVIOUS
    <3>3. QED
      BY <1>2, <2>3, <3>1, <3>2, AnswersStep DEF Take
  <2>4. QED
    BY <1>2, <2>2, <2>3 DEF Take
<1>3. ASSUME NEW t \in Threads, Handle(t) PROVE AnswersFromOneEngine'
  <2> DEFINE spec == index_specs(engine.specs, req[t].base)
  <2>1. pc[t] = "handle" /\ once = "ready" /\ engine # None /\ ~Refused(req[t])
    BY <1>3 DEF Handle, TypeInv, CallInv
  <2>2. engine \in Engine
    BY <2>1 DEF TypeInv, TypeOK
  <2>3. engine.specs \in Seq(Loads) /\ engine.specs = engine["specs"]
    BY <2>2, ByKind DEF Engine
  <2>4. \A i, j \in DOMAIN engine.specs :
          i < j => engine.specs[i].file < engine.specs[j].file
    BY <2>1, <2>3 DEF SoundInv, LoadsWhatIsThere, Kinds, Holds, WasThere
  <2>5. IF Declaring(req[t].base) = {} THEN spec = None
        ELSE /\ spec \in Declaring(req[t].base)
             /\ \A f \in Declaring(req[t].base) : spec <= f
    BY <2>3, <2>4, FirstDeclares DEF Declaring
  <2>6. Return(t, [code |-> "items", spec |-> spec])
    BY <1>3 DEF Handle, items
  <2> HIDE DEF spec
  <2>7. QED
    BY <1>3, <2>1, <2>5, <2>6, ReturnStep DEF Handle
<1>4. ASSUME NEW t \in Threads, Panic(t) PROVE AnswersFromOneEngine'
  <2>1. pc[t] \in {"engine", "handle"} /\ ~Refused(req[t]) /\ panics \in Nat
    BY <1>4 DEF Panic, TypeInv, TypeOK, PlaceInv, CallInv
  <2>2. panics' > 0 /\ Return(t, FALLBACK_ERROR) /\ UNCHANGED <<req, engine>>
        /\ (once = "ready" => UNCHANGED once)
    BY <1>4, <2>1 DEF Panic
  <2>3. QED
    BY <2>1, <2>2, ReturnStep DEF FALLBACK_ERROR
<1>5. ASSUME UNCHANGED <<pc, req, answer, panics>>, once = "ready" => UNCHANGED <<once, engine>>
      PROVE  AnswersFromOneEngine'
  <2>1. \A u \in Threads \cap {} : pc'[u] = "returned" => RightAnswer(req[u], answer[u])'
    OBVIOUS
  <2>2. QED
    BY <1>5, <2>1, AnswersStep
<1>6. ASSUME NEW t \in Threads, BeginInit(t) \/ LoadStep(t) PROVE AnswersFromOneEngine'
  <2>1. UNCHANGED <<pc, req, answer, panics>> /\ once # "ready"
    BY <1>6 DEF BeginInit, LoadStep, ReadEnv, validate_data_dir, Open, Scan, SortPaths, Read,
                loadUnchanged, Loading
  <2>2. QED
    BY <1>5, <2>1
<1>7. ASSUME NEW t \in Threads, Free(t) \/ \E r \in Requests : Call(t, r)
      PROVE  AnswersFromOneEngine'
  <2>1. /\ pc \in [Threads -> {"idle", "enter", "engine", "handle", "returned"}]
        /\ req \in [Threads -> Requests \cup {None}]
        /\ answer \in [Threads -> [code : {"bad_request", "internal", "items"},
                                  spec : Files \cup {None}] \cup {None}]
    BY DEF TypeInv, TypeOK
  <2>2. \A u \in Threads : pc'[u] = "returned" =>
          pc[u] = "returned" /\ req'[u] = req[u] /\ answer'[u] = answer[u]
    BY <1>7, <2>1 DEF Free, Call
  <2>3. UNCHANGED <<once, engine, panics>>
    BY <1>7 DEF Free, Call
  <2>4. \A u \in Threads \cap {} : pc'[u] = "returned" => RightAnswer(req[u], answer[u])'
    OBVIOUS
  <2>5. QED
    BY <2>2, <2>3, <2>4, AnswersStep
<1>8. ASSUME \/ \E d \in DataDirs, f \in Files, c \in Writes : ChangeFile(d, f, c)
             \/ \E d \in DataDirs, k \in {"missing", "dir", "link"} : ChangeDir(d, k)
             \/ \E e \in Envs : SetEnv(e)
             \/ UNCHANGED vars
      PROVE  AnswersFromOneEngine'
  <2>1. UNCHANGED <<pc, req, answer, panics, once, engine>>
    BY <1>8 DEF ChangeFile, ChangeDir, SetEnv, vars
  <2>2. QED
    BY <1>5, <2>1
<1>9. QED
  BY <1>1, <1>2, <1>3, <1>4, <1>6, <1>7, <1>8 DEF Next, Step

\* All calls see one and the same finished load, whatever the threads' timing: a
\* command is answered by the first file that declares it, and "engine unavailable"
\* is said only when the load failed or a panic was caught (ffi/lib.rs:45-118).
THEOREM EngineAnswersAgree == Spec => []AnswersFromOneEngine
<1>1. Init => AnswersFromOneEngine
  BY DEF Init, AnswersFromOneEngine
<1>2. QED
  BY <1>1, TypeInvariant, SoundInvariant, NextAnswers, PTL DEF Spec

=============================================================================

------------------------ MODULE SandboxedRunnerProofs ------------------------
(***************************************************************************)
(* Proofs about SandboxedRunner, for every number of threads, every set of  *)
(* requests and every value of the bounds.                                  *)
(*                                                                         *)
(* TypeOK is inductive by itself.  HitJustified follows from CacheInv: the  *)
(* argument is that the ttl of a stored entry is counted from an instant    *)
(* (now) that precedes the spawn of the process that produced it (born).    *)
(* WholeOutput, NothingLeftBehind and TimeoutKillsGroup follow from ProcInv.*)
(***************************************************************************)
EXTENDS SandboxedRunner, TLAPS

\* What execute refuses (runner.rs:150-155) is one of two errors.
LEMMA RefusalType ==
    ASSUME NEW r PROVE Refusal(r) \in {"none", "EmptyRun", "NotAllowListed"}
BY DEF Refusal

\* Every request has a cache key.
LEMMA KeyType ==
    ASSUME NEW r \in Requests PROVE CacheKey(r) \in CacheKeys
BY DEF CacheKeys

\* TtlCache::put keeps the entries well typed.
LEMMA CachePutType ==
    ASSUME TypeOK, NEW r \in Requests, NEW v \in Values, NEW n \in Nat,
           CachePut(CacheKey(r), v, Ttl[r], n)
    PROVE  /\ DOMAIN cache' \subseteq CacheKeys
           /\ \A k \in DOMAIN cache' : cache'[k] \in CacheEntry
<1> DEFINE e == [values |-> v, expires_at |-> n + Ttl[r]]
<1>1. Ttl[r] \in Nat
  BY RunnerAssumption
<1>2. e \in CacheEntry
  BY <1>1 DEF CacheEntry
<1>3. CASE Ttl[r] = 0
  BY <1>3 DEF CachePut, TypeOK
<1>4. CASE Ttl[r] # 0
  <2>1. cache' = [x \in DOMAIN cache \cup {CacheKey(r)} |->
                    IF x = CacheKey(r) THEN e ELSE cache[x]]
    BY <1>4 DEF CachePut
  <2> HIDE DEF e
  <2>2. QED
    BY <2>1, <1>2, KeyType DEF TypeOK
<1>5. QED
  BY <1>3, <1>4

\* The initial state is well typed.
LEMMA InitType == Init => TypeOK
BY RunnerAssumption DEF Init, TypeOK, PCs, Outcomes

\* A call in progress has a request: what its steps may index Run and Ttl by.
HasRequest == \A t \in Threads : pc[t] # "idle" => req[t] \in Requests
HasValues == \A t \in Threads : pc[t] = "put" => vals[t] \in Values

\* The runner's types, with the two facts that make them inductive.
TypeInv == TypeOK /\ HasRequest /\ HasValues

LEMMA NextType == TypeInv /\ [Next]_vars => TypeInv'
<1> SUFFICES ASSUME TypeInv, [Next]_vars PROVE TypeInv'
  OBVIOUS
<1> USE RunnerAssumption DEF TypeInv, TypeOK, HasRequest, HasValues, PCs,
        Outcomes, Errors, callVars, procVars, Goto, Finish
<1>1. ASSUME NEW t \in Threads, NEW r \in Requests, Call(t, r) PROVE TypeInv'
  BY <1>1 DEF Call
<1>2. ASSUME NEW t \in Threads, LookupHit(t) PROVE TypeInv'
  <2>1. cache[CacheKey(req[t])].values \in Values
    BY <1>2 DEF LookupHit, Fresh, CacheEntry
  <2>2. QED
    BY <1>2, <2>1 DEF LookupHit
<1>3. ASSUME NEW t \in Threads, LookupMiss(t) PROVE TypeInv'
  BY <1>3 DEF LookupMiss
<1>4. ASSUME NEW t \in Threads, Refuse(t) PROVE TypeInv'
  BY <1>4, RefusalType DEF Refuse
<1>5. ASSUME NEW t \in Threads, SpawnFail(t) PROVE TypeInv'
  BY <1>5 DEF SpawnFail
<1>6. ASSUME NEW t \in Threads, NEW h \in Holders, Spawn(t, h) PROVE TypeInv'
  BY <1>6 DEF Spawn
<1>7. ASSUME NEW t \in Threads, PollExited(t) PROVE TypeInv'
  BY <1>7 DEF PollExited
<1>8. ASSUME NEW t \in Threads, PollRunning(t) PROVE TypeInv'
  BY <1>8 DEF PollRunning
<1>9. ASSUME NEW t \in Threads, PollError(t) PROVE TypeInv'
  BY <1>9 DEF PollError
<1>10. ASSUME NEW t \in Threads, CheckDeadline(t) PROVE TypeInv'
  <2>1. pc[t] = "check" /\ UNCHANGED <<clock, cache, req, now, deadline, vals, procVars>>
    BY <1>10 DEF CheckDeadline
  <2>2. pc' = [pc EXCEPT ![t] = "kill"] \/ pc' = [pc EXCEPT ![t] = "poll"]
    BY <1>10 DEF CheckDeadline
  <2>3. outcome' = outcome \/ outcome' = [outcome EXCEPT ![t] = "Timeout"]
    BY <1>10 DEF CheckDeadline
  <2>4. pc' \in [Threads -> PCs] /\ outcome' \in [Threads -> Outcomes]
    <3>1. pc' \in [Threads -> PCs]
      BY <2>2
    <3>2. outcome' \in [Threads -> Outcomes]
      BY <2>3
    <3>3. QED
      BY <3>1, <3>2
  <2>5. ASSUME NEW u \in Threads
        PROVE  /\ pc'[u] # "idle" => pc[u] # "idle"
               /\ pc'[u] = "put" => pc[u] = "put"
    <3>1. pc \in [Threads -> PCs]
      OBVIOUS
    <3>2. u = t \/ pc'[u] = pc[u]
      BY <2>2, <3>1
    <3>3. pc'[t] = "kill" \/ pc'[t] = "poll"
      BY <2>2, <3>1
    <3>4. QED
      BY <2>1, <3>2, <3>3
  <2>6. QED
    BY <2>1, <2>4, <2>5
<1>11. ASSUME NEW t \in Threads, KillAndWait(t) PROVE TypeInv'
  <2>1. PICK h \in GroupKilled(holder[t]) : holder' = [holder EXCEPT ![t] = h]
    BY <1>11 DEF KillAndWait
  <2>2. h \in {"none", "group", "escaped", "spared"}
    BY <2>1 DEF GroupKilled
  <2>3. QED
    BY <1>11, <2>1, <2>2 DEF KillAndWait
<1>12. ASSUME NEW t \in Threads, JoinErr(t) PROVE TypeInv'
  BY <1>12 DEF JoinErr
<1>13. ASSUME NEW t \in Threads, Collect(t) PROVE TypeInv'
  <2>1. [from |-> req[t], born |-> born[t], bytes |-> captured[t],
         failed |-> failed[t]] \in Values
    BY <1>13 DEF Collect, Values
  <2>2. QED
    BY <1>13, <2>1 DEF Collect
<1>14. ASSUME NEW t \in Threads, Put(t) PROVE TypeInv'
  <2>1. /\ req[t] \in Requests /\ vals[t] \in Values /\ now[t] \in Nat
        /\ CachePut(CacheKey(req[t]), vals[t], Ttl[req[t]], now[t])
    BY <1>14 DEF Put
  <2>2. /\ DOMAIN cache' \subseteq CacheKeys
        /\ \A k \in DOMAIN cache' : cache'[k] \in CacheEntry
    BY <2>1, CachePutType
  <2>3. QED
    BY <1>14, <2>2 DEF Put
<1>15. ASSUME NEW t \in Threads, Return(t) PROVE TypeInv'
  BY <1>15 DEF Return
<1>16. ASSUME NEW t \in Threads, ReaderStep(t) PROVE TypeInv'
  <2>1. CASE ReaderRead(t)
    <3>1. pipe[t] - 1 \in 0 .. PipeCap /\ captured[t] + 1 \in 0 .. Cap
      BY <2>1 DEF ReaderRead
    <3>2. QED
      BY <2>1, <3>1 DEF ReaderRead
  <2>2. CASE ReaderEnd(t)
    BY <2>2 DEF ReaderEnd
  <2>3. QED
    BY <1>16, <2>1, <2>2 DEF ReaderStep
<1>17. ASSUME NEW t \in Threads, ChildStep(t) PROVE TypeInv'
  <2>1. CASE ChildWrite(t)
    <3>1. CASE reader[t] = "reading"
      <4>1. /\ pipe' = [pipe EXCEPT ![t] = @ + 1]
            /\ pipe[t] + 1 \in 0 .. PipeCap
            /\ UNCHANGED <<clock, cache, pc, callVars, child, failed, born,
                           holder, reader, captured>>
        BY <2>1, <3>1 DEF ChildWrite
      <4>2. QED
        BY <4>1
    <3>2. CASE reader[t] # "reading"
      BY <2>1, <3>2 DEF ChildWrite
    <3>3. QED
      BY <3>1, <3>2
  <2>2. ASSUME NEW abnormal \in BOOLEAN, ChildExit(t, abnormal) PROVE TypeInv'
    BY <2>2 DEF ChildExit
  <2>3. CASE HolderExit(t)
    BY <2>3 DEF HolderExit
  <2>4. QED
    BY <1>17, <2>1, <2>2, <2>3 DEF ChildStep
<1>18. CASE Tick
  BY <1>18 DEF Tick
<1>19. CASE UNCHANGED vars
  BY <1>19 DEF vars
<1>20. CASE Horizon
  BY <1>19, <1>20 DEF Horizon
<1>21. QED
  BY <1>1, <1>2, <1>3, <1>4, <1>5, <1>6, <1>7, <1>8, <1>9, <1>10, <1>11,
     <1>12, <1>13, <1>14, <1>15, <1>16, <1>17, <1>18, <1>19, <1>20
     DEF Next, RunStep

\* The runner keeps its state well typed, for every set of threads and
\* requests (runner.rs:76-82, 149-220, 340-360; cache.rs:20-41).
THEOREM TypeCorrect == Spec => []TypeOK
<1>1. Init => TypeInv
  BY InitType DEF TypeInv, HasRequest, HasValues, Init
<1>2. TypeInv => TypeOK
  BY DEF TypeInv
<1>3. QED
  BY <1>1, <1>2, NextType, PTL DEF Spec

-----------------------------------------------------------------------------
(* A hit is justified *)

\* The cache after a put holds the old entries and possibly the new one.
LEMMA CachePutSound ==
    ASSUME CacheSound, NEW r \in Requests, NEW v \in Values, NEW n \in Nat,
           v.from = r, Refusal(r) = "none", n <= v.born,
           CachePut(CacheKey(r), v, Ttl[r], n)
    PROVE  CacheSound'
<1> DEFINE e == [values |-> v, expires_at |-> n + Ttl[r]]
<1>1. Ttl[r] \in Nat /\ v.born \in Nat
  BY RunnerAssumption DEF Values
<1>2. CASE Ttl[r] = 0
  BY <1>2 DEF CachePut, CacheSound
<1>3. CASE Ttl[r] # 0
  <2>1. cache' = [x \in DOMAIN cache \cup {CacheKey(r)} |->
                    IF x = CacheKey(r) THEN e ELSE cache[x]]
    BY <1>3 DEF CachePut
  <2>2. /\ e.values = v
        /\ e.expires_at <= v.born + Ttl[r]
    BY <1>1
  <2> HIDE DEF e
  <2>3. SUFFICES ASSUME NEW k \in DOMAIN cache'
                 PROVE  LET w == cache'[k].values IN
                        /\ CacheKey(w.from) = k
                        /\ Refusal(w.from) = "none"
                        /\ cache'[k].expires_at <= w.born + Ttl[w.from]
    BY DEF CacheSound
  <2>4. CASE k = CacheKey(r)
    BY <2>1, <2>2, <2>4
  <2>5. CASE k # CacheKey(r)
    <3>1. k \in DOMAIN cache /\ cache'[k] = cache[k]
      BY <2>1, <2>5
    <3>2. QED
      BY <3>1 DEF CacheSound
  <2>6. QED
    BY <2>4, <2>5
<1>4. QED
  BY <1>2, <1>3

\* A fresh entry answers a call that began before it expires.
LEMMA FreshJustified ==
    ASSUME TypeOK, CacheSound, NEW k, NEW n \in Nat, Fresh(k, n)
    PROVE  Justified(cache[k].values, k, n)
<1>1. /\ k \in DOMAIN cache /\ cache[k] \in CacheEntry
      /\ cache[k].expires_at > n
  BY DEF Fresh, TypeOK
<1>2. /\ cache[k].values \in Values
      /\ cache[k].values.born \in Nat
      /\ cache[k].values.from \in Requests
      /\ cache[k].expires_at \in Nat
  BY <1>1 DEF CacheEntry, Values
<1>3. Ttl[cache[k].values.from] \in Nat
  BY <1>2, RunnerAssumption
<1>4. QED
  BY <1>1, <1>2, <1>3 DEF CacheSound, Justified

\* A step that leaves thread u's call alone keeps it sound; time may pass.
LEMMA CallFrame ==
    ASSUME TypeOK, NEW u \in Threads, CallSound(u),
           clock' \in Nat, clock <= clock',
           pc'[u] = pc[u], req'[u] = req[u], now'[u] = now[u],
           born'[u] = born[u], outcome'[u] = outcome[u], vals'[u] = vals[u]
    PROVE  CallSound(u)'
<1>1. now[u] \in Nat /\ clock \in Nat
  BY DEF TypeOK
<1>2. QED
  BY <1>1 DEF CallSound, Justified, CacheKey, Refusal

\* The initial state has an empty cache and no call.
LEMMA InitCacheInv == Init => CacheInv
BY DEF Init, CacheInv, CacheSound, CallSound, Executing

\* No step serves, stores or keeps anything that could outlive its ttl.
LEMMA NextCacheInv == TypeInv /\ CacheInv /\ [Next]_vars => CacheInv'
<1> SUFFICES ASSUME TypeInv, CacheInv, [Next]_vars PROVE CacheInv'
  OBVIOUS
<1>0. TypeOK /\ TypeOK' /\ CacheSound /\ clock \in Nat
  BY NextType DEF TypeInv, CacheInv, TypeOK
<1>a. UNCHANGED cache => CacheSound'
  BY <1>0 DEF CacheSound
<1> USE DEF callVars, procVars, Goto, Finish
\* It is enough to look at the thread that moves.
<1>b. ASSUME NEW t \in Threads, CallSound(t)', CacheSound', UNCHANGED clock,
             \A u \in Threads \ {t} :
               /\ pc'[u] = pc[u] /\ req'[u] = req[u] /\ now'[u] = now[u]
               /\ born'[u] = born[u] /\ outcome'[u] = outcome[u]
               /\ vals'[u] = vals[u]
      PROVE  CacheInv'
  <2>1. ASSUME NEW u \in Threads \ {t} PROVE CallSound(u)'
    <3>1. /\ CallSound(u) /\ clock' \in Nat /\ clock <= clock'
          /\ pc'[u] = pc[u] /\ req'[u] = req[u] /\ now'[u] = now[u]
          /\ born'[u] = born[u] /\ outcome'[u] = outcome[u]
          /\ vals'[u] = vals[u]
      BY <1>0, <1>b DEF CacheInv
    <3>2. QED
      BY <1>0, <3>1, CallFrame
  <2>2. QED
    BY <1>b, <2>1 DEF CacheInv
<1>1. ASSUME NEW t \in Threads, NEW r \in Requests, Call(t, r) PROVE CacheInv'
  <2>1. CallSound(t)'
    BY <1>0, <1>1 DEF Call, CallSound, TypeOK, Executing
  <2>2. QED
    BY <1>0, <1>1, <1>a, <1>b, <2>1 DEF Call, TypeOK
<1>2. ASSUME NEW t \in Threads, LookupHit(t) PROVE CacheInv'
  <2>1. /\ now[t] \in Nat
        /\ Fresh(CacheKey(req[t]), now[t])
        /\ vals'[t] = cache[CacheKey(req[t])].values
        /\ req'[t] = req[t] /\ now'[t] = now[t] /\ pc'[t] = "ret"
        /\ pc[t] = "lookup" /\ UNCHANGED clock
    BY <1>0, <1>2 DEF LookupHit, TypeOK
  <2>2. Justified(vals'[t], CacheKey(req'[t]), now'[t])
    BY <1>0, <2>1, FreshJustified
  <2>3. CallSound(t)'
    BY <1>0, <2>1, <2>2 DEF CallSound, CacheInv, Executing, Justified, CacheKey
  <2>4. QED
    BY <1>0, <1>2, <1>a, <1>b, <2>3 DEF LookupHit, TypeOK
<1>3. ASSUME NEW t \in Threads, LookupMiss(t) PROVE CacheInv'
  <2>1. CallSound(t)'
    BY <1>0, <1>3 DEF LookupMiss, CallSound, CacheInv, TypeOK, Executing
  <2>2. QED
    BY <1>0, <1>3, <1>a, <1>b, <2>1 DEF LookupMiss, TypeOK
<1>4. ASSUME NEW t \in Threads, Refuse(t) PROVE CacheInv'
  <2>1. CallSound(t)'
    BY <1>0, <1>4, RefusalType DEF Refuse, CallSound, CacheInv, TypeOK, Executing
  <2>2. QED
    BY <1>0, <1>4, <1>a, <1>b, <2>1 DEF Refuse, TypeOK
<1>5. ASSUME NEW t \in Threads, SpawnFail(t) PROVE CacheInv'
  <2>1. CallSound(t)'
    BY <1>0, <1>5 DEF SpawnFail, CallSound, CacheInv, TypeOK, Executing
  <2>2. QED
    BY <1>0, <1>5, <1>a, <1>b, <2>1 DEF SpawnFail, TypeOK
<1>6. ASSUME NEW t \in Threads, NEW h \in Holders, Spawn(t, h) PROVE CacheInv'
  <2>1. CallSound(t)'
    <3>1. /\ pc[t] = "execute" /\ pc'[t] = "poll" /\ born'[t] = clock
          /\ now'[t] = now[t] /\ req'[t] = req[t] /\ UNCHANGED clock
          /\ Refusal(req[t]) = "none"
      BY <1>0, <1>6 DEF Spawn, TypeOK
    <3>2. now[t] <= clock /\ req[t] \in Requests
      BY <3>1 DEF CacheInv, CallSound
    <3>3. QED
      BY <3>1, <3>2 DEF CallSound, Executing, Refusal
  <2>2. QED
    BY <1>0, <1>6, <1>a, <1>b, <2>1 DEF Spawn, TypeOK
<1>7. ASSUME NEW t \in Threads, PollExited(t) PROVE CacheInv'
  <2>1. CallSound(t)'
    BY <1>0, <1>7 DEF PollExited, CallSound, CacheInv, TypeOK, Executing, Refusal
  <2>2. QED
    BY <1>0, <1>7, <1>a, <1>b, <2>1 DEF PollExited, TypeOK
<1>8. ASSUME NEW t \in Threads, PollRunning(t) PROVE CacheInv'
  <2>1. CallSound(t)'
    BY <1>0, <1>8 DEF PollRunning, CallSound, CacheInv, TypeOK, Executing, Refusal
  <2>2. QED
    BY <1>0, <1>8, <1>a, <1>b, <2>1 DEF PollRunning, TypeOK
<1>9. ASSUME NEW t \in Threads, PollError(t) PROVE CacheInv'
  <2>1. CallSound(t)'
    BY <1>0, <1>9 DEF PollError, CallSound, CacheInv, TypeOK, Executing, Refusal
  <2>2. QED
    BY <1>0, <1>9, <1>a, <1>b, <2>1 DEF PollError, TypeOK
<1>10. ASSUME NEW t \in Threads, CheckDeadline(t) PROVE CacheInv'
  <2>1. CallSound(t)'
    BY <1>0, <1>10 DEF CheckDeadline, CallSound, CacheInv, TypeOK, Executing,
                       Refusal
  <2>2. QED
    BY <1>0, <1>10, <1>a, <1>b, <2>1 DEF CheckDeadline, TypeOK
<1>11. ASSUME NEW t \in Threads, KillAndWait(t) PROVE CacheInv'
  <2>1. CallSound(t)'
    BY <1>0, <1>11 DEF KillAndWait, CallSound, CacheInv, TypeOK, Executing,
                       Refusal
  <2>2. QED
    BY <1>0, <1>11, <1>a, <1>b, <2>1 DEF KillAndWait, TypeOK
<1>12. ASSUME NEW t \in Threads, JoinErr(t) PROVE CacheInv'
  <2>1. CallSound(t)'
    BY <1>0, <1>12 DEF JoinErr, CallSound, CacheInv, TypeOK, Executing
  <2>2. QED
    BY <1>0, <1>12, <1>a, <1>b, <2>1 DEF JoinErr, TypeOK
<1>13. ASSUME NEW t \in Threads, Collect(t) PROVE CacheInv'
  <2> DEFINE v == [from |-> req[t], born |-> born[t], bytes |-> captured[t],
                   failed |-> failed[t]]
  <2>1. /\ pc[t] = "join" /\ pc'[t] = "put" /\ vals'[t] = v
        /\ born'[t] = born[t] /\ req'[t] = req[t] /\ now'[t] = now[t]
        /\ UNCHANGED clock
    BY <1>0, <1>13 DEF Collect, TypeOK
  <2>2. /\ req[t] \in Requests /\ now[t] <= clock
        /\ Refusal(req[t]) = "none" /\ now[t] <= born[t]
    BY <2>1 DEF CacheInv, CallSound, Executing
  <2>3. v \in Values /\ v.from = req[t] /\ v.born = born[t]
    BY <1>0, <2>2 DEF Values, TypeOK
  <2> HIDE DEF v
  <2>4. CallSound(t)'
    BY <2>1, <2>2, <2>3 DEF CallSound, Executing, Refusal
  <2>5. QED
    BY <1>0, <1>13, <1>a, <1>b, <2>4 DEF Collect, TypeOK
<1>14. ASSUME NEW t \in Threads, Put(t) PROVE CacheInv'
  <2>1. /\ pc[t] = "put" /\ now[t] \in Nat
        /\ CachePut(CacheKey(req[t]), vals[t], Ttl[req[t]], now[t])
    BY <1>0, <1>14 DEF Put, TypeOK
  <2>2. /\ req[t] \in Requests /\ vals[t] \in Values /\ vals[t].from = req[t]
        /\ Refusal(req[t]) = "none" /\ now[t] <= vals[t].born
    BY <2>1 DEF CacheInv, CallSound, Executing
  <2>3. CacheSound'
    BY <1>0, <2>1, <2>2, CachePutSound
  <2>4. CallSound(t)'
    BY <1>0, <1>14 DEF Put, CallSound, CacheInv, TypeOK, Executing
  <2>5. QED
    BY <1>0, <1>14, <1>b, <2>3, <2>4 DEF Put, TypeOK
<1>15. ASSUME NEW t \in Threads, Return(t) PROVE CacheInv'
  <2>1. CallSound(t)'
    BY <1>0, <1>15 DEF Return, CallSound, TypeOK, Executing
  <2>2. QED
    BY <1>0, <1>15, <1>a, <1>b, <2>1 DEF Return, TypeOK
\* The other steps leave every call and the cache alone.
<1>16. ASSUME UNCHANGED <<cache, pc, req, now, born, outcome, vals>>,
              clock' \in Nat, clock <= clock'
       PROVE  CacheInv'
  <2>1. ASSUME NEW u \in Threads PROVE CallSound(u)'
    <3>1. CallSound(u)
      BY DEF CacheInv
    <3>2. QED
      BY <1>0, <1>16, <3>1, CallFrame
  <2>2. QED
    BY <1>a, <1>16, <2>1 DEF CacheInv
<1>17. ASSUME NEW t \in Threads, ReaderStep(t) PROVE CacheInv'
  BY <1>0, <1>16, <1>17 DEF ReaderStep, ReaderRead, ReaderEnd
<1>18. ASSUME NEW t \in Threads, ChildStep(t) PROVE CacheInv'
  BY <1>0, <1>16, <1>18 DEF ChildStep, ChildWrite, ChildExit, HolderExit
<1>19. CASE Tick
  BY <1>0, <1>16, <1>19 DEF Tick
<1>20. CASE UNCHANGED vars
  BY <1>0, <1>16, <1>20 DEF vars
<1>21. CASE Horizon
  BY <1>20, <1>21 DEF Horizon
<1>22. QED
  BY <1>1, <1>2, <1>3, <1>4, <1>5, <1>6, <1>7, <1>8, <1>9, <1>10, <1>11,
     <1>12, <1>13, <1>14, <1>15, <1>17, <1>18, <1>19, <1>20, <1>21
     DEF Next, RunStep

\* The cache and the calls that use it are sound in every state (runner.rs:341-359,
\* cache.rs:54-88).
THEOREM CacheIsSound == Spec => []CacheInv
<1>1. Init => TypeInv /\ CacheInv
  BY InitType, InitCacheInv DEF TypeInv, HasRequest, HasValues, Init
<1>2. TypeInv /\ CacheInv /\ [Next]_vars => TypeInv' /\ CacheInv'
  BY NextType, NextCacheInv
<1>3. QED
  BY <1>1, <1>2, PTL DEF Spec

\* A hit's values were produced by the same argv in the same cwd, by an allowed
\* program, less than their ttl before the call began (runner.rs:341-359).
THEOREM HitsAreJustified == Spec => []HitJustified
<1>1. CacheInv => HitJustified
  <2> SUFFICES ASSUME CacheInv, NEW t \in Threads,
                      pc[t] = "ret", outcome[t] = "hit"
               PROVE  /\ CacheKey(vals[t].from) = CacheKey(req[t])
                      /\ Refusal(req[t]) = "none"
                      /\ now[t] < vals[t].born + Ttl[vals[t].from]
    BY DEF HitJustified
  <2>1. Justified(vals[t], CacheKey(req[t]), now[t])
    BY DEF CacheInv, CallSound
  <2>2. Run[vals[t].from] = Run[req[t]]
    BY <2>1 DEF Justified, CacheKey
  <2>3. QED
    BY <2>1, <2>2 DEF Justified, Refusal
<1>2. QED
  BY <1>1, CacheIsSound, PTL

-----------------------------------------------------------------------------
(* The child, the pipe and the reader *)

\* A step that leaves thread u's execution alone keeps it sound.
LEMMA ProcFrame ==
    ASSUME NEW u \in Threads, ProcSound(u),
           pc'[u] = pc[u], outcome'[u] = outcome[u], vals'[u] = vals[u],
           child'[u] = child[u], holder'[u] = holder[u], pipe'[u] = pipe[u],
           reader'[u] = reader[u], captured'[u] = captured[u]
    PROVE  ProcSound(u)'
BY DEF ProcSound, Executing

\* Before any call there is no child and no reader.
LEMMA InitProcInv == Init => ProcInv
BY RunnerAssumption DEF Init, ProcInv, ProcSound, Executing

\* No step returns before the child is waited for and its output collected.
LEMMA NextProcInv == TypeInv /\ ProcInv /\ [Next]_vars => ProcInv'
<1> SUFFICES ASSUME TypeInv, ProcInv, [Next]_vars PROVE ProcInv'
  OBVIOUS
<1>0. TypeOK
  BY DEF TypeInv
<1> USE RunnerAssumption DEF callVars, procVars, Goto, Finish
\* It is enough to look at the thread that moves, or whose child does.
<1>a. ASSUME NEW t \in Threads, ProcSound(t)',
             \A u \in Threads \ {t} :
               /\ pc'[u] = pc[u] /\ outcome'[u] = outcome[u]
               /\ vals'[u] = vals[u] /\ child'[u] = child[u]
               /\ holder'[u] = holder[u] /\ pipe'[u] = pipe[u]
               /\ reader'[u] = reader[u] /\ captured'[u] = captured[u]
      PROVE  ProcInv'
  <2>1. ASSUME NEW u \in Threads \ {t} PROVE ProcSound(u)'
    <3>1. ProcSound(u)
      BY DEF ProcInv
    <3>2. QED
      BY <1>a, <3>1, ProcFrame
  <2>2. QED
    BY <1>a, <2>1 DEF ProcInv
<1>b. \A t \in Threads : ProcSound(t)
  BY DEF ProcInv
<1>1. ASSUME NEW t \in Threads, NEW r \in Requests, Call(t, r) PROVE ProcInv'
  <2>1. ProcSound(t)'
    BY <1>0, <1>1, <1>b DEF Call, ProcSound, TypeOK, Executing
  <2>2. QED
    BY <1>0, <1>1, <1>a, <2>1 DEF Call, TypeOK
<1>2. ASSUME NEW t \in Threads, NEW h \in Holders, Spawn(t, h) PROVE ProcInv'
  <2>1. ProcSound(t)'
    BY <1>0, <1>2, <1>b DEF Spawn, ProcSound, TypeOK, Executing
  <2>2. QED
    BY <1>0, <1>2, <1>a, <2>1 DEF Spawn, TypeOK
<1>3. ASSUME NEW t \in Threads, LookupHit(t) PROVE ProcInv'
  <2>1. ProcSound(t)'
    BY <1>0, <1>3, <1>b DEF LookupHit, ProcSound, TypeOK, Executing
  <2>2. QED
    BY <1>0, <1>3, <1>a, <2>1 DEF LookupHit, TypeOK
<1>4. ASSUME NEW t \in Threads, LookupMiss(t) PROVE ProcInv'
  <2>1. ProcSound(t)'
    BY <1>0, <1>4, <1>b DEF LookupMiss, ProcSound, TypeOK, Executing
  <2>2. QED
    BY <1>0, <1>4, <1>a, <2>1 DEF LookupMiss, TypeOK
<1>5. ASSUME NEW t \in Threads, Refuse(t) PROVE ProcInv'
  <2>1. ProcSound(t)'
    BY <1>0, <1>5, <1>b, RefusalType DEF Refuse, ProcSound, TypeOK, Executing
  <2>2. QED
    BY <1>0, <1>5, <1>a, <2>1 DEF Refuse, TypeOK
<1>6. ASSUME NEW t \in Threads, SpawnFail(t) PROVE ProcInv'
  <2>1. ProcSound(t)'
    BY <1>0, <1>6, <1>b DEF SpawnFail, ProcSound, TypeOK, Executing
  <2>2. QED
    BY <1>0, <1>6, <1>a, <2>1 DEF SpawnFail, TypeOK
<1>7. ASSUME NEW t \in Threads, PollExited(t) PROVE ProcInv'
  <2>1. ProcSound(t)'
    BY <1>0, <1>7, <1>b DEF PollExited, ProcSound, TypeOK, Executing
  <2>2. QED
    BY <1>0, <1>7, <1>a, <2>1 DEF PollExited, TypeOK
<1>8. ASSUME NEW t \in Threads, PollRunning(t) PROVE ProcInv'
  <2>1. ProcSound(t)'
    BY <1>0, <1>8, <1>b DEF PollRunning, ProcSound, TypeOK, Executing
  <2>2. QED
    BY <1>0, <1>8, <1>a, <2>1 DEF PollRunning, TypeOK
<1>9. ASSUME NEW t \in Threads, PollError(t) PROVE ProcInv'
  <2>1. ProcSound(t)'
    BY <1>0, <1>9, <1>b DEF PollError, ProcSound, TypeOK, Executing
  <2>2. QED
    BY <1>0, <1>9, <1>a, <2>1 DEF PollError, TypeOK
<1>10. ASSUME NEW t \in Threads, CheckDeadline(t) PROVE ProcInv'
  <2>1. ProcSound(t)'
    BY <1>0, <1>10, <1>b DEF CheckDeadline, ProcSound, TypeOK, Executing
  <2>2. QED
    BY <1>0, <1>10, <1>a, <2>1 DEF CheckDeadline, TypeOK
<1>11. ASSUME NEW t \in Threads, KillAndWait(t) PROVE ProcInv'
  <2>1. holder'[t] # "group"
    BY <1>0, <1>11 DEF KillAndWait, GroupKilled, TypeOK
  <2>2. ProcSound(t)'
    BY <1>0, <1>11, <1>b, <2>1 DEF KillAndWait, ProcSound, TypeOK, Executing
  <2>3. QED
    BY <1>0, <1>11, <1>a, <2>2 DEF KillAndWait, TypeOK
<1>12. ASSUME NEW t \in Threads, JoinErr(t) PROVE ProcInv'
  <2>1. ProcSound(t)'
    BY <1>0, <1>12, <1>b DEF JoinErr, ProcSound, TypeOK, Executing
  <2>2. QED
    BY <1>0, <1>12, <1>a, <2>1 DEF JoinErr, TypeOK
<1>13. ASSUME NEW t \in Threads, Collect(t) PROVE ProcInv'
  <2>1. ProcSound(t)'
    BY <1>0, <1>13, <1>b DEF Collect, ProcSound, TypeOK, Executing
  <2>2. QED
    BY <1>0, <1>13, <1>a, <2>1 DEF Collect, TypeOK
<1>14. ASSUME NEW t \in Threads, Put(t) PROVE ProcInv'
  <2>1. ProcSound(t)'
    BY <1>0, <1>14, <1>b DEF Put, ProcSound, TypeOK, Executing
  <2>2. QED
    BY <1>0, <1>14, <1>a, <2>1 DEF Put, TypeOK
<1>15. ASSUME NEW t \in Threads, Return(t) PROVE ProcInv'
  <2>1. ProcSound(t)'
    <3>1. /\ pc[t] = "ret" /\ pc'[t] = "idle" /\ outcome'[t] = "none"
          /\ pipe'[t] = 0 /\ captured'[t] = 0 /\ 0 <= Cap
          /\ child'[t] = child[t] /\ reader'[t] = reader[t]
      BY <1>0, <1>15 DEF Return, TypeOK
    <3>2. child[t] \in {"none", "reaped"} /\ reader[t] # "reading"
      BY <3>1, <1>b DEF ProcSound, Executing
    <3>3. QED
      BY <3>1, <3>2 DEF ProcSound, Executing
  <2>2. QED
    BY <1>0, <1>15, <1>a, <2>1 DEF Return, TypeOK
<1>16. ASSUME NEW t \in Threads, ReaderRead(t) PROVE ProcInv'
  <2>1. ProcSound(t)'
    BY <1>0, <1>16, <1>b DEF ReaderRead, ProcSound, TypeOK, Executing
  <2>2. QED
    BY <1>0, <1>16, <1>a, <2>1 DEF ReaderRead, TypeOK
<1>17. ASSUME NEW t \in Threads, ReaderEnd(t) PROVE ProcInv'
  <2>1. ProcSound(t)'
    BY <1>0, <1>17, <1>b DEF ReaderEnd, ProcSound, TypeOK, Executing
  <2>2. QED
    BY <1>0, <1>17, <1>a, <2>1 DEF ReaderEnd, TypeOK
<1>18. ASSUME NEW t \in Threads, ChildWrite(t) PROVE ProcInv'
  <2>1. ProcSound(t)'
    BY <1>0, <1>18, <1>b DEF ChildWrite, ProcSound, TypeOK, Executing
  <2>2. QED
    BY <1>0, <1>18, <1>a, <2>1 DEF ChildWrite, TypeOK
<1>19. ASSUME NEW t \in Threads, HolderExit(t) PROVE ProcInv'
  <2>1. ProcSound(t)'
    BY <1>0, <1>19, <1>b DEF HolderExit, ProcSound, TypeOK, Executing
  <2>2. QED
    BY <1>0, <1>19, <1>a, <2>1 DEF HolderExit, TypeOK
<1>20. ASSUME NEW t \in Threads, NEW abnormal \in BOOLEAN, ChildExit(t, abnormal)
       PROVE  ProcInv'
  <2>1. ProcSound(t)'
    BY <1>0, <1>20, <1>b DEF ChildExit, ProcSound, TypeOK, Executing
  <2>2. QED
    BY <1>0, <1>20, <1>a, <2>1 DEF ChildExit, TypeOK
<1>21. ASSUME UNCHANGED <<pc, callVars, procVars>> PROVE ProcInv'
  BY <1>21, <1>b DEF ProcInv, ProcSound, Executing
<1>22. CASE Tick
  BY <1>21, <1>22 DEF Tick
<1>23. CASE UNCHANGED vars
  BY <1>21, <1>23 DEF vars
<1>24. CASE Horizon
  BY <1>23, <1>24 DEF Horizon
<1>25. QED
  BY <1>1, <1>2, <1>3, <1>4, <1>5, <1>6, <1>7, <1>8, <1>9, <1>10, <1>11, <1>12, <1>13, <1>14, <1>15, <1>16, <1>17, <1>18, <1>19, <1>20, <1>22, <1>23, <1>24
     DEF Next, RunStep, ReaderStep, ChildStep

\* ProcInv holds in every state, with the types it is stated over.
THEOREM ExecutionsAreSound == Spec => []ProcInv
<1>1. Init => TypeInv /\ ProcInv
  BY InitType, InitProcInv DEF TypeInv, HasRequest, HasValues, Init
<1>2. TypeInv /\ ProcInv /\ [Next]_vars => TypeInv' /\ ProcInv'
  BY NextType, NextProcInv
<1>3. QED
  BY <1>1, <1>2, PTL DEF Spec

\* A completed run returns all its child wrote up to the cap (runner.rs:181-219).
THEOREM OutputIsWhole == Spec => []WholeOutput
<1>1. TypeOK /\ ProcInv => WholeOutput
  BY RunnerAssumption DEF ProcInv, ProcSound, WholeOutput, Min2, TypeOK
<1>2. QED
  BY <1>1, TypeCorrect, ExecutionsAreSound, PTL

\* Every call that returns has reaped its child and joined its reader thread
\* (runner.rs:193-215).
THEOREM NothingIsLeftBehind == Spec => []NothingLeftBehind
<1>1. ProcInv => NothingLeftBehind
  BY DEF ProcInv, ProcSound, NothingLeftBehind, Executing
<1>2. QED
  BY <1>1, ExecutionsAreSound, PTL

\* A timeout leaves nothing of the child's process group that the kill program did
\* not fail to kill (runner.rs:198, 315-332).
THEOREM TimeoutsKillTheGroup == Spec => []TimeoutKillsGroup
<1>1. ProcInv => TimeoutKillsGroup
  BY DEF ProcInv, ProcSound, TimeoutKillsGroup
<1>2. QED
  BY <1>1, ExecutionsAreSound, PTL
=============================================================================

------------------------- MODULE RunnerContractProofs -------------------------
(***************************************************************************)
(* SandboxedRunner implements GeneratorRunner, for every number of threads,  *)
(* every set of requests and every value of the bounds.                     *)
(*                                                                         *)
(* A call is answered in the step that makes its outcome visible: the hit,   *)
(* the refusal, the failed spawn, the store, or the join after a kill. The   *)
(* steps in between are invisible. What the answering steps need beyond      *)
(* TypeInv, CacheInv and ProcInv is WaitInv: the instants of a call are in   *)
(* order and a timeout has really passed.                                   *)
(***************************************************************************)
EXTENDS SandboxedRunnerProofs

\* A step that leaves thread u's call alone keeps its instants in order.
LEMMA WaitFrame ==
    ASSUME TypeOK, NEW u \in Threads, WaitSound(u),
           clock' \in Nat, clock <= clock',
           pc'[u] = pc[u], req'[u] = req[u], now'[u] = now[u],
           born'[u] = born[u], deadline'[u] = deadline[u],
           outcome'[u] = outcome[u], vals'[u] = vals[u]
    PROVE  WaitSound(u)'
<1>1. /\ now[u] \in Nat /\ clock \in Nat /\ born[u] \in Nat /\ Timeout \in Nat
      /\ deadline[u] \in Nat
  BY RunnerAssumption DEF TypeOK
<1>2. QED
  BY <1>1 DEF WaitSound

\* Before the first call nothing has been parsed.
LEMMA InitWaitInv == Init => WaitInv
BY DEF Init, WaitInv, WaitSound, Executing

\* The deadline is set Timeout after the call began or later, and an outcome is
\* a timeout only if it has passed.
LEMMA NextWaitInv == TypeInv /\ CacheInv /\ WaitInv /\ [Next]_vars => WaitInv'
<1> SUFFICES ASSUME TypeInv, CacheInv, WaitInv, [Next]_vars PROVE WaitInv'
  OBVIOUS
<1>0. /\ TypeOK /\ TypeOK' /\ clock \in Nat /\ Timeout \in Nat
      /\ \A t \in Threads : now[t] \in Nat /\ deadline[t] \in Nat /\ born[t] \in Nat
  BY NextType, RunnerAssumption DEF TypeInv, TypeOK
<1> USE DEF callVars, procVars, Goto, Finish
\* It is enough to look at the thread that moves.
<1>b. ASSUME NEW t \in Threads, WaitSound(t)', UNCHANGED clock,
             \A u \in Threads \ {t} :
               /\ pc'[u] = pc[u] /\ req'[u] = req[u] /\ now'[u] = now[u]
               /\ born'[u] = born[u] /\ deadline'[u] = deadline[u]
               /\ outcome'[u] = outcome[u] /\ vals'[u] = vals[u]
      PROVE  WaitInv'
  <2>1. ASSUME NEW u \in Threads \ {t} PROVE WaitSound(u)'
    <3>1. WaitSound(u) /\ clock' \in Nat /\ clock <= clock'
      BY <1>0, <1>b DEF WaitInv
    <3>2. QED
      BY <1>0, <1>b, <3>1, WaitFrame
  <2>2. QED
    BY <1>b, <2>1 DEF WaitInv
<1>1. ASSUME NEW t \in Threads, NEW r \in Requests, Call(t, r) PROVE WaitInv'
  <2>1. WaitSound(t)'
    BY <1>0, <1>1 DEF Call, WaitInv, WaitSound, TypeOK, Executing
  <2>2. QED
    BY <1>0, <1>1, <1>b, <2>1 DEF Call, TypeOK
<1>2. ASSUME NEW t \in Threads, LookupHit(t) PROVE WaitInv'
  <2>1. WaitSound(t)'
    BY <1>0, <1>2 DEF LookupHit, WaitSound, TypeOK, Executing
  <2>2. QED
    BY <1>0, <1>2, <1>b, <2>1 DEF LookupHit, TypeOK
<1>3. ASSUME NEW t \in Threads, LookupMiss(t) PROVE WaitInv'
  <2>1. WaitSound(t)'
    BY <1>0, <1>3 DEF LookupMiss, WaitInv, WaitSound, TypeOK, Executing
  <2>2. QED
    BY <1>0, <1>3, <1>b, <2>1 DEF LookupMiss, TypeOK
<1>4. ASSUME NEW t \in Threads, Refuse(t) PROVE WaitInv'
  <2>1. WaitSound(t)'
    BY <1>0, <1>4 DEF Refuse, WaitSound, TypeOK, Executing
  <2>2. QED
    BY <1>0, <1>4, <1>b, <2>1 DEF Refuse, TypeOK
<1>5. ASSUME NEW t \in Threads, SpawnFail(t) PROVE WaitInv'
  <2>1. WaitSound(t)'
    BY <1>0, <1>5 DEF SpawnFail, WaitSound, TypeOK, Executing
  <2>2. QED
    BY <1>0, <1>5, <1>b, <2>1 DEF SpawnFail, TypeOK
<1>6. ASSUME NEW t \in Threads, NEW h \in Holders, Spawn(t, h) PROVE WaitInv'
  <2>1. /\ pc[t] = "execute" /\ pc'[t] = "poll" /\ born'[t] = clock
        /\ deadline'[t] = clock + Timeout /\ vals'[t] = vals[t]
        /\ now'[t] = now[t] /\ UNCHANGED clock
    BY <1>0, <1>6 DEF Spawn, TypeOK
  <2>2. now[t] <= clock /\ vals[t] = None
    BY <2>1 DEF CacheInv, CallSound, WaitInv, WaitSound
  <2>3. WaitSound(t)'
    BY <1>0, <2>1, <2>2 DEF WaitSound, Executing
  <2>4. QED
    BY <1>0, <1>6, <1>b, <2>3 DEF Spawn, TypeOK
<1>7. ASSUME NEW t \in Threads, PollExited(t) PROVE WaitInv'
  <2>1. WaitSound(t)'
    BY <1>0, <1>7 DEF PollExited, WaitInv, WaitSound, TypeOK, Executing
  <2>2. QED
    BY <1>0, <1>7, <1>b, <2>1 DEF PollExited, TypeOK
<1>8. ASSUME NEW t \in Threads, PollRunning(t) PROVE WaitInv'
  <2>1. WaitSound(t)'
    BY <1>0, <1>8 DEF PollRunning, WaitInv, WaitSound, TypeOK, Executing
  <2>2. QED
    BY <1>0, <1>8, <1>b, <2>1 DEF PollRunning, TypeOK
<1>9. ASSUME NEW t \in Threads, PollError(t) PROVE WaitInv'
  <2>1. WaitSound(t)'
    BY <1>0, <1>9 DEF PollError, WaitInv, WaitSound, TypeOK, Executing
  <2>2. QED
    BY <1>0, <1>9, <1>b, <2>1 DEF PollError, TypeOK
<1>10. ASSUME NEW t \in Threads, CheckDeadline(t) PROVE WaitInv'
  <2>1. /\ pc[t] = "check" /\ vals[t] = None /\ born[t] <= clock
        /\ now[t] + Timeout <= deadline[t]
    BY <1>10 DEF CheckDeadline, WaitInv, WaitSound, Executing
  <2>2. CASE clock >= deadline[t]
    <3>1. /\ pc'[t] = "kill" /\ outcome'[t] = "Timeout" /\ now'[t] = now[t]
          /\ vals'[t] = vals[t] /\ born'[t] = born[t] /\ UNCHANGED clock
      BY <1>0, <1>10, <2>2 DEF CheckDeadline, TypeOK
    <3>2. now[t] + Timeout <= clock
      BY <1>0, <2>1, <2>2
    <3>3. WaitSound(t)'
      BY <2>1, <3>1, <3>2 DEF WaitSound, Executing
    <3>4. QED
      BY <1>0, <1>10, <1>b, <2>2, <3>3 DEF CheckDeadline, TypeOK
  <2>3. CASE ~(clock >= deadline[t])
    <3>1. WaitSound(t)'
      BY <1>0, <1>10, <2>1, <2>3 DEF CheckDeadline, WaitSound, TypeOK, Executing
    <3>2. QED
      BY <1>0, <1>10, <1>b, <2>3, <3>1 DEF CheckDeadline, TypeOK
  <2>4. QED
    BY <2>2, <2>3
<1>11. ASSUME NEW t \in Threads, KillAndWait(t) PROVE WaitInv'
  <2>1. WaitSound(t)'
    BY <1>0, <1>11 DEF KillAndWait, WaitInv, WaitSound, TypeOK, Executing
  <2>2. QED
    BY <1>0, <1>11, <1>b, <2>1 DEF KillAndWait, TypeOK
<1>12. ASSUME NEW t \in Threads, JoinErr(t) PROVE WaitInv'
  <2>1. WaitSound(t)'
    BY <1>0, <1>12 DEF JoinErr, WaitSound, TypeOK, Executing
  <2>2. QED
    BY <1>0, <1>12, <1>b, <2>1 DEF JoinErr, TypeOK
<1>13. ASSUME NEW t \in Threads, Collect(t) PROVE WaitInv'
  <2>1. WaitSound(t)'
    BY <1>0, <1>13 DEF Collect, WaitInv, WaitSound, TypeOK, Executing
  <2>2. QED
    BY <1>0, <1>13, <1>b, <2>1 DEF Collect, TypeOK
<1>14. ASSUME NEW t \in Threads, Put(t) PROVE WaitInv'
  <2>1. WaitSound(t)'
    BY <1>0, <1>14 DEF Put, WaitSound, TypeOK, Executing
  <2>2. QED
    BY <1>0, <1>14, <1>b, <2>1 DEF Put, TypeOK
<1>15. ASSUME NEW t \in Threads, Return(t) PROVE WaitInv'
  <2>1. WaitSound(t)'
    BY <1>0, <1>15 DEF Return, WaitSound, TypeOK, Executing
  <2>2. QED
    BY <1>0, <1>15, <1>b, <2>1 DEF Return, TypeOK
\* The other steps leave every call alone.
<1>16. ASSUME UNCHANGED <<pc, req, now, born, deadline, outcome, vals>>,
              clock' \in Nat, clock <= clock'
       PROVE  WaitInv'
  <2>1. ASSUME NEW u \in Threads PROVE WaitSound(u)'
    <3>1. WaitSound(u)
      BY DEF WaitInv
    <3>2. QED
      BY <1>0, <1>16, <3>1, WaitFrame
  <2>2. QED
    BY <2>1 DEF WaitInv
<1>17. ASSUME NEW t \in Threads, ReaderStep(t) PROVE WaitInv'
  BY <1>0, <1>16, <1>17 DEF ReaderStep, ReaderRead, ReaderEnd
<1>18. ASSUME NEW t \in Threads, ChildStep(t) PROVE WaitInv'
  BY <1>0, <1>16, <1>18 DEF ChildStep, ChildWrite, ChildExit, HolderExit
<1>19. CASE Tick
  BY <1>0, <1>16, <1>19 DEF Tick
<1>20. CASE UNCHANGED vars
  BY <1>0, <1>16, <1>20 DEF vars
<1>21. CASE Horizon
  BY <1>20, <1>21 DEF Horizon
<1>22. QED
  BY <1>1, <1>2, <1>3, <1>4, <1>5, <1>6, <1>7, <1>8, <1>9, <1>10, <1>11,
     <1>12, <1>13, <1>14, <1>15, <1>17, <1>18, <1>19, <1>20, <1>21
     DEF Next, RunStep

-----------------------------------------------------------------------------
(* How a step of the runner is seen by its callers *)

\* The step that brings thread t to "ret" answers its call with what is then in
\* outcome and vals.
LEMMA AnswerSeen ==
    ASSUME TypeOK, NEW t \in Threads, Goto(t, "ret"),
           UNCHANGED <<clock, req, now>>,
           \A u \in Threads \ {t} : outcome'[u] = outcome[u] /\ vals'[u] = vals[u]
    PROVE  Contract!Answer(t, outcome'[t], vals'[t])
<1>1. /\ pc'[t] = "ret"
      /\ \A u \in Threads \ {t} : pc'[u] = pc[u]
  BY DEF Goto, TypeOK
<1>2. Stage' = [Stage EXCEPT ![t] = "answered"]
  BY <1>1 DEF Stage
<1>3. Result' = [Result EXCEPT ![t] = outcome'[t]]
  BY <1>1 DEF Result
<1>4. Got' = [Got EXCEPT ![t] = vals'[t]]
  BY <1>1 DEF Got
<1>5. QED
  BY <1>2, <1>3, <1>4 DEF Contract!Answer

\* A step of thread t inside its execution is not seen.
LEMMA StepUnseen ==
    ASSUME TypeOK, NEW t \in Threads, pc[t] \notin {"idle", "ret"},
           NEW l, l \notin {"idle", "ret"}, Goto(t, l),
           UNCHANGED <<clock, cache, req, now>>,
           \A u \in Threads \ {t} : outcome'[u] = outcome[u] /\ vals'[u] = vals[u]
    PROVE  UNCHANGED Contract!vars
<1>1. /\ pc'[t] = l
      /\ \A u \in Threads \ {t} : pc'[u] = pc[u]
  BY DEF Goto, TypeOK
<1>2. Stage' = Stage
  BY <1>1 DEF Stage
<1>3. Result' = Result
  BY <1>1 DEF Result
<1>4. Got' = Got
  BY <1>1 DEF Got
<1>5. QED
  BY <1>2, <1>3, <1>4 DEF Contract!vars, Contract!callVars

\* A step that changes neither a call nor the cache nor the clock is not seen.
LEMMA NothingSeen ==
    ASSUME UNCHANGED <<clock, cache, pc, callVars>>
    PROVE  UNCHANGED Contract!vars
BY DEF callVars, Contract!vars, Contract!callVars, Stage, Result, Got

\* The allow-list decides the same of a request in the runner and in its contract.
LEMMA DenialIsRefusal == ASSUME NEW r PROVE Contract!Denial(r) = Refusal(r)
BY DEF Contract!Denial, Refusal, allowed_executable

\* A call inside run that has not returned is "asked".
LEMMA AskedSeen ==
    ASSUME NEW t \in Threads, pc[t] \notin {"idle", "ret"}
    PROVE  Stage[t] = "asked"
BY DEF Stage

\* Two requests with one cache key are refused alike.
LEMMA SameKeySameRefusal ==
    ASSUME NEW r, NEW s, CacheKey(r) = CacheKey(s)
    PROVE  Refusal(r) = Refusal(s)
<1>1. Run[r] = Run[s]
  BY DEF CacheKey
<1>2. QED
  BY <1>1 DEF Refusal

-----------------------------------------------------------------------------
(* Every step of the runner is a step of the contract, or not seen *)

\* What the refinement is proved from.
RunnerInv == TypeInv /\ CacheInv /\ ProcInv /\ WaitInv

\* The runner begins as the contract does.
LEMMA InitContract == Init => Contract!Init
BY DEF Init, Contract!Init, Stage, Result, Got

\* run is entered: the call is asked, at the instant that is read.
LEMMA CallAsks ==
    ASSUME RunnerInv, NEW t \in Threads, NEW r \in Requests, Call(t, r)
    PROVE  Contract!Ask(t, r)
<1>1. TypeOK
  BY DEF RunnerInv, TypeInv
<1>2. PICK l \in {"execute", "lookup"} : Goto(t, l)
  BY DEF Call
<1>3. /\ pc[t] = "idle" /\ pc'[t] = l
      /\ \A u \in Threads \ {t} : pc'[u] = pc[u]
      /\ UNCHANGED <<outcome, vals>>
  BY <1>1, <1>2 DEF Call, Goto, TypeOK
<1>4. Stage[t] = "out" /\ Stage' = [Stage EXCEPT ![t] = "asked"]
  BY <1>3 DEF Stage
<1>5. Result' = Result /\ Got' = Got
  BY <1>3 DEF Result, Got
<1>6. QED
  BY <1>4, <1>5 DEF Call, Contract!Ask

\* A hit is a result the memory holds: CacheSound says of whom and how old.
LEMMA HitRemembers ==
    ASSUME RunnerInv, NEW t \in Threads, LookupHit(t)
    PROVE  Contract!Remember(t)
<1> DEFINE k == CacheKey(req[t])
           v == cache[k].values
<1>1. TypeOK /\ CacheSound /\ WaitSound(t)
  BY DEF RunnerInv, TypeInv, CacheInv, WaitInv
<1>2. /\ pc[t] = "lookup" /\ Fresh(k, now[t]) /\ now[t] \in Nat
      /\ req[t] \in Requests
  BY <1>1 DEF LookupHit, TypeOK, RunnerInv, TypeInv, HasRequest
<1>3. Justified(v, k, now[t])
  BY <1>1, <1>2, FreshJustified
<1>4. Contract!Denial(req[t]) = "none"
  BY <1>3, SameKeySameRefusal, DenialIsRefusal DEF Justified
<1>5. Ttl[req[t]] > 0
  BY <1>1, <1>2, RunnerAssumption DEF WaitSound
<1>6. Contract!Key(req[t]) = k
  BY DEF Contract!Key, CacheKey
<1>7. Stage[t] = "asked"
  BY <1>2, AskedSeen
<1>8. Contract!Answer(t, "hit", v)
  <2>1. outcome'[t] = "hit" /\ vals'[t] = v
    BY <1>1 DEF LookupHit, Finish, TypeOK
  <2>2. Contract!Answer(t, outcome'[t], vals'[t])
    BY <1>1, AnswerSeen DEF LookupHit, Finish, TypeOK
  <2>3. QED
    BY <2>1, <2>2
<1>9. k \in DOMAIN cache /\ cache[k].expires_at > now[t]
  BY <1>2 DEF Fresh
<1>10. UNCHANGED cache
  BY DEF LookupHit
<1>11. now[t] < v.born + Ttl[v.from]
  BY <1>3 DEF Justified
<1> HIDE DEF k, v
<1>12. QED
  BY <1>4, <1>5, <1>6, <1>7, <1>8, <1>9, <1>10, <1>11 DEF Contract!Remember, v

\* A refused request is denied.
LEMMA RefuseDenies ==
    ASSUME RunnerInv, NEW t \in Threads, Refuse(t)
    PROVE  Contract!Deny(t)
<1>1. TypeOK /\ pc[t] = "execute" /\ vals[t] = None
  BY DEF RunnerInv, TypeInv, WaitInv, WaitSound, Refuse
<1>2. Contract!Denial(req[t]) = Refusal(req[t])
  BY DenialIsRefusal
<1>3. outcome'[t] = Refusal(req[t]) /\ vals'[t] = None /\ UNCHANGED cache
  BY <1>1 DEF Refuse, Finish, TypeOK
<1>4. Contract!Answer(t, outcome'[t], vals'[t])
  BY <1>1, AnswerSeen DEF Refuse, Finish, TypeOK
<1>5. Stage[t] = "asked"
  BY <1>1, AskedSeen
<1>6. QED
  BY <1>2, <1>3, <1>4, <1>5 DEF Contract!Deny, Refuse

\* A failed spawn is an execution error.
LEMMA SpawnFailFails ==
    ASSUME RunnerInv, NEW t \in Threads, SpawnFail(t)
    PROVE  Contract!Fail(t, "Execution")
<1>1. TypeOK /\ pc[t] = "execute" /\ vals[t] = None
  BY DEF RunnerInv, TypeInv, WaitInv, WaitSound, SpawnFail
<1>2. Contract!Denial(req[t]) = "none"
  BY DenialIsRefusal DEF SpawnFail
<1>3. outcome'[t] = "Execution" /\ vals'[t] = None /\ UNCHANGED cache
  BY <1>1 DEF SpawnFail, Finish, TypeOK
<1>4. Contract!Answer(t, outcome'[t], vals'[t])
  BY <1>1, AnswerSeen DEF SpawnFail, Finish, TypeOK
<1>5. Stage[t] = "asked"
  BY <1>1, AskedSeen
<1>6. QED
  BY <1>2, <1>3, <1>4, <1>5 DEF Contract!Fail

\* The join after a kill reports the error found before it: if it is a timeout,
\* the time is over.
LEMMA JoinErrFails ==
    ASSUME RunnerInv, NEW t \in Threads, JoinErr(t)
    PROVE  Contract!Fail(t, outcome[t]) /\ outcome[t] \in {"Execution", "Timeout"}
<1>1. /\ TypeOK /\ pc[t] = "joinErr" /\ vals[t] = None
      /\ WaitSound(t) /\ CallSound(t)
  BY DEF RunnerInv, TypeInv, CacheInv, WaitInv, WaitSound, JoinErr
<1>2. Contract!Denial(req[t]) = "none"
  BY <1>1, DenialIsRefusal DEF CallSound, Executing
<1>3. UNCHANGED <<clock, cache, req, now, outcome, vals>> /\ Goto(t, "ret")
  BY DEF JoinErr, callVars
<1>4. Contract!Answer(t, outcome'[t], vals'[t])
  BY <1>1, <1>3, AnswerSeen
<1>5. Stage[t] = "asked"
  BY <1>1, AskedSeen
<1>6. /\ outcome[t] \in {"Execution", "Timeout"}
      /\ outcome[t] = "Timeout" => clock >= now[t] + Timeout
  <2>1. clock \in Nat /\ now[t] \in Nat /\ Timeout \in Nat
    BY <1>1, RunnerAssumption DEF TypeOK
  <2>2. QED
    BY <1>1, <2>1 DEF WaitSound
<1>7. QED
  BY <1>1, <1>2, <1>3, <1>4, <1>5, <1>6 DEF Contract!Fail

\* The step that stores a result is the one that produces it.
LEMMA PutProduces ==
    ASSUME RunnerInv, NEW t \in Threads, Put(t)
    PROVE  Contract!Produce(t, Got'[t])
<1> DEFINE r == req[t]
           v == vals[t]
<1>1. /\ TypeOK /\ pc[t] = "put"
      /\ CallSound(t) /\ ProcSound(t) /\ WaitSound(t)
  BY DEF RunnerInv, TypeInv, CacheInv, ProcInv, WaitInv, Put
<1>2. /\ v \in Values /\ v.from = r /\ v.born = born[t]
      /\ Refusal(r) = "none" /\ now[t] <= born[t]
  BY <1>1 DEF CallSound, Executing
<1>3. born[t] <= clock
  BY <1>1 DEF WaitSound, Executing
<1>4. v.bytes <= Cap
  BY <1>1 DEF ProcSound
<1>5. v # None
  BY <1>2, RunnerAssumption
<1>6. Contract!Denial(r) = "none"
  BY <1>2, DenialIsRefusal
<1>7. outcome'[t] = "ran" /\ vals'[t] = v /\ pc'[t] = "ret"
  BY <1>1 DEF Put, Finish, Goto, TypeOK
<1>8. Got'[t] = v
  BY <1>7 DEF Got
<1>9. Contract!Answer(t, "ran", v)
  <2>1. Contract!Answer(t, outcome'[t], vals'[t])
    BY <1>1, AnswerSeen DEF Put, Finish, TypeOK
  <2>2. QED
    BY <1>7, <2>1
<1>10. Stage[t] = "asked"
  BY <1>1, AskedSeen
<1>11. cache' = IF Ttl[r] = 0 THEN cache
                ELSE [k \in DOMAIN cache \cup {Contract!Key(r)} |->
                        IF k = Contract!Key(r)
                        THEN [values |-> v, expires_at |-> now[t] + Ttl[r]]
                        ELSE cache[k]]
  BY DEF Put, CachePut, Contract!Key, CacheKey
<1> HIDE DEF v
<1>12. Contract!Produce(t, v)
  BY <1>2, <1>3, <1>4, <1>5, <1>6, <1>9, <1>10, <1>11 DEF Contract!Produce
<1>13. QED
  BY <1>8, <1>12

\* run returns.
LEMMA ReturnEnds ==
    ASSUME RunnerInv, NEW t \in Threads, Return(t)
    PROVE  Contract!End(t)
<1>1. TypeOK
  BY DEF RunnerInv, TypeInv
<1>2. /\ pc[t] = "ret" /\ pc'[t] = "idle"
      /\ \A u \in Threads \ {t} : /\ pc'[u] = pc[u] /\ outcome'[u] = outcome[u]
                                 /\ vals'[u] = vals[u]
  BY <1>1 DEF Return, Goto, TypeOK
<1>3. Stage[t] = "answered" /\ Stage' = [Stage EXCEPT ![t] = "out"]
  BY <1>2 DEF Stage
<1>4. Result' = [Result EXCEPT ![t] = "none"]
  BY <1>2 DEF Result
<1>5. Got' = [Got EXCEPT ![t] = None]
  BY <1>2 DEF Got
<1>6. QED
  BY <1>3, <1>4, <1>5 DEF Return, Contract!End

\* Time passes for the callers as for the runner.
LEMMA TickPasses == Tick => Contract!Pass
BY DEF Tick, Contract!Pass, Contract!callVars, callVars, Stage, Result, Got

\* Every step of the runner is one step of the contract or is not seen.
LEMMA StepRefines ==
    RunnerInv /\ [Next]_vars => [Contract!Next]_(Contract!vars)
<1> SUFFICES ASSUME RunnerInv, [Next]_vars
             PROVE  Contract!Next \/ UNCHANGED Contract!vars
  OBVIOUS
<1>0. TypeOK
  BY DEF RunnerInv, TypeInv
<1>1. ASSUME NEW t \in Threads, NEW r \in Requests, Call(t, r)
      PROVE  Contract!Next
  BY <1>1, CallAsks DEF Contract!Next
<1>2. ASSUME NEW t \in Threads, LookupHit(t) PROVE Contract!Next
  BY <1>2, HitRemembers DEF Contract!Next
<1>3. ASSUME NEW t \in Threads, Refuse(t) PROVE Contract!Next
  BY <1>3, RefuseDenies DEF Contract!Next
<1>4. ASSUME NEW t \in Threads, SpawnFail(t) PROVE Contract!Next
  BY <1>4, SpawnFailFails DEF Contract!Next
<1>5. ASSUME NEW t \in Threads, JoinErr(t) PROVE Contract!Next
  BY <1>5, JoinErrFails DEF Contract!Next
<1>6. ASSUME NEW t \in Threads, Put(t) PROVE Contract!Next
  BY <1>6, PutProduces DEF Contract!Next
<1>7. ASSUME NEW t \in Threads, Return(t) PROVE Contract!Next
  BY <1>7, ReturnEnds DEF Contract!Next
<1>8. CASE Tick
  BY <1>8, TickPasses DEF Contract!Next
\* The steps between the question and the answer.
<1>9. ASSUME NEW t \in Threads,
             \/ LookupMiss(t) \/ (\E h \in Holders : Spawn(t, h))
             \/ PollExited(t) \/ PollRunning(t) \/ PollError(t)
             \/ CheckDeadline(t) \/ KillAndWait(t) \/ Collect(t)
      PROVE  UNCHANGED Contract!vars
  <2>1. PICK l \in PCs \ {"idle", "ret"} : Goto(t, l)
    BY <1>9 DEF LookupMiss, Spawn, PollExited, PollRunning, PollError,
                CheckDeadline, KillAndWait, Collect, PCs
  <2>2. pc[t] \notin {"idle", "ret"} /\ UNCHANGED <<clock, cache, req, now>>
    BY <1>9 DEF LookupMiss, Spawn, PollExited, PollRunning, PollError,
                CheckDeadline, KillAndWait, Collect, callVars
  <2>3. \A u \in Threads \ {t} : outcome'[u] = outcome[u] /\ vals'[u] = vals[u]
    BY <1>0, <1>9 DEF LookupMiss, Spawn, PollExited, PollRunning, PollError,
                CheckDeadline, KillAndWait, Collect, callVars, TypeOK
  <2>4. QED
    BY <1>0, <2>1, <2>2, <2>3, StepUnseen
\* The reader thread, the child and what it leaves behind.
<1>10. ASSUME NEW t \in Threads, ReaderStep(t) \/ ChildStep(t)
       PROVE  UNCHANGED Contract!vars
  BY <1>10, NothingSeen DEF ReaderStep, ReaderRead, ReaderEnd, ChildStep,
     ChildWrite, ChildExit, HolderExit
<1>11. CASE UNCHANGED vars
  BY <1>11, NothingSeen DEF vars
<1>12. CASE Horizon
  BY <1>11, <1>12 DEF Horizon
<1>13. QED
  BY <1>1, <1>2, <1>3, <1>4, <1>5, <1>6, <1>7, <1>8, <1>9, <1>10, <1>11, <1>12
     DEF Next, RunStep

\* SandboxedRunner keeps the contract of the GeneratorRunner trait
\* (runner.rs:340-360, generator_runner.rs:60-64): whatever threads, children and
\* the clock do in between, its callers see calls answered in one step.
THEOREM ImplementsContract == Spec => KeepsContract
<1>1. Init => RunnerInv
  BY InitType, InitCacheInv, InitProcInv, InitWaitInv
     DEF RunnerInv, TypeInv, HasRequest, HasValues, Init
<1>2. RunnerInv /\ [Next]_vars => RunnerInv'
  BY NextType, NextCacheInv, NextProcInv, NextWaitInv DEF RunnerInv
<1>3. QED
  BY <1>1, <1>2, InitContract, StepRefines, PTL
     DEF Spec, KeepsContract, Contract!Spec
=============================================================================

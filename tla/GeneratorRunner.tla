--------------------------- MODULE GeneratorRunner ---------------------------
(***************************************************************************)
(* What core expects of a GeneratorRunner (generator_runner.rs), seen from   *)
(* its callers: a function call with a memory.                              *)
(*                                                                         *)
(* No process, pipe, thread or lock is left: a call is asked at one instant  *)
(* and answered in one step, from the memory if it holds a result of the     *)
(* same argv and cwd that had not expired when the call was asked, else with *)
(* a result of its own, stored in the same step, or with an error.           *)
(***************************************************************************)
EXTENDS Integers, Sequences

CONSTANTS
    Threads, Requests,
    Run, Cwd, Ttl,     \* Run[r], Cwd[r], Ttl[r]: argv, directory and cache.ttlMs of r
    Permitted,         \* the allow-list
    Timeout,           \* the execution deadline
    Cap,               \* the output cap
    None

VARIABLES
    time,
    memory,            \* a map from argv and cwd to a result and when it expires
    stage,             \* stage[t]: "out", "asked" or "answered"
    asked, since,      \* the request of the call and when it was made
    result,            \* "hit", "ran" or the error
    got                \* the values of a result that is not an error

callVars == <<stage, asked, since, result, got>>
vars == <<time, memory, callVars>>

Key(r) == [run |-> Run[r], cwd |-> Cwd[r]]

\* The error every call for r must give, "none" if r may run.
Denial(r) ==
    IF Run[r] = <<>> THEN "EmptyRun"
    ELSE IF Head(Run[r]) \notin Permitted THEN "NotAllowListed"
    ELSE "none"

Init ==
    /\ time = 0
    /\ memory = [k \in {} |-> None]
    /\ stage = [t \in Threads |-> "out"]
    /\ asked = [t \in Threads |-> None]
    /\ since = [t \in Threads |-> 0]
    /\ result = [t \in Threads |-> "none"]
    /\ got = [t \in Threads |-> None]

Ask(t, r) ==
    /\ stage[t] = "out"
    /\ stage' = [stage EXCEPT ![t] = "asked"]
    /\ asked' = [asked EXCEPT ![t] = r]
    /\ since' = [since EXCEPT ![t] = time]
    /\ UNCHANGED <<time, memory, result, got>>

\* The call of t is answered; what the answer may be is for its callers to say.
Answer(t, o, v) ==
    /\ stage' = [stage EXCEPT ![t] = "answered"]
    /\ result' = [result EXCEPT ![t] = o]
    /\ got' = [got EXCEPT ![t] = v]
    /\ UNCHANGED <<time, asked, since>>

\* A program that may not run never runs, and no memory answers for it.
Deny(t) ==
    /\ stage[t] = "asked"
    /\ Denial(asked[t]) # "none"
    /\ Answer(t, Denial(asked[t]), None)
    /\ UNCHANGED memory

\* A result of the same argv and cwd, younger than the ttl it was made with.
Remember(t) ==
    LET r == asked[t]
        k == Key(r)
    IN /\ stage[t] = "asked"
       /\ Denial(r) = "none" /\ Ttl[r] > 0
       /\ k \in DOMAIN memory
       /\ memory[k].expires_at > since[t]
       /\ since[t] < memory[k].values.born + Ttl[memory[k].values.from]
       /\ Answer(t, "hit", memory[k].values)
       /\ UNCHANGED memory

\* A result of the call's own, made after it was asked.
Produce(t, v) ==
    LET r == asked[t]
    IN /\ stage[t] = "asked"
       /\ Denial(r) = "none"
       /\ v # None
       /\ v.from = r /\ since[t] <= v.born /\ v.born <= time
       /\ v.bytes <= Cap
       /\ Answer(t, "ran", v)
       /\ memory' = IF Ttl[r] = 0 THEN memory
                    ELSE [k \in DOMAIN memory \cup {Key(r)} |->
                            IF k = Key(r)
                            THEN [values |-> v, expires_at |-> since[t] + Ttl[r]]
                            ELSE memory[k]]

\* A program that may run can fail; it times out only when its time is over.
Fail(t, e) ==
    /\ stage[t] = "asked"
    /\ Denial(asked[t]) = "none"
    /\ e = "Timeout" => time >= since[t] + Timeout
    /\ Answer(t, e, None)
    /\ UNCHANGED memory

End(t) ==
    /\ stage[t] = "answered"
    /\ stage' = [stage EXCEPT ![t] = "out"]
    /\ asked' = [asked EXCEPT ![t] = None]
    /\ since' = [since EXCEPT ![t] = 0]
    /\ result' = [result EXCEPT ![t] = "none"]
    /\ got' = [got EXCEPT ![t] = None]
    /\ UNCHANGED <<time, memory>>

Pass == time' = time + 1 /\ UNCHANGED <<memory, callVars>>

\* The result of an execution is whatever its child wrote: got' names it.
Next ==
    \/ \E t \in Threads :
         \/ \E r \in Requests : Ask(t, r)
         \/ Deny(t) \/ Remember(t) \/ Produce(t, got'[t])
         \/ \E e \in {"Execution", "Timeout"} : Fail(t, e)
         \/ End(t)
    \/ Pass

Spec == Init /\ [][Next]_vars

=============================================================================

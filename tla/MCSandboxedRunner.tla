------------------------- MODULE MCSandboxedRunner -------------------------
(***************************************************************************)
(* Instances of SandboxedRunner for TLC.                                    *)
(*                                                                         *)
(* The cache instance has two threads and two generators with the same      *)
(* argv and cwd but different ttls, which share a cache entry.  The process *)
(* instance has one thread, the full behaviour of the child, the pipe and   *)
(* its descendants, and requests that may not run.                          *)
(***************************************************************************)
EXTENDS SandboxedRunner, TLC

CacheRun == [r \in {"short", "long"} |-> <<"git", "branch">>]
CacheTtl == [r \in {"short", "long"} |-> IF r = "short" THEN 1 ELSE 2]
CacheCwd == [r \in {"short", "long"} |-> "/repo"]

ProcRun == [r \in {"plain", "empty", "gone"} |->
              CASE r = "plain" -> <<"ls">>
                [] r = "empty" -> <<>>
                [] r = "gone" -> <<"brew">>]
ProcTtl == [r \in {"plain", "empty", "gone"} |-> IF r = "empty" THEN 0 ELSE 1]
ProcCwd == [r \in {"plain", "empty", "gone"} |-> "/"]

ThreadSymmetry == Permutations(Threads)
=============================================================================

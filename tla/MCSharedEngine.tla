---------------------------- MODULE MCSharedEngine ----------------------------
(***************************************************************************)
(* An instance of SharedEngine for TLC: two spec files that may declare the  *)
(* same command, one rule file, one or two directories for them.             *)
(***************************************************************************)
EXTENDS SharedEngine

CONSTANTS dirD, dirE

Is(kind) == [kind |-> kind, names |-> {}]
Declares(names) == [kind |-> "good", names |-> names]

MCContents == {Is("absent"), Is("other"), Is("unreadable"), Is("bad"), Declares({"a"}),
               Declares({"a", "b"})}

MCWrites == {Is("absent"), Is("bad"), Declares({"a", "b"})}

In(kind, one, two, three) == [kind |-> kind, files |-> 1 :> one @@ 2 :> two @@ 3 :> three]

Empty == In("dir", Is("absent"), Is("absent"), Is("absent"))
Full == In("dir", Declares({"a"}), Declares({"a", "b"}), Declares({"a"}))
Broke == In("dir", Is("unreadable"), Is("bad"), Is("other"))

MCDisks == {dirD :> Full @@ dirE :> [Empty EXCEPT !.kind = "denied"], dirD :> Broke @@ dirE :> Full}

Env(specs, rules, allow) == [specs |-> specs, rules |-> rules, allow |-> allow]

MCEnvs == {Env(dirD, dirD, FALSE), Env(dirE, dirD, FALSE), Env(dirD, Relative, TRUE),
           Env(Relative, dirD, FALSE)}

Request(null, bytes, utf8, base) ==
    [null |-> null, bytes |-> bytes, utf8 |-> utf8, base |-> base]

MCRequests == {Request(TRUE, 0, TRUE, ""), Request(FALSE, 2, TRUE, "a"),
               Request(FALSE, 3, TRUE, "a"), Request(FALSE, 1, FALSE, "a")}

=============================================================================

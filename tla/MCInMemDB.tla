----------------------------- MODULE MCInMemDB -----------------------------
(* Instances of InMemDB for TLC.                                           *)
EXTENDS InMemDB, TLC

CONSTANTS k, x, y, set1, set2, get, del, exit

Do(op, v) == [op |-> op, key |-> k, value |-> v]

\* Two writes and a deletion of one key, a read, and a rewrite of the file.
SomeCommands ==
    set1 :> Do("set", x) @@ set2 :> Do("set", y) @@ get :> Do("get", x)
    @@ del :> Do("del", x) @@ exit :> Do("exit", x)

SomeKinds == [t \in Tasks |-> KindOf(SomeCommands[t].op)]

\* The two SETs differ in their value only.
Swap == set1 :> set2 @@ set2 :> set1 @@ x :> y @@ y :> x

Symmetry == Permutations(Workers) \cup {Swap}
=============================================================================

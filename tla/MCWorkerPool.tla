---------------------------- MODULE MCWorkerPool ----------------------------
(* Instances of WorkerPool for TLC.                                        *)
EXTENDS WorkerPool, TLC

CONSTANTS w1, w2, r1, r2, wr, ex1, ex2, bl

KindOf == (r1 :> "read") @@ (r2 :> "read") @@ (wr :> "write")
          @@ (ex1 :> "exit") @@ (ex2 :> "exit") @@ (bl :> "blank")
SomeKinds == [t \in Tasks |-> KindOf[t]]

Symmetry == Permutations(Workers) \cup Permutations({r1, r2} \cap Tasks)
            \cup Permutations({ex1, ex2} \cap Tasks)
=============================================================================

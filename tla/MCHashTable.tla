---------------------------- MODULE MCHashTable ----------------------------
(* Instances of HashTable for TLC.                                         *)
EXTENDS HashTable, TLC

CONSTANTS k1, k2, k3, k4

\* k1 and k3 share a chain until there are 8, k2 parts from them at 4, and
\* k4 shares a chain with nobody.
SomeHash == (k1 :> 8) @@ (k2 :> 6) @@ (k3 :> 12) @@ (k4 :> 5)
=============================================================================

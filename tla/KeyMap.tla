------------------------------- MODULE KeyMap -------------------------------
(***************************************************************************)
(* What the hash table promises its callers: a map from keys to values.    *)
(***************************************************************************)
CONSTANTS Keys, Values,
          NoValue          \* "no such key"

VARIABLES
    map,       \* Keys -> Values or NoValue
    answer     \* what the last operation returned

vars == <<map, answer>>

Outcome(op, k, v) == [op |-> op, key |-> k, value |-> v]

Init ==
    /\ map = [k \in Keys |-> NoValue]
    /\ answer = Outcome("none", NoValue, NoValue)

Set(k, v) ==
    /\ map' = [map EXCEPT ![k] = v]
    /\ answer' = Outcome("set", k, v)

\* A SET may fail; then it changes nothing.
SetFails(k) ==
    /\ answer' = Outcome("set failed", k, NoValue)
    /\ UNCHANGED map

Delete(k) ==
    /\ map' = [map EXCEPT ![k] = NoValue]
    /\ answer' = Outcome(IF map[k] = NoValue THEN "not found" ELSE "deleted", k, NoValue)

Get(k) ==
    /\ answer' = Outcome("get", k, map[k])
    /\ UNCHANGED map

Next == \E k \in Keys :
    \/ \E v \in Values : Set(k, v)
    \/ SetFails(k) \/ Delete(k) \/ Get(k)

Spec == Init /\ [][Next]_vars
=============================================================================

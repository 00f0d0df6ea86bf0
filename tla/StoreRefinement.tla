-------------------------- MODULE StoreRefinement --------------------------
(***************************************************************************)
(* Store implements TtlMap.  A change takes effect when its record reaches *)
(* the file, so the map is read off the file, never off memory: that GET,  *)
(* TTL and DEL, which consult memory, answer as the map says, and that a   *)
(* crash and a reload change nothing, is what the refinement checks.       *)
(***************************************************************************)
EXTENDS Store

\* The entry of the last record about k.
LoggedEntry(log, k) ==
    LET about == {i \in DOMAIN log : log[i].key = k}
    IN  IF about = {} THEN NoEntry
        ELSE log[CHOOSE i \in about : \A j \in about : j <= i].entry

Map == INSTANCE TtlMap WITH
           db   <- [k \in Keys |-> Visible(LoggedEntry(aof, k), now)],
           done <- IF pc = "apply" THEN cmd ELSE NoCmd

\* No key's last record is a SET with an expiry that follows another SET.
NoOldValueBehindExpiry ==
    \A i, j \in DOMAIN aof :
        /\ i < j /\ aof[i].key = aof[j].key
        /\ \A m \in (i+1)..Len(aof) : m # j => aof[m].key # aof[j].key
        /\ aof[j].entry # NoEntry /\ aof[j].entry.expires_at # 0
        => aof[i].entry = NoEntry

\* The process does not die while an older value of a key is in the file
\* behind one that expires: start-up would restore the older one (this is
\* what ExpiredStaysGone is about).
MapSpec == Init /\ [][Next /\ (pc' = "down" => NoOldValueBehindExpiry)]_vars

\* Store behaves as the map, answers included.
RefinesTtlMap == Map!Spec
=============================================================================

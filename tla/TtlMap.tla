------------------------------- MODULE TtlMap -------------------------------
(***************************************************************************)
(* What the database promises its clients: a map from keys to entries that *)
(* expire, in which every command takes effect at one instant and nothing  *)
(* is ever forgotten, whatever happens to the process.  There is no file,  *)
(* no hash table, no crash and no restart here.                            *)
(***************************************************************************)
EXTENDS Aof

CONSTANTS MaxTime   \* bound: the clock stops here

VARIABLES
    db,      \* the live entries: Keys -> Entry or NoEntry
    now,     \* the clock
    done,    \* the change that took effect and is not answered yet, if any
    reply    \* the response of this very step, NoReply if none

vars == <<db, now, done, reply>>

NoChange == [key |-> NoEntry, entry |-> NoEntry]

Init ==
    /\ db = [k \in Keys |-> NoEntry]
    /\ now = 1
    /\ done = NoChange
    /\ reply = NoReply

\* A SET of some entry, or a DEL (NoEntry), takes effect.
Change(k) ==
    /\ done = NoChange
    /\ done' \in [key : {k}, entry : Entry \cup {NoEntry}]
    /\ db' = [db EXCEPT ![k] = Visible(done'.entry, now)]
    /\ reply' = NoReply
    /\ UNCHANGED now

\* It is answered, once, with success.
Confirm ==
    /\ done # NoChange
    /\ reply' = DoneReply(done.key, done.entry)
    /\ done' = NoChange
    /\ UNCHANGED <<db, now>>

\* The client of a change that took effect may never be told.
Forsake ==
    /\ done # NoChange
    /\ done' = NoChange
    /\ reply' = NoReply
    /\ UNCHANGED <<db, now>>

\* Answers that report the map, and errors, which leave it alone.
Answers ==
    (UNION {{GetReply(k, db[k]),
             TtlReply(k, Remaining(db[k], now)),
             Reply("SET", k, "ERR"), Reply("DEL", k, "ERR")} : k \in Keys})
    \cup {Reply("DEL", k, "0") : k \in {x \in Keys : db[x] = NoEntry}}
    \cup {Reply("EXIT", NoEntry, "BYE"), Reply("EXIT", NoEntry, "ERR")}

Answer ==
    /\ done = NoChange
    /\ reply' \in Answers
    /\ UNCHANGED <<db, now, done>>

Silent == reply' = NoReply /\ UNCHANGED <<db, now, done>>

Tick ==
    /\ now < MaxTime
    /\ now' = now + 1
    /\ db' = [k \in Keys |-> Visible(db[k], now')]
    /\ reply' = NoReply
    /\ UNCHANGED done

Next ==
    \/ \E k \in Keys : Change(k)
    \/ Confirm \/ Forsake \/ Answer \/ Silent \/ Tick

Spec == Init /\ [][Next]_vars
=============================================================================

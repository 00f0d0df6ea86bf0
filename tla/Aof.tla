-------------------------------- MODULE Aof --------------------------------
(***************************************************************************)
(* The data that InMemDB keeps: entries of the hash table and records of   *)
(* the append-only file data.aof (persistence.c, entry.c).  Keys and       *)
(* values are opaque; the byte format of a record is abstracted to the     *)
(* record itself, or to the fact that only a part of it was written.       *)
(***************************************************************************)
EXTENDS Integers, Sequences

CONSTANTS
    Keys,      \* the keys clients use
    Values,    \* the values clients store
    NoEntry    \* "no entry": a NULL Entry pointer, or the payload of a DEL

\* An Entry without its key and its chain pointer.  expires_at is an
\* absolute time_t in seconds, 0 meaning "never".
Entry == [value : Values, expires_at : Int]

ASSUME NoEntryAssumption == NoEntry \notin Entry \cup Keys

\* One record of the file.  A DEL carries NoEntry.  A TORN record is what a
\* partial write left behind: a proper, non-empty prefix of the bytes of the
\* record that was being appended, without its final newline.
Record == [op : {"SET"}, key : Keys, entry : Entry]
          \cup [op : {"DEL"}, key : Keys, entry : {NoEntry}]
          \cup [op : {"TORN"}, key : Keys, entry : Entry \cup {NoEntry}]

\* Faulty: the expiry of a SET is not written.
RecordWithoutExpiry(k, e) ==
    [op |-> IF e = NoEntry THEN "DEL" ELSE "SET", key |-> k,
     entry |-> IF e = NoEntry THEN e ELSE [e EXCEPT !.expires_at = 0]]

RecordOf(k, e) == [op |-> IF e = NoEntry THEN "DEL" ELSE "SET",
                   key |-> k, entry |-> e]

TornRecordOf(k, e) == [op |-> "TORN", key |-> k, entry |-> e]

\* entry_is_expired at time t.
Expired(e, t) == e.expires_at # 0 /\ t >= e.expires_at

\* What GET shows of the result of a lookup: missing and expired are alike.
Visible(e, t) == IF e = NoEntry THEN NoEntry
                 ELSE IF Expired(e, t) THEN NoEntry ELSE e

\* What TTL says of an entry that is visible, or of none.
Remaining(e, t) == IF e = NoEntry THEN -2
                   ELSE IF e.expires_at = 0 THEN -1 ELSE e.expires_at - t

\* Among the first n records of log, the last one about k says e; NoEntry
\* when it is a DEL or when no record is about k.
LastWord(log, n, k, e) ==
    \/ /\ e = NoEntry
       /\ \A i \in 1..n : log[i].key # k
    \/ \E i \in 1..n : /\ log[i].key = k
                       /\ log[i].entry = e
                       /\ \A j \in (i+1)..n : log[j].key # k

\* No partial write is left in the file.
Intact(log) == \A i \in DOMAIN log : log[i].op # "TORN"
-----------------------------------------------------------------------------
(* What command_execute writes into its response buffer.                   *)

Response(to, k, result, e, n) ==
    [to |-> to, key |-> k, result |-> result, entry |-> e, ttl |-> n]

NoReply == Response("none", NoEntry, "none", NoEntry, 0)

Reply(to, k, result) == Response(to, k, result, NoEntry, 0)

TtlReply(k, n) == Response("TTL", k, "seconds", NoEntry, n)

GetReply(k, e) == Response("GET", k, IF e = NoEntry THEN "nil" ELSE "value", e, 0)

\* The answer of a SET or DEL that stored e.
DoneReply(k, e) == IF e = NoEntry THEN Reply("DEL", k, "1") ELSE Reply("SET", k, "OK")

Replies == [to : {"none", "SET", "DEL", "GET", "TTL", "EXIT"},
            key : Keys \cup {NoEntry},
            result : {"none", "OK", "ERR", "BYE", "0", "1", "nil", "value", "seconds"},
            entry : Entry \cup {NoEntry},
            ttl : Int]

\* At time t, the response r is right if e is the entry of its key.
Agrees(r, e, t) ==
    /\ r.to = "GET" => r.entry = e
    /\ r.to = "TTL" => r.ttl = Remaining(e, t)
    /\ r.result \in {"0", "1"} => e = NoEntry
    /\ r.result = "OK" => e # NoEntry
=============================================================================

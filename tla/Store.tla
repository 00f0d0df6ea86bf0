------------------------------- MODULE Store -------------------------------
(***************************************************************************)
(* The database engine of InMemDB: command_execute (command.c), the        *)
(* append-only file (persistence.c) and the start-up sequence of main.c,   *)
(* with crashes, failing disk writes, failing allocations and a running    *)
(* clock.                                                                  *)
(*                                                                         *)
(* The hash table is its abstract content, a map from keys to entries      *)
(* (module HashTable models the chains).  One command runs at a time:      *)
(* commands that write hold db_lock exclusively, and GET and TTL change    *)
(* nothing, so running them one by one loses no behaviour of the store     *)
(* (module WorkerPool models the lock).                                    *)
(***************************************************************************)
EXTENDS Aof

CONSTANTS
    Seconds,       \* the arguments of EX that clients send
    TimeMax,       \* largest time_t
    MaxTime,       \* bound: the clock stops here
    MaxLog,        \* bound: no command is logged past this many records
    AppendFaults,  \* what a failing append can leave in the file
    AllocMayFail,  \* may malloc return NULL while an entry is stored?
    OpenMayFail,   \* may data.aof be there and yet not open for reading?
    MayCrash,      \* may the process die?
    SpelledExpiries \* the n of texts that end in " EXAT n"

ASSUME StoreAssumption ==
    /\ TimeMax \in Nat
    /\ MaxTime \in 1..TimeMax
    /\ MaxLog \in Nat
    /\ Seconds \subseteq 1..TimeMax
    /\ AppendFaults \subseteq {"none", "torn", "whole"}
    /\ AllocMayFail \in BOOLEAN
    /\ OpenMayFail \in BOOLEAN
    /\ MayCrash \in BOOLEAN
    /\ SpelledExpiries \subseteq Int

VARIABLES
    pc,       \* where the process is
    table,    \* the hash table: Keys -> Entry or NoEntry
    aof,      \* the content of data.aof
    tmp,      \* the content of data.aof.tmp
    pos,      \* persistence_load: the next record to read
    todo,     \* persistence_rewrite: keys whose entry was not visited yet
    cmd,      \* the SET, DEL or TTL being executed
    now,      \* time(NULL)
    reply,    \* the response this very step produced, NoReply if none
    suspect   \* history: keys whose last record belongs to a rejected command
              \* or was not read at start-up

vars == <<pc, table, aof, tmp, pos, todo, cmd, now, reply, suspect>>

NoCmd == [key |-> NoEntry, entry |-> NoEntry]
EmptyTable == [k \in Keys |-> NoEntry]

\* The process has loaded the file and serves commands.
Serving == pc \in {"ready", "append", "apply", "ttl", "rewrite"}

\* time_t addition; gcc without optimisation wraps on signed overflow.
AddTime(t, s) == IF t + s <= TimeMax THEN t + s ELSE t + s - 2 * (TimeMax + 1)

Init ==
    /\ pc = "down"
    /\ table = EmptyTable
    /\ aof = <<>>
    /\ tmp = <<>>
    /\ pos = 1
    /\ todo = {}
    /\ cmd = NoCmd
    /\ now = 1
    /\ reply = NoReply
    /\ suspect = {}

-----------------------------------------------------------------------------
(* main: an empty table, then persistence_load, then the server.           *)

\* Faulty: reading begins at record 0.
StartAtZero ==
    /\ pc \in {"down", "refused", "starved"}
    /\ pc' = "loading"
    /\ table' = EmptyTable
    /\ pos' = 0
    /\ suspect' = {}
    /\ reply' = NoReply
    /\ UNCHANGED <<aof, tmp, todo, cmd, now>>

Start ==
    /\ pc \in {"down", "refused", "starved"}
    /\ pc' = "loading"
    /\ table' = EmptyTable
    /\ pos' = 1
    /\ suspect' = {}
    /\ reply' = NoReply
    /\ UNCHANGED <<aof, tmp, todo, cmd, now>>

Loading == pc = "loading" /\ pos <= Len(aof)

\* main returns 1, "Failed to load AOF": because of what the file says, or
\* because memory ran out.
GiveUp(why) ==
    /\ pc' = why
    /\ table' = EmptyTable
    /\ pos' = 1
    /\ reply' = NoReply
    /\ UNCHANGED <<aof, tmp, todo, cmd, now, suspect>>

\* fopen fails: whatever the reason, it is taken for "no AOF yet".
LoadUnread ==
    /\ pc = "loading"
    /\ pos = 1
    /\ OpenMayFail
    /\ pc' = "ready"
    /\ suspect' = Keys
    /\ reply' = NoReply
    /\ UNCHANGED <<table, aof, tmp, pos, todo, cmd, now>>

\* A SET whose EXAT has passed is skipped, any other one is stored.
LoadSet ==
    /\ Loading
    /\ aof[pos].op = "SET"
    /\ table' = IF Expired(aof[pos].entry, now) THEN table
                ELSE [table EXCEPT ![aof[pos].key] = aof[pos].entry]
    /\ pos' = pos + 1
    /\ reply' = NoReply
    /\ UNCHANGED <<pc, aof, tmp, todo, cmd, now, suspect>>

\* There is no memory for the key, the value or the entry of a record.
LoadFails ==
    /\ Loading
    /\ AllocMayFail
    /\ GiveUp("starved")

LoadDel ==
    /\ Loading
    /\ aof[pos].op = "DEL"
    /\ table' = [table EXCEPT ![aof[pos].key] = NoEntry]
    /\ pos' = pos + 1
    /\ reply' = NoReply
    /\ UNCHANGED <<pc, aof, tmp, todo, cmd, now, suspect>>

LoadTorn ==
    /\ Loading
    /\ aof[pos].op = "TORN"
    /\ GiveUp("refused")

\* The expiries a value can get when it ends inside or right after the text
\* of r: none, that of r, or one that a key or value only spells.
TrailingExpiries(r) ==
    {0} \cup SpelledExpiries \cup (IF r.op = "SET" THEN {r.entry.expires_at} ELSE {})

\* The missing bytes of a torn record are taken from the records appended
\* after it: their text becomes a part of the torn key (a key no client
\* uses, so nothing changes here) or of the torn value, and reading goes on
\* after the newline that ends the last record swallowed.
LoadGlued ==
    /\ Loading
    /\ aof[pos].op = "TORN"
    /\ \E n \in (pos+1)..Len(aof) :
          /\ aof[n].op # "TORN"
          /\ pos' = n + 1
          /\ \/ UNCHANGED table
             \/ /\ aof[pos].entry # NoEntry
                /\ \E v \in Values, t \in TrailingExpiries(aof[n]) :
                      table' = [table EXCEPT ![aof[pos].key] =
                                   [value |-> v, expires_at |-> t]]
    /\ reply' = NoReply
    /\ UNCHANGED <<pc, aof, tmp, todo, cmd, now, suspect>>

LoadDone ==
    /\ pc = "loading"
    /\ pos > Len(aof)
    /\ pc' = "ready"
    /\ pos' = 1
    /\ reply' = NoReply
    /\ UNCHANGED <<table, aof, tmp, todo, cmd, now, suspect>>

-----------------------------------------------------------------------------
(* SET and DEL: the record is appended first, memory follows.              *)

\* SET key value [EX s]; s = 0 stands for no EX (the parser admits only
\* positive seconds).  The absolute expiry is computed here, once.
Set(k, v, s) ==
    /\ pc = "ready"
    /\ Len(aof) < MaxLog
    /\ pc' = "append"
    /\ cmd' = [key |-> k,
               entry |-> [value |-> v,
                          expires_at |-> IF s = 0 THEN 0 ELSE AddTime(now, s)]]
    /\ reply' = NoReply
    /\ UNCHANGED <<table, aof, tmp, pos, todo, now, suspect>>

\* DEL key: answers 0 for a missing or expired key, and logs nothing.
Del(k) ==
    /\ pc = "ready"
    /\ IF Visible(table[k], now) = NoEntry
       THEN /\ reply' = Reply("DEL", k, "0")
            /\ UNCHANGED <<pc, cmd>>
       ELSE /\ Len(aof) < MaxLog
            /\ pc' = "append"
            /\ cmd' = [key |-> k, entry |-> NoEntry]
            /\ reply' = NoReply
    /\ UNCHANGED <<table, aof, tmp, pos, todo, now, suspect>>

CmdName == IF cmd.entry = NoEntry THEN "DEL" ELSE "SET"

\* fopen, fprintf and fclose succeed.
AppendOk ==
    /\ pc = "append"
    /\ aof' = Append(aof, RecordOf(cmd.key, cmd.entry))
    /\ pc' = "apply"
    /\ reply' = NoReply
    /\ UNCHANGED <<table, tmp, pos, todo, cmd, now, suspect>>

\* Faulty: the result of persistence_append_set is not looked at.
AppendErrorIgnored ==
    /\ pc = "append"
    /\ AppendFaults # {}
    /\ pc' = "apply"
    /\ reply' = NoReply
    /\ UNCHANGED <<table, aof, tmp, pos, todo, cmd, now, suspect>>

\* One of them fails: nothing, a part or all of the record is in the file.
AppendFails ==
    /\ pc = "append"
    /\ \/ /\ "none" \in AppendFaults
          /\ UNCHANGED <<aof, suspect>>
       \/ /\ "torn" \in AppendFaults
          /\ aof' = Append(aof, TornRecordOf(cmd.key, cmd.entry))
          /\ UNCHANGED suspect
       \/ /\ "whole" \in AppendFaults
          /\ aof' = Append(aof, RecordOf(cmd.key, cmd.entry))
          /\ suspect' = suspect \cup {cmd.key}
    /\ reply' = Reply(CmdName, cmd.key, "ERR")
    /\ pc' = "ready"
    /\ cmd' = NoCmd
    /\ UNCHANGED <<table, tmp, pos, todo, now>>

\* hash_table_set and then expires_at, or hash_table_delete.
ApplyOk ==
    /\ pc = "apply"
    /\ table' = [table EXCEPT ![cmd.key] = cmd.entry]
    /\ suspect' = suspect \ {cmd.key}
    /\ reply' = DoneReply(cmd.key, cmd.entry)
    /\ pc' = "ready"
    /\ cmd' = NoCmd
    /\ UNCHANGED <<aof, tmp, pos, todo, now>>

\* hash_table_set cannot allocate: the entry stays as it was.
ApplyFails ==
    /\ pc = "apply"
    /\ AllocMayFail
    /\ cmd.entry # NoEntry
    /\ suspect' = suspect \cup {cmd.key}
    /\ reply' = Reply("SET", cmd.key, "ERR")
    /\ pc' = "ready"
    /\ cmd' = NoCmd
    /\ UNCHANGED <<table, aof, tmp, pos, todo, now>>

-----------------------------------------------------------------------------
(* GET and TTL.                                                            *)

Get(k) ==
    /\ pc = "ready"
    /\ reply' = GetReply(k, Visible(table[k], now))
    /\ UNCHANGED <<pc, table, aof, tmp, pos, todo, cmd, now, suspect>>

\* TTL reads the clock twice: entry_is_expired, then the subtraction.
Ttl(k) ==
    /\ pc = "ready"
    /\ IF \/ Visible(table[k], now) = NoEntry
          \/ table[k].expires_at = 0
       THEN /\ reply' = TtlReply(k, IF Visible(table[k], now) = NoEntry THEN -2 ELSE -1)
            /\ UNCHANGED <<pc, cmd>>
       ELSE /\ pc' = "ttl"
            /\ cmd' = [key |-> k, entry |-> table[k]]
            /\ reply' = NoReply
    /\ UNCHANGED <<table, aof, tmp, pos, todo, now, suspect>>

\* Faulty: only a negative remainder counts as expired.
TtlAnswerZero ==
    /\ pc = "ttl"
    /\ LET remaining == cmd.entry.expires_at - now
       IN  reply' = TtlReply(cmd.key, IF remaining < 0 THEN -2 ELSE remaining)
    /\ pc' = "ready"
    /\ cmd' = NoCmd
    /\ UNCHANGED <<table, aof, tmp, pos, todo, now, suspect>>

TtlAnswer ==
    /\ pc = "ttl"
    /\ LET remaining == cmd.entry.expires_at - now
       IN  reply' = TtlReply(cmd.key, IF remaining <= 0 THEN -2 ELSE remaining)
    /\ pc' = "ready"
    /\ cmd' = NoCmd
    /\ UNCHANGED <<table, aof, tmp, pos, todo, now, suspect>>

-----------------------------------------------------------------------------
(* EXIT: persistence_rewrite, under the write lock.                        *)

Exit ==
    /\ pc = "ready"
    /\ pc' = "rewrite"
    /\ tmp' = <<>>
    /\ todo' = {k \in Keys : table[k] # NoEntry}
    /\ reply' = NoReply
    /\ UNCHANGED <<table, aof, pos, cmd, now, suspect>>

\* The scan reaches the entry of k; the bucket order is left open.
RewriteEntry(k) ==
    /\ pc = "rewrite"
    /\ k \in todo
    /\ todo' = todo \ {k}
    /\ tmp' = IF Expired(table[k], now) THEN tmp
              ELSE Append(tmp, RecordOf(k, table[k]))
    /\ reply' = NoReply
    /\ UNCHANGED <<pc, table, aof, pos, cmd, now, suspect>>

\* fopen, fprintf, fclose or rename fails; data.aof is as it was.
RewriteFails ==
    /\ pc = "rewrite"
    /\ AppendFaults # {}
    /\ pc' = "ready"
    /\ todo' = {}
    /\ reply' = Reply("EXIT", NoEntry, "ERR")
    /\ UNCHANGED <<table, aof, tmp, pos, cmd, now, suspect>>

\* Faulty: the scan stops before the last bucket.
RenameTooEarly ==
    /\ pc = "rewrite"
    /\ \A x, y \in todo : x = y
    /\ aof' = tmp
    /\ tmp' = <<>>
    /\ suspect' = {}
    /\ todo' = {}
    /\ pc' = "ready"
    /\ reply' = Reply("EXIT", NoEntry, "BYE")
    /\ UNCHANGED <<table, pos, cmd, now>>

RewriteRename ==
    /\ pc = "rewrite"
    /\ todo = {}
    /\ aof' = tmp
    /\ tmp' = <<>>
    /\ suspect' = {}
    /\ pc' = "ready"
    /\ reply' = Reply("EXIT", NoEntry, "BYE")
    /\ UNCHANGED <<table, pos, todo, cmd, now>>

-----------------------------------------------------------------------------
(* The environment: the clock, and the process dying anywhere.             *)

Tick ==
    /\ now < MaxTime
    /\ now' = now + 1
    /\ reply' = NoReply
    /\ UNCHANGED <<pc, table, aof, tmp, pos, todo, cmd, suspect>>

\* Only the two files survive; death inside an append may tear the record.
Crash ==
    /\ MayCrash
    /\ pc \notin {"down", "refused", "starved"}
    /\ \/ UNCHANGED aof
       \/ /\ pc = "append"
          /\ "torn" \in AppendFaults
          /\ aof' = Append(aof, TornRecordOf(cmd.key, cmd.entry))
    /\ pc' = "down"
    /\ table' = EmptyTable
    /\ pos' = 1
    /\ todo' = {}
    /\ cmd' = NoCmd
    /\ suspect' = {}
    /\ reply' = NoReply
    /\ UNCHANGED <<tmp, now>>

Next ==
    \/ Start \/ LoadUnread \/ LoadSet \/ LoadFails \/ LoadDel
    \/ LoadTorn \/ LoadGlued \/ LoadDone
    \/ \E k \in Keys, v \in Values, s \in Seconds \cup {0} : Set(k, v, s)
    \/ \E k \in Keys : Del(k) \/ Get(k) \/ Ttl(k) \/ RewriteEntry(k)
    \/ AppendOk \/ AppendFails \/ ApplyOk \/ ApplyFails
    \/ TtlAnswer
    \/ Exit \/ RewriteFails \/ RewriteRename
    \/ Tick \/ Crash

Spec == Init /\ [][Next]_vars

-----------------------------------------------------------------------------
(* Correctness.                                                            *)

TypeOK ==
    /\ pc \in {"down", "refused", "starved", "loading"} \cup
              {"ready", "append", "apply", "ttl", "rewrite"}
    /\ table \in [Keys -> Entry \cup {NoEntry}]
    /\ aof \in Seq(Record)
    /\ tmp \in Seq(Record)
    /\ pos \in Nat \ {0}
    /\ todo \subseteq Keys
    /\ cmd \in [key : Keys \cup {NoEntry}, entry : Entry \cup {NoEntry}]
    /\ now \in Nat \ {0}
    /\ reply \in Replies
    /\ suspect \subseteq Keys

\* The records that memory reflects so far.
Seen == IF pc = "loading" THEN pos - 1 ELSE Len(aof)

\* Every entry some record carries, and none.
Words(log) == {NoEntry} \cup {log[i].entry : i \in DOMAIN log}

\* The key whose record is logged while its entry is not stored yet.
InFlight == IF pc = "apply" THEN {cmd.key} ELSE {}

\* What a client sees is what a restart would recover: while the process
\* loads or serves, and the file has no partial write, a key whose last
\* record is a DEL (or that has none) is not visible, and a key whose last
\* record is an unexpired SET is visible with that value and expiry.
\* Exempt: the command between its append and its store, and keys whose last
\* record belongs to a command that was answered with an error.
\* (command.c "Persist first", persistence_load, persistence_rewrite)
MemoryMatchesLog ==
    (pc = "loading" \/ Serving) /\ Intact(aof) =>
        \A k \in (Keys \ suspect) \ InFlight : \A e \in Words(aof) :
            LastWord(aof, Seen, k, e) /\ (e # NoEntry => ~Expired(e, now))
                => Visible(table[k], now) = e

\* Compaction loses and revives nothing: when EXIT answers BYE, a key whose
\* last record was a live SET, or a DEL, or that had none, has the same last
\* word in the file that replaced the old one.  (persistence_rewrite)
CompactionKeepsBindings ==
    [][reply'.result = "BYE" /\ Intact(aof) =>
          \A k \in Keys \ suspect : \A e \in Words(aof) :
              LastWord(aof, Len(aof), k, e) /\ (e # NoEntry => ~Expired(e, now))
                  => LastWord(aof', Len(aof'), k, e)]_vars

\* Clients are told what a restart would recover: the answer to a GET, TTL,
\* SET or DEL agrees with the last record about its key, as long as that is
\* a DEL or has not expired.  And TTL says -2, -1 or a positive number, also
\* when the clock moves between its two readings.
\* (command_execute, "clock-boundary edge case")
AnswersMatchLog ==
    /\ reply.to = "TTL" => reply.ttl \in {-2, -1} \/ reply.ttl > 0
    /\ Intact(aof) /\ reply.to \in {"GET", "TTL", "SET", "DEL"} /\ reply.key \notin suspect =>
          \A e \in Words(aof) :
              LastWord(aof, Len(aof), reply.key, e) /\ (e # NoEntry => ~Expired(e, now))
                  => Agrees(reply, e, now)

-----------------------------------------------------------------------------
(* A statement of the documentation that the code does not keep.           *)

\* README.md, Expiration and persistence: a key that expired is not restored.
\* Here: a key whose last record is an expired SET is not visible, but for the
\* key of a command that is logged and not stored yet.
ExpiredStaysGone ==
    Serving /\ Intact(aof) =>
        \A k \in Keys \ InFlight : \A e \in Words(aof) \ {NoEntry} :
            LastWord(aof, Len(aof), k, e) /\ Expired(e, now)
                => Visible(table[k], now) = NoEntry
=============================================================================

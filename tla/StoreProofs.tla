---------------------------- MODULE StoreProofs ----------------------------
(***************************************************************************)
(* Proofs about Store, for every set of keys and values, every clock,      *)
(* every bound and every choice of faults; and the proof that Store        *)
(* implements TtlMap when the disk and the memory hold out: whatever       *)
(* clients, the clock and crashes do, the server is a map whose changes    *)
(* take effect when their records reach data.aof.                          *)
(***************************************************************************)
EXTENDS StoreRefinement, SharedLemmas

-----------------------------------------------------------------------------
(* Types.                                                                  *)

LEMMA ReplyTypes ==
    ASSUME NEW k \in Keys, NEW e \in Entry \cup {NoEntry}, NEW n \in Int
    PROVE  /\ NoReply \in Replies
           /\ Reply("SET", k, "ERR") \in Replies
           /\ Reply("DEL", k, "ERR") \in Replies
           /\ Reply("DEL", k, "0") \in Replies
           /\ TtlReply(k, n) \in Replies
           /\ GetReply(k, e) \in Replies
           /\ DoneReply(k, e) \in Replies
  BY DEF NoReply, Reply, TtlReply, GetReply, DoneReply, Response, Replies

LEMMA KeylessReplyTypes ==
    /\ NoReply \in Replies
    /\ Reply("EXIT", NoEntry, "ERR") \in Replies
    /\ Reply("EXIT", NoEntry, "BYE") \in Replies
  BY DEF NoReply, Reply, Response, Replies

LEMMA RecordTypes ==
    ASSUME NEW k \in Keys, NEW e \in Entry \cup {NoEntry}
    PROVE  /\ RecordOf(k, e) \in Record
           /\ TornRecordOf(k, e) \in Record
           /\ RecordOf(k, e).key = k /\ RecordOf(k, e).entry = e
           /\ RecordOf(k, e).op = (IF e = NoEntry THEN "DEL" ELSE "SET")
           /\ TornRecordOf(k, e).op = "TORN"
  BY NoEntryAssumption DEF RecordOf, TornRecordOf, Record

\* SET records carry an entry and DEL records carry none.
LEMMA RecordShape ==
    ASSUME NEW r \in Record
    PROVE  /\ r.op \in {"SET", "DEL", "TORN"}
           /\ r.key \in Keys
           /\ r.entry \in Entry \cup {NoEntry}
           /\ r.op = "SET" => r.entry \in Entry
           /\ r.op = "DEL" => r.entry = NoEntry
  BY DEF Record

LEMMA TrailingExpiryType ==
    ASSUME NEW r \in Record, NEW t \in TrailingExpiries(r)
    PROVE  t \in Int
  <1>1. CASE t = 0
    BY <1>1
  <1>2. CASE t \in SpelledExpiries
    BY <1>2, StoreAssumption DEF StoreAssumption
  <1>3. CASE r.op = "SET" /\ t = r.entry.expires_at
    BY <1>3, RecordShape DEF Entry
  <1>. QED
    BY <1>1, <1>2, <1>3 DEF TrailingExpiries

LEMMA AppendType ==
    ASSUME NEW log \in Seq(Record), NEW r \in Record
    PROVE  Append(log, r) \in Seq(Record)
  OBVIOUS

LEMMA VisibleType ==
    ASSUME NEW e \in Entry \cup {NoEntry}, NEW t \in Int
    PROVE  Visible(e, t) \in Entry \cup {NoEntry}
  BY DEF Visible

\* A command in execution has a key, and a TTL in execution an entry.
CmdOK ==
    /\ pc \in {"append", "apply", "ttl"} => cmd.key \in Keys
    /\ pc = "ttl" => cmd.entry \in Entry

Typed == TypeOK /\ CmdOK

LEMMA InitTyped == Init => Typed
  <1>. SUFFICES ASSUME Init PROVE Typed
    OBVIOUS
  <1>. QED
    BY KeylessReplyTypes DEF Init, Typed, TypeOK, CmdOK, EmptyTable, NoCmd

LEMMA NextTyped == Typed /\ [Next]_vars => Typed'
  <1>. USE StoreAssumption
  <1>. SUFFICES ASSUME Typed, [Next]_vars PROVE Typed'
    OBVIOUS
  <1>. USE DEF Typed, TypeOK, CmdOK
  <1>1. CASE Start
    BY <1>1, KeylessReplyTypes DEF Start, EmptyTable
  <1>2. CASE LoadSet
    <2>1. aof[pos] \in Record
      BY <1>2 DEF LoadSet, Loading
    <2>2. aof[pos].key \in Keys /\ aof[pos].entry \in Entry \cup {NoEntry}
      BY <2>1, RecordShape
    <2>3. table' \in [Keys -> Entry \cup {NoEntry}]
      BY <1>2, <2>2 DEF LoadSet
    <2>. QED
      BY <1>2, <2>3, KeylessReplyTypes DEF LoadSet
  <1>3. CASE LoadDel
    <2>1. aof[pos] \in Record
      BY <1>3 DEF LoadDel, Loading
    <2>2. table' \in [Keys -> Entry \cup {NoEntry}]
      BY <1>3, <2>1, RecordShape DEF LoadDel
    <2>. QED
      BY <1>3, <2>2, KeylessReplyTypes DEF LoadDel
  <1>4. CASE LoadTorn
    BY <1>4, KeylessReplyTypes DEF LoadTorn, Loading, GiveUp, EmptyTable
  <1>5. CASE LoadGlued
    <2>1. PICK n \in (pos+1)..Len(aof) :
             /\ pos' = n + 1
             /\ \/ UNCHANGED table
                \/ \E v \in Values, t \in TrailingExpiries(aof[n]) :
                      table' = [table EXCEPT ![aof[pos].key] =
                                   [value |-> v, expires_at |-> t]]
      BY <1>5 DEF LoadGlued
    <2>2. aof[n] \in Record /\ aof[pos] \in Record
      BY <1>5, <2>1 DEF LoadGlued, Loading
    <2>3. table' \in [Keys -> Entry \cup {NoEntry}]
      <3>1. ASSUME NEW v \in Values, NEW t \in TrailingExpiries(aof[n]),
                   table' = [table EXCEPT ![aof[pos].key] =
                                [value |-> v, expires_at |-> t]],
                   NoEntry \notin Entry
            PROVE  table' \in [Keys -> Entry \cup {NoEntry}]
        <4>1. t \in Int
          BY <2>2, TrailingExpiryType
        <4>. QED
          BY <3>1, <4>1 DEF Entry
      <3>. QED
        BY <2>1, <3>1, NoEntryAssumption
    <2>4. pos' \in Nat \ {0}
      BY <2>1
    <2>. QED
      BY <1>5, <2>3, <2>4, KeylessReplyTypes DEF LoadGlued, Loading
  <1>6. CASE LoadDone
    BY <1>6, KeylessReplyTypes DEF LoadDone
  <1>7. CASE \E k \in Keys, v \in Values, s \in Seconds \cup {0} : Set(k, v, s)
    BY <1>7, KeylessReplyTypes DEF Set, AddTime, Entry
  <1>8. CASE \E k \in Keys : Del(k)
    BY <1>8, KeylessReplyTypes, ReplyTypes DEF Del
  <1>9. CASE \E k \in Keys : Get(k)
    BY <1>9, KeylessReplyTypes, ReplyTypes, VisibleType DEF Get
  <1>10. CASE \E k \in Keys : Ttl(k)
    BY <1>10, KeylessReplyTypes, ReplyTypes DEF Ttl, Visible, Entry
  <1>11. CASE \E k \in Keys : RewriteEntry(k)
    BY <1>11, KeylessReplyTypes, ReplyTypes, RecordTypes DEF RewriteEntry
  <1>12. CASE AppendOk
    BY <1>12, KeylessReplyTypes, RecordTypes, ReplyTypes DEF AppendOk
  <1>13. CASE AppendFails
    <2>1. cmd.key \in Keys
      BY <1>13 DEF AppendFails
    <2>2. reply' \in Replies
      <3>1. cmd.entry \in Entry \cup {NoEntry} /\ 0 \in Int
        OBVIOUS
      <3>2. reply' = Reply("DEL", cmd.key, "ERR") \/ reply' = Reply("SET", cmd.key, "ERR")
        BY <1>13 DEF AppendFails, CmdName
      <3>. QED
        BY <3>1, <3>2, <2>1, ReplyTypes
    <2>3. aof' \in Seq(Record)
      <3>1. /\ RecordOf(cmd.key, cmd.entry) \in Record
            /\ TornRecordOf(cmd.key, cmd.entry) \in Record
        BY <2>1, RecordTypes
      <3>2. \/ aof' = aof
            \/ aof' = Append(aof, RecordOf(cmd.key, cmd.entry))
            \/ aof' = Append(aof, TornRecordOf(cmd.key, cmd.entry))
        BY <1>13 DEF AppendFails
      <3>3. aof \in Seq(Record)
        OBVIOUS
      <3>4. /\ Append(aof, RecordOf(cmd.key, cmd.entry)) \in Seq(Record)
            /\ Append(aof, TornRecordOf(cmd.key, cmd.entry)) \in Seq(Record)
        BY <3>1, <3>3, AppendType
      <3>. QED
        BY ONLY <3>2, <3>3, <3>4
    <2>4. suspect' \subseteq Keys
      <3>1. suspect' = suspect \/ suspect' = suspect \cup {cmd.key}
        BY <1>13 DEF AppendFails
      <3>. QED
        BY <3>1, <2>1
    <2>. QED
      BY <1>13, <2>2, <2>3, <2>4 DEF AppendFails, NoCmd
  <1>14. CASE ApplyOk
    BY <1>14, KeylessReplyTypes, ReplyTypes DEF ApplyOk, NoCmd
  <1>15. CASE ApplyFails
    BY <1>15, KeylessReplyTypes, ReplyTypes DEF ApplyFails, NoCmd
  <1>16. CASE TtlAnswer
    <2>1. cmd.entry.expires_at - now \in Int
      BY <1>16 DEF TtlAnswer, Entry
    <2>2. PICK n \in Int : reply' = TtlReply(cmd.key, n)
      BY <1>16, <2>1 DEF TtlAnswer
    <2>3. cmd.key \in Keys
      BY <1>16 DEF TtlAnswer
    <2>4. reply' \in Replies
      BY <2>2, <2>3, ReplyTypes
    <2>. QED
      BY <1>16, <2>4 DEF TtlAnswer, NoCmd
  <1>17. CASE Exit
    BY <1>17, KeylessReplyTypes DEF Exit
  <1>18. CASE RewriteFails
    BY <1>18, KeylessReplyTypes DEF RewriteFails
  <1>19. CASE RewriteRename
    BY <1>19, KeylessReplyTypes DEF RewriteRename
  <1>20. CASE Tick
    BY <1>20, KeylessReplyTypes DEF Tick
  <1>21. CASE Crash
    <2>1. aof' \in Seq(Record)
      <3>1. CASE UNCHANGED aof
        BY <3>1
      <3>2. CASE pc = "append" /\ aof' = Append(aof, TornRecordOf(cmd.key, cmd.entry))
        <4>1. TornRecordOf(cmd.key, cmd.entry) \in Record
          BY <3>2, RecordTypes
        <4>. QED
          BY <3>2, <4>1, AppendType
      <3>. QED
        BY <1>21, <3>1, <3>2 DEF Crash
    <2>2. table' \in [Keys -> Entry \cup {NoEntry}]
      BY <1>21 DEF Crash, EmptyTable
    <2>. QED
      BY <1>21, <2>1, <2>2, KeylessReplyTypes DEF Crash, NoCmd
  <1>22. CASE UNCHANGED vars
    BY <1>22 DEF vars
  <1>23. CASE LoadUnread
    BY <1>23, KeylessReplyTypes DEF LoadUnread
  <1>24. CASE LoadFails
    BY <1>24, KeylessReplyTypes DEF LoadFails, Loading, GiveUp, EmptyTable
  <1>. QED
    BY <1>1, <1>2, <1>3, <1>4, <1>5, <1>6, <1>7, <1>8, <1>9, <1>10, <1>11, <1>12,
       <1>13, <1>14, <1>15, <1>16, <1>17, <1>18, <1>19, <1>20, <1>21, <1>22,
       <1>23, <1>24 DEF Next

\* The state variables keep their types: in particular the log holds only
\* whole and torn records, and the clock never becomes the "never" of
\* expires_at.
THEOREM TypeCorrect == Spec => []TypeOK
  <1>1. Typed => TypeOK
    BY DEF Typed
  <1>. QED
    BY <1>1, InitTyped, NextTyped, PTL DEF Spec

-----------------------------------------------------------------------------
(* The last word of a log on a key.                                        *)

LEMMA LastWordNext ==
    ASSUME NEW log, NEW n \in Nat, NEW k, NEW e
    PROVE  LastWord(log, n + 1, k, e) <=>
             IF log[n + 1].key = k THEN e = log[n + 1].entry
                                   ELSE LastWord(log, n, k, e)
  <1>1. ASSUME log[n + 1].key = k, LastWord(log, n + 1, k, e)
        PROVE  e = log[n + 1].entry
    BY <1>1 DEF LastWord
  <1>2. ASSUME log[n + 1].key = k, e = log[n + 1].entry
        PROVE  LastWord(log, n + 1, k, e)
    <2>. n + 1 \in 1..(n + 1) /\ \A j \in (n + 2)..(n + 1) : log[j].key # k
      OBVIOUS
    <2>. QED
      BY <1>2 DEF LastWord
  <1>3. ASSUME log[n + 1].key # k, LastWord(log, n + 1, k, e)
        PROVE  LastWord(log, n, k, e)
    BY <1>3 DEF LastWord
  <1>4. ASSUME log[n + 1].key # k, LastWord(log, n, k, e)
        PROVE  LastWord(log, n + 1, k, e)
    BY <1>4 DEF LastWord
  <1>. QED
    BY <1>1, <1>2, <1>3, <1>4

LEMMA LastWordSame ==
    ASSUME NEW f, NEW g, NEW n \in Nat, \A i \in 1..n : f[i] = g[i], NEW k, NEW e
    PROVE  LastWord(f, n, k, e) <=> LastWord(g, n, k, e)
  BY DEF LastWord

LEMMA LastWordAppend ==
    ASSUME NEW log \in Seq(Record), NEW r \in Record, NEW k, NEW e
    PROVE  LastWord(Append(log, r), Len(Append(log, r)), k, e) <=>
             IF r.key = k THEN e = r.entry ELSE LastWord(log, Len(log), k, e)
  <1>. DEFINE new == Append(log, r)
  <1>1. /\ Len(log) \in Nat
        /\ Len(new) = Len(log) + 1
        /\ new[Len(log) + 1] = r
        /\ \A i \in 1..Len(log) : new[i] = log[i]
    OBVIOUS
  <1>. HIDE DEF new
  <1>2. LastWord(new, Len(log), k, e) <=> LastWord(log, Len(log), k, e)
    BY <1>1, LastWordSame
  <1>3. LastWord(new, Len(log) + 1, k, e) <=>
           IF r.key = k THEN e = r.entry ELSE LastWord(new, Len(log), k, e)
    BY <1>1, LastWordNext
  <1>4. LastWord(new, Len(new), k, e) <=>
           IF r.key = k THEN e = r.entry ELSE LastWord(log, Len(log), k, e)
    BY <1>1, <1>2, <1>3
  <1>. QED
    BY <1>4 DEF new

LEMMA IntactAppend ==
    ASSUME NEW log \in Seq(Record), NEW r \in Record
    PROVE  Intact(Append(log, r)) <=> Intact(log) /\ r.op # "TORN"
  <1>1. DOMAIN Append(log, r) = DOMAIN log \cup {Len(log) + 1}
    OBVIOUS
  <1>2. /\ Append(log, r)[Len(log) + 1] = r
        /\ \A i \in DOMAIN log : Append(log, r)[i] = log[i]
    OBVIOUS
  <1>. QED
    BY <1>1, <1>2 DEF Intact

\* Time only ever hides an entry.
LEMMA VisibleLater ==
    ASSUME NEW e \in Entry \cup {NoEntry}, NEW t \in Int
    PROVE  /\ Visible(e, t) = NoEntry => Visible(e, t + 1) = NoEntry
           /\ e # NoEntry /\ ~Expired(e, t + 1) => ~Expired(e, t)
  BY NoEntryAssumption DEF Visible, Expired, Entry

-----------------------------------------------------------------------------
(* The inductive invariant.                                                *)

\* The loader stays within the file, and the record of a command that is
\* about to reach memory is the last one of the file.
LogInv ==
    /\ pc = "loading" => pos - 1 <= Len(aof)
    /\ pc = "apply" => /\ aof # <<>>
                       /\ aof[Len(aof)] = RecordOf(cmd.key, cmd.entry)

\* While EXIT scans the table, the new file has exactly one record for every
\* entry visited so far that is still live, and it is the entry in memory.
RewriteInv ==
    pc = "rewrite" =>
        /\ \A i \in DOMAIN tmp : /\ tmp[i].op = "SET"
                                 /\ tmp[i].key \in Keys \ todo
                                 /\ tmp[i].entry = table[tmp[i].key]
                                 /\ tmp[i].entry # NoEntry
        /\ \A i, j \in DOMAIN tmp : tmp[i].key = tmp[j].key => i = j
        /\ \A k \in Keys \ todo : Visible(table[k], now) # NoEntry =>
               \E i \in DOMAIN tmp : tmp[i].key = k
        /\ \A k \in todo : table[k] # NoEntry

\* No record of the new file is about a key the old file says is gone.
NoRevival ==
    pc = "rewrite" /\ Intact(aof) =>
        \A i \in DOMAIN tmp : tmp[i].key \notin suspect =>
            ~LastWord(aof, Len(aof), tmp[i].key, NoEntry)

\* MemoryMatchesLog with the entry ranging over all entries.
MemInv ==
    (pc = "loading" \/ Serving) /\ Intact(aof) =>
        \A k \in (Keys \ suspect) \ InFlight : \A e \in Entry \cup {NoEntry} :
            LastWord(aof, Seen, k, e) /\ (e # NoEntry => ~Expired(e, now))
                => Visible(table[k], now) = e

\* Between its two readings of the clock TTL holds the entry in the table.
TtlInv ==
    pc = "ttl" => cmd.entry = table[cmd.key] /\ cmd.entry.expires_at # 0

LEMMA InitInv ==
    Init => LogInv /\ RewriteInv /\ NoRevival /\ MemInv /\ TtlInv
  BY DEF Init, LogInv, RewriteInv, NoRevival, MemInv, TtlInv, Serving

LEMMA NextLogInv == Typed /\ LogInv /\ [Next]_vars => LogInv'
  <1>. SUFFICES ASSUME Typed, LogInv, [Next]_vars PROVE LogInv'
    OBVIOUS
  <1>. USE DEF Typed, TypeOK, CmdOK, LogInv
  <1>1. CASE /\ pc' # "apply"
             /\ pc' = "loading" => UNCHANGED <<pc, aof, pos>>
    BY <1>1
  <1>2. CASE Start
    BY <1>2 DEF Start
  <1>3. CASE LoadSet \/ LoadDel
    BY <1>3 DEF LoadSet, LoadDel, Loading
  <1>4. CASE LoadGlued
    BY <1>4 DEF LoadGlued, Loading
  <1>5. CASE AppendOk
    <2>1. RecordOf(cmd.key, cmd.entry) \in Record
      BY <1>5, RecordTypes DEF AppendOk
    <2>. QED
      BY <1>5, <2>1 DEF AppendOk
  <1>6. CASE Tick \/ UNCHANGED vars
    BY <1>6 DEF Tick, vars
  <1>7. CASE \/ LoadUnread \/ LoadFails \/ LoadTorn \/ LoadDone
             \/ TtlAnswer \/ Exit \/ RewriteFails \/ RewriteRename \/ AppendFails \/ ApplyOk \/ ApplyFails \/ Crash
    BY <1>7, <1>1 DEF LoadUnread, LoadFails, LoadTorn, GiveUp, LoadDone, TtlAnswer, Exit,
       RewriteFails, RewriteRename, AppendFails, ApplyOk, ApplyFails, Crash
  <1>8. CASE \/ \E k \in Keys, v \in Values, s \in Seconds \cup {0} : Set(k, v, s)
             \/ \E k \in Keys : Del(k) \/ Get(k) \/ Ttl(k) \/ RewriteEntry(k)
    BY <1>8, <1>1 DEF Set, Del, Get, Ttl, RewriteEntry
  <1>. QED
    BY <1>2, <1>3, <1>4, <1>5, <1>6, <1>7, <1>8 DEF Next

\* The steps that keep EXIT's scan as it is, or are no part of one.
LEMMA NextRewriteInv ==
    Typed /\ RewriteInv /\ [Next]_vars => RewriteInv'
  <1>. SUFFICES ASSUME Typed, RewriteInv, [Next]_vars, pc' = "rewrite" PROVE RewriteInv'
    BY DEF RewriteInv
  <1>. USE DEF Typed, TypeOK
  <1>1. CASE Exit
    <2>1. \A k \in Keys \ todo' : table'[k] = NoEntry
      BY <1>1 DEF Exit
    <2>2. \A k \in todo' : table'[k] # NoEntry
      BY <1>1 DEF Exit
    <2>3. tmp' = <<>>
      BY <1>1 DEF Exit
    <2>. QED
      BY <2>1, <2>2, <2>3 DEF RewriteInv, Visible
  <1>2. ASSUME NEW k \in Keys, RewriteEntry(k) PROVE RewriteInv'
    <2>1. /\ pc = "rewrite" /\ k \in todo /\ todo' = todo \ {k}
          /\ UNCHANGED <<table, now>>
          /\ table[k] \in Entry /\ table[k] # NoEntry
      BY <1>2, NoEntryAssumption DEF RewriteEntry, RewriteInv
    <2>2. CASE Expired(table[k], now)
      <3>1. UNCHANGED tmp
        BY <1>2, <2>2 DEF RewriteEntry
      <3>2. Visible(table[k], now) = NoEntry
        BY <2>1, <2>2 DEF Visible
      <3>. QED
        BY <2>1, <3>1, <3>2 DEF RewriteInv
    <2>3. CASE ~Expired(table[k], now)
      <3>. DEFINE r == RecordOf(k, table[k])
      <3>1. tmp' = Append(tmp, r)
        BY <1>2, <2>3 DEF RewriteEntry
      <3>2. r \in Record /\ r.op = "SET" /\ r.key = k /\ r.entry = table[k]
        BY <2>1, RecordTypes
      <3>. HIDE DEF r
      <3>3. /\ DOMAIN tmp' = DOMAIN tmp \cup {Len(tmp) + 1}
            /\ tmp'[Len(tmp) + 1] = r
            /\ \A i \in DOMAIN tmp : tmp'[i] = tmp[i]
        BY <3>1, <3>2
      <3>4. \A i \in DOMAIN tmp : tmp[i].key # k
        BY <2>1 DEF RewriteInv
      <3>5. \A i \in DOMAIN tmp' : /\ tmp'[i].op = "SET"
                                   /\ tmp'[i].key \in Keys \ todo'
                                   /\ tmp'[i].entry = table'[tmp'[i].key]
                                   /\ tmp'[i].entry # NoEntry
        BY <2>1, <3>2, <3>3 DEF RewriteInv
      <3>6. \A i, j \in DOMAIN tmp' : tmp'[i].key = tmp'[j].key => i = j
        BY <2>1, <3>2, <3>3, <3>4 DEF RewriteInv
      <3>7. \A x \in Keys \ todo' : Visible(table'[x], now') # NoEntry =>
               \E i \in DOMAIN tmp' : tmp'[i].key = x
        <4>. TAKE x \in Keys \ todo'
        <4>1. CASE x = k
          BY <4>1, <3>2, <3>3
        <4>2. CASE x # k
          BY <4>2, <2>1, <3>3 DEF RewriteInv
        <4>. QED
          BY <4>1, <4>2
      <3>8. \A x \in todo' : table'[x] # NoEntry
        BY <2>1 DEF RewriteInv
      <3>. QED
        BY <3>5, <3>6, <3>7, <3>8 DEF RewriteInv
    <2>. QED
      BY <2>2, <2>3
  <1>3. CASE Tick
    <2>1. /\ now' = now + 1 /\ now \in Int
          /\ UNCHANGED <<pc, table, tmp, todo>>
      BY <1>3 DEF Tick
    <2>2. \A k \in Keys : Visible(table[k], now') # NoEntry => Visible(table[k], now) # NoEntry
      BY <2>1, VisibleLater
    <2>. QED
      BY <2>1, <2>2 DEF RewriteInv
  <1>4. CASE UNCHANGED vars
    BY <1>4 DEF vars, RewriteInv
  <1>5. CASE \/ Start \/ LoadUnread \/ LoadSet \/ LoadFails \/ LoadDel \/ LoadTorn
             \/ LoadGlued \/ LoadDone
             \/ AppendOk \/ AppendFails \/ ApplyOk \/ ApplyFails \/ TtlAnswer
             \/ RewriteFails \/ RewriteRename \/ Crash
             \/ \E k \in Keys, v \in Values, s \in Seconds \cup {0} : Set(k, v, s)
             \/ \E k \in Keys : Del(k) \/ Get(k) \/ Ttl(k)
    BY <1>5 DEF Start, LoadUnread, LoadSet, LoadFails, LoadDel, LoadTorn, LoadGlued, Loading,
       LoadDone, GiveUp,
       AppendOk, AppendFails, ApplyOk, ApplyFails, TtlAnswer, RewriteFails, RewriteRename,
       Crash, Set, Del, Get, Ttl
  <1>. QED
    BY <1>1, <1>2, <1>3, <1>4, <1>5 DEF Next

LEMMA NextNoRevival ==
    Typed /\ RewriteInv /\ MemInv /\ NoRevival /\ [Next]_vars => NoRevival'
  <1>. SUFFICES ASSUME Typed, RewriteInv, MemInv, NoRevival, [Next]_vars, pc' = "rewrite"
                PROVE  NoRevival'
    BY DEF NoRevival
  <1>. USE DEF Typed, TypeOK
  <1>1. CASE Exit
    BY <1>1 DEF Exit, NoRevival
  <1>2. ASSUME NEW k \in Keys, RewriteEntry(k) PROVE NoRevival'
    <2>1. /\ pc = "rewrite" /\ k \in todo
          /\ UNCHANGED <<aof, suspect>>
          /\ table[k] \in Entry /\ table[k] # NoEntry
      BY <1>2, NoEntryAssumption DEF RewriteEntry, RewriteInv
    <2>2. CASE Expired(table[k], now)
      BY <1>2, <2>1, <2>2 DEF RewriteEntry, NoRevival
    <2>3. CASE ~Expired(table[k], now)
      <3>. DEFINE r == RecordOf(k, table[k])
      <3>1. tmp' = Append(tmp, r)
        BY <1>2, <2>3 DEF RewriteEntry
      <3>2. r \in Record /\ r.key = k
        BY <2>1, RecordTypes
      <3>. HIDE DEF r
      <3>3. /\ DOMAIN tmp' = DOMAIN tmp \cup {Len(tmp) + 1}
            /\ tmp'[Len(tmp) + 1] = r
            /\ \A i \in DOMAIN tmp : tmp'[i] = tmp[i]
        BY <3>1, <3>2
      <3>4. Visible(table[k], now) # NoEntry
        BY <2>1, <2>3 DEF Visible
      <3>5. Intact(aof) /\ k \notin suspect => ~LastWord(aof, Len(aof), k, NoEntry)
        BY <2>1, <3>4 DEF MemInv, Serving, Seen, InFlight
      <3>. QED
        BY <2>1, <3>2, <3>3, <3>5 DEF NoRevival
    <2>. QED
      BY <2>2, <2>3
  <1>3. CASE Tick \/ UNCHANGED vars
    BY <1>3 DEF Tick, vars, NoRevival
  <1>4. CASE \/ Start \/ LoadUnread \/ LoadSet \/ LoadFails \/ LoadDel \/ LoadTorn
             \/ LoadGlued \/ LoadDone
             \/ AppendOk \/ AppendFails \/ ApplyOk \/ ApplyFails \/ TtlAnswer
             \/ RewriteFails \/ RewriteRename \/ Crash
             \/ \E k \in Keys, v \in Values, s \in Seconds \cup {0} : Set(k, v, s)
             \/ \E k \in Keys : Del(k) \/ Get(k) \/ Ttl(k)
    BY <1>4 DEF Start, LoadUnread, LoadSet, LoadFails, LoadDel, LoadTorn, LoadGlued, Loading,
       LoadDone, GiveUp,
       AppendOk, AppendFails, ApplyOk, ApplyFails, TtlAnswer, RewriteFails, RewriteRename,
       Crash, Set, Del, Get, Ttl
  <1>. QED
    BY <1>1, <1>2, <1>3, <1>4 DEF Next

LEMMA NextMemInv ==
    Typed /\ LogInv /\ RewriteInv /\ MemInv /\ [Next]_vars => MemInv'
  <1>. SUFFICES ASSUME Typed, LogInv, RewriteInv, MemInv, [Next]_vars,
                       pc' = "loading" \/ Serving', Intact(aof'),
                       NEW k \in (Keys \ suspect') \ InFlight',
                       NEW e \in Entry \cup {NoEntry},
                       LastWord(aof', Seen', k, e),
                       e # NoEntry => ~Expired(e, now')
                PROVE  Visible(table'[k], now') = e
    BY DEF MemInv
  <1>. USE DEF Typed, TypeOK
  <1>1. CASE Start
    <2>1. Seen' = 0 /\ table'[k] = NoEntry
      BY <1>1 DEF Start, Seen, EmptyTable
    <2>2. e = NoEntry
      BY <2>1 DEF LastWord
    <2>. QED
      BY <2>1, <2>2 DEF Visible
  <1>2. CASE LoadSet \/ LoadDel
    <2>1. /\ pc = "loading" /\ pc' = "loading"
          /\ pos' = pos + 1 /\ pos - 1 \in Nat /\ pos <= Len(aof)
          /\ UNCHANGED <<aof, now, suspect>>
          /\ aof[pos] \in Record
      BY <1>2 DEF LoadSet, LoadDel, Loading
    <2>2. table' = IF aof[pos].op = "SET" /\ Expired(aof[pos].entry, now) THEN table
                   ELSE [table EXCEPT ![aof[pos].key] = aof[pos].entry]
      <3>1. CASE LoadSet
        BY <3>1, <2>1 DEF LoadSet
      <3>2. CASE LoadDel
        BY <3>2, <2>1, RecordShape DEF LoadDel
      <3>. QED
        BY <1>2, <3>1, <3>2
    <2>3. LastWord(aof, (pos - 1) + 1, k, e)
      BY <2>1 DEF Seen
    <2>4. IF aof[(pos - 1) + 1].key = k THEN e = aof[(pos - 1) + 1].entry
                                        ELSE LastWord(aof, pos - 1, k, e)
      BY <2>1, <2>3, LastWordNext
    <2>5. (pos - 1) + 1 = pos
      BY <2>1
    <2>6. IF aof[pos].key = k THEN e = aof[pos].entry ELSE LastWord(aof, pos - 1, k, e)
      BY <2>4, <2>5
    <2>7. CASE aof[pos].key = k
      <3>1. e = aof[pos].entry
        BY <2>6, <2>7
      <3>2. ~(aof[pos].op = "SET" /\ Expired(aof[pos].entry, now))
        BY <3>1, <2>1, RecordShape, NoEntryAssumption
      <3>3. table'[k] = e
        BY <3>1, <3>2, <2>2, <2>7
      <3>. QED
        BY <3>3, <2>1 DEF Visible
    <2>8. CASE aof[pos].key # k
      <3>1. table'[k] = table[k]
        BY <2>2, <2>8
      <3>2. Visible(table[k], now) = e
        BY <2>1, <2>6, <2>8 DEF MemInv, Seen, InFlight
      <3>. QED
        BY <3>1, <3>2, <2>1
    <2>. QED
      BY <2>7, <2>8
  <1>3. CASE LoadTorn \/ LoadFails \/ LoadUnread
    BY <1>3 DEF LoadTorn, LoadFails, LoadUnread, GiveUp, Serving
  <1>4. CASE LoadGlued
    BY <1>4 DEF LoadGlued, Loading, Intact
  <1>5. CASE LoadDone
    <2>1. /\ pc = "loading" /\ pc' = "ready" /\ Seen = Len(aof)
          /\ UNCHANGED <<table, aof, now, suspect>>
      BY <1>5 DEF LoadDone, LogInv, Seen
    <2>. QED
      BY <2>1 DEF MemInv, Seen, InFlight
  <1>6. CASE AppendOk
    <2>. DEFINE r == RecordOf(cmd.key, cmd.entry)
    <2>1. /\ pc = "append" /\ pc' = "apply" /\ aof' = Append(aof, r)
          /\ UNCHANGED <<table, now, suspect, cmd>>
      BY <1>6 DEF AppendOk
    <2>2. r \in Record /\ r.key = cmd.key
      BY <2>1, RecordTypes DEF CmdOK
    <2>. HIDE DEF r
    <2>3. k # r.key
      BY <2>1, <2>2 DEF InFlight
    <2>4. LastWord(aof, Len(aof), k, e) /\ Intact(aof)
      BY <2>1, <2>2, <2>3, LastWordAppend, IntactAppend DEF Seen
    <2>. QED
      BY <2>1, <2>4 DEF MemInv, Serving, Seen, InFlight
  <1>7. CASE AppendFails
    <2>1. /\ pc = "append" /\ pc' = "ready"
          /\ UNCHANGED <<table, now>> /\ suspect \subseteq suspect'
      BY <1>7 DEF AppendFails
    <2>2. CASE UNCHANGED aof
      BY <2>1, <2>2 DEF MemInv, Serving, Seen, InFlight
    <2>3. CASE aof' = Append(aof, TornRecordOf(cmd.key, cmd.entry))
      BY <2>1, <2>3, RecordTypes, IntactAppend DEF CmdOK
    <2>4. CASE /\ aof' = Append(aof, RecordOf(cmd.key, cmd.entry))
               /\ suspect' = suspect \cup {cmd.key}
      <3>. DEFINE r == RecordOf(cmd.key, cmd.entry)
      <3>1. r \in Record /\ r.key = cmd.key /\ aof' = Append(aof, r)
        BY <2>1, <2>4, RecordTypes DEF CmdOK
      <3>. HIDE DEF r
      <3>2. k # r.key
        BY <2>4, <3>1
      <3>3. LastWord(aof, Len(aof), k, e) /\ Intact(aof)
        BY <2>1, <3>1, <3>2, LastWordAppend, IntactAppend DEF Seen
      <3>. QED
        BY <2>1, <3>3 DEF MemInv, Serving, Seen, InFlight
    <2>. QED
      BY <1>7, <2>2, <2>3, <2>4 DEF AppendFails
  <1>8. CASE ApplyOk
    <2>1. /\ pc = "apply" /\ pc' = "ready"
          /\ table' = [table EXCEPT ![cmd.key] = cmd.entry]
          /\ suspect' = suspect \ {cmd.key}
          /\ UNCHANGED <<aof, now>>
          /\ cmd.key \in Keys /\ cmd.entry \in Entry \cup {NoEntry}
      BY <1>8 DEF ApplyOk, CmdOK
    <2>2. LastWord(aof, Len(aof), k, e)
      BY <2>1 DEF Seen
    <2>3. CASE k = cmd.key
      <3>1. /\ Len(aof) - 1 \in Nat /\ (Len(aof) - 1) + 1 = Len(aof)
            /\ aof[Len(aof)].key = k /\ aof[Len(aof)].entry = cmd.entry
        BY <2>1, <2>3, RecordTypes DEF LogInv
      <3>2. PICK n \in Nat : n + 1 = Len(aof)
        BY <3>1
      <3>3. LastWord(aof, n + 1, k, e)
        BY <2>2, <3>2
      <3>4. aof[n + 1].key = k /\ aof[n + 1].entry = cmd.entry
        BY <3>1, <3>2, Zenon
      <3>5. LastWord(aof, n + 1, k, e) <=>
              IF aof[n + 1].key = k THEN e = aof[n + 1].entry ELSE LastWord(aof, n, k, e)
        BY <3>2, LastWordNext, Zenon
      <3>6. e = cmd.entry
        BY <3>3, <3>4, <3>5, Zenon
      <3>. QED
        BY <2>1, <2>3, <3>6 DEF Visible
    <2>4. CASE k # cmd.key
      <3>1. table'[k] = table[k] /\ k \in (Keys \ suspect) \ InFlight
        BY <2>1, <2>4 DEF InFlight
      <3>. QED
        BY <2>1, <2>2, <3>1 DEF MemInv, Serving, Seen
    <2>. QED
      BY <2>3, <2>4
  <1>9. CASE ApplyFails
    <2>1. /\ pc = "apply" /\ pc' = "ready"
          /\ suspect' = suspect \cup {cmd.key}
          /\ UNCHANGED <<aof, now, table>>
      BY <1>9 DEF ApplyFails
    <2>. QED
      BY <2>1 DEF MemInv, Serving, Seen, InFlight
  <1>10. CASE RewriteRename
    <2>1. /\ pc = "rewrite" /\ pc' = "ready" /\ todo = {} /\ aof' = tmp
          /\ UNCHANGED <<table, now>> /\ Seen' = Len(tmp)
      BY <1>10 DEF RewriteRename, Seen
    <2>2. \A i \in DOMAIN tmp : tmp[i].key = k => tmp[i].entry = table[k] /\ table[k] # NoEntry
      BY <2>1 DEF RewriteInv
    <2>3. CASE e = NoEntry /\ \A i \in 1..Len(tmp) : tmp[i].key # k
      BY <2>1, <2>3 DEF RewriteInv
    <2>4. ASSUME NEW i \in 1..Len(tmp), tmp[i].key = k, tmp[i].entry = e
          PROVE  Visible(table'[k], now') = e
      BY <2>1, <2>2, <2>4 DEF Visible
    <2>. QED
      BY <2>1, <2>3, <2>4 DEF LastWord
  <1>11. CASE Tick
    <2>1. /\ now' = now + 1 /\ now \in Int /\ Seen' = Seen /\ InFlight' = InFlight
          /\ UNCHANGED <<pc, table, aof, suspect>>
      BY <1>11 DEF Tick, Seen, InFlight
    <2>2. e # NoEntry => ~Expired(e, now)
      BY <2>1, VisibleLater
    <2>3. Visible(table[k], now) = e
      BY <2>1, <2>2 DEF MemInv, Serving
    <2>4. CASE e = NoEntry
      BY <2>1, <2>3, <2>4, VisibleLater
    <2>5. CASE e # NoEntry
      BY <2>1, <2>3, <2>5 DEF Visible
    <2>. QED
      BY <2>4, <2>5
  <1>12. CASE Crash
    BY <1>12 DEF Crash, Serving
  <1>13. CASE UNCHANGED vars
    BY <1>13 DEF vars, MemInv, Serving, Seen, InFlight
  <1>14. CASE /\ pc \in {"ready", "ttl", "rewrite"}
              /\ pc' \in {"ready", "ttl", "rewrite", "append"}
              /\ UNCHANGED <<table, aof, now, suspect>>
    BY <1>14 DEF MemInv, Serving, Seen, InFlight
  <1>15. CASE \/ TtlAnswer \/ Exit \/ RewriteFails
              \/ \E x \in Keys, v \in Values, s \in Seconds \cup {0} : Set(x, v, s)
              \/ \E x \in Keys : Del(x) \/ Get(x) \/ Ttl(x) \/ RewriteEntry(x)
    BY <1>15, <1>14 DEF TtlAnswer, Exit, RewriteFails, Set, Del, Get, Ttl, RewriteEntry
  <1>. QED
    BY <1>1, <1>2, <1>3, <1>4, <1>5, <1>6, <1>7, <1>8, <1>9, <1>10, <1>11, <1>12,
       <1>13, <1>15 DEF Next

LEMMA NextTtlInv == TtlInv /\ [Next]_vars => TtlInv'
  <1>. SUFFICES ASSUME TtlInv, [Next]_vars, pc' = "ttl" PROVE TtlInv'
    BY DEF TtlInv
  <1>1. CASE \E k \in Keys : Ttl(k)
    BY <1>1 DEF Ttl, TtlInv
  <1>2. CASE Tick \/ UNCHANGED vars
    BY <1>2 DEF Tick, vars, TtlInv
  <1>3. CASE \/ Start \/ LoadUnread \/ LoadSet \/ LoadFails \/ LoadDel \/ LoadTorn
             \/ LoadGlued \/ LoadDone
             \/ AppendOk \/ AppendFails \/ ApplyOk \/ ApplyFails \/ TtlAnswer
             \/ Exit \/ RewriteFails \/ RewriteRename \/ Crash
             \/ \E k \in Keys, v \in Values, s \in Seconds \cup {0} : Set(k, v, s)
             \/ \E k \in Keys : Del(k) \/ Get(k) \/ RewriteEntry(k)
    BY <1>3 DEF Start, LoadUnread, LoadSet, LoadFails, LoadDel, LoadTorn, LoadGlued, Loading,
       LoadDone, GiveUp, AppendOk, AppendFails, ApplyOk, ApplyFails, TtlAnswer, Exit,
       RewriteFails, RewriteRename, Crash, Set, Del, Get, RewriteEntry, TtlInv
  <1>. QED
    BY <1>1, <1>2, <1>3 DEF Next

-----------------------------------------------------------------------------
(* The theorems.                                                           *)

IInv == Typed /\ LogInv /\ RewriteInv /\ NoRevival /\ MemInv /\ TtlInv

\* The inductive invariant holds in every reachable state.
THEOREM Invariant == Spec => []IInv
  <1>1. Init => IInv
    BY InitTyped, InitInv DEF IInv
  <1>2. IInv /\ [Next]_vars => IInv'
    BY NextTyped, NextLogInv, NextRewriteInv, NextNoRevival, NextMemInv, NextTtlInv DEF IInv
  <1>. QED
    BY <1>1, <1>2, PTL DEF Spec

LEMMA WordTypes ==
    ASSUME NEW log \in Seq(Record)
    PROVE  Words(log) \subseteq Entry \cup {NoEntry}
  BY RecordShape DEF Words

\* Whatever the sequence of commands, expiries, failed allocations and writes,
\* crashes and restarts: what clients see is what the file recovers.
THEOREM MemoryMatchesLogAlways == Spec => []MemoryMatchesLog
  <1>1. IInv => MemoryMatchesLog
    <2>. SUFFICES ASSUME IInv PROVE MemoryMatchesLog
      OBVIOUS
    <2>1. Words(aof) \subseteq Entry \cup {NoEntry}
      BY WordTypes DEF IInv, Typed, TypeOK
    <2>. QED
      BY <2>1 DEF IInv, MemInv, MemoryMatchesLog
  <1>. QED
    BY <1>1, Invariant, PTL

\* Only a finished EXIT says BYE.
LEMMA ByeIsRename ==
    ASSUME Typed, Next, reply'.result = "BYE"
    PROVE  RewriteRename
  <1>1. ASSUME reply' = NoReply PROVE FALSE
    BY <1>1 DEF NoReply, Response
  <1>2. CASE \/ Start \/ LoadUnread \/ LoadSet \/ LoadFails \/ LoadDel \/ LoadTorn
             \/ LoadGlued \/ LoadDone
             \/ AppendOk \/ Exit \/ Tick \/ Crash
             \/ \E k \in Keys, v \in Values, s \in Seconds \cup {0} : Set(k, v, s)
             \/ \E k \in Keys : RewriteEntry(k)
    BY <1>1, <1>2 DEF Start, LoadUnread, LoadSet, LoadFails, LoadDel, LoadTorn, GiveUp,
       LoadGlued, LoadDone, AppendOk, Exit, Tick, Crash, Set, RewriteEntry
  <1>3. /\ \A to, k, result : Reply(to, k, result).result = result
        /\ \A k, n : TtlReply(k, n).result = "seconds"
        /\ \A k, e : GetReply(k, e).result \in {"nil", "value"}
        /\ \A k, e : DoneReply(k, e).result \in {"1", "OK"}
    BY DEF Reply, TtlReply, GetReply, DoneReply, Response
  <1>4. CASE \E k \in Keys : Del(k) \/ Get(k) \/ Ttl(k)
    BY <1>1, <1>3, <1>4 DEF Del, Get, Ttl
  <1>5. CASE AppendFails \/ ApplyOk \/ ApplyFails \/ TtlAnswer \/ RewriteFails
    BY <1>1, <1>3, <1>5 DEF AppendFails, ApplyOk, ApplyFails, TtlAnswer, RewriteFails
  <1>. QED
    BY <1>2, <1>4, <1>5, Zenon DEF Next

LEMMA CompactionStep ==
    ASSUME IInv, RewriteRename, Intact(aof),
           NEW k \in Keys \ suspect, NEW e \in Entry \cup {NoEntry},
           LastWord(aof, Len(aof), k, e), e # NoEntry => ~Expired(e, now)
    PROVE  LastWord(aof', Len(aof'), k, e)
  <1>1. /\ pc = "rewrite" /\ todo = {} /\ aof' = tmp
        /\ tmp \in Seq(Record) /\ table[k] \in Entry \cup {NoEntry}
    BY DEF RewriteRename, IInv, Typed, TypeOK
  <1>2. CASE e = NoEntry
    BY <1>1, <1>2 DEF IInv, NoRevival, LastWord
  <1>3. CASE e # NoEntry
    <2>1. Visible(table[k], now) = e
      BY <1>1 DEF IInv, MemInv, Serving, Seen, InFlight
    <2>2. table[k] = e
      BY <1>3, <2>1 DEF Visible
    <2>3. PICK i \in DOMAIN tmp : tmp[i].key = k
      BY <1>1, <1>3, <2>1 DEF IInv, RewriteInv
    <2>4. tmp[i].entry = e
      BY <1>1, <2>2, <2>3 DEF IInv, RewriteInv
    <2>5. i \in 1..Len(tmp) /\ \A j \in (i+1)..Len(tmp) : tmp[j].key # k
      BY <1>1, <2>3 DEF IInv, RewriteInv
    <2>. QED
      BY <1>1, <2>3, <2>4, <2>5 DEF LastWord
  <1>. QED
    BY <1>2, <1>3

\* EXIT replaces the file by one that says the same, for every database.
THEOREM CompactionKeepsBindingsAlways == Spec => CompactionKeepsBindings
  <1>. DEFINE Kept ==
         reply'.result = "BYE" /\ Intact(aof) =>
          \A k \in Keys \ suspect : \A e \in Words(aof) :
              LastWord(aof, Len(aof), k, e) /\ (e # NoEntry => ~Expired(e, now))
                  => LastWord(aof', Len(aof'), k, e)
  <1>1. IInv /\ Next => Kept
    <2>. SUFFICES ASSUME IInv, Next, reply'.result = "BYE", Intact(aof),
                         NEW k \in Keys \ suspect, NEW e \in Words(aof),
                         LastWord(aof, Len(aof), k, e), e # NoEntry => ~Expired(e, now)
                  PROVE  LastWord(aof', Len(aof'), k, e)
      OBVIOUS
    <2>1. e \in Entry \cup {NoEntry}
      BY WordTypes DEF IInv, Typed, TypeOK
    <2>2. RewriteRename
      BY ByeIsRename DEF IInv
    <2>. QED
      BY <2>1, <2>2, CompactionStep
  <1>2. IInv /\ [Next]_vars => [Kept]_vars
    BY <1>1
  <1>. QED
    BY <1>2, Invariant, PTL DEF Spec, CompactionKeepsBindings

-----------------------------------------------------------------------------
(* Answers.                                                                *)

\* Between commands the table shows the last word of the file.
LEMMA TableShowsLastWord ==
    ASSUME IInv, pc \in {"ready", "ttl"}, Intact(aof), NEW k \in Keys \ suspect,
           NEW e \in Entry \cup {NoEntry},
           LastWord(aof, Len(aof), k, e), e # NoEntry => ~Expired(e, now)
    PROVE  Visible(table[k], now) = e
  BY DEF IInv, MemInv, Serving, Seen, InFlight

\* A command that is about to be stored is the last word on its key.
LEMMA StoredIsLastWord ==
    ASSUME IInv, pc = "apply", NEW e, LastWord(aof, Len(aof), cmd.key, e)
    PROVE  e = cmd.entry
  <1>1. /\ aof # <<>> /\ aof \in Seq(Record)
        /\ aof[Len(aof)] = RecordOf(cmd.key, cmd.entry)
    BY DEF IInv, LogInv, Typed, TypeOK
  <1>2. /\ Len(aof) - 1 \in Nat /\ (Len(aof) - 1) + 1 = Len(aof)
        /\ aof[Len(aof)].key = cmd.key /\ aof[Len(aof)].entry = cmd.entry
    BY <1>1 DEF RecordOf
  <1>3. LastWord(aof, (Len(aof) - 1) + 1, cmd.key, e)
    BY <1>2
  <1>4. IF aof[(Len(aof) - 1) + 1].key = cmd.key THEN e = aof[(Len(aof) - 1) + 1].entry
        ELSE LastWord(aof, Len(aof) - 1, cmd.key, e)
    BY <1>2, <1>3, LastWordNext
  <1>. QED
    BY <1>2, <1>4

LEMMA GetAnswers ==
    ASSUME IInv, NEW k \in Keys, Get(k) PROVE AnswersMatchLog'
  <1>1. /\ pc = "ready" /\ UNCHANGED <<aof, now, suspect>>
        /\ reply' = GetReply(k, Visible(table[k], now))
        /\ Words(aof) \subseteq Entry \cup {NoEntry}
    BY WordTypes DEF Get, IInv, Typed, TypeOK
  <1>2. /\ reply'.to = "GET" /\ reply'.key = k /\ reply'.entry = Visible(table[k], now)
        /\ reply'.result \in {"nil", "value"}
    BY <1>1 DEF GetReply, Response
  <1>. QED
    BY <1>1, <1>2, TableShowsLastWord DEF AnswersMatchLog, Agrees

LEMMA DelAnswers ==
    ASSUME IInv, NEW k \in Keys, Del(k) PROVE AnswersMatchLog'
  <1>1. /\ pc = "ready" /\ UNCHANGED <<aof, now, suspect>>
        /\ Words(aof) \subseteq Entry \cup {NoEntry}
    BY WordTypes DEF Del, IInv, Typed, TypeOK
  <1>2. CASE Visible(table[k], now) = NoEntry
    <2>1. reply'.to = "DEL" /\ reply'.key = k /\ reply'.result = "0"
      BY <1>2 DEF Del, Reply, Response
    <2>. QED
      BY <1>1, <1>2, <2>1, TableShowsLastWord DEF AnswersMatchLog, Agrees
  <1>3. CASE Visible(table[k], now) # NoEntry
    BY <1>3 DEF Del, NoReply, Response, AnswersMatchLog
  <1>. QED
    BY <1>2, <1>3

LEMMA TtlStartAnswers ==
    ASSUME IInv, NEW k \in Keys, Ttl(k) PROVE AnswersMatchLog'
  <1>1. /\ pc = "ready" /\ UNCHANGED <<aof, now, suspect>>
        /\ Words(aof) \subseteq Entry \cup {NoEntry}
    BY WordTypes DEF Ttl, IInv, Typed, TypeOK
  <1>2. CASE Visible(table[k], now) = NoEntry
    <2>1. reply'.to = "TTL" /\ reply'.key = k /\ reply'.ttl = -2 /\ reply'.result = "seconds"
      BY <1>2 DEF Ttl, TtlReply, Response
    <2>. QED
      BY <1>1, <1>2, <2>1, TableShowsLastWord DEF AnswersMatchLog, Agrees, Remaining
  <1>3. CASE Visible(table[k], now) # NoEntry /\ table[k].expires_at = 0
    <2>1. reply'.to = "TTL" /\ reply'.key = k /\ reply'.ttl = -1 /\ reply'.result = "seconds"
      BY <1>3 DEF Ttl, TtlReply, Response
    <2>2. Visible(table[k], now) = table[k]
      BY <1>3 DEF Visible
    <2>. QED
      BY <1>1, <1>3, <2>1, <2>2, TableShowsLastWord DEF AnswersMatchLog, Agrees, Remaining
  <1>4. CASE Visible(table[k], now) # NoEntry /\ table[k].expires_at # 0
    BY <1>4 DEF Ttl, NoReply, Response, AnswersMatchLog
  <1>. QED
    BY <1>2, <1>3, <1>4

LEMMA TtlEndAnswers ==
    ASSUME IInv, TtlAnswer PROVE AnswersMatchLog'
  <1>. DEFINE k == cmd.key
              remaining == cmd.entry.expires_at - now
  <1>1. /\ pc = "ttl" /\ UNCHANGED <<aof, now, suspect>>
        /\ reply' = TtlReply(k, IF remaining <= 0 THEN -2 ELSE remaining)
        /\ Words(aof) \subseteq Entry \cup {NoEntry}
        /\ k \in Keys /\ cmd.entry = table[k] /\ table[k] \in Entry
        /\ table[k].expires_at \in Int /\ now \in Int /\ table[k].expires_at # 0
        /\ table[k] # NoEntry
    BY WordTypes, NoEntryAssumption DEF TtlAnswer, IInv, Typed, TypeOK, CmdOK, TtlInv, Entry
  <1>2. /\ reply'.to = "TTL" /\ reply'.key = k /\ reply'.result = "seconds"
        /\ reply'.ttl = IF remaining <= 0 THEN -2 ELSE remaining
    BY <1>1 DEF TtlReply, Response
  <1>3. Visible(table[k], now) = IF remaining <= 0 THEN NoEntry ELSE table[k]
    BY <1>1 DEF Visible, Expired
  <1>4. reply'.ttl = Remaining(Visible(table[k], now), now)
    BY <1>1, <1>2, <1>3 DEF Remaining
  <1>5. reply'.ttl \in {-2, -1} \/ reply'.ttl > 0
    BY <1>1, <1>2
  <1>. HIDE DEF k, remaining
  <1>. QED
    BY <1>1, <1>2, <1>4, <1>5, TableShowsLastWord DEF AnswersMatchLog, Agrees

LEMMA ApplyAnswers ==
    ASSUME IInv, ApplyOk PROVE AnswersMatchLog'
  <1>1. /\ pc = "apply" /\ UNCHANGED <<aof, now>>
        /\ reply' = DoneReply(cmd.key, cmd.entry)
    BY DEF ApplyOk
  <1>2. /\ reply'.to \in {"SET", "DEL"} /\ reply'.key = cmd.key
        /\ reply'.result = IF cmd.entry = NoEntry THEN "1" ELSE "OK"
    BY <1>1 DEF DoneReply, Reply, Response
  <1>. QED
    BY <1>1, <1>2, StoredIsLastWord DEF AnswersMatchLog, Agrees

\* Every answer to a GET, TTL, SET or DEL agrees with what the file says, and
\* TTL never shows a remainder that is not positive, however the clock moves
\* between its two readings.
THEOREM AnswersMatchLogAlways == Spec => []AnswersMatchLog
  <1>1. Init => AnswersMatchLog
    BY DEF Init, NoReply, Response, AnswersMatchLog
  <1>2. IInv /\ AnswersMatchLog /\ [Next]_vars => AnswersMatchLog'
    <2>. SUFFICES ASSUME IInv, AnswersMatchLog, [Next]_vars PROVE AnswersMatchLog'
      OBVIOUS
    <2>1. CASE UNCHANGED vars
      BY <2>1 DEF vars, AnswersMatchLog
    <2>2. CASE \E k \in Keys : Del(k) \/ Get(k) \/ Ttl(k)
      BY <2>2, DelAnswers, GetAnswers, TtlStartAnswers
    <2>3. CASE TtlAnswer \/ ApplyOk
      BY <2>3, TtlEndAnswers, ApplyAnswers
    <2>4. CASE AppendFails \/ ApplyFails \/ RewriteFails \/ RewriteRename
      <3>1. /\ reply'.to # "GET" /\ reply'.to # "TTL"
            /\ reply'.result \notin {"0", "1", "OK"}
        BY <2>4 DEF AppendFails, CmdName, ApplyFails, RewriteFails, RewriteRename, Reply, Response
      <3>. QED
        BY <3>1 DEF AnswersMatchLog, Agrees
    <2>5. CASE \/ Start \/ LoadUnread \/ LoadSet \/ LoadFails \/ LoadDel \/ LoadTorn
               \/ LoadGlued \/ LoadDone
               \/ AppendOk \/ Exit \/ Tick \/ Crash
               \/ \E k \in Keys, v \in Values, s \in Seconds \cup {0} : Set(k, v, s)
               \/ \E k \in Keys : RewriteEntry(k)
      <3>1. reply' = NoReply
        BY <2>5 DEF Start, LoadUnread, LoadSet, LoadFails, LoadDel, LoadTorn, GiveUp,
           LoadGlued, LoadDone, AppendOk, Exit, Tick, Crash, Set, RewriteEntry
      <3>. QED
        BY <3>1 DEF NoReply, Response, AnswersMatchLog
    <2>. QED
      BY <2>1, <2>2, <2>3, <2>4, <2>5 DEF Next
  <1>. QED
    BY <1>1, <1>2, Invariant, PTL DEF Spec

-----------------------------------------------------------------------------
(* The map: what its invariant adds to the ones above.                     *)

\* Records that no append was interrupted in.
Whole == Intact(aof)

\* The file can be loaded: the rule of MapSpec outlives the crash.
Restartable ==
    pc \in {"down", "refused", "starved", "loading"} => NoOldValueBehindExpiry

\* The loader keeps nothing of a key that is deleted, or not mentioned yet.
Forgotten ==
    pc = "loading" =>
        \A k \in Keys : LastWord(aof, pos - 1, k, NoEntry) => table[k] = NoEntry

\* Keys whose last record memory reflects: the loader has come past it, and
\* no command is between its append and its store.
Settled(k) ==
    /\ pc = "loading" => \A p \in pos..Len(aof) : aof[p].key # k
    /\ k \notin InFlight

\* A client sees what the file says, of what has expired too.
SameView ==
    pc = "loading" \/ Serving =>
        \A k \in Keys : Settled(k) =>
            Visible(table[k], now) = Visible(LoggedEntry(aof, k), now)

MapInv == IInv /\ Whole /\ Restartable /\ Forgotten /\ SameView

\* The disk and the memory hold out: an append that fails leaves no part of
\* its record, malloc and fopen succeed.
Reliable == AppendFaults \subseteq {"none"} /\ ~AllocMayFail /\ ~OpenMayFail

-----------------------------------------------------------------------------
(* The last entry that a log says of a key.                                *)

LEMMA WordUnique ==
    ASSUME NEW log, NEW n \in Nat, NEW k, NEW e, NEW f,
           LastWord(log, n, k, e), LastWord(log, n, k, f)
    PROVE  e = f
  <1>1. CASE \A i \in 1..n : log[i].key # k
    <2>1. e = NoEntry
      BY <1>1 DEF LastWord
    <2>2. f = NoEntry
      BY <1>1 DEF LastWord
    <2>. QED
      BY <2>1, <2>2
  <1>2. CASE ~\A i \in 1..n : log[i].key # k
    <2>1. PICK i \in 1..n : log[i].key = k /\ log[i].entry = e /\ \A j \in (i+1)..n : log[j].key # k
      BY <1>2, Zenon DEF LastWord
    <2>2. PICK j \in 1..n : log[j].key = k /\ log[j].entry = f /\ \A m \in (j+1)..n : log[m].key # k
      BY <1>2, Zenon DEF LastWord
    <2>3. i = j
      <3>1. ~(i < j)
        BY <2>1, <2>2
      <3>2. ~(j < i)
        BY <2>1, <2>2
      <3>. QED
        BY <3>1, <3>2
    <2>. QED
      BY <2>1, <2>2, <2>3
  <1>. QED
    BY <1>1, <1>2

\* LoggedEntry is the last word of the whole log.
LEMMA LoggedWord ==
    ASSUME NEW log \in Seq(Record), NEW k
    PROVE  LastWord(log, Len(log), k, LoggedEntry(log, k))
  <1>. DEFINE about == {i \in DOMAIN log : log[i].key = k}
              n == Len(log)
  <1>1. n \in Nat /\ DOMAIN log = 1..n
    OBVIOUS
  <1>2. CASE about = {}
    <2>1. LoggedEntry(log, k) = NoEntry
      BY <1>2 DEF LoggedEntry
    <2>2. \A i \in 1..n : log[i].key # k
      BY <1>1, <1>2
    <2>. QED
      BY <2>1, <2>2 DEF LastWord
  <1>3. CASE about # {}
    <2>. DEFINE last == CHOOSE i \in about : \A j \in about : j <= i
    <2>1. about \in SUBSET (0..n)
      BY <1>1
    <2>2. \E i \in about : \A j \in about : j <= i
      <3>. HIDE DEF about, n
      <3>. QED
        BY <1>1, <1>3, <2>1, GreatestNumber
    <2>3. last \in about /\ \A j \in about : j <= last
      BY <2>2
    <2>4. LoggedEntry(log, k) = log[last].entry
      BY <1>3 DEF LoggedEntry
    <2>. HIDE DEF last
    <2>5. last \in 1..n /\ log[last].key = k
      BY <1>1, <2>3
    <2>6. \A j \in (last + 1)..n : log[j].key # k
      <3>1. ASSUME NEW j \in (last + 1)..n, log[j].key = k
            PROVE  FALSE
        <4>1. j \in 1..n
          BY <1>1, <2>5
        <4>2. j <= last
          BY <1>1, <2>3, <3>1, <4>1
        <4>. QED
          BY <1>1, <2>5, <4>2
      <3>. QED
        BY <3>1
    <2>. QED
      BY <2>4, <2>5, <2>6 DEF LastWord
  <1>. QED
    BY <1>2, <1>3

LEMMA WordIsLogged ==
    ASSUME NEW log \in Seq(Record), NEW k, NEW e, LastWord(log, Len(log), k, e)
    PROVE  LoggedEntry(log, k) = e
  <1>1. Len(log) \in Nat
    OBVIOUS
  <1>. QED
    BY <1>1, LoggedWord, WordUnique

LEMMA LoggedType ==
    ASSUME NEW log \in Seq(Record), NEW k
    PROVE  LoggedEntry(log, k) \in Entry \cup {NoEntry}
  <1>1. LastWord(log, Len(log), k, LoggedEntry(log, k))
    BY LoggedWord
  <1>2. \A i \in 1..Len(log) : log[i] \in Record
    OBVIOUS
  <1>3. \A i \in 1..Len(log) : log[i].entry \in Entry \cup {NoEntry}
    BY <1>2, RecordShape
  <1>. QED
    BY <1>1, <1>3, Zenon DEF LastWord

\* A record that is appended is the last word on its key.
LEMMA LoggedAppend ==
    ASSUME NEW log \in Seq(Record), NEW r \in Record, NEW k
    PROVE  LoggedEntry(Append(log, r), k) = IF r.key = k THEN r.entry ELSE LoggedEntry(log, k)
  <1>1. Append(log, r) \in Seq(Record)
    OBVIOUS
  <1>2. LastWord(Append(log, r), Len(Append(log, r)), k,
                 IF r.key = k THEN r.entry ELSE LoggedEntry(log, k))
    BY LastWordAppend, LoggedWord, Zenon
  <1>. QED
    BY <1>1, <1>2, WordIsLogged

\* What is visible of an entry can only disappear.
LEMMA VisibleTwice ==
    ASSUME NEW e \in Entry \cup {NoEntry}, NEW t \in Int
    PROVE  Visible(Visible(e, t), t + 1) = Visible(e, t + 1)
  <1>1. CASE e = NoEntry
    BY <1>1 DEF Visible
  <1>2. CASE e \in Entry
    BY <1>2 DEF Visible, Expired, Entry
  <1>. QED
    BY <1>1, <1>2

LEMMA SameViewLater ==
    ASSUME NEW e \in Entry \cup {NoEntry}, NEW f \in Entry \cup {NoEntry}, NEW t \in Int,
           Visible(e, t) = Visible(f, t)
    PROVE  Visible(e, t + 1) = Visible(f, t + 1)
  <1>1. Visible(Visible(e, t), t + 1) = Visible(e, t + 1)
    BY VisibleTwice
  <1>2. Visible(Visible(f, t), t + 1) = Visible(f, t + 1)
    BY VisibleTwice
  <1>. QED
    BY <1>1, <1>2

-----------------------------------------------------------------------------
(* The steps that change the file.                                         *)

LEMMA FileChanges ==
    ASSUME Reliable, [Next]_vars
    PROVE  UNCHANGED aof \/ AppendOk \/ RewriteRename
  <1>. USE DEF Reliable
  <1>1. CASE UNCHANGED vars
    BY <1>1 DEF vars
  <1>2. CASE \/ Start \/ LoadUnread \/ LoadSet \/ LoadFails \/ LoadDel
             \/ LoadTorn \/ LoadGlued \/ LoadDone
    BY <1>2 DEF Start, LoadUnread, LoadSet, LoadFails, LoadDel, LoadTorn, LoadGlued, LoadDone, GiveUp
  <1>3. CASE \E k \in Keys, v \in Values, s \in Seconds \cup {0} : Set(k, v, s)
    BY <1>3 DEF Set
  <1>4. CASE \E k \in Keys : Del(k) \/ Get(k) \/ Ttl(k) \/ RewriteEntry(k)
    BY <1>4 DEF Del, Get, Ttl, RewriteEntry
  <1>5. CASE AppendFails \/ ApplyOk \/ ApplyFails
    BY <1>5 DEF AppendFails, ApplyOk, ApplyFails
  <1>6. CASE TtlAnswer \/ Exit \/ RewriteFails \/ Tick \/ Crash
    BY <1>6 DEF TtlAnswer, Exit, RewriteFails, Tick, Crash
  <1>. QED
    BY <1>1, <1>2, <1>3, <1>4, <1>5, <1>6, Zenon DEF Next

LEMMA WholeStep ==
    ASSUME Reliable, IInv, Whole, [Next]_vars
    PROVE  Whole'
  <1>1. CASE UNCHANGED aof
    BY <1>1 DEF Whole, Intact
  <1>2. CASE AppendOk
    <2>1. aof \in Seq(Record) /\ cmd.key \in Keys /\ cmd.entry \in Entry \cup {NoEntry}
      BY <1>2 DEF IInv, Typed, TypeOK, CmdOK, AppendOk
    <2>2. RecordOf(cmd.key, cmd.entry) \in Record /\ RecordOf(cmd.key, cmd.entry).op # "TORN"
      BY <2>1, RecordTypes
    <2>3. aof' = Append(aof, RecordOf(cmd.key, cmd.entry))
      BY <1>2 DEF AppendOk
    <2>. QED
      BY <2>1, <2>2, <2>3, IntactAppend DEF Whole
  <1>3. CASE RewriteRename
    BY <1>3 DEF RewriteRename, IInv, RewriteInv, Whole, Intact
  <1>. QED
    BY <1>1, <1>2, <1>3, FileChanges

-----------------------------------------------------------------------------
(* Loading.                                                                *)

\* The rule about dying: it is about the states the process dies in.
DiesInTime == pc' = "down" => NoOldValueBehindExpiry

LEMMA StaysDown ==
    ASSUME [Next]_vars, pc' \in {"refused", "starved", "loading"}
    PROVE  pc \in {"down", "refused", "starved", "loading"} /\ UNCHANGED aof
  <1>1. CASE UNCHANGED vars
    BY <1>1 DEF vars
  <1>2. CASE \/ Start \/ LoadUnread \/ LoadSet \/ LoadFails \/ LoadDel
             \/ LoadTorn \/ LoadGlued \/ LoadDone
    BY <1>2 DEF Start, LoadUnread, LoadSet, LoadFails, LoadDel, LoadTorn, LoadGlued, LoadDone,
       Loading, GiveUp
  <1>3. CASE \E k \in Keys, v \in Values, s \in Seconds \cup {0} : Set(k, v, s)
    BY <1>3 DEF Set
  <1>4. CASE \E k \in Keys : Del(k) \/ Get(k) \/ Ttl(k) \/ RewriteEntry(k)
    BY <1>4 DEF Del, Get, Ttl, RewriteEntry
  <1>5. CASE AppendOk \/ AppendFails \/ ApplyOk \/ ApplyFails
    BY <1>5 DEF AppendOk, AppendFails, ApplyOk, ApplyFails
  <1>6. CASE TtlAnswer \/ Exit \/ RewriteFails \/ RewriteRename \/ Tick \/ Crash
    BY <1>6 DEF TtlAnswer, Exit, RewriteFails, RewriteRename, Tick, Crash
  <1>. QED
    BY <1>1, <1>2, <1>3, <1>4, <1>5, <1>6, Zenon DEF Next

LEMMA RestartableStep ==
    ASSUME Reliable, Restartable, [Next]_vars, DiesInTime
    PROVE  Restartable'
  <1>1. CASE pc' = "down"
    <2>1. UNCHANGED aof
      BY <1>1, FileChanges DEF AppendOk, RewriteRename
    <2>. QED
      BY <1>1, <2>1 DEF DiesInTime, Restartable, NoOldValueBehindExpiry
  <1>2. CASE pc' \in {"refused", "starved", "loading"}
    <2>1. NoOldValueBehindExpiry /\ UNCHANGED aof
      BY <1>2, StaysDown DEF Restartable
    <2>. QED
      BY <2>1 DEF Restartable, NoOldValueBehindExpiry
  <1>3. CASE pc' \notin {"down", "refused", "starved", "loading"}
    BY <1>3 DEF Restartable
  <1>. QED
    BY <1>1, <1>2, <1>3

\* With a whole file and enough memory, loading reads record after record.
LEMMA LoadingSteps ==
    ASSUME Reliable, IInv, Whole, [Next]_vars, pc' = "loading"
    PROVE  \/ Start \/ LoadSet \/ LoadDel
           \/ pc = "loading" /\ UNCHANGED <<table, aof, pos>>
  <1>1. CASE UNCHANGED vars
    BY <1>1 DEF vars
  <1>2. CASE Start \/ LoadSet \/ LoadDel
    BY <1>2
  <1>3. CASE LoadUnread \/ LoadFails \/ LoadTorn \/ LoadDone
    BY <1>3 DEF LoadUnread, LoadFails, LoadTorn, LoadDone, GiveUp
  <1>4. CASE LoadGlued
    BY <1>4 DEF LoadGlued, Loading, Whole, Intact, IInv, Typed, TypeOK
  <1>5. CASE \E k \in Keys, v \in Values, s \in Seconds \cup {0} : Set(k, v, s)
    BY <1>5 DEF Set
  <1>6. CASE \E k \in Keys : Del(k) \/ Get(k) \/ Ttl(k) \/ RewriteEntry(k)
    BY <1>6 DEF Del, Get, Ttl, RewriteEntry
  <1>7. CASE AppendOk \/ AppendFails \/ ApplyOk \/ ApplyFails
    BY <1>7 DEF AppendOk, AppendFails, ApplyOk, ApplyFails
  <1>8. CASE TtlAnswer \/ Exit \/ RewriteFails \/ RewriteRename \/ Tick \/ Crash
    BY <1>8 DEF TtlAnswer, Exit, RewriteFails, RewriteRename, Tick, Crash
  <1>. QED
    BY <1>1, <1>2, <1>3, <1>4, <1>5, <1>6, <1>7, <1>8, Zenon DEF Next

\* The record that is read next.
LEMMA NextRecord ==
    ASSUME IInv, Loading
    PROVE  /\ pos \in 1..Len(aof) /\ Len(aof) \in Nat /\ pos - 1 \in Nat
           /\ aof \in Seq(Record) /\ aof[pos] \in Record
           /\ table \in [Keys -> Entry \cup {NoEntry}] /\ now \in Int
  BY DEF IInv, Typed, TypeOK, Loading

LEMMA ForgottenStep ==
    ASSUME Reliable, IInv, Whole, Forgotten, [Next]_vars
    PROVE  Forgotten'
  <1>. SUFFICES ASSUME pc' = "loading", NEW k \in Keys,
                       LastWord(aof', pos' - 1, k, NoEntry)
                PROVE  table'[k] = NoEntry
    BY DEF Forgotten
  <1>1. CASE Start
    BY <1>1 DEF Start, EmptyTable
  <1>2. CASE pc = "loading" /\ UNCHANGED <<table, aof, pos>>
    BY <1>2 DEF Forgotten
  <1>3. CASE LoadSet \/ LoadDel
    <2>1. /\ Loading /\ pc = "loading" /\ aof' = aof /\ pos' = pos + 1
      BY <1>3 DEF LoadSet, LoadDel, Loading
    <2>2. /\ pos \in 1..Len(aof) /\ pos - 1 \in Nat /\ Len(aof) \in Nat
          /\ aof[pos] \in Record /\ table \in [Keys -> Entry \cup {NoEntry}]
      BY <2>1, NextRecord
    <2>3. (pos - 1) + 1 = pos /\ pos' - 1 = pos
      BY <2>1, <2>2
    <2>4. LastWord(aof, (pos - 1) + 1, k, NoEntry)
      BY <2>1, <2>3
    <2>5. IF aof[pos].key = k THEN NoEntry = aof[pos].entry
                              ELSE LastWord(aof, pos - 1, k, NoEntry)
      BY <2>2, <2>3, <2>4, LastWordNext
    <2>6. CASE aof[pos].key # k
      <3>1. table[k] = NoEntry
        BY <2>1, <2>5, <2>6 DEF Forgotten
      <3>. QED
        BY <1>3, <2>2, <2>6, <3>1 DEF LoadSet, LoadDel
    <2>7. CASE aof[pos].key = k
      <3>1. aof[pos].op # "SET"
        BY <2>2, <2>5, <2>7, RecordShape, NoEntryAssumption
      <3>. QED
        BY <1>3, <2>2, <2>7, <3>1 DEF LoadSet, LoadDel
    <2>. QED
      BY <2>6, <2>7
  <1>. QED
    BY <1>1, <1>2, <1>3, LoadingSteps

-----------------------------------------------------------------------------
(* What clients see is what the file says.                                 *)

LEMMA NothingLogged ==
    ASSUME NEW log, NEW k, \A i \in DOMAIN log : log[i].key # k
    PROVE  LoggedEntry(log, k) = NoEntry
  BY DEF LoggedEntry

\* Of a key whose last record is a SET that has expired, memory holds nothing
\* when that record is read: every older record of it is a DEL.
LEMMA ExpiredBeforeLoading ==
    ASSUME IInv, Restartable, Forgotten, Loading, NEW k \in Keys,
           aof[pos].key = k, aof[pos].op = "SET", Expired(aof[pos].entry, now),
           \A p \in (pos + 1)..Len(aof) : aof[p].key # k
    PROVE  table[k] = NoEntry
  <1>1. /\ pos \in 1..Len(aof) /\ Len(aof) \in Nat /\ pos - 1 \in Nat
        /\ aof \in Seq(Record) /\ aof[pos] \in Record
    BY NextRecord
  <1>2. pc = "loading" /\ NoOldValueBehindExpiry
    BY DEF Loading, Restartable
  <1>3. aof[pos].entry # NoEntry /\ aof[pos].entry.expires_at # 0
    BY <1>1, RecordShape, NoEntryAssumption DEF Expired
  <1>. DEFINE before == {i \in 1..(pos - 1) : aof[i].key = k}
  <1>4. LastWord(aof, pos - 1, k, NoEntry)
    <2>1. CASE before = {}
      BY <2>1 DEF LastWord
    <2>2. CASE before # {}
      <3>1. before \in SUBSET (0..(pos - 1))
        BY <1>1
      <3>2. PICK i \in before : \A j \in before : j <= i
        <4>. HIDE DEF before
        <4>. QED
          BY <1>1, <2>2, <3>1, GreatestNumber
      <3>3. i \in 1..(pos - 1) /\ aof[i].key = k
        OBVIOUS
      <3>4. \A j \in (i + 1)..(pos - 1) : aof[j].key # k
        <4>1. ASSUME NEW j \in (i + 1)..(pos - 1), aof[j].key = k PROVE FALSE
          <5>1. j \in before
            BY <1>1, <3>3, <4>1
          <5>. QED
            BY <1>1, <3>2, <3>3, <5>1
        <4>. QED
          BY <4>1
      <3>. HIDE DEF before
      <3>5. \A m \in (i + 1)..Len(aof) : m # pos => aof[m].key # k
        BY <1>1, <3>3, <3>4
      <3>6. i \in DOMAIN aof /\ pos \in DOMAIN aof /\ i < pos
        BY <1>1, <3>3
      <3>7. aof[i].entry = NoEntry
        BY <1>2, <1>3, <3>3, <3>5, <3>6 DEF NoOldValueBehindExpiry
      <3>. QED
        BY <3>3, <3>4, <3>7 DEF LastWord
    <2>. QED
      BY <2>1, <2>2
  <1>. QED
    BY <1>2, <1>4 DEF Forgotten

\* A key that becomes settled because its last record is read.
LEMMA LastRecordRead ==
    ASSUME IInv, Restartable, Forgotten, LoadSet \/ LoadDel, NEW k \in Keys,
           aof[pos].key = k, \A p \in (pos + 1)..Len(aof) : aof[p].key # k
    PROVE  Visible(table'[k], now) = Visible(LoggedEntry(aof, k), now)
  <1>1. Loading
    BY DEF LoadSet, LoadDel
  <1>2. /\ pos \in 1..Len(aof) /\ Len(aof) \in Nat
        /\ aof \in Seq(Record) /\ aof[pos] \in Record
        /\ table \in [Keys -> Entry \cup {NoEntry}]
    BY <1>1, NextRecord
  <1>3. LastWord(aof, Len(aof), k, aof[pos].entry)
    BY <1>2, Zenon DEF LastWord
  <1>4. LoggedEntry(aof, k) = aof[pos].entry
    BY <1>2, <1>3, WordIsLogged
  <1>5. CASE LoadDel
    <2>1. aof[pos].entry = NoEntry
      BY <1>2, <1>5, RecordShape DEF LoadDel
    <2>2. table'[k] = NoEntry
      BY <1>2, <1>5 DEF LoadDel
    <2>. QED
      BY <1>4, <2>1, <2>2
  <1>6. CASE LoadSet
    <2>1. CASE Expired(aof[pos].entry, now)
      <3>1. table[k] = NoEntry
        BY <1>1, <1>6, <2>1, ExpiredBeforeLoading DEF LoadSet
      <3>2. table' = table
        BY <1>6, <2>1 DEF LoadSet
      <3>. QED
        BY <1>4, <2>1, <3>1, <3>2 DEF Visible
    <2>2. CASE ~Expired(aof[pos].entry, now)
      <3>1. table'[k] = aof[pos].entry
        BY <1>2, <1>6, <2>2 DEF LoadSet
      <3>. QED
        BY <1>4, <3>1
    <2>. QED
      BY <2>1, <2>2
  <1>. QED
    BY <1>5, <1>6

\* The file that EXIT writes says what memory shows.
LEMMA CompactedSays ==
    ASSUME IInv, pc = "rewrite", todo = {}, NEW k \in Keys
    PROVE  Visible(LoggedEntry(tmp, k), now) = Visible(table[k], now)
  <1>1. tmp \in Seq(Record) /\ Len(tmp) \in Nat
    BY DEF IInv, Typed, TypeOK
  <1>2. CASE \E i \in DOMAIN tmp : tmp[i].key = k
    <2>1. PICK i \in DOMAIN tmp : tmp[i].key = k
      BY <1>2
    <2>2. tmp[i].entry = table[k]
      BY <2>1 DEF IInv, RewriteInv
    <2>3. \A j \in DOMAIN tmp : tmp[j].key = k => j = i
      BY <2>1, Zenon DEF IInv, RewriteInv
    <2>4. i \in 1..Len(tmp) /\ \A j \in (i + 1)..Len(tmp) : tmp[j].key # k
      BY <1>1, <2>3
    <2>5. LastWord(tmp, Len(tmp), k, table[k])
      BY <2>1, <2>2, <2>4, Zenon DEF LastWord
    <2>. QED
      BY <1>1, <2>5, WordIsLogged
  <1>3. CASE \A i \in DOMAIN tmp : tmp[i].key # k
    <2>1. LoggedEntry(tmp, k) = NoEntry
      BY <1>3, NothingLogged
    <2>2. Visible(table[k], now) = NoEntry
      BY <1>3 DEF IInv, RewriteInv
    <2>. QED
      BY <2>1, <2>2 DEF Visible
  <1>. QED
    BY <1>2, <1>3

\* Steps that leave what clients see, and what the file says, alone.
LEMMA ViewKept ==
    ASSUME SameView, UNCHANGED <<table, aof, now>>, NEW k \in Keys, Settled(k),
           pc = "loading" \/ Serving
    PROVE  Visible(table'[k], now') = Visible(LoggedEntry(aof', k), now')
  BY DEF SameView

LEMMA SameViewStep ==
    ASSUME Reliable, IInv, Whole, Restartable, Forgotten, SameView, [Next]_vars
    PROVE  SameView'
  <1>. SUFFICES ASSUME pc' = "loading" \/ Serving', NEW k \in Keys, Settled(k)'
                PROVE  Visible(table'[k], now') = Visible(LoggedEntry(aof', k), now')
    BY DEF SameView
  <1>t. /\ aof \in Seq(Record) /\ Len(aof) \in Nat /\ now \in Int /\ pos \in Nat
        /\ table \in [Keys -> Entry \cup {NoEntry}]
    BY DEF IInv, Typed, TypeOK
  <1>1. CASE Start
    <2>1. /\ pc' = "loading" /\ aof' = aof /\ pos' = 1 /\ table'[k] = NoEntry
      BY <1>1 DEF Start, EmptyTable
    <2>2. \A i \in DOMAIN aof : aof[i].key # k
      BY <1>t, <2>1 DEF Settled
    <2>. QED
      BY <2>1, <2>2, NothingLogged DEF Visible
  <1>2. CASE LoadSet \/ LoadDel
    <2>1. /\ Loading /\ pc = "loading" /\ pc' = "loading" /\ aof' = aof /\ now' = now
          /\ pos' = pos + 1
      BY <1>2 DEF LoadSet, LoadDel, Loading
    <2>2. \A p \in (pos + 1)..Len(aof) : aof[p].key # k
      BY <2>1 DEF Settled
    <2>3. CASE aof[pos].key = k
      BY <1>2, <2>1, <2>2, <2>3, LastRecordRead
    <2>4. CASE aof[pos].key # k
      <3>1. \A p \in pos..Len(aof) : aof[p].key # k
        BY <1>t, <2>2, <2>4
      <3>2. Settled(k)
        BY <2>1, <3>1 DEF Settled, InFlight
      <3>3. aof[pos].key \in Keys
        BY <2>1, NextRecord, RecordShape
      <3>4. table'[k] = table[k]
        BY <1>2, <1>t, <2>4, <3>3 DEF LoadSet, LoadDel
      <3>. QED
        BY <2>1, <3>2, <3>4 DEF SameView
    <2>. QED
      BY <2>3, <2>4
  <1>3. CASE LoadDone
    <2>1. pc = "loading" /\ UNCHANGED <<table, aof, now>> /\ pos > Len(aof)
      BY <1>3 DEF LoadDone
    <2>2. Settled(k)
      BY <1>t, <2>1 DEF Settled, InFlight
    <2>. QED
      BY <2>1, <2>2, ViewKept
  <1>4. CASE AppendOk
    <2>1. /\ pc = "append" /\ pc' = "apply" /\ UNCHANGED <<table, cmd, now>>
          /\ aof' = Append(aof, RecordOf(cmd.key, cmd.entry))
      BY <1>4 DEF AppendOk
    <2>2. k # cmd.key
      BY <2>1 DEF Settled, InFlight
    <2>3. cmd.key \in Keys /\ cmd.entry \in Entry \cup {NoEntry}
      BY <2>1 DEF IInv, Typed, TypeOK, CmdOK
    <2>4. RecordOf(cmd.key, cmd.entry) \in Record /\ RecordOf(cmd.key, cmd.entry).key = cmd.key
      BY <2>3, RecordTypes
    <2>5. LoggedEntry(aof', k) = LoggedEntry(aof, k)
      BY <1>t, <2>1, <2>2, <2>4, LoggedAppend
    <2>6. Settled(k) /\ Serving
      BY <2>1 DEF Settled, InFlight, Serving
    <2>. QED
      BY <2>1, <2>5, <2>6 DEF SameView
  <1>5. CASE ApplyOk
    <2>1. /\ pc = "apply" /\ UNCHANGED <<aof, now>>
          /\ table' = [table EXCEPT ![cmd.key] = cmd.entry]
      BY <1>5 DEF ApplyOk
    <2>2. CASE k = cmd.key
      <3>1. LastWord(aof, Len(aof), cmd.key, LoggedEntry(aof, cmd.key))
        BY <1>t, LoggedWord
      <3>2. LoggedEntry(aof, cmd.key) = cmd.entry
        BY <2>1, <3>1, StoredIsLastWord
      <3>3. table'[k] = cmd.entry
        BY <1>t, <2>1, <2>2
      <3>. QED
        BY <2>1, <2>2, <3>2, <3>3
    <2>3. CASE k # cmd.key
      <3>1. Settled(k) /\ Serving
        BY <2>1, <2>3 DEF Settled, InFlight, Serving
      <3>2. table'[k] = table[k]
        BY <1>t, <2>1, <2>3
      <3>. QED
        BY <2>1, <3>1, <3>2 DEF SameView
    <2>. QED
      BY <2>2, <2>3
  <1>6. CASE RewriteRename
    BY <1>6, CompactedSays DEF RewriteRename
  <1>7. CASE Tick
    <2>1. UNCHANGED <<pc, table, aof, pos, cmd>> /\ now' = now + 1
      BY <1>7 DEF Tick
    <2>2. Settled(k) /\ (pc = "loading" \/ Serving)
      BY <2>1 DEF Settled, InFlight, Serving
    <2>3. Visible(table[k], now) = Visible(LoggedEntry(aof, k), now)
      BY <2>2 DEF SameView
    <2>4. table[k] \in Entry \cup {NoEntry} /\ LoggedEntry(aof, k) \in Entry \cup {NoEntry}
      BY <1>t, LoggedType
    <2>5. Visible(table[k], now + 1) = Visible(LoggedEntry(aof, k), now + 1)
      BY <1>t, <2>3, <2>4, SameViewLater
    <2>. QED
      BY <2>1, <2>5
  <1>8. CASE /\ pc \in {"ready", "append", "ttl", "rewrite"} /\ pc' # "apply"
             /\ UNCHANGED <<table, aof, now>>
    <2>1. Settled(k) /\ Serving
      BY <1>8 DEF Settled, InFlight, Serving
    <2>. QED
      BY <1>8, <2>1, ViewKept
  <1>9. CASE UNCHANGED vars
    BY <1>9 DEF vars, SameView, Settled, InFlight, Serving
  <1>10. CASE \/ \E x \in Keys, v \in Values, s \in Seconds \cup {0} : Set(x, v, s)
              \/ \E x \in Keys : Del(x) \/ Get(x) \/ Ttl(x) \/ RewriteEntry(x)
              \/ AppendFails \/ TtlAnswer \/ Exit \/ RewriteFails
    BY <1>8, <1>10 DEF Set, Del, Get, Ttl, RewriteEntry, AppendFails, TtlAnswer, Exit,
       RewriteFails, Reliable
  <1>11. CASE LoadUnread \/ LoadFails \/ LoadTorn \/ LoadGlued \/ ApplyFails \/ Crash
    <2>1. ~LoadUnread /\ ~LoadFails /\ ~ApplyFails
      BY DEF LoadUnread, LoadFails, ApplyFails, Reliable
    <2>2. ~LoadTorn /\ ~LoadGlued
      BY NextRecord DEF LoadTorn, LoadGlued, Whole, Intact
    <2>3. ~Crash
      BY DEF Crash, Serving
    <2>. QED
      BY <1>11, <2>1, <2>2, <2>3
  <1>. QED
    BY <1>1, <1>2, <1>3, <1>4, <1>5, <1>6, <1>7, <1>9, <1>10, <1>11, Zenon DEF Next

-----------------------------------------------------------------------------
(* The map that a state of Store stands for.                               *)

FileDb == [k \in Keys |-> Visible(LoggedEntry(aof, k), now)]

Pending == IF pc = "apply" THEN cmd ELSE NoCmd

\* TtlMap speaks of entries and answers in the words of Aof.
LEMMA MapWords ==
    /\ Map!NoReply = NoReply
    /\ \A to, k, result : Map!Reply(to, k, result) = Reply(to, k, result)
    /\ \A k, n : Map!TtlReply(k, n) = TtlReply(k, n)
    /\ \A k, e : Map!GetReply(k, e) = GetReply(k, e)
    /\ \A k, e : Map!DoneReply(k, e) = DoneReply(k, e)
    /\ \A e, t : Map!Visible(e, t) = Visible(e, t)
    /\ \A e, t : Map!Remaining(e, t) = Remaining(e, t)
    /\ Map!Entry = Entry
    /\ Map!NoChange = NoCmd
  BY DEF Map!NoReply, Map!Reply, Map!TtlReply, Map!GetReply, Map!DoneReply, Map!Response,
     Map!Visible, Map!Expired, Map!Remaining, Map!Entry, Map!NoChange,
     NoReply, Reply, TtlReply, GetReply, DoneReply, Response, Visible, Expired, Remaining,
     Entry, NoCmd

LEMMA MapVariables ==
    /\ Map!vars = <<FileDb, now, Pending, reply>>
    /\ \A k \in Keys : FileDb[k] = Visible(LoggedEntry(aof, k), now)
  BY DEF Map!vars, FileDb, Pending

LEMMA MapSilent ==
    ASSUME reply' = NoReply, UNCHANGED <<FileDb, now, Pending>>
    PROVE  Map!Silent
  BY MapWords DEF Map!Silent, FileDb, Pending

LEMMA MapAnswer ==
    ASSUME Pending = NoCmd, reply' \in Map!Answers, UNCHANGED <<FileDb, now, Pending>>
    PROVE  Map!Answer
  BY MapWords DEF Map!Answer, FileDb, Pending

\* Nothing is visible to the map but what the file says.
LEMMA FileDbKept == UNCHANGED <<aof, now>> => UNCHANGED FileDb
  BY DEF FileDb

LEMMA SilentStep ==
    ASSUME reply' = NoReply, UNCHANGED <<aof, now>>, pc # "apply", pc' # "apply"
    PROVE  Map!Silent
  <1>1. UNCHANGED Pending
    BY DEF Pending, NoCmd
  <1>. QED
    BY <1>1, FileDbKept, MapSilent

\* While a command is executed, the map and memory show the same.
LEMMA MapShows ==
    ASSUME MapInv, pc \in {"ready", "append", "ttl", "rewrite"}, NEW k \in Keys
    PROVE  FileDb[k] = Visible(table[k], now)
  BY DEF MapInv, SameView, Settled, InFlight, Serving, FileDb

LEMMA KnownAnswers ==
    ASSUME NEW k \in Keys
    PROVE  /\ GetReply(k, FileDb[k]) \in Map!Answers
           /\ TtlReply(k, Remaining(FileDb[k], now)) \in Map!Answers
           /\ Reply("SET", k, "ERR") \in Map!Answers
           /\ Reply("DEL", k, "ERR") \in Map!Answers
           /\ FileDb[k] = NoEntry => Reply("DEL", k, "0") \in Map!Answers
  <1>1. /\ Map!GetReply(k, FileDb[k]) \in Map!Answers
        /\ Map!TtlReply(k, Map!Remaining(FileDb[k], now)) \in Map!Answers
        /\ Map!Reply("SET", k, "ERR") \in Map!Answers
        /\ Map!Reply("DEL", k, "ERR") \in Map!Answers
    <2>. DEFINE About(x) == {Map!GetReply(x, FileDb[x]),
                             Map!TtlReply(x, Map!Remaining(FileDb[x], now)),
                             Map!Reply("SET", x, "ERR"), Map!Reply("DEL", x, "ERR")}
    <2>1. (UNION {About(x) : x \in Keys}) \subseteq Map!Answers
      BY Zenon DEF Map!Answers, FileDb
    <2>2. About(k) \subseteq UNION {About(x) : x \in Keys}
      <3>. HIDE DEF About
      <3>. QED
        BY Zenon
    <2>3. About(k) \subseteq Map!Answers
      BY <2>1, <2>2, Zenon
    <2>. QED
      BY <2>3, Zenon
  <1>2. ASSUME FileDb[k] = NoEntry PROVE Map!Reply("DEL", k, "0") \in Map!Answers
    BY <1>2 DEF Map!Answers, FileDb
  <1>. QED
    BY <1>1, <1>2, MapWords

LEMMA ExitAnswers ==
    /\ Reply("EXIT", NoEntry, "BYE") \in Map!Answers
    /\ Reply("EXIT", NoEntry, "ERR") \in Map!Answers
  <1>1. /\ Map!Reply("EXIT", NoEntry, "BYE") \in Map!Answers
        /\ Map!Reply("EXIT", NoEntry, "ERR") \in Map!Answers
    BY DEF Map!Answers
  <1>. QED
    BY <1>1, MapWords

LEMMA AnswerStep ==
    ASSUME reply' \in Map!Answers, UNCHANGED <<aof, now>>, pc # "apply", pc' # "apply"
    PROVE  Map!Answer
  <1>1. UNCHANGED Pending /\ Pending = NoCmd
    BY DEF Pending, NoCmd
  <1>. QED
    BY <1>1, FileDbKept, MapAnswer

LEMMA PendingCommand ==
    ASSUME IInv, pc = "apply"
    PROVE  Pending = cmd /\ cmd # NoCmd /\ cmd.key \in Keys
  <1>1. cmd.key \in Keys
    BY DEF IInv, Typed, CmdOK
  <1>2. NoCmd.key = NoEntry
    BY DEF NoCmd
  <1>. QED
    BY <1>1, <1>2, NoEntryAssumption DEF Pending

LEMMA QueriesAnswer ==
    ASSUME MapInv, NEW k \in Keys, Get(k) \/ Del(k) \/ Ttl(k)
    PROVE  Map!Answer \/ Map!Silent
  <1>1. pc = "ready" /\ UNCHANGED <<aof, now>>
    BY DEF Get, Del, Ttl
  <1>2. FileDb[k] = Visible(table[k], now)
    BY <1>1, MapShows
  <1>3. CASE Get(k)
    BY <1>1, <1>2, <1>3, KnownAnswers, AnswerStep DEF Get
  <1>4. CASE Del(k)
    <2>1. CASE Visible(table[k], now) = NoEntry
      BY <1>1, <1>2, <1>4, <2>1, KnownAnswers, AnswerStep DEF Del
    <2>2. CASE Visible(table[k], now) # NoEntry
      BY <1>1, <1>4, <2>2, SilentStep DEF Del
    <2>. QED
      BY <2>1, <2>2
  <1>5. CASE Ttl(k)
    <2>1. CASE Visible(table[k], now) = NoEntry
      <3>1. reply' = TtlReply(k, Remaining(FileDb[k], now)) /\ pc' = "ready"
        BY <1>2, <1>5, <2>1 DEF Ttl, Remaining
      <3>. QED
        BY <1>1, <3>1, KnownAnswers, AnswerStep
    <2>2. CASE Visible(table[k], now) # NoEntry /\ table[k].expires_at = 0
      <3>1. FileDb[k] = table[k] /\ table[k] # NoEntry
        BY <1>2, <2>2 DEF Visible
      <3>2. reply' = TtlReply(k, Remaining(FileDb[k], now)) /\ pc' = "ready"
        BY <1>5, <2>2, <3>1 DEF Ttl, Remaining
      <3>. QED
        BY <1>1, <3>2, KnownAnswers, AnswerStep
    <2>3. CASE Visible(table[k], now) # NoEntry /\ table[k].expires_at # 0
      BY <1>1, <1>5, <2>3, SilentStep DEF Ttl
    <2>. QED
      BY <2>1, <2>2, <2>3
  <1>. QED
    BY <1>3, <1>4, <1>5

\* The second reading of the clock is the one the answer is about.
LEMMA TtlAnswers ==
    ASSUME MapInv, TtlAnswer
    PROVE  Map!Answer
  <1>. DEFINE k == cmd.key
              remaining == cmd.entry.expires_at - now
  <1>1. /\ pc = "ttl" /\ pc' = "ready" /\ UNCHANGED <<aof, now>>
        /\ reply' = TtlReply(k, IF remaining <= 0 THEN -2 ELSE remaining)
        /\ k \in Keys /\ cmd.entry = table[k] /\ table[k] \in Entry
        /\ table[k].expires_at \in Int /\ now \in Int /\ table[k].expires_at # 0
        /\ table[k] # NoEntry
    BY NoEntryAssumption DEF TtlAnswer, MapInv, IInv, Typed, TypeOK, CmdOK, TtlInv, Entry
  <1>2. FileDb[k] = Visible(table[k], now)
    BY <1>1, MapShows
  <1>3. Visible(table[k], now) = IF remaining <= 0 THEN NoEntry ELSE table[k]
    BY <1>1 DEF Visible, Expired
  <1>4. Remaining(FileDb[k], now) = IF remaining <= 0 THEN -2 ELSE remaining
    BY <1>1, <1>2, <1>3 DEF Remaining
  <1>5. reply' = TtlReply(k, Remaining(FileDb[k], now))
    BY <1>1, <1>4
  <1>. HIDE DEF k, remaining
  <1>. QED
    BY <1>1, <1>5, KnownAnswers, AnswerStep

-----------------------------------------------------------------------------
(* Changes: they take effect when the record is appended, and are answered *)
(* when memory has followed.                                               *)

LEMMA AppendChanges ==
    ASSUME IInv, AppendOk
    PROVE  \E k \in Keys : Map!Change(k)
  <1>1. /\ pc = "append" /\ pc' = "apply" /\ reply' = NoReply /\ UNCHANGED <<cmd, now>>
        /\ aof' = Append(aof, RecordOf(cmd.key, cmd.entry)) /\ aof \in Seq(Record)
        /\ cmd.key \in Keys /\ cmd.entry \in Entry \cup {NoEntry}
        /\ cmd \in [key : Keys \cup {NoEntry}, entry : Entry \cup {NoEntry}]
    BY DEF AppendOk, IInv, Typed, TypeOK, CmdOK
  <1>2. /\ RecordOf(cmd.key, cmd.entry) \in Record
        /\ RecordOf(cmd.key, cmd.entry).key = cmd.key
        /\ RecordOf(cmd.key, cmd.entry).entry = cmd.entry
    BY <1>1, RecordTypes
  <1>3. \A k : LoggedEntry(aof', k) = IF cmd.key = k THEN cmd.entry ELSE LoggedEntry(aof, k)
    BY <1>1, <1>2, LoggedAppend
  <1>4. FileDb' = [FileDb EXCEPT ![cmd.key] = Visible(cmd.entry, now)]
    BY <1>1, <1>3 DEF FileDb
  <1>5. Pending = NoCmd /\ Pending' = cmd
    BY <1>1 DEF Pending
  <1>6. cmd \in [key : {cmd.key}, entry : Entry \cup {NoEntry}]
    BY <1>1
  <1>7. Pending' \in [key : {cmd.key}, entry : Entry \cup {NoEntry}]
    BY <1>5, <1>6
  <1>8. FileDb' = [FileDb EXCEPT ![cmd.key] = Visible(Pending'.entry, now)]
    BY <1>4, <1>5
  <1>9. Map!Change(cmd.key)
    BY <1>1, <1>5, <1>7, <1>8, MapWords DEF Map!Change, FileDb, Pending
  <1>. QED
    BY <1>1, <1>9

LEMMA ApplyConfirms ==
    ASSUME IInv, ApplyOk
    PROVE  Map!Confirm
  <1>1. /\ pc = "apply" /\ pc' = "ready" /\ UNCHANGED <<aof, now>>
        /\ reply' = DoneReply(cmd.key, cmd.entry)
    BY DEF ApplyOk
  <1>2. Pending = cmd /\ Pending # NoCmd /\ Pending' = NoCmd
    BY <1>1, PendingCommand DEF Pending, NoCmd
  <1>3. UNCHANGED FileDb
    BY <1>1, FileDbKept
  <1>4. reply' = DoneReply(Pending.key, Pending.entry)
    BY <1>1, <1>2
  <1>. QED
    BY <1>1, <1>2, <1>3, <1>4, MapWords DEF Map!Confirm, FileDb, Pending

\* The client of a command that was logged is never told when the process dies.
LEMMA CrashForsakes ==
    ASSUME IInv, Crash, UNCHANGED aof
    PROVE  Map!Silent \/ Map!Forsake
  <1>1. pc' = "down" /\ UNCHANGED <<aof, now>> /\ reply' = NoReply
    BY DEF Crash
  <1>2. CASE pc # "apply"
    BY <1>1, <1>2, SilentStep
  <1>3. CASE pc = "apply"
    <2>1. Pending # NoCmd /\ Pending' = NoCmd
      BY <1>1, <1>3, PendingCommand DEF Pending, NoCmd
    <2>2. UNCHANGED FileDb
      BY <1>1, FileDbKept
    <2>. QED
      BY <1>1, <2>1, <2>2, MapWords DEF Map!Forsake, FileDb, Pending
  <1>. QED
    BY <1>2, <1>3

\* EXIT puts a file in place that stands for the same map.
LEMMA RenameAnswers ==
    ASSUME MapInv, RewriteRename
    PROVE  Map!Answer
  <1>1. /\ pc = "rewrite" /\ pc' = "ready" /\ todo = {} /\ aof' = tmp /\ now' = now
        /\ reply' = Reply("EXIT", NoEntry, "BYE")
    BY DEF RewriteRename
  <1>2. \A k \in Keys : Visible(LoggedEntry(tmp, k), now) = Visible(LoggedEntry(aof, k), now)
    <2>1. ASSUME NEW k \in Keys
          PROVE  Visible(LoggedEntry(tmp, k), now) = Visible(LoggedEntry(aof, k), now)
      <3>1. Visible(LoggedEntry(tmp, k), now) = Visible(table[k], now)
        BY <1>1, CompactedSays DEF MapInv
      <3>2. FileDb[k] = Visible(table[k], now)
        BY <1>1, MapShows
      <3>. QED
        BY <3>1, <3>2, MapVariables
    <2>. QED
      BY <2>1
  <1>3. UNCHANGED FileDb
    BY <1>1, <1>2 DEF FileDb
  <1>4. Pending = NoCmd /\ UNCHANGED Pending
    BY <1>1 DEF Pending, NoCmd
  <1>. QED
    BY <1>1, <1>3, <1>4, ExitAnswers, MapAnswer

LEMMA TickTicks ==
    ASSUME IInv, Tick
    PROVE  Map!Tick
  <1>1. /\ now \in Int /\ now < MaxTime /\ now' = now + 1 /\ UNCHANGED <<aof, pc, cmd>>
        /\ reply' = NoReply /\ aof \in Seq(Record)
    BY DEF Tick, IInv, Typed, TypeOK
  <1>2. \A k \in Keys : Visible(FileDb[k], now') = Visible(LoggedEntry(aof, k), now')
    BY <1>1, LoggedType, VisibleTwice, MapVariables
  <1>3. FileDb' = [k \in Keys |-> Visible(LoggedEntry(aof, k), now')]
    BY <1>1 DEF FileDb
  <1>4. FileDb' = [k \in Keys |-> Visible(FileDb[k], now')]
    BY <1>2, <1>3
  <1>5. UNCHANGED Pending
    BY <1>1 DEF Pending, NoCmd
  <1>. QED
    BY <1>1, <1>4, <1>5, MapWords DEF Map!Tick, FileDb, Pending

LEMMA StepIsOfTheMap ==
    ASSUME Reliable, MapInv, [Next]_vars
    PROVE  [Map!Next]_(Map!vars)
  <1>. SUFFICES \/ \E k \in Keys : Map!Change(k)
                \/ Map!Confirm \/ Map!Forsake \/ Map!Answer \/ Map!Silent \/ Map!Tick
                \/ UNCHANGED Map!vars
    BY Zenon DEF Map!Next
  <1>1. CASE UNCHANGED vars
    <2>1. UNCHANGED <<aof, now, pc, cmd, reply>>
      BY <1>1 DEF vars
    <2>2. UNCHANGED FileDb /\ UNCHANGED Pending
      BY <2>1, FileDbKept DEF Pending, NoCmd
    <2>. QED
      BY <2>1, <2>2 DEF Map!vars, FileDb, Pending
  <1>2. CASE \/ Start \/ LoadSet \/ LoadDel \/ LoadDone \/ LoadTorn
             \/ \E k \in Keys, v \in Values, s \in Seconds \cup {0} : Set(k, v, s)
             \/ \E k \in Keys : RewriteEntry(k)
             \/ Exit
    <2>1. /\ reply' = NoReply /\ UNCHANGED <<aof, now>> /\ pc # "apply" /\ pc' # "apply"
      BY <1>2 DEF Start, LoadSet, LoadDel, LoadDone, LoadTorn, Loading, GiveUp, Set,
         RewriteEntry, Exit
    <2>. QED
      BY <2>1, SilentStep
  <1>3. CASE \E k \in Keys : Del(k) \/ Get(k) \/ Ttl(k)
    BY <1>3, QueriesAnswer
  <1>4. CASE AppendFails
    <2>1. /\ reply' = Reply(CmdName, cmd.key, "ERR") /\ UNCHANGED <<aof, now>>
          /\ pc = "append" /\ pc' = "ready" /\ cmd.key \in Keys
      BY <1>4 DEF AppendFails, Reliable, MapInv, IInv, Typed, CmdOK
    <2>2. reply' \in Map!Answers
      BY <2>1, KnownAnswers DEF CmdName
    <2>. QED
      BY <2>1, <2>2, AnswerStep
  <1>5. CASE RewriteFails
    BY <1>5, ExitAnswers, AnswerStep DEF RewriteFails
  <1>6. CASE LoadUnread \/ LoadFails \/ ApplyFails
    BY <1>6 DEF LoadUnread, LoadFails, ApplyFails, Reliable
  <1>7. CASE LoadGlued
    BY <1>7, NextRecord DEF LoadGlued, MapInv, Whole, Intact
  <1>8. CASE Crash
    <2>1. UNCHANGED aof
      BY <1>8 DEF Crash, Reliable
    <2>. QED
      BY <1>8, <2>1, CrashForsakes DEF MapInv
  <1>9. CASE AppendOk \/ ApplyOk \/ TtlAnswer \/ RewriteRename \/ Tick
    BY <1>9, AppendChanges, ApplyConfirms, TtlAnswers, RenameAnswers, TickTicks DEF MapInv
  <1>. QED
    BY <1>1, <1>2, <1>3, <1>4, <1>5, <1>6, <1>7, <1>8, <1>9, Zenon DEF Next

-----------------------------------------------------------------------------
(* The theorems.                                                           *)

LEMMA InitMap == Init => MapInv /\ Map!Init
  <1>. SUFFICES ASSUME Init PROVE MapInv /\ Map!Init
    OBVIOUS
  <1>1. IInv
    BY InitTyped, InitInv DEF IInv
  <1>2. pc = "down" /\ aof = <<>> /\ now = 1 /\ reply = NoReply
    BY DEF Init
  <1>3. \A k : LoggedEntry(aof, k) = NoEntry
    BY <1>2, NothingLogged
  <1>4. FileDb = [k \in Keys |-> NoEntry]
    BY <1>3 DEF FileDb, Visible
  <1>5. Pending = NoCmd
    BY <1>2 DEF Pending
  <1>6. Map!Init
    BY <1>2, <1>4, <1>5, MapWords DEF Map!Init, FileDb, Pending
  <1>7. Whole /\ Restartable /\ Forgotten /\ SameView
    BY <1>2 DEF Whole, Intact, Restartable, NoOldValueBehindExpiry, Forgotten, SameView, Serving
  <1>. QED
    BY <1>1, <1>6, <1>7 DEF MapInv

LEMMA StepMapInv ==
    ASSUME Reliable, MapInv, [Next]_vars, DiesInTime
    PROVE  MapInv'
  <1>1. IInv'
    BY NextTyped, NextLogInv, NextRewriteInv, NextNoRevival, NextMemInv, NextTtlInv
       DEF IInv, MapInv
  <1>. QED
    BY <1>1, WholeStep, RestartableStep, ForgottenStep, SameViewStep DEF MapInv

\* On a disk and with memory that hold out, what clients see while the process
\* loads or serves is what the last records of the file say, expired ones
\* included.
THEOREM FileIsSeen ==
    ASSUME Reliable
    PROVE  MapSpec => []MapInv
  <1>1. Init => MapInv
    BY InitMap
  <1>2. MapInv /\ [Next /\ (pc' = "down" => NoOldValueBehindExpiry)]_vars => MapInv'
    <2>1. ASSUME MapInv, Next, DiesInTime PROVE MapInv'
      BY <2>1, StepMapInv
    <2>2. ASSUME MapInv, UNCHANGED vars PROVE MapInv'
      <3>1. DiesInTime
        BY <2>2 DEF DiesInTime, vars, MapInv, Restartable
      <3>. QED
        BY <2>2, <3>1, StepMapInv
    <2>. QED
      BY <2>1, <2>2 DEF DiesInTime
  <1>. QED
    BY <1>1, <1>2, PTL DEF MapSpec

\* Store implements TtlMap: SET, DEL, GET, TTL and EXIT answer as a map with
\* expiry does that forgets nothing, through every crash and reload in which
\* no older value of a key lies behind one that expires.
THEOREM StoreIsATtlMap ==
    ASSUME Reliable
    PROVE  MapSpec => RefinesTtlMap
  <1>1. Init => Map!Init
    BY InitMap
  <1>2. MapInv /\ [Next /\ (pc' = "down" => NoOldValueBehindExpiry)]_vars
           => [Map!Next]_(Map!vars)
    BY StepIsOfTheMap
  <1>. QED
    BY <1>1, <1>2, FileIsSeen, PTL DEF MapSpec, RefinesTtlMap, Map!Spec
=============================================================================

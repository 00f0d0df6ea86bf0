--------------------------- MODULE InMemDBProofs ----------------------------
(***************************************************************************)
(* Proofs about InMemDB, for any number of workers, commands, keys and     *)
(* values.  Every step of InMemDB is a step of the pool or leaves the pool *)
(* alone, so what WorkerPoolProofs establishes holds here as well; on it   *)
(* rest                                                                    *)
(*   DataTyped     the types of the data;                                  *)
(*   LogAndTable   how data.aof and the table are related while a command  *)
(*                 that writes is between the two;                         *)
(*   AnswersInTime which commands have an answer.                          *)
(***************************************************************************)
EXTENDS InMemDB, WorkerPoolProofs, SequenceTheorems

-----------------------------------------------------------------------------
(* The pool inside.                                                        *)

LEMMA DbInitIsPoolInit == DbInit => Init
  BY DEF DbInit

LEMMA DbStepIsPoolStep == [DbNext]_dbVars => [Next]_vars
  <1>. SUFFICES ASSUME [DbNext]_dbVars PROVE [Next]_vars
    OBVIOUS
  <1>1. CASE PoolStep
    BY <1>1 DEF PoolStep, Next, WorkerStep
  <1>2. ASSUME NEW w \in Workers, Enter(w) \/ Return(w) \/ SendResponse(w) PROVE Next
    BY <1>2 DEF Enter, Return, SendResponse, Next, WorkerStep
  <1>3. ASSUME NEW w \in Workers, Execute(w) PROVE UNCHANGED vars
    BY <1>3 DEF Execute, Lookup, ReadValue, AppendRecord, AppendRecordFails, Apply,
                CopyTable, Rename
  <1>4. CASE UNCHANGED dbVars
    BY <1>4 DEF dbVars
  <1>. QED
    BY <1>1, <1>2, <1>3, <1>4 DEF DbNext

\* The database is built on the worker pool: every behaviour of InMemDB is one
\* of WorkerPool, so all that is proved of the pool holds while the commands
\* really execute.
THEOREM DbIsAPool == DbSpec => Spec
  BY DbInitIsPoolInit, DbStepIsPoolStep, PTL DEF DbSpec, Spec

LEMMA DbInitIInv == DbInit => IInv
  BY DbInitIsPoolInit, InitIInv

LEMMA DbNextIInv == IInv /\ [DbNext]_dbVars => IInv'
  BY DbStepIsPoolStep, NextIInv

-----------------------------------------------------------------------------
(* Who executes what.                                                      *)

Answers == Values \cup {NoEntry} \cup Words

Records == [key : Keys, value : Values \cup {NoEntry}]

LEMMA Executing ==
    ASSUME IInv, NEW w \in Workers, pc[w] \in Busy
    PROVE  /\ task[w] \in Tasks
           /\ Cmd(w).op \in {"set", "get", "del", "exit"}
           /\ Cmd(w).key \in Keys
           /\ Cmd(w).value \in Values
           /\ Kind[task[w]] = "read" <=> Cmd(w).op = "get"
  <1>1. task[w] \in Tasks
    BY DEF IInv, Typed, TypeOK, OwnsWhenBusy
  <1>. QED
    BY <1>1, InMemDBAssumption DEF InMemDBAssumption, Cmd, KindOf

\* A command that writes executes alone.
LEMMA WriterAlone ==
    ASSUME IInv, NEW w \in Workers, pc[w] = "executing", Cmd(w).op # "get",
           NEW v \in Workers, pc[v] = "executing"
    PROVE  v = w
  <1>1. writer = w
    BY Executing DEF IInv, Locks, LockHeldWhileExecuting, is_read_command, Busy
  <1>2. readers = {}
    BY <1>1, WorkerPoolAssumption DEF IInv, Locks, LockHeldWhileExecuting
  <1>3. writer = v
    BY <1>2 DEF IInv, Locks, LockHeldWhileExecuting
  <1>. QED
    BY <1>1, <1>3

\* Steps that do not touch the data: no command begins, and one that is at
\* work goes on with the same task unless it is done.
Quiet ==
    /\ UNCHANGED <<data, execution>>
    /\ \A v \in Workers : pc'[v] = "executing" => pc[v] = "executing"
    /\ \A v \in Workers : pc[v] = "executing" /\ step[v] # "done" => pc'[v] = "executing"
    /\ \A v \in Workers : pc[v] = "executing" => task'[v] = task[v]

LEMMA GotoQuiet ==
    ASSUME pc \in [Workers -> WorkerStates], UNCHANGED <<data, execution, task>>,
           NEW w \in Workers, NEW to, pc' = [pc EXCEPT ![w] = to], to # "executing",
           pc[w] = "executing" => step[w] = "done"
    PROVE  Quiet
  BY DEF Quiet

LEMMA PoolStepQuiet ==
    ASSUME IInv, PoolStep \/ UNCHANGED dbVars \/ \E w \in Workers : Return(w) \/ SendResponse(w)
    PROVE  Quiet
  <1>0. /\ pc \in [Workers -> WorkerStates]
        /\ task \in [Workers -> Tasks \cup {Null}]
    BY DEF IInv, Typed, TypeOK
  <1>1. ASSUME NEW w \in Workers, Lock(w) \/ Wait(w) \/ SpuriousWakeup(w) \/ Notify(w) \/ CreateWorker(w),
               UNCHANGED <<data, execution>>
        PROVE  Quiet
    <2>. UNCHANGED task /\ \E to \in WorkerStates \ {"executing"} :
            pc[w] # "executing" /\ pc' = [pc EXCEPT ![w] = to]
      BY <1>1 DEF Lock, Wait, SpuriousWakeup, Notify, CreateWorker, Goto, WorkerStates
    <2>. QED
      BY <1>0, <1>1, GotoQuiet
  <1>2. ASSUME NEW w \in Workers, Pop(w) \/ Free(w), UNCHANGED <<data, execution>> PROVE Quiet
    <2>. /\ pc[w] # "executing"
         /\ \E to \in {"picked", "lock"} : pc' = [pc EXCEPT ![w] = to]
         /\ \E t : task' = [task EXCEPT ![w] = t]
      BY <1>2 DEF Pop, Free, Goto
    <2>. QED
      BY <1>0, <1>2 DEF Quiet
  <1>3. ASSUME NEW t \in Tasks, Submit(t), UNCHANGED <<data, execution>> PROVE Quiet
    BY <1>0, <1>3, SignalMoves DEF Quiet, Submit
  <1>4. CASE ReadPipe /\ UNCHANGED <<data, execution>>
    BY <1>4 DEF Quiet, ReadPipe
  <1>5. ASSUME NEW w \in Workers, Return(w) PROVE Quiet
    <2>1. /\ step[w] = "done" /\ UNCHANGED <<data, execution, task>>
          /\ \E to \in {"send", "send bye", "free"} : pc' = [pc EXCEPT ![w] = to]
      BY <1>5, ExecutedMoves DEF Return, Executed
    <2>. QED
      BY <1>0, <2>1, GotoQuiet
  <1>6. ASSUME NEW w \in Workers, SendResponse(w) PROVE Quiet
    <2>1. /\ pc[w] # "executing" /\ UNCHANGED <<data, execution, task>>
          /\ \E to \in {"notify", "free"} : pc' = [pc EXCEPT ![w] = to]
      BY <1>6, SendMoves DEF SendResponse, Send
    <2>. QED
      BY <1>0, <2>1, GotoQuiet
  <1>7. CASE UNCHANGED dbVars
    BY <1>7 DEF dbVars, vars, Quiet
  <1>. QED
    BY <1>1, <1>2, <1>3, <1>4, <1>5, <1>6, <1>7 DEF PoolStep

\* Entering command_execute.
LEMMA Entering ==
    ASSUME IInv, NEW w \in Workers, Enter(w)
    PROVE  /\ pc[w] = "picked" /\ pc' = [pc EXCEPT ![w] = "executing"]
           /\ step' = [step EXCEPT ![w] = "begin"]
           /\ UNCHANGED <<task, data, entry, response, answers>>
  BY DEF Enter, LockForReading, LockForWriting, Goto, Proceed

-----------------------------------------------------------------------------
(* The types of the data.                                                  *)

Present == {k \in Keys : table[k] # NoEntry}

DataTyped ==
    /\ table \in [Keys -> Values \cup {NoEntry}]
    /\ IsFiniteSet(Present)
    /\ aof \in Seq(Records)
    /\ tmp \in Seq([key : Keys, value : Values])
    /\ step \in [Workers -> {"begin", "found", "logged", "done"}]
    /\ entry \in [Workers -> Values \cup {NoEntry}]
    /\ response \in [Workers -> Answers]
    /\ answers \in [Tasks -> Answers]

LEMMA RespondType ==
    ASSUME DataTyped, NEW w \in Workers, NEW r \in Answers, Respond(w, r)
    PROVE  /\ step' \in [Workers -> {"begin", "found", "logged", "done"}]
           /\ response' \in [Workers -> Answers]
  BY DEF DataTyped, Respond

LEMMA ProceedType ==
    ASSUME DataTyped, NEW w \in Workers, NEW s \in {"begin", "found", "logged", "done"},
           Proceed(w, s)
    PROVE  /\ step' \in [Workers -> {"begin", "found", "logged", "done"}]
           /\ response' \in [Workers -> Answers]
  BY DEF DataTyped, Proceed

\* A snapshot is a file with exactly one record for each key in the table.
LEMMA SnapshotShape ==
    ASSUME DataTyped, NEW log \in Snapshot
    PROVE  /\ log \in Seq([key : Keys, value : Values])
           /\ \A n \in 1..Len(log) : log[n].key \in Present /\ log[n].value = table[log[n].key]
           /\ \A k \in Present : \E n \in 1..Len(log) : log[n].key = k
           /\ \A m, n \in 1..Len(log) : log[m].key = log[n].key => m = n
  <1>. DEFINE c == Cardinality(Present)
              f == [n \in 1..c |-> log[n].key]
  <1>1. /\ log \in [1..c -> {[key |-> k, value |-> table[k]] : k \in Present}]
        /\ \A k \in Present : \E n \in DOMAIN log : log[n].key = k
    BY DEF Snapshot, Snapshots, Present
  <1>2. c \in Nat
    BY FS_CardinalityType DEF DataTyped
  <1>3. \A k \in Present : k \in Keys /\ table[k] \in Values
    BY DEF DataTyped, Present
  <1>4. log \in [1..c -> [key : Keys, value : Values]]
    <2>1. {[key |-> k, value |-> table[k]] : k \in Present} \subseteq [key : Keys, value : Values]
      BY <1>3
    <2>. QED
      BY <1>1, <2>1, Zenon
  <1>5. log \in Seq([key : Keys, value : Values]) /\ Len(log) = c
    <2>1. log \in Seq([key : Keys, value : Values])
      <3>. DEFINE R == [key : Keys, value : Values]
      <3>. HIDE DEF R
      <3>1. \A s \in [1..c -> R] : s \in Seq(R)
        BY <1>2
      <3>. QED
        BY <1>4, <3>1, Zenon DEF R
    <2>2. Len(log) \in Nat /\ 1..Len(log) = 1..c
      BY <1>4, <2>1, LenProperties
    <2>3. \A m, n \in Nat : 1..m = 1..n => m <= n
      <3>. SUFFICES ASSUME NEW m \in Nat, NEW n \in Nat, 1..m = 1..n, m > n PROVE FALSE
        OBVIOUS
      <3>1. m \in 1..m
        OBVIOUS
      <3>2. m \in 1..n
        BY <3>1
      <3>. QED
        BY <3>2
    <2>. QED
      BY <1>2, <2>1, <2>2, <2>3
  <1>6. \A n \in 1..c : log[n].key \in Present /\ log[n].value = table[log[n].key]
    BY <1>1
  <1>7. f \in Surjection(1..c, Present)
    BY <1>1, <1>6 DEF Surjection
  <1>8. IsFiniteSet(1..c) /\ Cardinality(1..c) = c
    BY <1>2, FS_Interval
  <1>9. f \in Injection(1..c, Present)
    BY <1>7, <1>8, FS_Surjection
  <1>10. \A m, n \in 1..c : f[m] = f[n] => m = n
    BY <1>9 DEF Injection, IsInjective
  <1>11. \A m, n \in 1..c : log[m].key = log[n].key => m = n
    BY <1>10
  <1>. QED
    BY <1>1, <1>5, <1>6, <1>11

LEMMA DbInitData == DbInit => DataTyped
  <1>. SUFFICES ASSUME DbInit PROVE DataTyped
    OBVIOUS
  <1>1. Present = {}
    BY DEF DbInit, Present
  <1>2. IsFiniteSet(Present)
    BY <1>1, FS_EmptySet
  <1>3. aof \in Seq(Records) /\ tmp \in Seq([key : Keys, value : Values])
    BY DEF DbInit
  <1>. QED
    BY <1>2, <1>3 DEF DbInit, DataTyped, Answers, Words

LEMMA DbNextData == IInv /\ DataTyped /\ [DbNext]_dbVars => DataTyped'
  <1>. SUFFICES ASSUME IInv, DataTyped, [DbNext]_dbVars PROVE DataTyped'
    OBVIOUS
  <1>1. CASE PoolStep \/ UNCHANGED dbVars
    BY <1>1 DEF PoolStep, dbVars, data, execution, DataTyped, Present
  <1>2. ASSUME NEW w \in Workers, Enter(w) PROVE DataTyped'
    BY <1>2, ProceedType DEF Enter, data, DataTyped, Present
  <1>3. ASSUME NEW w \in Workers, Return(w) PROVE DataTyped'
    BY <1>3 DEF Return, data, execution, DataTyped, Present
  <1>4. ASSUME NEW w \in Workers, SendResponse(w) PROVE DataTyped'
    BY <1>4 DEF SendResponse, data, execution, DataTyped, Present
  <1>5. ASSUME NEW w \in Workers, Lookup(w) PROVE DataTyped'
    <2>1. Cmd(w).key \in Keys
      BY <1>5, Executing DEF Lookup, At, Busy
    <2>2. entry' \in [Workers -> Values \cup {NoEntry}]
      BY <1>5, <2>1 DEF Lookup, DataTyped
    <2>3. /\ step' \in [Workers -> {"begin", "found", "logged", "done"}]
          /\ response' \in [Workers -> Answers]
      BY <1>5, ProceedType, RespondType DEF Lookup, Answers, Words
    <2>. QED
      BY <1>5, <2>2, <2>3 DEF Lookup, data, DataTyped, Present
  <1>6. ASSUME NEW w \in Workers, ReadValue(w) PROVE DataTyped'
    <2>1. Cmd(w).key \in Keys
      BY <1>6, Executing DEF ReadValue, At, Busy
    <2>2. table[Cmd(w).key] \in Answers
      BY <2>1 DEF DataTyped, Answers
    <2>. QED
      BY <1>6, <2>2, RespondType DEF ReadValue, data, DataTyped, Present
  <1>7. ASSUME NEW w \in Workers, AppendRecord(w) PROVE DataTyped'
    <2>1. Cmd(w).key \in Keys /\ Cmd(w).value \in Values
      BY <1>7, Executing DEF AppendRecord, At, Busy
    <2>2. aof' \in Seq(Records)
      BY <1>7, <2>1 DEF AppendRecord, DataTyped, Records
    <2>. QED
      BY <1>7, <2>2, ProceedType DEF AppendRecord, DataTyped, Present
  <1>8. ASSUME NEW w \in Workers, AppendRecordFails(w) PROVE DataTyped'
    BY <1>8, RespondType DEF AppendRecordFails, data, DataTyped, Present, Answers, Words
  <1>9. ASSUME NEW w \in Workers, Apply(w) PROVE DataTyped'
    <2>1. Cmd(w).key \in Keys /\ Cmd(w).value \in Values
      BY <1>9, Executing DEF Apply, At, Busy
    <2>2. \E v \in Values \cup {NoEntry} : table' = [table EXCEPT ![Cmd(w).key] = v]
      BY <1>9, <2>1 DEF Apply
    <2>3. table' \in [Keys -> Values \cup {NoEntry}]
      BY <2>2 DEF DataTyped
    <2>4. Present' \in SUBSET (Present \cup {Cmd(w).key})
      BY <2>2 DEF DataTyped, Present
    <2>5. IsFiniteSet(Present \cup {Cmd(w).key})
      BY FS_AddElement DEF DataTyped
    <2>6. IsFiniteSet(Present')
      BY <2>4, <2>5, FS_Subset
    <2>7. /\ step' \in [Workers -> {"begin", "found", "logged", "done"}]
          /\ response' \in [Workers -> Answers]
      BY <1>9, RespondType DEF Apply, Answers, Words
    <2>. QED
      BY <1>9, <2>3, <2>6, <2>7 DEF Apply, DataTyped
  <1>10. ASSUME NEW w \in Workers, CopyTable(w) PROVE DataTyped'
    BY <1>10, SnapshotShape, ProceedType DEF CopyTable, DataTyped, Present
  <1>11. ASSUME NEW w \in Workers, Rename(w) PROVE DataTyped'
    <2>1. tmp \in Seq(Records)
      <3>1. [key : Keys, value : Values] \subseteq Records
        BY DEF Records
      <3>. QED
        BY <3>1, SeqMonotonic DEF DataTyped
    <2>2. aof' \in Seq(Records)
      BY <1>11, <2>1 DEF Rename, DataTyped
    <2>3. /\ step' \in [Workers -> {"begin", "found", "logged", "done"}]
          /\ response' \in [Workers -> Answers]
      BY <1>11, RespondType DEF Rename, Answers, Words
    <2>. QED
      BY <1>11, <2>2, <2>3 DEF Rename, DataTyped, Present
  <1>. QED
    BY <1>1, <1>2, <1>3, <1>4, <1>5, <1>6, <1>7, <1>8, <1>9, <1>10, <1>11
       DEF DbNext, Execute

\* The data keep their types: data.aof holds whole records of known keys, and
\* data.aof.tmp never records a deletion.
THEOREM DataTypes == DbSpec => []DataOK
  <1>1. DataTyped => DataOK
    BY DEF DataTyped, DataOK, Records, Answers
  <1>. QED
    BY <1>1, DbInitIInv, DbNextIInv, DbInitData, DbNextData, PTL DEF DbSpec

-----------------------------------------------------------------------------
(* data.aof and the table.                                                 *)

\* The last record of a log about k says v, or v is NoEntry and there is none.
LastWord(log, k, v) ==
    \/ v = NoEntry /\ \A n \in 1..Len(log) : log[n].key # k
    \/ \E n \in 1..Len(log) : /\ log[n].key = k /\ log[n].value = v
                              /\ \A m \in (n + 1)..Len(log) : log[m].key # k

LEMMA LastWordReplayed ==
    ASSUME DataTyped, NEW k, NEW v, LastWord(aof, k, v)
    PROVE  Replayed(k) = v
  <1>. DEFINE about == {n \in DOMAIN aof : aof[n].key = k}
              Last(n) == n \in about /\ \A m \in about : m <= n
  <1>1. DOMAIN aof = 1..Len(aof) /\ Len(aof) \in Nat
    BY DEF DataTyped
  <1>2. CASE v = NoEntry /\ \A n \in 1..Len(aof) : aof[n].key # k
    <2>1. about = {}
      BY <1>1, <1>2
    <2>. QED
      BY <1>2, <2>1 DEF Replayed
  <1>3. ASSUME NEW n \in 1..Len(aof), aof[n].key = k, aof[n].value = v,
               \A m \in (n + 1)..Len(aof) : aof[m].key # k
        PROVE  Replayed(k) = v
    <2>1. n \in about
      BY <1>1, <1>3
    <2>2. \A m \in about : m <= n
      BY <1>1, <1>3
    <2>3. \A m \in about : (\A l \in about : l <= m) => m = n
      BY <1>1, <2>1, <2>2
    <2>4. (CHOOSE m \in about : \A l \in about : l <= m) = n
      BY <2>1, <2>2, <2>3
    <2>5. about # {}
      BY <2>1
    <2>6. Replayed(k) = aof[CHOOSE m \in about : \A l \in about : l <= m].value
      BY <2>5 DEF Replayed
    <2>. QED
      BY <1>3, <2>4, <2>6
  <1>. QED
    BY <1>2, <1>3 DEF LastWord

LEMMA LastWordAppend ==
    ASSUME NEW log \in Seq(Records), NEW r \in Records
    PROVE  /\ LastWord(Append(log, r), r.key, r.value)
           /\ \A k, v : k # r.key /\ LastWord(log, k, v) => LastWord(Append(log, r), k, v)
  <1>. DEFINE n == Len(log)
              new == Append(log, r)
  <1>1. /\ n \in Nat /\ Len(new) = n + 1 /\ new[n + 1] = r
        /\ \A m \in 1..n : new[m] = log[m]
    OBVIOUS
  <1>. HIDE DEF n, new
  <1>2. LastWord(new, r.key, r.value)
    <2>1. n + 1 \in 1..(n + 1) /\ \A m \in (n + 2)..(n + 1) : FALSE
      BY <1>1
    <2>. QED
      BY <1>1, <2>1 DEF LastWord
  <1>3. ASSUME NEW k, NEW v, k # r.key, LastWord(log, k, v)
        PROVE  LastWord(new, k, v)
    <2>1. CASE v = NoEntry /\ \A m \in 1..n : log[m].key # k
      BY <1>1, <1>3, <2>1 DEF LastWord
    <2>2. ASSUME NEW m \in 1..n, log[m].key = k, log[m].value = v,
                 \A l \in (m + 1)..n : log[l].key # k
          PROVE  LastWord(new, k, v)
      <3>1. \A l \in (m + 1)..(n + 1) : new[l].key # k
        BY <1>1, <1>3, <2>2
      <3>2. m \in 1..(n + 1) /\ new[m].key = k /\ new[m].value = v
        BY <1>1, <2>2
      <3>. QED
        BY <1>1, <3>1, <3>2 DEF LastWord
    <2>. QED
      BY <1>3, <2>1, <2>2 DEF LastWord, n
  <1>. QED
    BY <1>2, <1>3 DEF new

\* Loading a snapshot gives the table.
LEMMA SnapshotTells ==
    ASSUME DataTyped, NEW log \in Snapshot, NEW k \in Keys
    PROVE  LastWord(log, k, table[k])
  <1>0. Len(log) \in Nat
    BY SnapshotShape
  <1>1. CASE k \in Present
    <2>1. PICK n \in 1..Len(log) : log[n].key = k
      BY <1>1, SnapshotShape
    <2>2. log[n].value = table[k]
      BY <2>1, SnapshotShape
    <2>3. \A m \in (n + 1)..Len(log) : log[m].key # k
      BY <1>0, <2>1, SnapshotShape
    <2>. QED
      BY <2>1, <2>2, <2>3 DEF LastWord
  <1>2. CASE k \notin Present
    <2>1. table[k] = NoEntry
      BY <1>2 DEF Present
    <2>2. \A n \in 1..Len(log) : log[n].key # k
      BY <1>2, SnapshotShape
    <2>. QED
      BY <2>1, <2>2 DEF LastWord
  <1>. QED
    BY <1>1, <1>2

\* The command of w is in the file and not yet in the table.
Logged(w) == At(w, "logged", {"set", "del"})

Written(w) == IF Cmd(w).op = "set" THEN Cmd(w).value ELSE NoEntry

LogTells ==
    \A k \in Keys : (\A w \in Workers : Logged(w) => Cmd(w).key # k) =>
        LastWord(aof, k, table[k])

LogAhead == \A w \in Workers : Logged(w) => LastWord(aof, Cmd(w).key, Written(w))

CopyIsFresh == \A w \in Workers : At(w, "logged", {"exit"}) => tmp \in Snapshot

FoundIsThere ==
    \A w \in Workers : At(w, "found", {"get", "del"}) \/ At(w, "logged", {"del"}) =>
        table[Cmd(w).key] # NoEntry

LogAndTable == LogTells /\ LogAhead /\ CopyIsFresh /\ EntryIsStable /\ FoundIsThere

LEMMA DbInitLog == DbInit => LogAndTable
  <1>. SUFFICES ASSUME DbInit PROVE LogAndTable
    OBVIOUS
  <1>1. \A k \in Keys : LastWord(aof, k, table[k])
    BY DEF DbInit, LastWord
  <1>. QED
    BY <1>1 DEF DbInit, Init, LogAndTable, LogTells, LogAhead, CopyIsFresh, EntryIsStable,
                FoundIsThere, Logged, At

\* What a step of w inside command_execute leaves alone.
LEMMA ExecuteFrame ==
    ASSUME NEW w \in Workers, Execute(w)
    PROVE  /\ UNCHANGED vars /\ UNCHANGED answers
           /\ pc[w] = "executing" /\ step[w] # "done"
           /\ step \in [Workers -> {"begin", "found", "logged", "done"}] =>
                 \A v \in Workers \ {w} : step'[v] = step[v]
  BY DEF Execute, Lookup, ReadValue, AppendRecord, AppendRecordFails, Apply, CopyTable,
         Rename, At, Respond, Proceed

LEMMA QuietLog == LogAndTable /\ Quiet => LogAndTable'
  <1>. SUFFICES ASSUME LogAndTable, Quiet PROVE LogAndTable'
    OBVIOUS
  <1>1. UNCHANGED <<table, aof, tmp, step, entry>>
    BY DEF Quiet, data, execution
  <1>2. \A v \in Workers : \A s \in {"begin", "found", "logged"} : \A ops :
           At(v, s, ops)' <=> At(v, s, ops)
    BY <1>1 DEF Quiet, At, Cmd
  <1>3. \A v \in Workers : pc'[v] = "executing" => Cmd(v)' = Cmd(v) /\ pc[v] = "executing"
    BY DEF Quiet, Cmd
  <1>4. \A v \in Workers : Logged(v)' <=> Logged(v)
    BY <1>2 DEF Logged
  <1>. QED
    BY <1>1, <1>2, <1>3, <1>4 DEF LogAndTable, LogTells, LogAhead, CopyIsFresh,
       EntryIsStable, FoundIsThere, Logged, Written, At, Snapshot, Snapshots

\* A command that writes finds no other command at work.
LEMMA NobodyElse ==
    ASSUME IInv, NEW w \in Workers, pc[w] = "executing", Cmd(w).op # "get"
    PROVE  \A v \in Workers : pc[v] = "executing" => v = w
  BY WriterAlone

LEMMA DbNextLog == IInv /\ DataTyped /\ LogAndTable /\ [DbNext]_dbVars => LogAndTable'
  <1>. SUFFICES ASSUME IInv, DataTyped, LogAndTable, [DbNext]_dbVars PROVE LogAndTable'
    OBVIOUS
  <1>0. /\ pc \in [Workers -> WorkerStates]
        /\ step \in [Workers -> {"begin", "found", "logged", "done"}]
        /\ entry \in [Workers -> Values \cup {NoEntry}]
        /\ table \in [Keys -> Values \cup {NoEntry}]
    BY DEF IInv, Typed, TypeOK, DataTyped
  <1>1. CASE PoolStep \/ UNCHANGED dbVars \/ \E w \in Workers : Return(w) \/ SendResponse(w)
    BY <1>1, PoolStepQuiet, QuietLog
  <1>2. ASSUME NEW w \in Workers, Enter(w) PROVE LogAndTable'
    <2>1. /\ UNCHANGED <<task, table, aof, tmp, entry>>
          /\ pc' = [pc EXCEPT ![w] = "executing"] /\ pc[w] = "picked"
          /\ step' = [step EXCEPT ![w] = "begin"]
      BY <1>2, Entering DEF data
    <2>2. \A v \in Workers : \A s \in {"found", "logged"} : \A ops : At(v, s, ops)' <=> At(v, s, ops)
      BY <1>0, <2>1 DEF At, Cmd
    <2>3. \A v \in Workers : pc'[v] = "executing" /\ step'[v] = "found" =>
             pc[v] = "executing" /\ step[v] = "found"
      BY <1>0, <2>1
    <2>4. \A v \in Workers : Cmd(v)' = Cmd(v) /\ (Logged(v)' <=> Logged(v))
      BY <2>1, <2>2 DEF Cmd, Logged
    <2>. QED
      BY <2>1, <2>2, <2>3, <2>4 DEF LogAndTable, LogTells, LogAhead, CopyIsFresh,
         EntryIsStable, FoundIsThere, Written, Snapshot, Snapshots
  <1>. DEFINE frame(w) ==
                /\ UNCHANGED vars
                /\ \A v \in Workers : Cmd(v)' = Cmd(v)
                /\ \A v \in Workers \ {w} : step'[v] = step[v]
  <1>3. ASSUME NEW w \in Workers, Execute(w)
        PROVE  frame(w) /\ pc[w] = "executing" /\ pc' = pc
    BY <1>0, <1>3, ExecuteFrame DEF Cmd, vars
  <1>4. ASSUME NEW w \in Workers, Lookup(w) PROVE LogAndTable'
    <2>1. frame(w) /\ pc[w] = "executing" /\ pc' = pc
      BY <1>3, <1>4 DEF Execute
    <2>2. /\ UNCHANGED <<table, aof, tmp>>
          /\ entry' = [entry EXCEPT ![w] = table[Cmd(w).key]]
          /\ step[w] = "begin" /\ step'[w] \in {"found", "done"}
          /\ step'[w] = "found" => table[Cmd(w).key] # NoEntry
      BY <1>0, <1>4 DEF Lookup, At, data, Proceed, Respond
    <2>3. \A v \in Workers : \A ops : At(v, "logged", ops)' <=> At(v, "logged", ops)
      BY <2>1, <2>2 DEF At
    <2>4. \A v \in Workers : \A ops : At(v, "found", ops)' => v = w \/ At(v, "found", ops)
      BY <2>1, <2>2 DEF At
    <2>5. EntryIsStable'
      BY <1>0, <2>1, <2>2 DEF LogAndTable, EntryIsStable
    <2>6. FoundIsThere'
      <3>1. ASSUME NEW v \in Workers, At(v, "found", {"get", "del"})' \/ At(v, "logged", {"del"})'
            PROVE  table'[(Cmd(v).key)'] # NoEntry
        <4>1. CASE v = w
          BY <2>1, <2>2, <3>1, <4>1 DEF At
        <4>2. CASE v # w
          BY <2>1, <2>2, <2>3, <2>4, <3>1, <4>2 DEF LogAndTable, FoundIsThere
        <4>. QED
          BY <4>1, <4>2
      <3>. QED
        BY <3>1 DEF FoundIsThere
    <2>. QED
      BY <2>1, <2>2, <2>3, <2>5, <2>6 DEF LogAndTable, LogTells, LogAhead, CopyIsFresh, Logged,
         Written, Snapshot, Snapshots
  <1>5. ASSUME NEW w \in Workers, ReadValue(w) \/ AppendRecordFails(w) PROVE LogAndTable'
    <2>1. frame(w) /\ pc[w] = "executing" /\ pc' = pc
      BY <1>3, <1>5 DEF Execute
    <2>2. /\ UNCHANGED <<table, aof, tmp, entry>>
          /\ step[w] \in {"begin", "found"} /\ step'[w] = "done"
      BY <1>0, <1>5 DEF ReadValue, AppendRecordFails, At, data, Respond
    <2>3. \A v \in Workers : \A ops : At(v, "logged", ops)' <=> At(v, "logged", ops)
      BY <2>1, <2>2 DEF At
    <2>4. \A v \in Workers : \A ops : At(v, "found", ops)' => At(v, "found", ops)
      BY <2>1, <2>2 DEF At
    <2>5. EntryIsStable'
      BY <2>1, <2>2 DEF LogAndTable, EntryIsStable
    <2>. QED
      BY <2>1, <2>2, <2>3, <2>4, <2>5 DEF LogAndTable, LogTells, LogAhead, CopyIsFresh, Logged,
         FoundIsThere, Written, Snapshot, Snapshots
  <1>6. ASSUME NEW w \in Workers, AppendRecord(w) PROVE LogAndTable'
    <2>1. frame(w) /\ pc[w] = "executing" /\ pc' = pc
      BY <1>3, <1>6 DEF Execute
    <2>2. /\ UNCHANGED <<table, tmp, entry>>
          /\ Cmd(w).op \in {"set", "del"} /\ Cmd(w).key \in Keys /\ Cmd(w).value \in Values
          /\ aof' = Append(aof, [key |-> Cmd(w).key, value |-> Written(w)])
          /\ step[w] # "logged" /\ step'[w] = "logged"
      BY <1>0, <1>6, Executing DEF AppendRecord, At, Proceed, Written, Busy
    <2>3. \A v \in Workers : pc[v] = "executing" => v = w
      BY <2>1, <2>2, NobodyElse
    <2>4. [key |-> Cmd(w).key, value |-> Written(w)] \in Records
      BY <2>2 DEF Records, Written
    <2>5. /\ LastWord(aof', Cmd(w).key, Written(w))
          /\ \A k, v : k # Cmd(w).key /\ LastWord(aof, k, v) => LastWord(aof', k, v)
      BY <2>2, <2>4, LastWordAppend DEF DataTyped
    <2>6. LogAhead'
      BY <2>1, <2>3, <2>5 DEF LogAhead, Logged, At, Written
    <2>7. LogTells'
      <3>1. \A v \in Workers : ~Logged(v)
        BY <2>2, <2>3 DEF Logged, At
      <3>2. Logged(w)'
        BY <2>1, <2>2 DEF Logged, At
      <3>. QED
        BY <2>1, <2>2, <2>5, <3>1, <3>2 DEF LogAndTable, LogTells
    <2>8. CopyIsFresh'
      BY <2>1, <2>2, <2>3 DEF CopyIsFresh, At
    <2>9. EntryIsStable'
      BY <2>1, <2>2, <2>3 DEF EntryIsStable
    <2>10. FoundIsThere'
      <3>1. Cmd(w).op = "del" => At(w, "found", {"get", "del"})
        BY <1>6 DEF AppendRecord, At
      <3>. QED
        BY <2>1, <2>2, <2>3, <3>1 DEF LogAndTable, FoundIsThere, At
    <2>. QED
      BY <2>6, <2>7, <2>8, <2>9, <2>10 DEF LogAndTable
  <1>7. ASSUME NEW w \in Workers, Apply(w) PROVE LogAndTable'
    <2>1. frame(w) /\ pc[w] = "executing" /\ pc' = pc
      BY <1>3, <1>7 DEF Execute
    <2>2. /\ UNCHANGED <<aof, tmp, entry>>
          /\ Cmd(w).op \in {"set", "del"} /\ Cmd(w).key \in Keys /\ Cmd(w).value \in Values
          /\ table' = [table EXCEPT ![Cmd(w).key] = Written(w)]
          /\ Logged(w) /\ step'[w] = "done"
      BY <1>0, <1>7, Executing DEF Apply, At, Respond, Written, Logged, Busy
    <2>3. \A v \in Workers : pc[v] = "executing" => v = w
      BY <2>1, <2>2, NobodyElse
    <2>4. LogTells'
      <3>1. ASSUME NEW k \in Keys PROVE LastWord(aof, k, table'[k])
        <4>1. CASE k = Cmd(w).key
          BY <1>0, <2>2, <4>1 DEF LogAndTable, LogAhead
        <4>2. CASE k # Cmd(w).key
          BY <1>0, <2>2, <2>3, <4>2 DEF LogAndTable, LogTells, Logged, At
        <4>. QED
          BY <4>1, <4>2
      <3>. QED
        BY <2>2, <3>1 DEF LogTells
    <2>5. \A v \in Workers : \A s \in {"found", "logged"} : \A ops : ~At(v, s, ops)'
      BY <2>1, <2>2, <2>3 DEF At
    <2>6. EntryIsStable'
      BY <2>1, <2>2, <2>3 DEF EntryIsStable
    <2>. QED
      BY <2>4, <2>5, <2>6 DEF LogAndTable, LogAhead, CopyIsFresh, FoundIsThere, Logged
  <1>8. ASSUME NEW w \in Workers, CopyTable(w) PROVE LogAndTable'
    <2>1. frame(w) /\ pc[w] = "executing" /\ pc' = pc
      BY <1>3, <1>8 DEF Execute
    <2>2. /\ UNCHANGED <<table, aof, entry>>
          /\ Cmd(w).op = "exit" /\ tmp' \in Snapshot
          /\ step[w] = "begin" /\ step'[w] = "logged"
      BY <1>0, <1>8 DEF CopyTable, At, Proceed
    <2>3. \A v \in Workers : pc[v] = "executing" => v = w
      BY <2>1, <2>2, NobodyElse
    <2>4. \A v \in Workers : ~Logged(v) /\ ~Logged(v)'
      BY <2>1, <2>2, <2>3 DEF Logged, At
    <2>5. CopyIsFresh'
      BY <2>2 DEF CopyIsFresh, Snapshot, Snapshots
    <2>6. EntryIsStable' /\ FoundIsThere'
      BY <2>1, <2>2, <2>3 DEF EntryIsStable, FoundIsThere, At
    <2>. QED
      BY <2>2, <2>4, <2>5, <2>6 DEF LogAndTable, LogTells, LogAhead
  <1>9. ASSUME NEW w \in Workers, Rename(w) PROVE LogAndTable'
    <2>1. frame(w) /\ pc[w] = "executing" /\ pc' = pc
      BY <1>3, <1>9 DEF Execute
    <2>2. /\ UNCHANGED <<table, tmp, entry>>
          /\ Cmd(w).op = "exit" /\ At(w, "logged", {"exit"})
          /\ aof' = tmp \/ aof' = aof
          /\ step[w] = "logged" /\ step'[w] = "done"
      BY <1>0, <1>9 DEF Rename, At, Respond
    <2>3. \A v \in Workers : pc[v] = "executing" => v = w
      BY <2>1, <2>2, NobodyElse
    <2>4. \A v \in Workers : ~Logged(v) /\ ~Logged(v)'
      BY <2>1, <2>2, <2>3 DEF Logged, At
    <2>5. LogTells'
      <3>1. CASE aof' = tmp
        <4>1. tmp \in Snapshot
          BY <2>2 DEF LogAndTable, CopyIsFresh
        <4>2. \A k \in Keys : LastWord(aof', k, table[k])
          BY <3>1, <4>1, SnapshotTells
        <4>. QED
          BY <2>2, <4>2 DEF LogTells
      <3>2. CASE aof' = aof
        BY <2>2, <2>4, <3>2 DEF LogAndTable, LogTells
      <3>. QED
        BY <2>2, <3>1, <3>2
    <2>6. EntryIsStable' /\ FoundIsThere' /\ CopyIsFresh'
      BY <2>1, <2>2, <2>3 DEF EntryIsStable, FoundIsThere, CopyIsFresh, At
    <2>. QED
      BY <2>4, <2>5, <2>6 DEF LogAndTable, LogAhead
  <1>. QED
    BY <1>1, <1>2, <1>4, <1>5, <1>6, <1>7, <1>8, <1>9 DEF DbNext, Execute

\* Whenever no command that writes is at work, loading data.aof would give the
\* table: the append, the change of the table and the rewrite of the file are
\* one step to other workers.
THEOREM LogMatchesTable == DbSpec => []LogIsTheTable
  <1>1. IInv /\ DataTyped /\ LogAndTable => LogIsTheTable
    <2>. SUFFICES ASSUME IInv, DataTyped, LogAndTable, writer = Null, NEW k \in Keys
                  PROVE  table[k] = Replayed(k)
      BY DEF LogIsTheTable
    <2>1. \A w \in Workers : ~Logged(w)
      BY WorkerPoolAssumption, Executing
         DEF Logged, At, IInv, Locks, LockHeldWhileExecuting, is_read_command, Busy
    <2>2. LastWord(aof, k, table[k])
      BY <2>1 DEF LogAndTable, LogTells
    <2>. QED
      BY <2>2, LastWordReplayed
  <1>. QED
    BY <1>1, DbInitIInv, DbNextIInv, DbInitData, DbNextData, DbInitLog, DbNextLog,
       PTL DEF DbSpec

\* The entry that find_entry gave to GET or DEL stays what it is until the
\* command has used it.
THEOREM FoundEntryIsStable == DbSpec => []EntryIsStable
  <1>1. LogAndTable => EntryIsStable
    BY DEF LogAndTable
  <1>. QED
    BY <1>1, DbInitIInv, DbNextIInv, DbInitData, DbNextData, DbInitLog, DbNextLog,
       PTL DEF DbSpec

-----------------------------------------------------------------------------
(* Which commands have an answer.                                          *)

\* command_execute has returned, or is about to, and nothing was sent yet.
Unsent == {"executing", "send", "send bye"}

Finished(w) == pc[w] \in Unsent /\ step[w] = "done"

AnswersInTime ==
    /\ \A w \in Workers : pc[w] \in {"send", "send bye"} => step[w] = "done"
    /\ \A w \in Workers : Finished(w) => response[w] # Silence
    /\ \A w \in Workers : pc[w] \in Unsent \cup {"picked"} => answers[task[w]] = Silence
    /\ \A t \in Tasks : answers[t] # Silence => \E p \in 1..popped : submitted[p] = t

LEMMA DbInitAnswers == DbInit => AnswersInTime
  BY DEF DbInit, Init, AnswersInTime, Finished, Unsent

\* A step that leaves the answers alone, moves threads only out of the busy
\* states or from a finished command to sending, and forgets no task.
LEMMA AnswersKept ==
    ASSUME AnswersInTime, UNCHANGED <<step, response, answers>>,
           \A v \in Workers : pc'[v] \in Unsent \cup {"picked"} =>
               /\ task'[v] = task[v]
               /\ \/ pc[v] = pc'[v]
                  \/ pc[v] \in Unsent /\ step[v] = "done" /\ pc'[v] # "picked",
           \A p \in 1..popped : p \in 1..popped' /\ submitted'[p] = submitted[p]
    PROVE  AnswersInTime'
  <1>1. ASSUME NEW v \in Workers, pc'[v] \in {"send", "send bye"} PROVE step'[v] = "done"
    <2>1. \/ pc[v] \in {"send", "send bye"}
          \/ step[v] = "done"
      BY <1>1 DEF Unsent
    <2>. QED
      BY <2>1, Zenon DEF AnswersInTime
  <1>2. ASSUME NEW v \in Workers, pc'[v] \in Unsent, step'[v] = "done" PROVE response'[v] # Silence
    <2>1. pc[v] \in Unsent /\ step[v] = "done"
      BY <1>2
    <2>. QED
      BY <2>1, Zenon DEF AnswersInTime, Finished
  <1>3. ASSUME NEW v \in Workers, pc'[v] \in Unsent \cup {"picked"}
        PROVE  answers'[task'[v]] = Silence
    <2>1. pc[v] \in Unsent \cup {"picked"} /\ task'[v] = task[v]
      BY <1>3
    <2>. QED
      BY <2>1, Zenon DEF AnswersInTime
  <1>4. ASSUME NEW t \in Tasks, answers'[t] # Silence
        PROVE  \E p \in 1..popped' : submitted'[p] = t
    <2>1. PICK p \in 1..popped : submitted[p] = t
      BY <1>4, Zenon DEF AnswersInTime
    <2>. QED
      BY <2>1, Zenon
  <1>. QED
    BY <1>1, <1>2, <1>3, <1>4, Zenon DEF AnswersInTime, Finished

LEMMA DbNextAnswers == IInv /\ DataTyped /\ AnswersInTime /\ [DbNext]_dbVars => AnswersInTime'
  <1>. SUFFICES ASSUME IInv, DataTyped, AnswersInTime, [DbNext]_dbVars PROVE AnswersInTime'
    OBVIOUS
  <1>0. /\ pc \in [Workers -> WorkerStates]
        /\ task \in [Workers -> Tasks \cup {Null}]
        /\ step \in [Workers -> {"begin", "found", "logged", "done"}]
        /\ response \in [Workers -> Answers]
        /\ answers \in [Tasks -> Answers]
    BY DEF IInv, Typed, TypeOK, DataTyped
  <1>1. ASSUME NEW w \in Workers,
               \/ Lock(w) \/ Wait(w) \/ SpuriousWakeup(w) \/ Notify(w) \/ CreateWorker(w),
               UNCHANGED <<execution, answers>>
        PROVE  AnswersInTime'
    <2>1. PICK to \in WorkerStates \ (Unsent \cup {"picked"}) : pc' = [pc EXCEPT ![w] = to]
      BY <1>1 DEF Lock, Wait, SpuriousWakeup, Notify, CreateWorker, Goto, WorkerStates, Unsent
    <2>2. UNCHANGED <<task, popped, submitted, step, response, answers>>
      BY <1>1 DEF Lock, Wait, SpuriousWakeup, Notify, CreateWorker, history, execution
    <2>3. \A v \in Workers : pc'[v] \in Unsent \cup {"picked"} => pc[v] = pc'[v]
      BY <1>0, <2>1, MovesAlone
    <2>. QED
      BY <2>2, <2>3, AnswersKept
  <1>2. ASSUME NEW w \in Workers, Pop(w), UNCHANGED <<execution, answers>> PROVE AnswersInTime'
    <2>1. /\ popped < Len(submitted) /\ head = submitted[popped + 1] /\ head \in Tasks
          /\ popped \in Nat /\ Len(submitted) \in Nat
      BY <1>2, HeadTellsAll DEF Pop, AllDone, IInv, Typed, TypeOK, Queue, ListIsTheQueue
    <2>2. \A p \in 1..popped : submitted[p] # head
      BY <2>1 DEF IInv, Queue, SubmittedOnce
    <2>3. answers[head] = Silence
      BY <2>1, <2>2 DEF AnswersInTime
    <2>4. /\ pc' = [pc EXCEPT ![w] = "picked"] /\ task' = [task EXCEPT ![w] = head]
          /\ popped' = popped + 1 /\ submitted' = submitted
          /\ UNCHANGED <<step, response, answers>>
      BY <1>2 DEF Pop, Goto, execution
    <2>5. \A p \in 1..popped : p \in 1..popped'
      BY <2>1, <2>4
    <2>6. /\ pc'[w] = "picked" /\ task'[w] = head
          /\ \A v \in Workers \ {w} : pc'[v] = pc[v] /\ task'[v] = task[v]
      BY <1>0, <2>4
    <2>7. \A v \in Workers : pc'[v] \in {"send", "send bye"} => step'[v] = "done"
      BY <2>4, <2>6 DEF AnswersInTime
    <2>8. \A v \in Workers : pc'[v] \in Unsent /\ step'[v] = "done" => response'[v] # Silence
      <3>1. \A v \in Workers : pc'[v] \in Unsent => v # w /\ pc[v] \in Unsent
        BY <2>6 DEF Unsent
      <3>. QED
        BY <2>4, <3>1, Zenon DEF AnswersInTime, Finished
    <2>9. ASSUME NEW v \in Workers, pc'[v] \in Unsent \cup {"picked"}
          PROVE  answers'[task'[v]] = Silence
      <3>1. CASE v = w
        BY <2>3, <2>4, <2>6, <3>1, Zenon
      <3>2. CASE v # w
        <4>1. task'[v] = task[v] /\ pc[v] \in Unsent \cup {"picked"}
          BY <2>6, <2>9, <3>2, Zenon
        <4>. QED
          BY <2>4, <4>1, Zenon DEF AnswersInTime
      <3>. QED
        BY <3>1, <3>2
    <2>10. \A t \in Tasks : answers'[t] # Silence => \E p \in 1..popped' : submitted'[p] = t
      BY <2>4, <2>5, Zenon DEF AnswersInTime
    <2>. QED
      BY <2>7, <2>8, <2>9, <2>10, Zenon DEF AnswersInTime, Finished
  <1>3. ASSUME NEW w \in Workers, Free(w), UNCHANGED <<execution, answers>> PROVE AnswersInTime'
    <2>1. /\ pc' = [pc EXCEPT ![w] = "lock"] /\ task' = [task EXCEPT ![w] = Null]
          /\ UNCHANGED <<popped, submitted, step, response, answers>>
      BY <1>3 DEF Free, Goto, execution
    <2>2. \A v \in Workers : pc'[v] \in Unsent \cup {"picked"} =>
             task'[v] = task[v] /\ pc[v] = pc'[v]
      BY <1>0, <2>1 DEF Unsent
    <2>. QED
      BY <2>1, <2>2, AnswersKept
  <1>4. ASSUME NEW t \in Tasks, Submit(t), UNCHANGED <<execution, answers>> PROVE AnswersInTime'
    <2>1. /\ \A v \in Workers : pc'[v] = pc[v] \/ pc'[v] = "lock"
          /\ UNCHANGED <<task, popped, step, response, answers>>
          /\ \A p \in 1..popped : submitted'[p] = submitted[p]
      BY <1>0, <1>4, SignalMoves
         DEF Submit, execution, IInv, Typed, TypeOK, Queue, ListIsTheQueue
    <2>2. \A v \in Workers : pc'[v] \in Unsent \cup {"picked"} => pc[v] = pc'[v]
      BY <2>1 DEF Unsent
    <2>. QED
      BY <2>1, <2>2, AnswersKept
  <1>5. CASE ReadPipe /\ UNCHANGED <<execution, answers>>
    BY <1>5 DEF ReadPipe, history, execution, AnswersInTime, Finished
  <1>6. ASSUME NEW w \in Workers, Enter(w) PROVE AnswersInTime'
    <2>1. UNCHANGED <<popped, submitted>>
      BY <1>6 DEF Enter, LockForReading, LockForWriting, history
    <2>2. /\ pc[w] = "picked" /\ pc' = [pc EXCEPT ![w] = "executing"]
          /\ step' = [step EXCEPT ![w] = "begin"]
          /\ UNCHANGED <<task, response, answers>>
      BY <1>6, Entering
    <2>3. \A v \in Workers : Finished(v)' => v # w /\ Finished(v)
      BY <1>0, <2>2 DEF Finished
    <2>4. pc'[w] = "executing" /\ \A v \in Workers \ {w} : pc'[v] = pc[v] /\ step'[v] = step[v]
      BY <1>0, <2>2
    <2>5. \A v \in Workers : pc'[v] \in {"send", "send bye"} => step'[v] = "done"
      BY <2>4 DEF AnswersInTime
    <2>6. \A v \in Workers : Finished(v)' => response'[v] # Silence
      BY <2>2, <2>3, Zenon DEF AnswersInTime
    <2>7. \A v \in Workers : pc'[v] \in Unsent \cup {"picked"} => answers'[task'[v]] = Silence
      <3>1. \A v \in Workers : pc'[v] \in Unsent \cup {"picked"} =>
                                 pc[v] \in Unsent \cup {"picked"}
        BY <2>2, <2>4
      <3>. QED
        BY <2>2, <3>1, Zenon DEF AnswersInTime
    <2>8. \A t \in Tasks : answers'[t] # Silence => \E p \in 1..popped' : submitted'[p] = t
      BY <2>1, <2>2, Zenon DEF AnswersInTime
    <2>. QED
      BY <2>5, <2>6, <2>7, <2>8, Zenon DEF AnswersInTime
  <1>7. ASSUME NEW w \in Workers, Execute(w) PROVE AnswersInTime'
    <2>1. /\ UNCHANGED <<pc, task, popped, submitted, answers>>
          /\ pc[w] = "executing"
          /\ \A v \in Workers \ {w} : step'[v] = step[v]
      BY <1>0, <1>7, ExecuteFrame DEF vars
    <2>2. /\ \A v \in Workers \ {w} : response'[v] = response[v]
          /\ step'[w] = "done" => response'[w] # Silence
      <3>1. \/ \E s \in {"found", "logged"} : Proceed(w, s)
            \/ \E r \in Values \cup {NoEntry, "0", "1", "OK", "ERR", "BYE"} : Respond(w, r)
        <4>1. Cmd(w).key \in Keys
          BY <2>1, Executing DEF Busy
        <4>2. table[Cmd(w).key] \in Values \cup {NoEntry}
          BY <4>1 DEF DataTyped
        <4>. QED
          BY <1>7, <4>2 DEF Execute, Lookup, ReadValue, AppendRecord, AppendRecordFails, Apply,
                            CopyTable, Rename
      <3>2. \A r \in Values \cup {NoEntry, "0", "1", "OK", "ERR", "BYE"} : r # Silence
        BY InMemDBAssumption DEF InMemDBAssumption, Words, Silence
      <3>. QED
        BY <1>0, <3>1, <3>2 DEF Proceed, Respond
    <2>3. \A v \in Workers : pc'[v] \in {"send", "send bye"} => step'[v] = "done"
      <3>1. \A v \in Workers : pc[v] \in {"send", "send bye"} => v # w
        BY <2>1
      <3>. QED
        BY <2>1, <3>1, Zenon DEF AnswersInTime
    <2>4. \A v \in Workers : pc'[v] \in Unsent /\ step'[v] = "done" => response'[v] # Silence
      BY <2>1, <2>2, Zenon DEF AnswersInTime, Finished
    <2>5. \A v \in Workers : pc'[v] \in Unsent \cup {"picked"} => answers'[task'[v]] = Silence
      BY <2>1, Zenon DEF AnswersInTime
    <2>6. \A t \in Tasks : answers'[t] # Silence => \E p \in 1..popped' : submitted'[p] = t
      BY <2>1, Zenon DEF AnswersInTime
    <2>. QED
      BY <2>3, <2>4, <2>5, <2>6, Zenon DEF AnswersInTime, Finished
  <1>8. ASSUME NEW w \in Workers, Return(w) PROVE AnswersInTime'
    <2>1. /\ step[w] = "done" /\ pc[w] = "executing"
          /\ \E to \in {"send", "send bye", "free"} : pc' = [pc EXCEPT ![w] = to]
          /\ UNCHANGED <<task, popped, submitted, step, response, answers>>
      BY <1>8, ExecutedMoves DEF Return, Executed, history, execution
    <2>2. PICK to \in {"send", "send bye", "free"} : pc' = [pc EXCEPT ![w] = to]
      BY <2>1
    <2>3. pc'[w] = to /\ \A v \in Workers \ {w} : pc'[v] = pc[v]
      BY <1>0, <2>2, MovesAlone
    <2>4. \A v \in Workers : pc'[v] \in Unsent \cup {"picked"} =>
             \/ pc[v] = pc'[v]
             \/ pc[v] \in Unsent /\ step[v] = "done" /\ pc'[v] # "picked"
      BY <2>1, <2>3 DEF Unsent
    <2>. QED
      BY <2>1, <2>4, AnswersKept
  <1>9. ASSUME NEW w \in Workers, SendResponse(w) PROVE AnswersInTime'
    <2>1. /\ pc[w] \in {"send", "send bye"}
          /\ \E to \in {"notify", "free"} : pc' = [pc EXCEPT ![w] = to]
          /\ answers' = [answers EXCEPT ![task[w]] = response[w]]
          /\ UNCHANGED <<task, popped, submitted, step, response>>
      BY <1>9, SendMoves DEF SendResponse, Send, history, execution
    <2>2. task[w] \in Tasks /\ \E p \in 1..popped : submitted[p] = task[w]
      BY <2>1, Executing DEF Busy, IInv, Owners, Typed, OwnsWhenBusy
    <2>3. \A v \in Workers : task[v] = task[w] => v = w
      BY <2>2, WorkerPoolAssumption DEF IInv, Owners
    <2>4. \A v \in Workers : pc'[v] \in Unsent \cup {"picked"} => v # w /\ pc[v] = pc'[v]
      BY <1>0, <2>1 DEF Unsent
    <2>5. \A v \in Workers : pc'[v] \in Unsent \cup {"picked"} => answers'[task'[v]] = Silence
      <3>. SUFFICES ASSUME NEW v \in Workers, pc'[v] \in Unsent \cup {"picked"}
                    PROVE  answers'[task[v]] = Silence
        BY <2>1
      <3>1. task[v] # task[w] /\ answers[task[v]] = Silence
        BY <2>3, <2>4 DEF AnswersInTime
      <3>2. task[v] \in Tasks
        BY <2>4, Executing DEF Busy, Unsent
      <3>. QED
        BY <1>0, <2>1, <3>1, <3>2
    <2>6. \A v \in Workers : pc'[v] \in {"send", "send bye"} => step'[v] = "done"
      BY <2>1, <2>4 DEF AnswersInTime, Unsent
    <2>7. \A v \in Workers : pc'[v] \in Unsent /\ step'[v] = "done" => response'[v] # Silence
      BY <2>1, <2>4 DEF AnswersInTime, Finished
    <2>8. \A t \in Tasks : answers'[t] # Silence => \E p \in 1..popped' : submitted'[p] = t
      BY <1>0, <2>1, <2>2 DEF AnswersInTime
    <2>. QED
      BY <2>5, <2>6, <2>7, <2>8, Zenon DEF AnswersInTime, Finished
  <1>10. CASE UNCHANGED dbVars
    BY <1>10 DEF dbVars, vars, execution, AnswersInTime, Finished
  <1>. QED
    BY <1>1, <1>2, <1>3, <1>4, <1>5, <1>6, <1>7, <1>8, <1>9, <1>10 DEF DbNext, PoolStep

-----------------------------------------------------------------------------
(* Commands are atomic: every step is one of AtomicDB, or none.            *)

Accepted(t) == \E n \in DOMAIN submitted : submitted[n] = t

\* What the refinement mapping makes of a task.
Phase(t) == IF answers[t] # Silence THEN "answered"
            ELSE IF Done(t) THEN "done"
            ELSE IF Accepted(t) THEN "submitted" ELSE "new"

Answer(t) == IF answers[t] # Silence \/ ~Done(t) THEN answers[t]
             ELSE response[CHOOSE w \in Workers : task[w] = t]

View(t) == <<Phase(t), Answer(t)>>

LEMMA Mapping ==
    /\ Atomic!vars = <<table, [t \in Tasks |-> Phase(t)], [t \in Tasks |-> Answer(t)]>>
    /\ Atomic!vars' = <<table', [t \in Tasks |-> Phase(t)'], [t \in Tasks |-> Answer(t)']>>
  BY DEF Atomic!vars, Phase, Answer, Accepted

LEMMA DoneIsFinished ==
    ASSUME NEW t
    PROVE  Done(t) <=> \E w \in Workers : task[w] = t /\ Finished(w)
  BY DEF Done, Finished, Unsent

\* A task has one owner.
LEMMA OwnerIs ==
    ASSUME IInv, NEW w \in Workers, task[w] # Null
    PROVE  /\ (CHOOSE v \in Workers : task[v] = task[w]) = w
           /\ \A v \in Workers : task[v] = task[w] => v = w
           /\ Accepted(task[w])
  <1>1. \A v \in Workers : task[v] = task[w] => v = w
    BY DEF IInv, Owners
  <1>2. PICK p \in 1..popped : submitted[p] = task[w]
    BY DEF IInv, Owners
  <1>3. p \in DOMAIN submitted
    BY DEF IInv, Typed, TypeOK, Queue, ListIsTheQueue
  <1>. QED
    BY <1>1, <1>2, <1>3 DEF Accepted

\* What clients see of a task whose command has been executed.
LEMMA ViewOfFinished ==
    ASSUME IInv, AnswersInTime, NEW w \in Workers, Finished(w)
    PROVE  View(task[w]) = <<"done", response[w]>>
  <1>1. task[w] # Null
    BY Executing, WorkerPoolAssumption DEF Finished, Unsent, Busy
  <1>2. answers[task[w]] = Silence
    BY DEF AnswersInTime, Finished
  <1>3. Done(task[w])
    BY DoneIsFinished
  <1>. QED
    BY <1>1, <1>2, <1>3, OwnerIs DEF View, Phase, Answer

LEMMA ViewOfPending ==
    ASSUME AnswersInTime, NEW t \in Tasks, answers[t] = Silence, ~Done(t)
    PROVE  View(t) = <<IF Accepted(t) THEN "submitted" ELSE "new", Silence>>
  BY DEF View, Phase, Answer

LEMMA ViewOfAnswered ==
    ASSUME NEW t \in Tasks, answers[t] # Silence
    PROVE  View(t) = <<"answered", answers[t]>>
  BY DEF View, Phase, Answer

\* A step that finishes no command, answers none and accepts none for t does
\* not show.
LEMMA ViewSame ==
    ASSUME IInv, IInv', AnswersInTime, AnswersInTime', NEW t \in Tasks,
           answers'[t] = answers[t], Accepted(t)' <=> Accepted(t),
           \A v \in Workers : Finished(v) /\ task[v] = t =>
               Finished(v)' /\ task'[v] = t /\ response'[v] = response[v],
           \A v \in Workers : Finished(v)' /\ task'[v] = t => Finished(v) /\ task[v] = t
    PROVE  View(t)' = View(t)
  <1>1. CASE answers[t] # Silence
    BY <1>1, ViewOfAnswered DEF View, Phase, Answer
  <1>2. CASE answers[t] = Silence /\ \E v \in Workers : Finished(v) /\ task[v] = t
    <2>1. PICK v \in Workers : Finished(v) /\ task[v] = t
      BY <1>2
    <2>2. View(t) = <<"done", response[v]>>
      BY <2>1, ViewOfFinished
    <2>3. /\ v \in Workers /\ Finished(v)' /\ task'[v] = t /\ response'[v] = response[v]
      BY <2>1
    <2>4. t # Null
      BY WorkerPoolAssumption
    <2>5. (CHOOSE u \in Workers : task'[u] = t) = v
      <3>1. \A u \in Workers : task'[u] = t => u = v
        BY <2>3, <2>4 DEF IInv, Owners
      <3>. QED
        BY <2>3, <3>1
    <2>6. Done(t)'
      BY <2>3 DEF Done, Finished, Unsent
    <2>7. answers'[t] = Silence
      BY <1>2
    <2>8. View(t)' = <<"done", response'[v]>>
      BY <2>5, <2>6, <2>7 DEF View, Phase, Answer
    <2>. QED
      BY <2>2, <2>3, <2>8
  <1>3. CASE answers[t] = Silence /\ ~\E v \in Workers : Finished(v) /\ task[v] = t
    <2>1. ~Done(t)
      BY <1>3, DoneIsFinished
    <2>2. ~Done(t)'
      BY <1>3 DEF Done, Finished, Unsent
    <2>. QED
      BY <1>3, <2>1, <2>2 DEF View, Phase, Answer
  <1>. QED
    BY <1>1, <1>2, <1>3

\* The steps in which a command takes effect.
LEMMA EffectShows ==
    ASSUME IInv, IInv', DataTyped, AnswersInTime, AnswersInTime',
           NEW w \in Workers, NEW r, Execute(w), Respond(w, r),
           NEW t \in Tasks, task[w] = t
    PROVE  /\ View(t) = <<"submitted", Silence>>
           /\ View(t)' = <<"done", r>>
           /\ \A u \in Tasks \ {t} : View(u)' = View(u)
  <1>1. /\ UNCHANGED <<pc, task, submitted, answers>>
        /\ pc[w] = "executing" /\ step[w] # "done"
    BY ExecuteFrame DEF vars
  <1>2. /\ step' = [step EXCEPT ![w] = "done"] /\ response' = [response EXCEPT ![w] = r]
        /\ step \in [Workers -> {"begin", "found", "logged", "done"}]
        /\ response \in [Workers -> Answers]
    BY DEF Respond, DataTyped
  <1>3. t # Null
    BY WorkerPoolAssumption
  <1>4. answers[t] = Silence
    BY <1>1 DEF AnswersInTime, Unsent
  <1>5. ~Done(t) /\ Accepted(t)
    BY <1>1, <1>3, OwnerIs, DoneIsFinished DEF Finished
  <1>6. View(t) = <<"submitted", Silence>>
    BY <1>4, <1>5, ViewOfPending
  <1>7. View(t)' = <<"done", r>>
    <2>1. Done(t)'
      BY <1>1, <1>2 DEF Done
    <2>2. (CHOOSE v \in Workers : task[v] = t) = w
      BY <1>3, OwnerIs
    <2>. QED
      BY <1>1, <1>2, <1>4, <2>1, <2>2 DEF View, Phase, Answer
  <1>8. ASSUME NEW u \in Tasks \ {t} PROVE View(u)' = View(u)
    <2>1. \A v \in Workers : task[v] = u => v # w
      OBVIOUS
    <2>2. \A v \in Workers : task[v] = u =>
             (Finished(v)' <=> Finished(v)) /\ response'[v] = response[v]
      BY <1>1, <1>2, <2>1 DEF Finished
    <2>. QED
      BY <1>1, <2>2, ViewSame DEF Accepted
  <1>. QED
    BY <1>6, <1>7, <1>8

\* The actions of AtomicDB in terms of views.
LEMMA EffectIs ==
    ASSUME NEW t \in Tasks, NEW r,
           View(t) = <<"submitted", Silence>>, View(t)' = <<"done", r>>,
           \A u \in Tasks \ {t} : View(u)' = View(u)
    PROVE  /\ Command[t].op = "get" /\ r = table[Command[t].key] /\ table' = table
                 => Atomic!Get(t)
           /\ Command[t].op = "set" /\ r = "OK"
              /\ table' = [table EXCEPT ![Command[t].key] = Command[t].value]
                 => Atomic!Set(t)
           /\ Command[t].op = "del" /\ r = (IF table[Command[t].key] = NoEntry THEN "0" ELSE "1")
              /\ table' = [table EXCEPT ![Command[t].key] = NoEntry]
                 => Atomic!Del(t)
           /\ Command[t].op = "exit" /\ r = "BYE" /\ table' = table => Atomic!Exit(t)
           /\ Command[t].op \in {"set", "del", "exit"} /\ r = "ERR" /\ table' = table
                 => Atomic!Fails(t)
  <1>. DEFINE P == [u \in Tasks |-> Phase(u)]
              A == [u \in Tasks |-> Answer(u)]
  <1>1. P[t] = "submitted" /\ P' = [P EXCEPT ![t] = "done"]
    BY DEF View
  <1>2. A' = [A EXCEPT ![t] = r]
    BY DEF View
  <1>3. ASSUME Command[t].op = "get", r = table[Command[t].key], table' = table
        PROVE  Atomic!Get(t)
    <2>1. A' = [A EXCEPT ![t] = table[Command[t].key]]
      BY <1>2, <1>3
    <2>. QED
      BY <1>1, <1>3, <2>1 DEF Atomic!Get, Atomic!Does, Phase, Answer, Accepted
  <1>4. ASSUME Command[t].op = "set", r = "OK",
               table' = [table EXCEPT ![Command[t].key] = Command[t].value]
        PROVE  Atomic!Set(t)
    <2>1. A' = [A EXCEPT ![t] = "OK"]
      BY <1>2, <1>4
    <2>. QED
      BY <1>1, <1>4, <2>1 DEF Atomic!Set, Atomic!Does, Phase, Answer, Accepted
  <1>5. ASSUME Command[t].op = "del",
               r = (IF table[Command[t].key] = NoEntry THEN "0" ELSE "1"),
               table' = [table EXCEPT ![Command[t].key] = NoEntry]
        PROVE  Atomic!Del(t)
    <2>1. A' = [A EXCEPT ![t] = IF table[Command[t].key] = NoEntry THEN "0" ELSE "1"]
      BY <1>2, <1>5
    <2>. QED
      BY <1>1, <1>5, <2>1 DEF Atomic!Del, Atomic!Does, Phase, Answer, Accepted
  <1>6. ASSUME Command[t].op = "exit", r = "BYE", table' = table PROVE Atomic!Exit(t)
    <2>1. A' = [A EXCEPT ![t] = "BYE"]
      BY <1>2, <1>6
    <2>. QED
      BY <1>1, <1>6, <2>1 DEF Atomic!Exit, Atomic!Does, Phase, Answer, Accepted
  <1>7. ASSUME Command[t].op \in {"set", "del", "exit"}, r = "ERR", table' = table
        PROVE  Atomic!Fails(t)
    <2>1. A' = [A EXCEPT ![t] = "ERR"]
      BY <1>2, <1>7
    <2>. QED
      BY <1>1, <1>7, <2>1 DEF Atomic!Fails, Atomic!Does, Phase, Answer, Accepted
  <1>. QED
    BY <1>3, <1>4, <1>5, <1>6, <1>7

LEMMA SubmitIs ==
    ASSUME NEW t \in Tasks, table' = table,
           View(t) = <<"new", Silence>>, View(t)' = <<"submitted", Silence>>,
           \A u \in Tasks \ {t} : View(u)' = View(u)
    PROVE  Atomic!Submit(t)
  <1>. DEFINE P == [u \in Tasks |-> Phase(u)]
              A == [u \in Tasks |-> Answer(u)]
  <1>1. P[t] = "new" /\ P' = [P EXCEPT ![t] = "submitted"] /\ A' = A
    BY DEF View
  <1>. QED
    BY <1>1 DEF Atomic!Submit, Phase, Answer, Accepted

LEMMA AnsweredIs ==
    ASSUME NEW t \in Tasks, NEW r, table' = table,
           View(t) = <<"done", r>>, View(t)' = <<"answered", r>>,
           \A u \in Tasks \ {t} : View(u)' = View(u)
    PROVE  Atomic!Answered(t)
  <1>. DEFINE P == [u \in Tasks |-> Phase(u)]
              A == [u \in Tasks |-> Answer(u)]
  <1>1. P[t] = "done" /\ P' = [P EXCEPT ![t] = "answered"] /\ A' = A
    BY DEF View
  <1>. QED
    BY <1>1 DEF Atomic!Answered, Phase, Answer, Accepted

LEMMA StutterIs ==
    ASSUME table' = table, \A u \in Tasks : View(u)' = View(u)
    PROVE  UNCHANGED Atomic!vars
  <1>1. \A u \in Tasks : Phase(u)' = Phase(u) /\ Answer(u)' = Answer(u)
    BY DEF View
  <1>. QED
    BY <1>1, Mapping

LEMMA AtomicInit == DbInit => Atomic!Init
  BY DEF DbInit, Init, Atomic!Init, Atomic!Silence, Silence, Done

DbInv == IInv /\ DataTyped /\ LogAndTable /\ AnswersInTime

LEMMA DbInitInv == DbInit => DbInv
  BY DbInitIInv, DbInitData, DbInitLog, DbInitAnswers DEF DbInv

LEMMA DbNextInv == DbInv /\ [DbNext]_dbVars => DbInv'
  BY DbNextIInv, DbNextData, DbNextLog, DbNextAnswers DEF DbInv

\* A command that executes takes effect in the step that sets its response,
\* and in no other.
LEMMA ExecuteIsAtomic ==
    ASSUME DbInv, DbInv', NEW w \in Workers, Execute(w)
    PROVE  Atomic!Next \/ UNCHANGED Atomic!vars
  <1>0. /\ IInv /\ IInv' /\ DataTyped /\ AnswersInTime /\ AnswersInTime'
        /\ table \in [Keys -> Values \cup {NoEntry}]
        /\ step \in [Workers -> {"begin", "found", "logged", "done"}]
    BY DEF DbInv, DataTyped
  <1>1. /\ UNCHANGED <<pc, task, submitted, answers>>
        /\ pc[w] = "executing" /\ step[w] # "done"
        /\ \A v \in Workers \ {w} : step'[v] = step[v]
    BY <1>0, ExecuteFrame DEF vars
  <1>1a. PICK t \in Tasks : task[w] = t
    BY <1>0, <1>1, Executing DEF Busy
  <1>2. Cmd(w) = Command[t] /\ Cmd(w).key \in Keys
    BY <1>0, <1>1, <1>1a, Executing DEF Busy, Cmd
  <1>3. ASSUME NEW r, Respond(w, r)
        PROVE  /\ View(t) = <<"submitted", Silence>> /\ View(t)' = <<"done", r>>
               /\ \A u \in Tasks \ {t} : View(u)' = View(u)
    BY <1>0, <1>1a, <1>3, EffectShows
  <1>4. ASSUME NEW s \in {"found", "logged"}, Proceed(w, s), UNCHANGED table
        PROVE  UNCHANGED Atomic!vars
    <2>1. \A v \in Workers : (Finished(v)' <=> Finished(v)) /\ response'[v] = response[v]
      BY <1>0, <1>1, <1>4 DEF Proceed, Finished
    <2>2. \A u \in Tasks : View(u)' = View(u)
      BY <1>0, <1>1, <2>1, ViewSame DEF Accepted
    <2>. QED
      BY <1>4, <2>2, StutterIs
  <1>5. ASSUME \/ Atomic!Set(t) \/ Atomic!Get(t) \/ Atomic!Del(t) \/ Atomic!Exit(t)
               \/ Atomic!Fails(t)
        PROVE  Atomic!Next
    BY <1>5 DEF Atomic!Next
  <1>6. CASE Lookup(w)
    <2>1. CASE table[Cmd(w).key] # NoEntry
      BY <1>0, <1>4, <1>6, <2>1 DEF Lookup, data, DataTyped
    <2>2. CASE table[Cmd(w).key] = NoEntry /\ Cmd(w).op = "get"
      <3>1. Respond(w, NoEntry) /\ table' = table
        BY <1>0, <1>6, <2>2 DEF Lookup, data, DataTyped
      <3>2. Atomic!Get(t)
        BY <1>2, <1>3, <2>2, <3>1, EffectIs
      <3>. QED
        BY <1>2, <1>5, <3>2
    <2>3. CASE table[Cmd(w).key] = NoEntry /\ Cmd(w).op # "get"
      <3>1. Respond(w, "0") /\ table' = table /\ Cmd(w).op = "del"
        BY <1>0, <1>6, <2>3 DEF Lookup, At, data, DataTyped
      <3>2. table' = [table EXCEPT ![Cmd(w).key] = NoEntry]
        BY <1>0, <1>2, <2>3, <3>1
      <3>3. Atomic!Del(t)
        BY <1>2, <1>3, <2>3, <3>1, <3>2, EffectIs
      <3>. QED
        BY <1>2, <1>5, <3>3
    <2>. QED
      BY <2>1, <2>2, <2>3
  <1>7. CASE ReadValue(w)
    <2>1. table' = table /\ Cmd(w).op = "get"
      BY <1>7 DEF ReadValue, At, data
    <2>2. PICK r : r = table[Cmd(w).key]
      OBVIOUS
    <2>3. Respond(w, r)
      BY <1>7, <2>2 DEF ReadValue, Respond
    <2>4. Atomic!Get(t)
      BY <1>2, <1>3, <2>1, <2>2, <2>3, EffectIs
    <2>. QED
      BY <1>2, <1>5, <2>4
  <1>8. CASE AppendRecord(w)
    BY <1>4, <1>8 DEF AppendRecord
  <1>9. CASE AppendRecordFails(w)
    <2>1. Respond(w, "ERR") /\ table' = table /\ Cmd(w).op \in {"set", "del"}
      BY <1>9 DEF AppendRecordFails, At, data
    <2>2. Atomic!Fails(t)
      BY <1>2, <1>3, <2>1, EffectIs
    <2>. QED
      BY <1>2, <1>5, <2>2
  <1>10. CASE Apply(w) /\ Cmd(w).op = "set"
    <2>1. Respond(w, "OK") /\ table' = [table EXCEPT ![Cmd(w).key] = Cmd(w).value]
      BY <1>10 DEF Apply
    <2>2. Atomic!Set(t)
      BY <1>2, <1>3, <1>10, <2>1, EffectIs
    <2>. QED
      BY <1>2, <1>5, <2>2
  <1>11. CASE Apply(w) /\ Cmd(w).op # "set"
    <2>1. /\ Respond(w, "1") /\ table' = [table EXCEPT ![Cmd(w).key] = NoEntry]
          /\ Cmd(w).op = "del" /\ At(w, "logged", {"del"})
      BY <1>11 DEF Apply, At
    <2>2. table[Cmd(w).key] # NoEntry
      BY <2>1 DEF DbInv, LogAndTable, FoundIsThere
    <2>3. Atomic!Del(t)
      BY <1>2, <1>3, <2>1, <2>2, EffectIs
    <2>. QED
      BY <1>2, <1>5, <2>3
  <1>12. CASE CopyTable(w)
    BY <1>4, <1>12 DEF CopyTable
  <1>13. CASE Rename(w)
    <2>1. /\ Respond(w, "BYE") \/ Respond(w, "ERR")
          /\ table' = table /\ Cmd(w).op = "exit"
      BY <1>13 DEF Rename, At
    <2>2. Atomic!Exit(t) \/ Atomic!Fails(t)
      BY <1>2, <1>3, <2>1, EffectIs
    <2>. QED
      BY <1>2, <1>5, <2>2
  <1>. QED
    BY <1>6, <1>7, <1>8, <1>9, <1>10, <1>11, <1>12, <1>13 DEF Execute

LEMMA StepIsAtomic == DbInv /\ DbInv' /\ [DbNext]_dbVars => [Atomic!Next]_(Atomic!vars)
  <1>. SUFFICES ASSUME DbInv, DbInv', [DbNext]_dbVars
                PROVE  Atomic!Next \/ UNCHANGED Atomic!vars
    OBVIOUS
  <1>0. /\ IInv /\ IInv' /\ AnswersInTime /\ AnswersInTime'
        /\ pc \in [Workers -> WorkerStates]
        /\ task \in [Workers -> Tasks \cup {Null}]
        /\ answers \in [Tasks -> Answers]
        /\ submitted \in Seq(Tasks)
    BY DEF DbInv, IInv, Typed, TypeOK, DataTyped
  <1>1. ASSUME UNCHANGED <<table, step, response, answers, submitted>>,
               \A v \in Workers : /\ pc'[v] \in Unsent /\ step[v] = "done" <=>
                                     pc[v] \in Unsent /\ step[v] = "done"
                                  /\ pc[v] \in Unsent /\ step[v] = "done" => task'[v] = task[v]
        PROVE  UNCHANGED Atomic!vars
    <2>1. \A v \in Workers : (Finished(v)' <=> Finished(v)) /\ (Finished(v) => task'[v] = task[v])
      BY <1>1 DEF Finished
    <2>2. \A u \in Tasks : View(u)' = View(u)
      BY <1>0, <1>1, <2>1, ViewSame DEF Accepted
    <2>. QED
      BY <1>1, <2>2, StutterIs
  <1>2. ASSUME NEW w \in Workers,
               \/ Lock(w) \/ Wait(w) \/ SpuriousWakeup(w) \/ Notify(w) \/ CreateWorker(w)
               \/ Pop(w) \/ Free(w),
               UNCHANGED <<data, execution, answers>>
        PROVE  UNCHANGED Atomic!vars
    <2>1. /\ pc[w] \notin Unsent
          /\ \E to \in WorkerStates \ Unsent : pc' = [pc EXCEPT ![w] = to]
          /\ task' = task \/ \E u : task' = [task EXCEPT ![w] = u]
      BY <1>2 DEF Lock, Wait, SpuriousWakeup, Notify, CreateWorker, Pop, Free, Goto,
                  WorkerStates, Unsent
    <2>2. UNCHANGED <<table, step, response, answers, submitted>>
      BY <1>2 DEF Lock, Wait, SpuriousWakeup, Notify, CreateWorker, Pop, Free, history,
                  data, execution
    <2>. QED
      BY <1>0, <1>1, <2>1, <2>2
  <1>3. ASSUME NEW t \in Tasks, Submit(t), UNCHANGED <<data, execution, answers>>
        PROVE  Atomic!Submit(t)
    <2>1. /\ ~Accepted(t) /\ Accepted(t)'
          /\ \A u \in Tasks \ {t} : Accepted(u)' <=> Accepted(u)
      BY <1>0, <1>3 DEF Submit, Accepted
    <2>2. UNCHANGED <<table, step, response, answers, task>>
      BY <1>3 DEF Submit, data, execution
    <2>3. \A v \in Workers : Finished(v)' <=> Finished(v)
      BY <1>0, <1>3, <2>2, SignalMoves DEF Submit, Finished, Unsent
    <2>4. answers[t] = Silence
      <3>1. \A p \in 1..popped : submitted[p] # t
        BY <2>1, <1>0 DEF Accepted, IInv, Typed, TypeOK, Queue, ListIsTheQueue
      <3>. QED
        BY <1>0, <3>1 DEF AnswersInTime
    <2>5. \A v \in Workers : task[v] # t
      BY <2>1, <1>0, OwnerIs, WorkerPoolAssumption
    <2>6. ~Done(t) /\ ~Done(t)'
      BY <2>2, <2>5 DEF Done
    <2>7. View(t) = <<"new", Silence>> /\ View(t)' = <<"submitted", Silence>>
      BY <2>1, <2>2, <2>4, <2>6 DEF View, Phase, Answer
    <2>8. \A u \in Tasks \ {t} : View(u)' = View(u)
      BY <1>0, <2>1, <2>2, <2>3, ViewSame
    <2>. QED
      BY <2>2, <2>7, <2>8, SubmitIs
  <1>4. CASE ReadPipe /\ UNCHANGED <<data, execution, answers>>
    BY <1>1, <1>4 DEF ReadPipe, history, data, execution
  <1>5. ASSUME NEW w \in Workers, Enter(w) PROVE UNCHANGED Atomic!vars
    <2>1. /\ pc[w] = "picked" /\ pc' = [pc EXCEPT ![w] = "executing"]
          /\ step' = [step EXCEPT ![w] = "begin"]
          /\ UNCHANGED <<task, table, response, answers>>
      BY <1>0, <1>5, Entering DEF data
    <2>2. UNCHANGED submitted
      BY <1>5 DEF Enter, LockForReading, LockForWriting, history
    <2>3. \A v \in Workers : Finished(v)' <=> Finished(v)
      BY <1>0, <2>1 DEF Finished, Unsent, DbInv, DataTyped
    <2>4. \A u \in Tasks : View(u)' = View(u)
      BY <1>0, <2>1, <2>2, <2>3, ViewSame DEF Accepted
    <2>. QED
      BY <2>1, <2>4, StutterIs
  <1>6. ASSUME NEW w \in Workers, Return(w) PROVE UNCHANGED Atomic!vars
    <2>1. /\ pc[w] = "executing"
          /\ pc' = [pc EXCEPT ![w] = "send"] \/ pc' = [pc EXCEPT ![w] = "send bye"]
          /\ UNCHANGED <<table, task, submitted, step, response, answers>>
      <3>1. PICK to \in {"send", "send bye", "free"} : pc' = [pc EXCEPT ![w] = to]
        BY <1>6, ExecutedMoves DEF Return
      <3>2. pc'[w] \in {"send", "send bye"} /\ pc[w] = "executing"
        BY <1>6, ExecutedMoves DEF Return
      <3>3. to \in {"send", "send bye"}
        BY <1>0, <3>1, <3>2
      <3>. QED
        BY <1>6, <3>1, <3>2, <3>3 DEF Return, Executed, data, execution, history
    <2>. QED
      BY <1>0, <1>1, <2>1 DEF Unsent
  <1>7. ASSUME NEW w \in Workers, SendResponse(w) PROVE Atomic!Next
    <2>1. /\ pc[w] \in {"send", "send bye"}
          /\ \E to \in {"notify", "free"} : pc' = [pc EXCEPT ![w] = to]
          /\ answers' = [answers EXCEPT ![task[w]] = response[w]]
          /\ UNCHANGED <<table, task, submitted, step, response>>
      BY <1>7, SendMoves DEF SendResponse, Send, history, data, execution
    <2>2. Finished(w) /\ response[w] # Silence
      BY <1>0, <2>1 DEF AnswersInTime, Finished, Unsent
    <2>3. PICK t \in Tasks : task[w] = t
      BY <1>0, <2>1, Executing DEF Busy
    <2>4. View(t) = <<"done", response[w]>>
      BY <1>0, <2>2, <2>3, ViewOfFinished
    <2>5. View(t)' = <<"answered", response[w]>>
      BY <1>0, <2>1, <2>2, <2>3 DEF View, Phase, Answer
    <2>6. ASSUME NEW u \in Tasks \ {t} PROVE View(u)' = View(u)
      <3>1. answers'[u] = answers[u]
        BY <1>0, <2>1, <2>3
      <3>2. \A v \in Workers : task[v] = u => (Finished(v)' <=> Finished(v))
        BY <1>0, <2>1, <2>3 DEF Finished
      <3>. QED
        BY <1>0, <2>1, <3>1, <3>2, ViewSame DEF Accepted
    <2>. QED
      BY <2>1, <2>4, <2>3, <2>5, <2>6, AnsweredIs DEF Atomic!Next
  <1>8. CASE UNCHANGED dbVars
    BY <1>1, <1>8 DEF dbVars, vars, data, execution
  <1>9. CASE PoolStep
    BY <1>2, <1>3, <1>4, <1>9 DEF PoolStep, Atomic!Next
  <1>. QED
    BY <1>5, <1>6, <1>7, <1>8, <1>9, ExecuteIsAtomic DEF DbNext

\* The pool, the lock, the table and the file together are a database whose
\* commands are atomic: each takes effect once, at one instant between its
\* submission and its answer, and is answered accordingly.
THEOREM CommandsAreAtomic == DbSpec => RefinesAtomicDB
  BY AtomicInit, DbInitInv, DbNextInv, StepIsAtomic, PTL
     DEF DbSpec, RefinesAtomicDB, Atomic!Spec
=============================================================================

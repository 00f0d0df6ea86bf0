------------------------------ MODULE InMemDB ------------------------------
(***************************************************************************)
(* The worker pool with the commands it executes: what command_execute     *)
(* does to the table and to data.aof while other workers run, split where  *)
(* a race would show.  The pool is module WorkerPool; the engine with      *)
(* expiry, crashes and torn records is module Store, where commands run    *)
(* one by one.  That they may be taken to do so is what is checked here,   *)
(* for a pool that serves: start-up failures and shutdown are left to      *)
(* WorkerPool.                                                             *)
(***************************************************************************)
EXTENDS WorkerPool

CONSTANTS
    Keys, Values,
    NoEntry,         \* a NULL Entry pointer; also the answer "(nil)"
    Command,         \* Tasks -> what the task asks for
    AppendMayFail    \* may writing data.aof fail?

\* is_read_command agrees with the parser (module CommandLine).
KindOf(op) == CASE op = "get" -> "read" [] op = "exit" -> "exit" [] OTHER -> "write"

Silence == "none"

\* The answers that are neither a value nor "(nil)".  They count as different
\* from every value, however that is spelt.
Words == {"OK", "ERR", "0", "1", "BYE", Silence}

ASSUME InMemDBAssumption ==
    /\ \A t \in Tasks : /\ Command[t].op \in {"set", "get", "del", "exit"}
                        /\ Command[t].key \in Keys
                        /\ Command[t].value \in Values
                        /\ Kind[t] = KindOf(Command[t].op)
    /\ NoEntry \notin Values
    /\ Words \cap (Values \cup {NoEntry}) = {}
    /\ AppendMayFail \in BOOLEAN

VARIABLES
    table,       \* Keys -> Values or NoEntry
    aof,         \* data.aof: a sequence of [key, value], NoEntry for a DEL
    tmp,         \* data.aof.tmp
    step,        \* worker -> how far command_execute is
    entry,       \* worker -> what find_entry showed it
    response,    \* worker -> its response buffer
    answers      \* history: task -> the response sent

data == <<table, aof, tmp>>
execution == <<step, entry, response>>
dbVars == <<vars, data, execution, answers>>

DbInit ==
    /\ Init
    /\ table = [k \in Keys |-> NoEntry]
    /\ aof = <<>>
    /\ tmp = <<>>
    /\ step = [w \in Workers |-> "begin"]
    /\ entry = [w \in Workers |-> NoEntry]
    /\ response = [w \in Workers |-> Silence]
    /\ answers = [t \in Tasks |-> Silence]

-----------------------------------------------------------------------------
(* command_execute.                                                        *)

Cmd(w) == Command[task[w]]

At(w, where, ops) == pc[w] = "executing" /\ step[w] = where /\ Cmd(w).op \in ops

Respond(w, r) ==
    /\ step' = [step EXCEPT ![w] = "done"]
    /\ response' = [response EXCEPT ![w] = r]

Proceed(w, where) ==
    /\ step' = [step EXCEPT ![w] = where]
    /\ UNCHANGED response

\* find_entry, in GET and DEL.
Lookup(w) ==
    /\ At(w, "begin", {"get", "del"})
    /\ entry' = [entry EXCEPT ![w] = table[Cmd(w).key]]
    /\ IF entry'[w] # NoEntry THEN Proceed(w, "found")
       ELSE Respond(w, IF Cmd(w).op = "get" THEN NoEntry ELSE "0")
    /\ UNCHANGED <<vars, data, answers>>

\* GET copies the value out of the entry.
ReadValue(w) ==
    /\ At(w, "found", {"get"})
    /\ Respond(w, table[Cmd(w).key])
    /\ UNCHANGED <<vars, data, entry, answers>>

\* persistence_append_set or persistence_append_del.
AppendRecord(w) ==
    /\ At(w, "begin", {"set"}) \/ At(w, "found", {"del"})
    /\ aof' = Append(aof, [key |-> Cmd(w).key,
                           value |-> IF Cmd(w).op = "set" THEN Cmd(w).value ELSE NoEntry])
    /\ Proceed(w, "logged")
    /\ UNCHANGED <<vars, table, tmp, entry, answers>>

AppendRecordFails(w) ==
    /\ At(w, "begin", {"set"}) \/ At(w, "found", {"del"})
    /\ AppendMayFail
    /\ Respond(w, "ERR")
    /\ UNCHANGED <<vars, data, entry, answers>>

\* hash_table_set or hash_table_delete.
Apply(w) ==
    /\ At(w, "logged", {"set", "del"})
    /\ IF Cmd(w).op = "set"
       THEN table' = [table EXCEPT ![Cmd(w).key] = Cmd(w).value] /\ Respond(w, "OK")
       ELSE table' = [table EXCEPT ![Cmd(w).key] = NoEntry] /\ Respond(w, "1")
    /\ UNCHANGED <<vars, aof, tmp, entry, answers>>

\* The contents of data.aof.tmp: one record for each key of K, in some order.
Snapshots(K) ==
    {records \in [1..Cardinality(K) -> {[key |-> k, value |-> table[k]] : k \in K}] :
        \A k \in K : \E n \in DOMAIN records : records[n].key = k}

\* Faulty: empty buckets are copied too.
SnapshotOfAll == Snapshots(Keys)

Snapshot == Snapshots({k \in Keys : table[k] # NoEntry})

\* persistence_rewrite copies the table to data.aof.tmp ...
CopyTable(w) ==
    /\ At(w, "begin", {"exit"})
    /\ tmp' \in Snapshot
    /\ Proceed(w, "logged")
    /\ UNCHANGED <<vars, table, aof, entry, answers>>

\* ... and renames it, unless writing fails.
Rename(w) ==
    /\ At(w, "logged", {"exit"})
    /\ \/ aof' = tmp /\ Respond(w, "BYE")
       \/ AppendMayFail /\ Respond(w, "ERR") /\ UNCHANGED aof
    /\ UNCHANGED <<vars, table, tmp, entry, answers>>

Execute(w) ==
    \/ Lookup(w) \/ ReadValue(w)
    \/ AppendRecord(w) \/ AppendRecordFails(w) \/ Apply(w)
    \/ CopyTable(w) \/ Rename(w)

-----------------------------------------------------------------------------
(* The pool around it.                                                     *)

\* command_execute is called under the lock ...
Enter(w) ==
    /\ LockForReading(w) \/ LockForWriting(w)
    /\ Proceed(w, "begin")
    /\ UNCHANGED <<data, entry, answers>>

\* ... and returns 1 if the answer is BYE.
Return(w) ==
    /\ step[w] = "done"
    /\ Executed(w)
    /\ pc'[w] = (IF response[w] = "BYE" THEN "send bye" ELSE "send")
    /\ UNCHANGED <<data, execution, answers>>

SendResponse(w) ==
    /\ Send(w)
    /\ answers' = [answers EXCEPT ![task[w]] = response[w]]
    /\ UNCHANGED <<data, execution>>

\* Everything else leaves the data alone.
PoolStep ==
    /\ \/ \E w \in Workers : \/ Lock(w) \/ Wait(w) \/ Pop(w) \/ SpuriousWakeup(w)
                             \/ Notify(w) \/ Free(w) \/ CreateWorker(w)
       \/ \E t \in Tasks : Submit(t)
       \/ ReadPipe
    /\ UNCHANGED <<data, execution, answers>>

DbNext ==
    \/ PoolStep
    \/ \E w \in Workers : Enter(w) \/ Execute(w) \/ Return(w) \/ SendResponse(w)

DbSpec == DbInit /\ [][DbNext]_dbVars

-----------------------------------------------------------------------------
(* Correctness.                                                            *)

\* The types of the data.
DataOK ==
    /\ table \in [Keys -> Values \cup {NoEntry}]
    /\ aof \in Seq([key : Keys, value : Values \cup {NoEntry}])
    /\ tmp \in Seq([key : Keys, value : Values])
    /\ step \in [Workers -> {"begin", "found", "logged", "done"}]
    /\ entry \in [Workers -> Values \cup {NoEntry}]
    /\ {response[w] : w \in Workers} \cup {answers[t] : t \in Tasks}
          \subseteq Values \cup {NoEntry} \cup Words

\* What the file says of k.
Replayed(k) ==
    LET about == {n \in DOMAIN aof : aof[n].key = k}
    IN  IF about = {} THEN NoEntry
        ELSE aof[CHOOSE n \in about : \A m \in about : m <= n].value

\* Whenever no command that writes is at work, loading data.aof would give
\* exactly the table: appending and storing are one step to other workers, and
\* EXIT does not replace the file by an older one.
LogIsTheTable == writer = Null => \A k \in Keys : table[k] = Replayed(k)

\* An entry that find_entry returned to GET or DEL is neither freed nor given
\* another value while the command uses it.
EntryIsStable ==
    \A w \in Workers : pc[w] = "executing" /\ step[w] = "found" =>
        table[Cmd(w).key] = entry[w]

-----------------------------------------------------------------------------
(* Commands are atomic.                                                    *)

Done(t) == \E w \in Workers : task[w] = t /\ pc[w] \in {"executing", "send", "send bye"}
                              /\ step[w] = "done"

Atomic == INSTANCE AtomicDB WITH
    db <- table,
    phase <- [t \in Tasks |-> IF answers[t] # Silence THEN "answered"
                              ELSE IF Done(t) THEN "done"
                              ELSE IF \E n \in DOMAIN submitted : submitted[n] = t
                              THEN "submitted" ELSE "new"],
    answer <- [t \in Tasks |-> IF answers[t] # Silence \/ ~Done(t) THEN answers[t]
                               ELSE response[CHOOSE w \in Workers : task[w] = t]]

\* The pool, the lock, the table and the file together are a database in which
\* every command is atomic, takes effect once, and is answered accordingly
\* (README.md, Concurrency).
RefinesAtomicDB == Atomic!Spec
=============================================================================

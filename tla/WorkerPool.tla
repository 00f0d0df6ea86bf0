----------------------------- MODULE WorkerPool -----------------------------
(***************************************************************************)
(* The worker pool of worker_pool.c: a linked list of tasks guarded by     *)
(* queue_mutex and queue_cond, workers that execute commands under the     *)
(* read-write lock db_lock, the pipe on which they announce EXIT, start-up *)
(* with a thread that cannot be created, and shutdown.  The server thread  *)
(* ("main") creates the pool, submits tasks, reads the pipe and destroys   *)
(* the pool.                                                               *)
(***************************************************************************)
EXTENDS Integers, Sequences, FiniteSets

CONSTANTS
    Workers,         \* the threads; WORKER_COUNT of them
    Tasks,           \* the tasks ever submitted, each at most once
    Kind,            \* Tasks -> what the command of the task is
    Null,            \* NULL, and "no worker"
    PipeSize,        \* how many descriptors the pipe holds
    CreateMayFail,   \* may pthread_create fail?
    AllocMayFail,    \* may malloc return NULL in worker_pool_submit?
    MayStop          \* may select fail, which ends the server loop?

\* GET and TTL; SET, DEL, PING and unknown commands; EXIT; a blank line,
\* which is executed like a write but has no response.
Kinds == {"read", "write", "exit", "blank"}

ASSUME WorkerPoolAssumption ==
    /\ Workers # {} /\ IsFiniteSet(Workers)
    /\ Kind \in [Tasks -> Kinds]
    /\ Null \notin Tasks \cup Workers
    /\ PipeSize \in Nat \ {0}
    /\ {CreateMayFail, AllocMayFail, MayStop} \subseteq BOOLEAN

VARIABLES
    main,          \* where the server thread is
    pc,            \* where each worker is
    holder,        \* the worker that holds queue_mutex
    head, tail,    \* the linked list of waiting tasks ...
    next,          \* ... and the next pointers
    shutting_down,
    task,          \* the task each worker has popped
    readers,       \* the workers that hold db_lock for reading
    writer,        \* the worker that holds it for writing
    pipe,          \* the tasks whose client_fd is in the notification pipe
    submitted,     \* history: the tasks accepted, in order
    popped,        \* history: how many of them were taken off the list
    refused,       \* history: the tasks worker_pool_submit returned 0 for
    finished       \* history: the tasks that were executed, answered and freed

vars == <<main, pc, holder, head, tail, next, shutting_down, task, readers,
          writer, pipe, submitted, popped, refused, finished>>

queue == <<head, tail, next>>
lock == <<readers, writer>>
history == <<submitted, popped, refused, finished>>

Init ==
    /\ main = "create"
    /\ pc = [w \in Workers |-> "none"]
    /\ holder = Null
    /\ head = Null
    /\ tail = Null
    /\ next = [t \in Tasks |-> Null]
    /\ shutting_down = FALSE
    /\ task = [w \in Workers |-> Null]
    /\ readers = {}
    /\ writer = Null
    /\ pipe = <<>>
    /\ submitted = <<>>
    /\ popped = 0
    /\ refused = {}
    /\ finished = {}

Goto(w, from, to) == pc[w] = from /\ pc' = [pc EXCEPT ![w] = to]

-----------------------------------------------------------------------------
(* worker_main: taking a task.                                             *)

Lock(w) ==
    /\ Goto(w, "lock", "locked")
    /\ holder = Null
    /\ holder' = w
    /\ UNCHANGED <<main, queue, shutting_down, task, lock, pipe, history>>

\* pthread_cond_wait releases the mutex and sleeps in one step.
Wait(w) ==
    /\ head = Null /\ ~shutting_down
    /\ Goto(w, "locked", "waiting")
    /\ holder' = Null
    /\ UNCHANGED <<main, queue, shutting_down, task, lock, pipe, history>>

\* pthread_cond_wait may return although nobody signalled.
SpuriousWakeup(w) ==
    /\ Goto(w, "waiting", "lock")
    /\ UNCHANGED <<main, holder, queue, shutting_down, task, lock, pipe, history>>

\* Faulty: the flag alone makes a worker quit.
QuitAtOnce(w) ==
    /\ shutting_down
    /\ Goto(w, "locked", "gone")
    /\ holder' = Null
    /\ UNCHANGED <<main, queue, shutting_down, task, lock, pipe, history>>

Quit(w) ==
    /\ head = Null /\ shutting_down
    /\ Goto(w, "locked", "gone")
    /\ holder' = Null
    /\ UNCHANGED <<main, queue, shutting_down, task, lock, pipe, history>>

\* Faulty: tail is left behind when the list becomes empty.
PopKeepsTail(w) ==
    /\ head # Null
    /\ Goto(w, "locked", "picked")
    /\ task' = [task EXCEPT ![w] = head]
    /\ head' = next[head]
    /\ next' = [next EXCEPT ![head] = Null]
    /\ popped' = popped + 1
    /\ holder' = Null
    /\ UNCHANGED <<main, tail, shutting_down, lock, pipe, submitted, refused, finished>>

\* Faulty: the task stays in the list.
PopKeepsHead(w) ==
    /\ head # Null
    /\ Goto(w, "locked", "picked")
    /\ task' = [task EXCEPT ![w] = head]
    /\ popped' = popped + 1
    /\ holder' = Null
    /\ UNCHANGED <<main, queue, shutting_down, lock, pipe, submitted, refused, finished>>

\* task_pop.
Pop(w) ==
    /\ head # Null
    /\ Goto(w, "locked", "picked")
    /\ task' = [task EXCEPT ![w] = head]
    /\ head' = next[head]
    /\ tail' = IF head' = Null THEN Null ELSE tail
    /\ next' = [next EXCEPT ![head] = Null]
    /\ popped' = popped + 1
    /\ holder' = Null
    /\ UNCHANGED <<main, shutting_down, lock, pipe, submitted, refused, finished>>

-----------------------------------------------------------------------------
(* worker_main: executing it.                                              *)

\* Faulty: everything that does not change the table counts as a read.
is_no_write_command(t) == Kind[t] # "write"

is_read_command(t) == Kind[t] = "read"

\* Faulty: readers do not wait for the writer.
LockForReadingAnyway(w) ==
    /\ Goto(w, "picked", "executing")
    /\ is_read_command(task[w])
    /\ readers' = readers \cup {w}
    /\ UNCHANGED <<main, holder, queue, shutting_down, task, writer, pipe, history>>

\* glibc's default lock lets readers in while writers wait.
LockForReading(w) ==
    /\ Goto(w, "picked", "executing")
    /\ is_read_command(task[w])
    /\ writer = Null
    /\ readers' = readers \cup {w}
    /\ UNCHANGED <<main, holder, queue, shutting_down, task, writer, pipe, history>>

\* Faulty: writers share the lock.
LockForWritingShared(w) ==
    /\ Goto(w, "picked", "executing")
    /\ ~is_read_command(task[w])
    /\ readers' = readers \cup {w}
    /\ UNCHANGED <<main, holder, queue, shutting_down, task, writer, pipe, history>>

LockForWriting(w) ==
    /\ Goto(w, "picked", "executing")
    /\ ~is_read_command(task[w])
    /\ writer = Null /\ readers = {}
    /\ writer' = w
    /\ UNCHANGED <<main, holder, queue, shutting_down, task, readers, pipe, history>>

\* Faulty: without a response the worker goes on with the next task.
ExecutedLeaksBlank(w) ==
    /\ pc[w] = "executing"
    /\ \/ Goto(w, "executing", IF Kind[task[w]] = "blank" THEN "lock" ELSE "send")
       \/ Kind[task[w]] = "exit" /\ Goto(w, "executing", "send bye")
    /\ readers' = readers \ {w}
    /\ writer' = IF writer = w THEN Null ELSE writer
    /\ UNCHANGED <<main, holder, queue, shutting_down, task, pipe, history>>

\* command_execute returns and the lock is released.  Only EXIT returns 1,
\* unless the file could not be rewritten; only a blank line has no response.
Executed(w) ==
    /\ pc[w] = "executing"
    /\ \/ Goto(w, "executing", IF Kind[task[w]] = "blank" THEN "free" ELSE "send")
       \/ Kind[task[w]] = "exit" /\ Goto(w, "executing", "send bye")
    /\ readers' = readers \ {w}
    /\ writer' = IF writer = w THEN Null ELSE writer
    /\ UNCHANGED <<main, holder, queue, shutting_down, task, pipe, history>>

Send(w) ==
    /\ \/ Goto(w, "send", "free")
       \/ Goto(w, "send bye", "notify")
    /\ UNCHANGED <<main, holder, queue, shutting_down, task, lock, pipe, history>>

\* Faulty: the worker's own number is written.
NotifyWorkerId(w) ==
    /\ Goto(w, "notify", "free")
    /\ Len(pipe) < PipeSize
    /\ pipe' = Append(pipe, w)
    /\ UNCHANGED <<main, holder, queue, shutting_down, task, lock, history>>

\* write() blocks while the pipe is full.
Notify(w) ==
    /\ Goto(w, "notify", "free")
    /\ Len(pipe) < PipeSize
    /\ pipe' = Append(pipe, task[w])
    /\ UNCHANGED <<main, holder, queue, shutting_down, task, lock, history>>

Free(w) ==
    /\ Goto(w, "free", "lock")
    /\ finished' = finished \cup {task[w]}
    /\ task' = [task EXCEPT ![w] = Null]
    /\ UNCHANGED <<main, holder, queue, shutting_down, lock, pipe, submitted, popped, refused>>

-----------------------------------------------------------------------------
(* The server thread.  What it does under queue_mutex is one step: there   *)
(* is nothing in it that waits.                                            *)

\* pthread_create in worker_pool_init.
CreateWorker(w) ==
    /\ main = "create"
    /\ Goto(w, "none", "lock")
    /\ main' = IF \A x \in Workers : pc'[x] # "none" THEN "serve" ELSE "create"
    /\ UNCHANGED <<holder, queue, shutting_down, task, lock, pipe, history>>

CreateFails ==
    /\ main = "create"
    /\ CreateMayFail
    /\ main' = "give up"
    /\ UNCHANGED <<pc, holder, queue, shutting_down, task, lock, pipe, history>>

\* malloc fails, or the pool is shutting down.
Refuse(t) ==
    /\ main = "serve"
    /\ \A p \in DOMAIN submitted : submitted[p] # t
    /\ t \notin refused
    /\ AllocMayFail \/ (shutting_down /\ holder = Null)
    /\ refused' = refused \cup {t}
    /\ UNCHANGED <<main, pc, holder, queue, shutting_down, task, lock, pipe,
                   submitted, popped, finished>>

\* Faulty: pthread_cond_signal is missing.
NoSignal == UNCHANGED pc

\* pthread_cond_signal wakes one of the sleeping workers, if there is one.
Signal ==
    \/ \E w \in Workers : Goto(w, "waiting", "lock")
    \/ (\A w \in Workers : pc[w] # "waiting") /\ UNCHANGED pc

\* Faulty: pthread_cond_signal instead of pthread_cond_broadcast.
BroadcastToOne == Signal

Broadcast == pc' = [w \in Workers |-> IF pc[w] = "waiting" THEN "lock" ELSE pc[w]]

\* worker_pool_submit links the task in and wakes one sleeping worker, if any.
Submit(t) ==
    /\ main = "serve"
    /\ \A p \in DOMAIN submitted : submitted[p] # t
    /\ t \notin refused
    /\ holder = Null /\ ~shutting_down
    /\ tail' = t
    /\ IF tail = Null
       THEN head' = t /\ next' = [next EXCEPT ![t] = Null]
       ELSE head' = head /\ next' = [next EXCEPT ![t] = Null, ![tail] = t]
    /\ Signal
    /\ submitted' = Append(submitted, t)
    /\ UNCHANGED <<main, holder, shutting_down, task, lock, pipe, popped, refused, finished>>

\* The select loop reads one descriptor and closes the client.
ReadPipe ==
    /\ main = "serve"
    /\ pipe # <<>>
    /\ pipe' = Tail(pipe)
    /\ UNCHANGED <<main, pc, holder, queue, shutting_down, task, lock, history>>

\* select fails: server_start leaves its loop.
Stop ==
    /\ main = "serve"
    /\ MayStop
    /\ main' = "destroy"
    /\ UNCHANGED <<pc, holder, queue, shutting_down, task, lock, pipe, history>>

\* worker_pool_destroy and the failure path of worker_pool_init: raise the
\* flag and wake everybody.
Shutdown ==
    /\ main \in {"destroy", "give up"}
    /\ holder = Null
    /\ shutting_down' = TRUE
    /\ Broadcast
    /\ main' = IF main = "destroy" THEN "join" ELSE "join created"
    /\ UNCHANGED <<holder, queue, task, lock, pipe, history>>

\* Faulty: only one thread is waited for.
JoinedOne ==
    /\ main \in {"join", "join created"}
    /\ \E w \in Workers : pc[w] \in {"none", "gone"}
    /\ main' = IF main = "join" THEN "free" ELSE "failed"
    /\ UNCHANGED <<pc, holder, queue, shutting_down, task, lock, pipe, history>>

\* pthread_join returned for every thread that was created.
Joined ==
    /\ main \in {"join", "join created"}
    /\ \A w \in Workers : pc[w] \in {"none", "gone"}
    /\ main' = IF main = "join" THEN "free" ELSE "failed"
    /\ UNCHANGED <<pc, holder, queue, shutting_down, task, lock, pipe, history>>

\* worker_pool_destroy frees the tasks that are still queued, then destroys
\* the mutex, the condition variable and the lock.
FreeRemaining ==
    /\ main = "free"
    /\ holder = Null
    /\ main' = "closed"
    /\ head' = Null /\ tail' = Null
    /\ UNCHANGED <<pc, holder, next, shutting_down, task, lock, pipe, history>>

\* Nothing is left to do.
Terminated == main \in {"closed", "failed"} /\ UNCHANGED vars

WorkerStep(w) ==
    \/ Lock(w) \/ Wait(w) \/ Quit(w) \/ Pop(w)
    \/ LockForReading(w) \/ LockForWriting(w) \/ Executed(w)
    \/ Send(w) \/ Notify(w) \/ Free(w)

Next ==
    \/ \E w \in Workers : WorkerStep(w) \/ SpuriousWakeup(w) \/ CreateWorker(w)
    \/ \E t \in Tasks : Submit(t) \/ Refuse(t)
    \/ CreateFails \/ ReadPipe \/ Stop \/ Shutdown \/ Joined \/ FreeRemaining
    \/ Terminated

Spec == Init /\ [][Next]_vars

\* A thread that can run does run, clients read their responses, and the
\* server thread goes on serving and shutting down; it gets queue_mutex if the
\* mutex is free again and again, although workers that wake up by themselves
\* may take it in between.  Whether commands arrive, select fails or a wait
\* returns by itself is left to chance.
Fairness ==
    /\ \A w \in Workers : WF_vars(WorkerStep(w)) /\ WF_vars(CreateWorker(w))
    /\ WF_vars(ReadPipe) /\ SF_vars(Shutdown) /\ WF_vars(Joined) /\ WF_vars(FreeRemaining)

FairSpec == Spec /\ Fairness

-----------------------------------------------------------------------------
(* Correctness.                                                            *)

WorkerStates == {"none", "lock", "locked", "waiting", "gone", "picked",
                 "executing", "send", "send bye", "notify", "free"}
MainStates == {"create", "give up", "serve", "destroy", "join", "join created",
               "free", "closed", "failed"}

TypeOK ==
    /\ main \in MainStates
    /\ pc \in [Workers -> WorkerStates]
    /\ holder \in Workers \cup {Null}
    /\ {head, tail} \subseteq Tasks \cup {Null}
    /\ next \in [Tasks -> Tasks \cup {Null}]
    /\ shutting_down \in BOOLEAN
    /\ task \in [Workers -> Tasks \cup {Null}]
    /\ readers \subseteq Workers
    /\ writer \in Workers \cup {Null}
    /\ pipe \in Seq(Tasks)
    /\ submitted \in Seq(Tasks)
    /\ popped \in Nat
    /\ refused \subseteq Tasks
    /\ finished \subseteq Tasks

\* README.md, Concurrency: write commands serialize access.  No worker
\* executes a command that writes while another one executes any command.
NoDataRace ==
    \A v, w \in Workers :
        v # w /\ pc[v] = "executing" /\ pc[w] = "executing" => Kind[task[v]] = "read"

\* The linked list holds exactly the tasks that were accepted and not popped,
\* in the order of their submission, and head and tail delimit it.  So tasks
\* start in the order in which they arrived, and the list never leads to a
\* task that a worker owns or has freed.
ListIsTheQueue ==
    LET n == Len(submitted)
    IN  /\ popped <= n
        /\ head = IF popped = n THEN Null ELSE submitted[popped + 1]
        /\ tail = IF popped = n THEN Null ELSE submitted[n]
        /\ \A p \in (popped + 1)..n :
              next[submitted[p]] = IF p = n THEN Null ELSE submitted[p + 1]

\* Every accepted task that left the list is either finished or with exactly
\* one worker: none is lost and none is executed twice.
EveryTaskOnce ==
    \A p \in 1..popped : LET t == submitted[p]
                             owners == {w \in Workers : task[w] = t}
                         IN  IF t \in finished THEN owners = {} ELSE Cardinality(owners) = 1

\* When the pool is closed, or its creation has failed, no thread is left
\* that could use the mutex, the lock or the table, and none of them is held.
QuietWhenClosed ==
    main \in {"free", "closed", "failed"} =>
        /\ \A w \in Workers : pc[w] \in {"none", "gone"} /\ task[w] = Null
        /\ holder = Null /\ readers = {} /\ writer = Null

\* worker_pool_destroy throws no accepted command away: the workers finish
\* the whole queue before they quit.
NothingDropped ==
    main \in {"free", "closed"} => \A p \in DOMAIN submitted : submitted[p] \in finished

\* A worker sleeps only while there is nothing to do: when tasks wait and
\* nobody is about to look for one, no worker sleeps.
NoLostWakeup ==
    (\E w \in Workers : pc[w] = "waiting") =>
        \/ head = Null
        \/ \E w \in Workers : pc[w] \notin {"none", "waiting", "gone"}

\* Every accepted command is eventually executed and answered, also when the
\* server stops meanwhile.
EveryTaskFinishes ==
    \A t \in Tasks : (\E p \in DOMAIN submitted : submitted[p] = t) ~> t \in finished

\* README.md, Graceful shutdown: worker_pool_destroy joins the four threads,
\* then frees and destroys everything.  A failed start-up ends too: the workers
\* already created are joined.
ShutdownCompletes ==
    /\ main = "destroy" ~> main = "closed"
    /\ main = "give up" ~> main = "failed"
=============================================================================

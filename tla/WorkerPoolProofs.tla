-------------------------- MODULE WorkerPoolProofs --------------------------
(***************************************************************************)
(* Proofs about WorkerPool, for any number of workers and tasks, any size  *)
(* of the pipe and every choice of failures.  The inductive invariant is   *)
(* built in layers, each of which rests on the ones before it:             *)
(*   Typed   types, and which workers own a task;                          *)
(*   Locks   who holds queue_mutex and db_lock;                            *)
(*   Queue   the linked list is the queue of the accepted tasks;           *)
(*   Phases  what start-up and shutdown imply for the threads;             *)
(*   Owners  where each accepted task is;                                  *)
(*   NoLostWakeup                                                          *)
(***************************************************************************)
EXTENDS WorkerPool, FiniteSetTheorems, TLAPS

-----------------------------------------------------------------------------
(* Types.                                                                  *)

\* Where worker_main has a task that it has not freed.
Busy == {"picked", "executing", "send", "send bye", "notify", "free"}

OwnsWhenBusy == \A w \in Workers : task[w] # Null <=> pc[w] \in Busy

Typed == TypeOK /\ OwnsWhenBusy

LEMMA InitTyped == Init => Typed
  <1>. SUFFICES ASSUME Init PROVE Typed
    OBVIOUS
  <1>1. pipe \in Seq(Tasks) /\ submitted \in Seq(Tasks)
    BY DEF Init
  <1>2. TypeOK
    BY <1>1, WorkerPoolAssumption DEF Init, TypeOK, WorkerStates, MainStates
  <1>3. OwnsWhenBusy
    BY DEF Init, OwnsWhenBusy, Busy
  <1>. QED
    BY <1>2, <1>3 DEF Typed

\* A step of one thread keeps the types of the control state.
LEMMA GotoType ==
    ASSUME NEW w \in Workers, NEW from, NEW to \in WorkerStates,
           pc \in [Workers -> WorkerStates], Goto(w, from, to)
    PROVE  /\ pc' \in [Workers -> WorkerStates]
           /\ pc'[w] = to
           /\ \A v \in Workers \ {w} : pc'[v] = pc[v]
  BY DEF Goto

\* Signalling only moves threads from "waiting" to "lock".
LEMMA SignalMoves ==
    ASSUME pc \in [Workers -> WorkerStates], Signal
    PROVE  /\ pc' \in [Workers -> WorkerStates]
           /\ \A v \in Workers : pc'[v] = pc[v] \/ (pc[v] = "waiting" /\ pc'[v] = "lock")
  BY DEF Signal, Goto, WorkerStates

\* No other thread is moved.
LEMMA MovesAlone ==
    ASSUME NEW w \in Workers, NEW to, pc \in [Workers -> WorkerStates],
           pc' = [pc EXCEPT ![w] = to]
    PROVE  pc'[w] = to /\ \A v \in Workers \ {w} : pc'[v] = pc[v]
  OBVIOUS

LEMMA ExecutedMoves ==
    ASSUME NEW w \in Workers, Executed(w)
    PROVE  /\ pc[w] = "executing"
           /\ \E to \in {"send", "send bye", "free"} : pc' = [pc EXCEPT ![w] = to]
  BY DEF Executed, Goto

LEMMA SendMoves ==
    ASSUME NEW w \in Workers, Send(w)
    PROVE  /\ pc[w] \in {"send", "send bye"}
           /\ \E to \in {"notify", "free"} : pc' = [pc EXCEPT ![w] = to]
  BY DEF Send, Goto

LEMMA NextTyped == Typed /\ [Next]_vars => Typed'
  <1>. SUFFICES ASSUME Typed, [Next]_vars PROVE Typed'
    OBVIOUS
  <1>. USE WorkerPoolAssumption DEF Typed, TypeOK, OwnsWhenBusy
  <1>1. ASSUME NEW w \in Workers, Lock(w) PROVE Typed'
    BY <1>1 DEF Lock, Goto, queue, lock, history, WorkerStates, Busy
  <1>2. ASSUME NEW w \in Workers, Wait(w) PROVE Typed'
    BY <1>2 DEF Wait, Goto, queue, lock, history, WorkerStates, Busy
  <1>3. ASSUME NEW w \in Workers, SpuriousWakeup(w) PROVE Typed'
    BY <1>3 DEF SpuriousWakeup, Goto, queue, lock, history, WorkerStates, Busy
  <1>4. ASSUME NEW w \in Workers, Quit(w) PROVE Typed'
    BY <1>4 DEF Quit, Goto, queue, lock, history, WorkerStates, Busy
  <1>5. ASSUME NEW w \in Workers, Pop(w) PROVE Typed'
    <2>1. head \in Tasks
      BY <1>5 DEF Pop
    <2>2. next' \in [Tasks -> Tasks \cup {Null}] /\ head' \in Tasks \cup {Null}
      BY <1>5, <2>1 DEF Pop
    <2>3. /\ task' \in [Workers -> Tasks \cup {Null}]
          /\ OwnsWhenBusy'
      BY <1>5, <2>1 DEF Pop, Goto, Busy
    <2>4. tail' \in Tasks \cup {Null} /\ popped' \in Nat
      BY <1>5 DEF Pop
    <2>5. pc' \in [Workers -> WorkerStates] /\ holder' = Null
      BY <1>5 DEF Pop, Goto, WorkerStates
    <2>6. UNCHANGED <<main, shutting_down, readers, writer, pipe, submitted, refused, finished>>
      BY <1>5 DEF Pop, lock
    <2>. QED
      BY <2>2, <2>3, <2>4, <2>5, <2>6
  <1>6. ASSUME NEW w \in Workers, LockForReading(w) PROVE Typed'
    <2>1. /\ Goto(w, "picked", "executing") /\ readers' \subseteq Workers
          /\ UNCHANGED <<main, holder, queue, shutting_down, task, writer, pipe, history>>
      BY <1>6 DEF LockForReading
    <2>2. pc' \in [Workers -> WorkerStates]
      BY <2>1, GotoType DEF WorkerStates
    <2>3. OwnsWhenBusy'
      BY <2>1 DEF Goto, Busy
    <2>. QED
      BY <2>1, <2>2, <2>3 DEF queue, history
  <1>7. ASSUME NEW w \in Workers, LockForWriting(w) PROVE Typed'
    <2>1. /\ Goto(w, "picked", "executing") /\ writer' \in Workers \cup {Null}
          /\ UNCHANGED <<main, holder, queue, shutting_down, task, readers, pipe, history>>
      BY <1>7 DEF LockForWriting
    <2>2. pc' \in [Workers -> WorkerStates]
      BY <2>1, GotoType DEF WorkerStates
    <2>3. OwnsWhenBusy'
      BY <2>1 DEF Goto, Busy
    <2>. QED
      BY <2>1, <2>2, <2>3 DEF queue, history
  <1>8. ASSUME NEW w \in Workers, Executed(w) PROVE Typed'
    <2>1. PICK to \in {"send", "send bye", "free"} : pc' = [pc EXCEPT ![w] = to]
      BY <1>8, ExecutedMoves
    <2>2. pc[w] = "executing"
      BY <1>8, ExecutedMoves
    <2>3. /\ readers' \subseteq Workers /\ writer' \in Workers \cup {Null}
          /\ UNCHANGED <<main, holder, queue, shutting_down, task, pipe, history>>
      BY <1>8 DEF Executed
    <2>4. pc' \in [Workers -> WorkerStates]
      BY <2>1 DEF WorkerStates
    <2>5. OwnsWhenBusy'
      <3>1. pc'[w] = to /\ \A v \in Workers \ {w} : pc'[v] = pc[v]
        BY <2>1, MovesAlone
      <3>2. pc'[w] \in Busy /\ pc[w] \in Busy
        BY <2>2, <3>1 DEF Busy
      <3>. QED
        BY <2>3, <3>1, <3>2
    <2>. QED
      BY <2>3, <2>4, <2>5 DEF queue, history
  <1>9. ASSUME NEW w \in Workers, Send(w) PROVE Typed'
    <2>1. PICK to \in {"notify", "free"} : pc' = [pc EXCEPT ![w] = to]
      BY <1>9, SendMoves
    <2>2. pc[w] \in {"send", "send bye"}
      BY <1>9, SendMoves
    <2>3. UNCHANGED <<main, holder, queue, shutting_down, task, lock, pipe, history>>
      BY <1>9 DEF Send
    <2>4. pc' \in [Workers -> WorkerStates]
      BY <2>1 DEF WorkerStates
    <2>5. OwnsWhenBusy'
      <3>1. pc'[w] = to /\ \A v \in Workers \ {w} : pc'[v] = pc[v]
        BY <2>1, MovesAlone
      <3>2. pc'[w] \in Busy /\ pc[w] \in Busy
        BY <2>2, <3>1 DEF Busy
      <3>. QED
        BY <2>3, <3>1, <3>2
    <2>. QED
      BY <2>3, <2>4, <2>5 DEF queue, lock, history
  <1>10. ASSUME NEW w \in Workers, Notify(w) PROVE Typed'
    <2>1. task[w] \in Tasks
      BY <1>10 DEF Notify, Goto, Busy
    <2>2. pipe' \in Seq(Tasks)
      BY <1>10, <2>1 DEF Notify
    <2>. QED
      BY <1>10, <2>2 DEF Notify, Goto, queue, lock, history, WorkerStates, Busy
  <1>11. ASSUME NEW w \in Workers, Free(w) PROVE Typed'
    <2>1. task[w] \in Tasks
      BY <1>11 DEF Free, Goto, Busy
    <2>. QED
      BY <1>11, <2>1 DEF Free, Goto, queue, lock, history, WorkerStates, Busy
  <1>12. ASSUME NEW w \in Workers, CreateWorker(w) PROVE Typed'
    <2>1. main' \in MainStates
      BY <1>12 DEF CreateWorker, MainStates
    <2>. QED
      BY <1>12, <2>1 DEF CreateWorker, Goto, queue, lock, history, WorkerStates, Busy
  <1>13. ASSUME NEW t \in Tasks, Submit(t) PROVE Typed'
    <2>1. /\ pc' \in [Workers -> WorkerStates]
          /\ \A v \in Workers : pc'[v] \in Busy <=> pc[v] \in Busy
      BY <1>13, SignalMoves DEF Submit, Busy
    <2>2. next' \in [Tasks -> Tasks \cup {Null}]
      BY <1>13 DEF Submit
    <2>3. submitted' \in Seq(Tasks)
      BY <1>13 DEF Submit
    <2>4. OwnsWhenBusy'
      BY <1>13, <2>1 DEF Submit
    <2>. QED
      BY <1>13, <2>1, <2>2, <2>3, <2>4 DEF Submit, lock
  <1>14. ASSUME NEW t \in Tasks, Refuse(t) PROVE Typed'
    BY <1>14 DEF Refuse, queue, lock, history
  <1>15. CASE CreateFails
    BY <1>15 DEF CreateFails, queue, lock, history, MainStates
  <1>16. CASE ReadPipe
    <2>1. pipe' \in Seq(Tasks)
      BY <1>16 DEF ReadPipe
    <2>. QED
      BY <1>16, <2>1 DEF ReadPipe, queue, lock, history
  <1>17. CASE Stop
    BY <1>17 DEF Stop, queue, lock, history, MainStates
  <1>18. CASE Shutdown
    BY <1>18 DEF Shutdown, Broadcast, queue, lock, history, WorkerStates, MainStates, Busy
  <1>19. CASE Joined
    BY <1>19 DEF Joined, queue, lock, history, MainStates
  <1>20. CASE FreeRemaining
    BY <1>20 DEF FreeRemaining, lock, history, MainStates
  <1>21. CASE UNCHANGED vars
    BY <1>21 DEF vars
  <1>. QED
    BY <1>1, <1>2, <1>3, <1>4, <1>5, <1>6, <1>7, <1>8, <1>9, <1>10, <1>11, <1>12,
       <1>13, <1>14, <1>15, <1>16, <1>17, <1>18, <1>19, <1>20, <1>21
       DEF Next, WorkerStep, Terminated

\* The variables keep their types: in particular no descriptor but that of a
\* task ever enters the pipe, and head, tail and next never lead astray.
THEOREM TypeCorrect == Spec => []TypeOK
  <1>1. Typed => TypeOK
    BY DEF Typed
  <1>. QED
    BY <1>1, InitTyped, NextTyped, PTL DEF Spec

-----------------------------------------------------------------------------
(* queue_mutex and db_lock.                                                *)

MutexHeldWhenLocked == \A w \in Workers : holder = w <=> pc[w] = "locked"

LockHeldWhileExecuting ==
    /\ \A w \in Workers : w \in readers <=> pc[w] = "executing" /\ is_read_command(task[w])
    /\ \A w \in Workers : writer = w <=> pc[w] = "executing" /\ ~is_read_command(task[w])
    /\ writer # Null => readers = {}

Locks == MutexHeldWhenLocked /\ LockHeldWhileExecuting

LEMMA InitLocks == Init => Locks
  BY WorkerPoolAssumption DEF Init, Locks, MutexHeldWhenLocked, LockHeldWhileExecuting

LEMMA NextLocks == Typed /\ Locks /\ [Next]_vars => Locks'
  <1>. SUFFICES ASSUME Typed, Locks, [Next]_vars PROVE Locks'
    OBVIOUS
  <1>. USE WorkerPoolAssumption DEF Typed, TypeOK, Locks, MutexHeldWhenLocked, LockHeldWhileExecuting
  <1>1. ASSUME NEW w \in Workers, Lock(w) PROVE Locks'
    BY <1>1 DEF Lock, Goto, lock
  <1>2. ASSUME NEW w \in Workers, Wait(w) PROVE Locks'
    BY <1>2 DEF Wait, Goto, lock
  <1>3. ASSUME NEW w \in Workers, SpuriousWakeup(w) PROVE Locks'
    BY <1>3 DEF SpuriousWakeup, Goto, lock
  <1>4. ASSUME NEW w \in Workers, Quit(w) PROVE Locks'
    BY <1>4 DEF Quit, Goto, lock
  <1>5. ASSUME NEW w \in Workers, Pop(w) PROVE Locks'
    BY <1>5 DEF Pop, Goto, lock
  <1>6. ASSUME NEW w \in Workers, LockForReading(w) PROVE Locks'
    BY <1>6 DEF LockForReading, Goto
  <1>7. ASSUME NEW w \in Workers, LockForWriting(w) PROVE Locks'
    BY <1>7 DEF LockForWriting, Goto
  <1>8. ASSUME NEW w \in Workers, Executed(w) PROVE Locks'
    <2>1. PICK to \in {"send", "send bye", "free"} : pc' = [pc EXCEPT ![w] = to]
      BY <1>8, ExecutedMoves
    <2>2. /\ pc[w] = "executing" /\ pc'[w] \notin {"locked", "executing"}
          /\ \A v \in Workers \ {w} : pc'[v] = pc[v]
      <3>1. pc[w] = "executing"
        BY <1>8, ExecutedMoves
      <3>. QED
        BY <2>1, <3>1, MovesAlone
    <2>3. /\ readers' = readers \ {w} /\ writer' = IF writer = w THEN Null ELSE writer
          /\ UNCHANGED <<holder, task>>
      BY <1>8 DEF Executed
    <2>4. MutexHeldWhenLocked'
      BY <2>2, <2>3
    <2>5. LockHeldWhileExecuting'
      <3>1. \A v \in Workers : v \in readers' <=> pc'[v] = "executing" /\ is_read_command(task'[v])
        BY <2>2, <2>3
      <3>2. \A v \in Workers : writer' = v <=> pc'[v] = "executing" /\ ~is_read_command(task'[v])
        BY <2>2, <2>3
      <3>. QED
        BY <2>3, <3>1, <3>2
    <2>. QED
      BY <2>4, <2>5
  <1>9. ASSUME NEW w \in Workers, Send(w) PROVE Locks'
    <2>1. PICK to \in {"notify", "free"} : pc' = [pc EXCEPT ![w] = to]
      BY <1>9, SendMoves
    <2>2. /\ pc[w] \notin {"locked", "executing"} /\ pc'[w] \notin {"locked", "executing"}
          /\ \A v \in Workers \ {w} : pc'[v] = pc[v]
      <3>1. pc[w] \in {"send", "send bye"}
        BY <1>9, SendMoves
      <3>. QED
        BY <2>1, <3>1, MovesAlone
    <2>3. UNCHANGED <<holder, task, readers, writer>>
      BY <1>9 DEF Send, lock
    <2>. QED
      BY <2>2, <2>3
  <1>10. ASSUME NEW w \in Workers, Notify(w) PROVE Locks'
    BY <1>10 DEF Notify, Goto, lock
  <1>11. ASSUME NEW w \in Workers, Free(w) PROVE Locks'
    BY <1>11 DEF Free, Goto, lock
  <1>12. ASSUME NEW w \in Workers, CreateWorker(w) PROVE Locks'
    BY <1>12 DEF CreateWorker, Goto, lock
  <1>13. ASSUME NEW t \in Tasks, Submit(t) PROVE Locks'
    BY <1>13, SignalMoves DEF Submit, lock
  <1>14. CASE Shutdown
    BY <1>14 DEF Shutdown, Broadcast, lock
  <1>15. CASE \/ \E t \in Tasks : Refuse(t)
              \/ CreateFails \/ ReadPipe \/ Stop \/ Joined \/ FreeRemaining \/ UNCHANGED vars
    BY <1>15 DEF Refuse, CreateFails, ReadPipe, Stop, Joined, FreeRemaining, vars, lock
  <1>. QED
    BY <1>1, <1>2, <1>3, <1>4, <1>5, <1>6, <1>7, <1>8, <1>9, <1>10, <1>11, <1>12,
       <1>13, <1>14, <1>15 DEF Next, WorkerStep, Terminated

\* While one worker executes a command that writes, no other executes any
\* command: the read-write lock of worker_main protects the table.
THEOREM CommandsDoNotRace == Spec => []NoDataRace
  <1>1. Typed /\ Locks => NoDataRace
    BY WorkerPoolAssumption
       DEF Typed, TypeOK, Locks, LockHeldWhileExecuting, NoDataRace, is_read_command
  <1>. QED
    BY <1>1, InitTyped, NextTyped, InitLocks, NextLocks, PTL DEF Spec

-----------------------------------------------------------------------------
(* The linked list.                                                        *)

SubmittedOnce ==
    \A p, q \in 1..Len(submitted) : submitted[p] = submitted[q] => p = q

Queue == ListIsTheQueue /\ SubmittedOnce

AllDone == popped = Len(submitted)

\* What start-up and shutdown imply for the threads.
Phases ==
    /\ shutting_down <=> main \in {"join", "join created", "free", "closed", "failed"}
    /\ main \in {"serve", "destroy", "join", "free", "closed"} =>
          \A w \in Workers : pc[w] # "none"
    /\ main \in {"create", "give up", "join created", "failed"} => submitted = <<>>
    /\ main \in {"free", "closed", "failed"} =>
          \A w \in Workers : pc[w] \in {"none", "gone"}
    /\ \A w \in Workers : pc[w] = "gone" => shutting_down /\ AllDone
    /\ \A w \in Workers : pc[w] = "waiting" => ~shutting_down

LEMMA HeadTellsAll ==
    ASSUME Typed, Queue
    PROVE  head = Null <=> AllDone
  <1>1. popped # Len(submitted) => submitted[popped + 1] \in Tasks
    BY DEF Typed, TypeOK, Queue, ListIsTheQueue
  <1>. QED
    BY <1>1, WorkerPoolAssumption DEF Queue, ListIsTheQueue, AllDone

LEMMA ClosedWhenDone ==
    ASSUME Typed, Phases, main \in {"free", "closed"}
    PROVE  AllDone
  <1>1. PICK w \in Workers : TRUE
    BY WorkerPoolAssumption
  <1>2. pc[w] = "gone"
    BY DEF Phases
  <1>. QED
    BY <1>2 DEF Phases

LEMMA InitQueue == Init => Queue
  BY DEF Init, Queue, ListIsTheQueue, SubmittedOnce

LEMMA NextQueue == Typed /\ Queue /\ Phases /\ [Next]_vars => Queue'
  <1>. SUFFICES ASSUME Typed, Queue, Phases, [Next]_vars PROVE Queue'
    OBVIOUS
  <1>. DEFINE n == Len(submitted)
  <1>0. /\ n \in Nat /\ popped \in Nat
        /\ \A p \in 1..n : submitted[p] \in Tasks /\ submitted[p] # Null
        /\ popped <= n
    BY WorkerPoolAssumption DEF Typed, TypeOK, Queue, ListIsTheQueue
  <1>1. ASSUME NEW w \in Workers, Pop(w) PROVE Queue'
    <2>1. popped < n
      BY <1>0, <1>1, HeadTellsAll DEF Pop, AllDone
    <2>2. /\ popped' = popped + 1 /\ submitted' = submitted
           /\ head' = next[head] /\ next' = [next EXCEPT ![head] = Null]
           /\ tail' = IF head' = Null THEN Null ELSE tail
      BY <1>1 DEF Pop
    <2>3. head = submitted[popped + 1] /\ tail = submitted[n] /\ popped + 1 \in 1..n
      BY <1>0, <2>1 DEF Queue, ListIsTheQueue
    <2>4. head' = IF popped' = n THEN Null ELSE submitted[popped' + 1]
      BY <1>0, <1>1, <2>1, <2>3 DEF Pop, Queue, ListIsTheQueue
    <2>5. tail' = IF popped' = n THEN Null ELSE submitted[n]
      BY <1>0, <1>1, <2>1, <2>4 DEF Pop, Queue, ListIsTheQueue
    <2>6. ASSUME NEW p \in (popped + 2)..n
          PROVE  next'[submitted[p]] = IF p = n THEN Null ELSE submitted[p + 1]
      <3>1. submitted[p] # head
        BY <1>0, <2>1, <2>3 DEF Queue, SubmittedOnce
      <3>2. next'[submitted[p]] = next[submitted[p]]
        BY <1>0, <1>1, <2>1, <3>1 DEF Pop, Typed, TypeOK
      <3>. QED
        BY <1>0, <2>1, <3>2 DEF Queue, ListIsTheQueue
    <2>. QED
      BY <1>0, <2>1, <2>2, <2>4, <2>5, <2>6 DEF Queue, ListIsTheQueue, SubmittedOnce
  <1>2. ASSUME NEW t \in Tasks, Submit(t) PROVE Queue'
    <2>1. /\ submitted' = Append(submitted, t) /\ popped' = popped
          /\ Len(submitted') = n + 1
          /\ submitted'[n + 1] = t
          /\ \A p \in 1..n : submitted'[p] = submitted[p] /\ submitted[p] # t
      BY <1>0, <1>2 DEF Submit, Typed, TypeOK
    <2>2. SubmittedOnce'
      BY <1>0, <2>1 DEF Queue, SubmittedOnce
    <2>3. tail = Null <=> popped = n
      BY <1>0 DEF Queue, ListIsTheQueue
    <2>4. tail' = submitted'[n + 1]
      BY <1>2, <2>1 DEF Submit
    <2>5. head' = submitted'[popped + 1]
      BY <1>0, <1>2, <2>1, <2>3 DEF Submit, Queue, ListIsTheQueue
    <2>6. ASSUME NEW p \in (popped + 1)..(n + 1)
          PROVE  next'[submitted'[p]] = IF p = n + 1 THEN Null ELSE submitted'[p + 1]
      <3>1. CASE p = n + 1
        BY <3>1, <1>0, <1>2, <2>1, <2>3 DEF Submit, Typed, TypeOK, Queue, ListIsTheQueue
      <3>2. CASE p = n
        <4>1. tail = submitted[n] /\ tail # Null /\ n \in 1..n
          BY <3>2, <1>0, <2>3 DEF Queue, ListIsTheQueue
        <4>2. next'[tail] = t
          BY <1>0, <1>2, <4>1 DEF Submit, Typed, TypeOK
        <4>. QED
          BY <3>2, <4>1, <4>2, <1>0, <2>1
      <3>3. CASE p < n
        <4>1. tail = submitted[n] /\ tail # Null /\ n \in 1..n /\ p \in 1..n
          BY <3>3, <1>0, <2>3 DEF Queue, ListIsTheQueue
        <4>2. submitted[p] # tail /\ submitted[p] # t
          BY <3>3, <1>0, <2>1, <4>1 DEF Queue, SubmittedOnce
        <4>3. next'[submitted[p]] = next[submitted[p]]
          BY <1>0, <1>2, <4>1, <4>2 DEF Submit, Typed, TypeOK
        <4>. QED
          BY <3>3, <4>1, <4>3, <1>0, <2>1 DEF Queue, ListIsTheQueue
      <3>. QED
        BY <1>0, <3>1, <3>2, <3>3
    <2>. QED
      BY <1>0, <2>1, <2>2, <2>4, <2>5, <2>6 DEF Queue, ListIsTheQueue
  <1>3. CASE FreeRemaining
    <2>1. popped = n
      BY <1>3, ClosedWhenDone DEF FreeRemaining, AllDone
    <2>. QED
      BY <1>0, <1>3, <2>1 DEF FreeRemaining, history, Queue, ListIsTheQueue, SubmittedOnce
  <1>4. ASSUME UNCHANGED <<queue, submitted, popped>> PROVE Queue'
    BY <1>4 DEF queue, Queue, ListIsTheQueue, SubmittedOnce
  <1>5. ASSUME NEW w \in Workers,
               \/ Lock(w) \/ Wait(w) \/ Quit(w) \/ SpuriousWakeup(w) \/ CreateWorker(w)
               \/ LockForReading(w) \/ LockForWriting(w) \/ Executed(w)
               \/ Send(w) \/ Notify(w) \/ Free(w)
        PROVE  UNCHANGED <<queue, submitted, popped>>
    BY <1>5 DEF Lock, Wait, Quit, SpuriousWakeup, CreateWorker, LockForReading,
                LockForWriting, Executed, Send, Notify, Free, queue, history
  <1>6. CASE \/ \E t \in Tasks : Refuse(t)
             \/ CreateFails \/ ReadPipe \/ Stop \/ Shutdown \/ Joined \/ UNCHANGED vars
    <2>. UNCHANGED <<queue, submitted, popped>>
      BY <1>6 DEF Refuse, CreateFails, ReadPipe, Stop, Shutdown, Joined, vars, queue, history
    <2>. QED
      BY <1>4
  <1>. QED
    BY <1>1, <1>2, <1>3, <1>4, <1>5, <1>6 DEF Next, WorkerStep, Terminated

LEMMA InitPhases == Init => Phases
  BY WorkerPoolAssumption DEF Init, Phases

LEMMA NextPhases == Typed /\ Queue /\ Phases /\ [Next]_vars => Phases'
  <1>. SUFFICES ASSUME Typed, Queue, Phases, [Next]_vars PROVE Phases'
    OBVIOUS
  <1>. USE WorkerPoolAssumption DEF Typed, TypeOK, Phases, AllDone
  <1>1. ASSUME NEW w \in Workers, Lock(w) PROVE Phases'
    BY <1>1 DEF Lock, Goto, history
  <1>2. ASSUME NEW w \in Workers, Wait(w) PROVE Phases'
    BY <1>2 DEF Wait, Goto, history
  <1>3. ASSUME NEW w \in Workers, SpuriousWakeup(w) PROVE Phases'
    BY <1>3 DEF SpuriousWakeup, Goto, history
  <1>4. ASSUME NEW w \in Workers, Quit(w) PROVE Phases'
    BY <1>4, HeadTellsAll DEF Quit, Goto, history
  <1>5. ASSUME NEW w \in Workers, Pop(w) PROVE Phases'
    <2>1. \A v \in Workers : pc[v] # "gone"
      BY <1>5, HeadTellsAll DEF Pop
    <2>. QED
      BY <1>5, <2>1 DEF Pop, Goto
  <1>6. ASSUME NEW w \in Workers, LockForReading(w) PROVE Phases'
    BY <1>6 DEF LockForReading, Goto, history
  <1>7. ASSUME NEW w \in Workers, LockForWriting(w) PROVE Phases'
    BY <1>7 DEF LockForWriting, Goto, history
  <1>8. ASSUME NEW w \in Workers, Executed(w) PROVE Phases'
    <2>1. PICK to \in {"send", "send bye", "free"} : pc' = [pc EXCEPT ![w] = to]
      BY <1>8, ExecutedMoves
    <2>. QED
      BY <1>8, <2>1 DEF Executed, history
  <1>9. ASSUME NEW w \in Workers, Send(w) PROVE Phases'
    <2>1. PICK to \in {"notify", "free"} : pc' = [pc EXCEPT ![w] = to]
      BY <1>9, SendMoves
    <2>2. /\ pc[w] \in {"send", "send bye"} /\ pc'[w] \in {"notify", "free"}
          /\ \A v \in Workers \ {w} : pc'[v] = pc[v]
      <3>1. pc[w] \in {"send", "send bye"}
        BY <1>9, SendMoves
      <3>. QED
        BY <2>1, <3>1, MovesAlone
    <2>3. UNCHANGED <<main, shutting_down, submitted, popped>>
      BY <1>9 DEF Send, history
    <2>. QED
      BY <2>2, <2>3
  <1>10. ASSUME NEW w \in Workers, Notify(w) PROVE Phases'
    BY <1>10 DEF Notify, Goto, history
  <1>11. ASSUME NEW w \in Workers, Free(w) PROVE Phases'
    BY <1>11 DEF Free, Goto
  <1>12. ASSUME NEW w \in Workers, CreateWorker(w) PROVE Phases'
    BY <1>12 DEF CreateWorker, Goto, history
  <1>13. ASSUME NEW t \in Tasks, Submit(t) PROVE Phases'
    <2>1. /\ main = "serve" /\ main' = main /\ ~shutting_down /\ shutting_down' = shutting_down
          /\ \A v \in Workers : pc[v] # "gone" /\ pc[v] # "none"
      BY <1>13 DEF Submit
    <2>2. \A v \in Workers : pc'[v] # "gone" /\ pc'[v] # "none"
      BY <1>13, <2>1, SignalMoves DEF Submit
    <2>. QED
      BY <2>1, <2>2
  <1>14. CASE Shutdown
    BY <1>14 DEF Shutdown, Broadcast, history
  <1>15. CASE Joined
    BY <1>15 DEF Joined, history
  <1>16. CASE FreeRemaining
    BY <1>16 DEF FreeRemaining, history
  <1>17. CASE CreateFails
    BY <1>17 DEF CreateFails, history
  <1>18. CASE Stop
    BY <1>18 DEF Stop, history
  <1>19. ASSUME NEW t \in Tasks, Refuse(t) PROVE Phases'
    BY <1>19 DEF Refuse
  <1>20. CASE ReadPipe
    BY <1>20 DEF ReadPipe, history
  <1>21. CASE UNCHANGED vars
    BY <1>21 DEF vars
  <1>. QED
    BY <1>1, <1>2, <1>3, <1>4, <1>5, <1>6, <1>7, <1>8, <1>9, <1>10, <1>11, <1>12,
       <1>13, <1>14, <1>15, <1>16, <1>17, <1>18, <1>19, <1>20,
       <1>21 DEF Next, WorkerStep, Terminated

\* The linked list is the queue of the accepted tasks in order of submission,
\* whatever task_push, task_pop and worker_pool_destroy did to its pointers.
THEOREM ListCorrect == Spec => []ListIsTheQueue
  <1>1. Queue => ListIsTheQueue
    BY DEF Queue
  <1>. QED
    BY <1>1, InitTyped, NextTyped, InitQueue, NextQueue, InitPhases, NextPhases, PTL DEF Spec

-----------------------------------------------------------------------------
(* Where each accepted task is.                                            *)

Owners ==
    /\ \A w \in Workers : task[w] # Null =>
          task[w] \notin finished /\ \E p \in 1..popped : submitted[p] = task[w]
    /\ \A v, w \in Workers : task[v] # Null /\ task[v] = task[w] => v = w
    /\ \A p \in 1..popped :
          submitted[p] \in finished \/ \E w \in Workers : task[w] = submitted[p]
    /\ \A t \in finished : \E p \in 1..popped : submitted[p] = t

LEMMA InitOwners == Init => Owners
  BY DEF Init, Owners

LEMMA NextOwners == Typed /\ Queue /\ Owners /\ [Next]_vars => Owners'
  <1>. SUFFICES ASSUME Typed, Queue, Owners, [Next]_vars PROVE Owners'
    OBVIOUS
  <1>. DEFINE n == Len(submitted)
  <1>0. /\ n \in Nat /\ popped \in Nat /\ popped <= n
        /\ \A p \in 1..n : submitted[p] \in Tasks /\ submitted[p] # Null
        /\ \A p, q \in 1..n : submitted[p] = submitted[q] => p = q
        /\ task \in [Workers -> Tasks \cup {Null}]
    BY WorkerPoolAssumption DEF Typed, TypeOK, Queue, ListIsTheQueue, SubmittedOnce
  <1>1. ASSUME NEW w \in Workers, Pop(w) PROVE Owners'
    <2>1. popped < n /\ head = submitted[popped + 1]
      BY <1>0, <1>1, HeadTellsAll DEF Pop, AllDone, Queue, ListIsTheQueue
    <2>2. /\ task[w] = Null /\ head # Null
          /\ task' = [task EXCEPT ![w] = head]
          /\ popped' = popped + 1 /\ submitted' = submitted /\ finished' = finished
      BY <1>1 DEF Pop, Goto, Typed, OwnsWhenBusy, Busy
    <2>3. \A p \in 1..popped : submitted[p] # head
      BY <1>0, <2>1
    <2>4. head \notin finished /\ \A v \in Workers : task[v] # head
      BY <1>0, <2>2, <2>3 DEF Owners
    <2>5. /\ popped + 1 \in 1..popped' /\ 1..popped \subseteq 1..popped'
          /\ \A p \in 1..popped' : p = popped + 1 \/ p \in 1..popped
      BY <1>0, <2>2
    <2>6. ASSUME NEW v \in Workers, task'[v] # Null
          PROVE  /\ task'[v] \notin finished'
                 /\ \E p \in 1..popped' : submitted'[p] = task'[v]
      BY <1>0, <2>1, <2>2, <2>4, <2>5, <2>6 DEF Owners
    <2>7. ASSUME NEW u \in Workers, NEW v \in Workers, task'[u] # Null, task'[u] = task'[v]
          PROVE  u = v
      BY <1>0, <2>2, <2>4, <2>7 DEF Owners
    <2>8. ASSUME NEW p \in 1..popped'
          PROVE  submitted'[p] \in finished' \/ \E v \in Workers : task'[v] = submitted'[p]
      <3>1. CASE p = popped + 1
        BY <3>1, <1>0, <2>1, <2>2
      <3>2. CASE p \in 1..popped /\ submitted[p] \notin finished
        <4>1. PICK v \in Workers : task[v] = submitted[p]
          BY <3>2 DEF Owners
        <4>2. submitted[p] # Null
          BY <3>2, <1>0
        <4>3. v # w
          BY <4>1, <4>2, <2>2
        <4>. QED
          BY <4>1, <4>3, <1>0, <2>2
      <3>. QED
        BY <3>1, <3>2, <2>2, <2>5
    <2>9. ASSUME NEW t \in finished' PROVE \E p \in 1..popped' : submitted'[p] = t
      BY <2>2, <2>5 DEF Owners
    <2>. QED
      BY <2>6, <2>7, <2>8, <2>9 DEF Owners
  <1>2. ASSUME NEW w \in Workers, Free(w) PROVE Owners'
    <2>1. /\ task[w] # Null /\ task' = [task EXCEPT ![w] = Null]
          /\ finished' = finished \cup {task[w]}
          /\ popped' = popped /\ submitted' = submitted
      BY <1>2 DEF Free, Goto, Typed, OwnsWhenBusy, Busy
    <2>. QED
      BY <1>0, <2>1 DEF Owners
  <1>3. ASSUME NEW t \in Tasks, Submit(t) PROVE Owners'
    <2>1. /\ task' = task /\ finished' = finished /\ popped' = popped
          /\ \A p \in 1..n : submitted'[p] = submitted[p]
      BY <1>3, <1>0 DEF Submit, Typed, TypeOK
    <2>2. \A p \in 1..popped : submitted'[p] = submitted[p]
      BY <1>0, <2>1
    <2>. QED
      BY <1>0, <2>1, <2>2 DEF Owners
  <1>4. ASSUME UNCHANGED <<task, submitted, popped, finished>> PROVE Owners'
    BY <1>4 DEF Owners
  <1>5. ASSUME NEW w \in Workers,
               \/ Lock(w) \/ Wait(w) \/ Quit(w) \/ SpuriousWakeup(w) \/ CreateWorker(w)
               \/ LockForReading(w) \/ LockForWriting(w) \/ Executed(w)
               \/ Send(w) \/ Notify(w)
        PROVE  UNCHANGED <<task, submitted, popped, finished>>
    BY <1>5 DEF Lock, Wait, Quit, SpuriousWakeup, CreateWorker, LockForReading,
                LockForWriting, Executed, Send, Notify, history
  <1>6. CASE \/ \E t \in Tasks : Refuse(t)
             \/ CreateFails \/ ReadPipe \/ Stop \/ Shutdown \/ Joined \/ FreeRemaining
             \/ UNCHANGED vars
    <2>. UNCHANGED <<task, submitted, popped, finished>>
      BY <1>6 DEF Refuse, CreateFails, ReadPipe, Stop, Shutdown, Joined, FreeRemaining,
                  vars, history
    <2>. QED
      BY <1>4
  <1>. QED
    BY <1>1, <1>2, <1>3, <1>4, <1>5, <1>6 DEF Next, WorkerStep, Terminated

LEMMA InitNoLostWakeup == Init => NoLostWakeup
  BY DEF Init, NoLostWakeup

LEMMA NextNoLostWakeup == Typed /\ Phases /\ NoLostWakeup /\ [Next]_vars => NoLostWakeup'
  <1>. SUFFICES ASSUME Typed, Phases, NoLostWakeup, [Next]_vars PROVE NoLostWakeup'
    OBVIOUS
  <1>0. pc \in [Workers -> WorkerStates]
    BY DEF Typed, TypeOK
  <1>1. ASSUME NEW w \in Workers, NEW to \in WorkerStates \ {"none", "waiting", "gone"},
               pc' = [pc EXCEPT ![w] = to]
        PROVE  NoLostWakeup'
    BY <1>0, <1>1 DEF NoLostWakeup
  <1>2. ASSUME NEW w \in Workers,
               \/ Lock(w) \/ SpuriousWakeup(w) \/ CreateWorker(w) \/ Pop(w)
               \/ LockForReading(w) \/ LockForWriting(w) \/ Notify(w) \/ Free(w)
        PROVE  NoLostWakeup'
    <2>1. \E to \in WorkerStates \ {"none", "waiting", "gone"} : pc' = [pc EXCEPT ![w] = to]
      BY <1>2 DEF Lock, SpuriousWakeup, CreateWorker, Pop, LockForReading, LockForWriting,
                  Notify, Free, Goto, WorkerStates
    <2>. QED
      BY <2>1, <1>1
  <1>3. ASSUME NEW w \in Workers, Executed(w) \/ Send(w) PROVE NoLostWakeup'
    <2>1. \E to \in WorkerStates \ {"none", "waiting", "gone"} : pc' = [pc EXCEPT ![w] = to]
      BY <1>3, ExecutedMoves, SendMoves DEF WorkerStates
    <2>. QED
      BY <2>1, <1>1
  <1>4. ASSUME NEW w \in Workers, Wait(w) PROVE NoLostWakeup'
    BY <1>4 DEF Wait, queue, NoLostWakeup
  <1>5. ASSUME NEW w \in Workers, Quit(w) PROVE NoLostWakeup'
    BY <1>5 DEF Quit, queue, NoLostWakeup
  <1>6. ASSUME NEW t \in Tasks, Submit(t) PROVE NoLostWakeup'
    <2>1. CASE \E w \in Workers : Goto(w, "waiting", "lock")
      BY <2>1, <1>1 DEF Goto, WorkerStates
    <2>2. CASE (\A w \in Workers : pc[w] # "waiting") /\ UNCHANGED pc
      BY <2>2 DEF NoLostWakeup
    <2>. QED
      BY <1>6, <2>1, <2>2 DEF Submit, Signal
  <1>7. CASE Shutdown
    BY <1>7, <1>0 DEF Shutdown, Broadcast, NoLostWakeup
  <1>8. CASE FreeRemaining
    BY <1>8 DEF FreeRemaining, NoLostWakeup
  <1>9. CASE \/ \E t \in Tasks : Refuse(t)
             \/ CreateFails \/ ReadPipe \/ Stop \/ Joined \/ UNCHANGED vars
    <2>. UNCHANGED <<pc, head>>
      BY <1>9 DEF Refuse, CreateFails, ReadPipe, Stop, Joined, vars, queue
    <2>. QED
      BY DEF NoLostWakeup
  <1>. QED
    BY <1>2, <1>3, <1>4, <1>5, <1>6, <1>7, <1>8, <1>9 DEF Next, WorkerStep, Terminated

-----------------------------------------------------------------------------
(* The whole, and what follows from it.                                    *)

IInv == Typed /\ Locks /\ Queue /\ Phases /\ Owners /\ NoLostWakeup

LEMMA InitIInv == Init => IInv
  BY InitTyped, InitLocks, InitQueue, InitPhases, InitOwners, InitNoLostWakeup DEF IInv

LEMMA NextIInv == IInv /\ [Next]_vars => IInv'
  BY NextTyped, NextLocks, NextQueue, NextPhases, NextOwners, NextNoLostWakeup DEF IInv

LEMMA IInvOnce == IInv => EveryTaskOnce
  <1>. SUFFICES ASSUME IInv, NEW p \in 1..popped
                PROVE  LET t == submitted[p]
                           owners == {w \in Workers : task[w] = t}
                       IN  IF t \in finished THEN owners = {} ELSE Cardinality(owners) = 1
    BY DEF EveryTaskOnce
  <1>. DEFINE t == submitted[p]
              owners == {w \in Workers : task[w] = t}
  <1>1. t # Null
    BY WorkerPoolAssumption DEF IInv, Typed, TypeOK, Queue, ListIsTheQueue
  <1>2. CASE t \in finished
    <2>1. owners = {}
      BY <1>1, <1>2 DEF IInv, Owners
    <2>. QED
      BY <1>2, <2>1
  <1>3. CASE t \notin finished
    <2>1. PICK w \in Workers : task[w] = t
      BY <1>3 DEF IInv, Owners
    <2>2. owners = {w}
      BY <1>1, <2>1 DEF IInv, Owners
    <2>3. Cardinality(owners) = 1
      BY <2>2, FS_Singleton
    <2>. QED
      BY <1>3, <2>3
  <1>. QED
    BY <1>2, <1>3

LEMMA IInvQuiet == IInv => QuietWhenClosed
  <1>. SUFFICES ASSUME IInv, main \in {"free", "closed", "failed"}
                PROVE  /\ \A w \in Workers : pc[w] \in {"none", "gone"} /\ task[w] = Null
                       /\ holder = Null /\ readers = {} /\ writer = Null
    BY DEF QuietWhenClosed
  <1>1. \A w \in Workers : pc[w] \in {"none", "gone"}
    BY DEF IInv, Phases
  <1>2. \A w \in Workers : task[w] = Null
    BY <1>1 DEF IInv, Typed, OwnsWhenBusy, Busy
  <1>3. holder = Null
    BY <1>1 DEF IInv, Typed, TypeOK, Locks, MutexHeldWhenLocked
  <1>4. readers = {} /\ writer = Null
    BY <1>1 DEF IInv, Typed, TypeOK, Locks, LockHeldWhileExecuting
  <1>. QED
    BY <1>1, <1>2, <1>3, <1>4

LEMMA IInvNothingDropped == IInv => NothingDropped
  <1>. SUFFICES ASSUME IInv, main \in {"free", "closed"}, NEW p \in DOMAIN submitted
                PROVE  submitted[p] \in finished
    BY DEF NothingDropped
  <1>1. p \in 1..popped
    BY ClosedWhenDone DEF IInv, AllDone, Typed, TypeOK
  <1>2. submitted[p] # Null
    BY WorkerPoolAssumption DEF IInv, Typed, TypeOK
  <1>3. \A w \in Workers : task[w] = Null
    BY IInvQuiet DEF QuietWhenClosed
  <1>. QED
    BY <1>1, <1>2, <1>3 DEF IInv, Owners

\* Every accepted task that left the list is finished or with exactly one
\* worker: worker_main neither loses a command nor executes one twice.
THEOREM TasksExecuteOnce == Spec => []EveryTaskOnce
  BY InitIInv, NextIInv, IInvOnce, PTL DEF Spec

\* worker_pool_destroy destroys the mutex, the condition variable and the lock
\* only when no thread is left that could use them, and none is held; so does
\* the failure path of worker_pool_init.
THEOREM ClosedPoolIsQuiet == Spec => []QuietWhenClosed
  BY InitIInv, NextIInv, IInvQuiet, PTL DEF Spec

\* Every accepted command has been executed when worker_pool_destroy frees the
\* rest of the list: there is no rest.
THEOREM ShutdownDropsNothing == Spec => []NothingDropped
  BY InitIInv, NextIInv, IInvNothingDropped, PTL DEF Spec

\* No worker sleeps on queue_cond while a task waits that nobody is about to
\* look for.
THEOREM WakeupsAreNotLost == Spec => []NoLostWakeup
  <1>1. IInv => NoLostWakeup
    BY DEF IInv
  <1>. QED
    BY <1>1, InitIInv, NextIInv, PTL DEF Spec
=============================================================================

# InMemDB: TLA+ models and proofs

This directory specifies and verifies [InMemDB](../src/README.md), a key-value
server in C: a `select()` loop, four worker threads, a chained hash table and an
append-only file. The models are TLA+ modules checked with TLC; what the store,
its file format, the hash table, the pool, the loop, line framing and the
concurrent composition promise is also proved with TLAPS. `PROJECT.json` maps
every definition to the lines it models, lists the runs, and names for every
property a mutation of the model that TLC must catch.

File names and line numbers refer to `src/src/*.c` and `src/include/*.h`;
"README.md" is the repository's own.

## 1. Inventory

| Component | State | Operations | What makes it correct |
|---|---|---|---|
| Hash table (`hash_table.c`, `entry.c`) | array of chains, `size`, `count`; an entry has key, value, `expires_at` | set (update, insert, maybe resize), delete, lookup (`find_entry`) | it is a map; a key is never in two places; a resize loses nothing; load stays below 3/4 |
| Append-only file (`persistence.c`) | `data.aof`, `data.aof.tmp` | append a SET or DEL, load at start-up, rewrite | loading the file gives what clients saw; the rewrite keeps the meaning of the file; a file made of whole records always loads |
| Command execution (`command.c`) | none of its own: table, file, clock | SET, GET, TTL, DEL, EXIT, PING | append before memory; a failed append changes nothing; expired is the same as missing |
| Command parsing (`command.c`) | argv | `parse_command`, `parse_expiry_seconds` | agrees with `is_read_command` about which commands write |
| Start-up (`main.c`) | none | create table, load, serve | serves only after a complete load |
| Worker pool (`worker_pool.c`) | task list, mutex, condition variable, read-write lock, notification pipe, `shutting_down` | init, submit, pop, execute, notify, destroy | no data race on the table; every task once, in order; no lost wakeup; clean shutdown |
| Select loop (`server.c`) | 16 slots of descriptors and buffers, `read_fds` | select, read the pipe, accept, recv, close | slots are exactly the open connections; answers and closes reach the right client; recv, which blocks, is called on a socket that has data |
| Line framing (`server.c`) | a 1024-byte buffer per client | append, split, reset | each line becomes one task, whatever the segmentation |

Interaction. The loop passes `(client_fd, command)` to the pool by
`worker_pool_submit`; a worker pops the task, takes `db_lock` for reading or
writing, calls `command_execute`, which appends to the file and then changes the
table, and sends the answer on `client_fd` itself. After EXIT it writes
`client_fd` into a pipe, and the loop, woken by `select`, closes the client.
Descriptor numbers are the only identity a client has in tasks and
notifications.

What is hard here: crashes between the append and memory, and inside the
rewrite; partial writes; expiry against a clock that moves between two readings
or while the server is down; threads against the queue, the condition variable
and shutdown; commands that append and then change memory while other workers
run; a stream that arrives in pieces; a file that ends in the middle of a
record; descriptor numbers that are reused while tasks and notifications still
carry them. `PROJECT.json` lists these as hazards, each at its line.

## 2. Modules

| Module | Models | Role |
|---|---|---|
| `Aof` | records, entries, expiry, answers | data shared by the store modules |
| `Store` | `command_execute`, `persistence.c`, `main` | detailed specification of the engine |
| `TtlMap` | the promise to clients | abstract specification |
| `StoreRefinement` | `Store` implements `TtlMap` | refinement mapping |
| `StoreProofs` | the invariants of `Store`; it implements `TtlMap` | TLAPS |
| `MCStore` | instances | TLC |
| `HashTable` | `hash_table.c`, `find_entry` | detailed specification |
| `KeyMap` | a map | abstract specification |
| `HashTableProofs` | the invariants of `HashTable`; it implements `KeyMap` | TLAPS |
| `MCHashTable` | instances, a colliding hash | TLC |
| `WorkerPool` | `worker_pool.c`, and the server thread as its user | threads and locks |
| `WorkerPoolProofs` | the invariants of `WorkerPool` | TLAPS |
| `MCWorkerPool` | instances | TLC |
| `Server` | `server_start`, clients, descriptors, the pool as seen from the loop | sockets |
| `ServerProofs` | the invariants of `Server`, for any clients and for patient ones | TLAPS |
| `MCServer` | instances | TLC |
| `Text` | sequences of symbols, `strchr`, `isspace`, `strtoll`, `printf` | data shared by the next three |
| `CommandLine` | `parse_command`, `parse_expiry_seconds`, argument checks, `is_read_command` | pure functions of a line |
| `LineFraming` | the receiving half of `server_start`, clients that write lines | streams and buffers |
| `LineFramingProofs` | the invariants of `LineFraming`; tasks are the lines that were sent | TLAPS |
| `MCInput` | instances: sessions of two clients | TLC |
| `AofFormat` | the text of `data.aof`, printed and scanned | refines the loader of `Store` |
| `AofFormatProofs` | what is printed is read back; the loader and damaged files | TLAPS |
| `MCAofFormat` | instances: files with torn records | TLC |
| `InMemDB` | `WorkerPool` with the commands it executes, the table and the file | composition |
| `AtomicDB` | commands that take effect at one instant each | abstract specification |
| `InMemDBProofs` | the invariants of `InMemDB`; it implements `AtomicDB` | TLAPS |
| `MCInMemDB` | instances | TLC |
| `SharedLemmas` | least elements of sets of numbers, pieces and concatenations of sequences, what the operators of `Text` return | TLAPS |

### Store

`table` is the content of the hash table (`HashTable` shows that the chains
implement a map), `aof` and `tmp` are the two files as sequences of records, `pc`
says what the process is doing, and `now` is `time(NULL)`. One command runs at a
time: commands that write hold `db_lock` exclusively, and GET and TTL change
nothing. A command that writes is split where the code can fail or die:

| Code | Actions |
|---|---|
| `main`: create, load, give up | `Start`, `LoadUnread`, `LoadSet`, `LoadFails`, `LoadDel`, `LoadTorn`, `LoadGlued`, `LoadDone` |
| SET, DEL up to the append | `Set`, `Del` |
| `persistence_append_*` | `AppendOk`, `AppendFails` |
| `hash_table_set` and `expires_at`, `hash_table_delete` | `ApplyOk`, `ApplyFails` |
| GET; TTL, first and second reading of the clock | `Get`; `Ttl`, `TtlAnswer` |
| `persistence_rewrite`: open, one entry, error, rename | `Exit`, `RewriteEntry`, `RewriteFails`, `RewriteRename` |
| the world | `Tick`, `Crash` |

A record is whole or torn. A torn record is what a failed append or a death
inside it leaves. `persistence_load` either gives up on it (`LoadTorn`) or takes
the missing bytes from the records appended later (`LoadGlued`): a key or value
is read by its length, so the text of later records can end up inside it. Where
reading goes on depends on bytes the model does not have, so every later
position is possible. `suspect` is a history variable: the keys whose last
record was refused to its client, or was not read at start-up; about these the
store owes nobody a particular value.

`TtlMap` has no file, no crash and no restart: a map from keys to live entries
and a clock that removes entries on time. A SET or DEL takes effect in one step
and is answered later or never; every other answer reports the map. The
refinement mapping reads the map off the file, not off the table, so that what
GET, TTL and DEL say, which comes from the table, is what is checked.

### HashTable

A chain is the sequence of its entries, with the head first. `hash_table_resize`
moves one entry per step, so that the invariants are also checked in the middle
of a resize. The content of an entry that matters here is its value (the table
treats `expires_at` as a second value). Allocation may fail at every malloc
(`SetFails`) and at the calloc of a resize (in `Insert`, where the array then
stays as it is, because the result of `hash_table_resize` is ignored). `starved`
is history: a growth failed and later growths have not made up for it.

### WorkerPool

`pc[w]` is the position of a worker between two operations that other threads
can see; `head`, `tail` and `next` are the linked list itself. The server thread
is `main`. A critical section of the server thread is one step, since nothing in
it waits; a worker holds `queue_mutex` from `Lock` to `Wait`, `Quit` or `Pop`.
`submitted`, `popped`, `refused` and `finished` are history. Commands are
reduced to their kind: read, write, exit, or a blank line, which produces no
response.

### Server

Descriptors are numbers that `accept` picks among the free ones; `owner` says
who is at the other end. `pc` follows one round of the loop: select, the pipe,
accept, one recv per slot. Workers and their queue are present as far as they
share descriptors with the loop. Clients come with three kinds of manners,
because what the code achieves depends on them: *hasty* ones pipeline and leave
at any time, *polite* ones leave only with all their answers, and *patient* ones
also leave it to the server to disconnect after BYE. Clients connect in the
order of their numbers, which loses nothing, because their names mean nothing.

An EXIT rewrites the file before it is answered. When that fails the answer is
ERR and nothing follows; only after BYE does the worker write to the pipe. How
the rewrite goes is a choice here (`AnswersTo`), since the database is left out,
and `Answer` and `Notify` are two steps, between which the client may leave and
its number be reused.

### Text, CommandLine and LineFraming

Text is a sequence of symbols. A command word or EX is one symbol in whatever
case it is written (both the parser and `is_read_command` ignore case); every
other letter, digit, quote and blank is a symbol of its own. `parse_command`,
`parse_expiry_seconds`, `command_execute` (up to the request it makes) and
`is_read_command` are functions of a line. `LineFraming` puts the server's
buffers in front: `Receive` takes any piece of the stream, `Cut` appends it and
makes a task of every complete line (`worker_pool_submit` may fail for any of
them), `Drop` is "ERR command too long", and `Accept` and `Close` hand slots and
their buffers from client to client.

The specification of what should arrive is on the side of the client: a line
carries the request its author means (`Ask`), with arguments bare or in quotes,
and `CommandsArrive` compares it with what `command_execute` makes of the task
at the other end. Odd lines (missing quotes, six arguments, zero, negative or
huge expiries, a NUL, more text than a buffer holds) mean nothing in particular;
what matters is that they harm no other line. `told` is history: the client was
sent an ERR that says that something is lost.

### AofFormat

`file` is the text of a log of which each record is printed to some length;
`at` is the position of `persistence_load` in it. One action is one round of
its loop. The operators in between (`Char`, `Word`, `Number`, `CountedText`) are
`fgetc`, `fscanf` and the reading of a length and so many bytes. The refinement
mapping turns the text back into the whole and torn records of `Store`, and
`RefinesLoader` says that every round is a `LoadSet`, `LoadDel`, `LoadTorn`,
`LoadGlued` or `LoadDone` there. This is what justifies that `Store` has no text:
in particular that a torn record takes what it misses from later records up to
the end of one of them, and never up to the middle. `SpelledExpiries` comes
from here: the tail of a later value that ends in ` EXAT 9` can become the
expiry of a torn record.

### InMemDB

`InMemDB` extends `WorkerPool` by what a worker does between taking `db_lock` and
sending its answer: `Lookup` and `ReadValue` (GET finds an entry and later copies
its value), `AppendRecord` and `Apply` (SET and DEL write the file, then the
table), `CopyTable` and `Rename` (EXIT). Each is a step of its own, so that a
lock that let two commands in would show. `Enter` and `Return` are
`LockForReading`, `LockForWriting` and `Executed` of the pool with the command
between them. Expiry and crashes are not repeated here: this module shows that
commands may be taken one by one, and `Store` takes them one by one.

## 3. Runs

Every run finishes within three minutes on two cores. Deadlock is checked
except in the runs of `Server`, `LineFraming` and `AofFormat`: a server without
clients rightly waits for ever, and a stream or a file that was read is done.

| Run | Instance | Properties | What it shows |
|---|---|---|---|
| `engine` | 2 keys, 2 values, EX 1, clock 1..2 with `TimeMax` = 2, at most 3 records before a command is logged, every fault | `TypeOK`, `MemoryMatchesLog`, `AnswersMatchLog`, `CompactionKeepsBindings` | with crashes anywhere (inside start-up and EXIT too), appends that leave nothing, a part or all of a record, failing allocations and an unreadable file: what clients see and are told is what a restart recovers |
| `map` | 2 keys, 2 values, EX 1, clock 1..3, 3 records, crashes, appends that leave nothing | `RefinesTtlMap` | the store implements `TtlMap`, answers included |
| `hash` | 4 keys, 2 values, 1 chain at first, allocation failures | `TypeOK`, `KeysInPlace`, `CountExact`, `LoadBounded`, `RefinesKeyMap` | chains that collide, split and are moved entry by entry are a map |
| `pool` | 2 workers; a read, a write, an EXIT and a blank line | `TypeOK`, `NoDataRace`, `ListIsTheQueue`, `EveryTaskOnce`, `QuietWhenClosed`, `NothingDropped`, `NoLostWakeup`, `EveryTaskFinishes`, `ShutdownCompletes` | queue, locks, wakeups, failed start-up and shutdown in every interleaving |
| `server_hasty` | 3 clients, 1 slot, 1 worker, 1 line each | `SlotsAreTheConnections`, `RefusedOnlyWhenFull`, `RecvBlocksOnNewcomerOnly` | descriptors and slots agree whatever clients do, and recv finds nothing to read only on a client that took over a closed number in this round and has sent nothing |
| `server_patient` | 3 clients, 2 slots, 2 workers; the first client sends 2 lines, the second 1, the third none | `TypeOK`, `RepliesReachTheirClient`, `OnlyExitCloses`, `EveryCommandAnswered`, `ExitIsClosed` | with considerate clients nobody gets another client's answer or close; a failed EXIT closes nothing; under fairness every command is answered and every BYE ends in a close |
| `input` | 2 clients in turn in 1 slot, a buffer of 18 symbols, over 400 sessions, every segmentation | `TypeOK`, `CommandsArrive`, `NeverGlued`, `LockFitsCommand` | what a client means is what `command_execute` sees, or the client is told; text is never glued to a command; the lock fits the command |
| `format` | 2 keys, 3 values, files of up to 3 records with one cut at any character, loaded before and after the expiry | `TypeOK`, `TornTailRefused`, `RecordsAreReadBack`, `RefinesLoader` | every round begins where a record does, and a whole record is read as it was written, whatever is around it; reading the text does what `Store` says of records; a file that ends in a partial record never loads |
| `inmemdb` | 2 workers; two SETs, a DEL, a GET and an EXIT of one key; writes may fail | `DataOK`, `LogIsTheTable`, `EntryIsStable`, `RefinesAtomicDB` | in every interleaving of queue, lock, file and table commands are atomic and the file agrees with the table |

Three runs expect a violation: each checks what a document or comment of the
repository says, and TLC shows a run of the code that does otherwise
(section 6).

Why these bounds are enough to meet the interesting cases (for the safety
properties of `Store`, `HashTable`, `WorkerPool`, `Server` and `InMemDB` they
only matter for how soon TLC finds a mistake: section 5 proves them for every
instance):

- *Store.* Three records hold SET, overwriting SET and DEL of one key, or a
  torn record with whole ones on either side, or two keys before a compaction;
  after a compaction the log is short again and the commands go on. In `engine`
  an EX at time 1 expires at 2, and an EX at time 2 overflows `time_t`
  (`AddTime`, 2 + 1 > `TimeMax`). `map` has three instants, so that an entry can
  be set, seen, expire, and be set again with an expiry. Everything the two
  runs check is also proved without bounds (section 5).
- *HashTable.* `SomeHash` makes two keys share a chain until there are 8 chains;
  four keys drive the table from 1 chain to 8; with two values an update differs
  from what it replaces.
- *WorkerPool.* Two workers are enough for every pairwise race, a stolen wakeup
  and a reader beside a writer. There is one task of each kind. `PipeSize` = 1
  holds the one EXIT.
- *Server.* A third client is the one that inherits the descriptor number of
  another or is refused; two lines of one client allow a command before EXIT, and
  an EXIT after one that failed; with one slot the table is full at once. The
  third client of `server_patient` only connects: what can go wrong with it, a
  number that is still in a task or a notification, needs no line of its own.
- *LineFraming.* One slot is passed on to the second client. Lines of up to four
  symbols over a command word, a letter, a blank and a quote contain every shape
  of argument; the buffer holds most lines with a plain command behind them, so
  that it overflows at every place by some segmentation, but not the longest
  one. `MaxSeconds` = 99 makes an expiry of three digits saturate.
- *AofFormat.* A torn record needs one later record to be completed from, and a
  second one to go on with. One key is as long as `DEL `, one value looks like a
  record and makes the length two digits long, one ends like an expiry.
- *InMemDB.* Two writes of different values and a deletion of the same key are
  what a lost, doubled or reordered effect needs to show; `RefinesAtomicDB` and
  the invariants speak of one key at a time. With a third worker nothing new
  meets: the lock lets in one writer or readers only.

### Fairness

*WorkerPool.* Threads that can run do run (weak fairness of each worker's steps,
of pthread_create, of reading the pipe, of join and of freeing): the scheduler
guarantees this. `Shutdown` has strong fairness: `worker_pool_destroy` must get
`queue_mutex`, and a worker woken spuriously may take it for a moment again and
again; a mutex under an ordinary scheduler is not withheld from a waiter for
ever. Nothing is assumed about the arrival of commands, failures of `select` or
spurious wakeups. `SpuriousWakeup` has no fairness, so a lost signal is not
repaired by luck. *Server.* The loop and the workers run when they can, and `accept`
does not fail for ever (`AcceptFails`: a lack of descriptors passes); clients may
stop at any point. In both, sending a response ends, that is, clients read
what they asked for (section 6). Liveness of an individual write behind an
endless stream of reads is not claimed: the model has finitely many tasks (see
section 6).

## 4. Abstract specifications

`RefinesTtlMap` is checked under `MapSpec`, which is `Spec` except that the
process does not die while an older value of a key lies in the file behind a
record that expires. Without this restriction the refinement is false, and
`resurrection` shows why. Crashes at every other moment are included: between
append and memory, in the middle of loading, and inside EXIT. Allocation
failures are excluded there, because a SET that was refused with ERR after its
record was written takes effect at the next restart (section 6); `engine`
includes them and exempts such keys by `suspect`.

`RefinesKeyMap` maps the two arrays of a resize to one map, so that it also says
that no entry disappears for a moment while a resize is under way.

`AtomicDB` is a database for concurrent clients: a command is submitted, takes
effect at one instant, and is answered. Because a command that is submitted
after another one was answered finds that one's effect in `db`, it is
linearizability; commands that are under way together, even of one client, may
take effect in either order. `RefinesAtomicDB` puts the instant of SET and DEL
at the change of the table, of a GET at the end of reading, and includes that a
command takes effect once and that its answer is the one it got then.

`RefinesLoader` refines `Store` in another direction: the abstract loader moves
by records, the detailed one by characters.

## 5. Proofs

Eight modules hold theorems; TLAPS checks every step of their proofs, for every
value of the constants: any number of keys, values, workers, tasks, clients and
slots, every hash function, every bound, every choice of faults. Each proof has
the same shape: an inductive invariant, which TLC confirmed on the instances of
section 3 before it was proved, a lemma that it holds initially, a lemma that
every step keeps it, and a temporal step that puts the two together.

### The store

| Theorem | Says |
|---|---|
| `StoreProofs!TypeCorrect` | `Spec => []TypeOK` |
| `StoreProofs!Invariant` | `Spec => []IInv`, the inductive invariant |
| `MemoryMatchesLogAlways` | `Spec => []MemoryMatchesLog` |
| `CompactionKeepsBindingsAlways` | `Spec => CompactionKeepsBindings`, an action property |
| `AnswersMatchLogAlways` | `Spec => []AnswersMatchLog` |
| `FileIsSeen` | `MapSpec => []MapInv`, the invariant behind the refinement, when `Reliable` |
| `StoreIsATtlMap` | `MapSpec => RefinesTtlMap`, when `Reliable` |

`MemoryMatchesLog` is not inductive. `IInv` adds:

- `Typed`: types, and a command in execution has a key (a TTL an entry).
- `LogInv`: while a SET or DEL waits to reach memory, its record is the last
  one of the file. This is what `ApplyOk` relies on: when the key stops being
  in flight, its last word is what is stored. During a load, `pos` stays in the
  file, so that `LoadDone` has seen all of it.
- `RewriteInv`: during EXIT, the new file has exactly one record per entry that
  was visited and is still live, and it is the entry in memory. When the scan is
  over, the table and the new file therefore say the same.
- `NoRevival`: the new file says nothing of a key that is gone in the old one.
  Compaction needs this for deletions. `MemoryMatchesLog` gives it when the
  entry is visited, but no longer afterwards, when the entry may have expired.
- `MemInv`: `MemoryMatchesLog` with the entry ranging over all entries instead
  of those in the file, so that a step that appends needs no case distinction.
- `TtlInv`: between the two readings of its clock TTL holds the entry that is in
  the table, and it has an expiry.

The lemmas `LastWordNext` and `LastWordAppend` say how the last word changes with
one more record; loading moves along the first, appending along the second.
Time only hides entries (`VisibleLater`), which is why every property is about
records that have not expired.

The refinement has the premises of section 4: `MapSpec`'s rule about crashes,
and `Reliable`, which leaves out failing allocations, an unreadable file and
torn records. Appends that fail and leave nothing, crashes at every other
moment and reloads are included. What a client sees then follows the file even
where a record has expired, which `MemoryMatchesLog` does not say. `MapInv` adds
to `IInv`:

- `Whole`: no record is torn.
- `Restartable`: while the server is down or loads, the file hides no older
  value behind a record that expires. The rule of `MapSpec` speaks of the moment
  of the crash only; this carries it to the load.
- `Forgotten`: the loader holds nothing of a key the file deletes or has not
  mentioned so far. This is what makes skipping an expired record harmless.
- `SameView`: every settled key looks in memory as it looks in the file.

Every action is then a step of `TtlMap` or none: appending is the effect of SET
and DEL, applying their answer, `Tick` removes what expires, and a crash forgets
the command in flight (`StepIsOfTheMap`).

### The hash table

| Theorem | Says |
|---|---|
| `HashTableProofs!TypeCorrect` | `Spec => []TypeOK` |
| `HashTableProofs!Invariant` | `Spec => []IInv` |
| `WalksFindEntries` | `Spec => []KeysInPlace` |
| `CountIsExact` | `Spec => []CountExact` |
| `LoadIsBounded` | `Spec => []LoadBounded` |
| `TableIsAMap` | `Spec => RefinesKeyMap` |

An array is described by what it holds: `Sound` says that every entry is in the
chain its key hashes to and no key has two places. Whatever changes one chain is
one of three things, an entry at its head, one entry less, or another value
(`Consed`, `Dropped`, `Revalued`), and the lemmas of these names say what each
does to the contents and the number of places; updates, insertions, deletions
and the steps of a resize use them. `IInv` consists of `Resizing` (the chains
that were passed are empty and the new array is twice the old one), `Arrays`
(both are sound and have no key in common), `Counted`, and `LoadKept` (what is
bounded during a resize is the load of the new array). `LoadKept` needs the
arithmetic that one doubling is enough for one more entry
(`OneDoublingIsEnough`). In the refinement a step of a resize maps to no step,
because the union of the two contents stays.

### The worker pool

| Theorem | Says |
|---|---|
| `WorkerPoolProofs!TypeCorrect` | `Spec => []TypeOK` |
| `CommandsDoNotRace` | `Spec => []NoDataRace` |
| `ListCorrect` | `Spec => []ListIsTheQueue` |
| `TasksExecuteOnce` | `Spec => []EveryTaskOnce` |
| `ClosedPoolIsQuiet` | `Spec => []QuietWhenClosed` |
| `ShutdownDropsNothing` | `Spec => []NothingDropped` |
| `WakeupsAreNotLost` | `Spec => []NoLostWakeup` |

The invariant is built in layers: `Locks` (who holds the mutex and the lock is
told by where the threads are), `Queue` (the list, and that a task is submitted
once, without which a pointer could be in the list twice), `Phases` (what
start-up and shutdown imply: a worker leaves only when the list is empty and
stays empty), `Owners` (an accepted and popped task is finished or with exactly
one worker), and `NoLostWakeup`, which is inductive given the first ones.

### Concurrent commands

| Theorem | Says |
|---|---|
| `DbIsAPool` | `DbSpec => Spec`: `InMemDB` is a pool |
| `DataTypes` | `DbSpec => []DataOK` |
| `LogMatchesTable` | `DbSpec => []LogIsTheTable` |
| `FoundEntryIsStable` | `DbSpec => []EntryIsStable` |
| `CommandsAreAtomic` | `DbSpec => RefinesAtomicDB` |

Every step of `InMemDB` is a step of `WorkerPool` or leaves it alone, so the
pool's invariant holds as it stands; from it comes `WriterAlone`: while a command
that writes executes, nobody else executes anything. `LogAndTable` says what
holds in the middle of a command: a command that is logged and not applied has
the last word in the file on its key, all other keys agree with the table, and
a copy of the table that EXIT made is still fresh when it is renamed.
`AnswersInTime` says which tasks have an answer. The refinement maps a task that
is done but not answered to one that took effect; `ExecuteIsAtomic` shows that a
command takes effect at the step that ends it, and at no other.

### The select loop

| Theorem | Says |
|---|---|
| `ServerProofs!TypeCorrect` | `Spec => []TypeOK` |
| `ServerProofs!Invariant` | `Spec => []IInv` |
| `SlotsMatchConnections` | `Spec => []SlotsAreTheConnections` |
| `RefusalMeansFull` | `Spec => RefusedOnlyWhenFull`, an action property |
| `ReportsStayTrue` | `Spec => [](Fresh /\ Unread)` |
| `LoopBlocksOnNewcomerOnly` | `Spec => []RecvBlocksOnNewcomerOnly` |
| `PatientClientsAreServed` | `Spec => []Serves`, when `Manners = "patient"` |
| `RepliesArrive` | `Spec => []RepliesReachTheirClient`, when `Manners = "patient"` |
| `ClosedAfterExitOnly` | `Spec => []OnlyExitCloses`, when `Manners = "patient"` |

The first six hold whatever the clients do. `Connections` says that descriptors,
slots and open connections are in bijection, `Reported` that what `select`
reported of the pipe and the listening socket is still there, which makes
`read` and `accept` succeed.

`read_fds` is filled once per round and used for the pipe, the listening socket
and then every slot. `Fresh` says how much of it is still so at each stage: all
of it until the pipe is read; then all but a descriptor the notification closed;
and after `accept` a descriptor that cannot be read is one that accept took over
from that notification. `Unread` says that nothing is received before accept,
which makes this newcomer one that has never sent a line. So recv can block the
loop in this one way, which `blocked_recv` shows to happen (section 6), and in no
other.

The last three are false for other manners: `wrong_reply` shows a client that is
closed for another one's EXIT, and a third one that gets its answer. `Serves` follows every line from the socket through the queue to a worker,
and every EXIT through the pipe: in each place the descriptor still belongs to
the client (`Placed`), and no client has anything in two places (`Single`).
What carries this is that a patient client has nothing else under way while
it waits (`Awaits`, `Exiting`), so that its descriptor cannot be closed, and
hence not reused, under a task. An EXIT that was answered ERR leaves its client
in none of these places, free to send again.

### Line framing

| Theorem | Says |
|---|---|
| `LineFramingProofs!TypeCorrect` | `Spec => []TypeOK`: no buffer overflows |
| `LineFramingProofs!Invariant` | `Spec => []IInv` |
| `NothingIsGlued` | `Spec => []NeverGlued` |
| `CommandsFitTheirLock` | `Spec => []LockFitsCommand` |
| `NothingIsLost` | `Spec => [](Typed /\ Fresh /\ Complete)` |
| `TasksArrive` | `Spec => []CommandsArrive`, when every session is `Understood` |

They hold for every text, buffer size, number of clients and slots, and every
way recv may cut the streams. There are two invariants:

- `IInv` holds whatever is lost. Every task of a client is a line of its stream
  that ends at a newline and has none inside, successive tasks end at increasing
  places (`Tasks`), and the buffer is the stream from a place behind the last
  task to what recv has returned (`Rest`). After a NUL the buffer may hold
  newlines that strchr does not see, and after a reset or an overflow it begins
  in the middle of a line; `Rest` allows both, which is why a task need only be
  the end of a line.
- `Complete` is about a client for which nothing was lost (`Quiet`): the newlines
  received are `at[1]`, `at[2]` and so on, task `n` is exactly the text between
  `at[n - 1]` and `at[n]`, and the buffer begins behind the last. It needs
  `Fresh`: who is not connected and has not left has sent nothing, so that the
  reset in `Accept` loses nothing.

`NeverGlued` follows from the first because what begins later and ends at the
same place is a suffix. `CommandsArrive` follows from the second and from
`LinedUp`: in a stream put together from lines, newline `n` is the end of line
`n`. Its premise, that `command_execute` takes each line alone for what it
means, is what parsing owes to framing; `MCInput` has it evaluated for every
line of its sessions (`QuestionsAreUnderstood`).

`LockFitsCommand` is a fact about every text, `LinesFit`. `RoundsEnd` shows that
the recursive function in `Tokens` is well defined, `FirstToken` what its first
round returns; the word that `is_read_command` compares is then the first
argument, or the first argument begins with a quote. Where a proof needs an
induction it takes the least number for which the claim fails
(`SharedLemmas!LeastNumber`): the prover can use a fact about well-founded
relations but not the induction theorems of the library.

### The file format

| Theorem | Says |
|---|---|
| `AofFormatProofs!TypeCorrect` | `Spec => []TypeOK`: the loader stays in the file, and expiries are numbers |
| `AofFormatProofs!Invariant` | `Spec => []IInv` |
| `TornTailNeverLoads` | `Spec => []TornTailRefused` |
| `WhatIsWrittenIsRead` | `Spec => RecordsAreReadBack`, an action property |
| `WholeFilesLoad` | `Spec => []RefusedOnlyIfTorn`: a file of whole records loads |

They hold for all keys and values without a newline, all logs, and all places at
which the records were cut. The invariant is short (`Behind`): in every round the
loader stands at the beginning of the file or behind a newline, because a SET or
a DEL is only accepted with the newline at its end. The rest is what a text looks
like and how it is scanned:

- A printed record begins with `S` or `D`, and its newline is its last symbol;
  what was written of a record has a newline only if it is whole (`PrintedIs`,
  `TextOfIs`). The file is these texts one behind the other (`Layout`), so that
  every newline in it ends a record (`NewlineEnds`), and every round begins
  where a record does (`BetweenRecords`).
- Of a partial record at the end of the file the loader cannot have passed the
  first symbol, because there is no newline behind it. It finds a word there
  and does not take it for the end (`TornTailHasWord`).
- `Stands(p, text)` says that a text is found at position `p`. Scanning what
  stands somewhere gives it back: a word (`WordStands`), a number
  (`NumberStands`), a counted text (`CountedStands`), the expiry (`ExpiryStands`),
  and so a SET and a DEL (`SetStands`, `DelStands`). Nothing is assumed of what
  follows, which is why a value may look like the rest of a record.
- `Decimal` and `Value` are recursive in the size of a number and in its digits.
  That they are well defined, and that `Value` of the printed digits is the
  number as long as it does not exceed `MaxNumber`, is in `SharedLemmas`
  (`DecimalUnfolds`, `ValueUnfolds`, `DecimalSpells`).

A whole record can only be passed by reading it, and behind the last one the
loader can only finish; since every round begins at one of these places,
start-up fails at a partial record or not at all.

### Assumptions

Every theorem rests on the assumptions of its module and on nothing else; TLC
evaluates them in the runs. They say that bounds are natural numbers and options
Boolean, and:

- `NoEntryAssumption`, `HashTableAssumption`, `WorkerPoolAssumption`: a NULL
  pointer is not an entry, value, task or thread (nor a key, which `TtlMap` uses
  in the same fields).
- `StoreAssumption`: EX arguments are positive, which `parse_expiry_seconds`
  guarantees (see `CommandLine`).
- `WorkerPoolAssumption`: a pool has a worker (`worker_pool_init` is called with
  4), and a pipe holds at least one notification.
- `LineFramingAssumption`: the text of a line is a sequence of symbols, and a
  buffer has room for a symbol and its `'\0'`.
- `TextAssumption`: a key or value has no newline in it, since it is a part of a
  line, which ends at the first newline (server.c cuts it there), and its length
  is a number of its type. `NumbersAssumption`: the clock is positive and fits.
- `LogsAssumption`: the file is made of records as they are printed, each up to
  some length, with expiries that are long longs (but for the least one, which
  `Value` does not spell).
- `InMemDBAssumption`: the kind of a task, which decides the lock, agrees with
  its command (`CommandsFitTheirLock` is about this), and the answers
  OK, ERR, 0, 1 and BYE are distinct from values; a value that is spelt `OK` counts as
  different from the answer OK.

### What is only model-checked

- Liveness (`EveryTaskFinishes`, `ShutdownCompletes`,
  `EveryCommandAnswered`, `ExitIsClosed`): beyond this prover.
- The premise of `TasksArrive`: that a request, written with any quotes and line
  end, is parsed as the same request. It speaks of `Decimal` and of all rounds
  of `Tokens`, not only the first.
- `RefinesLoader`, as far as it speaks of partial records that are completed
  from later ones (`LoadGlued`): which expiry such an entry can get, and that
  its key, if it is not the one that was torn, is none that a client uses,
  depends on the keys and values of the instance and does not hold for all.
  What it says of whole records and of the end of the file is proved
  (`WhatIsWrittenIsRead`).

## 6. Where code and documentation disagree

| Run | Documented | What the code does |
|---|---|---|
| `resurrection` | README.md:193: keys that expired while the server was offline are discarded during recovery | `persistence_load` skips an expired SET (persistence.c:323) but keeps what an earlier record stored under that key, so an overwritten value is back. The trace: SET and SET with EX are logged, time passes, the process dies, the loader takes the first record, skips the second, and the server serves |
| `wrong_reply` | README.md:91: a worker sends the response back to the client | the descriptor number of a task may belong to another client by then (worker_pool.c:280), even when clients leave only with all their answers |
| `wrong_reply` | README.md:177: EXIT closes the client's connection, and the server goes on for other clients | the number in the notification may belong to another client by then (server.c:296), which is disconnected: the trace of the run passes through this, and only thereby a task outlives its connection |
| `blocked_recv` | README.md:98-99: select detects data on the client's descriptor, and recv reads it | the notification closes a descriptor that is set in `read_fds`, accept reuses the number in the same round, and recv (server.c:389) blocks on the new connection. The client that leaves after BYE, as a polite client may, is enough |

Known limits seen while modelling, which no run reports:

- `time(NULL) + seconds` (command.c:337) overflows for a large EX; `Store`
  includes this, and the key is then expired at once or never expires.
- When `hash_table_set` fails (command.c:369) the record is already in the file:
  the client is told ERR, memory keeps the old entry, and the next restart
  brings the rejected one. `MemoryMatchesLog` exempts such a key by `suspect`.
- A partial record makes start-up fail (`LoadTorn`), or swallows later records
  (`LoadGlued`); nothing after it is recovered in the first case.
  A file of whole records always loads (`AofFormatProofs!WholeFilesLoad`).
- `fopen` failing for any reason is taken for "no AOF yet" (persistence.c:128);
  the server starts empty (`LoadUnread`) and the next EXIT replaces the file.
- EXIT drops expired entries from the file but not from memory, where they stay
  until they are set or deleted.
- `worker_pool_destroy` joins the workers (worker_pool.c:660) without reading
  the pipe. A worker that writes into a full pipe would never return;
  `ShutdownCompletes` therefore depends on room for every pending EXIT.
- glibc's default read-write lock prefers readers: a writer may wait as long as
  reads keep overlapping.
- Pipelined commands of one client may be executed, and answered, out of order;
  `AtomicDB` promises no order among commands that are under way together.
- A client's buffer is dropped as a whole when it would reach 1024 bytes
  (server.c:432): short commands that came in the same piece as a long one go
  with it, and when the end of an overlong line arrives later it is executed as
  a command. `NeverGlued` says that nothing worse than the end of one line of
  the same client is executed. A NUL byte hides all later newlines.
- A GET or TTL whose command word is in quotes takes the write lock
  (`LockFitsCommand` exempts it): slower, not wrong.
- `send` (worker_pool.c:280) blocks while a client does not read; as many such
  clients as there are workers bring the server to a halt, and one alone when the
  loop itself sends to it (server.c:441). The fairness above excludes both.

## 7. Not modelled

- Creating the listening socket, partial `send`, EINTR: error paths that log and
  return, or try again.
- Expiry, crashes and failing allocations together with several workers:
  `InMemDB` and `Store` share the order of append and change, and the first shows
  that commands may be taken one by one; their product is not built.
- Two clients whose text is received at the same time: buffers are per slot, and
  `LineFraming` has one slot in its instance.
- Freeing memory at exit, and functions nothing calls (`command_loop`,
  `hash_table_get`, `hash_table_ttl`, `entry_create`, `entry_set_expiry`).
- Logging, the Makefile.

## 8. Plan

Done in this order: `Store` with `Aof` (the data must survive), `StoreProofs`,
`TtlMap` and `StoreRefinement`, `HashTable` with `KeyMap`, `WorkerPool`, `Server`;
then `CommandLine` and `LineFraming`, `AofFormat`, and `InMemDB` with `AtomicDB`;
then `WorkerPoolProofs`, `InMemDBProofs`, `HashTableProofs`, `ServerProofs`,
`LineFramingProofs` and `AofFormatProofs`. Nothing of the plan is left; what
could follow is the product of `InMemDB` and `Store` (section 7).

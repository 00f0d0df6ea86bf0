------------------------------- MODULE Server -------------------------------
(***************************************************************************)
(* The select loop of server_start (server.c) with its clients, the file   *)
(* descriptors of the process, and the worker pool as far as it shares     *)
(* descriptors with the loop: a worker answers on the descriptor number    *)
(* its task carries, and announces EXIT by writing that number to the      *)
(* pipe.  Numbers are reused as soon as they are closed.  The bytes of a   *)
(* command and its effect on the database are left out, and recv returns   *)
(* whole lines.                                                            *)
(***************************************************************************)
EXTENDS Integers, Sequences, FiniteSets

CONSTANTS
    ClientCount,   \* the clients that ever connect
    MaxClients,    \* the number of slots
    WorkerCount,
    MaxLines,      \* bound: the lines each client sends
    Manners        \* how considerate clients are

\* Clients are numbered in the order in which they connect.
Clients == 1..ClientCount
NoClient == 0

\* A "hasty" client pipelines and disconnects when it likes.  A "polite" one
\* waits for each answer, and disconnects once it has all of them.  A
\* "patient" one moreover leaves it to the server to disconnect after BYE.
ASSUME ServerAssumption ==
    /\ ClientCount \in Nat
    /\ MaxClients \in Nat \ {0}
    /\ WorkerCount \in Nat \ {0}
    /\ MaxLines \in [Clients -> Nat]
    /\ Manners \in {"hasty", "polite", "patient"}

ListenFd == 3
NotifyFd == 4
NoFd == -1

\* One number for every slot and one for the client that gets none.
ClientFds == 5..(5 + MaxClients)

VARIABLES
    pc,           \* where the loop is
    i,            \* the slot it looks at
    ready,        \* read_fds after select
    client_fds,   \* slot -> descriptor or NoFd
    owner,        \* descriptor -> the client at its other end, if it is open
    conn,         \* client -> what became of its connection
    backlog,      \* connections waiting for accept
    left,         \* clients that closed their end
    inbox,        \* client -> lines sent and not received
    written,      \* client -> the number of lines it sent
    queue,        \* the task queue
    running,      \* the tasks the workers have
    pipe,         \* the notification pipe: descriptors, with their client
    delivered     \* history: answers, with their addressee and receiver

vars == <<pc, i, ready, client_fds, owner, conn, backlog, left, inbox, written,
          queue, running, pipe, delivered>>

loop == <<pc, i, ready>>
sockets == <<client_fds, owner, conn>>
environment == <<backlog, left, inbox, written>>
pool == <<queue, running, pipe, delivered>>

Slots == 1..MaxClients
Lines == {"command", "EXIT"}
Line == [from : Clients, n : Nat \ {0}, line : Lines]
Task == [fd : ClientFds, text : Line]

Init ==
    /\ pc = "select"
    /\ i = 1
    /\ ready = {}
    /\ client_fds = [s \in Slots |-> NoFd]
    /\ owner = [fd \in ClientFds |-> NoClient]
    /\ conn = [c \in Clients |-> "none"]
    /\ backlog = <<>>
    /\ left = {}
    /\ inbox = [c \in Clients |-> <<>>]
    /\ written = [c \in Clients |-> 0]
    /\ queue = <<>>
    /\ running = {}
    /\ pipe = <<>>
    /\ delivered = {}

-----------------------------------------------------------------------------
(* The loop.                                                               *)

Readable(fd) == owner[fd] # NoClient /\ (inbox[owner[fd]] # <<>> \/ owner[fd] \in left)

ReadableSlots == {client_fds[s] : s \in {x \in Slots : client_fds[x] # NoFd
                                                       /\ Readable(client_fds[x])}}

\* Faulty: the pipe is not watched.
WatchedWithoutPipe == {ListenFd : b \in {1} \cap DOMAIN backlog} \cup ReadableSlots

\* What select reports of the descriptors it was given.
Watched == {ListenFd : b \in {1} \cap DOMAIN backlog}
           \cup {NotifyFd : b \in {1} \cap DOMAIN pipe}
           \cup ReadableSlots

\* Faulty: bits of the previous round survive.
SelectKeepsBits ==
    /\ pc = "select"
    /\ Watched # {}
    /\ ready' = Watched \cup (ready \ {ListenFd, NotifyFd})
    /\ pc' = "notify"
    /\ UNCHANGED <<i, sockets, environment, pool>>

Select ==
    /\ pc = "select"
    /\ Watched # {}
    /\ ready' = Watched
    /\ pc' = "notify"
    /\ UNCHANGED <<i, sockets, environment, pool>>

\* Faulty: the slot still holds the closed descriptor.
CloseKeepsSlot(fd) ==
    IF \E s \in Slots : client_fds[s] = fd
    THEN /\ conn' = [conn EXCEPT ![owner[fd]] = "closed"]
         /\ owner' = [owner EXCEPT ![fd] = NoClient]
         /\ UNCHANGED client_fds
    ELSE UNCHANGED sockets

\* close_client: nothing happens when no slot has this descriptor.
close_client(fd) ==
    IF \E s \in Slots : client_fds[s] = fd
    THEN /\ client_fds' = [s \in Slots |-> IF client_fds[s] = fd THEN NoFd ELSE client_fds[s]]
         /\ conn' = [conn EXCEPT ![owner[fd]] = "closed"]
         /\ owner' = [owner EXCEPT ![fd] = NoClient]
    ELSE UNCHANGED sockets

ReadNotification ==
    /\ pc = "notify"
    /\ IF NotifyFd \in ready
       THEN close_client(Head(pipe).fd) /\ pipe' = Tail(pipe)
       ELSE UNCHANGED <<sockets, pipe>>
    /\ pc' = "accept"
    /\ UNCHANGED <<i, ready, environment, queue, running, delivered>>

\* Faulty: the last slot is never used.
FreeSlotsButLast == {s \in Slots : client_fds[s] = NoFd /\ s < MaxClients}

FreeSlots == {s \in Slots : client_fds[s] = NoFd}

\* accept returns a number that is free; while a worker has data.aof open it
\* need not be the lowest one.
Accept ==
    /\ pc = "accept"
    /\ IF ListenFd \in ready
       THEN /\ backlog' = Tail(backlog)
            /\ IF FreeSlots = {}
               THEN /\ conn' = [conn EXCEPT ![Head(backlog)] = "refused"]
                    /\ UNCHANGED <<client_fds, owner>>
               ELSE \E fd \in ClientFds :
                       LET s == CHOOSE x \in FreeSlots : \A y \in FreeSlots : x <= y
                       IN  /\ owner[fd] = NoClient
                           /\ client_fds' = [client_fds EXCEPT ![s] = fd]
                           /\ owner' = [owner EXCEPT ![fd] = Head(backlog)]
                           /\ conn' = [conn EXCEPT ![Head(backlog)] = "open"]
       ELSE UNCHANGED <<backlog, sockets>>
    /\ pc' = "recv"
    /\ i' = 1
    /\ UNCHANGED <<ready, left, inbox, written, pool>>

\* accept fails, for want of a descriptor for instance: the connection waits.
AcceptFails ==
    /\ pc = "accept"
    /\ ListenFd \in ready
    /\ pc' = "recv"
    /\ i' = 1
    /\ UNCHANGED <<ready, sockets, environment, pool>>

\* Faulty: the loop over the slots has no end.
NextSlotForever == pc' = "recv" /\ i' = i + 1

NextSlot ==
    IF i = MaxClients THEN pc' = "select" /\ i' = 1 ELSE pc' = "recv" /\ i' = i + 1

Skip ==
    /\ pc = "recv"
    /\ client_fds[i] \notin ready
    /\ NextSlot
    /\ UNCHANGED <<ready, sockets, environment, pool>>

\* Faulty: answers go to the client in the first slot.
TaskFdOfFirst == client_fds[1]

TaskFd == client_fds[i]

\* recv returns some of the lines; each becomes a task.
Receive ==
    /\ pc = "recv"
    /\ client_fds[i] \in ready
    /\ LET sender == owner[client_fds[i]]
           lines == inbox[sender]
       IN  \E n \in DOMAIN lines :
              /\ queue' = queue \o [p \in 1..n |-> [fd |-> TaskFd, text |-> lines[p]]]
              /\ inbox' = [inbox EXCEPT ![sender] = SubSeq(lines, n + 1, Len(lines))]
    /\ NextSlot
    /\ UNCHANGED <<ready, sockets, backlog, left, written, running, pipe, delivered>>

\* Faulty: whatever recv returns, the client is disconnected.
HangupAnyway ==
    /\ pc = "recv"
    /\ client_fds[i] \in ready
    /\ close_client(client_fds[i])
    /\ NextSlot
    /\ UNCHANGED <<ready, environment, pool>>

\* recv returns 0 or an error: a reset discards what was not received.
Hangup ==
    /\ pc = "recv"
    /\ client_fds[i] \in ready
    /\ owner[client_fds[i]] \in left
    /\ close_client(client_fds[i])
    /\ NextSlot
    /\ UNCHANGED <<ready, environment, pool>>

-----------------------------------------------------------------------------
(* The workers.                                                            *)

IdleWorker == Cardinality(running) < WorkerCount

Take ==
    /\ queue # <<>>
    /\ IdleWorker
    /\ running' = running \cup
          {[fd |-> Head(queue).fd, text |-> Head(queue).text, stage |-> "execute"]}
    /\ queue' = Tail(queue)
    /\ UNCHANGED <<loop, sockets, environment, pipe, delivered>>

\* EXIT rewrites the file first, which may fail.
AnswersTo(line) == IF line = "EXIT" THEN {"BYE", "ERR"} ELSE {"result"}

\* Faulty: an EXIT that failed is announced like one that did not.
AnswerAndNotify(t) ==
    /\ t \in running
    /\ t.stage = "execute"
    /\ \E answer \in AnswersTo(t.text.line) :
          /\ delivered' = IF owner[t.fd] = NoClient THEN delivered
                ELSE delivered \cup {[text |-> t.text, to |-> owner[t.fd], answer |-> answer]}
          /\ running' = (running \ {t}) \cup
                (IF t.text.line = "EXIT" THEN {[t EXCEPT !.stage = "notify"]} ELSE {})
    /\ UNCHANGED <<loop, sockets, environment, queue, pipe>>

\* send: to whoever is behind the number now, or to nobody.  Only BYE makes
\* the worker go on to the notification pipe.
Answer(t) ==
    /\ t \in running
    /\ t.stage = "execute"
    /\ \E answer \in AnswersTo(t.text.line) :
          /\ delivered' = IF owner[t.fd] = NoClient THEN delivered
                ELSE delivered \cup {[text |-> t.text, to |-> owner[t.fd], answer |-> answer]}
          /\ running' = (running \ {t}) \cup
                (IF answer = "BYE" THEN {[t EXCEPT !.stage = "notify"]} ELSE {})
    /\ UNCHANGED <<loop, sockets, environment, queue, pipe>>

Notify(t) ==
    /\ t \in running
    /\ t.stage = "notify"
    /\ pipe' = Append(pipe, [fd |-> t.fd, from |-> t.text.from])
    /\ running' = running \ {t}
    /\ UNCHANGED <<loop, sockets, environment, queue, delivered>>

-----------------------------------------------------------------------------
(* The clients.                                                            *)

Connect(c) ==
    /\ conn[c] = "none"
    /\ \A b \in 1..(c - 1) : conn[b] # "none"
    /\ conn' = [conn EXCEPT ![c] = "waiting"]
    /\ backlog' = Append(backlog, c)
    /\ UNCHANGED <<loop, client_fds, owner, left, inbox, written, pool>>

AllAnswered(c) ==
    \A n \in 1..written[c] : \E d \in delivered : d.to = c /\ d.text.from = c /\ d.text.n = n

\* An EXIT of c was answered BYE.
ExitGranted(c) == \E d \in delivered : d.text.from = c /\ d.answer = "BYE"

SendLine(c) ==
    /\ conn[c] \in {"waiting", "open"}
    /\ c \notin left
    /\ written[c] < MaxLines[c]
    /\ Manners # "hasty" => AllAnswered(c) /\ ~ExitGranted(c)
    /\ \E line \in Lines :
          inbox' = [inbox EXCEPT ![c] = Append(@, [from |-> c, n |-> written[c] + 1, line |-> line])]
    /\ written' = [written EXCEPT ![c] = @ + 1]
    /\ UNCHANGED <<loop, sockets, backlog, left, pool>>

Leave(c) ==
    /\ conn[c] \in {"waiting", "open"}
    /\ c \notin left
    /\ Manners # "hasty" => AllAnswered(c)
    /\ Manners = "patient" => ~ExitGranted(c)
    /\ left' = left \cup {c}
    /\ UNCHANGED <<loop, sockets, backlog, inbox, written, pool>>

LoopStep ==
    Select \/ ReadNotification \/ Accept \/ AcceptFails \/ Skip \/ Receive \/ Hangup

WorkerStep == Take \/ (\E t \in running : Answer(t) \/ Notify(t))

Next ==
    \/ LoopStep \/ WorkerStep
    \/ \E c \in Clients : Connect(c) \/ SendLine(c) \/ Leave(c)

Spec == Init /\ [][Next]_vars

\* The server thread and the workers run whenever they can, and accept does
\* not fail for ever; clients do what they like.
FairSpec ==
    /\ Spec
    /\ WF_vars(LoopStep) /\ WF_vars(WorkerStep)
    /\ SF_vars(ListenFd \in ready /\ Accept)

-----------------------------------------------------------------------------
(* Correctness.                                                            *)

TypeOK ==
    /\ pc \in {"select", "notify", "accept", "recv"}
    /\ i \in Slots
    /\ ready \subseteq {ListenFd, NotifyFd} \cup ClientFds
    /\ client_fds \in [Slots -> ClientFds \cup {NoFd}]
    /\ owner \in [ClientFds -> Clients \cup {NoClient}]
    /\ conn \in [Clients -> {"none", "waiting", "open", "refused", "closed"}]
    /\ backlog \in Seq(Clients)
    /\ left \subseteq Clients
    /\ inbox \in [Clients -> Seq(Line)]
    /\ \A c \in Clients : written[c] \in 0..MaxLines[c]
    /\ queue \in Seq(Task)
    /\ running \subseteq [fd : ClientFds, text : Line, stage : {"execute", "notify"}]
    /\ pipe \in Seq([fd : ClientFds, from : Clients])
    /\ delivered \subseteq [text : Line, to : Clients, answer : {"BYE", "ERR", "result"}]

\* The slots hold exactly the open connections, each once: no descriptor is
\* leaked, watched after it was closed, or shared by two slots.
SlotsAreTheConnections ==
    /\ \A fd \in ClientFds :
          Cardinality({s \in Slots : client_fds[s] = fd}) = IF owner[fd] = NoClient THEN 0 ELSE 1
    /\ \A c \in Clients :
          Cardinality({fd \in ClientFds : owner[fd] = c}) = IF conn[c] = "open" THEN 1 ELSE 0

\* "ERR server busy" is said only when every slot is taken.
RefusedOnlyWhenFull ==
    [][\A c \in Clients : conn'[c] = "refused" /\ conn[c] # "refused" =>
          Cardinality({x \in Clients : conn[x] = "open"}) = MaxClients]_vars

\* README.md, Architecture: a worker sends the response back to the client.
\* Here: to the client that sent the command, and to no other one.
RepliesReachTheirClient == \A d \in delivered : d.to = d.text.from

\* README.md, Commands: after EXIT the server closes the client's connection
\* and goes on running for other clients.  Here: it closes the connection of
\* a client only if this client has left or its EXIT was answered BYE.
OnlyExitCloses ==
    \A c \in Clients : conn[c] = "closed" => c \in left \/ ExitGranted(c)

\* README.md, Request Flow: select detects data on a client's descriptor, and
\* recv reads it.  Here: recv is called only when it has something to return,
\* and so never blocks the loop.
RecvNeverBlocks ==
    pc = "recv" /\ client_fds[i] \in ready => Readable(client_fds[i])

\* The loop blocks in recv only in a round that also found a notification and
\* a connection waiting, and only on a client that has never sent a line (the
\* one just accepted, on the number the notification freed): no other bit of
\* read_fds is stale when the loop comes to its slot.
\* (server_start: one read_fds for the pipe, accept and all slots)
RecvBlocksOnNewcomerOnly ==
    pc = "recv" /\ client_fds[i] \in ready /\ ~Readable(client_fds[i]) =>
        {NotifyFd, ListenFd} \subseteq ready /\ written[owner[client_fds[i]]] = 0

\* A command is answered, unless its client was refused or has left.
EveryCommandAnswered ==
    \A c \in Clients : \A n \in 1..MaxLines[c] :
        written[c] >= n ~>
            \/ \E d \in delivered : d.to = c /\ d.text.from = c /\ d.text.n = n
            \/ conn[c] = "refused"
            \/ c \in left

\* An EXIT that is answered BYE ends the connection, also when nobody talks to
\* the server any more.
ExitIsClosed ==
    \A c \in Clients : ExitGranted(c) ~> conn[c] = "closed"
=============================================================================

---------------------------- MODULE ServerProofs ----------------------------
(***************************************************************************)
(* Proofs about Server.  Two invariants hold whatever the clients do:      *)
(* IInv, that descriptors, slots and connections agree, and Fresh, how far *)
(* what select reported is still so when the loop comes to it.  The third, *)
(* Serves, holds when clients are patient: every line that waits for its   *)
(* answer is in one place, and the descriptor that goes with it is still   *)
(* its client's.                                                           *)
(***************************************************************************)
EXTENDS Server, SharedLemmas, FiniteSetTheorems, FunctionTheorems

-----------------------------------------------------------------------------
(* The inductive invariant for every kind of client.                       *)

Typed == TypeOK /\ written \in [Clients -> Nat]

\* What select reported of the pipe and of the listening socket is there
\* until the loop acts on it.
Reported ==
    /\ pc = "notify" /\ NotifyFd \in ready => pipe # <<>>
    /\ pc \in {"notify", "accept"} /\ ListenFd \in ready => backlog # <<>>

\* A connection has one slot and one descriptor while it is open, and neither
\* before and after.
Connections ==
    /\ \A s \in Slots : client_fds[s] # NoFd => owner[client_fds[s]] # NoClient
    /\ \A s, t \in Slots : client_fds[s] = client_fds[t] /\ client_fds[s] # NoFd => s = t
    /\ \A fd \in ClientFds : owner[fd] # NoClient =>
          (\E s \in Slots : client_fds[s] = fd) /\ conn[owner[fd]] = "open"
    /\ \A fd, gd \in ClientFds : owner[fd] = owner[gd] /\ owner[fd] # NoClient => fd = gd
    /\ \A c \in Clients : conn[c] = "open" => \E fd \in ClientFds : owner[fd] = c

\* Clients wait for accept once each.
Waiting ==
    /\ \A p \in 1..Len(backlog) : conn[backlog[p]] = "waiting"
    /\ \A p, q \in 1..Len(backlog) : backlog[p] = backlog[q] => p = q

IInv == Typed /\ Reported /\ Connections /\ Waiting

-----------------------------------------------------------------------------
(* What select reported, for every kind of client.                         *)

\* The client at the other end was accepted in this round, after a
\* notification was read, and has sent nothing.
Newcomer(fd) == {NotifyFd, ListenFd} \subseteq ready /\ written[owner[fd]] = 0

Due(fd) == Readable(fd) \/ Newcomer(fd)

\* A descriptor that select reported can be read until the loop has passed its
\* slot, unless the notification closed it; accept may then have given the
\* number away.
Fresh ==
    /\ pc = "notify" => \A fd \in ClientFds : fd \in ready => Readable(fd)
    /\ pc = "accept" => \A fd \in ClientFds : fd \in ready =>
          Readable(fd) \/ (NotifyFd \in ready /\ owner[fd] = NoClient)
    /\ pc = "recv" => \A s \in Slots : s >= i /\ client_fds[s] \in ready => Due(client_fds[s])

\* Nothing is received before accept.
Unread == \A c \in Clients : conn[c] \in {"none", "waiting"} => Len(inbox[c]) = written[c]

-----------------------------------------------------------------------------
(* The inductive invariant for patient clients.                            *)

\* Client c waits for the answer to the last line it sent.
Awaits(c) ==
    /\ c \notin left
    /\ ~ExitGranted(c)
    /\ written[c] # 0
    /\ \A d \in delivered : d.text.from = c => d.text.n # written[c]

\* A line that is received and not answered: the worker that has it, or will
\* have it, is to answer on the descriptor fd.
Asked(fd, text) ==
    /\ owner[fd] = text.from
    /\ text.n = written[text.from]
    /\ Awaits(text.from)
    /\ inbox[text.from] = <<>>

\* EXIT is answered BYE, and its descriptor not closed yet.
Exiting(fd, c) ==
    /\ owner[fd] = c
    /\ c \notin left
    /\ ExitGranted(c)

\* Where lines are.
InboxesPlaced ==
    \A c \in Clients : inbox[c] # <<>> =>
        /\ Len(inbox[c]) = 1
        /\ inbox[c][1].from = c
        /\ inbox[c][1].n = written[c]
        /\ Awaits(c)

QueuePlaced == \A p \in 1..Len(queue) : Asked(queue[p].fd, queue[p].text)

WorkersPlaced ==
    \A t \in running :
        /\ t.stage = "execute" => Asked(t.fd, t.text)
        /\ t.stage = "notify" => Exiting(t.fd, t.text.from)

PipePlaced == \A p \in 1..Len(pipe) : Exiting(pipe[p].fd, pipe[p].from)

Placed == InboxesPlaced /\ QueuePlaced /\ WorkersPlaced /\ PipePlaced

\* No client has two of them.
Single ==
    /\ \A p, q \in 1..Len(queue) : queue[p].text.from = queue[q].text.from => p = q
    /\ \A t, u \in running : t.text.from = u.text.from => t = u
    /\ \A p, q \in 1..Len(pipe) : pipe[p].from = pipe[q].from => p = q
    /\ \A t \in running :
          /\ \A p \in 1..Len(queue) : queue[p].text.from # t.text.from
          /\ \A p \in 1..Len(pipe) : pipe[p].from # t.text.from

\* Answers went to those who had asked.
Answered ==
    \A d \in delivered : d.to = d.text.from /\ d.text.n <= written[d.text.from]

Serves == Placed /\ Single /\ Answered /\ OnlyExitCloses

-----------------------------------------------------------------------------
(* Numbers.                                                                *)

\* Descriptors are told apart from each other and from no descriptor.
LEMMA DescriptorsDiffer ==
  /\ ClientFds \subseteq Nat
  /\ NoFd \notin ClientFds /\ ListenFd \notin ClientFds /\ NotifyFd \notin ClientFds
  /\ ListenFd # NotifyFd /\ NoFd # ListenFd /\ NoFd # NotifyFd
BY ServerAssumption DEF ClientFds, NoFd, ListenFd, NotifyFd

LEMMA ClientsAreNumbers ==
  /\ Clients \subseteq Nat \ {0}
  /\ NoClient \notin Clients
BY ServerAssumption DEF Clients, NoClient

-----------------------------------------------------------------------------
(* The steps.                                                              *)

LEMMA Steps ==
  ASSUME [Next]_vars,
         NEW P,
         Select => P,
         ReadNotification => P,
         Accept => P,
         AcceptFails => P,
         Skip => P,
         Receive => P,
         Hangup => P,
         Take => P,
         \A t \in running : Answer(t) => P,
         \A t \in running : Notify(t) => P,
         \A c \in Clients : Connect(c) => P,
         \A c \in Clients : SendLine(c) => P,
         \A c \in Clients : Leave(c) => P,
         UNCHANGED vars => P
  PROVE  P
BY DEF Next, LoopStep, WorkerStep

\* The parts of Typed.
TypedLoop ==
    /\ pc \in {"select", "notify", "accept", "recv"}
    /\ i \in Slots
    /\ ready \subseteq {ListenFd, NotifyFd} \cup ClientFds

TypedSockets ==
    /\ client_fds \in [Slots -> ClientFds \cup {NoFd}]
    /\ owner \in [ClientFds -> Clients \cup {NoClient}]
    /\ conn \in [Clients -> {"none", "waiting", "open", "refused", "closed"}]

TypedEnvironment ==
    /\ backlog \in Seq(Clients)
    /\ left \subseteq Clients
    /\ inbox \in [Clients -> Seq(Line)]
    /\ written \in [Clients -> Nat]
    /\ \A c \in Clients : written[c] \in 0..MaxLines[c]

RunningTask == [fd : ClientFds, text : Line, stage : {"execute", "notify"}]
Notification == [fd : ClientFds, from : Clients]

TypedPool ==
    /\ queue \in Seq(Task)
    /\ running \subseteq RunningTask
    /\ pipe \in Seq(Notification)
    /\ delivered \subseteq [text : Line, to : Clients, answer : {"BYE", "ERR", "result"}]

LEMMA TypeParts ==
  /\ Typed <=> TypedLoop /\ TypedSockets /\ TypedEnvironment /\ TypedPool
  /\ Typed' <=> TypedLoop' /\ TypedSockets' /\ TypedEnvironment' /\ TypedPool'
BY Zenon DEF Typed, TypeOK, TypedLoop, TypedSockets, TypedEnvironment, TypedPool,
             RunningTask, Notification

\* The slot the loop looks at, when select reported it, is a connection.
LEMMA ReadySlot ==
  ASSUME IInv, client_fds[i] \in ready
  PROVE  /\ client_fds[i] \in ClientFds
         /\ owner[client_fds[i]] \in Clients
<1>1. TypedLoop /\ TypedSockets /\ Connections
  BY TypeParts DEF IInv
<1>2. client_fds[i] \in ClientFds \cup {NoFd}
  BY <1>1 DEF TypedLoop, TypedSockets
<1>3. client_fds[i] \in ClientFds
  BY <1>1, <1>2, DescriptorsDiffer DEF TypedLoop
<1>4. owner[client_fds[i]] # NoClient
  BY <1>1, <1>3, DescriptorsDiffer DEF Connections, TypedLoop
<1> QED
  BY <1>1, <1>3, <1>4 DEF TypedSockets

\* The notification that the loop reads.
LEMMA ReadyPipe ==
  ASSUME IInv, pc = "notify", NotifyFd \in ready
  PROVE  /\ Head(pipe) = pipe[1] /\ 1 \in 1..Len(pipe)
         /\ pipe[1] \in Notification
         /\ Tail(pipe) \in Seq(Notification)
         /\ Len(Tail(pipe)) = Len(pipe) - 1
         /\ \A p \in 1..Len(Tail(pipe)) : p + 1 \in 1..Len(pipe) /\ Tail(pipe)[p] = pipe[p + 1]
<1>1. pipe \in Seq(Notification) /\ pipe # <<>>
  BY TypeParts DEF IInv, TypedPool, Reported
<1>2. Len(pipe) \in Nat \ {0} /\ Head(pipe) = pipe[1]
  BY <1>1, EmptySeq, LenProperties
<1>3. pipe[1] \in Notification
  BY <1>1, <1>2, ElementOfSeq
<1> QED
  BY <1>1, <1>2, <1>3, HeadTailProperties

\* The client that accept returns.
LEMMA ReadyBacklog ==
  ASSUME IInv, pc \in {"notify", "accept"}, ListenFd \in ready
  PROVE  /\ Head(backlog) = backlog[1] /\ 1 \in 1..Len(backlog)
         /\ backlog[1] \in Clients
         /\ Tail(backlog) \in Seq(Clients)
         /\ Len(Tail(backlog)) = Len(backlog) - 1
         /\ \A p \in 1..Len(Tail(backlog)) :
               p + 1 \in 2..Len(backlog) /\ Tail(backlog)[p] = backlog[p + 1]
<1>1. backlog \in Seq(Clients) /\ backlog # <<>>
  BY TypeParts DEF IInv, TypedEnvironment, Reported
<1>2. Len(backlog) \in Nat \ {0} /\ Head(backlog) = backlog[1]
  BY <1>1, EmptySeq, LenProperties
<1>3. backlog[1] \in Clients
  BY <1>1, <1>2, ElementOfSeq
<1> QED
  BY <1>1, <1>2, <1>3, HeadTailProperties

-----------------------------------------------------------------------------
(* What the steps do to the sockets.                                       *)

\* close_client frees the descriptor and its slot, if it is open, and does
\* nothing otherwise.
LEMMA CloseEffect ==
  ASSUME IInv, NEW fd \in ClientFds, close_client(fd)
  PROVE  /\ client_fds' = [s \in Slots |-> IF client_fds[s] = fd THEN NoFd ELSE client_fds[s]]
         /\ owner' = [owner EXCEPT ![fd] = NoClient]
         /\ conn' = IF owner[fd] = NoClient THEN conn ELSE [conn EXCEPT ![owner[fd]] = "closed"]
<1>1. TypedSockets /\ Connections
  BY TypeParts DEF IInv
<1>2. (\E s \in Slots : client_fds[s] = fd) <=> owner[fd] # NoClient
  BY <1>1, DescriptorsDiffer DEF Connections
<1>3. CASE \E s \in Slots : client_fds[s] = fd
  BY <1>2, <1>3 DEF close_client
<1>4. CASE ~\E s \in Slots : client_fds[s] = fd
  <2>1. UNCHANGED sockets /\ owner[fd] = NoClient
    BY <1>2, <1>4 DEF close_client
  <2>2. client_fds = [s \in Slots |-> IF client_fds[s] = fd THEN NoFd ELSE client_fds[s]]
    BY <1>1, <1>4 DEF TypedSockets
  <2>3. owner = [owner EXCEPT ![fd] = NoClient]
    BY <1>1, <2>1 DEF TypedSockets
  <2> QED
    BY <2>1, <2>2, <2>3 DEF sockets
<1> QED
  BY <1>3, <1>4

LEMMA CloseKeeps ==
  ASSUME IInv, NEW fd \in ClientFds, close_client(fd)
  PROVE  TypedSockets' /\ Connections' /\ \A c \in Clients : conn[c] = "waiting" => conn'[c] = "waiting"
<1>1. TypedSockets /\ Connections
  BY TypeParts DEF IInv
<1>2. /\ client_fds' = [s \in Slots |-> IF client_fds[s] = fd THEN NoFd ELSE client_fds[s]]
      /\ owner' = [owner EXCEPT ![fd] = NoClient]
      /\ conn' = IF owner[fd] = NoClient THEN conn ELSE [conn EXCEPT ![owner[fd]] = "closed"]
  BY CloseEffect
<1>3. \A c \in Clients : conn'[c] = IF owner[fd] = c THEN "closed" ELSE conn[c]
  BY <1>1, <1>2, ClientsAreNumbers DEF TypedSockets
<1>4. \A g \in ClientFds : owner'[g] = IF g = fd THEN NoClient ELSE owner[g]
  BY <1>1, <1>2 DEF TypedSockets
<1>5. \A s \in Slots : client_fds'[s] = IF client_fds[s] = fd THEN NoFd ELSE client_fds[s]
  BY <1>2
<1>6. TypedSockets'
  BY <1>1, <1>2, ClientsAreNumbers DEF TypedSockets
<1>7. \A c \in Clients : conn[c] = "waiting" => conn'[c] = "waiting"
  <2>1. \A c \in Clients : owner[fd] = c => conn[c] = "open"
    BY <1>1, ClientsAreNumbers DEF Connections
  <2> QED
    BY <1>3, <2>1
<1>8. Connections'
  <2>1. ASSUME NEW s \in Slots, client_fds'[s] # NoFd
        PROVE  owner'[client_fds'[s]] # NoClient
    <3>1. client_fds'[s] = client_fds[s] /\ client_fds[s] # fd /\ client_fds[s] \in ClientFds
      BY <1>1, <1>5, <2>1 DEF TypedSockets
    <3> QED
      BY <1>1, <1>4, <2>1, <3>1 DEF Connections
  <2>2. ASSUME NEW s \in Slots, NEW t \in Slots,
               client_fds'[s] = client_fds'[t], client_fds'[s] # NoFd
        PROVE  s = t
    BY <1>1, <1>5, <2>2 DEF Connections
  <2>3. ASSUME NEW g \in ClientFds, owner'[g] # NoClient
        PROVE  (\E s \in Slots : client_fds'[s] = g) /\ conn'[owner'[g]] = "open"
    <3>1. g # fd /\ owner'[g] = owner[g] /\ owner[g] \in Clients
      BY <1>1, <1>4, <2>3 DEF TypedSockets
    <3>2. owner[g] # owner[fd]
      BY <1>1, <2>3, <3>1, Zenon DEF Connections
    <3>3. PICK s \in Slots : client_fds[s] = g
      BY <1>1, <2>3, <3>1 DEF Connections
    <3>4. client_fds'[s] = g
      BY <1>5, <3>1, <3>3
    <3>5. conn'[owner[g]] = conn[owner[g]] /\ conn[owner[g]] = "open"
      BY <1>1, <1>3, <2>3, <3>1, <3>2 DEF Connections
    <3> QED
      BY <3>1, <3>4, <3>5
  <2>4. ASSUME NEW g \in ClientFds, NEW h \in ClientFds,
               owner'[g] = owner'[h], owner'[g] # NoClient
        PROVE  g = h
    BY <1>1, <1>4, <2>4 DEF Connections
  <2>5. ASSUME NEW c \in Clients, conn'[c] = "open"
        PROVE  \E g \in ClientFds : owner'[g] = c
    <3>1. owner[fd] # c /\ conn[c] = "open"
      BY <1>3, <2>5
    <3>2. PICK g \in ClientFds : owner[g] = c
      BY <1>1, <3>1 DEF Connections
    <3> QED
      BY <1>4, <3>1, <3>2
  <2> QED
    BY <2>1, <2>2, <2>3, <2>4, <2>5, Zenon DEF Connections
<1> QED
  BY <1>6, <1>7, <1>8

\* accept puts the client into a free slot with a free descriptor, or turns
\* it away.
Taken(s, fd, c) ==
    /\ s \in FreeSlots
    /\ fd \in ClientFds /\ owner[fd] = NoClient
    /\ client_fds' = [client_fds EXCEPT ![s] = fd]
    /\ owner' = [owner EXCEPT ![fd] = c]
    /\ conn' = [conn EXCEPT ![c] = "open"]

Refused(c) ==
    /\ FreeSlots = {}
    /\ conn' = [conn EXCEPT ![c] = "refused"]
    /\ UNCHANGED <<client_fds, owner>>

LEMMA AcceptEffect ==
  ASSUME IInv, Accept, ListenFd \in ready
  PROVE  \/ Refused(backlog[1])
         \/ \E s \in Slots, fd \in ClientFds : Taken(s, fd, backlog[1])
<1>1. Head(backlog) = backlog[1]
  BY ReadyBacklog DEF Accept
<1>2. CASE FreeSlots = {}
  BY <1>1, <1>2 DEF Accept, Refused
<1>3. CASE FreeSlots # {}
  <2>1. FreeSlots \subseteq Nat /\ FreeSlots \subseteq Slots
    BY ServerAssumption DEF FreeSlots, Slots
  <2>2. \E x \in FreeSlots : \A y \in FreeSlots : x <= y
    BY <1>3, <2>1, LeastNumber
  <2> DEFINE s == CHOOSE x \in FreeSlots : \A y \in FreeSlots : x <= y
  <2>3. s \in FreeSlots
    BY <2>2
  <2>4. PICK fd \in ClientFds :
           /\ owner[fd] = NoClient
           /\ client_fds' = [client_fds EXCEPT ![s] = fd]
           /\ owner' = [owner EXCEPT ![fd] = backlog[1]]
           /\ conn' = [conn EXCEPT ![backlog[1]] = "open"]
    BY <1>1, <1>3 DEF Accept
  <2> HIDE DEF s
  <2>5. Taken(s, fd, backlog[1])
    BY <2>3, <2>4 DEF Taken
  <2>6. s \in Slots
    BY <2>1, <2>3
  <2> QED
    BY <2>5, <2>6
<1> QED
  BY <1>2, <1>3

LEMMA WaitingOwnsNothing ==
  ASSUME IInv, NEW c \in Clients, conn[c] # "open"
  PROVE  \A fd \in ClientFds : owner[fd] # c
<1>1. Connections
  BY DEF IInv
<1> QED
  BY <1>1, ClientsAreNumbers DEF Connections

LEMMA RefusedKeeps ==
  ASSUME IInv, NEW c \in Clients, conn[c] = "waiting", Refused(c)
  PROVE  /\ TypedSockets' /\ Connections'
         /\ \A d \in Clients : d # c /\ conn[d] = "waiting" => conn'[d] = "waiting"
<1>1. TypedSockets /\ Connections
  BY TypeParts DEF IInv
<1>2. \A d \in Clients : conn'[d] = IF d = c THEN "refused" ELSE conn[d]
  BY <1>1 DEF TypedSockets, Refused
<1>3. UNCHANGED <<client_fds, owner>>
  BY DEF Refused
<1>4. TypedSockets'
  BY <1>1 DEF TypedSockets, Refused
<1>5. ASSUME NEW fd \in ClientFds, owner[fd] # NoClient
      PROVE  conn'[owner[fd]] = "open"
  <2>1. owner[fd] \in Clients /\ owner[fd] # c /\ conn[owner[fd]] = "open"
    BY <1>1, <1>5, WaitingOwnsNothing DEF TypedSockets, Connections
  <2> QED
    BY <1>2, <2>1
<1>6. Connections'
  BY <1>1, <1>2, <1>3, <1>5 DEF Connections
<1> QED
  BY <1>2, <1>4, <1>6

LEMMA TakenKeeps ==
  ASSUME IInv, NEW c \in Clients, conn[c] = "waiting",
         NEW s \in Slots, NEW fd \in ClientFds, Taken(s, fd, c)
  PROVE  /\ TypedSockets' /\ Connections'
         /\ \A d \in Clients : d # c /\ conn[d] = "waiting" => conn'[d] = "waiting"
<1>1. TypedSockets /\ Connections
  BY TypeParts DEF IInv
<1>2. \A d \in Clients : conn'[d] = IF d = c THEN "open" ELSE conn[d]
  BY <1>1 DEF TypedSockets, Taken
<1>3. \A g \in ClientFds : owner'[g] = IF g = fd THEN c ELSE owner[g]
  BY <1>1 DEF TypedSockets, Taken
<1>4. \A t \in Slots : client_fds'[t] = IF t = s THEN fd ELSE client_fds[t]
  BY <1>1 DEF TypedSockets, Taken
<1>5. /\ owner[fd] = NoClient /\ client_fds[s] = NoFd
      /\ \A t \in Slots : client_fds[t] # fd
      /\ \A g \in ClientFds : owner[g] # c
  BY <1>1, DescriptorsDiffer, WaitingOwnsNothing DEF Taken, FreeSlots, Connections
<1>6. TypedSockets'
  BY <1>1 DEF TypedSockets, Taken
<1>7. c # NoClient /\ fd # NoFd
  BY ClientsAreNumbers, DescriptorsDiffer
<1>8. Connections'
  <2>1. ASSUME NEW t \in Slots, client_fds'[t] # NoFd
        PROVE  owner'[client_fds'[t]] # NoClient
    <3>1. CASE t = s
      BY <1>3, <1>4, <1>7, <3>1
    <3>2. CASE t # s
      <4>1. client_fds'[t] = client_fds[t] /\ client_fds[t] # fd /\ client_fds[t] \in ClientFds
        BY <1>1, <1>4, <1>5, <2>1, <3>2 DEF TypedSockets
      <4> QED
        BY <1>1, <1>3, <2>1, <4>1 DEF Connections
    <3> QED
      BY <3>1, <3>2
  <2>2. ASSUME NEW t \in Slots, NEW u \in Slots,
               client_fds'[t] = client_fds'[u], client_fds'[t] # NoFd
        PROVE  t = u
    BY <1>1, <1>4, <1>5, <2>2 DEF Connections
  <2>3. ASSUME NEW g \in ClientFds, owner'[g] # NoClient
        PROVE  (\E t \in Slots : client_fds'[t] = g) /\ conn'[owner'[g]] = "open"
    <3>1. CASE g = fd
      BY <1>2, <1>3, <1>4, <3>1
    <3>2. CASE g # fd
      <4>1. owner'[g] = owner[g] /\ owner[g] \in Clients /\ owner[g] # c
        BY <1>1, <1>3, <1>5, <2>3, <3>2 DEF TypedSockets
      <4>2. PICK t \in Slots : client_fds[t] = g
        BY <1>1, <2>3, <4>1 DEF Connections
      <4>3. client_fds'[t] = g
        BY <1>4, <1>5, <4>2, DescriptorsDiffer
      <4>4. conn'[owner[g]] = conn[owner[g]] /\ conn[owner[g]] = "open"
        BY <1>1, <1>2, <2>3, <4>1 DEF Connections
      <4> QED
        BY <4>1, <4>3, <4>4
    <3> QED
      BY <3>1, <3>2
  <2>4. ASSUME NEW g \in ClientFds, NEW h \in ClientFds,
               owner'[g] = owner'[h], owner'[g] # NoClient
        PROVE  g = h
    BY <1>1, <1>3, <1>5, <2>4 DEF Connections
  <2>5. ASSUME NEW d \in Clients, conn'[d] = "open"
        PROVE  \E g \in ClientFds : owner'[g] = d
    <3>1. CASE d = c
      BY <1>3, <3>1
    <3>2. CASE d # c
      <4>1. conn[d] = "open"
        BY <1>2, <2>5, <3>2
      <4>2. PICK g \in ClientFds : owner[g] = d
        BY <1>1, <4>1 DEF Connections
      <4>3. g # fd
        BY <1>5, <4>2, ClientsAreNumbers
      <4> QED
        BY <1>3, <4>2, <4>3
    <3> QED
      BY <3>1, <3>2
  <2> QED
    BY <2>1, <2>2, <2>3, <2>4, <2>5, Zenon DEF Connections
<1> QED
  BY <1>2, <1>6, <1>8

\* Whatever the loop does, the sockets stay consistent.
LEMMA SocketsStep ==
  ASSUME IInv, [Next]_vars
  PROVE  TypedSockets' /\ Connections'
<1>1. TypedLoop /\ TypedSockets /\ TypedPool /\ Connections /\ Waiting
  BY TypeParts DEF IInv
<1>2. ASSUME UNCHANGED sockets
      PROVE  TypedSockets' /\ Connections'
  BY <1>1, <1>2 DEF sockets, TypedSockets, Connections
<1>3. Select \/ AcceptFails \/ Skip \/ Receive \/ Take => UNCHANGED sockets
  BY DEF Select, AcceptFails, Skip, Receive, Take
<1>4. ReadNotification => TypedSockets' /\ Connections'
  <2>1. CASE ReadNotification /\ NotifyFd \in ready
    <3>1. pc = "notify" /\ close_client(Head(pipe).fd)
      BY <2>1 DEF ReadNotification
    <3>2. Head(pipe) \in Notification
      BY <2>1, <3>1, ReadyPipe, Zenon
    <3>3. Head(pipe).fd \in ClientFds
      BY <3>2 DEF Notification
    <3> QED
      BY <3>1, <3>3, CloseKeeps
  <2>2. CASE ReadNotification /\ NotifyFd \notin ready
    BY <1>2, <2>2 DEF ReadNotification
  <2> QED
    BY <2>1, <2>2
<1>5. Accept => TypedSockets' /\ Connections'
  <2>1. CASE Accept /\ ListenFd \in ready
    <3>1. backlog[1] \in Clients /\ conn[backlog[1]] = "waiting"
      <4>1. pc = "accept"
        BY <2>1 DEF Accept
      <4> QED
        BY <1>1, <2>1, <4>1, ReadyBacklog DEF Waiting
    <3>2. \/ Refused(backlog[1])
          \/ \E s \in Slots, fd \in ClientFds : Taken(s, fd, backlog[1])
      BY <2>1, AcceptEffect
    <3> QED
      BY <3>1, <3>2, RefusedKeeps, TakenKeeps
  <2>2. CASE Accept /\ ListenFd \notin ready
    BY <1>2, <2>2 DEF Accept
  <2> QED
    BY <2>1, <2>2
<1>6. Hangup => TypedSockets' /\ Connections'
  <2> SUFFICES ASSUME Hangup
               PROVE  TypedSockets' /\ Connections'
    OBVIOUS
  <2>1. client_fds[i] \in ready /\ close_client(client_fds[i])
    BY DEF Hangup
  <2>2. client_fds[i] \in ClientFds
    BY <2>1, ReadySlot
  <2> QED
    BY <2>1, <2>2, CloseKeeps
<1>7. \A t \in running : Answer(t) \/ Notify(t) => UNCHANGED sockets
  BY DEF Answer, Notify
<1>8. \A c \in Clients : Connect(c) => TypedSockets' /\ Connections'
  <2> SUFFICES ASSUME NEW c \in Clients, Connect(c)
               PROVE  TypedSockets' /\ Connections'
    OBVIOUS
  <2>1. /\ conn[c] = "none" /\ UNCHANGED <<client_fds, owner>>
        /\ conn' = [conn EXCEPT ![c] = "waiting"]
    BY DEF Connect
  <2>2. TypedSockets'
    BY <1>1, <2>1 DEF TypedSockets
  <2>3. \A d \in Clients : conn'[d] = IF d = c THEN "waiting" ELSE conn[d]
    BY <1>1, <2>1 DEF TypedSockets
  <2>4. \A d \in Clients : conn'[d] = "open" <=> conn[d] = "open"
    BY <2>1, <2>3
  <2>5. \A fd \in ClientFds : owner[fd] # NoClient => owner[fd] \in Clients
    BY <1>1 DEF TypedSockets
  <2>6. \A fd \in ClientFds : owner[fd] # NoClient => conn'[owner[fd]] = "open"
    BY <1>1, <2>4, <2>5 DEF Connections
  <2>7. Connections'
    BY <1>1, <2>1, <2>4, <2>6 DEF Connections
  <2> QED
    BY <2>2, <2>7
<1>9. \A c \in Clients : SendLine(c) \/ Leave(c) => UNCHANGED sockets
  BY DEF SendLine, Leave
<1>10. UNCHANGED vars => UNCHANGED sockets
  BY DEF vars, sockets
<1> QED
  BY <1>2, <1>3, <1>4, <1>5, <1>6, <1>7, <1>8, <1>9, <1>10, Steps, Zenon

-----------------------------------------------------------------------------
(* The loop's own variables.                                               *)

LEMMA NextSlotType ==
  ASSUME IInv, NextSlot
  PROVE  pc' \in {"select", "recv"} /\ i' \in Slots
<1>1. i \in Slots
  BY TypeParts DEF IInv, TypedLoop
<1> QED
  BY <1>1, ServerAssumption DEF NextSlot, Slots

LEMMA LoopStepType ==
  ASSUME IInv, [Next]_vars
  PROVE  TypedLoop'
<1>1. TypedLoop /\ TypedSockets
  BY TypeParts DEF IInv
<1>2. ASSUME UNCHANGED loop
      PROVE  TypedLoop'
  BY <1>1, <1>2 DEF loop, TypedLoop
<1>3. Select => TypedLoop'
  <2>1. ReadableSlots \subseteq ClientFds
    BY <1>1 DEF TypedSockets, ReadableSlots
  <2>2. Watched \subseteq {ListenFd, NotifyFd} \cup ClientFds
    BY <2>1 DEF Watched
  <2> QED
    BY <1>1, <2>2 DEF Select, TypedLoop
<1>4. ReadNotification => TypedLoop'
  BY <1>1 DEF ReadNotification, TypedLoop
<1>5. Accept \/ AcceptFails => TypedLoop'
  <2>1. 1 \in Slots
    BY ServerAssumption DEF Slots
  <2>2. Accept \/ AcceptFails => pc' = "recv" /\ i' = 1 /\ ready' = ready
    BY Zenon DEF Accept, AcceptFails
  <2> QED
    BY <1>1, <2>1, <2>2 DEF TypedLoop
<1>6. Skip \/ Receive \/ Hangup => TypedLoop'
  <2>1. Skip \/ Receive \/ Hangup => NextSlot /\ ready' = ready
    BY Zenon DEF Skip, Receive, Hangup
  <2> QED
    BY <1>1, <2>1, NextSlotType DEF TypedLoop
<1>7. Take => UNCHANGED loop
  BY DEF Take
<1>8. \A t \in running : Answer(t) \/ Notify(t) => UNCHANGED loop
  BY DEF Answer, Notify
<1>9. \A c \in Clients : Connect(c) \/ SendLine(c) \/ Leave(c) => UNCHANGED loop
  BY DEF Connect, SendLine, Leave
<1>10. UNCHANGED vars => UNCHANGED loop
  BY DEF vars, loop
<1> QED
  BY <1>2, <1>3, <1>4, <1>5, <1>6, <1>7, <1>8, <1>9, <1>10, Steps, Zenon

-----------------------------------------------------------------------------
(* The clients' side.                                                      *)

\* What recv takes: the tasks it adds, and the lines it leaves.
LEMMA ReceiveEffect ==
  ASSUME IInv, Receive
  PROVE  \E n \in 1..Len(inbox[owner[client_fds[i]]]) :
           LET fd == client_fds[i]
               lines == inbox[owner[fd]]
               tasks == [p \in 1..n |-> [fd |-> fd, text |-> lines[p]]]
               rest == SubSeq(lines, n + 1, Len(lines))
           IN  /\ lines \in Seq(Line)
               /\ tasks \in Seq(Task) /\ Len(tasks) = n
               /\ queue' = queue \o tasks
               /\ rest \in Seq(Line) /\ Len(rest) = Len(lines) - n
               /\ inbox' = [inbox EXCEPT ![owner[fd]] = rest]
<1> DEFINE fd == client_fds[i]
           lines == inbox[owner[fd]]
<1>1. client_fds[i] \in ready
  BY DEF Receive
<1>2. fd \in ClientFds /\ owner[fd] \in Clients
  BY <1>1, ReadySlot
<1>3. inbox \in [Clients -> Seq(Line)]
  BY TypeParts DEF IInv, TypedEnvironment
<1>4. lines \in Seq(Line)
  BY <1>2, <1>3
<1>5. PICK n \in DOMAIN lines :
         /\ queue' = queue \o [p \in 1..n |-> [fd |-> fd, text |-> lines[p]]]
         /\ inbox' = [inbox EXCEPT ![owner[fd]] = SubSeq(lines, n + 1, Len(lines))]
  BY Zenon DEF Receive, TaskFd
<1> HIDE DEF fd, lines
<1>6. Len(lines) \in Nat /\ DOMAIN lines = 1..Len(lines)
      /\ \A p \in 1..Len(lines) : lines[p] \in Line
  BY <1>4, LenProperties, ElementOfSeq
<1>7. n \in 1..Len(lines)
  BY <1>6, Zenon
<1> DEFINE tasks == [p \in 1..n |-> [fd |-> fd, text |-> lines[p]]]
           rest == SubSeq(lines, n + 1, Len(lines))
<1>8. tasks \in Seq(Task) /\ Len(tasks) = n
  <2>1. \A p \in 1..n : [fd |-> fd, text |-> lines[p]] \in Task
    <3>1. \A p \in 1..n : lines[p] \in Line
      BY <1>6, <1>7
    <3> QED
      BY <1>2, <3>1 DEF Task, fd
  <2>2. tasks \in [1..n -> Task]
    BY <2>1, Zenon
  <2>3. n \in Nat
    BY <1>6, <1>7
  <2>4. DOMAIN tasks = 1..n
    OBVIOUS
  <2> HIDE DEF tasks
  <2> QED
    BY <2>2, <2>3, <2>4
<1>9. rest \in Seq(Line) /\ Len(rest) = Len(lines) - n
  <2>1. \A p \in (n + 1)..Len(lines) : lines[p] \in Line
    BY <1>6, <1>7
  <2> HIDE DEF tasks
  <2>2. n + 1 \in Int /\ Len(lines) \in Int
    BY <1>6, <1>7
  <2>3. /\ rest \in Seq(Line)
        /\ Len(rest) = IF n + 1 <= Len(lines) THEN Len(lines) - (n + 1) + 1 ELSE 0
    BY <2>1, <2>2, SubSeqProperties
  <2> HIDE DEF rest
  <2> QED
    BY <1>6, <1>7, <2>3
<1> QED
  BY <1>4, <1>5, <1>7, <1>8, <1>9, Zenon DEF fd, lines

\* The line a client sends.
LEMMA SendEffect ==
  ASSUME IInv, NEW c \in Clients, SendLine(c)
  PROVE  \E line \in Lines :
           LET text == [from |-> c, n |-> written[c] + 1, line |-> line]
           IN  /\ text \in Line
               /\ Append(inbox[c], text) \in Seq(Line)
               /\ inbox' = [inbox EXCEPT ![c] = Append(inbox[c], text)]
               /\ written' = [written EXCEPT ![c] = written[c] + 1]
<1>1. inbox \in [Clients -> Seq(Line)] /\ written \in [Clients -> Nat]
  BY TypeParts DEF IInv, TypedEnvironment
<1>2. PICK line \in Lines :
         inbox' = [inbox EXCEPT ![c] = Append(inbox[c], [from |-> c, n |-> written[c] + 1, line |-> line])]
  BY Zenon DEF SendLine
<1>3. written' = [written EXCEPT ![c] = written[c] + 1]
  BY DEF SendLine
<1>4. written[c] + 1 \in Nat \ {0}
  BY <1>1
<1>5. [from |-> c, n |-> written[c] + 1, line |-> line] \in Line
  BY <1>4 DEF Line
<1>6. Append(inbox[c], [from |-> c, n |-> written[c] + 1, line |-> line]) \in Seq(Line)
  BY <1>1, <1>5, AppendProperties
<1> QED
  BY <1>2, <1>3, <1>5, <1>6, Zenon

\* The line comes last, in the sender's inbox.
LEMMA SendReads ==
  ASSUME IInv, NEW c \in Clients, SendLine(c)
  PROVE  /\ written'[c] = written[c] + 1
         /\ \A d \in Clients : d # c => written'[d] = written[d] /\ inbox'[d] = inbox[d]
         /\ Len(inbox'[c]) = Len(inbox[c]) + 1
         /\ inbox'[c][Len(inbox[c]) + 1].from = c
         /\ inbox'[c][Len(inbox[c]) + 1].n = written[c] + 1
<1>1. inbox \in [Clients -> Seq(Line)] /\ written \in [Clients -> Nat]
  BY TypeParts DEF IInv, TypedEnvironment
<1>2. PICK line \in Lines :
         LET text == [from |-> c, n |-> written[c] + 1, line |-> line]
         IN  /\ text \in Line
             /\ inbox' = [inbox EXCEPT ![c] = Append(inbox[c], text)]
             /\ written' = [written EXCEPT ![c] = written[c] + 1]
  BY SendEffect
<1> DEFINE text == [from |-> c, n |-> written[c] + 1, line |-> line]
<1>3. text.from = c /\ text.n = written[c] + 1
  OBVIOUS
<1>4. text \in Line /\ inbox' = [inbox EXCEPT ![c] = Append(inbox[c], text)]
  BY <1>2, Zenon
<1> HIDE DEF text
<1>5. inbox[c] \in Seq(Line)
  BY <1>1
<1>6. inbox'[c] = Append(inbox[c], text)
  BY <1>1, <1>4
<1>7. Len(inbox'[c]) = Len(inbox[c]) + 1 /\ inbox'[c][Len(inbox[c]) + 1] = text
  BY <1>4, <1>5, <1>6, AppendProperties
<1>8. \A d \in Clients : d # c => inbox'[d] = inbox[d]
  BY <1>1, <1>4, Zenon
<1>9. written'[c] = written[c] + 1 /\ \A d \in Clients : d # c => written'[d] = written[d]
  BY <1>1, <1>2
<1> QED
  BY <1>3, <1>7, <1>8, <1>9

LEMMA EnvironmentStep ==
  ASSUME IInv, [Next]_vars
  PROVE  TypedEnvironment'
<1>1. TypedEnvironment
  BY TypeParts DEF IInv
<1>2. ASSUME UNCHANGED environment
      PROVE  TypedEnvironment'
  BY <1>1, <1>2 DEF environment, TypedEnvironment
<1>3. Select \/ ReadNotification \/ AcceptFails \/ Skip \/ Hangup \/ Take => UNCHANGED environment
  BY DEF Select, ReadNotification, AcceptFails, Skip, Hangup, Take
<1>4. Accept => TypedEnvironment'
  <2>1. CASE Accept /\ ListenFd \in ready
    <3>1. pc = "accept" /\ backlog' = Tail(backlog) /\ UNCHANGED <<left, inbox, written>>
      BY <2>1 DEF Accept
    <3>2. Tail(backlog) \in Seq(Clients)
      BY <2>1, <3>1, ReadyBacklog
    <3> QED
      BY <1>1, <3>1, <3>2 DEF TypedEnvironment
  <2>2. CASE Accept /\ ListenFd \notin ready
    BY <1>2, <2>2 DEF Accept, environment
  <2> QED
    BY <2>1, <2>2
<1>5. Receive => TypedEnvironment'
  <2> SUFFICES ASSUME Receive
               PROVE  TypedEnvironment'
    OBVIOUS
  <2>1. \E rest \in Seq(Line) : inbox' = [inbox EXCEPT ![owner[client_fds[i]]] = rest]
    BY ReceiveEffect
  <2>2. inbox' \in [Clients -> Seq(Line)]
    BY <1>1, <2>1 DEF TypedEnvironment
  <2>3. UNCHANGED <<backlog, left, written>>
    BY DEF Receive
  <2> QED
    BY <1>1, <2>2, <2>3 DEF TypedEnvironment
<1>6. \A t \in running : Answer(t) \/ Notify(t) => UNCHANGED environment
  BY DEF Answer, Notify
<1>7. \A c \in Clients : Connect(c) => TypedEnvironment'
  <2> SUFFICES ASSUME NEW c \in Clients, Connect(c)
               PROVE  TypedEnvironment'
    OBVIOUS
  <2>1. backlog' = Append(backlog, c) /\ UNCHANGED <<left, inbox, written>>
    BY DEF Connect
  <2>2. backlog' \in Seq(Clients)
    BY <1>1, <2>1, AppendProperties DEF TypedEnvironment
  <2> QED
    BY <1>1, <2>1, <2>2 DEF TypedEnvironment
<1>8. \A c \in Clients : SendLine(c) => TypedEnvironment'
  <2> SUFFICES ASSUME NEW c \in Clients, SendLine(c)
               PROVE  TypedEnvironment'
    OBVIOUS
  <2>1. \E lines \in Seq(Line) : inbox' = [inbox EXCEPT ![c] = lines]
    BY SendEffect, Zenon
  <2>2. inbox' \in [Clients -> Seq(Line)]
    BY <1>1, <2>1 DEF TypedEnvironment
  <2>3. written[c] \in Nat /\ MaxLines[c] \in Nat /\ written[c] < MaxLines[c]
        /\ written' = [written EXCEPT ![c] = written[c] + 1]
        /\ UNCHANGED <<backlog, left>>
    BY <1>1, ServerAssumption DEF SendLine, TypedEnvironment
  <2>4. written' \in [Clients -> Nat] /\ \A d \in Clients : written'[d] \in 0..MaxLines[d]
    BY <1>1, <2>3 DEF TypedEnvironment
  <2> QED
    BY <1>1, <2>2, <2>3, <2>4 DEF TypedEnvironment
<1>9. \A c \in Clients : Leave(c) => TypedEnvironment'
  BY <1>1 DEF Leave, TypedEnvironment
<1>10. UNCHANGED vars => UNCHANGED environment
  BY DEF vars, environment
<1> QED
  BY <1>2, <1>3, <1>4, <1>5, <1>6, <1>7, <1>8, <1>9, <1>10, Steps, Zenon

-----------------------------------------------------------------------------
(* The tasks.                                                              *)

\* What a worker answers, and whether its task goes on to the pipe.
LEMMA AnswerChoice ==
  ASSUME NEW t \in running, Answer(t)
  PROVE  \E a \in {"BYE", "ERR", "result"} :
            /\ delivered' = IF owner[t.fd] = NoClient THEN delivered
                  ELSE delivered \cup {[text |-> t.text, to |-> owner[t.fd], answer |-> a]}
            /\ running' = (running \ {t}) \cup
                  (IF a = "BYE" THEN {[t EXCEPT !.stage = "notify"]} ELSE {})
<1>1. AnswersTo(t.text.line) \subseteq {"BYE", "ERR", "result"}
  BY DEF AnswersTo
<1> QED
  BY <1>1, Zenon DEF Answer

\* The same task, to be announced.
LEMMA ToNotify ==
  ASSUME NEW t \in RunningTask
  PROVE  /\ [t EXCEPT !.stage = "notify"] \in RunningTask
         /\ [t EXCEPT !.stage = "notify"].fd = t.fd
         /\ [t EXCEPT !.stage = "notify"].text = t.text
         /\ [t EXCEPT !.stage = "notify"].stage = "notify"
BY Zenon DEF RunningTask

\* The task that a worker takes.
LEMMA TakeEffect ==
  ASSUME IInv, Take
  PROVE  /\ 1 \in 1..Len(queue) /\ queue[1] \in Task
         /\ Tail(queue) \in Seq(Task)
         /\ Len(Tail(queue)) = Len(queue) - 1
         /\ \A p \in 1..Len(Tail(queue)) : p + 1 \in 2..Len(queue) /\ Tail(queue)[p] = queue[p + 1]
         /\ queue' = Tail(queue)
         /\ [fd |-> queue[1].fd, text |-> queue[1].text, stage |-> "execute"] \in RunningTask
         /\ running' = running \cup
               {[fd |-> queue[1].fd, text |-> queue[1].text, stage |-> "execute"]}
<1>1. queue \in Seq(Task) /\ queue # <<>>
  BY TypeParts DEF IInv, TypedPool, Take
<1>2. Len(queue) \in Nat \ {0} /\ Head(queue) = queue[1]
  BY <1>1, EmptySeq, LenProperties
<1>3. queue[1] \in Task
  BY <1>1, <1>2, ElementOfSeq
<1>4. [fd |-> queue[1].fd, text |-> queue[1].text, stage |-> "execute"] \in RunningTask
  BY <1>3 DEF Task, RunningTask
<1>5. /\ queue' = Tail(queue)
      /\ running' = running \cup
            {[fd |-> queue[1].fd, text |-> queue[1].text, stage |-> "execute"]}
  BY <1>2, Zenon DEF Take
<1>6. /\ Tail(queue) \in Seq(Task)
      /\ Len(Tail(queue)) = Len(queue) - 1
      /\ \A p \in 1..Len(Tail(queue)) : Tail(queue)[p] = queue[p + 1]
  BY <1>1, HeadTailProperties
<1>7. 1 \in 1..Len(queue) /\ \A p \in 1..Len(Tail(queue)) : p + 1 \in 2..Len(queue)
  BY <1>2, <1>6
<1> QED
  BY <1>3, <1>4, <1>5, <1>6, <1>7

LEMMA NotifyEffect ==
  ASSUME IInv, NEW t \in running, Notify(t)
  PROVE  LET note == [fd |-> t.fd, from |-> t.text.from]
         IN  /\ pipe' = Append(pipe, note)
             /\ pipe' \in Seq(Notification)
             /\ Len(pipe') = Len(pipe) + 1
             /\ \A p \in 1..Len(pipe) : pipe'[p] = pipe[p]
             /\ pipe'[Len(pipe) + 1] = note
             /\ running' = running \ {t}
<1> DEFINE note == [fd |-> t.fd, from |-> t.text.from]
<1>1. pipe \in Seq(Notification) /\ t \in RunningTask
  BY TypeParts DEF IInv, TypedPool
<1>2. note \in Notification
  BY <1>1 DEF RunningTask, Notification, Line
<1>3. pipe' = Append(pipe, note) /\ running' = running \ {t}
  BY Zenon DEF Notify
<1> HIDE DEF note
<1>4. /\ pipe' \in Seq(Notification)
      /\ Len(pipe') = Len(pipe) + 1
      /\ \A p \in 1..Len(pipe) : pipe'[p] = pipe[p]
      /\ pipe'[Len(pipe) + 1] = note
  BY <1>1, <1>2, <1>3, AppendProperties
<1> QED
  BY <1>3, <1>4, Zenon DEF note

LEMMA PoolStep ==
  ASSUME IInv, [Next]_vars
  PROVE  TypedPool'
<1>1. TypedPool /\ TypedSockets
  BY TypeParts DEF IInv
<1>2. ASSUME UNCHANGED pool
      PROVE  TypedPool'
  BY <1>1, <1>2 DEF pool, TypedPool
<1>3. Select \/ Accept \/ AcceptFails \/ Skip \/ Hangup => UNCHANGED pool
  BY Zenon DEF Select, Accept, AcceptFails, Skip, Hangup
<1>4. ReadNotification => TypedPool'
  <2>1. CASE ReadNotification /\ NotifyFd \in ready
    <3>1. pc = "notify" /\ pipe' = Tail(pipe) /\ UNCHANGED <<queue, running, delivered>>
      BY <2>1 DEF ReadNotification
    <3>2. Tail(pipe) \in Seq(Notification)
      BY <2>1, <3>1, ReadyPipe
    <3> QED
      BY <1>1, <3>1, <3>2 DEF TypedPool
  <2>2. CASE ReadNotification /\ NotifyFd \notin ready
    BY <1>2, <2>2 DEF ReadNotification, pool
  <2> QED
    BY <2>1, <2>2
<1>5. Receive => TypedPool'
  <2> SUFFICES ASSUME Receive
               PROVE  TypedPool'
    OBVIOUS
  <2>1. \E tasks \in Seq(Task) : queue' = queue \o tasks
    BY ReceiveEffect
  <2>2. queue' \in Seq(Task)
    BY <1>1, <2>1, ConcatProperties DEF TypedPool
  <2>3. UNCHANGED <<running, pipe, delivered>>
    BY DEF Receive
  <2> QED
    BY <1>1, <2>2, <2>3 DEF TypedPool
<1>6. Take => TypedPool'
  <2> SUFFICES ASSUME Take
               PROVE  TypedPool'
    OBVIOUS
  <2>1. queue' \in Seq(Task) /\ running' \subseteq RunningTask
    BY <1>1, TakeEffect DEF TypedPool
  <2>2. UNCHANGED <<pipe, delivered>>
    BY DEF Take
  <2> QED
    BY <1>1, <2>1, <2>2 DEF TypedPool
<1>7. \A t \in running : Answer(t) => TypedPool'
  <2> SUFFICES ASSUME NEW t \in running, Answer(t)
               PROVE  TypedPool'
    OBVIOUS
  <2>1. t \in RunningTask
    BY <1>1 DEF TypedPool
  <2>2. [t EXCEPT !.stage = "notify"] \in RunningTask
    BY <2>1, ToNotify
  <2>3. running' \subseteq running \cup {[t EXCEPT !.stage = "notify"]}
    BY AnswerChoice, Zenon
  <2>4. running' \subseteq RunningTask
    BY <1>1, <2>2, <2>3, Zenon DEF TypedPool
  <2>5. t.fd \in ClientFds /\ t.text \in Line
    BY <2>1 DEF RunningTask
  <2>6. owner[t.fd] # NoClient => owner[t.fd] \in Clients
    BY <1>1, <2>5 DEF TypedSockets
  <2>7. delivered' \subseteq [text : Line, to : Clients, answer : {"BYE", "ERR", "result"}]
    <3>1. PICK a \in {"BYE", "ERR", "result"} :
             delivered' = IF owner[t.fd] = NoClient THEN delivered
                ELSE delivered \cup {[text |-> t.text, to |-> owner[t.fd], answer |-> a]}
      BY AnswerChoice, Zenon
    <3> QED
      BY <1>1, <2>5, <2>6, <3>1 DEF TypedPool
  <2>8. UNCHANGED <<queue, pipe>>
    BY Zenon DEF Answer
  <2> QED
    BY <1>1, <2>4, <2>7, <2>8, Zenon DEF TypedPool
<1>8. \A t \in running : Notify(t) => TypedPool'
  <2> SUFFICES ASSUME NEW t \in running, Notify(t)
               PROVE  TypedPool'
    OBVIOUS
  <2>1. pipe' \in Seq(Notification) /\ running' \subseteq running
    BY NotifyEffect
  <2>2. UNCHANGED <<queue, delivered>>
    BY DEF Notify
  <2> QED
    BY <1>1, <2>1, <2>2, Zenon DEF TypedPool
<1>9. \A c \in Clients : Connect(c) \/ SendLine(c) \/ Leave(c) => UNCHANGED pool
  BY DEF Connect, SendLine, Leave
<1>10. UNCHANGED vars => UNCHANGED pool
  BY DEF vars, pool
<1> QED
  BY <1>2, <1>3, <1>4, <1>5, <1>6, <1>7, <1>8, <1>9, <1>10, Steps, Zenon

-----------------------------------------------------------------------------
(* What select reported.                                                   *)

LEMMA NotReported ==
  ASSUME pc' \in {"select", "recv"}
  PROVE  Reported'
BY DEF Reported

LEMMA ReportedStep ==
  ASSUME IInv, [Next]_vars
  PROVE  Reported'
<1>1. Reported /\ TypedLoop /\ TypedSockets /\ TypedEnvironment /\ TypedPool
  BY TypeParts DEF IInv
<1>2. ASSUME UNCHANGED <<pc, ready, pipe, backlog>>
      PROVE  Reported'
  BY <1>1, <1>2 DEF Reported
<1>3. Select => Reported'
  <2> SUFFICES ASSUME Select
               PROVE  Reported'
    OBVIOUS
  <2>1. ReadableSlots \subseteq ClientFds
    BY <1>1 DEF TypedSockets, ReadableSlots
  <2>2. NotifyFd \notin ReadableSlots /\ ListenFd \notin ReadableSlots
    BY <2>1, DescriptorsDiffer
  <2>3. NotifyFd \in Watched => 1 \in DOMAIN pipe
    BY <2>2, DescriptorsDiffer DEF Watched
  <2>4. ListenFd \in Watched => 1 \in DOMAIN backlog
    BY <2>2, DescriptorsDiffer DEF Watched
  <2>5. (1 \in DOMAIN pipe => pipe # <<>>) /\ (1 \in DOMAIN backlog => backlog # <<>>)
    OBVIOUS
  <2>6. ready' = Watched /\ pipe' = pipe /\ backlog' = backlog
    BY DEF Select, environment, pool
  <2> QED
    BY <2>3, <2>4, <2>5, <2>6 DEF Reported
<1>4. ReadNotification => Reported'
  <2>1. ReadNotification => /\ pc = "notify" /\ pc' = "accept"
                            /\ UNCHANGED <<ready, backlog>>
    BY DEF ReadNotification, environment
  <2> QED
    BY <1>1, <2>1 DEF Reported
<1>5. Accept \/ AcceptFails => pc' = "recv"
  BY Zenon DEF Accept, AcceptFails
<1>6. Skip \/ Receive \/ Hangup => pc' \in {"select", "recv"}
  BY NextSlotType DEF Skip, Receive, Hangup
<1>7. Take => Reported'
  BY <1>2 DEF Take, loop, environment
<1>8. \A t \in running : Answer(t) => UNCHANGED <<pc, ready, pipe, backlog>>
  BY Zenon DEF Answer, loop, environment
<1>9. \A t \in running : Notify(t) => Reported'
  <2> SUFFICES ASSUME NEW t \in running, Notify(t)
               PROVE  Reported'
    OBVIOUS
  <2>1. UNCHANGED <<pc, ready, backlog>>
    BY DEF Notify, loop, environment
  <2>2. Len(pipe') = Len(pipe) + 1 /\ Len(pipe) \in Nat
    BY <1>1, NotifyEffect, LenProperties DEF TypedPool
  <2>3. pipe' # <<>>
    BY <2>2
  <2> QED
    BY <1>1, <2>1, <2>3 DEF Reported
<1>10. \A c \in Clients : Connect(c) => Reported'
  <2> SUFFICES ASSUME NEW c \in Clients, Connect(c)
               PROVE  Reported'
    OBVIOUS
  <2>1. UNCHANGED <<pc, ready, pipe>> /\ backlog' = Append(backlog, c)
    BY DEF Connect, loop, pool
  <2>2. backlog' # <<>>
    <3>1. backlog \in Seq(Clients)
      BY <1>1 DEF TypedEnvironment
    <3>2. Append(backlog, c) # <<>>
      BY <3>1, AppendProperties
    <3> QED
      BY <2>1, <3>2, Zenon
  <2> QED
    BY <1>1, <2>1, <2>2 DEF Reported
<1>11. \A c \in Clients : SendLine(c) \/ Leave(c) => UNCHANGED <<pc, ready, pipe, backlog>>
  BY DEF SendLine, Leave, loop, pool
<1>12. UNCHANGED vars => UNCHANGED <<pc, ready, pipe, backlog>>
  BY DEF vars
<1> QED
  BY <1>2, <1>3, <1>4, <1>5, <1>6, <1>7, <1>8, <1>9, <1>10, <1>11, <1>12,
     NotReported, Steps, Zenon

-----------------------------------------------------------------------------
(* The connections that wait for accept.                                   *)

LEMMA WaitingStep ==
  ASSUME IInv, [Next]_vars
  PROVE  Waiting'
<1>1. Waiting /\ TypedSockets /\ TypedEnvironment
  BY TypeParts DEF IInv
<1>2. \A p \in 1..Len(backlog) : backlog[p] \in Clients
  BY <1>1, ElementOfSeq DEF TypedEnvironment
<1>3. ASSUME UNCHANGED backlog, \A c \in Clients : conn[c] = "waiting" => conn'[c] = "waiting"
      PROVE  Waiting'
  BY <1>1, <1>2, <1>3 DEF Waiting
<1>4. ASSUME UNCHANGED <<backlog, conn>>
      PROVE  Waiting'
  BY <1>3, <1>4
<1>5. Select \/ AcceptFails \/ Skip \/ Receive \/ Take => UNCHANGED <<backlog, conn>>
  BY DEF Select, AcceptFails, Skip, Receive, Take, sockets, environment
<1>6. ReadNotification => Waiting'
  <2>1. CASE ReadNotification /\ NotifyFd \in ready
    <3>1. pc = "notify" /\ close_client(Head(pipe).fd) /\ UNCHANGED backlog
      BY <2>1 DEF ReadNotification, environment
    <3>2. Head(pipe) \in Notification
      BY <2>1, <3>1, ReadyPipe, Zenon
    <3>3. Head(pipe).fd \in ClientFds
      BY <3>2 DEF Notification
    <3> QED
      BY <1>3, <3>1, <3>3, CloseKeeps
  <2>2. CASE ReadNotification /\ NotifyFd \notin ready
    BY <1>4, <2>2 DEF ReadNotification, sockets, environment
  <2> QED
    BY <2>1, <2>2
<1>7. Accept => Waiting'
  <2>1. CASE Accept /\ ListenFd \in ready
    <3>1. pc = "accept" /\ backlog' = Tail(backlog)
      BY <2>1 DEF Accept
    <3>2. /\ 1 \in 1..Len(backlog) /\ backlog[1] \in Clients
          /\ \A p \in 1..Len(backlog') :
                p + 1 \in 2..Len(backlog) /\ backlog'[p] = backlog[p + 1]
      BY <2>1, <3>1, ReadyBacklog
    <3>3. conn[backlog[1]] = "waiting"
      BY <1>1, <3>2 DEF Waiting
    <3>4. \/ Refused(backlog[1])
          \/ \E s \in Slots, fd \in ClientFds : Taken(s, fd, backlog[1])
      BY <2>1, AcceptEffect
    <3>5. \A d \in Clients : d # backlog[1] /\ conn[d] = "waiting" => conn'[d] = "waiting"
      BY <3>2, <3>3, <3>4, RefusedKeeps, TakenKeeps
    <3>6. \A p \in 1..Len(backlog') : p + 1 \in 1..Len(backlog) /\ p + 1 # 1
      BY <3>2
    <3>7. ASSUME NEW p \in 1..Len(backlog')
          PROVE  conn'[backlog'[p]] = "waiting"
      <4>1. p + 1 \in 1..Len(backlog) /\ p + 1 # 1 /\ backlog'[p] = backlog[p + 1]
        BY <3>2, <3>6
      <4>2. backlog[p + 1] \in Clients /\ backlog[p + 1] # backlog[1]
            /\ conn[backlog[p + 1]] = "waiting"
        BY <1>1, <1>2, <3>2, <4>1 DEF Waiting
      <4> QED
        BY <3>5, <4>1, <4>2
    <3>8. ASSUME NEW p \in 1..Len(backlog'), NEW q \in 1..Len(backlog'),
                 backlog'[p] = backlog'[q]
          PROVE  p = q
      <4>1. /\ p + 1 \in 1..Len(backlog) /\ q + 1 \in 1..Len(backlog)
            /\ backlog[p + 1] = backlog[q + 1]
        BY <3>2, <3>6, <3>8
      <4>2. p + 1 = q + 1
        BY <1>1, <4>1 DEF Waiting
      <4> QED
        BY <4>2
    <3> QED
      BY <3>7, <3>8 DEF Waiting
  <2>2. CASE Accept /\ ListenFd \notin ready
    BY <1>4, <2>2 DEF Accept, sockets
  <2> QED
    BY <2>1, <2>2
<1>8. Hangup => Waiting'
  <2> SUFFICES ASSUME Hangup
               PROVE  Waiting'
    OBVIOUS
  <2>1. client_fds[i] \in ready /\ close_client(client_fds[i]) /\ UNCHANGED backlog
    BY DEF Hangup, environment
  <2>2. client_fds[i] \in ClientFds
    BY <2>1, ReadySlot
  <2> QED
    BY <1>3, <2>1, <2>2, CloseKeeps
<1>9. \A t \in running : Answer(t) \/ Notify(t) => UNCHANGED <<backlog, conn>>
  BY Zenon DEF Answer, Notify, sockets, environment
<1>10. \A c \in Clients : Connect(c) => Waiting'
  <2> SUFFICES ASSUME NEW c \in Clients, Connect(c)
               PROVE  Waiting'
    OBVIOUS
  <2>1. /\ conn[c] = "none" /\ conn' = [conn EXCEPT ![c] = "waiting"]
        /\ backlog' = Append(backlog, c)
    BY DEF Connect
  <2>2. /\ Len(backlog) \in Nat /\ Len(backlog') = Len(backlog) + 1
        /\ \A p \in 1..Len(backlog) : backlog'[p] = backlog[p]
        /\ backlog'[Len(backlog) + 1] = c
    BY <1>1, <2>1, AppendProperties, LenProperties DEF TypedEnvironment
  <2>3. conn'[c] = "waiting" /\ \A d \in Clients : conn[d] = "waiting" => conn'[d] = "waiting"
    BY <1>1, <2>1 DEF TypedSockets
  <2>4. \A p \in 1..Len(backlog) : backlog[p] # c
    BY <1>1, <2>1 DEF Waiting
  <2>5. \A p \in 1..Len(backlog') : p \in 1..Len(backlog) \/ p = Len(backlog) + 1
    BY <2>2
  <2>6. \A p \in 1..Len(backlog') : conn'[backlog'[p]] = "waiting"
    BY <1>1, <1>2, <2>2, <2>3, <2>5 DEF Waiting
  <2>7. \A p, q \in 1..Len(backlog') : backlog'[p] = backlog'[q] => p = q
    BY <1>1, <2>2, <2>4, <2>5 DEF Waiting
  <2> QED
    BY <2>6, <2>7 DEF Waiting
<1>11. \A c \in Clients : SendLine(c) \/ Leave(c) => UNCHANGED <<backlog, conn>>
  BY DEF SendLine, Leave, sockets
<1>12. UNCHANGED vars => UNCHANGED <<backlog, conn>>
  BY DEF vars
<1> QED
  BY <1>4, <1>5, <1>6, <1>7, <1>8, <1>9, <1>10, <1>11, <1>12, Steps, Zenon

-----------------------------------------------------------------------------
(* Whatever the clients do.                                                *)

LEMMA Initially == Init => IInv
<1> SUFFICES ASSUME Init
             PROVE  IInv
  OBVIOUS
<1>1. TypedLoop
  BY ServerAssumption DEF Init, TypedLoop, Slots
<1>2. TypedSockets
  BY DEF Init, TypedSockets
<1>3. TypedEnvironment
  <2>1. backlog \in Seq(Clients) /\ \A c \in Clients : <<>> \in Seq(Line)
    BY EmptySeq DEF Init
  <2>2. inbox \in [Clients -> Seq(Line)] /\ left \subseteq Clients
    BY <2>1 DEF Init
  <2>3. written \in [Clients -> Nat] /\ \A c \in Clients : written[c] \in 0..MaxLines[c]
    BY ServerAssumption DEF Init
  <2> QED
    BY <2>1, <2>2, <2>3 DEF TypedEnvironment
<1>4. TypedPool
  BY EmptySeq DEF Init, TypedPool
<1>5. Reported
  BY DEF Init, Reported
<1>6. Connections
  BY ClientsAreNumbers DEF Init, Connections
<1>7. Waiting
  BY EmptySeq DEF Init, Waiting
<1> QED
  BY <1>1, <1>2, <1>3, <1>4, <1>5, <1>6, <1>7, TypeParts, Zenon DEF IInv

LEMMA Consecution == IInv /\ [Next]_vars => IInv'
BY SocketsStep, LoopStepType, EnvironmentStep, PoolStep, ReportedStep, WaitingStep,
   TypeParts, Zenon DEF IInv

\* Descriptors, slots and connections agree in every state, whatever the
\* clients do.
THEOREM Invariant == Spec => []IInv
BY Initially, Consecution, PTL DEF Spec

\* Every variable has its type: select reports descriptors the loop knows,
\* and tasks carry descriptors in range of the descriptor set.
THEOREM TypeCorrect == Spec => []TypeOK
<1>1. IInv => TypeOK
  BY DEF IInv, Typed
<1> QED
  BY <1>1, Invariant, PTL

LEMMA OneElement ==
  ASSUME NEW S, NEW x \in S, \A y \in S : y = x
  PROVE  Cardinality(S) = 1
<1>1. S = {x}
  OBVIOUS
<1> QED
  BY <1>1, FS_Singleton

\* The slots of server_start hold exactly the open connections, each once, for
\* any number of clients and slots: close_client leaks no descriptor and
\* leaves none in a slot, and accept shares none.
THEOREM SlotsMatchConnections == Spec => []SlotsAreTheConnections
<1>1. ASSUME IInv
      PROVE  SlotsAreTheConnections
  <2>1. Connections
    BY <1>1 DEF IInv
  <2>2. ASSUME NEW fd \in ClientFds
        PROVE  Cardinality({s \in Slots : client_fds[s] = fd})
                  = IF owner[fd] = NoClient THEN 0 ELSE 1
    <3> DEFINE S == {s \in Slots : client_fds[s] = fd}
    <3>1. CASE owner[fd] = NoClient
      <4>1. S = {}
        BY <2>1, <3>1, DescriptorsDiffer DEF Connections
      <4> QED
        BY <3>1, <4>1, FS_EmptySet
    <3>2. CASE owner[fd] # NoClient
      <4>1. PICK s \in S : TRUE
        BY <2>1, <3>2 DEF Connections
      <4>2. \A t \in S : t = s
        BY <2>1, DescriptorsDiffer DEF Connections
      <4> QED
        BY <3>2, <4>2, OneElement
    <3> QED
      BY <3>1, <3>2
  <2>3. ASSUME NEW c \in Clients
        PROVE  Cardinality({fd \in ClientFds : owner[fd] = c})
                  = IF conn[c] = "open" THEN 1 ELSE 0
    <3> DEFINE S == {fd \in ClientFds : owner[fd] = c}
    <3>1. CASE conn[c] = "open"
      <4>1. PICK fd \in S : TRUE
        BY <2>1, <3>1 DEF Connections
      <4>2. \A g \in S : g = fd
        BY <2>1, ClientsAreNumbers DEF Connections
      <4> QED
        BY <3>1, <4>2, OneElement
    <3>2. CASE conn[c] # "open"
      <4>1. S = {}
        BY <1>1, <3>2, WaitingOwnsNothing
      <4> QED
        BY <3>2, <4>1, FS_EmptySet
    <3> QED
      BY <3>1, <3>2
  <2> QED
    BY <2>2, <2>3 DEF SlotsAreTheConnections
<1> QED
  BY <1>1, Invariant, PTL

\* With every slot taken there are as many open connections as slots.
LEMMA FullMeansMaxClients ==
  ASSUME IInv, FreeSlots = {}
  PROVE  Cardinality({x \in Clients : conn[x] = "open"}) = MaxClients
<1> DEFINE Open == {x \in Clients : conn[x] = "open"}
           F == [s \in Slots |-> owner[client_fds[s]]]
<1>1. Connections /\ TypedSockets
  BY TypeParts DEF IInv
<1>2. \A s \in Slots : client_fds[s] \in ClientFds /\ client_fds[s] # NoFd
  BY <1>1 DEF FreeSlots, TypedSockets
<1>3. \A s \in Slots : owner[client_fds[s]] \in Clients /\ conn[owner[client_fds[s]]] = "open"
  <2>1. \A s \in Slots : owner[client_fds[s]] # NoClient
    BY <1>1, <1>2 DEF Connections
  <2> QED
    BY <1>1, <1>2, <2>1 DEF Connections, TypedSockets
<1>4. F \in [Slots -> Open]
  BY <1>3
<1>5. \A s, t \in Slots : F[s] = F[t] => s = t
  <2>1. SUFFICES ASSUME NEW s \in Slots, NEW t \in Slots, F[s] = F[t]
                 PROVE  s = t
    BY Zenon
  <2>2. owner[client_fds[s]] = owner[client_fds[t]]
    BY <2>1
  <2>3. client_fds[s] = client_fds[t]
    BY <1>2, <1>3, <2>2, ClientsAreNumbers DEF Connections, IInv
  <2> QED
    BY <1>1, <1>2, <2>3 DEF Connections
<1>6. \A c \in Open : \E s \in Slots : F[s] = c
  <2>1. SUFFICES ASSUME NEW c \in Open
                 PROVE  \E s \in Slots : F[s] = c
    OBVIOUS
  <2>2. PICK fd \in ClientFds : owner[fd] = c
    BY <1>1 DEF Connections
  <2>3. owner[fd] # NoClient
    BY <2>2, ClientsAreNumbers
  <2>4. PICK s \in Slots : client_fds[s] = fd
    BY <1>1, <2>3 DEF Connections
  <2> QED
    BY <2>2, <2>4
<1> HIDE DEF F, Open
<1>7. F \in Bijection(Slots, Open)
  BY <1>4, <1>5, <1>6, Fun_IsBij
<1>8. ExistsBijection(Slots, Open)
  BY <1>7 DEF ExistsBijection
<1>9. IsFiniteSet(Slots) /\ Cardinality(Slots) = MaxClients
  <2>1. MaxClients \in Int /\ 1 \in Int /\ ~(1 > MaxClients) /\ MaxClients - 1 + 1 = MaxClients
    BY ServerAssumption
  <2> QED
    BY <2>1, FS_Interval DEF Slots
<1>10. Cardinality(Open) = MaxClients
  BY <1>8, <1>9, FS_Bijection
<1> QED
  BY <1>10 DEF Open

\* A client that is refused was refused by accept.
LEMMA RefusedByAccept ==
  ASSUME IInv, [Next]_vars, NEW c \in Clients, conn'[c] = "refused", conn[c] # "refused"
  PROVE  FreeSlots = {}
<1>1. TypedSockets
  BY TypeParts DEF IInv
<1>2. UNCHANGED conn => FreeSlots = {}
  OBVIOUS
<1>3. ASSUME NEW fd \in ClientFds, close_client(fd)
      PROVE  FreeSlots = {}
  <2>1. conn' = IF owner[fd] = NoClient THEN conn ELSE [conn EXCEPT ![owner[fd]] = "closed"]
    BY <1>3, CloseEffect
  <2>2. conn'[c] = conn[c] \/ conn'[c] = "closed"
    BY <1>1, <2>1 DEF TypedSockets
  <2> QED
    BY <2>2
<1>4. Select \/ AcceptFails \/ Skip \/ Receive \/ Take => UNCHANGED conn
  BY DEF Select, AcceptFails, Skip, Receive, Take, sockets
<1>5. ReadNotification => FreeSlots = {}
  <2>1. CASE ReadNotification /\ NotifyFd \in ready
    <3>1. pc = "notify" /\ close_client(Head(pipe).fd)
      BY <2>1 DEF ReadNotification
    <3>2. Head(pipe) \in Notification
      BY <2>1, <3>1, ReadyPipe, Zenon
    <3>3. Head(pipe).fd \in ClientFds
      BY <3>2 DEF Notification
    <3> QED
      BY <1>3, <3>1, <3>3
  <2>2. CASE ReadNotification /\ NotifyFd \notin ready
    BY <1>2, <2>2 DEF ReadNotification, sockets
  <2> QED
    BY <2>1, <2>2
<1>6. Accept => FreeSlots = {}
  <2>1. CASE Accept /\ ListenFd \in ready
    <3>1. \/ Refused(backlog[1])
          \/ \E s \in Slots, fd \in ClientFds : Taken(s, fd, backlog[1])
      BY <2>1, AcceptEffect
    <3>2. ASSUME NEW s \in Slots, NEW fd \in ClientFds, Taken(s, fd, backlog[1])
          PROVE  FALSE
      <4>1. conn'[c] = conn[c] \/ conn'[c] = "open"
        BY <1>1, <3>2 DEF Taken, TypedSockets
      <4> QED
        BY <4>1
    <3> QED
      BY <3>1, <3>2 DEF Refused
  <2>2. CASE Accept /\ ListenFd \notin ready
    BY <1>2, <2>2 DEF Accept, sockets
  <2> QED
    BY <2>1, <2>2
<1>7. Hangup => FreeSlots = {}
  BY <1>3, ReadySlot DEF Hangup
<1>8. \A t \in running : Answer(t) \/ Notify(t) => UNCHANGED conn
  BY Zenon DEF Answer, Notify, sockets
<1>9. \A d \in Clients : Connect(d) => FreeSlots = {}
  <2> SUFFICES ASSUME NEW d \in Clients, Connect(d)
               PROVE  FreeSlots = {}
    OBVIOUS
  <2>1. conn'[c] = conn[c] \/ conn'[c] = "waiting"
    BY <1>1 DEF TypedSockets, Connect
  <2> QED
    BY <2>1
<1>10. \A d \in Clients : SendLine(d) \/ Leave(d) => UNCHANGED conn
  BY DEF SendLine, Leave, sockets
<1>11. UNCHANGED vars => UNCHANGED conn
  BY DEF vars
<1> QED
  BY <1>2, <1>4, <1>5, <1>6, <1>7, <1>8, <1>9, <1>10, <1>11, Steps, Zenon

\* "ERR server busy": accept turns a client away only when MaxClients
\* connections are open, for any number of clients and slots.
THEOREM RefusalMeansFull == Spec => RefusedOnlyWhenFull
<1>1. IInv /\ [Next]_vars =>
        [\A c \in Clients : conn'[c] = "refused" /\ conn[c] # "refused" =>
            Cardinality({x \in Clients : conn[x] = "open"}) = MaxClients]_vars
  BY RefusedByAccept, FullMeansMaxClients, Zenon
<1> QED
  BY <1>1, Invariant, PTL DEF Spec, RefusedOnlyWhenFull

-----------------------------------------------------------------------------
(* What select reported, when the loop comes to it.                        *)

LEMMA ReadyIsSlot ==
  ASSUME IInv, NEW s \in Slots, client_fds[s] \in ready
  PROVE  client_fds[s] \in ClientFds
<1>1. client_fds[s] \in ClientFds \cup {NoFd} /\ ready \subseteq {ListenFd, NotifyFd} \cup ClientFds
  BY TypeParts DEF IInv, TypedSockets, TypedLoop
<1> QED
  BY <1>1, DescriptorsDiffer

\* A descriptor stays due while its connection, the report and what is to be
\* read on it stay.
LEMMA DueKept ==
  ASSUME NEW fd, Due(fd), owner'[fd] = owner[fd], ready' = ready,
         inbox[owner[fd]] # <<>> => inbox'[owner[fd]] # <<>>,
         owner[fd] \in left => owner[fd] \in left',
         written[owner[fd]] = 0 => written'[owner[fd]] = 0 \/ Readable(fd)'
  PROVE  Due(fd)'
<1>1. CASE Readable(fd)
  <2>1. Readable(fd)'
    BY <1>1 DEF Readable
  <2> QED
    BY <2>1 DEF Due
<1>2. CASE Newcomer(fd)
  <2>1. {NotifyFd, ListenFd} \subseteq ready' /\ (written'[owner[fd]] = 0 \/ Readable(fd)')
    BY <1>2 DEF Newcomer
  <2> QED
    BY <2>1, Zenon DEF Due, Newcomer
<1> QED
  BY <1>1, <1>2 DEF Due

\* Clients and workers make no descriptor less readable.
LEMMA FreshIfReadableStays ==
  ASSUME IInv, Fresh, UNCHANGED <<pc, i, ready, client_fds, owner>>,
         \A fd \in ClientFds : Readable(fd) => Readable(fd)',
         \A s \in Slots : client_fds[s] \in ready /\ Newcomer(client_fds[s])
             => Due(client_fds[s])'
  PROVE  Fresh'
<1>1. ASSUME pc' = "notify", NEW fd \in ClientFds, fd \in ready'
      PROVE  Readable(fd)'
  BY <1>1 DEF Fresh
<1>2. ASSUME pc' = "accept", NEW fd \in ClientFds, fd \in ready'
      PROVE  Readable(fd)' \/ (NotifyFd \in ready' /\ owner'[fd] = NoClient)
  BY <1>2 DEF Fresh
<1>3. ASSUME pc' = "recv", NEW s \in Slots, s >= i', client_fds'[s] \in ready'
      PROVE  Due(client_fds[s])'
  <2>1. client_fds[s] \in ready /\ s >= i /\ pc = "recv"
    BY <1>3
  <2>2. PICK fd \in ClientFds : fd = client_fds[s]
    BY <2>1, ReadyIsSlot
  <2>3. Due(client_fds[s])
    BY <2>1 DEF Fresh
  <2>4. CASE Readable(client_fds[s])
    <3>1. Readable(fd)
      BY <2>2, <2>4, Zenon
    <3>2. Readable(fd)' /\ client_fds'[s] = fd
      BY <2>2, <3>1
    <3> QED
      BY <3>2, Zenon DEF Due, Readable
  <2>5. CASE Newcomer(client_fds[s])
    BY <2>1, <2>5
  <2> QED
    BY <2>3, <2>4, <2>5 DEF Due
<1> QED
  BY <1>1, <1>2, <1>3, Zenon DEF Fresh

\* When the loop goes on to the next slot, the descriptors in the slots that
\* remain have to stay due.
LEMMA FreshAtNextSlot ==
  ASSUME IInv, Fresh, pc = "recv", NextSlot, ready' = ready,
         \A s \in Slots : s # i /\ client_fds'[s] \in ready =>
             /\ client_fds'[s] = client_fds[s]
             /\ Due(client_fds[s]) => Due(client_fds[s])'
  PROVE  Fresh'
<1>1. CASE pc' = "select"
  BY <1>1 DEF Fresh
<1>2. CASE pc' = "recv" /\ i' = i + 1
  <2>1. ASSUME NEW s \in Slots, s >= i', client_fds'[s] \in ready'
        PROVE  Due(client_fds[s])'
    <3>1. s >= i /\ s # i
      BY <1>2, <2>1, TypeParts DEF IInv, TypedLoop, Slots
    <3>2. client_fds'[s] = client_fds[s] /\ (Due(client_fds[s]) => Due(client_fds[s])')
      BY <2>1, <3>1
    <3>3. Due(client_fds[s])
      BY <2>1, <3>1, <3>2 DEF Fresh
    <3> QED
      BY <3>2, <3>3
  <2> QED
    BY <1>2, <2>1, Zenon DEF Fresh
<1> QED
  BY <1>1, <1>2 DEF NextSlot

LEMMA FreshSelect ==
  ASSUME IInv, Select
  PROVE  Fresh'
<1>1. pc' = "notify" /\ ready' = Watched /\ UNCHANGED <<owner, inbox, left>>
  BY DEF Select, sockets, environment
<1>2. ASSUME NEW fd \in ClientFds, fd \in Watched
      PROVE  Readable(fd)'
  <2>1. fd \in ReadableSlots
    BY <1>2, DescriptorsDiffer DEF Watched
  <2>2. PICK s \in Slots : fd = client_fds[s] /\ Readable(client_fds[s])
    BY <2>1, Zenon DEF ReadableSlots
  <2>3. Readable(fd)
    BY <2>2, Zenon DEF Readable
  <2> QED
    BY <1>1, <2>3 DEF Readable
<1> QED
  BY <1>1, <1>2 DEF Fresh

\* A notification is the only thing that closes a reported descriptor before
\* its slot is reached.
LEMMA FreshRead ==
  ASSUME IInv, Fresh, ReadNotification
  PROVE  Fresh'
<1>1. pc = "notify" /\ pc' = "accept" /\ UNCHANGED <<ready, inbox, left>>
  BY DEF ReadNotification, environment
<1>2. owner \in [ClientFds -> Clients \cup {NoClient}]
  BY TypeParts DEF IInv, TypedSockets
<1>3. ASSUME NEW fd \in ClientFds, fd \in ready
      PROVE  Readable(fd)' \/ (NotifyFd \in ready' /\ owner'[fd] = NoClient)
  <2>1. Readable(fd)
    BY <1>1, <1>3 DEF Fresh
  <2>2. owner'[fd] = owner[fd] => Readable(fd)'
    BY <1>1, <2>1 DEF Readable
  <2>3. CASE NotifyFd \in ready
    <3>1. close_client(pipe[1].fd) /\ pipe[1] \in Notification
      BY <1>1, <2>3, ReadyPipe DEF ReadNotification
    <3>2. pipe[1].fd \in ClientFds
      BY <3>1 DEF Notification
    <3>3. owner' = [owner EXCEPT ![pipe[1].fd] = NoClient]
      BY <3>1, <3>2, CloseEffect
    <3>4. owner'[fd] = owner[fd] \/ owner'[fd] = NoClient
      BY <1>2, <3>3, Zenon
    <3> QED
      BY <1>1, <2>2, <2>3, <3>4
  <2>4. CASE NotifyFd \notin ready
    BY <2>2, <2>4 DEF ReadNotification, sockets
  <2> QED
    BY <2>3, <2>4
<1> QED
  BY <1>1, <1>3, Zenon DEF Fresh

\* A slot that was taken before accept can be read if select reported it.
LEMMA OldSlotDue ==
  ASSUME IInv, Fresh, pc = "accept", NEW s \in Slots, client_fds[s] \in ready
  PROVE  Readable(client_fds[s])
<1>1. PICK fd \in ClientFds : fd = client_fds[s]
  BY ReadyIsSlot
<1>2. owner[fd] # NoClient
  <2>1. Connections
    BY DEF IInv
  <2> QED
    BY <1>1, <2>1, DescriptorsDiffer DEF Connections
<1>3. Readable(fd)
  BY <1>1, <1>2 DEF Fresh
<1> QED
  BY <1>1, <1>3, Zenon

\* The slot that accept fills is due, even if its descriptor was reported for
\* the connection that had it before.
LEMMA TakenDue ==
  ASSUME IInv, Fresh, Unread, pc = "accept", ListenFd \in ready,
         NEW s \in Slots, NEW fd \in ClientFds, Taken(s, fd, backlog[1]), fd \in ready,
         UNCHANGED <<ready, inbox, left, written>>
  PROVE  Due(fd)'
<1>1. backlog[1] \in Clients /\ conn[backlog[1]] = "waiting"
  BY ReadyBacklog DEF IInv, Waiting
<1>2. owner[fd] = NoClient
  BY DEF Taken
<1>3. NotifyFd \in ready
  <2>1. ~Readable(fd)
    BY <1>2 DEF Readable
  <2> QED
    BY <2>1 DEF Fresh
<1>4. owner'[fd] = backlog[1]
  <2>1. owner \in [ClientFds -> Clients \cup {NoClient}]
    BY TypeParts DEF IInv, TypedSockets
  <2> QED
    BY <2>1 DEF Taken
<1>5. Len(inbox[backlog[1]]) = written[backlog[1]]
  BY <1>1 DEF Unread
<1>6. inbox[backlog[1]] = <<>> => written[backlog[1]] = 0
  BY <1>5, EmptySeq
<1>7. CASE inbox[backlog[1]] = <<>>
  <2>1. Newcomer(fd)'
    BY <1>3, <1>4, <1>6, <1>7 DEF Newcomer
  <2> QED
    BY <2>1 DEF Due
<1>8. CASE inbox[backlog[1]] # <<>>
  <2>1. Readable(fd)'
    BY <1>1, <1>4, <1>8, ClientsAreNumbers DEF Readable
  <2> QED
    BY <2>1 DEF Due
<1> QED
  BY <1>7, <1>8

LEMMA FreshAccept ==
  ASSUME IInv, Fresh, Unread, Accept \/ AcceptFails
  PROVE  Fresh'
<1>1. pc = "accept" /\ pc' = "recv" /\ UNCHANGED <<ready, inbox, left, written>>
  BY Zenon DEF Accept, AcceptFails, environment
<1>2. \/ UNCHANGED <<client_fds, owner>>
      \/ ListenFd \in ready /\ \E s \in Slots, fd \in ClientFds : Taken(s, fd, backlog[1])
  <2>1. CASE Accept /\ ListenFd \in ready
    BY <2>1, AcceptEffect DEF Refused
  <2>2. CASE Accept /\ ListenFd \notin ready
    BY <2>2 DEF Accept, sockets
  <2>3. CASE AcceptFails
    BY <2>3 DEF AcceptFails, sockets
  <2> QED
    BY <2>1, <2>2, <2>3
<1>3. client_fds \in [Slots -> ClientFds \cup {NoFd}] /\ owner \in [ClientFds -> Clients \cup {NoClient}]
  BY TypeParts DEF IInv, TypedSockets
<1>4. ASSUME NEW s \in Slots, client_fds'[s] \in ready
      PROVE  Due(client_fds[s])'
  <2>1. ASSUME client_fds'[s] = client_fds[s], owner'[client_fds[s]] = owner[client_fds[s]]
        PROVE  Due(client_fds[s])'
    <3>1. Readable(client_fds[s])
      BY <1>1, <1>4, <2>1, OldSlotDue
    <3>2. PICK fd : fd = client_fds[s]
      OBVIOUS
    <3>3. Due(fd)'
      BY <1>1, <2>1, <3>1, <3>2, DueKept, Zenon DEF Due
    <3> QED
      BY <2>1, <3>2, <3>3, Zenon DEF Due, Readable, Newcomer
  <2>2. CASE UNCHANGED <<client_fds, owner>>
    BY <2>1, <2>2
  <2>3. CASE ListenFd \in ready /\ \E t \in Slots, fd \in ClientFds : Taken(t, fd, backlog[1])
    <3>1. PICK t \in Slots, fd \in ClientFds : Taken(t, fd, backlog[1])
      BY <2>3
    <3>2. client_fds'[s] = IF s = t THEN fd ELSE client_fds[s]
      BY <1>3, <3>1 DEF Taken
    <3>3. CASE s = t
      <4>1. client_fds'[s] = fd
        BY <3>2, <3>3
      <4>2. Due(fd)'
        BY <1>1, <1>4, <2>3, <3>1, <4>1, TakenDue
      <4> QED
        BY <4>1, <4>2, Zenon DEF Due, Readable, Newcomer
    <3>4. CASE s # t
      <4>1. client_fds'[s] = client_fds[s] /\ client_fds[s] \in ready
        BY <1>4, <3>2, <3>4
      <4>2. client_fds[s] # fd
        BY <1>1, <3>1, <4>1, OldSlotDue DEF Taken, Readable
      <4>3. owner'[client_fds[s]] = owner[client_fds[s]]
        BY <1>3, <3>1, <4>1, <4>2, ReadyIsSlot DEF Taken
      <4> QED
        BY <2>1, <4>1, <4>3
    <3> QED
      BY <3>3, <3>4
  <2> QED
    BY <1>2, <2>2, <2>3
<1> QED
  BY <1>1, <1>4 DEF Fresh

\* recv takes lines of one client.
LEMMA ReceivesFromOne ==
  ASSUME IInv, Receive
  PROVE  /\ client_fds[i] \in ClientFds
         /\ owner[client_fds[i]] \in Clients
         /\ \A c \in Clients : c # owner[client_fds[i]] => inbox'[c] = inbox[c]
<1>1. client_fds[i] \in ClientFds /\ owner[client_fds[i]] \in Clients
  BY ReadySlot DEF Receive
<1> DEFINE e == owner[client_fds[i]]
<1>2. \E rest : inbox' = [inbox EXCEPT ![e] = rest]
  BY Zenon DEF Receive
<1>3. inbox \in [Clients -> Seq(Line)]
  BY TypeParts DEF IInv, TypedEnvironment
<1>4. \A c \in Clients : c # e => inbox'[c] = inbox[c]
  BY <1>2, <1>3, Zenon
<1> QED
  BY <1>1, <1>4

LEMMA FreshReceive ==
  ASSUME IInv, Fresh, Receive
  PROVE  Fresh'
<1> DEFINE e == owner[client_fds[i]]
<1>1. /\ pc = "recv" /\ NextSlot /\ client_fds[i] \in ready
      /\ UNCHANGED <<ready, client_fds, owner, left, written>>
  BY DEF Receive, sockets
<1>2. /\ client_fds[i] \in ClientFds
      /\ \A c \in Clients : c # e => inbox'[c] = inbox[c]
  BY ReceivesFromOne
<1>3. Connections /\ TypedSockets /\ TypedLoop
  BY TypeParts DEF IInv
<1>4. ASSUME NEW s \in Slots, s # i, client_fds'[s] \in ready
      PROVE  Due(client_fds[s]) => Due(client_fds[s])'
  <2>1. PICK fd \in ClientFds : fd = client_fds[s]
    BY <1>1, <1>4, ReadyIsSlot
  <2>2. fd # client_fds[i] /\ fd # NoFd /\ i \in Slots
    BY <1>3, <1>4, <2>1, DescriptorsDiffer DEF Connections, TypedLoop
  <2>3. owner[fd] # NoClient
    BY <1>3, <2>1, <2>2 DEF Connections
  <2>4. owner[fd] # e /\ owner[fd] \in Clients
    BY <1>2, <1>3, <2>1, <2>2, <2>3 DEF Connections, TypedSockets
  <2>5. inbox'[owner[fd]] = inbox[owner[fd]]
    BY <1>2, <2>4
  <2>6. Due(fd) => Due(fd)'
    BY <1>1, <2>5, DueKept
  <2>7. client_fds'[s] = fd
    BY <1>1, <2>1
  <2> QED
    BY <2>1, <2>6, <2>7, Zenon DEF Due, Readable, Newcomer
<1> QED
  BY <1>1, <1>4, FreshAtNextSlot

LEMMA FreshHangup ==
  ASSUME IInv, Fresh, Hangup
  PROVE  Fresh'
<1>1. /\ pc = "recv" /\ NextSlot /\ client_fds[i] \in ready /\ close_client(client_fds[i])
      /\ UNCHANGED <<ready, inbox, left, written>>
  BY DEF Hangup, environment
<1>2. client_fds[i] \in ClientFds
  BY <1>1, ReadySlot
<1>3. /\ client_fds' = [s \in Slots |-> IF client_fds[s] = client_fds[i] THEN NoFd ELSE client_fds[s]]
      /\ owner' = [owner EXCEPT ![client_fds[i]] = NoClient]
  BY <1>1, <1>2, CloseEffect
<1>4. Connections /\ TypedSockets /\ TypedLoop
  BY TypeParts DEF IInv
<1>5. ASSUME NEW s \in Slots, s # i, client_fds'[s] \in ready
      PROVE  /\ client_fds'[s] = client_fds[s]
             /\ Due(client_fds[s]) => Due(client_fds[s])'
  <2>1. NoFd \notin ready
    BY <1>4, DescriptorsDiffer DEF TypedLoop
  <2>2. client_fds'[s] = client_fds[s] /\ client_fds[s] # client_fds[i]
    BY <1>3, <1>5, <2>1
  <2>3. PICK fd \in ClientFds : fd = client_fds[s]
    BY <1>5, <2>2, ReadyIsSlot
  <2>4. owner'[fd] = owner[fd]
    BY <1>3, <1>4, <2>2, <2>3 DEF TypedSockets
  <2>5. Due(fd) => Due(fd)'
    BY <1>1, <2>4, DueKept
  <2> QED
    BY <2>2, <2>3, <2>5, Zenon DEF Due, Readable, Newcomer
<1> QED
  BY <1>1, <1>5, FreshAtNextSlot

LEMMA FreshSkip ==
  ASSUME IInv, Fresh, Skip
  PROVE  Fresh'
<1>1. pc = "recv" /\ NextSlot /\ UNCHANGED <<ready, client_fds, owner, inbox, left, written>>
  BY DEF Skip, sockets, environment
<1>2. \A s \in Slots : client_fds'[s] = client_fds[s]
                       /\ (Due(client_fds[s]) => Due(client_fds[s])')
  BY <1>1 DEF Due, Readable, Newcomer
<1> QED
  BY <1>1, <1>2, FreshAtNextSlot

\* A client that sends is not new any more, but can be read.
LEMMA FreshSend ==
  ASSUME IInv, Fresh, NEW c \in Clients, SendLine(c)
  PROVE  Fresh'
<1>1. UNCHANGED <<pc, i, ready, client_fds, owner, left>>
  BY DEF SendLine, loop, sockets
<1>2. /\ \A d \in Clients : d # c => inbox'[d] = inbox[d] /\ written'[d] = written[d]
      /\ Len(inbox'[c]) = Len(inbox[c]) + 1
  BY SendReads
<1>3. Len(inbox[c]) \in Nat
  BY TypeParts, LenProperties DEF IInv, TypedEnvironment
<1>4. inbox'[c] # <<>>
  BY <1>2, <1>3
<1>5. \A d \in Clients : inbox[d] # <<>> => inbox'[d] # <<>>
  BY <1>2, <1>4
<1>6. owner \in [ClientFds -> Clients \cup {NoClient}]
  BY TypeParts DEF IInv, TypedSockets
<1>7. ASSUME NEW fd \in ClientFds, Readable(fd)
      PROVE  Readable(fd)'
  BY <1>1, <1>5, <1>6, <1>7 DEF Readable
<1>8. ASSUME NEW s \in Slots, client_fds[s] \in ready, Newcomer(client_fds[s])
      PROVE  Due(client_fds[s])'
  <2>1. PICK fd \in ClientFds : fd = client_fds[s]
    BY <1>8, ReadyIsSlot
  <2>2. owner[fd] # NoClient /\ owner[fd] \in Clients
    <3>1. Connections
      BY DEF IInv
    <3> QED
      BY <1>6, <2>1, <3>1, DescriptorsDiffer DEF Connections
  <2>3. CASE owner[fd] = c
    <3>1. Readable(fd)'
      BY <1>1, <1>4, <2>2, <2>3 DEF Readable
    <3> QED
      BY <1>1, <2>1, <3>1, Zenon DEF Due, Readable, Newcomer
  <2>4. CASE owner[fd] # c
    <3>1. Newcomer(fd)'
      BY <1>1, <1>2, <1>8, <2>1, <2>2, <2>4 DEF Newcomer
    <3> QED
      BY <1>1, <2>1, <3>1, Zenon DEF Due, Readable, Newcomer
  <2> QED
    BY <2>3, <2>4
<1> QED
  BY <1>1, <1>7, <1>8, FreshIfReadableStays

LEMMA FreshLeave ==
  ASSUME IInv, Fresh, NEW c \in Clients, Leave(c)
  PROVE  Fresh'
<1>1. /\ UNCHANGED <<pc, i, ready, client_fds, owner, inbox, written>>
      /\ left' = left \cup {c}
  BY DEF Leave, loop, sockets
<1>2. \A fd \in ClientFds : Readable(fd) => Readable(fd)'
  BY <1>1 DEF Readable
<1>3. \A s \in Slots : Newcomer(client_fds[s]) => Due(client_fds[s])'
  BY <1>1 DEF Due, Newcomer
<1> QED
  BY <1>1, <1>2, <1>3, FreshIfReadableStays

LEMMA FreshStep ==
  ASSUME IInv, Fresh, Unread, [Next]_vars
  PROVE  Fresh'
<1>1. ASSUME UNCHANGED <<pc, i, ready, client_fds, owner, inbox, left, written>>
      PROVE  Fresh'
  BY <1>1 DEF Fresh, Due, Readable, Newcomer
<1>2. Select => Fresh'
  BY FreshSelect
<1>3. ReadNotification => Fresh'
  BY FreshRead
<1>4. Accept \/ AcceptFails => Fresh'
  BY FreshAccept
<1>5. Skip => Fresh'
  BY FreshSkip
<1>6. Receive => Fresh'
  BY FreshReceive
<1>7. Hangup => Fresh'
  BY FreshHangup
<1>8. Take => UNCHANGED <<pc, i, ready, client_fds, owner, inbox, left, written>>
  BY DEF Take, loop, sockets, environment
<1>9. \A t \in running : Answer(t) \/ Notify(t)
        => UNCHANGED <<pc, i, ready, client_fds, owner, inbox, left, written>>
  BY Zenon DEF Answer, Notify, loop, sockets, environment
<1>10. \A c \in Clients : Connect(c)
         => UNCHANGED <<pc, i, ready, client_fds, owner, inbox, left, written>>
  BY DEF Connect, loop
<1>11. \A c \in Clients : SendLine(c) => Fresh'
  BY FreshSend
<1>12. \A c \in Clients : Leave(c) => Fresh'
  BY FreshLeave
<1>13. UNCHANGED vars => UNCHANGED <<pc, i, ready, client_fds, owner, inbox, left, written>>
  BY DEF vars
<1> QED
  BY <1>1, <1>2, <1>3, <1>4, <1>5, <1>6, <1>7, <1>8, <1>9, <1>10, <1>11, <1>12, <1>13,
     Steps, Zenon

\* A connection that is accepted, or refused, is never before accept again.
Early == {"none", "waiting"}

LEMMA NeverEarlyAgain ==
  ASSUME IInv, [Next]_vars, NEW c \in Clients, conn'[c] \in Early
  PROVE  conn[c] \in Early
<1> DEFINE P == conn[c] \in Early
<1>1. TypedSockets
  BY TypeParts DEF IInv
<1>2. UNCHANGED conn => P
  OBVIOUS
<1>3. ASSUME NEW d, NEW v, v \notin Early, conn' = [conn EXCEPT ![d] = v]
      PROVE  P
  BY <1>1, <1>3 DEF TypedSockets
<1>4. ASSUME NEW fd, close_client(fd)
      PROVE  P
  <2>1. UNCHANGED conn \/ conn' = [conn EXCEPT ![owner[fd]] = "closed"]
    BY <1>4, Zenon DEF close_client, sockets
  <2>2. "closed" \notin Early
    BY DEF Early
  <2> HIDE DEF P
  <2> QED
    BY <1>2, <1>3, <2>1, <2>2
<1> HIDE DEF P
<1>5. Select => P
  BY <1>2 DEF Select, sockets
<1>6. ReadNotification => P
  <2>1. ReadNotification => UNCHANGED conn \/ \E fd : close_client(fd)
    BY Zenon DEF ReadNotification, sockets
  <2> QED
    BY <1>2, <1>4, <2>1, Zenon
<1>7. Accept => P
  <2>1. Accept => \/ UNCHANGED conn
                  \/ \E d : conn' = [conn EXCEPT ![d] = "refused"]
                  \/ \E d : conn' = [conn EXCEPT ![d] = "open"]
    BY Zenon DEF Accept, sockets
  <2>2. "refused" \notin Early /\ "open" \notin Early
    BY DEF Early
  <2> QED
    BY <1>2, <1>3, <2>1, <2>2, Zenon
<1>8. AcceptFails => P
  BY <1>2 DEF AcceptFails, sockets
<1>9. Skip => P
  BY <1>2 DEF Skip, sockets
<1>10. Receive => P
  BY <1>2 DEF Receive, sockets
<1>11. Hangup => P
  BY <1>4, Zenon DEF Hangup
<1>12. Take => P
  BY <1>2 DEF Take, sockets
<1>13. \A t \in running : Answer(t) \/ Notify(t) => P
  BY <1>2, Zenon DEF Answer, Notify, sockets
<1>14. \A d \in Clients : Connect(d) => P
  <2> SUFFICES ASSUME NEW d \in Clients, Connect(d)
               PROVE  P
    OBVIOUS
  <2>1. conn[d] = "none" /\ conn' = [conn EXCEPT ![d] = "waiting"]
    BY DEF Connect
  <2> QED
    BY <1>1, <2>1 DEF TypedSockets, Early, P
<1>15. \A d \in Clients : SendLine(d) \/ Leave(d) => P
  BY <1>2 DEF SendLine, Leave, sockets
<1>16. UNCHANGED vars => P
  BY <1>2 DEF vars
<1>17. P
  BY <1>5, <1>6, <1>7, <1>8, <1>9, <1>10, <1>11, <1>12, <1>13, <1>14, <1>15, <1>16,
     Steps, Zenon
<1> QED
  BY <1>17 DEF P

LEMMA UnreadStep ==
  ASSUME IInv, Unread, [Next]_vars
  PROVE  Unread'
<1> SUFFICES ASSUME NEW c \in Clients, conn'[c] \in Early
             PROVE  Len(inbox'[c]) = written'[c]
  BY DEF Unread, Early
<1> DEFINE P == Len(inbox'[c]) = written'[c]
<1>1. conn[c] \in Early
  BY NeverEarlyAgain
<1>2. Len(inbox[c]) = written[c]
  BY <1>1 DEF Unread, Early
<1>3. UNCHANGED <<inbox, written>> => P
  BY <1>2
<1>4. Receive => P
  <2> SUFFICES ASSUME Receive
               PROVE  P
    OBVIOUS
  <2>1. Connections
    BY DEF IInv
  <2>2. conn[owner[client_fds[i]]] = "open"
    BY <2>1, ReceivesFromOne, ClientsAreNumbers DEF Connections
  <2>3. c # owner[client_fds[i]]
    BY <1>1, <2>2 DEF Early
  <2>4. inbox'[c] = inbox[c] /\ UNCHANGED written
    BY <2>3, ReceivesFromOne DEF Receive
  <2> QED
    BY <1>2, <2>4
<1>5. \A d \in Clients : SendLine(d) => P
  <2> SUFFICES ASSUME NEW d \in Clients, SendLine(d)
               PROVE  P
    OBVIOUS
  <2>1. /\ written'[d] = written[d] + 1 /\ Len(inbox'[d]) = Len(inbox[d]) + 1
        /\ \A e \in Clients : e # d => written'[e] = written[e] /\ inbox'[e] = inbox[e]
    BY SendReads
  <2> QED
    BY <1>2, <2>1
<1> HIDE DEF P
<1>6. Select \/ ReadNotification \/ Accept \/ AcceptFails \/ Skip \/ Hangup \/ Take
        => UNCHANGED <<inbox, written>>
  BY Zenon DEF Select, ReadNotification, Accept, AcceptFails, Skip, Hangup, Take, environment
<1>7. \A t \in running : Answer(t) \/ Notify(t) => UNCHANGED <<inbox, written>>
  BY Zenon DEF Answer, Notify, environment
<1>8. \A d \in Clients : Connect(d) \/ Leave(d) => UNCHANGED <<inbox, written>>
  BY DEF Connect, Leave
<1>9. UNCHANGED vars => UNCHANGED <<inbox, written>>
  BY DEF vars
<1>10. P
  BY <1>3, <1>4, <1>5, <1>6, <1>7, <1>8, <1>9, Steps, Zenon
<1> QED
  BY <1>10 DEF P

\* What select reported is still so when the loop comes to it, except for a
\* connection that a notification closed.
THEOREM ReportsStayTrue == Spec => [](Fresh /\ Unread)
<1>1. Init => Fresh /\ Unread
  <2>1. Init => Fresh
    BY DEF Init, Fresh
  <2>2. Init => Unread
    BY EmptySeq DEF Init, Unread
  <2> QED
    BY <2>1, <2>2
<1>2. IInv /\ (Fresh /\ Unread) /\ [Next]_vars => (Fresh /\ Unread)'
  BY FreshStep, UnreadStep
<1> QED
  BY <1>1, <1>2, Invariant, PTL DEF Spec

\* recv, which blocks, is called with nothing to return only when the round
\* has a notification and a waiting connection too, and then only for a client
\* that has never sent a line; so for any number of clients and slots, whatever
\* the clients do.
THEOREM LoopBlocksOnNewcomerOnly == Spec => []RecvBlocksOnNewcomerOnly
<1>1. IInv /\ Fresh => RecvBlocksOnNewcomerOnly
  <2> SUFFICES ASSUME IInv, Fresh, pc = "recv", client_fds[i] \in ready, ~Readable(client_fds[i])
               PROVE  {NotifyFd, ListenFd} \subseteq ready /\ written[owner[client_fds[i]]] = 0
    BY DEF RecvBlocksOnNewcomerOnly
  <2>1. i \in Slots /\ i >= i
    BY TypeParts, ServerAssumption DEF IInv, TypedLoop, Slots
  <2>2. Due(client_fds[i])
    BY <2>1 DEF Fresh
  <2> QED
    BY <2>2 DEF Due, Newcomer
<1> QED
  BY <1>1, Invariant, ReportsStayTrue, PTL

-----------------------------------------------------------------------------
(* Patient clients: who is affected by a step.                             *)

\* The queue, the workers' tasks and the pipe hold what their types say.
LEMMA ItemTypes ==
  ASSUME IInv
  PROVE  /\ \A p \in 1..Len(queue) :
               /\ queue[p].fd \in ClientFds /\ queue[p].text \in Line
               /\ queue[p].text.from \in Clients
         /\ \A t \in running :
               /\ t \in RunningTask /\ t.fd \in ClientFds /\ t.text \in Line
               /\ t.text.from \in Clients /\ t.stage \in {"execute", "notify"}
         /\ \A p \in 1..Len(pipe) : pipe[p].fd \in ClientFds /\ pipe[p].from \in Clients
         /\ \A d \in delivered : d.text.from \in Clients /\ d.text.n \in Nat
<1>1. TypedPool
  BY TypeParts DEF IInv
<1>2. \A p \in 1..Len(queue) : queue[p] \in Task
  BY <1>1, ElementOfSeq DEF TypedPool
<1>3. \A p \in 1..Len(pipe) : pipe[p] \in Notification
  BY <1>1, ElementOfSeq DEF TypedPool
<1>4. \A t \in running : t \in RunningTask
  BY <1>1 DEF TypedPool
<1>5. \A d \in delivered : d.text \in Line
  BY <1>1 DEF TypedPool
<1>6. \A text \in Line : text.from \in Clients /\ text.n \in Nat
  BY DEF Line
<1>7. \A p \in 1..Len(queue) : queue[p].fd \in ClientFds /\ queue[p].text \in Line
  BY <1>2 DEF Task
<1>8. \A t \in running : t.fd \in ClientFds /\ t.text \in Line /\ t.stage \in {"execute", "notify"}
  BY <1>4 DEF RunningTask
<1>9. \A p \in 1..Len(pipe) : pipe[p].fd \in ClientFds /\ pipe[p].from \in Clients
  BY <1>3 DEF Notification
<1> QED
  BY <1>4, <1>5, <1>6, <1>7, <1>8, <1>9

\* Nothing that concerns client c has changed.
Kept(c) ==
    /\ written'[c] = written[c]
    /\ inbox'[c] = inbox[c]
    /\ c \in left' <=> c \in left
    /\ \A d \in delivered' : d.text.from = c => d \in delivered
    /\ \A d \in delivered : d.text.from = c => d \in delivered'
    /\ \A fd \in ClientFds : owner[fd] = c => owner'[fd] = c

LEMMA AwaitsKept ==
  ASSUME NEW c, Kept(c)
  PROVE  /\ Awaits(c)' <=> Awaits(c)
         /\ ExitGranted(c)' <=> ExitGranted(c)
<1>1. ExitGranted(c)' <=> ExitGranted(c)
  BY Zenon DEF Kept, ExitGranted
<1>2. written'[c] = written[c] /\ (c \in left' <=> c \in left)
  BY DEF Kept
<1>3. (\A d \in delivered' : d.text.from = c => d.text.n # written[c])
        <=> (\A d \in delivered : d.text.from = c => d.text.n # written[c])
  BY Zenon DEF Kept
<1> QED
  BY <1>1, <1>2, <1>3, Zenon DEF Awaits

LEMMA AskedKept ==
  ASSUME NEW fd \in ClientFds, NEW text, Kept(text.from), Asked(fd, text)
  PROVE  Asked(fd, text)'
<1> DEFINE c == text.from
<1>1. owner'[fd] = c /\ written'[c] = written[c] /\ inbox'[c] = inbox[c]
  BY DEF Kept, Asked
<1>2. Awaits(c)
  BY DEF Asked
<1>3. Awaits(c)'
  BY <1>2, AwaitsKept
<1> QED
  BY <1>1, <1>3 DEF Asked

LEMMA ExitingKept ==
  ASSUME NEW fd \in ClientFds, NEW c, Kept(c), Exiting(fd, c)
  PROVE  Exiting(fd, c)'
<1>1. ExitGranted(c)'
  BY AwaitsKept DEF Exiting
<1> QED
  BY <1>1 DEF Exiting, Kept

LEMMA InboxKept ==
  ASSUME Placed, NEW c \in Clients, Kept(c), inbox'[c] # <<>>
  PROVE  /\ Len(inbox'[c]) = 1
         /\ inbox'[c][1].from = c
         /\ inbox'[c][1].n = written'[c]
         /\ Awaits(c)'
<1>1. inbox'[c] = inbox[c] /\ written'[c] = written[c]
  BY DEF Kept
<1>2. Awaits(c)'
  BY <1>1, AwaitsKept DEF Placed, InboxesPlaced
<1> QED
  BY <1>1, <1>2 DEF Placed, InboxesPlaced

\* A step that leaves a line of client c's where it is keeps it there when
\* nothing else about c changes.
LEMMA QueuedKept ==
  ASSUME IInv, Placed, NEW p \in 1..Len(queue), NEW q, queue'[q] = queue[p],
         Kept(queue[p].text.from)
  PROVE  Asked(queue[q].fd, queue[q].text)'
<1>1. queue[p].fd \in ClientFds /\ queue[p].text \in Line
  BY ItemTypes
<1>2. PICK fd \in ClientFds, text \in Line : fd = queue[p].fd /\ text = queue[p].text
  BY <1>1
<1>3. Asked(queue[p].fd, queue[p].text)
  BY DEF Placed, QueuePlaced
<1>4. Asked(fd, text)
  BY <1>2, <1>3, Zenon DEF Asked, Awaits, ExitGranted
<1>5. Kept(text.from)
  BY <1>2, Zenon DEF Kept
<1>6. Asked(fd, text)'
  BY <1>4, <1>5, AskedKept
<1>7. queue'[q].fd = fd /\ queue'[q].text = text
  BY <1>2
<1> QED
  BY <1>6, <1>7, Zenon DEF Asked, Awaits, ExitGranted

LEMMA PipedKept ==
  ASSUME IInv, Placed, NEW p \in 1..Len(pipe), NEW q, pipe'[q] = pipe[p],
         Kept(pipe[p].from)
  PROVE  Exiting(pipe[q].fd, pipe[q].from)'
<1>1. pipe[p].fd \in ClientFds /\ pipe[p].from \in Clients
  BY ItemTypes
<1>2. PICK fd \in ClientFds, c \in Clients : fd = pipe[p].fd /\ c = pipe[p].from
  BY <1>1
<1>3. Exiting(pipe[p].fd, pipe[p].from)
  BY DEF Placed, PipePlaced
<1>4. Exiting(fd, c)
  BY <1>2, <1>3, Zenon DEF Exiting, ExitGranted
<1>5. Kept(c)
  BY <1>2, Zenon DEF Kept
<1>6. Exiting(fd, c)'
  BY <1>4, <1>5, ExitingKept
<1>7. pipe'[q].fd = fd /\ pipe'[q].from = c
  BY <1>2
<1> QED
  BY <1>6, <1>7, Zenon DEF Exiting, ExitGranted

LEMMA WorkKept ==
  ASSUME IInv, Placed, NEW t \in running, Kept(t.text.from)
  PROVE  /\ t.stage = "execute" => Asked(t.fd, t.text)'
         /\ t.stage = "notify" => Exiting(t.fd, t.text.from)'
<1>1. t.fd \in ClientFds
  BY ItemTypes
<1>2. t.stage = "execute" => Asked(t.fd, t.text)
  BY DEF Placed, WorkersPlaced
<1>3. t.stage = "notify" => Exiting(t.fd, t.text.from)
  BY DEF Placed, WorkersPlaced
<1> QED
  BY <1>1, <1>2, <1>3, AskedKept, ExitingKept

\* The same for all lines of a kind.
LEMMA InboxesKept ==
  ASSUME IInv, Placed, \A c \in Clients : Kept(c) \/ inbox'[c] = <<>>
  PROVE  InboxesPlaced'
<1>1. ASSUME NEW c \in Clients, inbox'[c] # <<>>
      PROVE  /\ Len(inbox'[c]) = 1
             /\ inbox'[c][1].from = c
             /\ inbox'[c][1].n = written'[c]
             /\ Awaits(c)'
  BY <1>1, InboxKept
<1> QED
  BY <1>1, Zenon DEF InboxesPlaced

LEMMA QueueKept ==
  ASSUME IInv, Placed,
         \A q \in 1..Len(queue') : \E p \in 1..Len(queue) :
             queue'[q] = queue[p] /\ Kept(queue[p].text.from)
  PROVE  QueuePlaced'
<1>1. ASSUME NEW q \in 1..Len(queue')
      PROVE  Asked(queue[q].fd, queue[q].text)'
  <2>1. PICK p \in 1..Len(queue) : queue'[q] = queue[p] /\ Kept(queue[p].text.from)
    BY Zenon
  <2> QED
    BY <2>1, QueuedKept
<1> QED
  BY <1>1, Zenon DEF QueuePlaced

LEMMA WorkersKept ==
  ASSUME IInv, Placed, \A t \in running' : t \in running /\ Kept(t.text.from)
  PROVE  WorkersPlaced'
<1>1. ASSUME NEW t \in running'
      PROVE  /\ t.stage = "execute" => Asked(t.fd, t.text)'
             /\ t.stage = "notify" => Exiting(t.fd, t.text.from)'
  BY WorkKept
<1> QED
  BY <1>1, Zenon DEF WorkersPlaced

LEMMA PipeKept ==
  ASSUME IInv, Placed,
         \A q \in 1..Len(pipe') : \E p \in 1..Len(pipe) :
             pipe'[q] = pipe[p] /\ Kept(pipe[p].from)
  PROVE  PipePlaced'
<1>1. ASSUME NEW q \in 1..Len(pipe')
      PROVE  Exiting(pipe[q].fd, pipe[q].from)'
  <2>1. PICK p \in 1..Len(pipe) : pipe'[q] = pipe[p] /\ Kept(pipe[p].from)
    BY Zenon
  <2> QED
    BY <2>1, PipedKept
<1> QED
  BY <1>1, Zenon DEF PipePlaced

\* A client with no line anywhere.
Uninvolved(c) ==
    /\ inbox[c] = <<>>
    /\ \A p \in 1..Len(queue) : queue[p].text.from # c
    /\ \A t \in running : t.text.from # c
    /\ \A p \in 1..Len(pipe) : pipe[p].from # c

\* Lines are where they were when only clients without lines are affected.
LEMMA PlacedKept ==
  ASSUME IInv, Placed, UNCHANGED <<queue, running, pipe>>,
         \A c \in Clients : Kept(c) \/ (Uninvolved(c) /\ inbox'[c] = <<>>)
  PROVE  Placed'
<1>1. InboxesPlaced'
  BY InboxesKept
<1>2. QueuePlaced'
  <2>1. \A p \in 1..Len(queue) : Kept(queue[p].text.from)
    BY ItemTypes DEF Uninvolved
  <2> QED
    BY <2>1, QueueKept
<1>3. WorkersPlaced'
  <2>1. \A t \in running : Kept(t.text.from)
    BY ItemTypes DEF Uninvolved
  <2> QED
    BY <2>1, WorkersKept
<1>4. PipePlaced'
  <2>1. \A p \in 1..Len(pipe) : Kept(pipe[p].from)
    BY ItemTypes DEF Uninvolved
  <2> QED
    BY <2>1, PipeKept
<1> QED
  BY <1>1, <1>2, <1>3, <1>4 DEF Placed

\* A client that awaits nothing and has no EXIT to be announced has no line
\* anywhere.
LEMMA NothingPlaced ==
  ASSUME IInv, Placed, NEW c \in Clients, ~Awaits(c), c \in left \/ ~ExitGranted(c)
  PROVE  Uninvolved(c)
<1>1. inbox[c] = <<>>
  BY DEF Placed, InboxesPlaced
<1>2. \A p \in 1..Len(queue) : queue[p].text.from # c
  <2>1. SUFFICES ASSUME NEW p \in 1..Len(queue), queue[p].text.from = c
                 PROVE  FALSE
    BY Zenon
  <2>2. Asked(queue[p].fd, queue[p].text)
    BY DEF Placed, QueuePlaced
  <2>3. Awaits(c)
    BY <2>1, <2>2, Zenon DEF Asked, Awaits, ExitGranted
  <2> QED
    BY <2>3
<1>3. \A t \in running : t.text.from # c
  <2>1. SUFFICES ASSUME NEW t \in running, t.text.from = c
                 PROVE  FALSE
    BY Zenon
  <2>2. t.stage = "execute" \/ t.stage = "notify"
    BY ItemTypes
  <2>3. Asked(t.fd, t.text) \/ Exiting(t.fd, t.text.from)
    BY <2>2 DEF Placed, WorkersPlaced
  <2>4. Awaits(c) \/ (c \notin left /\ ExitGranted(c))
    BY <2>1, <2>3, Zenon DEF Asked, Exiting, Awaits, ExitGranted
  <2> QED
    BY <2>4
<1>4. \A p \in 1..Len(pipe) : pipe[p].from # c
  <2>1. SUFFICES ASSUME NEW p \in 1..Len(pipe), pipe[p].from = c
                 PROVE  FALSE
    BY Zenon
  <2>2. Exiting(pipe[p].fd, pipe[p].from)
    BY DEF Placed, PipePlaced
  <2>3. c \notin left /\ ExitGranted(c)
    BY <2>1, <2>2, Zenon DEF Exiting, ExitGranted
  <2> QED
    BY <2>3
<1> QED
  BY <1>1, <1>2, <1>3, <1>4 DEF Uninvolved

\* A client whose line the server has not received has no other line.
LEMMA InboxAlone ==
  ASSUME IInv, Placed, NEW c \in Clients, inbox[c] # <<>>
  PROVE  /\ \A p \in 1..Len(queue) : queue[p].text.from # c
         /\ \A t \in running : t.text.from # c
         /\ \A p \in 1..Len(pipe) : pipe[p].from # c
<1>1. Awaits(c)
  BY DEF Placed, InboxesPlaced
<1>2. ~ExitGranted(c)
  BY <1>1 DEF Awaits
<1>3. \A p \in 1..Len(queue) : queue[p].text.from # c
  <2>1. \A p \in 1..Len(queue) : inbox[queue[p].text.from] = <<>>
    BY DEF Placed, QueuePlaced, Asked
  <2> QED
    BY <2>1
<1>4. \A t \in running : t.text.from # c
  <2>1. SUFFICES ASSUME NEW t \in running, t.text.from = c
                 PROVE  FALSE
    BY Zenon
  <2>2. t.stage = "execute" \/ t.stage = "notify"
    BY ItemTypes
  <2>3. Asked(t.fd, t.text) \/ Exiting(t.fd, t.text.from)
    BY <2>2 DEF Placed, WorkersPlaced
  <2>4. inbox[t.text.from] = <<>> \/ ExitGranted(t.text.from)
    BY <2>3, Zenon DEF Asked, Exiting
  <2>5. inbox[c] = <<>> \/ ExitGranted(c)
    BY <2>1, <2>4, Zenon DEF ExitGranted
  <2> QED
    BY <1>2, <2>5
<1>5. \A p \in 1..Len(pipe) : pipe[p].from # c
  <2>1. SUFFICES ASSUME NEW p \in 1..Len(pipe), pipe[p].from = c
                 PROVE  FALSE
    BY Zenon
  <2>2. Exiting(pipe[p].fd, pipe[p].from)
    BY DEF Placed, PipePlaced
  <2>3. ExitGranted(c)
    BY <2>1, <2>2, Zenon DEF Exiting, ExitGranted
  <2> QED
    BY <1>2, <2>3
<1> QED
  BY <1>3, <1>4, <1>5

\* A client that got all its answers does not wait for one.
LEMMA AnsweredAwaitsNothing ==
  ASSUME IInv, NEW c \in Clients, AllAnswered(c)
  PROVE  ~Awaits(c)
<1> SUFFICES ASSUME Awaits(c)
             PROVE  FALSE
  OBVIOUS
<1>1. written[c] \in Nat /\ written[c] # 0
  BY TypeParts DEF IInv, TypedEnvironment, Awaits
<1>2. written[c] \in 1..written[c]
  BY <1>1
<1>3. \E d \in delivered : d.text.from = c /\ d.text.n = written[c]
  BY <1>2, Zenon DEF AllAnswered
<1> QED
  BY <1>3, Zenon DEF Awaits

\* A client is not affected when its descriptor and its data are left alone.
LEMMA Untouched ==
  ASSUME UNCHANGED <<left, delivered>>, NEW c,
         written'[c] = written[c], inbox'[c] = inbox[c],
         \A fd \in ClientFds : owner[fd] = c => owner'[fd] = c
  PROVE  Kept(c)
BY Zenon DEF Kept

-----------------------------------------------------------------------------
(* Patient clients: closing.                                               *)

\* Closing affects the client of the descriptor only.
LEMMA CloseTouches ==
  ASSUME IInv, NEW fd \in ClientFds, close_client(fd),
         UNCHANGED <<left, delivered, written, inbox>>
  PROVE  \A c \in Clients : c # owner[fd] => Kept(c)
<1>1. owner \in [ClientFds -> Clients \cup {NoClient}]
  BY TypeParts DEF IInv, TypedSockets
<1>2. owner' = [owner EXCEPT ![fd] = NoClient]
  BY CloseEffect
<1>3. ASSUME NEW c \in Clients, c # owner[fd]
      PROVE  Kept(c)
  <2>1. \A g \in ClientFds : owner[g] = c => owner'[g] = c
    BY <1>1, <1>2, <1>3
  <2> QED
    BY <2>1, Untouched
<1> QED
  BY <1>3

\* The notification that the loop reads, as the invariant sees it.
LEMMA ReadEffect ==
  ASSUME IInv, Placed, Single, ReadNotification, NotifyFd \in ready
  PROVE  /\ close_client(pipe[1].fd)
         /\ pipe[1].fd \in ClientFds
         /\ pipe[1].from \in Clients
         /\ owner[pipe[1].fd] = pipe[1].from
         /\ pipe[1].from \notin left
         /\ ExitGranted(owner[pipe[1].fd])
         /\ inbox[pipe[1].from] = <<>>
         /\ \A p \in 1..Len(queue) : queue[p].text.from # pipe[1].from
         /\ \A t \in running : t.text.from # pipe[1].from
         /\ \A q \in 1..Len(pipe') :
               /\ q + 1 \in 1..Len(pipe) /\ pipe'[q] = pipe[q + 1]
               /\ pipe[q + 1].from # pipe[1].from
<1>1. pc = "notify" /\ close_client(Head(pipe).fd) /\ pipe' = Tail(pipe)
  BY DEF ReadNotification
<1>2. /\ Head(pipe) = pipe[1] /\ 1 \in 1..Len(pipe) /\ pipe[1] \in Notification
      /\ \A q \in 1..Len(pipe') : q + 1 \in 1..Len(pipe) /\ pipe'[q] = pipe[q + 1]
  BY <1>1, ReadyPipe, Zenon
<1>3. pipe[1].fd \in ClientFds /\ pipe[1].from \in Clients
  BY <1>2, ItemTypes
<1>4. close_client(pipe[1].fd)
  <2>1. Head(pipe).fd = pipe[1].fd
    BY <1>2, Zenon
  <2> QED
    BY <1>1, <2>1
<1>5. Exiting(pipe[1].fd, pipe[1].from)
  BY <1>2 DEF Placed, PipePlaced
<1>6. owner[pipe[1].fd] = pipe[1].from /\ pipe[1].from \notin left
  BY <1>5 DEF Exiting
<1>7. ExitGranted(owner[pipe[1].fd])
  BY <1>5, <1>6, Zenon DEF Exiting, ExitGranted
<1>8. inbox[pipe[1].from] = <<>>
  BY <1>2, <1>3, InboxAlone
<1>9. \A p \in 1..Len(queue) : queue[p].text.from # pipe[1].from
  <2>1. SUFFICES ASSUME NEW p \in 1..Len(queue), queue[p].text.from = pipe[1].from
                 PROVE  FALSE
    BY Zenon
  <2>2. Asked(queue[p].fd, queue[p].text)
    BY DEF Placed, QueuePlaced
  <2>3. ~ExitGranted(queue[p].text.from)
    BY <2>2, Zenon DEF Asked, Awaits, ExitGranted
  <2> QED
    BY <1>6, <1>7, <2>1, <2>3, Zenon DEF ExitGranted
<1>10. \A t \in running : t.text.from # pipe[1].from
  BY <1>2 DEF Single
<1>11. \A q \in 1..Len(pipe') : pipe[q + 1].from # pipe[1].from
  <2>1. \A q \in 1..Len(pipe') : q + 1 # 1
    OBVIOUS
  <2> QED
    BY <1>2, <2>1, Zenon DEF Single
<1> QED
  BY <1>2, <1>3, <1>4, <1>6, <1>7, <1>8, <1>9, <1>10, <1>11

\* A client that hung up has no line anywhere.
LEMMA HangupEffect ==
  ASSUME IInv, Placed, Hangup
  PROVE  /\ client_fds[i] \in ClientFds /\ close_client(client_fds[i])
         /\ owner[client_fds[i]] \in Clients /\ owner[client_fds[i]] \in left
         /\ Uninvolved(owner[client_fds[i]])
<1>1. /\ client_fds[i] \in ready /\ close_client(client_fds[i])
      /\ owner[client_fds[i]] \in left
  BY DEF Hangup
<1>2. client_fds[i] \in ClientFds /\ owner[client_fds[i]] \in Clients
  BY <1>1, ReadySlot
<1>3. PICK c \in Clients : c = owner[client_fds[i]]
  BY <1>2
<1>4. Uninvolved(c)
  BY <1>1, <1>3, NothingPlaced DEF Awaits
<1> QED
  BY <1>1, <1>2, <1>3, <1>4, Zenon DEF Uninvolved

-----------------------------------------------------------------------------
(* Patient clients: lines on their way.                                    *)

\* recv finds one line.
LEMMA ReceiveOne ==
  ASSUME IInv, Placed, Receive
  PROVE  LET fd == client_fds[i]
             e == owner[fd]
         IN  /\ fd \in ClientFds /\ e \in Clients
             /\ inbox[e] # <<>> /\ inbox'[e] = <<>>
             /\ \A c \in Clients : c # e => inbox'[c] = inbox[c]
             /\ Len(queue) \in Nat /\ Len(queue') = Len(queue) + 1
             /\ \A p \in 1..Len(queue) : queue'[p] = queue[p]
             /\ queue'[Len(queue) + 1].fd = fd
             /\ queue'[Len(queue) + 1].text = inbox[e][1]
<1> DEFINE fd == client_fds[i]
           e == owner[fd]
<1>1. client_fds[i] \in ready
  BY DEF Receive
<1>2. fd \in ClientFds /\ e \in Clients
  BY <1>1, ReadySlot
<1>3. inbox \in [Clients -> Seq(Line)] /\ queue \in Seq(Task)
  BY TypeParts DEF IInv, TypedEnvironment, TypedPool
<1>4. PICK n \in 1..Len(inbox[e]) :
         LET tasks == [p \in 1..n |-> [fd |-> fd, text |-> inbox[e][p]]]
             rest == SubSeq(inbox[e], n + 1, Len(inbox[e]))
         IN  /\ tasks \in Seq(Task) /\ Len(tasks) = n
             /\ queue' = queue \o tasks
             /\ rest \in Seq(Line) /\ Len(rest) = Len(inbox[e]) - n
             /\ inbox' = [inbox EXCEPT ![e] = rest]
  BY ReceiveEffect, Zenon
<1> HIDE DEF fd, e
<1> DEFINE tasks == [p \in 1..n |-> [fd |-> fd, text |-> inbox[e][p]]]
           rest == SubSeq(inbox[e], n + 1, Len(inbox[e]))
<1>5. inbox[e] \in Seq(Line) /\ inbox[e] # <<>>
  <2>1. inbox[e] \in Seq(Line)
    BY <1>2, <1>3
  <2>2. inbox[e] # <<>>
    BY <1>4, EmptySeq
  <2> QED
    BY <2>1, <2>2
<1>6. Len(inbox[e]) = 1
  BY <1>2, <1>5 DEF Placed, InboxesPlaced
<1>7. n = 1
  BY <1>4, <1>6
<1>8. tasks[1].fd = fd /\ tasks[1].text = inbox[e][1]
  <2>1. 1 \in 1..n
    BY <1>7
  <2>2. tasks[1] = [fd |-> fd, text |-> inbox[e][1]]
    BY <2>1, Zenon
  <2> QED
    BY <2>2
<1>9. /\ tasks \in Seq(Task) /\ Len(tasks) = n
      /\ queue' = queue \o tasks
      /\ rest \in Seq(Line) /\ Len(rest) = Len(inbox[e]) - n
      /\ inbox' = [inbox EXCEPT ![e] = rest]
  BY <1>4, Zenon
<1> HIDE DEF tasks, rest
<1>10. rest = <<>>
  BY <1>6, <1>7, <1>9, EmptySeq
<1>11. inbox'[e] = <<>> /\ \A c \in Clients : c # e => inbox'[c] = inbox[c]
  BY <1>2, <1>3, <1>9, <1>10, Zenon
<1>12. /\ Len(queue) \in Nat /\ Len(queue') = Len(queue) + 1
       /\ \A p \in 1..Len(queue) : queue'[p] = queue[p]
       /\ queue'[Len(queue) + 1] = tasks[1]
  <2>1. Len(queue) \in Nat
    BY <1>3, LenProperties
  <2>2. /\ Len(queue \o tasks) = Len(queue) + Len(tasks)
        /\ \A p \in 1..(Len(queue) + Len(tasks)) : (queue \o tasks)[p] =
              IF p <= Len(queue) THEN queue[p] ELSE tasks[p - Len(queue)]
    BY <1>3, <1>9, ConcatProperties, Zenon
  <2>3. Len(queue') = Len(queue) + 1
    BY <1>7, <1>9, <2>2
  <2>4. \A p \in 1..(Len(queue) + 1) : queue'[p] =
              IF p <= Len(queue) THEN queue[p] ELSE tasks[p - Len(queue)]
    BY <1>7, <1>9, <2>2
  <2>5. \A p \in 1..Len(queue) : queue'[p] = queue[p]
    BY <2>1, <2>4
  <2>6. queue'[Len(queue) + 1] = tasks[1]
    <3>1. /\ Len(queue) + 1 \in 1..(Len(queue) + 1)
          /\ ~(Len(queue) + 1 <= Len(queue)) /\ (Len(queue) + 1) - Len(queue) = 1
      BY <2>1
    <3> QED
      BY <2>4, <3>1
  <2> QED
    BY <2>1, <2>3, <2>5, <2>6
<1>13. /\ queue'[Len(queue) + 1].fd = fd
       /\ queue'[Len(queue) + 1].text = inbox[e][1]
  BY <1>8, <1>12
<1> QED
  BY <1>2, <1>5, <1>11, <1>12, <1>13, Zenon DEF fd, e

\* The client that sent the line of t is told a; only BYE leaves something to do.
Told(t, a) ==
    /\ delivered' = delivered \cup {[text |-> t.text, to |-> t.text.from, answer |-> a]}
    /\ \A u \in running' :
          \/ u \in running /\ u # t
          \/ u.fd = t.fd /\ u.text = t.text /\ u.stage = "notify" /\ a = "BYE"

\* The answer goes to the client that asked.
LEMMA AnswerEffect ==
  ASSUME IInv, Placed, NEW t \in running, Answer(t)
  PROVE  /\ Asked(t.fd, t.text) /\ inbox[t.text.from] = <<>>
         /\ owner[t.fd] = t.text.from /\ t.text.n = written[t.text.from]
         /\ UNCHANGED <<owner, left, written, inbox>>
         /\ \A c \in Clients : c # t.text.from => Kept(c)
         /\ \E a : Told(t, a)
<1>1. t.stage = "execute"
  BY Zenon DEF Answer
<1>2. Asked(t.fd, t.text)
  BY <1>1 DEF Placed, WorkersPlaced
<1>3. /\ owner[t.fd] = t.text.from /\ t.text.n = written[t.text.from]
      /\ inbox[t.text.from] = <<>>
  BY <1>2 DEF Asked
<1>4. t.text.from \in Clients /\ t \in RunningTask
  BY ItemTypes
<1>5. PICK a \in {"BYE", "ERR", "result"} :
         /\ delivered' = IF owner[t.fd] = NoClient THEN delivered
               ELSE delivered \cup {[text |-> t.text, to |-> owner[t.fd], answer |-> a]}
         /\ running' = (running \ {t}) \cup
               (IF a = "BYE" THEN {[t EXCEPT !.stage = "notify"]} ELSE {})
  BY AnswerChoice, Zenon
<1>6. delivered' = delivered \cup {[text |-> t.text, to |-> t.text.from, answer |-> a]}
  <2>1. t.text.from # NoClient
    BY <1>4, ClientsAreNumbers
  <2> QED
    BY <1>3, <1>5, <2>1
<1>7. UNCHANGED <<owner, left, written, inbox>>
  BY Zenon DEF Answer, sockets, environment
<1>8. ASSUME NEW c \in Clients, c # t.text.from
      PROVE  Kept(c)
  <2>1. [text |-> t.text, to |-> t.text.from, answer |-> a].text.from = t.text.from
    OBVIOUS
  <2>2. \A d \in delivered' : d.text.from = c => d \in delivered
    BY <1>6, <1>8, <2>1
  <2>3. \A d \in delivered : d \in delivered'
    BY <1>6
  <2> QED
    BY <1>7, <2>2, <2>3, Zenon DEF Kept
<1>9. ASSUME NEW u \in running'
      PROVE  \/ u \in running /\ u # t
             \/ u.fd = t.fd /\ u.text = t.text /\ u.stage = "notify" /\ a = "BYE"
  <2>1. \/ u \in running /\ u # t
        \/ u = [t EXCEPT !.stage = "notify"] /\ a = "BYE"
    BY <1>5, Zenon
  <2> QED
    BY <1>4, <2>1, ToNotify, Zenon
<1>10. Told(t, a)
  BY <1>6, <1>9, Zenon DEF Told
<1> QED
  BY <1>2, <1>3, <1>7, <1>8, <1>10

\* A client that sends or leaves, and is not hasty, has no line anywhere.
LEMMA SendsAlone ==
  ASSUME IInv, Placed, Manners = "patient", NEW c \in Clients, SendLine(c) \/ Leave(c)
  PROVE  c \notin left /\ ~ExitGranted(c) /\ Uninvolved(c)
<1>1. c \notin left /\ ~ExitGranted(c) /\ AllAnswered(c)
  BY Zenon DEF SendLine, Leave
<1>2. ~Awaits(c)
  BY <1>1, AnsweredAwaitsNothing
<1> QED
  BY <1>1, <1>2, NothingPlaced

-----------------------------------------------------------------------------
(* Patient clients: every line stays in its place, or moves to the next.   *)

LEMMA PlacedRead ==
  ASSUME IInv, Placed, Single, ReadNotification, NotifyFd \in ready
  PROVE  Placed'
<1> DEFINE e == pipe[1].from
<1>1. UNCHANGED <<left, delivered, written, inbox, queue, running>>
  BY DEF ReadNotification, environment
<1>2. /\ close_client(pipe[1].fd) /\ pipe[1].fd \in ClientFds
      /\ owner[pipe[1].fd] = e /\ inbox[e] = <<>>
      /\ \A p \in 1..Len(queue) : queue[p].text.from # e
      /\ \A t \in running : t.text.from # e
      /\ \A q \in 1..Len(pipe') :
            q + 1 \in 1..Len(pipe) /\ pipe'[q] = pipe[q + 1] /\ pipe[q + 1].from # e
  BY ReadEffect
<1>3. \A c \in Clients : c # e => Kept(c)
  <2>1. \A c \in Clients : c # owner[pipe[1].fd] => Kept(c)
    BY <1>1, <1>2, CloseTouches
  <2> QED
    BY <1>2, <2>1
<1> HIDE DEF e
<1>4. InboxesPlaced'
  BY <1>1, <1>2, <1>3, InboxesKept
<1>5. QueuePlaced'
  <2>1. \A p \in 1..Len(queue) : Kept(queue[p].text.from)
    BY <1>2, <1>3, ItemTypes
  <2> QED
    BY <1>1, <2>1, QueueKept
<1>6. WorkersPlaced'
  <2>1. \A t \in running : Kept(t.text.from)
    BY <1>2, <1>3, ItemTypes
  <2> QED
    BY <1>1, <2>1, WorkersKept
<1>7. PipePlaced'
  <2>1. \A q \in 1..Len(pipe') : q + 1 \in 1..Len(pipe) /\ pipe'[q] = pipe[q + 1]
                                 /\ Kept(pipe[q + 1].from)
    BY <1>2, <1>3, ItemTypes
  <2> QED
    BY <2>1, PipeKept
<1> QED
  BY <1>4, <1>5, <1>6, <1>7 DEF Placed

LEMMA PlacedReceive ==
  ASSUME IInv, Placed, Receive
  PROVE  Placed'
<1> DEFINE fd == client_fds[i]
           e == owner[fd]
           last == Len(queue) + 1
<1>1. UNCHANGED <<left, delivered, written, owner, running, pipe>>
  BY DEF Receive, sockets
<1>2. /\ fd \in ClientFds /\ e \in Clients
      /\ inbox[e] # <<>> /\ inbox'[e] = <<>>
      /\ \A c \in Clients : c # e => inbox'[c] = inbox[c]
      /\ Len(queue) \in Nat /\ Len(queue') = last
      /\ \A p \in 1..Len(queue) : queue'[p] = queue[p]
      /\ queue'[last].fd = fd
      /\ queue'[last].text = inbox[e][1]
  BY ReceiveOne
<1>3. /\ \A p \in 1..Len(queue) : queue[p].text.from # e
      /\ \A t \in running : t.text.from # e
      /\ \A p \in 1..Len(pipe) : pipe[p].from # e
  BY <1>2, InboxAlone
<1>4. owner[fd] = e
  OBVIOUS
<1> HIDE DEF fd, e
<1>5. \A c \in Clients : c # e => Kept(c)
  BY <1>1, <1>2, Untouched, Zenon
<1>6. InboxesPlaced'
  BY <1>2, <1>5, InboxesKept
<1>7. QueuePlaced'
  <2>1. ASSUME NEW q \in 1..Len(queue')
        PROVE  Asked(queue[q].fd, queue[q].text)'
    <3>1. CASE q = last
      <4>1. inbox[e][1].from = e /\ inbox[e][1].n = written[e] /\ Awaits(e)
        BY <1>2 DEF Placed, InboxesPlaced
      <4>2. written'[e] = written[e] /\ owner'[fd] = e
        BY <1>1, <1>4
      <4>3. e \notin left' /\ ~(\E d \in delivered' : d.text.from = e /\ d.answer = "BYE")
            /\ written'[e] # 0 /\ \A d \in delivered' : d.text.from = e => d.text.n # written'[e]
        BY <1>1, <4>1, Zenon DEF Awaits, ExitGranted
      <4>4. /\ queue'[q].fd = fd /\ queue'[q].text.from = e /\ queue'[q].text.n = written[e]
        BY <1>2, <3>1, <4>1
      <4> QED
        BY <1>2, <4>2, <4>3, <4>4, Zenon DEF Asked, Awaits, ExitGranted
    <3>2. CASE q # last
      <4>1. q \in 1..Len(queue)
        BY <1>2, <3>2
      <4>2. queue'[q] = queue[q] /\ Kept(queue[q].text.from)
        BY <1>2, <1>3, <1>5, <4>1, ItemTypes
      <4> QED
        BY <4>1, <4>2, QueuedKept
    <3> QED
      BY <3>1, <3>2
  <2> QED
    BY <2>1, Zenon DEF QueuePlaced
<1>8. WorkersPlaced'
  <2>1. \A t \in running : Kept(t.text.from)
    BY <1>3, <1>5, ItemTypes
  <2> QED
    BY <1>1, <2>1, WorkersKept
<1>9. PipePlaced'
  <2>1. \A p \in 1..Len(pipe) : Kept(pipe[p].from)
    BY <1>3, <1>5, ItemTypes
  <2> QED
    BY <1>1, <2>1, PipeKept
<1> QED
  BY <1>6, <1>7, <1>8, <1>9 DEF Placed

LEMMA PlacedTake ==
  ASSUME IInv, Placed, Take
  PROVE  Placed'
<1>1. UNCHANGED <<left, delivered, written, inbox, owner, pipe>>
  BY DEF Take, sockets, environment
<1>2. \A c \in Clients : Kept(c)
  BY <1>1, Untouched
<1>3. InboxesPlaced'
  BY <1>2, InboxesKept
<1>4. QueuePlaced'
  <2>1. \A q \in 1..Len(queue') : q + 1 \in 1..Len(queue) /\ queue'[q] = queue[q + 1]
    <3>1. 2..Len(queue) \subseteq 1..Len(queue)
      OBVIOUS
    <3> QED
      BY <3>1, TakeEffect, Zenon
  <2>2. \A q \in 1..Len(queue') : Kept(queue[q + 1].text.from)
    BY <1>2, <2>1, ItemTypes
  <2> QED
    BY <2>1, <2>2, QueueKept
<1>5. WorkersPlaced'
  <2>1. ASSUME NEW t \in running'
        PROVE  /\ t.stage = "execute" => Asked(t.fd, t.text)'
               /\ t.stage = "notify" => Exiting(t.fd, t.text.from)'
    <3>1. CASE t \in running
      <4>1. Kept(t.text.from)
        BY <1>2, <3>1, ItemTypes
      <4> QED
        BY <3>1, <4>1, WorkKept
    <3>2. CASE t \notin running
      <4>1. 1 \in 1..Len(queue) /\ t.fd = queue[1].fd /\ t.text = queue[1].text
            /\ t.stage = "execute"
        BY <2>1, <3>2, TakeEffect
      <4>2. Asked(queue[1].fd, queue[1].text) /\ t.fd \in ClientFds /\ t.text.from \in Clients
        BY <4>1, ItemTypes DEF Placed, QueuePlaced
      <4>3. Asked(t.fd, t.text)
        BY <4>1, <4>2, Zenon DEF Asked, Awaits, ExitGranted
      <4>4. Asked(t.fd, t.text)'
        BY <1>2, <4>2, <4>3, AskedKept
      <4> QED
        BY <4>1, <4>4
    <3> QED
      BY <3>1, <3>2
  <2> QED
    BY <2>1, Zenon DEF WorkersPlaced
<1>6. PipePlaced'
  <2>1. \A p \in 1..Len(pipe) : Kept(pipe[p].from)
    BY <1>2, ItemTypes
  <2> QED
    BY <1>1, <2>1, PipeKept
<1> QED
  BY <1>3, <1>4, <1>5, <1>6 DEF Placed

LEMMA PlacedAnswer ==
  ASSUME IInv, Placed, Single, NEW t \in running, Answer(t)
  PROVE  Placed'
<1> DEFINE e == t.text.from
<1>1. UNCHANGED <<owner, left, written, inbox, queue, pipe>>
  BY Zenon DEF Answer, sockets, environment
<1>2. /\ Asked(t.fd, t.text) /\ inbox[e] = <<>> /\ owner[t.fd] = e
      /\ \A c \in Clients : c # e => Kept(c)
      /\ \E a : Told(t, a)
  BY AnswerEffect
<1> PICK a : Told(t, a)
  BY <1>2
<1>3. e \in Clients
  BY ItemTypes
<1>4. /\ \A u \in running : u # t => u.text.from # e
      /\ \A p \in 1..Len(queue) : queue[p].text.from # e
      /\ \A p \in 1..Len(pipe) : pipe[p].from # e
  BY Zenon DEF Single
<1>5. InboxesPlaced'
  BY <1>1, <1>2, InboxesKept
<1>6. QueuePlaced'
  <2>1. \A p \in 1..Len(queue) : Kept(queue[p].text.from)
    BY <1>2, <1>4, ItemTypes
  <2> QED
    BY <1>1, <2>1, QueueKept
<1>7. WorkersPlaced'
  <2>1. ASSUME NEW u \in running'
        PROVE  /\ u.stage = "execute" => Asked(u.fd, u.text)'
               /\ u.stage = "notify" => Exiting(u.fd, u.text.from)'
    <3>1. CASE u \in running /\ u # t
      <4>1. Kept(u.text.from)
        BY <1>2, <1>4, <3>1, ItemTypes
      <4> QED
        BY <3>1, <4>1, WorkKept
    <3>2. CASE u.fd = t.fd /\ u.text = t.text /\ u.stage = "notify" /\ a = "BYE"
      <4>1. e \notin left'
        BY <1>1, <1>2 DEF Asked, Awaits
      <4>2. owner'[t.fd] = e
        BY <1>1, <1>2
      <4>3. \E d \in delivered' : d.text.from = e /\ d.answer = "BYE"
        <5>1. [text |-> t.text, to |-> e, answer |-> a] \in delivered'
          BY DEF Told
        <5>2. /\ [text |-> t.text, to |-> e, answer |-> a].text = t.text
              /\ [text |-> t.text, to |-> e, answer |-> a].answer = a
          OBVIOUS
        <5> QED
          BY <3>2, <5>1, <5>2
      <4>4. Exiting(u.fd, u.text.from)'
        BY <3>2, <4>1, <4>2, <4>3 DEF Exiting, ExitGranted
      <4> QED
        BY <3>2, <4>4
    <3> QED
      BY <3>1, <3>2, Zenon DEF Told
  <2> QED
    BY <2>1, Zenon DEF WorkersPlaced
<1>8. PipePlaced'
  <2>1. \A p \in 1..Len(pipe) : Kept(pipe[p].from)
    BY <1>2, <1>4, ItemTypes
  <2> QED
    BY <1>1, <2>1, PipeKept
<1> QED
  BY <1>5, <1>6, <1>7, <1>8 DEF Placed

LEMMA PlacedNotify ==
  ASSUME IInv, Placed, NEW t \in running, Notify(t)
  PROVE  Placed'
<1>1. UNCHANGED <<left, delivered, written, inbox, owner, queue>>
  BY DEF Notify, sockets, environment
<1>2. \A c \in Clients : Kept(c)
  BY <1>1, Untouched
<1>3. InboxesPlaced'
  BY <1>2, InboxesKept
<1>4. QueuePlaced'
  <2>1. \A p \in 1..Len(queue) : Kept(queue[p].text.from)
    BY <1>2, ItemTypes
  <2> QED
    BY <1>1, <2>1, QueueKept
<1>5. WorkersPlaced'
  <2>1. \A u \in running' : u \in running
    BY DEF Notify
  <2>2. \A u \in running : Kept(u.text.from)
    BY <1>2, ItemTypes
  <2> QED
    BY <2>1, <2>2, WorkersKept
<1>6. PipePlaced'
  <2>1. ASSUME NEW q \in 1..Len(pipe')
        PROVE  Exiting(pipe[q].fd, pipe[q].from)'
    <3>1. /\ Len(pipe') = Len(pipe) + 1
          /\ \A p \in 1..Len(pipe) : pipe'[p] = pipe[p]
          /\ pipe'[Len(pipe) + 1] = [fd |-> t.fd, from |-> t.text.from]
      BY NotifyEffect, Zenon
    <3>2. Len(pipe) \in Nat
      BY TypeParts, LenProperties DEF IInv, TypedPool
    <3>3. CASE q \in 1..Len(pipe)
      <4>1. pipe'[q] = pipe[q] /\ Kept(pipe[q].from)
        BY <1>2, <3>1, <3>3, ItemTypes
      <4> QED
        BY <3>3, <4>1, PipedKept
    <3>4. CASE q = Len(pipe) + 1
      <4>1. Exiting(t.fd, t.text.from) /\ t.fd \in ClientFds /\ t.text.from \in Clients
        BY ItemTypes DEF Placed, WorkersPlaced, Notify
      <4>2. Exiting(t.fd, t.text.from)'
        BY <1>2, <4>1, ExitingKept
      <4>3. pipe'[q].fd = t.fd /\ pipe'[q].from = t.text.from
        BY <3>1, <3>4
      <4> QED
        BY <4>2, <4>3, Zenon DEF Exiting, ExitGranted
    <3> QED
      BY <3>1, <3>2, <3>3, <3>4
  <2> QED
    BY <2>1, Zenon DEF PipePlaced
<1> QED
  BY <1>3, <1>4, <1>5, <1>6 DEF Placed

LEMMA PlacedSend ==
  ASSUME IInv, Placed, Answered, Manners = "patient", NEW c \in Clients, SendLine(c)
  PROVE  Placed'
<1>1. UNCHANGED <<left, delivered, owner, queue, running, pipe>>
  BY DEF SendLine, sockets, pool
<1>2. c \notin left /\ ~ExitGranted(c) /\ Uninvolved(c)
  BY SendsAlone
<1>3. /\ written'[c] = written[c] + 1
      /\ \A d \in Clients : d # c => written'[d] = written[d] /\ inbox'[d] = inbox[d]
      /\ Len(inbox'[c]) = Len(inbox[c]) + 1
      /\ inbox'[c][Len(inbox[c]) + 1].from = c
      /\ inbox'[c][Len(inbox[c]) + 1].n = written[c] + 1
  BY SendReads
<1>4. \A d \in Clients : d # c => Kept(d)
  BY <1>1, <1>3, Untouched
<1>5. Len(inbox[c]) = 0
  BY <1>2, EmptySeq DEF Uninvolved
<1>6. Awaits(c)'
  <2>1. written[c] \in Nat
    BY TypeParts DEF IInv, TypedEnvironment
  <2>2. written'[c] # 0
    BY <1>3, <2>1
  <2>3. \A d \in delivered' : d.text.from = c => d.text.n # written'[c]
    <3>1. SUFFICES ASSUME NEW d \in delivered, d.text.from = c
                   PROVE  d.text.n # written[c] + 1
      BY <1>1, <1>3, Zenon
    <3>2. d.text.n \in Nat /\ d.text.n <= written[c]
      BY <3>1, ItemTypes DEF Answered
    <3> QED
      BY <2>1, <3>2
  <2>4. c \notin left' /\ ~ExitGranted(c)'
    BY <1>1, <1>2, Zenon DEF ExitGranted
  <2> QED
    BY <2>2, <2>3, <2>4 DEF Awaits
<1>7. InboxesPlaced'
  <2>1. ASSUME NEW d \in Clients, inbox'[d] # <<>>
        PROVE  /\ Len(inbox'[d]) = 1
               /\ inbox'[d][1].from = d
               /\ inbox'[d][1].n = written'[d]
               /\ Awaits(d)'
    <3>1. CASE d = c
      BY <1>3, <1>5, <1>6, <3>1
    <3>2. CASE d # c
      BY <1>4, <2>1, <3>2, InboxKept
    <3> QED
      BY <3>1, <3>2
  <2> QED
    BY <2>1, Zenon DEF InboxesPlaced
<1>8. QueuePlaced'
  <2>1. \A p \in 1..Len(queue) : Kept(queue[p].text.from)
    BY <1>2, <1>4, ItemTypes DEF Uninvolved
  <2> QED
    BY <1>1, <2>1, QueueKept
<1>9. WorkersPlaced'
  <2>1. \A t \in running : Kept(t.text.from)
    BY <1>2, <1>4, ItemTypes DEF Uninvolved
  <2> QED
    BY <1>1, <2>1, WorkersKept
<1>10. PipePlaced'
  <2>1. \A p \in 1..Len(pipe) : Kept(pipe[p].from)
    BY <1>2, <1>4, ItemTypes DEF Uninvolved
  <2> QED
    BY <1>1, <2>1, PipeKept
<1> QED
  BY <1>7, <1>8, <1>9, <1>10 DEF Placed

\* accept takes no descriptor from anybody.
LEMMA AcceptKeepsOwners ==
  ASSUME IInv, Accept
  PROVE  /\ \A c \in Clients, fd \in ClientFds : owner[fd] = c => owner'[fd] = c
         /\ UNCHANGED <<left, delivered, written, inbox, queue, running, pipe>>
<1>1. owner \in [ClientFds -> Clients \cup {NoClient}]
  BY TypeParts DEF IInv, TypedSockets
<1>2. UNCHANGED <<left, delivered, written, inbox, queue, running, pipe>>
  BY Zenon DEF Accept, pool, environment
<1>3. UNCHANGED owner \/ \E s \in Slots, fd \in ClientFds : Taken(s, fd, backlog[1])
  <2>1. CASE ListenFd \in ready
    BY <2>1, AcceptEffect DEF Refused
  <2>2. CASE ListenFd \notin ready
    BY <2>2 DEF Accept, sockets
  <2> QED
    BY <2>1, <2>2
<1>4. ASSUME NEW c \in Clients, NEW fd \in ClientFds, owner[fd] = c
      PROVE  owner'[fd] = c
  <2>1. CASE UNCHANGED owner
    BY <1>4, <2>1
  <2>2. CASE \E s \in Slots, g \in ClientFds : Taken(s, g, backlog[1])
    <3>1. PICK g \in ClientFds : owner[g] = NoClient /\ owner' = [owner EXCEPT ![g] = backlog[1]]
      BY <2>2 DEF Taken
    <3>2. g # fd
      BY <1>4, <3>1, ClientsAreNumbers
    <3> QED
      BY <1>1, <1>4, <3>1, <3>2
  <2> QED
    BY <1>3, <2>1, <2>2
<1> QED
  BY <1>2, <1>4

LEMMA PlacedStep ==
  ASSUME IInv, Serves, Manners = "patient", [Next]_vars
  PROVE  Placed'
<1>1. Placed /\ Single /\ Answered
  BY DEF Serves
<1>2. ASSUME UNCHANGED <<owner, left, inbox, written, delivered, queue, running, pipe>>
      PROVE  Placed'
  <2>1. \A c \in Clients : Kept(c)
    BY <1>2, Untouched
  <2> QED
    BY <1>1, <1>2, <2>1, PlacedKept
<1>3. Select \/ AcceptFails \/ Skip
        => UNCHANGED <<owner, left, inbox, written, delivered, queue, running, pipe>>
  BY DEF Select, AcceptFails, Skip, sockets, environment, pool
<1>4. ReadNotification => Placed'
  <2>1. CASE ReadNotification /\ NotifyFd \in ready
    BY <1>1, <2>1, PlacedRead
  <2>2. CASE ReadNotification /\ NotifyFd \notin ready
    BY <1>2, <2>2 DEF ReadNotification, sockets, environment
  <2> QED
    BY <2>1, <2>2
<1>5. Accept => Placed'
  <2> SUFFICES ASSUME Accept
               PROVE  Placed'
    OBVIOUS
  <2>1. /\ \A c \in Clients, fd \in ClientFds : owner[fd] = c => owner'[fd] = c
        /\ UNCHANGED <<left, delivered, written, inbox, queue, running, pipe>>
    BY AcceptKeepsOwners
  <2>2. \A c \in Clients : Kept(c)
    BY <2>1, Untouched
  <2> QED
    BY <1>1, <2>1, <2>2, PlacedKept
<1>6. Receive => Placed'
  BY <1>1, PlacedReceive
<1>7. Hangup => Placed'
  <2> SUFFICES ASSUME Hangup
               PROVE  Placed'
    OBVIOUS
  <2> DEFINE e == owner[client_fds[i]]
  <2>1. UNCHANGED <<left, delivered, written, inbox, queue, running, pipe>>
    BY DEF Hangup, environment, pool
  <2>2. client_fds[i] \in ClientFds /\ close_client(client_fds[i]) /\ Uninvolved(e)
    BY <1>1, HangupEffect
  <2>3. \A c \in Clients : c # e => Kept(c)
    BY <2>1, <2>2, CloseTouches
  <2>4. \A c \in Clients : c = e => Uninvolved(c) /\ inbox'[c] = <<>>
    BY <2>1, <2>2, Zenon DEF Uninvolved
  <2> HIDE DEF e
  <2>5. \A c \in Clients : Kept(c) \/ (Uninvolved(c) /\ inbox'[c] = <<>>)
    BY <2>3, <2>4, Zenon
  <2> QED
    BY <1>1, <2>1, <2>5, PlacedKept
<1>8. Take => Placed'
  BY <1>1, PlacedTake
<1>9. \A t \in running : Answer(t) => Placed'
  BY <1>1, PlacedAnswer
<1>10. \A t \in running : Notify(t) => Placed'
  BY <1>1, PlacedNotify
<1>11. \A c \in Clients : Connect(c)
         => UNCHANGED <<owner, left, inbox, written, delivered, queue, running, pipe>>
  BY DEF Connect, pool
<1>12. \A c \in Clients : SendLine(c) => Placed'
  BY <1>1, PlacedSend
<1>13. \A c \in Clients : Leave(c) => Placed'
  <2> SUFFICES ASSUME NEW c \in Clients, Leave(c)
               PROVE  Placed'
    OBVIOUS
  <2>1. UNCHANGED <<owner, delivered, written, inbox, queue, running, pipe>>
        /\ left' = left \cup {c}
    BY DEF Leave, sockets, pool
  <2>2. Uninvolved(c)
    BY <1>1, SendsAlone
  <2>3. inbox'[c] = <<>>
    BY <2>1, <2>2 DEF Uninvolved
  <2>4. \A d \in Clients : d # c => Kept(d)
    BY <2>1, Zenon DEF Kept
  <2> QED
    BY <1>1, <2>1, <2>2, <2>3, <2>4, PlacedKept
<1>14. UNCHANGED vars
         => UNCHANGED <<owner, left, inbox, written, delivered, queue, running, pipe>>
  BY DEF vars
<1> QED
  BY <1>2, <1>3, <1>4, <1>5, <1>6, <1>7, <1>8, <1>9, <1>10, <1>11, <1>12, <1>13, <1>14,
     Steps, Zenon

-----------------------------------------------------------------------------
(* Patient clients: one line each.                                         *)

LEMMA SingleStep ==
  ASSUME IInv, Serves, [Next]_vars
  PROVE  Single'
<1>1. Placed /\ Single
  BY DEF Serves
<1>2. ASSUME UNCHANGED <<queue, running, pipe>>
      PROVE  Single'
  BY <1>1, <1>2 DEF Single
<1>3. Select \/ Accept \/ AcceptFails \/ Skip \/ Hangup => UNCHANGED <<queue, running, pipe>>
  BY Zenon DEF Select, Accept, AcceptFails, Skip, Hangup, pool
<1>4. ReadNotification => Single'
  <2>1. CASE ReadNotification /\ NotifyFd \in ready
    <3>1. UNCHANGED <<queue, running>>
      BY <2>1 DEF ReadNotification
    <3>2. \A q \in 1..Len(pipe') : q + 1 \in 1..Len(pipe) /\ pipe'[q] = pipe[q + 1]
      BY <1>1, <2>1, ReadEffect
    <3>3. \A t \in running : \A p \in 1..Len(pipe') : pipe'[p].from # t.text.from
      BY <1>1, <3>2 DEF Single
    <3>4. ASSUME NEW p \in 1..Len(pipe'), NEW q \in 1..Len(pipe'), pipe'[p].from = pipe'[q].from
          PROVE  p = q
      <4>1. /\ p + 1 \in 1..Len(pipe) /\ q + 1 \in 1..Len(pipe)
            /\ pipe[p + 1].from = pipe[q + 1].from
        BY <3>2, <3>4
      <4>2. p + 1 = q + 1
        BY <1>1, <4>1, Zenon DEF Single
      <4> QED
        BY <4>2
    <3> QED
      BY <1>1, <3>1, <3>3, <3>4, Zenon DEF Single
  <2>2. CASE ReadNotification /\ NotifyFd \notin ready
    BY <1>2, <2>2 DEF ReadNotification
  <2> QED
    BY <2>1, <2>2
<1>5. Receive => Single'
  <2> SUFFICES ASSUME Receive
               PROVE  Single'
    OBVIOUS
  <2> DEFINE e == owner[client_fds[i]]
             last == Len(queue) + 1
  <2>1. UNCHANGED <<running, pipe>>
    BY DEF Receive
  <2>2. /\ e \in Clients /\ inbox[e] # <<>>
        /\ Len(queue) \in Nat /\ Len(queue') = last
        /\ \A p \in 1..Len(queue) : queue'[p] = queue[p]
        /\ queue'[last].text = inbox[e][1]
    BY <1>1, ReceiveOne
  <2>3. queue'[last].text.from = e
    BY <1>1, <2>2 DEF Placed, InboxesPlaced
  <2>4. /\ \A p \in 1..Len(queue) : queue[p].text.from # e
        /\ \A t \in running : t.text.from # e
    BY <1>1, <2>2, InboxAlone
  <2> HIDE DEF e
  <2>5. \A p \in 1..Len(queue') :
           \/ p \in 1..Len(queue) /\ queue'[p] = queue[p] /\ queue'[p].text.from # e
           \/ p = last /\ queue'[p].text.from = e
    <3>1. \A p \in 1..Len(queue') : p \in 1..Len(queue) \/ p = last
      BY <2>2
    <3> QED
      BY <2>2, <2>3, <2>4, <3>1
  <2>6. \A p, q \in 1..Len(queue') : queue'[p].text.from = queue'[q].text.from => p = q
    BY <1>1, <2>5 DEF Single
  <2>7. \A t \in running : \A p \in 1..Len(queue') : queue'[p].text.from # t.text.from
    BY <1>1, <2>4, <2>5 DEF Single
  <2> QED
    BY <1>1, <2>1, <2>6, <2>7, Zenon DEF Single
<1>6. Take => Single'
  <2> SUFFICES ASSUME Take
               PROVE  Single'
    OBVIOUS
  <2>1. UNCHANGED pipe
    BY DEF Take
  <2>2. /\ 1 \in 1..Len(queue)
        /\ \A p \in 1..Len(queue') :
              p + 1 \in 1..Len(queue) /\ p + 1 # 1 /\ queue'[p] = queue[p + 1]
    <3>1. \A p \in 2..Len(queue) : p \in 1..Len(queue) /\ p # 1
      OBVIOUS
    <3> QED
      BY <3>1, TakeEffect, Zenon
  <2>3. \A t \in running' : t \in running \/ t.text = queue[1].text
    BY TakeEffect
  <2>4. \A t, u \in running' : t \notin running /\ u \notin running => t = u
    BY TakeEffect
  <2>5. \A p \in 1..Len(pipe) : pipe[p].from # queue[1].text.from
    <3>1. SUFFICES ASSUME NEW p \in 1..Len(pipe), pipe[p].from = queue[1].text.from
                   PROVE  FALSE
      BY Zenon
    <3>2. Exiting(pipe[p].fd, pipe[p].from) /\ Asked(queue[1].fd, queue[1].text)
      BY <1>1, <2>2 DEF Placed, PipePlaced, QueuePlaced
    <3> QED
      BY <3>1, <3>2, Zenon DEF Exiting, Asked, Awaits, ExitGranted
  <2>6. \A p, q \in 1..Len(queue') : queue'[p].text.from = queue'[q].text.from => p = q
    <3>1. SUFFICES ASSUME NEW p \in 1..Len(queue'), NEW q \in 1..Len(queue'),
                          queue'[p].text.from = queue'[q].text.from
                   PROVE  p = q
      BY Zenon
    <3>2. /\ p + 1 \in 1..Len(queue) /\ queue'[p] = queue[p + 1]
          /\ q + 1 \in 1..Len(queue) /\ queue'[q] = queue[q + 1]
      BY <2>2, Zenon
    <3>3. queue[p + 1].text.from = queue[q + 1].text.from
      BY <3>1, <3>2, Zenon
    <3>4. p + 1 = q + 1
      BY <1>1, <3>2, <3>3, Zenon DEF Single
    <3> QED
      BY <3>4
  <2>7. \A t, u \in running' : t.text.from = u.text.from => t = u
    <3>1. \A t \in running : t.text.from # queue[1].text.from
      BY <1>1, <2>2, Zenon DEF Single
    <3> QED
      BY <1>1, <2>3, <2>4, <3>1, Zenon DEF Single
  <2>8. \A t \in running' :
           /\ \A p \in 1..Len(queue') : queue'[p].text.from # t.text.from
           /\ \A p \in 1..Len(pipe) : pipe[p].from # t.text.from
    <3>1. ASSUME NEW t \in running'
          PROVE  /\ \A p \in 1..Len(queue') : queue'[p].text.from # t.text.from
                 /\ \A p \in 1..Len(pipe) : pipe[p].from # t.text.from
      <4>1. CASE t \in running
        <5>1. /\ \A p \in 1..Len(queue) : queue[p].text.from # t.text.from
              /\ \A p \in 1..Len(pipe) : pipe[p].from # t.text.from
          BY <1>1, <4>1, Zenon DEF Single
        <5> QED
          BY <2>2, <5>1, Zenon
      <4>2. CASE t.text = queue[1].text
        <5>1. ASSUME NEW p \in 1..Len(queue')
              PROVE  queue'[p].text.from # t.text.from
          <6>1. p + 1 \in 1..Len(queue) /\ p + 1 # 1 /\ queue'[p] = queue[p + 1]
            BY <2>2, Zenon
          <6>2. queue[p + 1].text.from # queue[1].text.from
            BY <1>1, <2>2, <6>1, Zenon DEF Single
          <6> QED
            BY <4>2, <6>1, <6>2, Zenon
        <5> QED
          BY <2>5, <4>2, <5>1, Zenon
      <4> QED
        BY <2>3, <4>1, <4>2
    <3> QED
      BY <3>1, Zenon
  <2> QED
    BY <1>1, <2>1, <2>6, <2>7, <2>8, Zenon DEF Single
<1>7. \A t \in running : Answer(t) => Single'
  <2> SUFFICES ASSUME NEW t \in running, Answer(t)
               PROVE  Single'
    OBVIOUS
  <2>1. UNCHANGED <<queue, pipe>>
    BY Zenon DEF Answer
  <2>2. running' \subseteq (running \ {t}) \cup {[t EXCEPT !.stage = "notify"]}
    BY AnswerChoice, Zenon
  <2>3. [t EXCEPT !.stage = "notify"].text = t.text
    BY ItemTypes, ToNotify
  <2>4. \A u \in running' : (u \in running /\ u # t) \/ u = [t EXCEPT !.stage = "notify"]
    BY <2>2, Zenon
  <2>5. \A u \in running' : \E v \in running : u.text = v.text
    BY <2>3, <2>4, Zenon
  <2>6. \A u, v \in running' : u.text.from = v.text.from => u = v
    <3>1. SUFFICES ASSUME NEW u \in running', NEW v \in running', u.text.from = v.text.from
                   PROVE  u = v
      BY Zenon
    <3>2. \A x, y \in running : x.text.from = y.text.from => x = y
      BY <1>1, Zenon DEF Single
    <3>3. CASE u \in running /\ u # t
      <4>1. v \in running /\ v # t
        BY <2>3, <2>4, <3>1, <3>2, <3>3, Zenon
      <4> QED
        BY <3>1, <3>2, <3>3, <4>1, Zenon
    <3>4. CASE u = [t EXCEPT !.stage = "notify"]
      <4>1. v = [t EXCEPT !.stage = "notify"]
        BY <2>3, <2>4, <3>1, <3>2, <3>4, Zenon
      <4> QED
        BY <3>4, <4>1, Zenon
    <3> QED
      BY <2>4, <3>3, <3>4, Zenon
  <2>7. \A u \in running' :
           /\ \A p \in 1..Len(queue) : queue[p].text.from # u.text.from
           /\ \A p \in 1..Len(pipe) : pipe[p].from # u.text.from
    <3>1. ASSUME NEW u \in running'
          PROVE  /\ \A p \in 1..Len(queue) : queue[p].text.from # u.text.from
                 /\ \A p \in 1..Len(pipe) : pipe[p].from # u.text.from
      <4>1. PICK v \in running : u.text = v.text
        BY <2>5, Zenon
      <4>2. /\ \A p \in 1..Len(queue) : queue[p].text.from # v.text.from
            /\ \A p \in 1..Len(pipe) : pipe[p].from # v.text.from
        BY <1>1, Zenon DEF Single
      <4> QED
        BY <4>1, <4>2
    <3> QED
      BY <3>1, Zenon
  <2> QED
    BY <1>1, <2>1, <2>6, <2>7, Zenon DEF Single
<1>8. \A t \in running : Notify(t) => Single'
  <2> SUFFICES ASSUME NEW t \in running, Notify(t)
               PROVE  Single'
    OBVIOUS
  <2>1. UNCHANGED queue /\ running' = running \ {t}
    BY DEF Notify
  <2>2. /\ Len(pipe') = Len(pipe) + 1
        /\ \A p \in 1..Len(pipe) : pipe'[p] = pipe[p]
        /\ pipe'[Len(pipe) + 1] = [fd |-> t.fd, from |-> t.text.from]
    BY NotifyEffect, Zenon
  <2>3. Len(pipe) \in Nat
    BY TypeParts, LenProperties DEF IInv, TypedPool
  <2>4. \A p \in 1..Len(pipe) : pipe[p].from # t.text.from
    BY <1>1 DEF Single
  <2>5. \A p \in 1..Len(pipe') :
           \/ p \in 1..Len(pipe) /\ pipe'[p] = pipe[p] /\ pipe'[p].from # t.text.from
           \/ p = Len(pipe) + 1 /\ pipe'[p].from = t.text.from
    <3>1. \A p \in 1..Len(pipe') : p \in 1..Len(pipe) \/ p = Len(pipe) + 1
      BY <2>2, <2>3
    <3> QED
      BY <2>2, <2>4, <3>1
  <2>6. \A p, q \in 1..Len(pipe') : pipe'[p].from = pipe'[q].from => p = q
    BY <1>1, <2>5 DEF Single
  <2>7. \A u \in running' : u \in running /\ u.text.from # t.text.from
    BY <1>1, <2>1, Zenon DEF Single
  <2>8. \A u \in running' : \A p \in 1..Len(pipe') : pipe'[p].from # u.text.from
    BY <1>1, <2>5, <2>7 DEF Single
  <2>9. \A u, v \in running' : u.text.from = v.text.from => u = v
    BY <1>1, <2>7, Zenon DEF Single
  <2>10. \A u \in running' : \A p \in 1..Len(queue') : queue'[p].text.from # u.text.from
    BY <1>1, <2>1, <2>7, Zenon DEF Single
  <2>11. \A p, q \in 1..Len(queue') : queue'[p].text.from = queue'[q].text.from => p = q
    BY <1>1, <2>1, Zenon DEF Single
  <2> QED
    BY <2>6, <2>8, <2>9, <2>10, <2>11, Zenon DEF Single
<1>9. \A c \in Clients : Connect(c) \/ SendLine(c) \/ Leave(c) => UNCHANGED <<queue, running, pipe>>
  BY DEF Connect, SendLine, Leave, pool
<1>10. UNCHANGED vars => UNCHANGED <<queue, running, pipe>>
  BY DEF vars
<1> QED
  BY <1>2, <1>3, <1>4, <1>5, <1>6, <1>7, <1>8, <1>9, <1>10, Steps, Zenon

-----------------------------------------------------------------------------
(* Patient clients: who is answered, and who is closed.                    *)

LEMMA AnsweredStep ==
  ASSUME IInv, Serves, Manners = "patient", [Next]_vars
  PROVE  Answered'
<1>1. Placed /\ Answered
  BY DEF Serves
<1>2. written \in [Clients -> Nat]
  BY TypeParts DEF IInv, TypedEnvironment
<1>3. ASSUME UNCHANGED <<delivered, written>>
      PROVE  Answered'
  BY <1>1, <1>3 DEF Answered
<1>4. Select \/ ReadNotification \/ Accept \/ AcceptFails \/ Skip \/ Receive \/ Hangup \/ Take
        => UNCHANGED <<delivered, written>>
  BY Zenon DEF Select, ReadNotification, Accept, AcceptFails, Skip, Receive, Hangup, Take,
               environment, pool
<1>5. \A t \in running : Answer(t) => Answered'
  <2> SUFFICES ASSUME NEW t \in running, Answer(t)
               PROVE  Answered'
    OBVIOUS
  <2>1. t.text.n = written[t.text.from] /\ written' = written /\ \E a : Told(t, a)
    BY <1>1, AnswerEffect
  <2> PICK a : Told(t, a)
    BY <2>1
  <2>2. t.text.from \in Clients
    BY ItemTypes
  <2>3. written[t.text.from] \in Nat
    BY <1>2, <2>2
  <2>4. ASSUME NEW d \in delivered'
        PROVE  d.to = d.text.from /\ d.text.n <= written'[d.text.from]
    <3>1. CASE d \in delivered
      BY <1>1, <2>1, <3>1 DEF Answered
    <3>2. CASE d = [text |-> t.text, to |-> t.text.from, answer |-> a]
      <4>1. d.text = t.text /\ d.to = t.text.from
        BY <3>2
      <4> QED
        BY <2>1, <2>3, <4>1
    <3> QED
      BY <3>1, <3>2 DEF Told
  <2> QED
    BY <2>4, Zenon DEF Answered
<1>6. \A t \in running : Notify(t) => UNCHANGED <<delivered, written>>
  BY DEF Notify, environment
<1>7. \A c \in Clients : SendLine(c) => Answered'
  <2> SUFFICES ASSUME NEW c \in Clients, SendLine(c)
               PROVE  Answered'
    OBVIOUS
  <2>1. delivered' = delivered
    BY DEF SendLine, pool
  <2>2. written'[c] = written[c] + 1 /\ \A d \in Clients : d # c => written'[d] = written[d]
    BY SendReads
  <2>3. \A d \in Clients : written[d] \in Nat
    BY <1>2
  <2>4. ASSUME NEW d \in delivered
        PROVE  d.to = d.text.from /\ d.text.n <= written'[d.text.from]
    <3>1. d.text.from \in Clients /\ d.text.n \in Nat
      BY ItemTypes
    <3>2. d.to = d.text.from /\ d.text.n <= written[d.text.from]
      BY <1>1 DEF Answered
    <3>3. written'[d.text.from] = written[d.text.from] \/ written'[d.text.from] = written[d.text.from] + 1
      BY <2>2, <3>1
    <3>4. written[d.text.from] \in Nat
      BY <2>3, <3>1
    <3> QED
      BY <3>1, <3>2, <3>3, <3>4
  <2> QED
    BY <2>1, <2>4, Zenon DEF Answered
<1>8. \A c \in Clients : Connect(c) \/ Leave(c) => UNCHANGED <<delivered, written>>
  BY DEF Connect, Leave, pool
<1>9. UNCHANGED vars => UNCHANGED <<delivered, written>>
  BY DEF vars
<1> QED
  BY <1>3, <1>4, <1>5, <1>6, <1>7, <1>8, <1>9, Steps, Zenon

\* Who has left or was told BYE stays so.
LEMMA GoneStays ==
  ASSUME [Next]_vars
  PROVE  left \subseteq left' /\ delivered \subseteq delivered'
<1> DEFINE P == left \subseteq left' /\ delivered \subseteq delivered'
<1>1. UNCHANGED <<left, delivered>> => P
  OBVIOUS
<1>2. Select \/ ReadNotification \/ Accept \/ AcceptFails \/ Skip \/ Receive \/ Hangup \/ Take
        => UNCHANGED <<left, delivered>>
  BY Zenon DEF Select, ReadNotification, Accept, AcceptFails, Skip, Receive, Hangup, Take,
               environment, pool
<1>3. \A t \in running : Answer(t) => P
  <2> SUFFICES ASSUME NEW t \in running, Answer(t)
               PROVE  P
    OBVIOUS
  <2>1. left' = left
    BY Zenon DEF Answer, environment
  <2>2. delivered \subseteq delivered'
    BY AnswerChoice, Zenon
  <2> QED
    BY <2>1, <2>2
<1>4. \A t \in running : Notify(t) => UNCHANGED <<left, delivered>>
  BY DEF Notify, environment
<1>5. \A c \in Clients : Connect(c) \/ SendLine(c) => UNCHANGED <<left, delivered>>
  BY DEF Connect, SendLine, pool
<1>6. \A c \in Clients : Leave(c) => P
  BY DEF Leave, pool
<1>7. UNCHANGED vars => UNCHANGED <<left, delivered>>
  BY DEF vars
<1> HIDE DEF P
<1>8. P
  BY <1>1, <1>2, <1>3, <1>4, <1>5, <1>6, <1>7, Steps, Zenon
<1> QED
  BY <1>8 DEF P

\* A step that closes the connection of client c.
LEMMA ClosedBy ==
  ASSUME IInv, Placed, Single, [Next]_vars, NEW c \in Clients,
         conn'[c] = "closed", conn[c] # "closed"
  PROVE  c \in left \/ ExitGranted(c)
<1> DEFINE P == c \in left \/ ExitGranted(c)
<1>1. TypedSockets
  BY TypeParts DEF IInv
<1>2. UNCHANGED conn => P
  OBVIOUS
<1>3. ASSUME NEW fd \in ClientFds, close_client(fd)
      PROVE  owner[fd] = c
  <2>1. conn' = IF owner[fd] = NoClient THEN conn ELSE [conn EXCEPT ![owner[fd]] = "closed"]
    BY <1>3, CloseEffect
  <2> QED
    BY <1>1, <2>1 DEF TypedSockets
<1>4. Select \/ AcceptFails \/ Skip \/ Receive \/ Take => UNCHANGED conn
  BY DEF Select, AcceptFails, Skip, Receive, Take, sockets
<1>5. ReadNotification => P
  <2>1. CASE ReadNotification /\ NotifyFd \in ready
    <3>1. /\ close_client(pipe[1].fd) /\ pipe[1].fd \in ClientFds
          /\ ExitGranted(owner[pipe[1].fd])
      BY <2>1, ReadEffect
    <3>2. owner[pipe[1].fd] = c
      BY <1>3, <3>1
    <3> QED
      BY <3>1, <3>2, Zenon DEF ExitGranted
  <2>2. CASE ReadNotification /\ NotifyFd \notin ready
    BY <1>2, <2>2 DEF ReadNotification, sockets
  <2> QED
    BY <2>1, <2>2
<1>6. Accept => P
  <2>1. CASE Accept /\ ListenFd \in ready
    <3>1. \/ Refused(backlog[1])
          \/ \E s \in Slots, fd \in ClientFds : Taken(s, fd, backlog[1])
      BY <2>1, AcceptEffect
    <3>2. conn'[c] \in {conn[c], "open", "refused"}
      BY <1>1, <3>1 DEF Refused, Taken, TypedSockets
    <3> QED
      BY <3>2
  <2>2. CASE Accept /\ ListenFd \notin ready
    BY <1>2, <2>2 DEF Accept, sockets
  <2> QED
    BY <2>1, <2>2
<1>7. Hangup => P
  <2> SUFFICES ASSUME Hangup
               PROVE  P
    OBVIOUS
  <2>1. /\ client_fds[i] \in ClientFds /\ close_client(client_fds[i])
        /\ owner[client_fds[i]] \in left
    BY HangupEffect
  <2>2. owner[client_fds[i]] = c
    BY <1>3, <2>1
  <2> QED
    BY <2>1, <2>2
<1>8. \A t \in running : Answer(t) \/ Notify(t) => UNCHANGED conn
  BY Zenon DEF Answer, Notify, sockets
<1>9. \A d \in Clients : Connect(d) => P
  <2> SUFFICES ASSUME NEW d \in Clients, Connect(d)
               PROVE  P
    OBVIOUS
  <2>1. conn'[c] \in {conn[c], "waiting"}
    BY <1>1 DEF TypedSockets, Connect
  <2> QED
    BY <2>1
<1>10. \A d \in Clients : SendLine(d) \/ Leave(d) => UNCHANGED conn
  BY DEF SendLine, Leave, sockets
<1>11. UNCHANGED vars => UNCHANGED conn
  BY DEF vars
<1> HIDE DEF P
<1>12. P
  BY <1>2, <1>4, <1>5, <1>6, <1>7, <1>8, <1>9, <1>10, <1>11, Steps, Zenon
<1> QED
  BY <1>12 DEF P

LEMMA OnlyExitClosesStep ==
  ASSUME IInv, Serves, [Next]_vars
  PROVE  OnlyExitCloses'
<1>1. Placed /\ Single /\ OnlyExitCloses
  BY DEF Serves
<1>2. ASSUME NEW c \in Clients, conn'[c] = "closed"
      PROVE  c \in left' \/ ExitGranted(c)'
  <2>1. c \in left \/ ExitGranted(c)
    <3>1. CASE conn[c] = "closed"
      BY <1>1, <3>1 DEF OnlyExitCloses
    <3>2. CASE conn[c] # "closed"
      BY <1>1, <1>2, <3>2, ClosedBy
    <3> QED
      BY <3>1, <3>2
  <2>2. ExitGranted(c) => ExitGranted(c)'
    BY GoneStays DEF ExitGranted
  <2> QED
    BY <2>1, <2>2, GoneStays
<1> QED
  BY <1>2, Zenon DEF OnlyExitCloses

-----------------------------------------------------------------------------
(* What patient clients can rely on.                                       *)

LEMMA ServesInitially == Init => Serves
<1> SUFFICES ASSUME Init
             PROVE  Serves
  OBVIOUS
<1>1. Placed
  BY EmptySeq DEF Init, Placed, InboxesPlaced, QueuePlaced, WorkersPlaced, PipePlaced
<1>2. Single
  BY EmptySeq DEF Init, Single
<1>3. Answered /\ OnlyExitCloses
  BY DEF Init, Answered, OnlyExitCloses
<1> QED
  BY <1>1, <1>2, <1>3 DEF Serves

LEMMA ServesConsecution ==
  ASSUME Manners = "patient"
  PROVE  IInv /\ Serves /\ [Next]_vars => Serves'
BY PlacedStep, SingleStep, AnsweredStep, OnlyExitClosesStep, Zenon DEF Serves

\* Every line is in one place, with a descriptor that is still its client's.
THEOREM PatientClientsAreServed ==
  ASSUME Manners = "patient"
  PROVE  Spec => []Serves
BY Invariant, ServesInitially, ServesConsecution, PTL DEF Spec

\* A worker's send reaches the client that sent the command, for any number of
\* clients, slots, workers and commands, when clients wait for their answers
\* and leave it to the server to close after EXIT.
THEOREM RepliesArrive ==
  ASSUME Manners = "patient"
  PROVE  Spec => []RepliesReachTheirClient
<1>1. Serves => RepliesReachTheirClient
  BY DEF Serves, Answered, RepliesReachTheirClient
<1> QED
  BY <1>1, PatientClientsAreServed, PTL

\* The loop closes no connection but those of clients that left or were
\* answered their EXIT: a notification never hits a descriptor that was given
\* to somebody else meanwhile.
THEOREM ClosedAfterExitOnly ==
  ASSUME Manners = "patient"
  PROVE  Spec => []OnlyExitCloses
<1>1. Serves => OnlyExitCloses
  BY DEF Serves
<1> QED
  BY <1>1, PatientClientsAreServed, PTL
=============================================================================

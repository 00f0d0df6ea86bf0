---------------------------- MODULE LineFraming ----------------------------
(***************************************************************************)
(* The text clients send, the buffers in which the server (server.c)       *)
(* collects it, and the lines it cuts from them for the worker pool.  A    *)
(* connection is a byte stream: recv returns any part of what is under     *)
(* way.  Slots, and with them buffers, pass from client to client.         *)
(***************************************************************************)
EXTENDS CommandLine

CONSTANTS
    ClientCount,     \* the clients that ever connect, numbered in that order
    MaxClients,      \* the number of slots
    BufferSize,      \* BUFFER_SIZE, in symbols
    Sessions,        \* client -> the lines it sends: text, and what it means
    SubmitMayFail    \* may worker_pool_submit return 0?

Clients == 1..ClientCount
NoClient == 0
Slots == 1..MaxClients

ASSUME LineFramingAssumption ==
    /\ ClientCount \in Nat
    /\ MaxClients \in Nat \ {0}
    /\ BufferSize \in Nat \ {0, 1}
    /\ \A x \in Sessions : \A c \in Clients :
          x[c] \in Seq([text : Seq(STRING), means : Requests])
    /\ SubmitMayFail \in BOOLEAN

-----------------------------------------------------------------------------
(* The clients.                                                            *)

\* What is meant by a line that is only there to be survived.
Anything == Request("anything", <<>>, 0)

\* A client can write an argument bare, if its text allows it, or in quotes.
Bare(arg) == arg # <<>> /\ Head(arg) # Quote /\ Range(arg) \cap Spaces = {}

Written(arg, style) ==
    IF style = "bare" /\ Bare(arg) THEN <<Blank>> \o arg
    ELSE (IF style = "tight" THEN <<>> ELSE <<Blank>>) \o <<Quote>> \o arg \o <<Quote>>

Words(r) ==
    << <<r.op>> >> \o r.args \o
    (IF r.seconds = 0 THEN <<>> ELSE << <<"ex">>, Decimal(r.seconds) >>)

\* A line that asks for r, with quotes as style says.
Ask(r, style, eol) ==
    [text |-> FlattenSeq([i \in DOMAIN Words(r) |-> Written(Words(r)[i], style)]) \o eol,
     means |-> r]

Odd(text, eol) == [text |-> text \o eol, means |-> Anything]

-----------------------------------------------------------------------------
VARIABLES
    client,      \* slot -> the client it serves
    buffer,      \* slot -> the text collected and not yet cut into lines
    session,     \* the member of Sessions that takes place
    received,    \* client -> how much of its text recv has returned
    left,        \* clients that closed or lost their connection
    submitted,   \* history: client -> the lines that became tasks
    told         \* history: client -> was it told that something is lost?

vars == <<client, buffer, session, received, left, submitted, told>>

Init ==
    /\ client = [s \in Slots |-> NoClient]
    /\ buffer = [s \in Slots |-> <<>>]
    /\ session \in Sessions
    /\ received = [c \in Clients |-> 0]
    /\ left = {}
    /\ submitted = [c \in Clients |-> <<>>]
    /\ told = [c \in Clients |-> FALSE]

\* The text of a client.  How much of it is under way is left open: recv may
\* return any part, as when the client pauses in between.
Stream(c) == FlattenSeq([n \in DOMAIN session[c] |-> session[c][n].text])

Connected(c) == \E s \in Slots : client[s] = c

-----------------------------------------------------------------------------
(* The server.                                                             *)

\* Faulty: the length survives the connection.
KeepBuffer(s) == UNCHANGED buffer

\* client_buffers[s][0] = '\0' and client_buffer_lengths[s] = 0.
ResetBuffer(s) == buffer' = [buffer EXCEPT ![s] = <<>>]

\* The first free slot is taken; clients arrive in the order of their numbers.
Accept(c) ==
    /\ ~Connected(c) /\ c \notin left
    /\ \A b \in 1..(c - 1) : Connected(b) \/ b \in left
    /\ \E s \in Slots :
          /\ client[s] = NoClient /\ \A r \in 1..(s - 1) : client[r] # NoClient
          /\ client' = [client EXCEPT ![s] = c]
          /\ ResetBuffer(s)
    /\ UNCHANGED <<session, received, left, submitted, told>>

\* close_client, after recv has returned 0 or an error.  An error may come
\* before all text was received.
Close(s) ==
    /\ client[s] \in left
    /\ client' = [client EXCEPT ![s] = NoClient]
    /\ ResetBuffer(s)
    /\ UNCHANGED <<session, received, left, submitted, told>>

\* Faulty: the terminating '\0' is forgotten.
FitsExactly(s, n) == Len(buffer[s]) + n <= BufferSize

Fits(s, n) == Len(buffer[s]) + n < BufferSize

\* recv returns n symbols of its client; temp has room for BufferSize - 1.
Receive(s, n) ==
    /\ client[s] # NoClient
    /\ n \in 1..(BufferSize - 1)
    /\ received[client[s]] + n <= Len(Stream(client[s]))
    /\ received' = [received EXCEPT ![client[s]] = @ + n]

\* "ERR command too long": what was buffered and what came are both dropped.
Drop(s, n) ==
    /\ Receive(s, n)
    /\ ~Fits(s, n)
    /\ ResetBuffer(s)
    /\ told' = [told EXCEPT ![client[s]] = TRUE]
    /\ UNCHANGED <<client, session, left, submitted>>

\* Faulty: one line is cut off per recv.
FirstNewline(text) ==
    LET end == Find(text, 1, {NUL, NL})
    IN  IF end <= Len(text) /\ text[end] = NL THEN <<end>> ELSE <<>>

\* The newlines strchr finds, one after the other: it stops at a NUL.
Newlines(text) ==
    Sorted({p \in DOMAIN text : text[p] = NL /\ p < Find(text, 1, {NUL})})

\* The line between two positions, without one CR at its end.
Line(text, after, end) ==
    LET cr == end - 1 > after /\ text[end - 1] = CR
    IN  SubSeq(text, after + 1, IF cr THEN end - 2 ELSE end - 1)

\* The text is appended and every complete line becomes a task, except that
\* worker_pool_submit may fail for it ("ERR failed to queue command").
Cut(s, n) ==
    /\ Receive(s, n)
    /\ Fits(s, n)
    /\ LET c == client[s]
           text == buffer[s] \o SubSeq(Stream(c), received[c] + 1, received[c] + n)
           ends == <<0>> \o Newlines(text)
           lines == [i \in 1..(Len(ends) - 1) |-> Line(text, ends[i], ends[i + 1])]
           queued(failed) == Sorted(DOMAIN lines \ failed)
       IN  \E failed \in SUBSET DOMAIN lines :
              /\ SubmitMayFail \/ failed = {}
              /\ submitted' = [submitted EXCEPT ![c] =
                    @ \o [i \in DOMAIN queued(failed) |-> lines[queued(failed)[i]]]]
              /\ told' = [told EXCEPT ![c] = @ \/ failed # {}]
              /\ buffer' = [buffer EXCEPT ![s] = SubSeq(text, Last(ends) + 1, Len(text))]
    /\ UNCHANGED <<client, session, left>>

\* The client closes or loses its connection.
Leave(c) ==
    /\ Connected(c) /\ c \notin left
    /\ left' = left \cup {c}
    /\ UNCHANGED <<client, buffer, session, received, submitted, told>>

Next ==
    \/ \E c \in Clients : Accept(c) \/ Leave(c)
    \/ \E s \in Slots : Close(s)
    \/ \E s \in Slots, n \in 1..(BufferSize - 1) : Drop(s, n) \/ Cut(s, n)

Spec == Init /\ [][Next]_vars

-----------------------------------------------------------------------------
(* Correctness.                                                            *)

\* The types of the variables; no buffer overflows: the text and its '\0' fit.
TypeOK ==
    /\ client \in [Slots -> Clients \cup {NoClient}]
    /\ \A s \in Slots : Len(buffer[s]) < BufferSize
    /\ \A c \in Clients : received[c] \in 0..Len(Stream(c))
    /\ left \subseteq Clients
    /\ told \in [Clients -> BOOLEAN]

\* A line ends with a newline and has no other.
Ended(text) ==
    /\ text # <<>>
    /\ text[Len(text)] = NL
    /\ \A p \in 1..(Len(text) - 1) : text[p] # NL

\* A client sends lines, and each that means something is understood when it
\* comes alone: what parsing owes to framing.
Understood(lines) ==
    \A n \in DOMAIN lines :
        LET text == lines[n].text
        IN  /\ Ended(text)
            /\ lines[n].means # Anything
                  => command_execute(Line(text, 0, Len(text))) = lines[n].means

Arrived(c) == SubSeq(Stream(c), 1, received[c])

\* README.md, Request Processing: commands are assembled from the stream,
\* parsed and executed.  Here, end to end: until a client is told that
\* something is lost, or sends a NUL, each line of which recv has returned the
\* newline is a task, in order, and command_execute takes it for the request
\* the client meant, however the stream was cut, the arguments were quoted and
\* the line was ended.
CommandsArrive ==
    \A c \in Clients : ~told[c] /\ NUL \notin Range(Arrived(c)) =>
        /\ Len(submitted[c]) = Cardinality({p \in 1..received[c] : Stream(c)[p] = NL})
        /\ \A n \in DOMAIN submitted[c] :
              session[c][n].means # Anything
                  => command_execute(submitted[c][n]) = session[c][n].means

\* The lines of a text, without their ends.
Lines(text) ==
    LET ends == <<0>> \o Sorted({p \in DOMAIN text : text[p] = NL})
    IN  [n \in 1..(Len(ends) - 1) |-> SubSeq(text, ends[n] + 1, ends[n + 1] - 1)]

\* Text of two lines, or of two clients, is never put together to a command,
\* also after overlong text, a NUL, a failed submission or a disconnect: the
\* tasks of a client are (the ends of) different lines of its own, in order.
NeverGlued ==
    \A c \in Clients :
        \E of \in [DOMAIN submitted[c] -> DOMAIN Lines(Arrived(c))] :
            /\ \A m, n \in DOMAIN of : m < n => of[m] < of[n]
            /\ \A n \in DOMAIN of :
                  LET line == Lines(Arrived(c))[of[n]]
                  IN  IsSuffix(submitted[c][n], line) \/ IsSuffix(submitted[c][n] \o <<CR>>, line)

\* The lock fits the command, although it is chosen before and apart from
\* parsing: what runs under the read lock is a GET, a TTL or an error, and a
\* GET or TTL that does not begin with a quote runs under it (README.md,
\* Concurrency: read commands can run concurrently).
LockFitsCommand ==
    \A c \in Clients : \A n \in DOMAIN submitted[c] :
        LET line == submitted[c][n]
            op == command_execute(line).op
        IN  /\ is_read_command(line) => op \in {"get", "ttl", "ERR"}
            /\ op \in {"get", "ttl"} /\ line[FindOther(line, 1, Spaces)] # Quote
                  => is_read_command(line)
=============================================================================

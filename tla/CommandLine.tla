---------------------------- MODULE CommandLine ----------------------------
(***************************************************************************)
(* From the text of a command to the request it makes: the tokenizer       *)
(* parse_command, the argument checks of command_execute (command.c), and  *)
(* is_read_command (worker_pool.c), which looks at the same text earlier   *)
(* to choose the lock.  Text is a sequence of symbols.  A command word or  *)
(* EX, in any mixture of case, is one symbol (both readers ignore case);   *)
(* other letters, digits and punctuation are a symbol each.                *)
(***************************************************************************)
EXTENDS Text

CONSTANTS
    MaxSeconds    \* LLONG_MAX

ASSUME MaxSecondsAssumption == MaxSeconds \in Nat \ {0}

MaxArgs == 5

-----------------------------------------------------------------------------
(* parse_command.                                                          *)

\* argc = -1; a line has no newline in it, so nothing else parses to this.
Invalid == << <<NL>> >>

Arg(first, rest) == IF rest = Invalid THEN Invalid ELSE <<first>> \o rest

\* The arguments of line.  A quoted one ends at the next quote, and what
\* follows it, if not blank, is the next argument; a bare one ends at a blank,
\* and a quote inside it is a symbol like any other.
Tokens(line) ==
    LET from[p \in 1..(Len(line) + 1)] ==
            IF p > Len(line) THEN <<>>
            ELSE IF line[p] \in Spaces THEN from[p + 1]
            ELSE IF line[p] = Quote
            THEN LET close == Find(line, p + 1, {Quote})
                 IN  IF close > Len(line) THEN Invalid
                     ELSE Arg(SubSeq(line, p + 1, close - 1), from[close + 1])
            ELSE LET end == Find(line, p, Spaces)
                 IN  Arg(SubSeq(line, p, end - 1), from[end])
    IN  from[1]

parse_command(line) ==
    IF Len(Tokens(line)) > MaxArgs THEN Invalid ELSE Tokens(line)

-----------------------------------------------------------------------------
(* parse_expiry_seconds.                                                   *)

SkipSpaces(text) == SubSeq(text, FindOther(text, 1, Spaces), Len(text))

\* The seconds, 0 when the argument is refused.  strtoll lets blanks and a
\* sign precede the digits and stops at LLONG_MAX; nothing may follow them,
\* and a negative number is refused.
parse_expiry_seconds(text) ==
    LET digits == SkipSpaces(text)
        plain == IF digits # <<>> /\ Head(digits) = "+" THEN Tail(digits) ELSE digits
    IN  IF plain # <<>> /\ Range(plain) \subseteq Digits THEN Value(plain, MaxSeconds) ELSE 0

-----------------------------------------------------------------------------
(* command_execute, up to what it does with its arguments.                 *)

Request(op, args, seconds) == [op |-> op, args |-> args, seconds |-> seconds]

Requests == [op : STRING, args : Seq(Seq(STRING)), seconds : Nat]

\* A blank line makes no request and gets no answer.
NoRequest == Request("none", <<>>, 0)

\* Answered "ERR ...", without any effect.
Refused == Request("ERR", <<>>, 0)

\* The arguments each command takes after its name.
Arity == [get |-> 1, ttl |-> 1, del |-> 1, ping |-> 0, exit |-> 0, set |-> 2]

command_execute(line) ==
    LET argv == parse_command(line)
        Called(op, argc) == argv # <<>> /\ argv[1] = <<op>> /\ Len(argv) = argc
    IN  IF argv = <<>> THEN NoRequest
        ELSE IF \E op \in DOMAIN Arity : Called(op, Arity[op] + 1)
        THEN Request(Head(argv[1]), Tail(argv), 0)
        ELSE IF Called("set", 5) /\ argv[4] = <<"ex">> /\ parse_expiry_seconds(argv[5]) > 0
        THEN Request("set", SubSeq(argv, 2, 3), parse_expiry_seconds(argv[5]))
        ELSE Refused

-----------------------------------------------------------------------------
(* is_read_command.                                                        *)

\* Faulty: EXIT leaves the table alone, so it counts as a read.
is_read_or_exit(line) ==
    LET text == SkipSpaces(line)
    IN  /\ text # <<>> /\ Head(text) \in {"get", "ttl", "exit"}
        /\ Tail(text) = <<>> \/ text[2] \in Spaces

is_read_command(line) ==
    LET text == SkipSpaces(line)
    IN  /\ text # <<>> /\ Head(text) \in {"get", "ttl"}
        /\ Tail(text) = <<>> \/ text[2] \in Spaces
=============================================================================

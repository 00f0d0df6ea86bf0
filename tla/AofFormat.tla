----------------------------- MODULE AofFormat -----------------------------
(***************************************************************************)
(* The text of data.aof: how persistence_append_* and persistence_rewrite  *)
(* print a record, and how persistence_load scans the file, record after   *)
(* record, when some of the records in it are only partly written.  Module *)
(* Store says the same of whole and torn records without their text; that  *)
(* it says it rightly is checked here.                                     *)
(***************************************************************************)
EXTENDS Aof, Text

CONSTANTS
    MaxNumber,        \* LLONG_MAX
    Logs,             \* the files to load, as sequences of Written
    Now,              \* the instants at which the server may start
    SpelledExpiries   \* as in Store

ASSUME NumbersAssumption ==
    /\ MaxNumber \in Nat
    /\ Now \subseteq 1..MaxNumber
    /\ SpelledExpiries \subseteq Int

\* Keys and values are parts of a line: no newline is in them, and their
\* length is a number.
ASSUME TextAssumption ==
    \A text \in Keys \cup Values :
       text \in Seq(STRING) /\ NL \notin Range(text) /\ Len(text) <= MaxNumber

VARIABLES
    log,      \* the records written
    now,      \* time(NULL)
    file,     \* their text
    at,       \* the position of the loader in it
    table,    \* what was loaded, by clients' keys
    pc

vars == <<log, now, file, at, table, pc>>

-----------------------------------------------------------------------------
(* Printing.                                                               *)

Counted(text) == Decimal(Len(text)) \o <<":">> \o text

\* "DEL %zu:%s\n", "SET %zu:%s%zu:%s\n", "SET %zu:%s%zu:%s EXAT %lld\n".
Printed(key, entry) ==
    IF entry = NoEntry THEN <<"D", "E", "L", Blank>> \o Counted(key) \o <<NL>>
    ELSE <<"S", "E", "T", Blank>> \o Counted(key) \o Counted(entry.value) \o
         (IF entry.expires_at = 0 THEN <<>>
          ELSE <<Blank, "E", "X", "A", "T", Blank>> \o Decimal(entry.expires_at))
         \o <<NL>>

\* A record of which the first size symbols were written.  Its expiry is a
\* long long, other than the least one, which Value cannot spell.
Written == {r \in [key : Keys, entry : Entry \cup {NoEntry}, size : Nat \ {0}] :
               /\ r.size <= Len(Printed(r.key, r.entry))
               /\ r.entry # NoEntry => r.entry.expires_at \in (-MaxNumber)..MaxNumber}

ASSUME LogsAssumption == Logs \subseteq Seq(Written)

TextOf(r) == SubSeq(Printed(r.key, r.entry), 1, r.size)

Whole(r) == r.size = Len(Printed(r.key, r.entry))

-----------------------------------------------------------------------------
(* Scanning.  Each operator takes and returns a position of the file; Fail *)
(* is where the loader gives up, and nothing succeeds after it.            *)

Fail == 0

\* Faulty: the end of the file counts as the character.
CharOrEof(p, c) ==
    IF p # Fail /\ (p > Len(file) \/ file[p] = c) THEN p + 1 ELSE Fail

\* fgetc(file) == c.
Char(p, c) == IF p # Fail /\ p <= Len(file) /\ file[p] = c THEN p + 1 ELSE Fail

\* The end of what fscanf reads for "%ns".
WordEnd(p, n) == Min({Find(file, FindOther(file, p, Spaces), Spaces),
                      FindOther(file, p, Spaces) + n})

Word(p, n) == SubSeq(file, FindOther(file, p, Spaces), WordEnd(p, n) - 1)

\* fscanf of "%zu" or "%lld".
NumberStart(p) == FindOther(file, p, Spaces)

NumberEnd(p) ==
    LET start == NumberStart(p)
        digits == IF start <= Len(file) /\ file[start] \in {"-", "+"} THEN start + 1 ELSE start
        end == FindOther(file, digits, Digits)
    IN  IF p = Fail \/ end = digits THEN Fail ELSE end

Number(p) ==
    LET text == SubSeq(file, NumberStart(p), NumberEnd(p) - 1)
        size == Value(IF Head(text) \in {"-", "+"} THEN Tail(text) ELSE text, MaxNumber)
    IN  IF Head(text) = "-" THEN -size ELSE size

\* A length, a colon, and as many symbols.  A negative length is a huge one.
CountedStart(p) == Char(NumberEnd(p), ":")

CountedEnd(p) ==
    LET start == CountedStart(p)
    IN  IF start = Fail THEN Fail
        ELSE IF Number(p) \in 0..(Len(file) + 1 - start) THEN start + Number(p) ELSE Fail

\* Faulty: a text ends at a blank, as with %s.
WordText(p) == SubSeq(file, CountedStart(p),
                      Min({CountedEnd(p), Find(file, CountedStart(p), Spaces)}) - 1)

CountedText(p) == SubSeq(file, CountedStart(p), CountedEnd(p) - 1)

\* After the value: a newline, or " EXAT ", a number and a newline.
ExpiryPart(p) == Char(p, Blank) # Fail

\* Faulty: the newline after the value is not looked at.
AnyValueEnd(p) ==
    IF ExpiryPart(p)
    THEN IF Word(p + 1, 4) # <<"E", "X", "A", "T">> THEN Fail
         ELSE Char(NumberEnd(WordEnd(p + 1, 4)), NL)
    ELSE p

ValueEnd(p) ==
    IF ExpiryPart(p)
    THEN IF Word(p + 1, 4) # <<"E", "X", "A", "T">> THEN Fail
         ELSE Char(NumberEnd(WordEnd(p + 1, 4)), NL)
    ELSE Char(p, NL)

\* Faulty: what follows EXAT is not kept.
NoExpiry(p) == 0

Expiry(p) == IF ExpiryPart(p) THEN Number(WordEnd(p + 1, 4)) ELSE 0

-----------------------------------------------------------------------------
(* persistence_load, one round of its loop at a time.                      *)

Init ==
    /\ log \in Logs
    /\ now \in Now
    /\ file = FlattenSeq([n \in DOMAIN log |-> TextOf(log[n])])
    /\ at = 1
    /\ table = [k \in Keys |-> NoEntry]
    /\ pc = "loading"

Reading(command) ==
    /\ pc = "loading"
    /\ Word(at, 3) = command

\* The table as far as clients look at it: a key read from a damaged record
\* may be none of theirs.
Store(key, entry) ==
    table' = [k \in Keys |-> IF k = key THEN entry ELSE table[k]]

\* The two texts of a SET start where the previous item ends.
SetKey == WordEnd(at, 3)
SetValue == CountedEnd(SetKey)
SetEnd == ValueEnd(CountedEnd(SetValue))

DelKey == WordEnd(at, 3)
DelEnd == Char(CountedEnd(DelKey), NL)

ReadSet ==
    /\ Reading(<<"S", "E", "T">>)
    /\ SetEnd # Fail
    /\ LET entry == [value |-> CountedText(SetValue),
                     expires_at |-> Expiry(CountedEnd(SetValue))]
       IN  IF Expired(entry, now) THEN UNCHANGED table
           ELSE Store(CountedText(SetKey), entry)
    /\ at' = SetEnd
    /\ UNCHANGED <<log, now, file, pc>>

ReadDel ==
    /\ Reading(<<"D", "E", "L">>)
    /\ DelEnd # Fail
    /\ Store(CountedText(DelKey), NoEntry)
    /\ at' = DelEnd
    /\ UNCHANGED <<log, now, file, pc>>

\* return 0: the server does not start.
Refuse ==
    /\ pc = "loading"
    /\ \/ Reading(<<"S", "E", "T">>) /\ SetEnd = Fail
       \/ Reading(<<"D", "E", "L">>) /\ DelEnd = Fail
       \/ Word(at, 3) \notin {<<>>, <<"S", "E", "T">>, <<"D", "E", "L">>}
    /\ pc' = "refused"
    /\ table' = [k \in Keys |-> NoEntry]
    /\ at' = 1
    /\ UNCHANGED <<log, now, file>>

\* fscanf finds no further word.
Finish ==
    /\ pc = "loading"
    /\ Word(at, 3) = <<>>
    /\ pc' = "ready"
    /\ at' = 1
    /\ UNCHANGED <<log, now, file, table>>

Next == ReadSet \/ ReadDel \/ Refuse \/ Finish

Spec == Init /\ [][Next]_vars

-----------------------------------------------------------------------------
(* Correctness.                                                            *)

\* The types of the variables; the loader stays inside the file.
TypeOK ==
    /\ pc \in {"loading", "ready", "refused"}
    /\ at \in 1..(Len(file) + 1)
    /\ \A k \in Keys : table[k] # NoEntry => table[k].expires_at \in Int

\* A file that ends in a partial record, wherever it was cut, never loads.
TornTailRefused ==
    pc = "ready" /\ log # <<>> => Whole(Last(log))



\* Where record n begins.
StartOf(n) == Len(FlattenSeq([i \in 1..(n - 1) |-> TextOf(log[i])])) + 1



\* What loading the whole record r makes of the table.
Loaded(r) ==
    IF r.entry # NoEntry /\ Expired(r.entry, now) THEN table
    ELSE [table EXCEPT ![r.key] = r.entry]

\* What persistence_append_* and persistence_rewrite wrote, persistence_load
\* reads.  Every round begins where a record begins or behind the last one,
\* also after a partial record has swallowed others.  A whole record is taken
\* for what it was, whatever its key and value look like and whatever is in
\* the file around it; behind the last record loading is done.
RecordsAreReadBack ==
    [][pc = "loading" => \E n \in 1..(Len(log) + 1) :
         /\ at = StartOf(n)
         /\ IF n > Len(log) THEN pc' = "ready" /\ table' = table
            ELSE Whole(log[n]) => /\ pc' = "loading" /\ at' = StartOf(n + 1)
                                  /\ table' = Loaded(log[n])]_vars

-----------------------------------------------------------------------------
(* The loader of module Store, seen through the text.                      *)

\* What a client's value cannot be told from.
AsValue(text) == IF text \in Values THEN text ELSE CHOOSE v \in Values : TRUE

AsEntry(e) == IF e = NoEntry THEN e ELSE [e EXCEPT !.value = AsValue(@)]

AsRecord(r) == IF Whole(r) THEN RecordOf(r.key, r.entry) ELSE TornRecordOf(r.key, r.entry)

\* How many records end before position p.
RecordsBefore(p) ==
    Cardinality({n \in DOMAIN log :
                    Len(FlattenSeq([i \in 1..n |-> TextOf(log[i])])) < p})

Engine == INSTANCE Store WITH
    aof <- [n \in DOMAIN log |-> AsRecord(log[n])],
    pos <- RecordsBefore(at) + 1,
    table <- [k \in Keys |-> AsEntry(table[k])],
    tmp <- <<>>, todo <- {}, cmd <- [key |-> NoEntry, entry |-> NoEntry],
    reply <- NoReply, suspect <- {},
    Seconds <- {}, TimeMax <- MaxNumber, MaxTime <- MaxNumber, MaxLog <- 0, AppendFaults <- {},
    AllocMayFail <- FALSE, OpenMayFail <- FALSE, MayCrash <- FALSE

\* persistence_load, character by character, does what Store says it does
\* with records: a whole record is read as it was written, whatever its key
\* and value look like, and a torn one makes it give up or take the missing
\* text from later records, up to the end of one of them.
RefinesLoader ==
    [][\/ Engine!LoadSet \/ Engine!LoadDel \/ Engine!LoadTorn
       \/ Engine!LoadGlued \/ Engine!LoadDone]_vars
=============================================================================

------------------------------ MODULE AtomicDB ------------------------------
(***************************************************************************)
(* What concurrent clients may rely on: every command takes effect at one  *)
(* instant between its submission and its answer, and once.  A command     *)
(* that is submitted after another one was answered therefore sees what    *)
(* that one did; commands under way at the same time take effect in any    *)
(* order.                                                                  *)
(***************************************************************************)
CONSTANTS
    Tasks,
    Command,     \* Tasks -> [op, key, value]
    Keys, Values,
    NoEntry      \* no such key; also the answer "(nil)"

VARIABLES
    db,          \* Keys -> Values or NoEntry
    phase,       \* what became of each task
    answer       \* its answer, once it has taken effect

vars == <<db, phase, answer>>

Silence == "none"

Init ==
    /\ db = [k \in Keys |-> NoEntry]
    /\ phase = [t \in Tasks |-> "new"]
    /\ answer = [t \in Tasks |-> Silence]

Submit(t) ==
    /\ phase[t] = "new"
    /\ phase' = [phase EXCEPT ![t] = "submitted"]
    /\ UNCHANGED <<db, answer>>

\* db becomes what change says and the answer of t is a.
Does(t, a, change) ==
    /\ phase[t] = "submitted"
    /\ phase' = [phase EXCEPT ![t] = "done"]
    /\ answer' = [answer EXCEPT ![t] = a]
    /\ db' = change

Set(t) ==
    /\ Command[t].op = "set"
    /\ Does(t, "OK", [db EXCEPT ![Command[t].key] = Command[t].value])

Get(t) ==
    /\ Command[t].op = "get"
    /\ Does(t, db[Command[t].key], db)

Del(t) ==
    /\ Command[t].op = "del"
    /\ Does(t, IF db[Command[t].key] = NoEntry THEN "0" ELSE "1",
            [db EXCEPT ![Command[t].key] = NoEntry])

Exit(t) == Command[t].op = "exit" /\ Does(t, "BYE", db)

\* A command that writes may fail, without effect.
Fails(t) == Command[t].op \in {"set", "del", "exit"} /\ Does(t, "ERR", db)

Answered(t) ==
    /\ phase[t] = "done"
    /\ phase' = [phase EXCEPT ![t] = "answered"]
    /\ UNCHANGED <<db, answer>>

Next == \E t \in Tasks :
    Submit(t) \/ Set(t) \/ Get(t) \/ Del(t) \/ Exit(t) \/ Fails(t) \/ Answered(t)

Spec == Init /\ [][Next]_vars
=============================================================================

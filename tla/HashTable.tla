----------------------------- MODULE HashTable -----------------------------
(***************************************************************************)
(* The hash table of hash_table.c: an array of chains that doubles when it *)
(* is more than three quarters full.  A chain is the sequence of its       *)
(* entries.  hash_table_resize moves one entry per step, from the head of  *)
(* a chain of the old array to the head of a chain of the new one; callers *)
(* hold db_lock meanwhile, so no operation starts before it returns.       *)
(***************************************************************************)
EXTENDS Integers, Sequences, SequencesExt

CONSTANTS
    Keys, Values,
    NoValue,          \* the NULL that a lookup returns
    Hash,             \* hash_key
    InitialSize,      \* the argument of hash_table_create
    AllocMayFail      \* may malloc and calloc return NULL?

ASSUME HashTableAssumption ==
    /\ NoValue \notin Values
    /\ Hash \in [Keys -> Nat]
    /\ InitialSize \in Nat \ {0}
    /\ AllocMayFail \in BOOLEAN

VARIABLES
    pc,        \* "idle", or "resize" inside hash_table_resize
    buckets,   \* the array of chains; while it is resized, what is left to move
    size,      \* its number of chains
    count,     \* table->count
    grown,     \* the new array during a resize
    newsize,   \* its number of chains, 0 when there is none
    i,         \* the old chain that is being moved
    result,    \* the operation that ran last and what it returned
    starved    \* history: a growth failed for want of memory, and the
               \* growths since did not make up for it

vars == <<pc, buckets, size, count, grown, newsize, i, result, starved>>

Node == [key : Keys, value : Values]

Empty(n) == [b \in 0..(n - 1) |-> <<>>]

Outcome(op, k, v) == [op |-> op, key |-> k, value |-> v]

Init ==
    /\ pc = "idle"
    /\ size = InitialSize
    /\ buckets = Empty(size)
    /\ count = 0
    /\ newsize = 0
    /\ grown = Empty(0)
    /\ i = 0
    /\ result = Outcome("none", NoValue, NoValue)
    /\ starved = FALSE

\* The chain a walk for k follows, and the positions where it finds k.
Slot(k) == Hash[k] % size

\* Faulty: only the head of the chain is compared.
FoundAtHead(k) == {p \in {1} \cap DOMAIN buckets[Slot(k)] : buckets[Slot(k)][p].key = k}

Found(k) == {p \in DOMAIN buckets[Slot(k)] : buckets[Slot(k)][p].key = k}
First(k) == CHOOSE p \in Found(k) : \A q \in Found(k) : p <= q

\* LOAD_FACTOR is 0.75.
\* Faulty: the table may fill up completely.
OverloadedWhenFull(n, s) == n > s

Overloaded(n, s) == 4 * n > 3 * s

-----------------------------------------------------------------------------
(* The operations.                                                         *)

\* hash_table_set_with_expiry of a key that exists.
Update(k, v) ==
    /\ pc = "idle"
    /\ Found(k) # {}
    /\ buckets' = [buckets EXCEPT ![Slot(k)][First(k)].value = v]
    /\ result' = Outcome("set", k, v)
    /\ UNCHANGED <<pc, size, count, grown, newsize, i, starved>>

\* ... and of one that does not: it becomes the head of its chain.  When
\* calloc fails, hash_table_resize leaves the overloaded array as it is.
Insert(k, v) ==
    /\ pc = "idle"
    /\ Found(k) = {}
    /\ buckets' = [buckets EXCEPT ![Slot(k)] = Cons([key |-> k, value |-> v], @)]
    /\ count' = count + 1
    /\ result' = Outcome("set", k, v)
    /\ \/ /\ Overloaded(count', size)
          /\ pc' = "resize"
          /\ newsize' = 2 * size
          /\ grown' = Empty(newsize')
          /\ i' = 0
          /\ UNCHANGED starved
       \/ /\ Overloaded(count', size) => AllocMayFail
          /\ starved' = (starved \/ Overloaded(count', size))
          /\ UNCHANGED <<pc, grown, newsize, i>>
    /\ UNCHANGED size

SetFails(k) ==
    /\ pc = "idle"
    /\ AllocMayFail
    /\ result' = Outcome("set failed", k, NoValue)
    /\ UNCHANGED <<pc, buckets, size, count, grown, newsize, i, starved>>

Delete(k) ==
    /\ pc = "idle"
    /\ IF Found(k) = {}
       THEN /\ result' = Outcome("not found", k, NoValue)
            /\ UNCHANGED <<buckets, count>>
       ELSE /\ buckets' = [buckets EXCEPT ![Slot(k)] = RemoveAt(@, First(k))]
            /\ count' = count - 1
            /\ result' = Outcome("deleted", k, NoValue)
    /\ UNCHANGED <<pc, size, grown, newsize, i, starved>>

\* find_entry of command.c.
Get(k) ==
    /\ pc = "idle"
    /\ result' = Outcome("get", k, IF Found(k) = {} THEN NoValue
                                   ELSE buckets[Slot(k)][First(k)].value)
    /\ UNCHANGED <<pc, buckets, size, count, grown, newsize, i, starved>>

-----------------------------------------------------------------------------
(* hash_table_resize.                                                      *)

\* Faulty: the chain of the old size.
OldSlot(k) == Hash[k] % size

NewSlot(k) == Hash[k] % newsize

\* Faulty: entry->next is overwritten before the rest of the chain is saved.
MoveEntryLosesRest ==
    /\ pc = "resize"
    /\ i < size
    /\ buckets[i] # <<>>
    /\ LET entry == Head(buckets[i])
       IN  grown' = [grown EXCEPT ![NewSlot(entry.key)] = Cons(entry, @)]
    /\ buckets' = [buckets EXCEPT ![i] = <<>>]
    /\ UNCHANGED <<pc, size, count, newsize, i, result, starved>>

MoveEntry ==
    /\ pc = "resize"
    /\ i < size
    /\ buckets[i] # <<>>
    /\ LET entry == Head(buckets[i])
       IN  grown' = [grown EXCEPT ![NewSlot(entry.key)] = Cons(entry, @)]
    /\ buckets' = [buckets EXCEPT ![i] = Tail(@)]
    /\ UNCHANGED <<pc, size, count, newsize, i, result, starved>>

NextChain ==
    /\ pc = "resize"
    /\ i < size
    /\ buckets[i] = <<>>
    /\ i' = i + 1
    /\ UNCHANGED <<pc, buckets, size, count, grown, newsize, result, starved>>

\* Faulty: table->size is not updated.
InstallKeepsSize ==
    /\ pc = "resize"
    /\ i = size
    /\ pc' = "idle"
    /\ buckets' = grown
    /\ grown' = Empty(0)
    /\ newsize' = 0
    /\ i' = 0
    /\ starved' = (starved /\ Overloaded(count, newsize))
    /\ UNCHANGED <<size, count, result>>

Install ==
    /\ pc = "resize"
    /\ i = size
    /\ pc' = "idle"
    /\ buckets' = grown
    /\ size' = newsize
    /\ grown' = Empty(0)
    /\ newsize' = 0
    /\ i' = 0
    /\ starved' = (starved /\ Overloaded(count, newsize))
    /\ UNCHANGED <<count, result>>

Next ==
    \/ \E k \in Keys, v \in Values : Update(k, v) \/ Insert(k, v)
    \/ \E k \in Keys : SetFails(k) \/ Delete(k) \/ Get(k)
    \/ MoveEntry \/ NextChain \/ Install

Spec == Init /\ [][Next]_vars

-----------------------------------------------------------------------------
(* Correctness.                                                            *)

TypeOK ==
    /\ pc \in {"idle", "resize"}
    /\ size \in Nat \ {0}
    /\ buckets \in [0..(size - 1) -> Seq(Node)]
    /\ count \in Int
    /\ newsize \in Nat
    /\ grown \in [0..(newsize - 1) -> Seq(Node)]
    /\ i \in 0..size
    /\ starved \in BOOLEAN
    /\ result \in [op : {"none", "set", "set failed", "deleted", "not found", "get"},
                   key : Keys \cup {NoValue},
                   value : Values \cup {NoValue}]

\* Where entries are: a chain of one of the arrays and a position in it.
Places(array) == UNION {{b} \X DOMAIN array[b] : b \in DOMAIN array}

\* Every entry is in the chain in which a walk for its key will look.
WellPlaced ==
    /\ \A x \in Places(buckets) : Hash[buckets[x[1]][x[2]].key] % size = x[1]
    /\ \A x \in Places(grown) : Hash[grown[x[1]][x[2]].key] % newsize = x[1]

\* No key has two entries.
NoDuplicates ==
    /\ \A x, y \in Places(buckets) :
          buckets[x[1]][x[2]].key = buckets[y[1]][y[2]].key => x = y
    /\ \A x, y \in Places(grown) :
          grown[x[1]][x[2]].key = grown[y[1]][y[2]].key => x = y
    /\ \A x \in Places(buckets), y \in Places(grown) :
          buckets[x[1]][x[2]].key # grown[y[1]][y[2]].key

\* A walk for a key finds its entry and finds all there is of it: entries are
\* in their chains, of the old array and already of the new one while they
\* move, and no key has two, not even one in each array, of which the second
\* would come back to life when the first is deleted.
KeysInPlace == WellPlaced /\ NoDuplicates

\* table->count is the number of entries, a resize neither losing nor
\* doubling one.
CountExact == count = Cardinality(Places(buckets)) + Cardinality(Places(grown))

\* Between operations the table is at most three quarters full, unless it
\* could not grow for want of memory: one doubling per insertion is enough.
LoadBounded == pc = "idle" /\ ~starved => 4 * count <= 3 * size

-----------------------------------------------------------------------------
(* The table is a map, also in the middle of a resize.                     *)

Entries == {buckets[x[1]][x[2]] : x \in Places(buckets)}
           \cup {grown[x[1]][x[2]] : x \in Places(grown)}

Content(k) == IF \E e \in Entries : e.key = k
              THEN (CHOOSE e \in Entries : e.key = k).value ELSE NoValue

Map == INSTANCE KeyMap WITH map <- [k \in Keys |-> Content(k)], answer <- result

\* hash_table_set, hash_table_delete and find_entry are the operations of a
\* map, and resizing changes nothing a caller can observe.
RefinesKeyMap == Map!Spec
=============================================================================

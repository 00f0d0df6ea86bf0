-------------------------- MODULE HashTableProofs --------------------------
(***************************************************************************)
(* Proofs about HashTable: its invariants, and that it implements KeyMap.  *)
(*                                                                         *)
(* The two arrays are compared by what they hold, so that a step that      *)
(* changes one chain is described once, by the lemmas Consed, Dropped and  *)
(* Revalued, and every action uses them.                                   *)
(***************************************************************************)
EXTENDS HashTable, FiniteSetTheorems, SequenceTheorems, TLAPS

-----------------------------------------------------------------------------
(* Chains.                                                                 *)

\* A key has a chain in every array that is not empty.
LEMMA SlotInRange ==
  ASSUME NEW k \in Keys, NEW n \in Nat \ {0}
  PROVE  Hash[k] % n \in 0..(n - 1)
BY HashTableAssumption

\* An entry put at the head of a chain moves the others up by one.
WithHead(s, e, t) ==
    /\ Len(t) = Len(s) + 1
    /\ t[1] = e
    /\ \A p \in 1..Len(s) : t[p + 1] = s[p]

LEMMA ConsChain ==
  ASSUME NEW S, NEW s \in Seq(S), NEW e \in S
  PROVE  Cons(e, s) \in Seq(S) /\ WithHead(s, e, Cons(e, s))
BY DEF Cons, WithHead

\* Without its entry j a chain has the others, in their order.
Without(s, j, t) ==
    /\ Len(t) = Len(s) - 1
    /\ \A p \in 1..(Len(s) - 1) : t[p] = s[IF p < j THEN p ELSE p + 1]

LEMMA RemoveAtChain ==
  ASSUME NEW S, NEW s \in Seq(S), NEW j \in 1..Len(s)
  PROVE  RemoveAt(s, j) \in Seq(S) /\ Without(s, j, RemoveAt(s, j))
<1> DEFINE l == SubSeq(s, 1, j - 1)
           r == SubSeq(s, j + 1, Len(s))
<1>1. /\ l \in Seq(S)
      /\ Len(l) = j - 1
      /\ \A p \in 1..(j - 1) : l[p] = s[p]
  <2>1. Len(s) \in Nat /\ \A p \in 1..Len(s) : s[p] \in S
    BY LenProperties, ElementOfSeq
  <2>2. \A p \in 1..(j - 1) : s[p] \in S
    BY <2>1
  <2> QED
    BY <2>1, <2>2, SubSeqProperties
<1>2. /\ r \in Seq(S)
      /\ Len(r) = Len(s) - j
      /\ \A p \in 1..(Len(s) - j) : r[p] = s[p + j]
  <2>1. Len(s) \in Nat /\ \A p \in 1..Len(s) : s[p] \in S
    BY LenProperties, ElementOfSeq
  <2>2. \A p \in (j + 1)..Len(s) : s[p] \in S
    BY <2>1
  <2> QED
    BY <2>1, <2>2, SubSeqProperties
<1> HIDE DEF l, r
<1>3. /\ l \o r \in Seq(S)
      /\ Len(l \o r) = Len(l) + Len(r)
      /\ \A p \in 1..(Len(l) + Len(r)) : (l \o r)[p] =
                      IF p <= Len(l) THEN l[p] ELSE r[p - Len(l)]
  BY <1>1, <1>2, ConcatProperties
<1>4. Len(s) \in Nat
  BY LenProperties
<1>5. RemoveAt(s, j) = l \o r
  BY DEF RemoveAt, l, r
<1> QED
  <2>1. \A p \in 1..(Len(s) - 1) : (l \o r)[p] = s[IF p < j THEN p ELSE p + 1]
    BY <1>1, <1>2, <1>3, <1>4
  <2>2. Len(l \o r) = Len(s) - 1
    BY <1>1, <1>2, <1>3, <1>4
  <2>3. Without(s, j, l \o r)
    BY <2>1, <2>2 DEF Without
  <2> QED
    BY <1>3, <1>5, <2>3

\* With another entry at j it keeps the rest.
WithEntry(s, j, e, t) ==
    /\ Len(t) = Len(s)
    /\ \A p \in 1..Len(s) : t[p] = IF p = j THEN e ELSE s[p]

LEMMA ExceptChain ==
  ASSUME NEW S, NEW s \in Seq(S), NEW j \in 1..Len(s), NEW e \in S
  PROVE  [s EXCEPT ![j] = e] \in Seq(S) /\ WithEntry(s, j, e, [s EXCEPT ![j] = e])
BY ExceptSeq DEF WithEntry

LEMMA TailChain ==
  ASSUME NEW S, NEW s \in Seq(S), s # <<>>
  PROVE  /\ Tail(s) \in Seq(S) /\ Without(s, 1, Tail(s))
         /\ Len(s) \in Nat \ {0} /\ Head(s) = s[1]
BY DEF Without

-----------------------------------------------------------------------------
(* Arrays of chains.                                                       *)

\* The array a of n chains holds the entry e.
Holds(a, n, e) == \E b \in 0..(n - 1) : \E p \in 1..Len(a[b]) : a[b][p] = e

\* Its entries are in their chains, and a chain has no key twice.
Filed(a, n) == \A b \in 0..(n - 1) : \A p \in 1..Len(a[b]) :
                  Hash[a[b][p].key] % n = b

Once(a, n) == \A b \in 0..(n - 1) : \A p, q \in 1..Len(a[b]) :
                 a[b][p].key = a[b][q].key => p = q

Sound(a, n) == a \in [0..(n - 1) -> Seq(Node)] /\ Filed(a, n) /\ Once(a, n)

LEMMA ChainsAreSequences ==
  ASSUME NEW n \in Nat, NEW a \in [0..(n - 1) -> Seq(Node)], NEW b \in 0..(n - 1)
  PROVE  /\ a[b] \in Seq(Node)
         /\ Len(a[b]) \in Nat
         /\ \A p \in 1..Len(a[b]) : a[b][p] \in Node
BY LenProperties, ElementOfSeq

\* Places are pairs of a chain and a position.
LEMMA PlacesArePairs ==
  ASSUME NEW n \in Nat, NEW a \in [0..(n - 1) -> Seq(Node)]
  PROVE  \A x : x \in Places(a) <=>
            \E b \in 0..(n - 1) : \E p \in 1..Len(a[b]) : x = <<b, p>>
<1>1. \A b \in 0..(n - 1) : DOMAIN a[b] = 1..Len(a[b])
  BY ChainsAreSequences, LenProperties
<1>2. \A x : x \in Places(a) <=>
         \E b \in DOMAIN a : \E p \in DOMAIN a[b] : x = <<b, p>>
  BY DEF Places
<1>3. DOMAIN a = 0..(n - 1)
  OBVIOUS
<1> QED
  BY <1>1, <1>2, <1>3, Zenon

\* Entries of a sound array that have the same key are the same entry.
LEMMA SameKeySamePlace ==
  ASSUME NEW n \in Nat, NEW a, Sound(a, n),
         NEW b \in 0..(n - 1), NEW p \in 1..Len(a[b]),
         NEW c \in 0..(n - 1), NEW q \in 1..Len(a[c]),
         a[b][p].key = a[c][q].key
  PROVE  b = c /\ p = q
<1>1. Hash[a[b][p].key] % n = b /\ Hash[a[c][q].key] % n = c
  BY Zenon DEF Sound, Filed
<1>2. b = c
  BY <1>1, Zenon
<1>3. \A r, o \in 1..Len(a[b]) : a[b][r].key = a[b][o].key => r = o
  BY Zenon DEF Sound, Once
<1> QED
  BY <1>2, <1>3, Zenon

LEMMA KeysHaveOnePlace ==
  ASSUME NEW n \in Nat, NEW a, Sound(a, n)
  PROVE  \A b, c \in 0..(n - 1) : \A p \in 1..Len(a[b]) : \A q \in 1..Len(a[c]) :
            a[b][p].key = a[c][q].key => b = c /\ p = q
<1> TAKE b, c \in 0..(n - 1)
<1> TAKE p \in 1..Len(a[b])
<1> TAKE q \in 1..Len(a[c])
<1> QED
  BY SameKeySamePlace

LEMMA SameKeySameEntry ==
  ASSUME NEW n \in Nat, NEW a, Sound(a, n),
         NEW e, Holds(a, n, e), NEW f, Holds(a, n, f), e.key = f.key
  PROVE  e = f
<1>1. PICK b \in 0..(n - 1) : \E p \in 1..Len(a[b]) : a[b][p] = e
  BY DEF Holds
<1>2. PICK p \in 1..Len(a[b]) : a[b][p] = e
  BY <1>1
<1>3. PICK c \in 0..(n - 1) : \E q \in 1..Len(a[c]) : a[c][q] = f
  BY DEF Holds
<1>4. PICK q \in 1..Len(a[c]) : a[c][q] = f
  BY <1>3
<1> QED
  BY <1>2, <1>4, SameKeySamePlace, Zenon

-----------------------------------------------------------------------------
(* One chain of an array changes.                                          *)

\* a2 is the array a with s for its chain b.
Rechained(a, n, b, s, a2) ==
    /\ a2 \in [0..(n - 1) -> Seq(Node)]
    /\ a2[b] = s
    /\ \A c \in 0..(n - 1) : c # b => a2[c] = a[c]

LEMMA ExceptRechains ==
  ASSUME NEW n \in Nat, NEW a, Sound(a, n),
         NEW b \in 0..(n - 1), NEW s \in Seq(Node)
  PROVE  Rechained(a, n, b, s, [a EXCEPT ![b] = s])
BY DEF Rechained, Sound

\* An entry with a new key put at the head of its chain.
LEMMA Consed ==
  ASSUME NEW n \in Nat, NEW a, Sound(a, n),
         NEW e \in Node, NEW b \in 0..(n - 1), b = Hash[e.key] % n,
         \A f : Holds(a, n, f) => f.key # e.key,
         NEW s \in Seq(Node), WithHead(a[b], e, s),
         NEW a2, Rechained(a, n, b, s, a2)
  PROVE  /\ Sound(a2, n)
         /\ \A f : Holds(a2, n, f) <=> Holds(a, n, f) \/ f = e
         /\ Places(a2) = Places(a) \cup {<<b, Len(a[b]) + 1>>}
         /\ <<b, Len(a[b]) + 1>> \notin Places(a)
<1>0. a \in [0..(n - 1) -> Seq(Node)]
  BY DEF Sound
<1>1. \A c \in 0..(n - 1) : /\ a[c] \in Seq(Node)
                            /\ Len(a[c]) \in Nat
                            /\ \A p \in 1..Len(a[c]) : a[c][p] \in Node
  BY <1>0, ChainsAreSequences
<1>2. /\ Len(s) = Len(a[b]) + 1
      /\ s[1] = e
      /\ \A p \in 1..Len(a[b]) : s[p + 1] = a[b][p]
  BY DEF WithHead
<1>3. /\ a2 \in [0..(n - 1) -> Seq(Node)]
      /\ a2[b] = s
      /\ \A c \in 0..(n - 1) : c # b => a2[c] = a[c]
  BY DEF Rechained
<1>4. /\ Len(a2[b]) = Len(a[b]) + 1
      /\ a2[b][1] = e
      /\ \A p \in 2..Len(a2[b]) : p - 1 \in 1..Len(a[b]) /\ a2[b][p] = a[b][p - 1]
      /\ \A p \in 1..Len(a[b]) : p + 1 \in 2..Len(a2[b]) /\ a2[b][p + 1] = a[b][p]
  <2>1. Len(a2[b]) = Len(a[b]) + 1 /\ a2[b][1] = e /\ Len(a[b]) \in Nat
    BY <1>1, <1>2, <1>3, Zenon
  <2>2. \A p \in 1..Len(a[b]) : a2[b][p + 1] = a[b][p]
    BY <1>2, <1>3, Zenon
  <2>3. ASSUME NEW p \in 2..Len(a2[b])
        PROVE  p - 1 \in 1..Len(a[b]) /\ a2[b][p] = a[b][p - 1]
    <3>1. p - 1 \in 1..Len(a[b]) /\ (p - 1) + 1 = p
      BY <2>1, <2>3
    <3> QED
      BY <2>2, <3>1, Zenon
  <2>4. \A p \in 1..Len(a[b]) : p + 1 \in 2..Len(a2[b])
    BY <2>1
  <2> QED
    BY <2>1, <2>2, <2>3, <2>4, Zenon
<1>5. \A c \in 0..(n - 1) : \A p \in 1..Len(a[c]) : a[c][p].key # e.key
  BY Zenon DEF Holds
<1>6. Filed(a2, n)
  <2> SUFFICES ASSUME NEW c \in 0..(n - 1), NEW p \in 1..Len(a2[c])
               PROVE  Hash[a2[c][p].key] % n = c
    BY DEF Filed
  <2>1. CASE c # b
    BY <2>1, <1>3, Zenon DEF Sound, Filed
  <2>2. CASE c = b /\ p = 1
    BY <2>2, <1>4, Zenon
  <2>3. CASE c = b /\ p # 1
    <3>1. p \in 2..Len(a2[b])
      <4>1. p \in 1..Len(a2[b]) /\ p # 1
        BY <2>3, Zenon
      <4> QED
        BY <4>1
    <3>2. p - 1 \in 1..Len(a[b]) /\ a2[b][p] = a[b][p - 1]
      BY <3>1, <1>4, Zenon
    <3> QED
      BY <2>3, <3>2, Zenon DEF Sound, Filed
  <2> QED
    BY <2>1, <2>2, <2>3
<1>7. Once(a2, n)
  <2> SUFFICES ASSUME NEW c \in 0..(n - 1),
                      NEW p \in 1..Len(a2[c]), NEW q \in 1..Len(a2[c]),
                      a2[c][p].key = a2[c][q].key
               PROVE  p = q
    BY DEF Once
  <2>1. CASE c # b
    BY <2>1, <1>3, Zenon DEF Sound, Once
  <2>2. CASE c = b
    <3>1. \A r \in 1..Len(a2[b]) : r = 1 \/ r \in 2..Len(a2[b])
      OBVIOUS
    <3>2. \A r \in 2..Len(a2[b]) : a2[b][r].key # e.key
      <4> TAKE r \in 2..Len(a2[b])
      <4>1. r - 1 \in 1..Len(a[b]) /\ a2[b][r] = a[b][r - 1]
        BY <1>4, Zenon
      <4>2. a[b][r - 1].key # e.key
        BY <4>1, <1>5, Zenon
      <4> QED
        BY <4>1, <4>2, Zenon
    <3>3. CASE p = 1 /\ q = 1
      BY <3>3, Zenon
    <3>4. CASE p = 1 /\ q \in 2..Len(a2[b])
      <4>1. a2[b][p].key = e.key
        BY <3>4, <1>4, Zenon
      <4>2. a2[b][q].key # e.key
        BY <3>4, <3>2, Zenon
      <4> QED
        BY <2>2, <4>1, <4>2, Zenon
    <3>5. CASE p \in 2..Len(a2[b]) /\ q = 1
      <4>1. a2[b][q].key = e.key
        BY <3>5, <1>4, Zenon
      <4>2. a2[b][p].key # e.key
        BY <3>5, <3>2, Zenon
      <4> QED
        BY <2>2, <4>1, <4>2, Zenon
    <3>6. CASE p \in 2..Len(a2[b]) /\ q \in 2..Len(a2[b])
      <4>1. /\ p - 1 \in 1..Len(a[b]) /\ a2[b][p] = a[b][p - 1]
            /\ q - 1 \in 1..Len(a[b]) /\ a2[b][q] = a[b][q - 1]
        BY <3>6, <1>4, Zenon
      <4>2. \A r, o \in 1..Len(a[b]) : a[b][r].key = a[b][o].key => r = o
        BY Zenon DEF Sound, Once
      <4>3. a[b][p - 1].key = a[b][q - 1].key
        BY <2>2, <4>1, Zenon
      <4>4. p - 1 = q - 1
        BY <4>1, <4>2, <4>3, Zenon
      <4> QED
        BY <4>4, <3>6
    <3> QED
      BY <2>2, <3>1, <3>3, <3>4, <3>5, <3>6, Zenon
  <2> QED
    BY <2>1, <2>2, Zenon
<1>8. \A f : Holds(a2, n, f) <=> Holds(a, n, f) \/ f = e
  <2>1. ASSUME NEW f, Holds(a2, n, f)
        PROVE  Holds(a, n, f) \/ f = e
    <3>1. PICK c \in 0..(n - 1) : \E p \in 1..Len(a2[c]) : a2[c][p] = f
      BY <2>1, Zenon DEF Holds
    <3>2. PICK p \in 1..Len(a2[c]) : a2[c][p] = f
      BY <3>1, Zenon
    <3>3. CASE c # b
      BY <3>2, <3>3, <1>3, Zenon DEF Holds
    <3>4. CASE c = b /\ p = 1
      BY <3>2, <3>4, <1>4, Zenon
    <3>5. CASE c = b /\ p # 1
      <4>1. p \in 2..Len(a2[b])
        <5>1. p \in 1..Len(a2[b]) /\ p # 1
          BY <3>5, Zenon
        <5> QED
          BY <5>1
      <4>2. p - 1 \in 1..Len(a[b]) /\ a[b][p - 1] = f
        BY <3>2, <3>5, <4>1, <1>4, Zenon
      <4> QED
        BY <4>2, Zenon DEF Holds
    <3> QED
      BY <3>3, <3>4, <3>5, Zenon
  <2>2. ASSUME NEW f, Holds(a, n, f)
        PROVE  Holds(a2, n, f)
    <3>1. PICK c \in 0..(n - 1) : \E p \in 1..Len(a[c]) : a[c][p] = f
      BY <2>2 DEF Holds
    <3>2. PICK p \in 1..Len(a[c]) : a[c][p] = f
      BY <3>1, Zenon
    <3>3. CASE c # b
      BY <3>2, <3>3, <1>3, Zenon DEF Holds
    <3>4. CASE c = b
      <4>1. p + 1 \in 2..Len(a2[b]) /\ a2[b][p + 1] = f
        BY <3>2, <3>4, <1>4, Zenon
      <4>2. p + 1 \in 1..Len(a2[b])
        BY <4>1
      <4> QED
        BY <4>1, <4>2, Zenon DEF Holds
    <3> QED
      BY <3>3, <3>4, Zenon
  <2>3. Holds(a2, n, e)
    <3>1. 1 \in 1..Len(a2[b])
      <4>1. Len(a2[b]) = Len(a[b]) + 1 /\ Len(a[b]) \in Nat
        BY <1>1, <1>4, Zenon
      <4> QED
        BY <4>1
    <3> QED
      BY <3>1, <1>4, Zenon DEF Holds
  <2> QED
    BY <2>1, <2>2, <2>3, Zenon
<1>9. /\ \A x : x \in Places(a) <=>
            \E c \in 0..(n - 1) : \E p \in 1..Len(a[c]) : x = <<c, p>>
      /\ \A x : x \in Places(a2) <=>
            \E c \in 0..(n - 1) : \E p \in 1..Len(a2[c]) : x = <<c, p>>
  BY <1>0, <1>3, PlacesArePairs
<1>10. <<b, Len(a[b]) + 1>> \notin Places(a)
  <2>1. Len(a[b]) + 1 \notin 1..Len(a[b])
    <3>1. Len(a[b]) \in Nat
      BY <1>1, Zenon
    <3> QED
      BY <3>1
  <2> QED
    BY <1>9, <2>1
<1>11. ASSUME NEW x
       PROVE  x \in Places(a2) <=> x \in Places(a) \cup {<<b, Len(a[b]) + 1>>}
  <2>1. \A p : p \in 1..Len(a2[b]) <=> p \in 1..Len(a[b]) \/ p = Len(a[b]) + 1
    <3>1. Len(a2[b]) = Len(a[b]) + 1 /\ Len(a[b]) \in Nat
      BY <1>1, <1>4, Zenon
    <3> QED
      BY <3>1
  <2>2. ASSUME NEW c \in 0..(n - 1), NEW p
        PROVE  p \in 1..Len(a2[c]) <=>
                  p \in 1..Len(a[c]) \/ <<c, p>> = <<b, Len(a[b]) + 1>>
    BY <1>3, <2>1
  <2>3. ASSUME x \in Places(a2)
        PROVE  x \in Places(a) \/ x = <<b, Len(a[b]) + 1>>
    <3>1. PICK c \in 0..(n - 1) : \E p \in 1..Len(a2[c]) : x = <<c, p>>
      BY <1>9, <2>3
    <3>2. PICK p \in 1..Len(a2[c]) : x = <<c, p>>
      BY <3>1
    <3>3. CASE p \in 1..Len(a[c])
      BY <1>9, <3>2, <3>3
    <3>4. CASE <<c, p>> = <<b, Len(a[b]) + 1>>
      BY <3>2, <3>4
    <3> QED
      BY <2>2, <3>3, <3>4
  <2>4. ASSUME x \in Places(a)
        PROVE  x \in Places(a2)
    <3>1. PICK c \in 0..(n - 1) : \E p \in 1..Len(a[c]) : x = <<c, p>>
      BY <1>9, <2>4
    <3>2. PICK p \in 1..Len(a[c]) : x = <<c, p>>
      BY <3>1
    <3>3. p \in 1..Len(a2[c])
      BY <2>2, <3>2
    <3> QED
      BY <1>9, <3>2, <3>3
  <2>5. <<b, Len(a[b]) + 1>> \in Places(a2)
    <3>1. Len(a[b]) + 1 \in 1..Len(a2[b])
      BY <2>1
    <3> QED
      BY <1>9, <3>1
  <2> QED
    BY <2>3, <2>4, <2>5
<1> QED
  BY <1>3, <1>6, <1>7, <1>8, <1>10, <1>11 DEF Sound

\* The entry at position j of a chain dropped.
LEMMA Dropped ==
  ASSUME NEW n \in Nat, NEW a, Sound(a, n),
         NEW b \in 0..(n - 1), NEW j \in 1..Len(a[b]),
         NEW s \in Seq(Node), Without(a[b], j, s),
         NEW a2, Rechained(a, n, b, s, a2)
  PROVE  /\ Sound(a2, n)
         /\ \A f : Holds(a2, n, f) <=> Holds(a, n, f) /\ f # a[b][j]
         /\ Places(a2) = Places(a) \ {<<b, Len(a[b])>>}
         /\ <<b, Len(a[b])>> \in Places(a)
<1> DEFINE at(p) == IF p < j THEN p ELSE p + 1
<1>0. a \in [0..(n - 1) -> Seq(Node)]
  BY DEF Sound
<1>1. \A c \in 0..(n - 1) : Len(a[c]) \in Nat
  BY <1>0, ChainsAreSequences
<1>2. /\ a2 \in [0..(n - 1) -> Seq(Node)]
      /\ a2[b] = s
      /\ \A c \in 0..(n - 1) : c # b => a2[c] = a[c]
  BY DEF Rechained
<1>3. /\ Len(a2[b]) = Len(a[b]) - 1
      /\ \A p \in 1..Len(a2[b]) : /\ at(p) \in 1..Len(a[b]) \ {j}
                                  /\ a2[b][p] = a[b][at(p)]
  <2>1. /\ Len(a2[b]) = Len(a[b]) - 1 /\ Len(a[b]) \in Nat
        /\ \A p \in 1..(Len(a[b]) - 1) : a2[b][p] = a[b][at(p)]
    BY <1>1, <1>2, Zenon DEF Without
  <2>2. \A p \in 1..Len(a2[b]) : at(p) \in 1..Len(a[b]) \ {j}
    BY <2>1
  <2> QED
    BY <2>1, <2>2, Zenon
<1>4. \A p \in 1..Len(a[b]) \ {j} : \E q \in 1..Len(a2[b]) : at(q) = p
  <2> TAKE p \in 1..Len(a[b]) \ {j}
  <2>0. Len(a2[b]) = Len(a[b]) - 1 /\ Len(a[b]) \in Nat
    BY <1>1, <1>3, Zenon
  <2>1. CASE p < j
    <3>1. p \in 1..Len(a2[b]) /\ at(p) = p
      BY <2>0, <2>1
    <3> QED
      BY <3>1
  <2>2. CASE p > j
    <3>1. p - 1 \in 1..Len(a2[b]) /\ at(p - 1) = p
      BY <2>0, <2>2
    <3> QED
      BY <3>1
  <2> QED
    BY <2>1, <2>2
<1>5. \A p, q \in 1..Len(a2[b]) : at(p) = at(q) => p = q
  OBVIOUS
<1> HIDE DEF at
<1>6. Filed(a2, n)
  <2> SUFFICES ASSUME NEW c \in 0..(n - 1), NEW p \in 1..Len(a2[c])
               PROVE  Hash[a2[c][p].key] % n = c
    BY DEF Filed
  <2>1. CASE c # b
    BY <2>1, <1>2, Zenon DEF Sound, Filed
  <2>2. CASE c = b
    <3>1. at(p) \in 1..Len(a[b]) /\ a2[b][p] = a[b][at(p)]
      BY <2>2, <1>3, Zenon
    <3> QED
      BY <2>2, <3>1, Zenon DEF Sound, Filed
  <2> QED
    BY <2>1, <2>2
<1>7. Once(a2, n)
  <2> SUFFICES ASSUME NEW c \in 0..(n - 1),
                      NEW p \in 1..Len(a2[c]), NEW q \in 1..Len(a2[c]),
                      a2[c][p].key = a2[c][q].key
               PROVE  p = q
    BY DEF Once
  <2>1. CASE c # b
    BY <2>1, <1>2, Zenon DEF Sound, Once
  <2>2. CASE c = b
    <3>1. /\ at(p) \in 1..Len(a[b]) /\ a2[b][p] = a[b][at(p)]
          /\ at(q) \in 1..Len(a[b]) /\ a2[b][q] = a[b][at(q)]
      BY <2>2, <1>3, Zenon
    <3>2. a[b][at(p)].key = a[b][at(q)].key
      BY <2>2, <3>1, Zenon
    <3>3. \A r, o \in 1..Len(a[b]) : a[b][r].key = a[b][o].key => r = o
      BY Zenon DEF Sound, Once
    <3>4. at(p) = at(q)
      BY <3>1, <3>2, <3>3, Zenon
    <3> QED
      BY <2>2, <3>4, <1>5, Zenon
  <2> QED
    BY <2>1, <2>2
<1>8. \A f : Holds(a2, n, f) <=> Holds(a, n, f) /\ f # a[b][j]
  <2>1. ASSUME NEW f, Holds(a2, n, f)
        PROVE  Holds(a, n, f) /\ f # a[b][j]
    <3>1. PICK c \in 0..(n - 1) : \E p \in 1..Len(a2[c]) : a2[c][p] = f
      BY <2>1 DEF Holds
    <3>2. PICK p \in 1..Len(a2[c]) : a2[c][p] = f
      BY <3>1
    <3>3. \E q \in 1..Len(a[c]) : a[c][q] = f /\ <<c, q>> # <<b, j>>
      <4>1. CASE c # b
        BY <4>1, <3>2, <1>2
      <4>2. CASE c = b
        <5>1. at(p) \in 1..Len(a[b]) \ {j} /\ a[b][at(p)] = f
          BY <4>2, <3>2, <1>3, Zenon
        <5>2. at(p) \in 1..Len(a[c]) /\ a[c][at(p)] = f /\ <<c, at(p)>> # <<b, j>>
          BY <4>2, <5>1
        <5> QED
          BY <5>2, Zenon
      <4> QED
        BY <4>1, <4>2
    <3>4. PICK q \in 1..Len(a[c]) : a[c][q] = f /\ <<c, q>> # <<b, j>>
      BY <3>3
    <3>5. f # a[b][j]
      <4> SUFFICES ASSUME f = a[b][j]
                   PROVE  FALSE
        OBVIOUS
      <4>1. q \in 1..Len(a[c]) /\ a[c][q].key = a[b][j].key
        BY <3>4, Zenon
      <4>2. c = b /\ q = j
        BY <4>1, SameKeySamePlace
      <4> QED
        BY <4>2, <3>4
    <3> QED
      BY <3>4, <3>5, Zenon DEF Holds
  <2>2. ASSUME NEW f, Holds(a, n, f), f # a[b][j]
        PROVE  Holds(a2, n, f)
    <3>1. PICK c \in 0..(n - 1) : \E p \in 1..Len(a[c]) : a[c][p] = f
      BY <2>2 DEF Holds
    <3>2. PICK p \in 1..Len(a[c]) : a[c][p] = f
      BY <3>1
    <3>3. CASE c # b
      BY <3>2, <3>3, <1>2 DEF Holds
    <3>4. CASE c = b
      <4>1. p \in 1..Len(a[b]) \ {j}
        BY <2>2, <3>2, <3>4
      <4>2. PICK q \in 1..Len(a2[b]) : at(q) = p
        BY <4>1, <1>4
      <4>3. a2[b][q] = f
        BY <4>2, <3>2, <3>4, <1>3
      <4> QED
        BY <4>3, Zenon DEF Holds
    <3> QED
      BY <3>3, <3>4
  <2> QED
    BY <2>1, <2>2, Zenon
<1>9. /\ \A x : x \in Places(a) <=>
            \E c \in 0..(n - 1) : \E p \in 1..Len(a[c]) : x = <<c, p>>
      /\ \A x : x \in Places(a2) <=>
            \E c \in 0..(n - 1) : \E p \in 1..Len(a2[c]) : x = <<c, p>>
  BY <1>0, <1>2, PlacesArePairs
<1>10. <<b, Len(a[b])>> \in Places(a)
  <2>1. Len(a[b]) \in 1..Len(a[b])
    BY <1>1
  <2> QED
    BY <2>1, <1>9, Zenon
<1>11. ASSUME NEW x
       PROVE  x \in Places(a2) <=> x \in Places(a) \ {<<b, Len(a[b])>>}
  <2>1. \A p : p \in 1..Len(a2[b]) <=> p \in 1..Len(a[b]) /\ p # Len(a[b])
    BY <1>1, <1>3
  <2>2. ASSUME NEW c \in 0..(n - 1), NEW p
        PROVE  p \in 1..Len(a2[c]) <=>
                  p \in 1..Len(a[c]) /\ <<c, p>> # <<b, Len(a[b])>>
    BY <1>2, <2>1
  <2>3. ASSUME x \in Places(a2)
        PROVE  x \in Places(a) /\ x # <<b, Len(a[b])>>
    <3>1. PICK c \in 0..(n - 1) : \E p \in 1..Len(a2[c]) : x = <<c, p>>
      BY <1>9, <2>3
    <3>2. PICK p \in 1..Len(a2[c]) : x = <<c, p>>
      BY <3>1
    <3>3. p \in 1..Len(a[c]) /\ <<c, p>> # <<b, Len(a[b])>>
      BY <2>2, <3>2
    <3> QED
      BY <1>9, <3>2, <3>3
  <2>4. ASSUME x \in Places(a), x # <<b, Len(a[b])>>
        PROVE  x \in Places(a2)
    <3>1. PICK c \in 0..(n - 1) : \E p \in 1..Len(a[c]) : x = <<c, p>>
      BY <1>9, <2>4
    <3>2. PICK p \in 1..Len(a[c]) : x = <<c, p>>
      BY <3>1
    <3>3. p \in 1..Len(a2[c])
      BY <2>2, <2>4, <3>2
    <3> QED
      BY <1>9, <3>2, <3>3
  <2> QED
    BY <2>3, <2>4
<1> QED
  BY <1>2, <1>6, <1>7, <1>8, <1>10, <1>11 DEF Sound

\* The entry at position j of a chain given another value.
LEMMA Revalued ==
  ASSUME NEW n \in Nat, NEW a, Sound(a, n),
         NEW b \in 0..(n - 1), NEW j \in 1..Len(a[b]),
         NEW e \in Node, e.key = a[b][j].key,
         NEW s \in Seq(Node), WithEntry(a[b], j, e, s),
         NEW a2, Rechained(a, n, b, s, a2)
  PROVE  /\ Sound(a2, n)
         /\ \A f : Holds(a2, n, f) <=> (Holds(a, n, f) /\ f # a[b][j]) \/ f = e
         /\ Places(a2) = Places(a)
<1>0. a \in [0..(n - 1) -> Seq(Node)]
  BY DEF Sound
<1>1. /\ Len(s) = Len(a[b])
      /\ \A p \in 1..Len(a[b]) : s[p] = IF p = j THEN e ELSE a[b][p]
  BY DEF WithEntry
<1>2. /\ a2 \in [0..(n - 1) -> Seq(Node)]
      /\ a2[b] = s
      /\ \A c \in 0..(n - 1) : c # b => a2[c] = a[c]
  BY DEF Rechained
<1>3. \A c \in 0..(n - 1) :
         /\ Len(a2[c]) = Len(a[c])
         /\ \A p \in 1..Len(a[c]) : /\ a2[c][p] = IF c = b /\ p = j THEN e ELSE a[c][p]
                                    /\ a2[c][p].key = a[c][p].key
  BY <1>1, <1>2
<1>4. Filed(a2, n) /\ Once(a2, n)
  <2>1. ASSUME NEW c \in 0..(n - 1), NEW p \in 1..Len(a2[c])
        PROVE  Hash[a2[c][p].key] % n = c
    <3>1. p \in 1..Len(a[c]) /\ a2[c][p].key = a[c][p].key
      BY <1>3, Zenon
    <3> QED
      BY <3>1, Zenon DEF Sound, Filed
  <2>2. ASSUME NEW c \in 0..(n - 1),
               NEW p \in 1..Len(a2[c]), NEW q \in 1..Len(a2[c]),
               a2[c][p].key = a2[c][q].key
        PROVE  p = q
    <3>1. /\ p \in 1..Len(a[c]) /\ a2[c][p].key = a[c][p].key
          /\ q \in 1..Len(a[c]) /\ a2[c][q].key = a[c][q].key
      BY <1>3, Zenon
    <3>2. a[c][p].key = a[c][q].key
      BY <2>2, <3>1, Zenon
    <3> QED
      BY <3>1, <3>2, Zenon DEF Sound, Once
  <2> QED
    BY <2>1, <2>2, Zenon DEF Filed, Once
<1>5. \A f : Holds(a2, n, f) <=> (Holds(a, n, f) /\ f # a[b][j]) \/ f = e
  <2>1. ASSUME NEW f, Holds(a2, n, f)
        PROVE  (Holds(a, n, f) /\ f # a[b][j]) \/ f = e
    <3>1. PICK c \in 0..(n - 1) : \E p \in 1..Len(a2[c]) : a2[c][p] = f
      BY <2>1 DEF Holds
    <3>2. PICK p \in 1..Len(a[c]) : a2[c][p] = f
      BY <3>1, <1>3
    <3>3. CASE c = b /\ p = j
      BY <3>2, <3>3, <1>3
    <3>4. CASE ~(c = b /\ p = j)
      <4>1. a[c][p] = f
        BY <3>2, <3>4, <1>3
      <4>2. f # a[b][j]
        BY <3>4, <4>1, SameKeySamePlace
      <4> QED
        BY <4>1, <4>2, Zenon DEF Holds
    <3> QED
      BY <3>3, <3>4
  <2>2. ASSUME NEW f, Holds(a, n, f), f # a[b][j]
        PROVE  Holds(a2, n, f)
    <3>1. PICK c \in 0..(n - 1) : \E p \in 1..Len(a[c]) : a[c][p] = f
      BY <2>2 DEF Holds
    <3>2. PICK p \in 1..Len(a[c]) : a[c][p] = f
      BY <3>1
    <3>3. p \in 1..Len(a2[c]) /\ a2[c][p] = f
      BY <2>2, <3>2, <1>3
    <3> QED
      BY <3>3, Zenon DEF Holds
  <2>3. Holds(a2, n, e)
    <3>1. j \in 1..Len(a2[b]) /\ a2[b][j] = e
      BY <1>3
    <3> QED
      BY <3>1, Zenon DEF Holds
  <2> QED
    BY <2>1, <2>2, <2>3, Zenon
<1>6. Places(a2) = Places(a)
  <2>1. \A x : x \in Places(a) <=>
            \E c \in 0..(n - 1) : \E p \in 1..Len(a[c]) : x = <<c, p>>
    BY <1>0, PlacesArePairs
  <2>2. \A x : x \in Places(a2) <=>
            \E c \in 0..(n - 1) : \E p \in 1..Len(a2[c]) : x = <<c, p>>
    BY <1>2, PlacesArePairs
  <2> QED
    BY <1>3, <2>1, <2>2
<1> QED
  BY <1>2, <1>4, <1>5, <1>6 DEF Sound

\* An array whose chains are empty.
LEMMA EmptyArray ==
  ASSUME NEW n \in Nat, NEW a \in [0..(n - 1) -> Seq(Node)],
         \A b \in 0..(n - 1) : a[b] = <<>>
  PROVE  /\ Sound(a, n)
         /\ \A f : ~Holds(a, n, f)
         /\ Places(a) = {}
<1>1. \A b \in 0..(n - 1) : 1..Len(a[b]) = {}
  OBVIOUS
<1>2. \A x : x \notin Places(a)
  BY <1>1, PlacesArePairs
<1> QED
  BY <1>1, <1>2 DEF Sound, Filed, Once, Holds

LEMMA EmptyIsEmpty ==
  ASSUME NEW n \in Nat
  PROVE  /\ Sound(Empty(n), n)
         /\ \A f : ~Holds(Empty(n), n, f)
         /\ Places(Empty(n)) = {}
<1>1. /\ Empty(n) \in [0..(n - 1) -> Seq(Node)]
      /\ \A b \in 0..(n - 1) : Empty(n)[b] = <<>>
  BY DEF Empty
<1> QED
  BY <1>1, EmptyArray

-----------------------------------------------------------------------------
(* The inductive invariant.                                                *)

\* Between operations there is one array; a resize fills one of twice the
\* size, and leaves nothing in the chains it has passed.
Resizing ==
    /\ pc = "idle" => newsize = 0 /\ i = 0
    /\ pc = "resize" => /\ newsize = 2 * size
                        /\ \A b \in 0..(i - 1) : buckets[b] = <<>>

\* Both arrays are sound, and no key is in both.
Arrays ==
    /\ Sound(buckets, size)
    /\ Sound(grown, newsize)
    /\ \A e, f \in Node :
          Holds(buckets, size, e) /\ Holds(grown, newsize, f) => e.key # f.key

Counted ==
    /\ IsFiniteSet(Places(buckets))
    /\ IsFiniteSet(Places(grown))
    /\ CountExact

\* During a resize it is the new array that is not overloaded.
LoadKept ==
    ~starved => 4 * count <= 3 * (IF pc = "idle" THEN size ELSE newsize)

IInv == TypeOK /\ Resizing /\ Arrays /\ Counted /\ LoadKept

\* The parts of TypeOK: the arrays' types are part of Sound.
Numbers ==
    /\ pc \in {"idle", "resize"}
    /\ size \in Nat \ {0}
    /\ count \in Int
    /\ newsize \in Nat
    /\ i \in 0..size
    /\ starved \in BOOLEAN

Answers == [op : {"none", "set", "set failed", "deleted", "not found", "get"},
            key : Keys \cup {NoValue},
            value : Values \cup {NoValue}]

LEMMA TypeParts ==
  /\ TypeOK => Numbers /\ result \in Answers
  /\ Numbers /\ result \in Answers /\ Sound(buckets, size) /\ Sound(grown, newsize)
        => TypeOK
  /\ TypeOK' => Numbers' /\ result' \in Answers
  /\ Numbers' /\ result' \in Answers /\ Sound(buckets', size') /\ Sound(grown', newsize')
        => TypeOK'
BY Zenon DEF TypeOK, Numbers, Answers, Sound

\* A walk for k finds the one entry of its key, wherever that is held.
LEMMA WalkFinds ==
  ASSUME IInv, NEW k \in Keys
  PROVE  /\ Slot(k) \in 0..(size - 1)
         /\ Slot(k) = Hash[k] % size
         /\ buckets[Slot(k)] \in Seq(Node)
         /\ \A p : p \in Found(k) <=>
               p \in 1..Len(buckets[Slot(k)]) /\ buckets[Slot(k)][p].key = k
         /\ Found(k) # {} =>
               /\ First(k) \in 1..Len(buckets[Slot(k)])
               /\ Holds(buckets, size, buckets[Slot(k)][First(k)])
               /\ buckets[Slot(k)][First(k)] \in Node
               /\ buckets[Slot(k)][First(k)].key = k
         /\ \A e : Holds(buckets, size, e) /\ e.key = k =>
               Found(k) # {} /\ buckets[Slot(k)][First(k)] = e
<1>1. size \in Nat \ {0} /\ Sound(buckets, size)
  BY DEF IInv, TypeOK, Arrays
<1>2. Slot(k) \in 0..(size - 1)
  BY <1>1, SlotInRange DEF Slot
<1>3. /\ buckets[Slot(k)] \in Seq(Node)
      /\ \A p \in 1..Len(buckets[Slot(k)]) : buckets[Slot(k)][p] \in Node
  BY <1>1, <1>2, ChainsAreSequences DEF Sound
<1>4. \A p : p \in Found(k) <=>
         p \in 1..Len(buckets[Slot(k)]) /\ buckets[Slot(k)][p].key = k
  BY <1>3, LenProperties, Zenon DEF Found
<1>5. \A p, q \in Found(k) : p = q
  BY <1>1, <1>2, <1>4, Zenon DEF Sound, Once
<1>6. ASSUME Found(k) # {}
      PROVE  First(k) \in Found(k)
  <2>1. PICK p : p \in Found(k)
    BY <1>6
  <2>2. p \in Int
    BY <2>1, <1>4
  <2>3. \A q \in Found(k) : p <= q
    BY <2>1, <2>2, <1>5
  <2> QED
    BY <2>1, <2>3, Zenon DEF First
<1>7. Found(k) # {} =>
         /\ First(k) \in 1..Len(buckets[Slot(k)])
         /\ Holds(buckets, size, buckets[Slot(k)][First(k)])
         /\ buckets[Slot(k)][First(k)] \in Node
         /\ buckets[Slot(k)][First(k)].key = k
  BY <1>2, <1>3, <1>4, <1>6, Zenon DEF Holds
<1>8. ASSUME NEW e, Holds(buckets, size, e), e.key = k
      PROVE  Found(k) # {} /\ buckets[Slot(k)][First(k)] = e
  <2>1. PICK b \in 0..(size - 1) : \E p \in 1..Len(buckets[b]) : buckets[b][p] = e
    BY <1>8 DEF Holds
  <2>2. PICK p \in 1..Len(buckets[b]) : buckets[b][p] = e
    BY <2>1
  <2>3. b = Slot(k)
    BY <1>1, <1>8, <2>2 DEF Sound, Filed, Slot
  <2>4. p \in Found(k)
    BY <1>4, <1>8, <2>2, <2>3
  <2>5. First(k) = p
    BY <1>5, <1>6, <2>4
  <2> QED
    BY <2>2, <2>3, <2>4, <2>5
<1> QED
  BY <1>2, <1>3, <1>4, <1>7, <1>8 DEF Slot

-----------------------------------------------------------------------------
(* What the steps do to what the arrays hold.                              *)

LEMMA UpdateEffect ==
  ASSUME IInv, NEW k \in Keys, NEW v \in Values, Update(k, v)
  PROVE  /\ Sound(buckets', size)
         /\ \A f : Holds(buckets', size, f) <=>
               \/ Holds(buckets, size, f) /\ f.key # k
               \/ f = [key |-> k, value |-> v]
         /\ Places(buckets') = Places(buckets)
         /\ \E f : Holds(buckets, size, f) /\ f.key = k
<1> DEFINE e == [key |-> k, value |-> v]
           b == Slot(k)
           p == First(k)
           s == [buckets[b] EXCEPT ![p] = e]
<1>1. /\ b \in 0..(size - 1)
      /\ buckets[b] \in Seq(Node)
      /\ p \in 1..Len(buckets[b])
      /\ Holds(buckets, size, buckets[b][p])
      /\ buckets[b][p] \in Node
      /\ buckets[b][p].key = k
  BY WalkFinds DEF Update
<1>2. size \in Nat /\ Sound(buckets, size)
  BY DEF IInv, TypeOK, Arrays
<1>3. e \in Node /\ e.key = k /\ [buckets[b][p] EXCEPT !.value = v] = e
  BY <1>1 DEF Node
<1>4. buckets' = [buckets EXCEPT ![b] = s]
  <2>1. buckets' = [buckets EXCEPT ![b][p].value = v]
    BY DEF Update
  <2> QED
    BY <1>1, <1>2, <1>3, <2>1 DEF Sound
<1>5. s \in Seq(Node) /\ WithEntry(buckets[b], p, e, s)
  BY <1>1, <1>3, ExceptChain
<1>6. /\ Sound(buckets', size)
      /\ \A f : Holds(buckets', size, f) <=>
            (Holds(buckets, size, f) /\ f # buckets[b][p]) \/ f = e
      /\ Places(buckets') = Places(buckets)
  <2> HIDE DEF e, b, p, s
  <2>1. Rechained(buckets, size, b, s, buckets')
    BY <1>1, <1>2, <1>4, <1>5, ExceptRechains
  <2>2. e.key = buckets[b][p].key
    BY <1>1, <1>3
  <2>3. /\ size \in Nat /\ Sound(buckets, size)
        /\ b \in 0..(size - 1) /\ p \in 1..Len(buckets[b]) /\ e \in Node
        /\ s \in Seq(Node) /\ WithEntry(buckets[b], p, e, s)
    BY <1>1, <1>2, <1>3, <1>5
  <2> QED
    BY <2>1, <2>2, <2>3, Revalued
<1>7. \A f : Holds(buckets, size, f) => (f # buckets[b][p] <=> f.key # k)
  BY <1>1, <1>2, SameKeySameEntry
<1> QED
  BY <1>1, <1>6, <1>7

LEMMA InsertEffect ==
  ASSUME IInv, NEW k \in Keys, NEW v \in Values, Insert(k, v)
  PROVE  /\ Sound(buckets', size)
         /\ \A f : Holds(buckets', size, f) <=>
               Holds(buckets, size, f) \/ f = [key |-> k, value |-> v]
         /\ \A f : Holds(buckets, size, f) => f.key # k
         /\ IsFiniteSet(Places(buckets'))
         /\ Cardinality(Places(buckets')) = Cardinality(Places(buckets)) + 1
<1> DEFINE e == [key |-> k, value |-> v]
           b == Slot(k)
           x == <<b, Len(buckets[b]) + 1>>
           s == Cons(e, buckets[b])
<1>1. b \in 0..(size - 1) /\ b = Hash[e.key] % size /\ buckets[b] \in Seq(Node)
  BY WalkFinds
<1>2. size \in Nat /\ Sound(buckets, size) /\ e \in Node
  BY DEF IInv, TypeOK, Arrays, Node
<1>3. \A f : Holds(buckets, size, f) => f.key # e.key
  BY WalkFinds DEF Insert
<1>4. buckets' = [buckets EXCEPT ![b] = s]
  BY DEF Insert
<1>5. s \in Seq(Node) /\ WithHead(buckets[b], e, s)
  BY <1>1, <1>2, ConsChain
<1>6. /\ Sound(buckets', size)
      /\ \A f : Holds(buckets', size, f) <=> Holds(buckets, size, f) \/ f = e
      /\ Places(buckets') = Places(buckets) \cup {x}
      /\ x \notin Places(buckets)
  <2> HIDE DEF e, b, s
  <2>1. Rechained(buckets, size, b, s, buckets')
    BY <1>1, <1>2, <1>4, <1>5, ExceptRechains
  <2>2. /\ size \in Nat /\ Sound(buckets, size)
        /\ b \in 0..(size - 1) /\ b = Hash[e.key] % size /\ e \in Node
        /\ s \in Seq(Node) /\ WithHead(buckets[b], e, s)
    BY <1>1, <1>2, <1>5, Zenon
  <2> QED
    BY <1>3, <2>1, <2>2, Consed
<1>7. /\ IsFiniteSet(Places(buckets'))
      /\ Cardinality(Places(buckets')) = Cardinality(Places(buckets)) + 1
  <2> HIDE DEF x
  <2> QED
    BY <1>6, FS_AddElement DEF IInv, Counted
<1> QED
  BY <1>3, <1>6, <1>7

LEMMA DeleteEffect ==
  ASSUME IInv, NEW k \in Keys, Delete(k), Found(k) # {}
  PROVE  /\ Sound(buckets', size)
         /\ \A f : Holds(buckets', size, f) <=> Holds(buckets, size, f) /\ f.key # k
         /\ \E f \in Node : Holds(buckets, size, f) /\ f.key = k
         /\ IsFiniteSet(Places(buckets'))
         /\ Cardinality(Places(buckets')) = Cardinality(Places(buckets)) - 1
<1> DEFINE b == Slot(k)
           p == First(k)
           x == <<b, Len(buckets[b])>>
           s == RemoveAt(buckets[b], p)
<1>1. /\ b \in 0..(size - 1)
      /\ buckets[b] \in Seq(Node)
      /\ p \in 1..Len(buckets[b])
      /\ Holds(buckets, size, buckets[b][p])
      /\ buckets[b][p] \in Node
      /\ buckets[b][p].key = k
  BY WalkFinds
<1>2. size \in Nat /\ Sound(buckets, size)
  BY DEF IInv, TypeOK, Arrays
<1>3. buckets' = [buckets EXCEPT ![b] = s]
  BY DEF Delete
<1>4. s \in Seq(Node) /\ Without(buckets[b], p, s)
  BY <1>1, RemoveAtChain
<1>5. /\ Sound(buckets', size)
      /\ \A f : Holds(buckets', size, f) <=> Holds(buckets, size, f) /\ f # buckets[b][p]
      /\ Places(buckets') = Places(buckets) \ {x}
      /\ x \in Places(buckets)
  <2> HIDE DEF b, p, s
  <2>1. Rechained(buckets, size, b, s, buckets')
    BY <1>1, <1>2, <1>3, <1>4, ExceptRechains
  <2> QED
    BY <1>1, <1>2, <1>4, <2>1, Dropped
<1>6. \A f : Holds(buckets, size, f) => (f # buckets[b][p] <=> f.key # k)
  BY <1>1, <1>2, SameKeySameEntry
<1>7. /\ IsFiniteSet(Places(buckets'))
      /\ Cardinality(Places(buckets')) = Cardinality(Places(buckets)) - 1
  <2> HIDE DEF x
  <2> QED
    BY <1>5, FS_RemoveElement DEF IInv, Counted
<1> QED
  BY <1>1, <1>5, <1>6, <1>7

LEMMA MoveEffect ==
  ASSUME IInv, MoveEntry
  PROVE  /\ Sound(buckets', size)
         /\ Sound(grown', newsize)
         /\ \E e \in Node :
               /\ Holds(buckets, size, e)
               /\ \A f : Holds(buckets', size, f) <=> Holds(buckets, size, f) /\ f # e
               /\ \A f : Holds(grown', newsize, f) <=> Holds(grown, newsize, f) \/ f = e
         /\ IsFiniteSet(Places(buckets'))
         /\ IsFiniteSet(Places(grown'))
         /\ Cardinality(Places(buckets')) = Cardinality(Places(buckets)) - 1
         /\ Cardinality(Places(grown')) = Cardinality(Places(grown)) + 1
<1> DEFINE e == buckets[i][1]
           s == Tail(buckets[i])
           x == <<i, Len(buckets[i])>>
           b == NewSlot(e.key)
           y == <<b, Len(grown[b]) + 1>>
           t == Cons(e, grown[b])
<1>1. /\ size \in Nat \ {0} /\ newsize \in Nat \ {0}
      /\ i \in 0..(size - 1)
      /\ Sound(buckets, size) /\ Sound(grown, newsize)
      /\ buckets[i] # <<>>
  <2>1. size \in Nat \ {0} /\ i \in 0..(size - 1) /\ buckets[i] # <<>>
    <3>1. size \in Nat \ {0} /\ i \in 0..size
      BY DEF IInv, TypeOK
    <3>2. i < size /\ buckets[i] # <<>>
      BY DEF MoveEntry
    <3> QED
      BY <3>1, <3>2
  <2>2. newsize = 2 * size
    BY DEF IInv, Resizing, MoveEntry
  <2>3. newsize \in Nat \ {0}
    BY <2>1, <2>2
  <2> QED
    BY <2>1, <2>3 DEF IInv, Arrays
<1>2. buckets[i] \in Seq(Node) /\ \A p \in 1..Len(buckets[i]) : buckets[i][p] \in Node
  BY <1>1, ChainsAreSequences DEF Sound
<1>3. /\ s \in Seq(Node) /\ Without(buckets[i], 1, s)
      /\ 1 \in 1..Len(buckets[i])
      /\ Head(buckets[i]) = e
  <2>1. /\ s \in Seq(Node) /\ Without(buckets[i], 1, s)
        /\ Len(buckets[i]) \in Nat \ {0} /\ Head(buckets[i]) = buckets[i][1]
    BY <1>1, <1>2, TailChain
  <2> QED
    BY <2>1
<1>4. e \in Node /\ Holds(buckets, size, e)
  BY <1>1, <1>2, <1>3, Zenon DEF Holds
<1>5. b \in 0..(newsize - 1) /\ b = Hash[e.key] % newsize
  BY <1>1, <1>4, SlotInRange DEF NewSlot, Node
<1>6. \A f : Holds(grown, newsize, f) => f.key # e.key
  <2>1. \A f : Holds(grown, newsize, f) => f \in Node
    <3>1. \A c \in 0..(newsize - 1) : \A p \in 1..Len(grown[c]) : grown[c][p] \in Node
      BY <1>1, ChainsAreSequences DEF Sound
    <3> QED
      BY <3>1, Zenon DEF Holds
  <2> QED
    BY <1>4, <2>1 DEF IInv, Arrays
<1>7. t \in Seq(Node) /\ WithHead(grown[b], e, t)
  <2>1. grown[b] \in Seq(Node)
    BY <1>1, <1>5 DEF Sound
  <2> QED
    BY <1>4, <2>1, ConsChain
<1>8. /\ buckets' = [buckets EXCEPT ![i] = s]
      /\ grown' = [grown EXCEPT ![b] = t]
  BY <1>3 DEF MoveEntry
<1>9. /\ Sound(buckets', size)
      /\ \A f : Holds(buckets', size, f) <=> Holds(buckets, size, f) /\ f # e
      /\ Places(buckets') = Places(buckets) \ {x}
      /\ x \in Places(buckets)
  <2> HIDE DEF s
  <2>1. Rechained(buckets, size, i, s, buckets')
    BY <1>1, <1>3, <1>8, ExceptRechains
  <2> QED
    BY <1>1, <1>3, <2>1, Dropped
<1>10. /\ Sound(grown', newsize)
       /\ \A f : Holds(grown', newsize, f) <=> Holds(grown, newsize, f) \/ f = e
       /\ Places(grown') = Places(grown) \cup {y}
       /\ y \notin Places(grown)
  <2> HIDE DEF e, b, t
  <2>1. Rechained(grown, newsize, b, t, grown')
    BY <1>1, <1>5, <1>7, <1>8, ExceptRechains
  <2>2. /\ newsize \in Nat /\ Sound(grown, newsize)
        /\ b \in 0..(newsize - 1) /\ b = Hash[e.key] % newsize /\ e \in Node
        /\ t \in Seq(Node) /\ WithHead(grown[b], e, t)
        /\ \A f : Holds(grown, newsize, f) => f.key # e.key
    BY <1>1, <1>4, <1>5, <1>6, <1>7, Zenon
  <2> QED
    BY <2>1, <2>2, Consed
<1>11. /\ IsFiniteSet(Places(buckets'))
       /\ Cardinality(Places(buckets')) = Cardinality(Places(buckets)) - 1
  <2> HIDE DEF x
  <2> QED
    BY <1>9, FS_RemoveElement DEF IInv, Counted
<1>12. /\ IsFiniteSet(Places(grown'))
       /\ Cardinality(Places(grown')) = Cardinality(Places(grown)) + 1
  <2> HIDE DEF y
  <2> QED
    BY <1>10, FS_AddElement DEF IInv, Counted
<1> HIDE DEF e
<1> QED
  BY <1>4, <1>9, <1>10, <1>11, <1>12

\* When a resize is over nothing is left in the old array.
LEMMA InstallEffect ==
  ASSUME IInv, Install
  PROVE  (\A f : ~Holds(buckets, size, f)) /\ Places(buckets) = {}
<1>1. /\ size \in Nat
      /\ buckets \in [0..(size - 1) -> Seq(Node)]
      /\ \A b \in 0..(size - 1) : buckets[b] = <<>>
  BY DEF IInv, TypeOK, Resizing, Install
<1> QED
  BY <1>1, EmptyArray

-----------------------------------------------------------------------------
(* The invariant holds at first and every step preserves it.               *)

LEMMA InvInit == Init => IInv
<1> SUFFICES ASSUME Init PROVE IInv
  OBVIOUS
<1>1. size \in Nat \ {0} /\ newsize = 0
  BY HashTableAssumption DEF Init
<1>2. /\ Sound(buckets, size) /\ Sound(grown, newsize)
      /\ \A f : ~Holds(buckets, size, f)
      /\ Places(buckets) = {} /\ Places(grown) = {}
  BY <1>1, EmptyIsEmpty DEF Init
<1>3. TypeOK
  <2>1. Numbers
    <3>1. pc = "idle" /\ count = 0 /\ i = 0
      BY DEF Init
    <3>2. starved \in BOOLEAN
      BY DEF Init
    <3> QED
      BY <1>1, <3>1, <3>2 DEF Numbers
  <2>2. result \in Answers
    BY DEF Init, Answers, Outcome
  <2> QED
    BY <1>2, <2>1, <2>2, TypeParts
<1>4. Counted
  BY <1>2, FS_EmptySet DEF Init, Counted, CountExact
<1>5. LoadKept
  BY <1>1 DEF Init, LoadKept
<1> QED
  BY <1>2, <1>3, <1>4, <1>5 DEF Init, IInv, Resizing, Arrays

\* The steps, one by one.
LEMMA Steps ==
  ASSUME Next,
         NEW P,
         \A k \in Keys, v \in Values : Update(k, v) => P,
         \A k \in Keys, v \in Values : Insert(k, v) => P,
         \A k \in Keys : SetFails(k) => P,
         \A k \in Keys : Delete(k) => P,
         \A k \in Keys : Get(k) => P,
         MoveEntry => P,
         NextChain => P,
         Install => P
  PROVE  P
BY DEF Next

LEMMA NumbersStep ==
  ASSUME IInv, [Next]_vars
  PROVE  Numbers'
<1>0. Numbers
  BY TypeParts DEF IInv
<1>1. ASSUME NEW k \in Keys, NEW v \in Values, Update(k, v)
      PROVE  Numbers'
  BY <1>0, <1>1 DEF Update, Numbers
<1>2. ASSUME NEW k \in Keys, NEW v \in Values, Insert(k, v)
      PROVE  Numbers'
  <2>1. count' = count + 1 /\ size' = size
    BY <1>2 DEF Insert
  <2>2. CASE pc' = "resize" /\ newsize' = 2 * size /\ i' = 0 /\ starved' = starved
    BY <1>0, <2>1, <2>2 DEF Numbers
  <2>3. CASE starved' = (starved \/ Overloaded(count', size))
             /\ pc' = pc /\ newsize' = newsize /\ i' = i
    BY <1>0, <2>1, <2>3 DEF Numbers, Overloaded
  <2> QED
    BY <1>2, <2>2, <2>3 DEF Insert
<1>3. ASSUME NEW k \in Keys, SetFails(k)
      PROVE  Numbers'
  BY <1>0, <1>3 DEF SetFails, Numbers
<1>4. ASSUME NEW k \in Keys, Delete(k)
      PROVE  Numbers'
  <2>1. count' = count \/ count' = count - 1
    BY <1>4 DEF Delete
  <2>2. UNCHANGED <<pc, size, newsize, i, starved>>
    BY <1>4 DEF Delete
  <2> QED
    BY <1>0, <2>1, <2>2 DEF Numbers
<1>5. ASSUME NEW k \in Keys, Get(k)
      PROVE  Numbers'
  BY <1>0, <1>5 DEF Get, Numbers
<1>6. CASE MoveEntry
  BY <1>0, <1>6 DEF MoveEntry, Numbers
<1>7. CASE NextChain
  BY <1>0, <1>7 DEF NextChain, Numbers
<1>8. CASE Install
  <2>1. newsize = 2 * size
    BY <1>8 DEF IInv, Resizing, Install
  <2>2. /\ pc' = "idle" /\ size' = newsize /\ newsize' = 0 /\ i' = 0 /\ count' = count
        /\ starved' = (starved /\ Overloaded(count, newsize))
    BY <1>8 DEF Install
  <2> QED
    BY <1>0, <2>1, <2>2 DEF Numbers, Overloaded
<1>9. CASE UNCHANGED vars
  BY <1>0, <1>9 DEF vars, Numbers
<1> QED
  BY <1>1, <1>2, <1>3, <1>4, <1>5, <1>6, <1>7, <1>8, <1>9, Steps, Zenon

LEMMA AnswersStep ==
  ASSUME IInv, [Next]_vars
  PROVE  result' \in Answers
<1> USE DEF Outcome
<1>0. result \in Answers
  BY TypeParts DEF IInv
<1>1. ASSUME NEW k \in Keys, NEW v \in Values, Update(k, v)
      PROVE  result' \in Answers
  BY <1>1 DEF Update, Answers
<1>2. ASSUME NEW k \in Keys, NEW v \in Values, Insert(k, v)
      PROVE  result' \in Answers
  <2>1. result' = Outcome("set", k, v)
    BY <1>2 DEF Insert
  <2> QED
    BY <2>1 DEF Answers
<1>3. ASSUME NEW k \in Keys, SetFails(k)
      PROVE  result' \in Answers
  BY <1>3 DEF SetFails, Answers
<1>4. ASSUME NEW k \in Keys, Delete(k)
      PROVE  result' \in Answers
  <2>1. CASE result' = Outcome("not found", k, NoValue)
    BY <2>1 DEF Answers
  <2>2. CASE result' = Outcome("deleted", k, NoValue)
    BY <2>2 DEF Answers
  <2> QED
    BY <1>4, <2>1, <2>2 DEF Delete
<1>5. ASSUME NEW k \in Keys, Get(k)
      PROVE  result' \in Answers
  <2>1. CASE Found(k) = {}
    BY <1>5, <2>1 DEF Get, Answers
  <2>2. CASE Found(k) # {}
    <3>1. buckets[Slot(k)][First(k)].value \in Values
      BY <2>2, WalkFinds DEF Node
    <3> QED
      BY <1>5, <2>2, <3>1 DEF Get, Answers
  <2> QED
    BY <2>1, <2>2
<1>6. CASE MoveEntry
  BY <1>0, <1>6 DEF MoveEntry
<1>7. CASE NextChain
  BY <1>0, <1>7 DEF NextChain
<1>8. CASE Install
  BY <1>0, <1>8 DEF Install
<1>9. CASE UNCHANGED vars
  BY <1>0, <1>9 DEF vars
<1> QED
  BY <1>1, <1>2, <1>3, <1>4, <1>5, <1>6, <1>7, <1>8, <1>9, Steps, Zenon

LEMMA ResizingStep ==
  ASSUME IInv, [Next]_vars
  PROVE  Resizing'
<1>0. Numbers /\ Resizing /\ Sound(buckets, size)
  BY TypeParts DEF IInv, Arrays
<1>1. ASSUME NEW k \in Keys, NEW v \in Values, Update(k, v)
      PROVE  Resizing'
  BY <1>0, <1>1 DEF Update, Resizing
<1>2. ASSUME NEW k \in Keys, NEW v \in Values, Insert(k, v)
      PROVE  Resizing'
  BY <1>0, <1>2 DEF Insert, Resizing
<1>3. ASSUME NEW k \in Keys, SetFails(k)
      PROVE  Resizing'
  BY <1>0, <1>3 DEF SetFails, Resizing
<1>4. ASSUME NEW k \in Keys, Delete(k)
      PROVE  Resizing'
  BY <1>0, <1>4 DEF Delete, Resizing
<1>5. ASSUME NEW k \in Keys, Get(k)
      PROVE  Resizing'
  BY <1>0, <1>5 DEF Get, Resizing
<1>6. CASE MoveEntry
  <2>1. i \in 0..(size - 1) /\ size \in Nat
    BY <1>0, <1>6 DEF MoveEntry, Numbers
  <2>2. \A b \in 0..(i - 1) : buckets'[b] = buckets[b]
    BY <1>0, <1>6, <2>1 DEF MoveEntry, Sound
  <2> QED
    BY <1>0, <1>6, <2>2 DEF MoveEntry, Resizing
<1>7. CASE NextChain
  <2>1. i \in Nat
    BY <1>0 DEF Numbers
  <2>2. \A b \in 0..((i + 1) - 1) : b = i \/ b \in 0..(i - 1)
    BY <2>1
  <2> QED
    BY <1>0, <1>7, <2>2 DEF NextChain, Resizing
<1>8. CASE Install
  BY <1>8 DEF Install, Resizing
<1>9. CASE UNCHANGED vars
  BY <1>0, <1>9 DEF vars, Resizing
<1> QED
  BY <1>1, <1>2, <1>3, <1>4, <1>5, <1>6, <1>7, <1>8, <1>9, Steps, Zenon

LEMMA ArraysStep ==
  ASSUME IInv, [Next]_vars
  PROVE  Arrays'
<1>0. Arrays /\ size \in Nat
  BY TypeParts DEF IInv, Numbers
<1>a. ASSUME pc = "idle"
      PROVE  \A f : ~Holds(grown, newsize, f)
  <2>1. newsize = 0
    BY <1>a DEF IInv, Resizing
  <2> QED
    BY <2>1 DEF Holds
<1>1. ASSUME NEW k \in Keys, NEW v \in Values, Update(k, v)
      PROVE  Arrays'
  BY <1>0, <1>a, <1>1, UpdateEffect DEF Update, Arrays
<1>2. ASSUME NEW k \in Keys, NEW v \in Values, Insert(k, v)
      PROVE  Arrays'
  <2>1. Sound(buckets', size')
    BY <1>2, InsertEffect DEF Insert
  <2>2. Sound(grown', newsize') /\ \A f : ~Holds(grown', newsize', f)
    <3>1. CASE newsize' = 2 * size /\ grown' = Empty(newsize')
      <4>1. newsize' \in Nat
        BY <1>0, <3>1
      <4> QED
        BY <3>1, <4>1, EmptyIsEmpty
    <3>2. CASE UNCHANGED <<grown, newsize>>
      BY <1>0, <1>a, <1>2, <3>2 DEF Insert, Arrays
    <3> QED
      BY <1>2, <3>1, <3>2 DEF Insert
  <2> QED
    BY <2>1, <2>2 DEF Arrays
<1>3. ASSUME NEW k \in Keys, SetFails(k)
      PROVE  Arrays'
  BY <1>0, <1>3 DEF SetFails, Arrays
<1>4. ASSUME NEW k \in Keys, Delete(k)
      PROVE  Arrays'
  <2>1. CASE Found(k) = {}
    BY <1>0, <1>4, <2>1 DEF Delete, Arrays
  <2>2. CASE Found(k) # {}
    BY <1>0, <1>a, <1>4, <2>2, DeleteEffect DEF Delete, Arrays
  <2> QED
    BY <2>1, <2>2
<1>5. ASSUME NEW k \in Keys, Get(k)
      PROVE  Arrays'
  BY <1>0, <1>5 DEF Get, Arrays
<1>6. CASE MoveEntry
  <2>1. /\ Sound(buckets', size') /\ Sound(grown', newsize')
        /\ size' = size /\ newsize' = newsize
    BY <1>6, MoveEffect DEF MoveEntry
  <2>2. PICK e \in Node :
           /\ Holds(buckets, size, e)
           /\ \A f : Holds(buckets', size, f) <=> Holds(buckets, size, f) /\ f # e
           /\ \A f : Holds(grown', newsize, f) <=> Holds(grown, newsize, f) \/ f = e
    BY <1>6, MoveEffect
  <2>3. ASSUME NEW f \in Node, NEW g \in Node,
               Holds(buckets', size, f), Holds(grown', newsize, g)
        PROVE  f.key # g.key
    <3>1. Holds(buckets, size, f) /\ f # e
      BY <2>2, <2>3
    <3>2. CASE Holds(grown, newsize, g)
      BY <1>0, <3>1, <3>2 DEF Arrays
    <3>3. CASE g = e
      <4>1. size \in Nat /\ Sound(buckets, size)
        BY <1>0 DEF Arrays
      <4> QED
        BY <2>2, <3>1, <3>3, <4>1, SameKeySameEntry
    <3> QED
      BY <2>2, <2>3, <3>2, <3>3
  <2> QED
    BY <2>1, <2>3 DEF Arrays
<1>7. CASE NextChain
  BY <1>0, <1>7 DEF NextChain, Arrays
<1>8. CASE Install
  <2>1. /\ Sound(buckets', size')
        /\ newsize' = 0 /\ grown' = Empty(0)
    BY <1>0, <1>8 DEF Install, Arrays
  <2>2. Sound(grown', newsize') /\ \A f : ~Holds(grown', newsize', f)
    BY <2>1, EmptyIsEmpty
  <2> QED
    BY <2>1, <2>2 DEF Arrays
<1>9. CASE UNCHANGED vars
  BY <1>0, <1>9 DEF vars, Arrays
<1> QED
  BY <1>1, <1>2, <1>3, <1>4, <1>5, <1>6, <1>7, <1>8, <1>9, Steps, Zenon

LEMMA CountedStep ==
  ASSUME IInv, [Next]_vars
  PROVE  Counted'
<1> DEFINE B == Cardinality(Places(buckets))
           G == Cardinality(Places(grown))
<1>0. /\ Counted /\ B \in Nat /\ G \in Nat /\ count = B + G
      /\ IsFiniteSet(Places(buckets)) /\ IsFiniteSet(Places(grown))
  BY FS_CardinalityType DEF IInv, Counted, CountExact
<1>a. IsFiniteSet({}) /\ Cardinality({}) = 0
  BY FS_EmptySet
<1>b. \A n \in Nat : Places(Empty(n)) = {}
  BY EmptyIsEmpty
<1>c. ASSUME pc = "idle"
      PROVE  Places(grown) = {}
  <2>1. newsize = 0 /\ grown \in [0..(newsize - 1) -> Seq(Node)]
    BY <1>c DEF IInv, Resizing, Arrays, Sound
  <2>2. \A b \in 0..(newsize - 1) : grown[b] = <<>>
    BY <2>1
  <2>3. newsize \in Nat
    BY <2>1
  <2> QED
    BY <2>1, <2>2, <2>3, EmptyArray, Zenon
<1>1. ASSUME NEW k \in Keys, NEW v \in Values, Update(k, v)
      PROVE  Counted'
  <2>1. Places(buckets') = Places(buckets) /\ count' = count /\ grown' = grown
    BY <1>1, UpdateEffect DEF Update
  <2> QED
    BY <1>0, <2>1 DEF Counted, CountExact
<1>2. ASSUME NEW k \in Keys, NEW v \in Values, Insert(k, v)
      PROVE  Counted'
  <2>1. /\ IsFiniteSet(Places(buckets'))
        /\ Cardinality(Places(buckets')) = B + 1
        /\ count' = count + 1
    BY <1>2, InsertEffect DEF Insert
  <2>2. Places(grown') = {} /\ Places(grown) = {}
    <3>1. CASE newsize' = 2 * size /\ grown' = Empty(newsize')
      <4>1. newsize' \in Nat
        BY <3>1, TypeParts DEF IInv, Numbers
      <4> QED
        BY <1>2, <1>b, <1>c, <3>1, <4>1 DEF Insert
    <3>2. CASE grown' = grown
      BY <1>2, <1>c, <3>2 DEF Insert
    <3> QED
      BY <1>2, <3>1, <3>2 DEF Insert
  <2> QED
    BY <1>0, <1>a, <2>1, <2>2 DEF Counted, CountExact
<1>3. ASSUME NEW k \in Keys, SetFails(k)
      PROVE  Counted'
  BY <1>0, <1>3 DEF SetFails, Counted, CountExact
<1>4. ASSUME NEW k \in Keys, Delete(k)
      PROVE  Counted'
  <2>1. CASE Found(k) = {}
    BY <1>0, <1>4, <2>1 DEF Delete, Counted, CountExact
  <2>2. CASE Found(k) # {}
    <3>1. /\ IsFiniteSet(Places(buckets'))
          /\ Cardinality(Places(buckets')) = B - 1
          /\ count' = count - 1 /\ grown' = grown
      BY <1>4, <2>2, DeleteEffect DEF Delete
    <3> QED
      BY <1>0, <3>1 DEF Counted, CountExact
  <2> QED
    BY <2>1, <2>2
<1>5. ASSUME NEW k \in Keys, Get(k)
      PROVE  Counted'
  BY <1>0, <1>5 DEF Get, Counted, CountExact
<1>6. CASE MoveEntry
  <2>1. /\ IsFiniteSet(Places(buckets')) /\ IsFiniteSet(Places(grown'))
        /\ Cardinality(Places(buckets')) = B - 1
        /\ Cardinality(Places(grown')) = G + 1
        /\ count' = count
    BY <1>6, MoveEffect DEF MoveEntry
  <2> QED
    BY <1>0, <2>1 DEF Counted, CountExact
<1>7. CASE NextChain
  BY <1>0, <1>7 DEF NextChain, Counted, CountExact
<1>8. CASE Install
  <2>1. Places(buckets) = {} /\ buckets' = grown /\ count' = count /\ grown' = Empty(0)
    BY <1>8, InstallEffect DEF Install
  <2>2. Places(grown') = {}
    BY <1>b, <2>1
  <2>3. count = G
    BY <1>0, <1>a, <2>1
  <2>4. Cardinality(Places(grown')) = 0 /\ Cardinality(Places(buckets')) = G
    BY <1>a, <2>1, <2>2
  <2>5. IsFiniteSet(Places(grown')) /\ IsFiniteSet(Places(buckets'))
    BY <1>0, <1>a, <2>1, <2>2
  <2>6. count' = Cardinality(Places(buckets')) + Cardinality(Places(grown'))
    <3>1. G \in Nat
      BY <1>0
    <3>2. count' = G
      BY <2>1, <2>3
    <3> HIDE DEF G
    <3> QED
      BY <2>4, <3>1, <3>2
  <2> QED
    BY <2>5, <2>6 DEF Counted, CountExact
<1>9. CASE UNCHANGED vars
  BY <1>0, <1>9 DEF vars, Counted, CountExact
<1> QED
  BY <1>1, <1>2, <1>3, <1>4, <1>5, <1>6, <1>7, <1>8, <1>9, Steps, Zenon

\* One entry more than three quarters of n is at most three quarters of 2n.
LEMMA OneDoublingIsEnough ==
  ASSUME NEW n \in Nat \ {0}, NEW c \in Int, 4 * c <= 3 * n
  PROVE  4 * (c + 1) <= 3 * (2 * n)
<1>1. CASE n = 1
  BY <1>1
<1>2. CASE n >= 2
  BY <1>2
<1> QED
  BY <1>1, <1>2

LEMMA LoadStep ==
  ASSUME IInv, [Next]_vars
  PROVE  LoadKept'
<1>0. /\ LoadKept
      /\ size \in Nat \ {0} /\ newsize \in Nat /\ count \in Int
  BY TypeParts DEF IInv, Numbers
<1>1. ASSUME NEW k \in Keys, NEW v \in Values, Update(k, v)
      PROVE  LoadKept'
  BY <1>0, <1>1 DEF Update, LoadKept
<1>2. ASSUME NEW k \in Keys, NEW v \in Values, Insert(k, v)
      PROVE  LoadKept'
  <2>1. pc = "idle" /\ count' = count + 1 /\ size' = size
    BY <1>2 DEF Insert
  <2>2. CASE pc' = "resize" /\ newsize' = 2 * size /\ starved' = starved
    BY <1>0, <2>1, <2>2, OneDoublingIsEnough DEF LoadKept
  <2>3. CASE starved' = (starved \/ Overloaded(count', size)) /\ pc' = pc
    <3> SUFFICES ASSUME ~starved'
                 PROVE  4 * count' <= 3 * size'
      BY <2>1, <2>3 DEF LoadKept
    <3>1. ~Overloaded(count', size)
      BY <2>3
    <3> QED
      BY <1>0, <2>1, <3>1 DEF Overloaded
  <2> QED
    BY <1>2, <2>2, <2>3 DEF Insert
<1>3. ASSUME NEW k \in Keys, SetFails(k)
      PROVE  LoadKept'
  BY <1>0, <1>3 DEF SetFails, LoadKept
<1>4. ASSUME NEW k \in Keys, Delete(k)
      PROVE  LoadKept'
  <2>1. count' = count \/ count' = count - 1
    BY <1>4 DEF Delete
  <2>2. UNCHANGED <<pc, size, newsize, starved>>
    BY <1>4 DEF Delete
  <2> QED
    BY <1>0, <2>1, <2>2 DEF LoadKept
<1>5. ASSUME NEW k \in Keys, Get(k)
      PROVE  LoadKept'
  BY <1>0, <1>5 DEF Get, LoadKept
<1>6. CASE MoveEntry
  BY <1>0, <1>6 DEF MoveEntry, LoadKept
<1>7. CASE NextChain
  BY <1>0, <1>7 DEF NextChain, LoadKept
<1>8. CASE Install
  <2>1. /\ pc' = "idle" /\ size' = newsize /\ count' = count
        /\ starved' = (starved /\ 4 * count > 3 * newsize)
        /\ pc = "resize"
    BY <1>8 DEF Install, Overloaded
  <2>2. ~starved' => 4 * count <= 3 * newsize
    <3>1. ~starved => 4 * count <= 3 * newsize
      BY <1>0, <2>1 DEF LoadKept
    <3>2. ~starved' => ~starved \/ ~(4 * count > 3 * newsize)
      BY <2>1
    <3> QED
      BY <1>0, <3>1, <3>2
  <2> QED
    BY <2>1, <2>2 DEF LoadKept
<1>9. CASE UNCHANGED vars
  BY <1>0, <1>9 DEF vars, LoadKept
<1> QED
  BY <1>1, <1>2, <1>3, <1>4, <1>5, <1>6, <1>7, <1>8, <1>9, Steps, Zenon

THEOREM Invariant == Spec => []IInv
<1>1. ASSUME IInv, [Next]_vars
      PROVE  IInv'
  <2>1. Numbers' /\ result' \in Answers /\ Arrays'
    BY <1>1, NumbersStep, AnswersStep, ArraysStep
  <2>2. TypeOK'
    BY <2>1, TypeParts DEF Arrays
  <2> QED
    BY <1>1, <2>1, <2>2, ResizingStep, CountedStep, LoadStep DEF IInv
<1> QED
  BY InvInit, <1>1, PTL DEF Spec

-----------------------------------------------------------------------------
(* What the invariant says.                                                *)

\* The table's fields keep their types; in particular no chain index leaves
\* its array.
THEOREM TypeCorrect == Spec => []TypeOK
BY Invariant, PTL DEF IInv

LEMMA PlaceHolds ==
  ASSUME NEW n \in Nat, NEW a, Sound(a, n), NEW x \in Places(a)
  PROVE  /\ x[1] \in 0..(n - 1) /\ x[2] \in 1..Len(a[x[1]]) /\ x = <<x[1], x[2]>>
         /\ Holds(a, n, a[x[1]][x[2]])
         /\ a[x[1]][x[2]] \in Node
<1>1. a \in [0..(n - 1) -> Seq(Node)]
  BY DEF Sound
<1>2. PICK b \in 0..(n - 1) : \E p \in 1..Len(a[b]) : x = <<b, p>>
  BY <1>1, PlacesArePairs
<1>3. PICK p \in 1..Len(a[b]) : x = <<b, p>>
  BY <1>2
<1>4. x[1] = b /\ x[2] = p
  BY <1>3
<1>5. a[b][p] \in Node
  BY <1>1, ChainsAreSequences
<1>6. Holds(a, n, a[b][p])
  BY Zenon DEF Holds
<1> QED
  BY <1>3, <1>4, <1>5, <1>6

\* A walk for a key finds its entry and finds all there is of it: every
\* entry is in the chain of its key, of the old array and already of the new
\* one while a resize moves it, and no key has two entries.
THEOREM WalksFindEntries == Spec => []KeysInPlace
<1>1. IInv => KeysInPlace
  <2> SUFFICES ASSUME IInv
               PROVE  KeysInPlace
    OBVIOUS
  <2>1. /\ size \in Nat /\ newsize \in Nat
        /\ Sound(buckets, size) /\ Sound(grown, newsize)
    BY TypeParts DEF IInv, Numbers, Arrays
  <2>2. WellPlaced
    <3>1. ASSUME NEW x \in Places(buckets)
          PROVE  Hash[buckets[x[1]][x[2]].key] % size = x[1]
      BY <2>1, PlaceHolds, Zenon DEF Sound, Filed
    <3>2. ASSUME NEW x \in Places(grown)
          PROVE  Hash[grown[x[1]][x[2]].key] % newsize = x[1]
      BY <2>1, PlaceHolds, Zenon DEF Sound, Filed
    <3> QED
      BY <3>1, <3>2 DEF WellPlaced
  <2>3. NoDuplicates
    <3>1. ASSUME NEW x \in Places(buckets), NEW y \in Places(buckets),
                 buckets[x[1]][x[2]].key = buckets[y[1]][y[2]].key
          PROVE  x = y
      <4>1. /\ x[1] \in 0..(size - 1) /\ x[2] \in 1..Len(buckets[x[1]]) /\ x = <<x[1], x[2]>>
            /\ y[1] \in 0..(size - 1) /\ y[2] \in 1..Len(buckets[y[1]]) /\ y = <<y[1], y[2]>>
        BY <2>1, PlaceHolds
      <4>2. x[1] = y[1] /\ x[2] = y[2]
        <5>1. \A b, c \in 0..(size - 1) :
                \A p \in 1..Len(buckets[b]) : \A q \in 1..Len(buckets[c]) :
                  buckets[b][p].key = buckets[c][q].key => b = c /\ p = q
          BY <2>1, KeysHaveOnePlace
        <5>2. \A p \in 1..Len(buckets[x[1]]) : \A q \in 1..Len(buckets[y[1]]) :
                buckets[x[1]][p].key = buckets[y[1]][q].key => x[1] = y[1] /\ p = q
          BY <4>1, <5>1, Zenon
        <5> QED
          BY <3>1, <4>1, <5>2, Zenon
      <4> QED
        BY <4>1, <4>2, Zenon
    <3>2. ASSUME NEW x \in Places(grown), NEW y \in Places(grown),
                 grown[x[1]][x[2]].key = grown[y[1]][y[2]].key
          PROVE  x = y
      <4>1. /\ x[1] \in 0..(newsize - 1) /\ x[2] \in 1..Len(grown[x[1]]) /\ x = <<x[1], x[2]>>
            /\ y[1] \in 0..(newsize - 1) /\ y[2] \in 1..Len(grown[y[1]]) /\ y = <<y[1], y[2]>>
        BY <2>1, PlaceHolds
      <4>2. x[1] = y[1] /\ x[2] = y[2]
        <5>1. \A b, c \in 0..(newsize - 1) :
                \A p \in 1..Len(grown[b]) : \A q \in 1..Len(grown[c]) :
                  grown[b][p].key = grown[c][q].key => b = c /\ p = q
          BY <2>1, KeysHaveOnePlace
        <5>2. \A p \in 1..Len(grown[x[1]]) : \A q \in 1..Len(grown[y[1]]) :
                grown[x[1]][p].key = grown[y[1]][q].key => x[1] = y[1] /\ p = q
          BY <4>1, <5>1, Zenon
        <5> QED
          BY <3>2, <4>1, <5>2, Zenon
      <4> QED
        BY <4>1, <4>2, Zenon
    <3>3. ASSUME NEW x \in Places(buckets), NEW y \in Places(grown)
          PROVE  buckets[x[1]][x[2]].key # grown[y[1]][y[2]].key
      <4>1. /\ buckets[x[1]][x[2]] \in Node /\ Holds(buckets, size, buckets[x[1]][x[2]])
            /\ grown[y[1]][y[2]] \in Node /\ Holds(grown, newsize, grown[y[1]][y[2]])
        BY <2>1, PlaceHolds, Zenon
      <4> QED
        BY <4>1, Zenon DEF IInv, Arrays
    <3> QED
      BY <3>1, <3>2, <3>3, Zenon DEF NoDuplicates
  <2> QED
    BY <2>2, <2>3 DEF KeysInPlace
<1> QED
  BY Invariant, <1>1, PTL

\* table->count is the number of entries, also in the middle of a resize.
THEOREM CountIsExact == Spec => []CountExact
BY Invariant, PTL DEF IInv, Counted

\* Between operations the table is at most three quarters full, unless it
\* could not grow for want of memory.
THEOREM LoadIsBounded == Spec => []LoadBounded
<1>1. IInv => LoadBounded
  BY DEF IInv, LoadKept, LoadBounded
<1> QED
  BY Invariant, <1>1, PTL

-----------------------------------------------------------------------------
(* The table implements the map.                                           *)

\* An entry of the table, in whichever array it is.
Held(e) == Holds(buckets, size, e) \/ Holds(grown, newsize, e)

\* Content reads the value of the entry that has the key.
ContentIsHeld ==
    \A k \in Keys :
        /\ \A e : Held(e) /\ e.key = k => Content(k) = e.value
        /\ (\A e : Held(e) => e.key # k) => Content(k) = NoValue

LEMMA HeldIsEntry ==
  ASSUME IInv, NEW e
  PROVE  e \in Entries <=> Held(e)
<1>1. /\ size \in Nat /\ newsize \in Nat
      /\ Sound(buckets, size) /\ Sound(grown, newsize)
  BY TypeParts DEF IInv, Numbers, Arrays
<1>2. ASSUME NEW n \in Nat, NEW a, Sound(a, n)
      PROVE  e \in {a[x[1]][x[2]] : x \in Places(a)} <=> Holds(a, n, e)
  <2>1. ASSUME NEW x \in Places(a), e = a[x[1]][x[2]]
        PROVE  Holds(a, n, e)
    BY <1>2, <2>1, PlaceHolds, Zenon
  <2>2. ASSUME Holds(a, n, e)
        PROVE  \E x \in Places(a) : e = a[x[1]][x[2]]
    <3>1. PICK b \in 0..(n - 1) : \E p \in 1..Len(a[b]) : a[b][p] = e
      BY <2>2 DEF Holds
    <3>2. PICK p \in 1..Len(a[b]) : a[b][p] = e
      BY <3>1
    <3>3. <<b, p>> \in Places(a)
      BY <1>2, PlacesArePairs, Zenon DEF Sound
    <3>4. <<b, p>>[1] = b /\ <<b, p>>[2] = p
      OBVIOUS
    <3> QED
      BY <3>2, <3>3, <3>4, Zenon
  <2> QED
    BY <2>1, <2>2, Zenon
<1> QED
  BY <1>1, <1>2, Zenon DEF Entries, Held

LEMMA ContentReads == IInv => ContentIsHeld
<1> SUFFICES ASSUME IInv, NEW k \in Keys
             PROVE  /\ \A e : Held(e) /\ e.key = k => Content(k) = e.value
                    /\ (\A e : Held(e) => e.key # k) => Content(k) = NoValue
  BY DEF ContentIsHeld
<1>1. ASSUME NEW e, Held(e), NEW f, Held(f), e.key = f.key
      PROVE  e = f
  <2>1. /\ size \in Nat /\ newsize \in Nat
        /\ Sound(buckets, size) /\ Sound(grown, newsize)
    BY TypeParts DEF IInv, Numbers, Arrays
  <2>2. \A g : Held(g) => g \in Node
    <3>1. \A b \in 0..(size - 1) : \A p \in 1..Len(buckets[b]) : buckets[b][p] \in Node
      BY <2>1, ChainsAreSequences DEF Sound
    <3>2. \A b \in 0..(newsize - 1) : \A p \in 1..Len(grown[b]) : grown[b][p] \in Node
      BY <2>1, ChainsAreSequences DEF Sound
    <3> QED
      BY <3>1, <3>2, Zenon DEF Held, Holds
  <2>3. CASE Holds(buckets, size, e) /\ Holds(buckets, size, f)
    BY <1>1, <2>1, <2>3, SameKeySameEntry
  <2>4. CASE Holds(grown, newsize, e) /\ Holds(grown, newsize, f)
    BY <1>1, <2>1, <2>4, SameKeySameEntry
  <2>5. CASE \/ Holds(buckets, size, e) /\ Holds(grown, newsize, f)
             \/ Holds(grown, newsize, e) /\ Holds(buckets, size, f)
    BY <1>1, <2>2, <2>5 DEF IInv, Arrays
  <2> QED
    BY <1>1, <2>3, <2>4, <2>5 DEF Held
<1>2. \A e : e \in Entries <=> Held(e)
  BY HeldIsEntry
<1>3. ASSUME NEW e, Held(e), e.key = k
      PROVE  Content(k) = e.value
  <2>1. (CHOOSE f \in Entries : f.key = k) = e
    BY <1>1, <1>2, <1>3
  <2> QED
    BY <1>2, <1>3, <2>1 DEF Content
<1>4. ASSUME \A e : Held(e) => e.key # k
      PROVE  Content(k) = NoValue
  BY <1>2, <1>4 DEF Content
<1> QED
  BY <1>3, <1>4

\* A key's content changes only with its entry.
LEMMA ContentKept ==
  ASSUME ContentIsHeld, ContentIsHeld', NEW j \in Keys,
         \A e : e.key = j => (Held(e)' <=> Held(e))
  PROVE  Content(j)' = Content(j)
<1>1. CASE \E e : Held(e) /\ e.key = j
  <2>1. PICK e : Held(e) /\ e.key = j
    BY <1>1
  <2>2. Held(e)'
    BY <2>1
  <2>3. Content(j) = e.value
    BY <2>1 DEF ContentIsHeld
  <2>4. Content(j)' = e.value
    BY <2>1, <2>2 DEF ContentIsHeld
  <2> QED
    BY <2>3, <2>4
<1>2. CASE \A e : Held(e) => e.key # j
  <2>1. \A e : Held(e)' => e.key # j
    BY <1>2
  <2>2. Content(j) = NoValue
    BY <1>2 DEF ContentIsHeld
  <2>3. Content(j)' = NoValue
    BY <2>1 DEF ContentIsHeld
  <2> QED
    BY <2>2, <2>3
<1> QED
  BY <1>1, <1>2

\* Between operations only the one array holds entries.
LEMMA HeldWhenIdle ==
  ASSUME IInv, pc = "idle"
  PROVE  \A e : Held(e) <=> Holds(buckets, size, e)
<1>1. newsize = 0
  BY DEF IInv, Resizing
<1> QED
  BY <1>1 DEF Held, Holds

\* A SET leaves one entry with its key, and the others.
LEMMA SetImplementsSet ==
  ASSUME ContentIsHeld, ContentIsHeld',
         NEW k \in Keys, NEW v \in Values,
         \A f : Held(f)' <=> (Held(f) /\ f.key # k) \/ f = [key |-> k, value |-> v],
         result' = Outcome("set", k, v)
  PROVE  Map!Set(k, v)
<1>1. Content(k)' = v
  <2>1. Held([key |-> k, value |-> v])'
    OBVIOUS
  <2> QED
    BY <2>1 DEF ContentIsHeld
<1>2. ASSUME NEW j \in Keys, j # k
      PROVE  Content(j)' = Content(j)
  <2>1. \A e : e.key = j => (Held(e)' <=> Held(e))
    BY <1>2
  <2> QED
    BY <2>1, ContentKept
<1>3. [j \in Keys |-> Content(j)]' = [[j \in Keys |-> Content(j)] EXCEPT ![k] = v]
  BY <1>1, <1>2
<1> QED
  BY <1>3 DEF Map!Set, Map!Outcome, Outcome

\* Each step of the table is a step of the map or leaves it alone.
LEMMA MapStep ==
  ASSUME IInv, ContentIsHeld, ContentIsHeld', [Next]_vars
  PROVE  [Map!Next]_(Map!vars)
<1> DEFINE map == [k \in Keys |-> Content(k)]
<1>a. ASSUME \A e : Held(e)' <=> Held(e)
      PROVE  map' = map
  <2>1. \A j \in Keys : Content(j)' = Content(j)
    BY <1>a, ContentKept
  <2> QED
    BY <2>1
<1>b. ASSUME UNCHANGED <<buckets, size, grown, newsize>>
      PROVE  map' = map
  BY <1>b, <1>a DEF Held
<1>1. ASSUME NEW k \in Keys, NEW v \in Values, Update(k, v)
      PROVE  Map!Next
  <2>1. \A f : Held(f) <=> Holds(buckets, size, f)
    BY <1>1, HeldWhenIdle DEF Update
  <2>2. \A f : Held(f)' <=> Holds(buckets', size, f)
    <3>1. newsize' = 0 /\ size' = size
      BY <1>1 DEF Update, IInv, Resizing
    <3> QED
      BY <3>1 DEF Held, Holds
  <2>3. \A f : Held(f)' <=> (Held(f) /\ f.key # k) \/ f = [key |-> k, value |-> v]
    BY <1>1, <2>1, <2>2, UpdateEffect
  <2>4. result' = Outcome("set", k, v)
    BY <1>1 DEF Update
  <2> QED
    BY <2>3, <2>4, SetImplementsSet DEF Map!Next
<1>2. ASSUME NEW k \in Keys, NEW v \in Values, Insert(k, v)
      PROVE  Map!Next
  <2>1. \A f : Held(f) <=> Holds(buckets, size, f)
    BY <1>2, HeldWhenIdle DEF Insert
  <2>2. \A f : Held(f)' <=> Holds(buckets', size, f)
    <3>1. size' = size /\ \A f : ~Holds(grown', newsize', f)
      <4>1. CASE newsize' = 2 * size /\ grown' = Empty(newsize')
        <5>1. newsize' \in Nat
          BY <4>1, TypeParts DEF IInv, Numbers
        <5> QED
          BY <1>2, <4>1, <5>1, EmptyIsEmpty DEF Insert
      <4>2. CASE newsize' = newsize
        BY <1>2, <4>2 DEF Insert, IInv, Resizing, Holds
      <4> QED
        BY <1>2, <4>1, <4>2 DEF Insert
    <3> QED
      BY <3>1 DEF Held
  <2>3. \A f : Held(f)' <=> (Held(f) /\ f.key # k) \/ f = [key |-> k, value |-> v]
    BY <1>2, <2>1, <2>2, InsertEffect
  <2>4. result' = Outcome("set", k, v)
    BY <1>2 DEF Insert
  <2> QED
    BY <2>3, <2>4, SetImplementsSet DEF Map!Next
<1>3. ASSUME NEW k \in Keys, SetFails(k)
      PROVE  Map!Next
  <2>1. map' = map /\ result' = Outcome("set failed", k, NoValue)
    BY <1>3, <1>b DEF SetFails
  <2> QED
    BY <2>1 DEF Map!Next, Map!SetFails, Map!Outcome, Outcome
<1>4. ASSUME NEW k \in Keys, Delete(k)
      PROVE  Map!Next
  <2>1. \A f : Held(f) <=> Holds(buckets, size, f)
    BY <1>4, HeldWhenIdle DEF Delete
  <2>2. CASE Found(k) = {}
    <3>1. map' = map /\ result' = Outcome("not found", k, NoValue)
      BY <1>4, <1>b, <2>2 DEF Delete
    <3>2. Content(k) = NoValue
      BY <2>1, <2>2, WalkFinds DEF ContentIsHeld
    <3>3. map' = [map EXCEPT ![k] = NoValue] /\ map[k] = NoValue
      BY <3>1, <3>2
    <3> QED
      BY <3>1, <3>3 DEF Map!Next, Map!Delete, Map!Outcome, Outcome
  <2>3. CASE Found(k) # {}
    <3>1. result' = Outcome("deleted", k, NoValue)
      BY <1>4, <2>3 DEF Delete
    <3>2. \A f : Held(f)' <=> Held(f) /\ f.key # k
      <4>1. newsize' = 0 /\ size' = size
        BY <1>4 DEF Delete, IInv, Resizing
      <4>2. \A f : Held(f)' <=> Holds(buckets', size, f)
        BY <4>1 DEF Held, Holds
      <4> QED
        BY <1>4, <2>1, <2>3, <4>2, DeleteEffect
    <3>3. Content(k) # NoValue
      <4>1. PICK f \in Node : Held(f) /\ f.key = k
        BY <1>4, <2>1, <2>3, DeleteEffect
      <4>2. Content(k) = f.value
        BY <4>1 DEF ContentIsHeld
      <4> QED
        BY <4>1, <4>2, HashTableAssumption DEF Node
    <3>4. Content(k)' = NoValue
      BY <3>2 DEF ContentIsHeld
    <3>5. ASSUME NEW j \in Keys, j # k
          PROVE  Content(j)' = Content(j)
      <4>1. \A e : e.key = j => (Held(e)' <=> Held(e))
        BY <3>2, <3>5
      <4> QED
        BY <4>1, ContentKept
    <3>6. map' = [map EXCEPT ![k] = NoValue] /\ map[k] # NoValue
      BY <3>3, <3>4, <3>5
    <3> QED
      BY <3>1, <3>6 DEF Map!Next, Map!Delete, Map!Outcome, Outcome
  <2> QED
    BY <2>2, <2>3
<1>5. ASSUME NEW k \in Keys, Get(k)
      PROVE  Map!Next
  <2>1. \A f : Held(f) <=> Holds(buckets, size, f)
    BY <1>5, HeldWhenIdle DEF Get
  <2>2. result' = Outcome("get", k, Content(k))
    <3>1. CASE Found(k) = {}
      <4>1. Content(k) = NoValue
        BY <2>1, <3>1, WalkFinds DEF ContentIsHeld
      <4> QED
        BY <1>5, <3>1, <4>1 DEF Get
    <3>2. CASE Found(k) # {}
      <4>1. Content(k) = buckets[Slot(k)][First(k)].value
        BY <2>1, <3>2, WalkFinds DEF ContentIsHeld
      <4> QED
        BY <1>5, <3>2, <4>1 DEF Get
    <3> QED
      BY <3>1, <3>2
  <2>3. map' = map /\ map[k] = Content(k)
    BY <1>5, <1>b DEF Get
  <2> QED
    BY <2>2, <2>3 DEF Map!Next, Map!Get, Map!Outcome, Outcome
<1>6. CASE MoveEntry
  <2>1. \A e : Held(e)' <=> Held(e)
    <3>1. size' = size /\ newsize' = newsize
      BY <1>6 DEF MoveEntry
    <3> QED
      BY <1>6, <3>1, MoveEffect DEF Held
  <2>2. map' = map /\ result' = result
    BY <1>6, <1>a, <2>1 DEF MoveEntry
  <2> QED
    BY <2>2 DEF Map!vars
<1>7. CASE NextChain
  BY <1>7, <1>b DEF NextChain, Map!vars
<1>8. CASE Install
  <2>1. \A e : Held(e)' <=> Held(e)
    <3>1. buckets' = grown /\ size' = newsize /\ newsize' = 0
      BY <1>8 DEF Install
    <3>2. \A e : ~Holds(grown', newsize', e)
      BY <3>1 DEF Holds
    <3> QED
      BY <1>8, <3>1, <3>2, InstallEffect DEF Held
  <2>2. map' = map /\ result' = result
    BY <1>8, <1>a, <2>1 DEF Install
  <2> QED
    BY <2>2 DEF Map!vars
<1>9. CASE UNCHANGED vars
  BY <1>9, <1>b DEF vars, Map!vars
<1> QED
  BY <1>1, <1>2, <1>3, <1>4, <1>5, <1>6, <1>7, <1>8, <1>9, Steps, Zenon

\* hash_table_set, hash_table_delete and find_entry are the operations of a
\* map, and resizing changes nothing a caller can observe.
THEOREM TableIsAMap == Spec => RefinesKeyMap
<1>1. Init => Map!Init
  <2> SUFFICES ASSUME Init
               PROVE  Map!Init
    OBVIOUS
  <2>1. IInv
    BY InvInit
  <2>2. \A e : ~Held(e)
    <3>1. newsize = 0 /\ size \in Nat /\ buckets = Empty(size)
      BY HashTableAssumption DEF Init
    <3>2. \A e : ~Holds(buckets, size, e)
      BY <3>1, EmptyIsEmpty
    <3>3. \A e : ~Holds(grown, newsize, e)
      BY <3>1 DEF Holds
    <3> QED
      BY <3>2, <3>3 DEF Held
  <2>3. \A k \in Keys : Content(k) = NoValue
    BY <2>1, <2>2, ContentReads DEF ContentIsHeld
  <2> QED
    BY <2>3 DEF Init, Map!Init, Map!Outcome, Outcome
<1>2. IInv => ContentIsHeld
  BY ContentReads
<1>3. IInv /\ ContentIsHeld /\ ContentIsHeld' /\ [Next]_vars => [Map!Next]_(Map!vars)
  BY MapStep
<1> QED
  BY Invariant, <1>1, <1>2, <1>3, PTL DEF Spec, RefinesKeyMap, Map!Spec
=============================================================================

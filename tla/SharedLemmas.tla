---------------------------- MODULE SharedLemmas ----------------------------
(***************************************************************************)
(* Facts that several proofs rest on: numbers, pieces of sequences, and    *)
(* what the operators of Text return.                                      *)
(***************************************************************************)
EXTENDS Text, SequenceTheorems, WellFoundedInduction, TLAPS

-----------------------------------------------------------------------------
(* A set of natural numbers has a least element, and a greatest one when   *)
(* it is bounded.                                                          *)

\* The least one: the slot that accept takes exists, for instance.
LEMMA LeastNumber ==
  ASSUME NEW T, T \subseteq Nat, T # {}
  PROVE  \E x \in T : \A y \in T : x <= y
<1> DEFINE R == {ss \in Nat \X Nat : ss[1] < ss[2]}
<1>1. IsWellFoundedOn(R, Nat)
  BY NatLessThanWellFounded, Zenon DEF OpToRel
<1>2. PICK x \in T : \A y \in T : <<y, x>> \notin R
  <2> HIDE DEF R
  <2> QED
    BY <1>1, WFMin, Zenon
<1>3. ASSUME NEW y \in T
      PROVE  x <= y
  <2>1. ~(y < x)
    <3> SUFFICES ASSUME y < x
                 PROVE  <<y, x>> \in R
      BY <1>2
    <3>1. <<y, x>> \in Nat \X Nat
      OBVIOUS
    <3>2. <<y, x>>[1] = y /\ <<y, x>>[2] = x
      OBVIOUS
    <3> QED
      BY <3>1, <3>2, Zenon
  <2>2. x \in Nat /\ y \in Nat
    OBVIOUS
  <2> QED
    BY <2>1, <2>2
<1> QED
  BY <1>3

\* The greatest one: the last record about a key exists.
LEMMA GreatestNumber ==
  ASSUME NEW n \in Nat, NEW T \in SUBSET (0..n), T # {}
  PROVE  \E x \in T : \A y \in T : y <= x
<1> DEFINE R == {n - x : x \in T}
<1>1. R \subseteq Nat /\ R # {}
  <2>1. \A x \in T : x \in 0..n
    OBVIOUS
  <2>2. \A x \in T : n - x \in Nat
    BY <2>1
  <2>3. PICK x \in T : TRUE
    OBVIOUS
  <2>4. n - x \in R
    OBVIOUS
  <2> QED
    BY <2>2, <2>4
<1>2. PICK r \in R : \A q \in R : r <= q
  BY <1>1, LeastNumber
<1>3. PICK x \in T : r = n - x
  OBVIOUS
<1>4. ASSUME NEW y \in T
      PROVE  y <= x
  <2>1. n - x <= n - y
    BY <1>2, <1>3
  <2>2. x \in 0..n /\ y \in 0..n
    OBVIOUS
  <2> QED
    BY <2>1, <2>2
<1> QED
  BY <1>4

LEMMA MinOfTwo ==
  ASSUME NEW a \in Int, NEW b \in Int
  PROVE  Min({a, b}) = IF a <= b THEN a ELSE b
<1> DEFINE m == IF a <= b THEN a ELSE b
<1>1. m \in {a, b} /\ \A y \in {a, b} : m <= y
  OBVIOUS
<1>2. \A x \in {a, b} : (\A y \in {a, b} : x <= y) => x = m
  OBVIOUS
<1>3. Min({a, b}) = CHOOSE x \in {a, b} : \A y \in {a, b} : x =< y
  BY DEF Min
<1> HIDE DEF m
<1> QED
  BY <1>1, <1>2, <1>3 DEF m

\* A piece of a sequence.
LEMMA PieceOf ==
  ASSUME NEW S, NEW s \in Seq(S), NEW a \in 1..(Len(s) + 1), NEW b \in (a - 1)..Len(s)
  PROVE  /\ SubSeq(s, a, b) \in Seq(S)
         /\ Len(SubSeq(s, a, b)) = b - a + 1
         /\ \A i \in 1..(b - a + 1) : SubSeq(s, a, b)[i] = s[a + i - 1]
<1>1. a \in Int /\ b \in Int
  OBVIOUS
<1>2. \A i \in a..b : i \in 1..Len(s)
  OBVIOUS
<1>3. \A i \in a..b : s[i] \in S
  BY <1>2, ElementOfSeq
<1>4. /\ SubSeq(s, a, b) \in Seq(S)
      /\ Len(SubSeq(s, a, b)) = IF a <= b THEN b - a + 1 ELSE 0
      /\ \A i \in 1..(b - a + 1) : SubSeq(s, a, b)[i] = s[a + i - 1]
  BY <1>1, <1>3, SubSeqProperties
<1>5. (IF a <= b THEN b - a + 1 ELSE 0) = b - a + 1
  OBVIOUS
<1> QED
  BY <1>4, <1>5

-----------------------------------------------------------------------------
(* Searching.                                                              *)

\* Find returns the first position that fits, or the one behind the text.
LEMMA FindFinds ==
  ASSUME NEW text, Len(text) \in Nat, NEW p \in 1..(Len(text) + 1), NEW S
  PROVE  LET q == Find(text, p, S)
         IN  /\ q \in p..(Len(text) + 1)
             /\ q <= Len(text) => text[q] \in S
             /\ \A r \in p..(q - 1) : text[r] \notin S
<1> DEFINE C == {q \in p..Len(text) : text[q] \in S} \cup {Len(text) + 1}
<1>1. C \subseteq Nat /\ C # {}
  OBVIOUS
<1>2. PICK m \in C : \A y \in C : m <= y
  BY <1>1, LeastNumber
<1>3. Find(text, p, S) = CHOOSE x \in C : \A y \in C : x =< y
  BY DEF Find, Min
<1>4. Find(text, p, S) \in C /\ \A y \in C : Find(text, p, S) <= y
  BY <1>2, <1>3
<1>5. ASSUME NEW r \in p..(Find(text, p, S) - 1), text[r] \in S
      PROVE  FALSE
  BY <1>4, <1>5
<1> QED
  BY <1>4, <1>5

\* FindOther does the same for the symbols that are not in S.
LEMMA FindOtherFinds ==
  ASSUME NEW text, Len(text) \in Nat, NEW p \in 1..(Len(text) + 1), NEW S
  PROVE  LET q == FindOther(text, p, S)
         IN  /\ q \in p..(Len(text) + 1)
             /\ q <= Len(text) => text[q] \notin S
             /\ \A r \in p..(q - 1) : text[r] \in S
<1> DEFINE C == {q \in p..Len(text) : text[q] \notin S} \cup {Len(text) + 1}
<1>1. C \subseteq Nat /\ C # {}
  OBVIOUS
<1>2. PICK m \in C : \A y \in C : m <= y
  BY <1>1, LeastNumber
<1>3. FindOther(text, p, S) = CHOOSE x \in C : \A y \in C : x =< y
  BY DEF FindOther, Min
<1>4. FindOther(text, p, S) \in C /\ \A y \in C : FindOther(text, p, S) <= y
  BY <1>2, <1>3
<1>5. ASSUME NEW r \in p..(FindOther(text, p, S) - 1), text[r] \notin S
      PROVE  FALSE
  BY <1>4, <1>5
<1> QED
  BY <1>4, <1>5

\* Nothing else is the first position that fits.
LEMMA FindIs ==
  ASSUME NEW text, Len(text) \in Nat, NEW p \in 1..(Len(text) + 1), NEW S,
         NEW q \in p..(Len(text) + 1), q <= Len(text) => text[q] \in S,
         \A r \in p..(q - 1) : text[r] \notin S
  PROVE  Find(text, p, S) = q
<1> DEFINE f == Find(text, p, S)
<1>1. /\ f \in p..(Len(text) + 1)
      /\ f <= Len(text) => text[f] \in S
      /\ \A r \in p..(f - 1) : text[r] \notin S
  BY FindFinds
<1> HIDE DEF f
<1>2. f < q => f \in p..(q - 1) /\ f <= Len(text)
  BY <1>1
<1>3. q < f => q \in p..(f - 1) /\ q <= Len(text)
  BY <1>1
<1>4. ~(f < q) /\ ~(q < f)
  BY <1>1, <1>2, <1>3, Zenon
<1>5. f = q
  BY <1>1, <1>4
<1> QED
  BY <1>5 DEF f

LEMMA FindOtherIs ==
  ASSUME NEW text, Len(text) \in Nat, NEW p \in 1..(Len(text) + 1), NEW S,
         NEW q \in p..(Len(text) + 1), q <= Len(text) => text[q] \notin S,
         \A r \in p..(q - 1) : text[r] \in S
  PROVE  FindOther(text, p, S) = q
<1> DEFINE f == FindOther(text, p, S)
<1>1. /\ f \in p..(Len(text) + 1)
      /\ f <= Len(text) => text[f] \notin S
      /\ \A r \in p..(f - 1) : text[r] \in S
  BY FindOtherFinds
<1> HIDE DEF f
<1>2. f < q => f \in p..(q - 1) /\ f <= Len(text)
  BY <1>1
<1>3. q < f => q \in p..(f - 1) /\ q <= Len(text)
  BY <1>1
<1>4. ~(f < q) /\ ~(q < f)
  BY <1>1, <1>2, <1>3, Zenon
<1>5. f = q
  BY <1>1, <1>4
<1> QED
  BY <1>5 DEF f

-----------------------------------------------------------------------------
(* Sequences put one behind the other.                                     *)

\* FlattenSeq puts its members one behind the other: flat[i] is the first i.
LEMMA Flattened ==
  ASSUME NEW S, NEW seqs \in Seq(Seq(S)), seqs # <<>>
  PROVE  \E flat : /\ FlattenSeq(seqs) = flat[Len(seqs)]
                   /\ flat[1] = seqs[1]
                   /\ \A i \in 1..Len(seqs) : flat[i] \in Seq(S)
                   /\ \A i \in 2..Len(seqs) : flat[i] = flat[i - 1] \o seqs[i]
<1> DEFINE N == Len(seqs)
           Step(g, i) == IF i = 1 THEN seqs[i] ELSE g[i - 1] \o seqs[i]
           Done(k) == \E g : \A i \in 1..k : g[i] = Step(g, i)
           T == {k \in 1..N : ~Done(k)}
<1>1. N \in Nat \ {0}
  BY EmptySeq
<1>2. Done(1)
  <2> DEFINE g == [i \in {1} |-> seqs[1]]
  <2>1. \A i \in 1..1 : g[i] = Step(g, i)
    OBVIOUS
  <2> QED
    BY <2>1
<1>3. ASSUME NEW k \in 2..N, Done(k - 1)
      PROVE  Done(k)
  <2>1. PICK g : \A i \in 1..(k - 1) : g[i] = Step(g, i)
    BY <1>3
  <2> DEFINE h == [i \in 1..k |-> IF i = k THEN g[k - 1] \o seqs[k] ELSE g[i]]
  <2>2. \A i \in 1..(k - 1) : h[i] = g[i]
    BY <1>1
  <2>3. k # 1 /\ h[k] = g[k - 1] \o seqs[k]
    <3>1. k \in 1..k /\ k # 1
      BY <1>1
    <3> QED
      BY <3>1
  <2> HIDE DEF h
  <2>4. ASSUME NEW i \in 1..k
        PROVE  h[i] = Step(h, i)
    <3>1. CASE i = k
      <4>1. h[k - 1] = g[k - 1]
        BY <1>1, <2>2
      <4> QED
        BY <2>3, <3>1, <4>1
    <3>2. CASE i = 1
      <4>1. 1 \in 1..(k - 1)
        BY <1>1
      <4> QED
        BY <2>1, <2>2, <3>2, <4>1
    <3>3. CASE i # k /\ i # 1
      <4>1. i \in 1..(k - 1) /\ i - 1 \in 1..(k - 1)
        BY <1>1, <3>3
      <4> QED
        BY <2>1, <2>2, <3>3, <4>1
    <3> QED
      BY <3>1, <3>2, <3>3
  <2> QED
    BY <2>4
<1> HIDE DEF Done
<1>4. T = {}
  <2> SUFFICES ASSUME T # {}
               PROVE  FALSE
    OBVIOUS
  <2>1. PICK k \in T : \A j \in T : k <= j
    <3>1. T \subseteq Nat
      BY <1>1
    <3> HIDE DEF T
    <3> QED
      BY <3>1, LeastNumber
  <2>2. k \in 2..N /\ ~Done(k)
    BY <1>1, <1>2, <2>1
  <2>3. k - 1 \notin T /\ k - 1 \in 1..N
    BY <1>1, <2>1, <2>2
  <2> QED
    BY <1>3, <2>2, <2>3
<1>5. PICK g : \A i \in 1..N : g[i] = Step(g, i)
  <2>1. N \in 1..N
    BY <1>1
  <2>2. Done(N)
    BY <1>4, <2>1
  <2> QED
    BY <2>2 DEF Done
<1> DEFINE flat == CHOOSE f : f = [i \in 1..N |-> IF i = 1 THEN seqs[i] ELSE f[i - 1] \o seqs[i]]
<1>6. flat = [i \in 1..N |-> IF i = 1 THEN seqs[i] ELSE flat[i - 1] \o seqs[i]]
  <2> DEFINE h == [i \in 1..N |-> g[i]]
  <2>1. \A i \in 1..N : g[i] = IF i = 1 THEN seqs[i] ELSE h[i - 1] \o seqs[i]
    <3> TAKE i \in 1..N
    <3>1. i # 1 => h[i - 1] = g[i - 1]
      BY <1>1
    <3> QED
      BY <1>5, <3>1
  <2>2. h = [i \in 1..N |-> IF i = 1 THEN seqs[i] ELSE h[i - 1] \o seqs[i]]
    BY <2>1
  <2> HIDE DEF h
  <2> QED
    BY <2>2, Zenon
<1>7. FlattenSeq(seqs) = flat[N]
  BY <1>1 DEF FlattenSeq
<1> HIDE DEF flat
<1>8. flat[1] = seqs[1] /\ \A i \in 2..N : flat[i] = flat[i - 1] \o seqs[i]
  <2>1. 1 \in 1..N /\ \A i \in 2..N : i \in 1..N /\ i # 1
    BY <1>1
  <2> HIDE DEF N
  <2> QED
    BY <1>6, <2>1
<1> DEFINE Bad == {i \in 1..N : flat[i] \notin Seq(S)}
<1>9. Bad = {}
  <2> SUFFICES ASSUME Bad # {}
               PROVE  FALSE
    OBVIOUS
  <2>1. PICK i \in Bad : \A j \in Bad : i <= j
    <3>1. Bad \subseteq Nat
      BY <1>1
    <3> HIDE DEF Bad
    <3> QED
      BY <3>1, LeastNumber
  <2>2. i \in 2..N
    BY <1>1, <1>8, <2>1
  <2>3. flat[i - 1] \in Seq(S) /\ seqs[i] \in Seq(S)
    BY <1>1, <2>1, <2>2
  <2>4. flat[i] = flat[i - 1] \o seqs[i]
    BY <1>8, <2>2
  <2>5. flat[i] \in Seq(S)
    BY <2>3, <2>4, ConcatProperties
  <2> QED
    BY <2>1, <2>5
<1> QED
  BY <1>7, <1>8, <1>9

LEMMA FlattenType ==
  ASSUME NEW S, NEW seqs \in Seq(Seq(S))
  PROVE  FlattenSeq(seqs) \in Seq(S)
<1>1. CASE seqs = <<>>
  BY <1>1 DEF FlattenSeq
<1>2. CASE seqs # <<>>
  <2>1. Len(seqs) \in 1..Len(seqs)
    BY <1>2, EmptySeq
  <2> QED
    BY <1>2, <2>1, Flattened
<1> QED
  BY <1>1, <1>2

\* The first i members of seqs, put together, for every i.
LEMMA FirstOnes ==
  ASSUME NEW S, NEW seqs \in Seq(Seq(S))
  PROVE  \E pre : /\ pre[0] = <<>>
                  /\ FlattenSeq(seqs) = pre[Len(seqs)]
                  /\ \A i \in 0..Len(seqs) : pre[i] \in Seq(S)
                  /\ \A i \in 1..Len(seqs) : pre[i] = pre[i - 1] \o seqs[i]
<1> DEFINE M == Len(seqs)
<1>1. M \in Nat
  OBVIOUS
<1>2. CASE seqs = <<>>
  <2> DEFINE pre == [i \in {0} |-> <<>>]
  <2>1. FlattenSeq(seqs) = <<>> /\ M = 0
    BY <1>2 DEF FlattenSeq
  <2>2. pre[0] = <<>> /\ <<>> \in Seq(S)
    OBVIOUS
  <2> HIDE DEF pre
  <2>3. FlattenSeq(seqs) = pre[M]
    BY <2>1, <2>2
  <2>4. \A i \in 0..M : pre[i] \in Seq(S)
    <3> TAKE i \in 0..M
    <3>1. i = 0
      BY <2>1
    <3> QED
      BY <2>2, <3>1
  <2>5. \A i \in 1..M : pre[i] = pre[i - 1] \o seqs[i]
    BY <2>1
  <2> QED
    BY <2>2, <2>3, <2>4, <2>5
<1>3. CASE seqs # <<>>
  <2>1. PICK flat : /\ FlattenSeq(seqs) = flat[M]
                    /\ flat[1] = seqs[1]
                    /\ \A i \in 1..M : flat[i] \in Seq(S)
                    /\ \A i \in 2..M : flat[i] = flat[i - 1] \o seqs[i]
    BY <1>3, Flattened
  <2>2. M # 0
    BY <1>3, EmptySeq
  <2> DEFINE pre == [i \in 0..M |-> IF i = 0 THEN <<>> ELSE flat[i]]
  <2> HIDE DEF M
  <2>3. pre[0] = <<>> /\ pre[M] = flat[M] /\ \A i \in 1..M : pre[i] = flat[i]
    BY <1>1, <2>2
  <2> HIDE DEF pre
  <2>4. \A i \in 1..M : seqs[i] \in Seq(S)
    BY ElementOfSeq DEF M
  <2>5. ASSUME NEW i \in 1..M
        PROVE  pre[i] = pre[i - 1] \o seqs[i]
    <3>1. CASE i = 1
      <4>1. <<>> \o seqs[1] = seqs[1]
        BY <2>4, <2>5, <3>1, ConcatEmptySeq
      <4>2. i - 1 = 0 /\ pre[i] = seqs[1]
        BY <2>1, <2>3, <3>1
      <4> QED
        BY <2>3, <3>1, <4>1, <4>2
    <3>2. CASE i # 1
      <4>1. i \in 2..M /\ i - 1 \in 1..M
        BY <1>1, <3>2
      <4> QED
        BY <2>1, <2>3, <4>1
    <3> QED
      BY <3>1, <3>2
  <2>6. \A i \in 0..M : pre[i] \in Seq(S)
    <3> TAKE i \in 0..M
    <3>1. i = 0 \/ i \in 1..M
      BY <1>1
    <3>2. <<>> \in Seq(S)
      OBVIOUS
    <3> QED
      BY <2>1, <2>3, <3>1, <3>2
  <2> QED
    BY <2>1, <2>3, <2>5, <2>6 DEF M
<1> QED
  BY <1>2, <1>3

\* They are also what FlattenSeq makes of the first i members alone.
LEMMA FirstOnesAlone ==
  ASSUME NEW S, NEW seqs \in Seq(Seq(S)), NEW pre,
         pre[0] = <<>>, \A i \in 1..Len(seqs) : pre[i] = pre[i - 1] \o seqs[i],
         NEW n \in 0..Len(seqs)
  PROVE  FlattenSeq([i \in 1..n |-> seqs[i]]) = pre[n]
<1> DEFINE Q == Seq(S)
           t == [i \in 1..n |-> seqs[i]]
<1>1. n \in Nat /\ \A i \in 1..n : i \in 1..Len(seqs)
  OBVIOUS
<1>2. \A i \in 1..n : t[i] = seqs[i]
  OBVIOUS
<1>3. t \in Seq(Seq(S)) /\ Len(t) = n
  <2>1. \A i \in 1..n : seqs[i] \in Q
    BY <1>1, ElementOfSeq
  <2> HIDE DEF Q
  <2>2. t \in Seq(Q) /\ Len(t) = n
    BY <1>1, <2>1
  <2> QED
    BY <2>2 DEF Q
<1> HIDE DEF t
<1> DEFINE M == Len(t)
<1>4. PICK q : /\ q[0] = <<>>
               /\ FlattenSeq(t) = q[M]
               /\ \A i \in 0..M : q[i] \in Seq(S)
               /\ \A i \in 1..M : q[i] = q[i - 1] \o t[i]
  BY <1>3, FirstOnes, Zenon
<1>5. M = n
  BY <1>3
<1> HIDE DEF M
<1> DEFINE Bad == {i \in 0..n : q[i] # pre[i]}
<1>6. Bad = {}
  <2> SUFFICES ASSUME Bad # {}
               PROVE  FALSE
    OBVIOUS
  <2>1. PICK i \in Bad : \A j \in Bad : i <= j
    <3>1. Bad \subseteq Nat
      BY <1>1
    <3> HIDE DEF Bad
    <3> QED
      BY <3>1, LeastNumber
  <2>2. i \in 0..n /\ q[i] # pre[i]
    BY <2>1
  <2>3. i # 0
    BY <1>4, <2>2, Zenon
  <2>4. i \in 1..n /\ i \in 1..M /\ i - 1 \in 0..n /\ ~(i <= i - 1)
    BY <1>1, <1>5, <2>2, <2>3
  <2>5. q[i - 1] = pre[i - 1] /\ t[i] = seqs[i]
    BY <1>2, <2>1, <2>4, Zenon
  <2>6. i \in 1..Len(seqs)
    BY <1>1, <2>4, Zenon
  <2> QED
    BY <1>4, <2>2, <2>4, <2>5, <2>6, Zenon
<1>7. n \in 0..n
  BY <1>1
<1>8. q[n] = pre[n]
  BY <1>6, <1>7
<1> QED
  BY <1>4, <1>5, <1>8, Zenon DEF t

\* What FlattenSeq builds: pre[i] is the first i members of seqs put together,
\* and each member is found behind the ones before it.
Assembled(S, seqs, pre) ==
    LET N == Len(seqs)
        all == FlattenSeq(seqs)
    IN  /\ pre[0] = <<>> /\ all = pre[N]
        /\ \A i \in 0..N : pre[i] \in Seq(S) /\ FlattenSeq([j \in 1..i |-> seqs[j]]) = pre[i]
        /\ \A i \in 1..N : seqs[i] \in Seq(S) /\ pre[i] = pre[i - 1] \o seqs[i]
        /\ \A n \in 1..N : \A i \in 1..Len(seqs[n]) :
              Len(pre[n - 1]) + i \in 1..Len(all) /\ all[Len(pre[n - 1]) + i] = seqs[n][i]

LEMMA Concatenation ==
  ASSUME NEW S, NEW seqs \in Seq(Seq(S))
  PROVE  \E pre : Assembled(S, seqs, pre)
<1> DEFINE N == Len(seqs)
<1>1. PICK pre : /\ pre[0] = <<>>
                 /\ FlattenSeq(seqs) = pre[N]
                 /\ \A i \in 0..N : pre[i] \in Seq(S)
                 /\ \A i \in 1..N : pre[i] = pre[i - 1] \o seqs[i]
  BY FirstOnes, Zenon
<1>2. N \in Nat /\ \A i \in 1..N : seqs[i] \in Seq(S)
  BY ElementOfSeq
<1>3. \A i \in 0..N : FlattenSeq([j \in 1..i |-> seqs[j]]) = pre[i]
  BY <1>1, FirstOnesAlone, Zenon
<1> HIDE DEF N
<1>4. \A i \in 1..N : seqs[i] \in Seq(S) /\ pre[i] = pre[i - 1] \o seqs[i]
  BY <1>1, <1>2, Zenon
<1> DEFINE Stand(m) == \A n \in 1..m : \A i \in 1..Len(seqs[n]) :
                          /\ Len(pre[n - 1]) + i \in 1..Len(pre[m])
                          /\ pre[m][Len(pre[n - 1]) + i] = seqs[n][i]
           Bad == {m \in 0..N : ~Stand(m)}
<1>5. Bad = {}
  <2> SUFFICES ASSUME Bad # {}
               PROVE  FALSE
    OBVIOUS
  <2>1. PICK m \in Bad : \A j \in Bad : m <= j
    <3>1. Bad \subseteq Nat
      BY <1>2
    <3> HIDE DEF Bad
    <3> QED
      BY <3>1, LeastNumber
  <2>2. m \in 0..N /\ ~Stand(m)
    BY <2>1, Zenon
  <2>3. m # 0
    <3>1. \A n \in 1..0 : FALSE
      OBVIOUS
    <3> QED
      BY <2>2, <3>1, Zenon
  <2>4. m \in 1..N /\ m - 1 \in 0..N /\ ~(m <= m - 1)
    BY <1>2, <2>2, <2>3
  <2> HIDE DEF Stand
  <2>5. Stand(m - 1)
    BY <2>1, <2>4, Zenon
  <2> DEFINE u == pre[m - 1]
             t == seqs[m]
             v == pre[m]
  <2>6. u \in Seq(S) /\ t \in Seq(S) /\ v = u \o t
    BY <1>1, <1>4, <2>4, Zenon
  <2> HIDE DEF u, t, v
  <2>7. /\ Len(u) \in Nat /\ Len(t) \in Nat /\ Len(v) = Len(u) + Len(t)
        /\ \A i \in 1..(Len(u) + Len(t)) : v[i] = IF i <= Len(u) THEN u[i] ELSE t[i - Len(u)]
    BY <2>6, ConcatProperties
  <2>8. ASSUME NEW n \in 1..m, NEW i \in 1..Len(seqs[n])
        PROVE  Len(pre[n - 1]) + i \in 1..Len(v) /\ v[Len(pre[n - 1]) + i] = seqs[n][i]
    <3>1. CASE n = m
      <4>1. pre[n - 1] = u /\ seqs[n] = t
        BY <3>1, Zenon DEF u, t
      <4>2. i \in 1..Len(t)
        BY <4>1, Zenon
      <4>3. Len(u) + i \in 1..(Len(u) + Len(t)) /\ ~(Len(u) + i <= Len(u)) /\ (Len(u) + i) - Len(u) = i
        BY <2>7, <4>2
      <4>4. v[Len(u) + i] = t[i]
        BY <2>7, <4>3
      <4> QED
        BY <2>7, <4>1, <4>3, <4>4, Zenon
    <3>2. CASE n # m
      <4> DEFINE j == Len(pre[n - 1]) + i
      <4>1. n \in 1..(m - 1)
        BY <1>2, <2>4, <3>2
      <4>2. j \in 1..Len(u) /\ u[j] = seqs[n][i]
        BY <2>5, <4>1, Zenon DEF Stand, u
      <4> HIDE DEF j
      <4>3. j \in 1..(Len(u) + Len(t)) /\ j <= Len(u)
        BY <2>7, <4>2
      <4>4. v[j] = u[j]
        BY <2>7, <4>3
      <4> QED
        BY <2>7, <4>2, <4>3, <4>4, Zenon DEF j
    <3> QED
      BY <3>1, <3>2
  <2> QED
    BY <2>2, <2>8, Zenon DEF Stand, v
<1>6. Stand(N)
  <2>1. N \in 0..N
    BY <1>2
  <2> HIDE DEF Stand
  <2> QED
    BY <1>5, <2>1
<1>7. \A n \in 1..N : \A i \in 1..Len(seqs[n]) :
         /\ Len(pre[n - 1]) + i \in 1..Len(FlattenSeq(seqs))
         /\ FlattenSeq(seqs)[Len(pre[n - 1]) + i] = seqs[n][i]
  BY <1>1, <1>6, Zenon
<1>8. Assembled(S, seqs, pre)
  BY <1>1, <1>3, <1>4, <1>7, Zenon DEF Assembled, N
<1> QED
  BY <1>8

-----------------------------------------------------------------------------
(* Numbers and their digits.                                               *)

Magnitude(n) == IF n < 0 THEN -n ELSE n

\* The recursive function in Decimal is well defined: of[i] are the digits of i.
LEMMA DecimalUnfolds ==
  ASSUME NEW n \in Int
  PROVE  \E of : /\ Decimal(n) = (IF n < 0 THEN <<"-">> ELSE <<>>) \o of[Magnitude(n)]
                 /\ \A i \in 0..Magnitude(n) :
                       of[i] = IF i < 10 THEN <<Digit[i]>> ELSE Append(of[i \div 10], Digit[i % 10])
<1> DEFINE N == Magnitude(n)
           Step(g, i) == IF i < 10 THEN <<Digit[i]>> ELSE Append(g[i \div 10], Digit[i % 10])
           Done(k) == \E g : \A i \in 0..k : g[i] = Step(g, i)
           T == {k \in 0..N : ~Done(k)}
<1>1. N \in Nat
  BY DEF Magnitude
<1>2. \A i \in Nat : /\ i % 10 \in 0..9
                     /\ i >= 10 => i \div 10 \in 0..(i - 1)
                     /\ i < 10 => i \in 0..9
  OBVIOUS
<1> HIDE DEF N
<1>3. Done(0)
  <2> DEFINE g == [i \in {0} |-> <<Digit[i]>>]
  <2>1. \A i \in 0..0 : g[i] = Step(g, i)
    OBVIOUS
  <2> QED
    BY <2>1
<1>4. ASSUME NEW k \in 1..N, Done(k - 1)
      PROVE  Done(k)
  <2>1. PICK g : \A i \in 0..(k - 1) : g[i] = Step(g, i)
    BY <1>4
  <2> DEFINE h == [i \in 0..k |-> IF i = k THEN Step(g, k) ELSE g[i]]
  <2>2. /\ \A i \in 0..(k - 1) : h[i] = g[i]
        /\ h[k] = Step(g, k)
    <3>1. \A i \in 0..(k - 1) : i \in 0..k /\ i # k
      BY <1>1
    <3>2. k \in 0..k
      BY <1>1
    <3> HIDE DEF Step
    <3> QED
      BY <3>1, <3>2
  <2> HIDE DEF h
  <2>3. ASSUME NEW i \in 0..k
        PROVE  h[i] = Step(h, i)
    <3>1. h[i] = Step(g, i)
      <4>1. i = k \/ i \in 0..(k - 1)
        BY <1>1
      <4> HIDE DEF Step
      <4> QED
        BY <2>1, <2>2, <4>1
    <3>2. i >= 10 => i \div 10 \in 0..(k - 1)
      <4>1. i \in Nat /\ i <= k /\ k \in Nat
        BY <1>1
      <4>2. i >= 10 => i \div 10 \in 0..(i - 1)
        BY <1>2, <4>1
      <4> HIDE DEF Step
      <4> QED
        BY <4>1, <4>2
    <3>3. ~(i < 10) => i >= 10
      BY <1>1
    <3>4. ~(i < 10) => h[i \div 10] = g[i \div 10]
      BY <2>2, <3>2, <3>3, Zenon
    <3> QED
      BY <3>1, <3>4
  <2> QED
    BY <2>3
<1> HIDE DEF Done
<1>5. T = {}
  <2> SUFFICES ASSUME T # {}
               PROVE  FALSE
    OBVIOUS
  <2>1. PICK k \in T : \A j \in T : k <= j
    <3>1. T \subseteq Nat
      BY <1>1
    <3> HIDE DEF T
    <3> QED
      BY <3>1, LeastNumber
  <2>2. k \in 1..N /\ ~Done(k)
    BY <1>1, <1>3, <2>1
  <2>3. k - 1 \notin T /\ k - 1 \in 0..N
    BY <1>1, <2>1, <2>2
  <2> QED
    BY <1>4, <2>2, <2>3
<1>6. PICK g : \A i \in 0..N : g[i] = Step(g, i)
  <2>1. N \in 0..N
    BY <1>1
  <2>2. Done(N)
    BY <1>5, <2>1
  <2> QED
    BY <2>2 DEF Done
<1> DEFINE of == CHOOSE f : f = [i \in 0..N |-> IF i < 10 THEN <<Digit[i]>>
                                              ELSE Append(f[i \div 10], Digit[i % 10])]
<1>7. of = [i \in 0..N |-> IF i < 10 THEN <<Digit[i]>> ELSE Append(of[i \div 10], Digit[i % 10])]
  <2> DEFINE h == [i \in 0..N |-> g[i]]
  <2>1. \A i \in 0..N : g[i] = IF i < 10 THEN <<Digit[i]>> ELSE Append(h[i \div 10], Digit[i % 10])
    <3> TAKE i \in 0..N
    <3>1. ~(i < 10) => i \div 10 \in 0..N
      <4>1. i \in Nat /\ i <= N /\ (~(i < 10) => i >= 10)
        BY <1>1
      <4>2. i >= 10 => i \div 10 \in 0..(i - 1)
        BY <1>2, <4>1
      <4> QED
        BY <1>1, <4>1, <4>2
    <3>2. ~(i < 10) => h[i \div 10] = g[i \div 10]
      BY <3>1, Zenon
    <3> HIDE DEF h
    <3> QED
      BY <1>6, <3>2
  <2>2. h = [i \in 0..N |-> IF i < 10 THEN <<Digit[i]>> ELSE Append(h[i \div 10], Digit[i % 10])]
    BY <2>1, Zenon
  <2> HIDE DEF h
  <2> QED
    BY <2>2, Zenon
<1>8. Decimal(n) = (IF n < 0 THEN <<"-">> ELSE <<>>) \o of[N]
  BY Zenon DEF Decimal, N, Magnitude
<1> HIDE DEF of
<1>9. \A i \in 0..N : of[i] = IF i < 10 THEN <<Digit[i]>> ELSE Append(of[i \div 10], Digit[i % 10])
  BY <1>7, Zenon
<1> QED
  BY <1>8, <1>9, Zenon DEF N

\* Decimal writes a number with digits and a sign.
LEMMA DecimalType ==
  ASSUME NEW n \in Int, NEW D, Digits \subseteq D, "-" \in D
  PROVE  Decimal(n) \in Seq(D)
<1> DEFINE N == Magnitude(n)
<1>1. N \in Nat
  BY DEF Magnitude
<1>2. \A i \in Nat : /\ i % 10 \in 0..9
                     /\ i >= 10 => i \div 10 \in 0..(i - 1)
                     /\ i < 10 => i \in 0..9
  OBVIOUS
<1> HIDE DEF N
<1>3. PICK of : /\ Decimal(n) = (IF n < 0 THEN <<"-">> ELSE <<>>) \o of[N]
                /\ \A i \in 0..N :
                      of[i] = IF i < 10 THEN <<Digit[i]>> ELSE Append(of[i \div 10], Digit[i % 10])
  BY DecimalUnfolds, Zenon DEF N
<1> DEFINE Bad == {i \in 0..N : of[i] \notin Seq(D)}
<1>4. \A d \in 0..9 : Digit[d] \in D
  BY DEF Digits
<1>5. Bad = {}
  <2> SUFFICES ASSUME Bad # {}
               PROVE  FALSE
    OBVIOUS
  <2>1. PICK i \in Bad : \A j \in Bad : i <= j
    <3>1. Bad \subseteq Nat
      BY <1>1
    <3> HIDE DEF Bad
    <3> QED
      BY <3>1, LeastNumber
  <2>2. i \in Nat /\ i <= N /\ i \in 0..N /\ of[i] \notin Seq(D)
    BY <1>1, <2>1
  <2>3. \A j \in 0..(i - 1) : of[j] \in Seq(D)
    <3> TAKE j \in 0..(i - 1)
    <3>1. j \in 0..N /\ ~(i <= j)
      BY <1>1, <2>2
    <3> QED
      BY <2>1, <3>1, Zenon
  <2>4. CASE i < 10
    <3>1. Digit[i] \in D /\ of[i] = <<Digit[i]>>
      BY <1>2, <1>4, <1>3, <2>2, <2>4, Zenon
    <3> QED
      BY <2>2, <3>1
  <2>5. CASE i >= 10
    <3>1. of[i \div 10] \in Seq(D) /\ Digit[i % 10] \in D
      BY <1>2, <1>4, <2>2, <2>3, <2>5, Zenon
    <3>2. ~(i < 10)
      BY <2>2, <2>5
    <3>3. of[i] = Append(of[i \div 10], Digit[i % 10])
      BY <1>3, <2>2, <3>2, Zenon
    <3>4. Append(of[i \div 10], Digit[i % 10]) \in Seq(D)
      BY <3>1, AppendProperties
    <3> QED
      BY <2>2, <3>3, <3>4, Zenon
  <2> QED
    BY <2>2, <2>4, <2>5
<1>6. of[N] \in Seq(D)
  BY <1>1, <1>5
<1>7. (IF n < 0 THEN <<"-">> ELSE <<>>) \in Seq(D)
  OBVIOUS
<1> QED
  BY <1>3, <1>6, <1>7, ConcatProperties

DigitOf(d) == CHOOSE n \in 0..9 : Digit[n] = d

\* The recursive function in Value is well defined: of[i] is what the first
\* i digits spell.
LEMMA ValueUnfolds ==
  ASSUME NEW digits, Len(digits) \in Nat, NEW max
  PROVE  \E of : /\ Value(digits, max) = of[Len(digits)] /\ of[0] = 0
                 /\ \A i \in 1..Len(digits) : of[i] = Min({10 * of[i - 1] + DigitOf(digits[i]), max})
<1> DEFINE N == Len(digits)
           Step(g, i) == IF i = 0 THEN 0 ELSE Min({10 * g[i - 1] + DigitOf(digits[i]), max})
           Done(k) == \E g : \A i \in 0..k : g[i] = Step(g, i)
           T == {k \in 0..N : ~Done(k)}
<1>1. N \in Nat
  OBVIOUS
<1> HIDE DEF N
<1>2. Done(0)
  <2> DEFINE g == [i \in {0} |-> 0]
  <2>1. \A i \in 0..0 : i = 0
    OBVIOUS
  <2>2. g[0] = 0
    OBVIOUS
  <2> HIDE DEF g
  <2>3. \A i \in 0..0 : g[i] = Step(g, i)
    BY <2>1, <2>2, Zenon
  <2> QED
    BY <2>3
<1>3. ASSUME NEW k \in 1..N, Done(k - 1)
      PROVE  Done(k)
  <2>1. PICK g : \A i \in 0..(k - 1) : g[i] = Step(g, i)
    BY <1>3
  <2> DEFINE h == [i \in 0..k |-> IF i = k THEN Step(g, k) ELSE g[i]]
  <2>2. /\ \A i \in 0..(k - 1) : h[i] = g[i]
        /\ h[k] = Step(g, k)
    <3>1. \A i \in 0..(k - 1) : i \in 0..k /\ i # k
      BY <1>1
    <3>2. k \in 0..k
      BY <1>1
    <3> HIDE DEF Step
    <3> QED
      BY <3>1, <3>2
  <2> HIDE DEF h
  <2>3. ASSUME NEW i \in 0..k
        PROVE  h[i] = Step(h, i)
    <3>1. h[i] = Step(g, i)
      <4>1. i = k \/ i \in 0..(k - 1)
        BY <1>1
      <4> HIDE DEF Step
      <4> QED
        BY <2>1, <2>2, <4>1
    <3>2. i # 0 => i - 1 \in 0..(k - 1)
      BY <1>1
    <3>3. i # 0 => h[i - 1] = g[i - 1]
      BY <2>2, <3>2, Zenon
    <3> QED
      BY <3>1, <3>3, Zenon
  <2> QED
    BY <2>3
<1> HIDE DEF Done
<1>4. T = {}
  <2> SUFFICES ASSUME T # {}
               PROVE  FALSE
    OBVIOUS
  <2>1. PICK k \in T : \A j \in T : k <= j
    <3>1. T \subseteq Nat
      BY <1>1
    <3> HIDE DEF T
    <3> QED
      BY <3>1, LeastNumber
  <2>2. k \in 1..N /\ ~Done(k)
    BY <1>1, <1>2, <2>1
  <2>3. k - 1 \notin T /\ k - 1 \in 0..N
    BY <1>1, <2>1, <2>2
  <2> QED
    BY <1>3, <2>2, <2>3
<1>5. PICK g : \A i \in 0..N : g[i] = Step(g, i)
  <2>1. N \in 0..N
    BY <1>1
  <2>2. Done(N)
    BY <1>4, <2>1
  <2> QED
    BY <2>2 DEF Done
<1> DEFINE of == CHOOSE f : f = [n \in 0..N |-> IF n = 0 THEN 0
                                              ELSE Min({10 * f[n - 1] + DigitOf(digits[n]), max})]
<1>6. of = [n \in 0..N |-> IF n = 0 THEN 0 ELSE Min({10 * of[n - 1] + DigitOf(digits[n]), max})]
  <2> DEFINE h == [i \in 0..N |-> g[i]]
  <2>1. \A i \in 0..N : g[i] = IF i = 0 THEN 0 ELSE Min({10 * h[i - 1] + DigitOf(digits[i]), max})
    <3> TAKE i \in 0..N
    <3>1. i # 0 => i - 1 \in 0..N
      BY <1>1
    <3>2. i # 0 => h[i - 1] = g[i - 1]
      BY <3>1, Zenon
    <3> HIDE DEF h
    <3> QED
      BY <1>5, <3>2, Zenon
  <2>2. h = [n \in 0..N |-> IF n = 0 THEN 0 ELSE Min({10 * h[n - 1] + DigitOf(digits[n]), max})]
    BY <2>1, Zenon
  <2> HIDE DEF h
  <2> QED
    BY <2>2, Zenon
<1>7. Value(digits, max) = of[N]
  BY Zenon DEF Value, N, DigitOf
<1> HIDE DEF of
<1>8. \A i \in 0..N : of[i] = IF i = 0 THEN 0 ELSE Min({10 * of[i - 1] + DigitOf(digits[i]), max})
  BY <1>6, Zenon
<1>9. 0 \in 0..N /\ \A i \in 1..N : i \in 0..N /\ i # 0
  BY <1>1
<1> QED
  BY <1>7, <1>8, <1>9, Zenon DEF N

\* Value reads a number from digits.
LEMMA ValueType ==
  ASSUME NEW digits, Len(digits) \in Nat, \A i \in 1..Len(digits) : digits[i] \in Digits,
         NEW max \in Int
  PROVE  Value(digits, max) \in Int
<1> DEFINE N == Len(digits)
<1>1. N \in Nat
  OBVIOUS
<1>2. ASSUME NEW i \in 1..N
      PROVE  DigitOf(digits[i]) \in Int
  <2>1. PICK n \in 0..9 : Digit[n] = digits[i]
    BY DEF Digits
  <2>2. DigitOf(digits[i]) \in 0..9
    BY <2>1, Zenon DEF DigitOf
  <2> QED
    BY <2>2
<1> HIDE DEF N
<1>3. PICK of : /\ Value(digits, max) = of[N] /\ of[0] = 0
                /\ \A i \in 1..N : of[i] = Min({10 * of[i - 1] + DigitOf(digits[i]), max})
  BY ValueUnfolds, Zenon DEF N
<1> DEFINE Bad == {i \in 0..N : of[i] \notin Int}
<1>4. Bad = {}
  <2> SUFFICES ASSUME Bad # {}
               PROVE  FALSE
    OBVIOUS
  <2>1. PICK i \in Bad : \A j \in Bad : i <= j
    <3>1. Bad \subseteq Nat
      BY <1>1
    <3> HIDE DEF Bad
    <3> QED
      BY <3>1, LeastNumber
  <2>2. i \in 0..N /\ of[i] \notin Int
    BY <2>1
  <2>3. i # 0
    <3>1. 0 \in Int
      OBVIOUS
    <3> QED
      BY <1>3, <2>2, <3>1, Zenon
  <2>4. i \in 1..N /\ i - 1 \in 0..N /\ ~(i <= i - 1)
    BY <1>1, <2>2, <2>3
  <2>5. of[i - 1] \in Int
    BY <2>1, <2>4, Zenon
  <2> DEFINE x == 10 * of[i - 1] + DigitOf(digits[i])
  <2>6. x \in Int
    BY <1>2, <2>4, <2>5
  <2>7. of[i] = Min({x, max})
    BY <1>3, <2>4, Zenon
  <2> HIDE DEF x
  <2>8. Min({x, max}) \in Int
    BY <2>6, MinOfTwo
  <2> QED
    BY <2>2, <2>7, <2>8, Zenon
<1> QED
  BY <1>1, <1>3, <1>4

\* Digits spell different numbers.
LEMMA DigitOfDigit ==
  ASSUME NEW n \in 0..9
  PROVE  DigitOf(Digit[n]) = n
<1> DEFINE names == <<"0", "1", "2", "3", "4", "5", "6", "7", "8", "9">>
<1>1. ASSUME NEW i \in 1..10, NEW j \in 1..10, names[i] = names[j]
      PROVE  i = j
  BY <1>1
<1>2. \A i \in 0..9 : Digit[i] = names[i + 1] /\ i + 1 \in 1..10
  BY DEF Digit
<1> HIDE DEF names
<1>3. ASSUME NEW i \in 0..9, Digit[i] = Digit[n]
      PROVE  i = n
  <2>1. i + 1 = n + 1
    BY <1>1, <1>2, <1>3, Zenon
  <2> QED
    BY <2>1
<1> QED
  BY <1>3, Zenon DEF DigitOf

\* One more digit.
LEMMA ValueOfOneMore ==
  ASSUME NEW s \in Seq(Digits), NEW d \in Digits, NEW max
  PROVE  Value(Append(s, d), max) = Min({10 * Value(s, max) + DigitOf(d), max})
<1> DEFINE t == Append(s, d)
           N == Len(s)
<1>1. N \in Nat /\ t \in Seq(Digits) /\ Len(t) = N + 1 /\ t[N + 1] = d
      /\ \A i \in 1..N : t[i] = s[i]
  BY AppendProperties
<1> HIDE DEF N, t
<1>2. PICK f : /\ Value(s, max) = f[N] /\ f[0] = 0
               /\ \A i \in 1..N : f[i] = Min({10 * f[i - 1] + DigitOf(s[i]), max})
  <2>1. Len(s) \in Nat
    OBVIOUS
  <2> QED
    BY <2>1, ValueUnfolds, Zenon DEF N
<1> DEFINE M == Len(t)
<1>3. PICK g : /\ Value(t, max) = g[M] /\ g[0] = 0
               /\ \A i \in 1..M : g[i] = Min({10 * g[i - 1] + DigitOf(t[i]), max})
  <2>1. Len(t) \in Nat
    BY <1>1
  <2> QED
    BY <2>1, ValueUnfolds, Zenon
<1>4. M = N + 1
  BY <1>1
<1> HIDE DEF M
<1> DEFINE Bad == {i \in 0..N : f[i] # g[i]}
<1>5. Bad = {}
  <2> SUFFICES ASSUME Bad # {}
               PROVE  FALSE
    OBVIOUS
  <2>1. PICK i \in Bad : \A j \in Bad : i <= j
    <3>1. Bad \subseteq Nat
      BY <1>1
    <3> HIDE DEF Bad
    <3> QED
      BY <3>1, LeastNumber
  <2>2. i \in 0..N /\ f[i] # g[i]
    BY <2>1
  <2>3. i # 0
    BY <1>2, <1>3, <2>2
  <2>4. i \in 1..N /\ i \in 1..M /\ i - 1 \in 0..N /\ ~(i <= i - 1)
    BY <1>1, <1>4, <2>2, <2>3
  <2>5. f[i - 1] = g[i - 1] /\ t[i] = s[i]
    BY <1>1, <2>1, <2>4, Zenon
  <2> QED
    BY <1>2, <1>3, <2>2, <2>4, <2>5, Zenon
<1>6. f[N] = g[N] /\ M \in 1..M /\ M - 1 = N
  BY <1>1, <1>4, <1>5
<1>7. t[M] = d
  BY <1>1, <1>4
<1> QED
  BY <1>2, <1>3, <1>6, <1>7, Zenon DEF t

\* What Decimal writes behind the sign, Value reads.
LEMMA DecimalSpells ==
  ASSUME NEW n \in Int, NEW max \in Int, Magnitude(n) <= max
  PROVE  \E digits \in Seq(Digits) :
            /\ digits # <<>>
            /\ Decimal(n) = (IF n < 0 THEN <<"-">> ELSE <<>>) \o digits
            /\ Value(digits, max) = Magnitude(n)
<1> DEFINE N == Magnitude(n)
<1>1. N \in Nat /\ N <= max
  BY DEF Magnitude
<1>2. \A i \in Nat : /\ i % 10 \in 0..9
                     /\ i >= 10 => i \div 10 \in 0..(i - 1)
                     /\ i < 10 => i \in 0..9
                     /\ 10 * (i \div 10) + (i % 10) = i
  <2>1. \A i \in Nat : 10 * (i \div 10) + (i % 10) = i
    OBVIOUS
  <2>2. \A i \in Nat : /\ i % 10 \in 0..9
                       /\ i >= 10 => i \div 10 \in 0..(i - 1)
                       /\ i < 10 => i \in 0..9
    OBVIOUS
  <2> QED
    BY <2>1, <2>2
<1> HIDE DEF N
<1>3. PICK of : /\ Decimal(n) = (IF n < 0 THEN <<"-">> ELSE <<>>) \o of[N]
                /\ \A i \in 0..N :
                      of[i] = IF i < 10 THEN <<Digit[i]>> ELSE Append(of[i \div 10], Digit[i % 10])
  BY DecimalUnfolds, Zenon DEF N
<1> DEFINE Good(i) == of[i] \in Seq(Digits) /\ of[i] # <<>> /\ Value(of[i], max) = i
           Bad == {i \in 0..N : ~Good(i)}
<1>4. \A d \in 0..9 : Digit[d] \in Digits /\ DigitOf(Digit[d]) = d
  BY DigitOfDigit DEF Digits
<1>5. Bad = {}
  <2> SUFFICES ASSUME Bad # {}
               PROVE  FALSE
    OBVIOUS
  <2>1. PICK i \in Bad : \A j \in Bad : i <= j
    <3>1. Bad \subseteq Nat
      BY <1>1
    <3> HIDE DEF Bad
    <3> QED
      BY <3>1, LeastNumber
  <2>2. i \in Nat /\ i <= N /\ i \in 0..N /\ ~Good(i)
    BY <1>1, <2>1
  <2>3. \A j \in 0..(i - 1) : Good(j)
    <3> TAKE j \in 0..(i - 1)
    <3>1. j \in 0..N /\ ~(i <= j)
      BY <1>1, <2>2
    <3> HIDE DEF Good
    <3> QED
      BY <2>1, <3>1, Zenon
  <2> DEFINE s == IF i < 10 THEN <<>> ELSE of[i \div 10]
             d == Digit[i % 10]
             r == i % 10
  <2>4. s \in Seq(Digits) /\ of[i] = Append(s, d) /\ 10 * Value(s, max) + r = i
    <3>1. CASE i < 10
      <4>1. of[i] = <<Digit[i]>> /\ s = <<>>
        BY <1>3, <2>2, <3>1, Zenon
      <4>2. i % 10 = i
        BY <2>2, <3>1
      <4>3. Append(<<>>, d) = <<d>> /\ <<>> \in Seq(Digits)
        OBVIOUS
      <4>4. Value(<<>>, max) = 0
        <5>1. Len(<<>>) = 0 /\ Len(<<>>) \in Nat
          OBVIOUS
        <5> QED
          BY <5>1, ValueUnfolds, Zenon
      <4>5. 10 * 0 + i = i
        BY <2>2
      <4> QED
        BY <4>1, <4>2, <4>3, <4>4, <4>5, Zenon
    <3>2. CASE i >= 10
      <4>1. ~(i < 10)
        BY <2>2, <3>2
      <4>2. s = of[i \div 10] /\ of[i] = Append(s, d)
        BY <1>3, <2>2, <4>1, Zenon
      <4>3. Good(i \div 10)
        BY <1>2, <2>2, <2>3, <3>2, Zenon
      <4>4. 10 * (i \div 10) + r = i
        BY <1>2, <2>2, Zenon
      <4> HIDE DEF r, d
      <4> QED
        BY <4>2, <4>3, <4>4, Zenon
    <3> QED
      BY <2>2, <3>1, <3>2
  <2>5. d \in Digits /\ DigitOf(d) = r
    BY <1>2, <1>4, <2>2, Zenon
  <2> HIDE DEF s, d, r
  <2>6. Value(of[i], max) = Min({i, max})
    BY <2>4, <2>5, ValueOfOneMore
  <2>7. Min({i, max}) = i
    <3>1. i \in Int /\ i <= max
      BY <1>1, <2>2
    <3> QED
      BY <3>1, MinOfTwo
  <2>8. of[i] \in Seq(Digits) /\ of[i] # <<>>
    <3>1. Append(s, d) \in Seq(Digits) /\ Append(s, d) # <<>>
      BY <2>4, <2>5, AppendProperties
    <3> QED
      BY <2>4, <3>1, Zenon
  <2> QED
    BY <2>2, <2>6, <2>7, <2>8, Zenon
<1>6. Good(N)
  <2>1. N \in 0..N
    BY <1>1
  <2> HIDE DEF Good
  <2> QED
    BY <1>5, <2>1
<1> QED
  BY <1>3, <1>6, Zenon DEF N
=============================================================================

------------------------ MODULE LineFramingProofs ------------------------
(***************************************************************************)
(* Proofs about LineFraming, for every text that clients send, however it  *)
(* is cut into pieces.  Positions in a client's stream are compared        *)
(* instead of text: a task is what lies between two places of the stream,  *)
(* and the buffer is what lies behind the last of them.                    *)
(***************************************************************************)
EXTENDS LineFraming, SharedLemmas, FiniteSetTheorems, FunctionTheorems

-----------------------------------------------------------------------------
(* Numbers in increasing order.                                            *)

\* How many members of S there are up to x.
Rank(S, x) == Cardinality({y \in S : y <= x})

LEMMA RankGrows ==
  ASSUME NEW S, IsFiniteSet(S), S \subseteq Nat
  PROVE  /\ \A x \in S : Rank(S, x) \in Nat /\ Rank(S, x) \in 1..Cardinality(S)
         /\ \A x, z \in S : x < z => Rank(S, x) < Rank(S, z)
<1> DEFINE upto(x) == {y \in S : y <= x}
<1>1. \A x \in S : IsFiniteSet(upto(x)) /\ Cardinality(upto(x)) \in Nat
                   /\ Cardinality(upto(x)) <= Cardinality(S)
  <2> TAKE x \in S
  <2>1. upto(x) \in SUBSET S
    OBVIOUS
  <2> QED
    BY <2>1, FS_Subset, FS_CardinalityType
<1>2. \A x \in S : Cardinality(upto(x)) # 0
  <2> TAKE x \in S
  <2>1. x \in upto(x)
    OBVIOUS
  <2> QED
    BY <1>1, <2>1, FS_EmptySet
<1>3. \A x, z \in S : x < z => Cardinality(upto(x)) < Cardinality(upto(z))
  <2> SUFFICES ASSUME NEW x \in S, NEW z \in S, x < z
               PROVE  Cardinality(upto(x)) < Cardinality(upto(z))
    OBVIOUS
  <2>1. upto(x) \in SUBSET upto(z)
    <3>1. \A y \in S : y <= x => y <= z
      OBVIOUS
    <3> QED
      BY <3>1
  <2>2. upto(x) # upto(z)
    <3>1. z \in upto(z) /\ z \notin upto(x)
      OBVIOUS
    <3> QED
      BY <3>1
  <2> HIDE DEF upto
  <2> QED
    BY <1>1, <2>1, <2>2, FS_Subset
<1> HIDE DEF upto
<1>4. \A x \in S : Cardinality(upto(x)) \in 1..Cardinality(S)
  BY <1>1, <1>2, FS_CardinalityType
<1>5. \A x : Rank(S, x) = Cardinality(upto(x))
  BY DEF Rank, upto
<1> QED
  BY <1>1, <1>3, <1>4, <1>5

\* Every position is taken.
LEMMA RankReaches ==
  ASSUME NEW S, IsFiniteSet(S), S \subseteq Nat
  PROVE  \A n \in 1..Cardinality(S) : \E x \in S : Rank(S, x) = n
<1> DEFINE T == 1..Cardinality(S)
           rank == [x \in S |-> Rank(S, x)]
<1>1. Cardinality(S) \in Nat
  BY FS_CardinalityType
<1>2. IsFiniteSet(T) /\ Cardinality(T) = Cardinality(S)
  BY <1>1, FS_Interval
<1>3. rank \in [S -> T]
  BY RankGrows
<1>4. \A x, z \in S : rank[x] = rank[z] => x = z
  <2> SUFFICES ASSUME NEW x \in S, NEW z \in S, Rank(S, x) = Rank(S, z)
               PROVE  x = z
    OBVIOUS
  <2>1. Rank(S, x) \in Nat /\ Rank(S, z) \in Nat
    BY RankGrows
  <2>2. x \in Nat /\ z \in Nat
    OBVIOUS
  <2>3. (x < z => Rank(S, x) < Rank(S, z)) /\ (z < x => Rank(S, z) < Rank(S, x))
    BY RankGrows
  <2> QED
    BY <2>1, <2>2, <2>3
<1> HIDE DEF rank, T
<1>5. rank \in Injection(S, T)
  BY <1>3, <1>4 DEF Injection, IsInjective
<1>6. rank \in Surjection(S, T)
  BY <1>2, <1>5, FS_Injection
<1>7. \A n \in T : \E x \in S : rank[x] = n
  BY <1>6 DEF Surjection
<1> QED
  BY <1>7 DEF rank, T

\* Sorted lists every member once, the smaller before the greater.
LEMMA SortedLists ==
  ASSUME NEW S, IsFiniteSet(S), S \subseteq Nat
  PROVE  /\ Sorted(S) \in Seq(S) /\ Len(Sorted(S)) = Cardinality(S)
         /\ \A n \in 1..Cardinality(S) : Sorted(S)[n] \in S /\ Rank(S, Sorted(S)[n]) = n
         /\ \A x \in S : Rank(S, x) \in 1..Cardinality(S) /\ Sorted(S)[Rank(S, x)] = x
         /\ \A m, n \in 1..Cardinality(S) : m < n => Sorted(S)[m] < Sorted(S)[n]
<1> DEFINE s == Sorted(S)
           N == Cardinality(S)
<1>1. N \in Nat
  BY FS_CardinalityType
<1>2. s = [n \in 1..N |-> CHOOSE x \in S : Rank(S, x) = n]
  BY DEF Sorted, Rank
<1> HIDE DEF s, N
<1>3. \A n \in 1..N : s[n] \in S /\ Rank(S, s[n]) = n
  <2> TAKE n \in 1..N
  <2>1. \E x \in S : Rank(S, x) = n
    BY RankReaches DEF N
  <2>2. s[n] = CHOOSE x \in S : Rank(S, x) = n
    BY <1>2
  <2> QED
    BY <2>1, <2>2
<1>4. s \in Seq(S) /\ Len(s) = N
  <2>1. s \in [1..N -> S]
    BY <1>2, <1>3
  <2> QED
    BY <1>1, <2>1
<1>5. \A x, z \in S : Rank(S, x) = Rank(S, z) => x = z
  <2> SUFFICES ASSUME NEW x \in S, NEW z \in S, Rank(S, x) = Rank(S, z)
               PROVE  x = z
    OBVIOUS
  <2>1. Rank(S, x) \in Nat /\ Rank(S, z) \in Nat
    BY RankGrows
  <2>2. x \in Nat /\ z \in Nat
    OBVIOUS
  <2>3. (x < z => Rank(S, x) < Rank(S, z)) /\ (z < x => Rank(S, z) < Rank(S, x))
    BY RankGrows
  <2> QED
    BY <2>1, <2>2, <2>3
<1>6. \A x \in S : Rank(S, x) \in 1..N /\ s[Rank(S, x)] = x
  BY <1>3, <1>5, RankGrows DEF N
<1>7. \A m, n \in 1..N : m < n => s[m] < s[n]
  <2> SUFFICES ASSUME NEW m \in 1..N, NEW n \in 1..N, m < n
               PROVE  s[m] < s[n]
    OBVIOUS
  <2>1. s[m] \in S /\ s[n] \in S /\ Rank(S, s[m]) = m /\ Rank(S, s[n]) = n
    BY <1>3
  <2>2. s[m] \in Nat /\ s[n] \in Nat
    BY <2>1
  <2>3. s[m] # s[n]
    BY <2>1, <2>2
  <2>4. s[n] < s[m] => n < m
    BY <2>1, RankGrows
  <2> QED
    BY <1>1, <2>2, <2>3, <2>4
<1> QED
  BY <1>3, <1>4, <1>6, <1>7 DEF s, N

-----------------------------------------------------------------------------
(* Text.                                                                   *)

\* What text is made of.  (NL is a string, but the provers do not know it.)
Symbols == STRING \cup {NL}

LEMMA SymbolsDiffer ==
  /\ NL \notin {NUL, CR, Blank, Quote}
  /\ Quote \notin Spaces
  /\ {"get", "ttl", "set", "del", "ping", "exit"} \cap (Spaces \cup {Quote, NL}) = {}
BY DEF NL, NUL, CR, Blank, Quote, Spaces
-----------------------------------------------------------------------------
(* parse_command.                                                          *)

\* One round of the tokenizer at p, when from has what it makes of the text
\* behind p.
Round(line, from, p) ==
    IF p > Len(line) THEN <<>>
    ELSE IF line[p] \in Spaces THEN from[p + 1]
    ELSE IF line[p] = Quote
    THEN LET close == Find(line, p + 1, {Quote})
         IN  IF close > Len(line) THEN Invalid
             ELSE Arg(SubSeq(line, p + 1, close - 1), from[close + 1])
    ELSE LET end == Find(line, p, Spaces)
         IN  Arg(SubSeq(line, p, end - 1), from[end])

\* A round looks only at what is behind it.
LEMMA RoundReads ==
  ASSUME NEW line \in Seq(Symbols), NEW p \in 1..(Len(line) + 1), NEW f, NEW g,
         \A q \in (p + 1)..(Len(line) + 1) : f[q] = g[q]
  PROVE  Round(line, f, p) = Round(line, g, p)
<1>1. CASE p > Len(line)
  BY <1>1 DEF Round
<1>2. CASE p <= Len(line) /\ line[p] \in Spaces
  <2>1. f[p + 1] = g[p + 1]
    BY <1>2
  <2> QED
    BY <1>2, <2>1 DEF Round
<1>3. CASE p <= Len(line) /\ line[p] \notin Spaces /\ line[p] = Quote
  <2> DEFINE close == Find(line, p + 1, {Quote})
  <2>1. close \in (p + 1)..(Len(line) + 1)
    BY <1>3, FindFinds
  <2>2. ASSUME close <= Len(line)
        PROVE  f[close + 1] = g[close + 1]
    BY <2>1, <2>2
  <2> QED
    BY <1>3, <2>1, <2>2 DEF Round
<1>4. CASE p <= Len(line) /\ line[p] \notin Spaces /\ line[p] # Quote
  <2> DEFINE end == Find(line, p, Spaces)
  <2>1. end \in p..(Len(line) + 1) /\ (end <= Len(line) => line[end] \in Spaces)
    BY <1>4, FindFinds
  <2>2. end # p
    BY <1>4, <2>1
  <2>3. f[end] = g[end]
    BY <2>1, <2>2
  <2> QED
    BY <1>4, <2>3 DEF Round
<1> QED
  BY <1>1, <1>2, <1>3, <1>4

\* The tokenizer is well defined: its rounds end.
LEMMA RoundsEnd ==
  ASSUME NEW line \in Seq(Symbols)
  PROVE  \E from : from = [p \in 1..(Len(line) + 1) |-> Round(line, from, p)]
<1> DEFINE N == Len(line)
           Done(k) == \E g : \A p \in (N + 1 - k)..(N + 1) : g[p] = Round(line, g, p)
           T == {k \in 0..N : ~Done(k)}
<1>1. N \in Nat
  OBVIOUS
<1>2. Done(0)
  <2> DEFINE g == [p \in {N + 1} |-> <<>>]
  <2>1. g[N + 1] = Round(line, g, N + 1)
    BY <1>1 DEF Round
  <2>2. \A p \in (N + 1 - 0)..(N + 1) : p = N + 1
    BY <1>1
  <2> QED
    BY <2>1, <2>2
<1>3. ASSUME NEW k \in 0..N, k # 0, Done(k - 1)
      PROVE  Done(k)
  <2>1. PICK g : \A p \in (N + 1 - (k - 1))..(N + 1) : g[p] = Round(line, g, p)
    BY <1>3
  <2> DEFINE p0 == N + 1 - k
             h == [p \in p0..(N + 1) |-> IF p = p0 THEN Round(line, g, p0) ELSE g[p]]
  <2>2. p0 \in 1..(N + 1)
    BY <1>1, <1>3
  <2>3. \A q \in (p0 + 1)..(N + 1) : h[q] = g[q]
    BY <2>2
  <2>4. h[p0] = Round(line, h, p0)
    <3>1. h[p0] = Round(line, g, p0)
      BY <2>2
    <3> HIDE DEF h, p0
    <3> QED
      BY <2>2, <2>3, <3>1, RoundReads
  <2>5. ASSUME NEW p \in (p0 + 1)..(N + 1)
        PROVE  h[p] = Round(line, h, p)
    <3>1. p \in 1..(N + 1) /\ p \in (N + 1 - (k - 1))..(N + 1)
      BY <1>1, <1>3, <2>2, <2>5
    <3>2. h[p] = Round(line, g, p)
      BY <2>1, <2>3, <2>5, <3>1
    <3>3. \A q \in (p + 1)..(N + 1) : h[q] = g[q]
      BY <2>2, <2>3, <2>5
    <3> HIDE DEF h, p0
    <3> QED
      BY <3>1, <3>2, <3>3, RoundReads
  <2>6. \A p \in p0..(N + 1) : p = p0 \/ p \in (p0 + 1)..(N + 1)
    BY <2>2
  <2>7. \A p \in p0..(N + 1) : h[p] = Round(line, h, p)
    BY <2>4, <2>5, <2>6
  <2> QED
    BY <2>7
<1> HIDE DEF Done
<1>4. T = {}
  <2> SUFFICES ASSUME T # {}
               PROVE  FALSE
    OBVIOUS
  <2>1. PICK k \in T : \A j \in T : k <= j
    <3>1. T \subseteq Nat
      BY <1>1
    <3> HIDE DEF T
    <3> QED
      BY <3>1, LeastNumber
  <2>2. k # 0 /\ k \in 0..N /\ ~Done(k)
    BY <1>2, <2>1
  <2>3. k - 1 \notin T /\ k - 1 \in 0..N
    BY <1>1, <2>1, <2>2
  <2> QED
    BY <1>3, <2>2, <2>3
<1>5. Done(N)
  BY <1>1, <1>4
<1>6. PICK g : \A p \in 1..(N + 1) : g[p] = Round(line, g, p)
  <2>1. N + 1 - N = 1
    BY <1>1
  <2> QED
    BY <1>5, <2>1 DEF Done
<1> DEFINE from == [p \in 1..(N + 1) |-> g[p]]
<1>7. \A p \in 1..(N + 1) : Round(line, from, p) = g[p]
  <2> TAKE p \in 1..(N + 1)
  <2>1. \A q \in (p + 1)..(N + 1) : from[q] = g[q]
    BY <1>1
  <2> HIDE DEF from
  <2> QED
    BY <1>6, <2>1, RoundReads
<1>8. from = [p \in 1..(N + 1) |-> Round(line, from, p)]
  BY <1>7
<1> QED
  BY <1>8

\* So the arguments of a line are what the first round makes of it.
LEMMA TokensAre ==
  ASSUME NEW line \in Seq(Symbols)
  PROVE  \E from : /\ Tokens(line) = from[1]
                   /\ \A p \in 1..(Len(line) + 1) : from[p] = Round(line, from, p)
<1> DEFINE from == CHOOSE f : f = [p \in 1..(Len(line) + 1) |-> Round(line, f, p)]
<1>1. from = [p \in 1..(Len(line) + 1) |-> Round(line, from, p)]
  BY RoundsEnd
<1>2. Tokens(line) = from[1]
  BY DEF Tokens, Round
<1> HIDE DEF from
<1>3. \A p \in 1..(Len(line) + 1) : from[p] = Round(line, from, p)
  BY <1>1
<1> QED
  BY <1>2, <1>3

\* Arguments are text.
LEMMA ArgumentsAreText ==
  ASSUME NEW line \in Seq(Symbols), NEW from,
         \A p \in 1..(Len(line) + 1) : from[p] = Round(line, from, p)
  PROVE  \A p \in 1..(Len(line) + 1) : from[p] \in Seq(Seq(Symbols))
<1> DEFINE N == Len(line)
           Bad == {p \in 1..(N + 1) : from[p] \notin Seq(Seq(Symbols))}
<1>1. N \in Nat
  OBVIOUS
<1> SUFFICES ASSUME Bad # {}
             PROVE  FALSE
  OBVIOUS
<1>2. PICK p \in Bad : \A q \in Bad : q <= p
  <2>1. N + 1 \in Nat /\ Bad \in SUBSET (0..(N + 1))
    BY <1>1
  <2> HIDE DEF Bad
  <2> QED
    BY <2>1, GreatestNumber
<1>3. \A q \in (p + 1)..(N + 1) : from[q] \in Seq(Seq(Symbols))
  BY <1>1, <1>2
<1>4. p \in 1..(N + 1) /\ from[p] \notin Seq(Seq(Symbols)) /\ from[p] = Round(line, from, p)
  BY <1>2
<1> HIDE DEF Bad
<1>5. \A m, n \in 1..(N + 1) : SubSeq(line, m, n - 1) \in Seq(Symbols)
  BY <1>1, SubSeqProperties, ElementOfSeq
<1>6. Invalid \in Seq(Seq(Symbols))
  <2>1. NL \in Symbols
    BY DEF Symbols
  <2>2. <<NL>> \in Seq(Symbols)
    BY <2>1
  <2> QED
    BY <2>2 DEF Invalid
<1>7. ASSUME NEW arg \in Seq(Symbols), NEW rest \in Seq(Seq(Symbols))
      PROVE  Arg(arg, rest) \in Seq(Seq(Symbols))
  <2> DEFINE S == Seq(Symbols)
  <2> HIDE DEF S
  <2>1. <<arg>> \in Seq(S)
    BY DEF S
  <2>2. <<arg>> \o rest \in Seq(S)
    BY <2>1, ConcatProperties DEF S
  <2> QED
    BY <1>6, <2>2 DEF Arg, S
<1>8. CASE p > N
  BY <1>4, <1>8 DEF Round
<1>9. CASE p <= N /\ line[p] \in Spaces
  <2>1. from[p + 1] \in Seq(Seq(Symbols))
    BY <1>1, <1>3, <1>4, <1>9
  <2> QED
    BY <1>4, <1>9, <2>1 DEF Round
<1>10. CASE p <= N /\ line[p] \notin Spaces /\ line[p] = Quote
  <2> DEFINE close == Find(line, p + 1, {Quote})
  <2>1. close \in (p + 1)..(N + 1)
    BY <1>4, <1>10, FindFinds
  <2>2. from[p] = IF close > N THEN Invalid
                  ELSE Arg(SubSeq(line, p + 1, close - 1), from[close + 1])
    BY <1>4, <1>10 DEF Round
  <2> HIDE DEF close
  <2>3. close <= N => close + 1 \in (p + 1)..(N + 1)
    BY <1>1, <1>4, <2>1
  <2>4. p + 1 \in 1..(N + 1) /\ close \in 1..(N + 1)
    BY <1>1, <1>4, <1>10, <2>1
  <2>5. SubSeq(line, p + 1, close - 1) \in Seq(Symbols)
    BY <1>5, <2>4
  <2>6. CASE close > N
    BY <1>4, <1>6, <2>2, <2>6
  <2>7. CASE close <= N
    <3>1. from[close + 1] \in Seq(Seq(Symbols))
      BY <1>3, <2>3, <2>7
    <3>2. from[p] = Arg(SubSeq(line, p + 1, close - 1), from[close + 1])
      BY <1>1, <2>2, <2>4, <2>7
    <3> QED
      BY <1>4, <1>7, <2>5, <3>1, <3>2
  <2> QED
    BY <1>1, <2>4, <2>6, <2>7
<1>11. CASE p <= N /\ line[p] \notin Spaces /\ line[p] # Quote
  <2> DEFINE end == Find(line, p, Spaces)
  <2>1. end \in p..(N + 1) /\ (end <= N => line[end] \in Spaces)
    BY <1>4, <1>11, FindFinds
  <2>2. from[p] = Arg(SubSeq(line, p, end - 1), from[end])
    BY <1>4, <1>11 DEF Round
  <2>3. end # p
    BY <1>11, <2>1
  <2> HIDE DEF end
  <2>4. end \in (p + 1)..(N + 1) /\ end \in 1..(N + 1)
    BY <1>1, <1>4, <2>1, <2>3
  <2>5. SubSeq(line, p, end - 1) \in Seq(Symbols)
    BY <1>4, <1>5, <2>4
  <2> QED
    BY <1>3, <1>4, <1>7, <2>2, <2>4, <2>5
<1> QED
  BY <1>1, <1>4, <1>8, <1>9, <1>10, <1>11

\* Blanks in front of the first argument are skipped.
LEMMA TokensSkip ==
  ASSUME NEW line \in Seq(Symbols)
  PROVE  \E from : /\ Tokens(line) = Round(line, from, FindOther(line, 1, Spaces))
                   /\ \A p \in 1..(Len(line) + 1) : from[p] = Round(line, from, p)
<1> DEFINE first == FindOther(line, 1, Spaces)
<1>1. PICK from : /\ Tokens(line) = from[1]
                  /\ \A p \in 1..(Len(line) + 1) : from[p] = Round(line, from, p)
  BY TokensAre
<1>2. /\ first \in 1..(Len(line) + 1)
      /\ first <= Len(line) => line[first] \notin Spaces
      /\ \A r \in 1..(first - 1) : line[r] \in Spaces
  BY FindOtherFinds
<1> DEFINE Late == {p \in 1..first : from[p] = from[1]}
<1> HIDE DEF first
<1>3. PICK m \in Late : \A p \in Late : p <= m
  <2>1. first \in Nat /\ Late \in SUBSET (0..first) /\ 1 \in Late
    BY <1>2
  <2> HIDE DEF Late
  <2> QED
    BY <2>1, GreatestNumber
<1>4. m = first
  <2> SUFFICES ASSUME m # first
               PROVE  FALSE
    OBVIOUS
  <2>1. m \in 1..(first - 1) /\ m \in 1..(Len(line) + 1) /\ m <= Len(line) /\ m + 1 \in 1..first
    BY <1>2, <1>3
  <2>2. from[m] = from[m + 1]
    BY <1>1, <1>2, <2>1 DEF Round
  <2>3. m + 1 \in Late
    BY <1>3, <2>1, <2>2
  <2> QED
    BY <1>2, <1>3, <2>1, <2>3
<1>5. Tokens(line) = Round(line, from, first)
  BY <1>1, <1>2, <1>3, <1>4
<1> QED
  BY <1>1, <1>5 DEF first

\* The first argument of a line that does not begin with a quote ends before
\* the next blank.
LEMMA FirstToken ==
  ASSUME NEW line \in Seq(Symbols)
  PROVE  LET first == FindOther(line, 1, Spaces)
             end == Find(line, first, Spaces)
         IN  /\ Tokens(line) \in Seq(Seq(Symbols))
             /\ first > Len(line) => Tokens(line) = <<>>
             /\ first <= Len(line) /\ line[first] # Quote =>
                   \/ Tokens(line) = Invalid
                   \/ \E rest \in Seq(Seq(Symbols)) :
                          Tokens(line) = <<SubSeq(line, first, end - 1)>> \o rest
<1> DEFINE first == FindOther(line, 1, Spaces)
           end == Find(line, first, Spaces)
<1>1. PICK from : /\ Tokens(line) = Round(line, from, first)
                  /\ \A p \in 1..(Len(line) + 1) : from[p] = Round(line, from, p)
  BY TokensSkip
<1>2. /\ first \in 1..(Len(line) + 1)
      /\ first <= Len(line) => line[first] \notin Spaces
  BY FindOtherFinds
<1> HIDE DEF first
<1>3. \A p \in 1..(Len(line) + 1) : from[p] \in Seq(Seq(Symbols))
  BY <1>1, ArgumentsAreText
<1>4. Tokens(line) \in Seq(Seq(Symbols))
  BY <1>1, <1>2, <1>3
<1>5. first > Len(line) => Tokens(line) = <<>>
  BY <1>1, <1>2 DEF Round
<1>6. ASSUME first <= Len(line), line[first] # Quote
      PROVE  \/ Tokens(line) = Invalid
             \/ \E rest \in Seq(Seq(Symbols)) :
                    Tokens(line) = <<SubSeq(line, first, end - 1)>> \o rest
  <2>1. Tokens(line) = Arg(SubSeq(line, first, end - 1), from[end])
    BY <1>1, <1>2, <1>6 DEF Round
  <2>2. end \in 1..(Len(line) + 1)
    BY <1>2, FindFinds
  <2>3. from[end] \in Seq(Seq(Symbols))
    BY <1>3, <2>2
  <2> QED
    BY <2>1, <2>3 DEF Arg
<1> QED
  BY <1>4, <1>5, <1>6 DEF first

\* What command_execute does is named by the first argument.
LEMMA ExecuteIsNamed ==
  ASSUME NEW line
  PROVE  LET argv == parse_command(line)
             op == command_execute(line).op
         IN  \/ argv = <<>> /\ op = "none"
             \/ argv # <<>> /\ op = "ERR"
             \/ argv # <<>> /\ argv[1] = <<op>> /\ op \in {"get", "ttl", "del", "ping", "exit", "set"}
<1> DEFINE argv == parse_command(line)
           Called(op, argc) == argv # <<>> /\ argv[1] = <<op>> /\ Len(argv) = argc
<1>1. command_execute(line) =
        IF argv = <<>> THEN NoRequest
        ELSE IF \E op \in DOMAIN Arity : Called(op, Arity[op] + 1)
        THEN Request(Head(argv[1]), Tail(argv), 0)
        ELSE IF Called("set", 5) /\ argv[4] = <<"ex">> /\ parse_expiry_seconds(argv[5]) > 0
        THEN Request("set", SubSeq(argv, 2, 3), parse_expiry_seconds(argv[5]))
        ELSE Refused
  BY DEF command_execute
<1>2. DOMAIN Arity = {"get", "ttl", "del", "ping", "exit", "set"}
  BY DEF Arity
<1>3. \A op, args, seconds : Request(op, args, seconds).op = op
  BY DEF Request
<1>4. \A op : Head(<<op>>) = op
  OBVIOUS
<1> HIDE DEF argv
<1>5. CASE argv = <<>>
  BY <1>1, <1>3, <1>5 DEF NoRequest, argv
<1>6. CASE \E op \in DOMAIN Arity : Called(op, Arity[op] + 1)
  <2>1. PICK op \in DOMAIN Arity : Called(op, Arity[op] + 1)
    BY <1>6
  <2>2. Head(argv[1]) = op
    BY <1>4, <2>1
  <2>3. command_execute(line) = Request(Head(argv[1]), Tail(argv), 0)
    BY <1>1, <1>6, <2>1
  <2>4. command_execute(line).op = op
    BY <1>3, <2>2, <2>3
  <2> QED
    BY <1>2, <2>1, <2>4 DEF argv
<1>7. CASE /\ argv # <<>> /\ ~(\E op \in DOMAIN Arity : Called(op, Arity[op] + 1))
           /\ Called("set", 5) /\ argv[4] = <<"ex">> /\ parse_expiry_seconds(argv[5]) > 0
  <2>1. command_execute(line) = Request("set", SubSeq(argv, 2, 3), parse_expiry_seconds(argv[5]))
    BY <1>1, <1>7, Zenon
  <2>2. command_execute(line).op = "set"
    BY <1>3, <2>1
  <2> QED
    BY <1>7, <2>2 DEF argv
<1>8. CASE /\ argv # <<>> /\ ~(\E op \in DOMAIN Arity : Called(op, Arity[op] + 1))
           /\ ~(Called("set", 5) /\ argv[4] = <<"ex">> /\ parse_expiry_seconds(argv[5]) > 0)
  <2>1. command_execute(line) = Refused
    BY <1>1, <1>8, Zenon
  <2>2. command_execute(line).op = "ERR"
    BY <1>3, <2>1 DEF Refused
  <2> QED
    BY <1>8, <2>2 DEF argv
<1> QED
  BY <1>5, <1>6, <1>7, <1>8, Zenon

-----------------------------------------------------------------------------
(* is_read_command.                                                        *)

\* It looks at what the first argument begins with.
LEMMA ReadsFirstWord ==
  ASSUME NEW line \in Seq(Symbols)
  PROVE  LET first == FindOther(line, 1, Spaces)
         IN  is_read_command(line) <=>
               /\ first <= Len(line) /\ line[first] \in {"get", "ttl"}
               /\ first = Len(line) \/ line[first + 1] \in Spaces
<1> DEFINE first == FindOther(line, 1, Spaces)
           text == SubSeq(line, first, Len(line))
<1>1. first \in 1..(Len(line) + 1)
  BY FindOtherFinds
<1>2. is_read_command(line) <=>
        /\ text # <<>> /\ Head(text) \in {"get", "ttl"}
        /\ Tail(text) = <<>> \/ text[2] \in Spaces
  BY DEF is_read_command, SkipSpaces
<1> HIDE DEF first
<1>3. CASE first > Len(line)
  <2>1. text = <<>>
    BY <1>1, <1>3, SubSeqEmpty
  <2> QED
    BY <1>1, <1>2, <1>3, <2>1 DEF first
<1>4. CASE first <= Len(line)
  <2>1. /\ text \in Seq(Symbols)
        /\ Len(text) = Len(line) - first + 1
        /\ \A k \in 1..(Len(line) - first + 1) : text[k] = line[first + k - 1]
    BY <1>1, <1>4, SubSeqProperties, ElementOfSeq
  <2> HIDE DEF text
  <2>2. text # <<>> /\ Head(text) = line[first]
    BY <1>1, <1>4, <2>1
  <2>3. Tail(text) = <<>> <=> first = Len(line)
    <3>1. Tail(text) \in Seq(Symbols) /\ Len(Tail(text)) = Len(line) - first
      BY <1>1, <2>1, <2>2, HeadTailProperties
    <3>2. Tail(text) = <<>> <=> Len(Tail(text)) = 0
      BY <3>1, EmptySeq
    <3>3. Len(line) - first = 0 <=> first = Len(line)
      BY <1>1
    <3> QED
      BY <3>1, <3>2, <3>3
  <2>4. first # Len(line) => text[2] = line[first + 1]
    BY <1>1, <1>4, <2>1
  <2> QED
    BY <1>2, <1>4, <2>2, <2>3, <2>4 DEF first
<1> QED
  BY <1>1, <1>3, <1>4

\* The lock that worker_main chooses for a line fits what command_execute
\* makes of it.
Fitting(line) ==
    LET op == command_execute(line).op
    IN  /\ is_read_command(line) => op \in {"get", "ttl", "ERR"}
        /\ op \in {"get", "ttl"} /\ line[FindOther(line, 1, Spaces)] # Quote
              => is_read_command(line)

LEMMA LinesFit == \A line \in Seq(Symbols) : Fitting(line)
<1> SUFFICES ASSUME NEW line \in Seq(Symbols)
             PROVE  Fitting(line)
  OBVIOUS
<1> DEFINE first == FindOther(line, 1, Spaces)
           end == Find(line, first, Spaces)
           argv == parse_command(line)
           op == command_execute(line).op
           word == SubSeq(line, first, end - 1)
<1>1. /\ first \in 1..(Len(line) + 1)
      /\ first <= Len(line) => line[first] \notin Spaces
  BY FindOtherFinds
<1>2. /\ end \in first..(Len(line) + 1)
      /\ end <= Len(line) => line[end] \in Spaces
      /\ \A r \in first..(end - 1) : line[r] \notin Spaces
  BY <1>1, FindFinds
<1>3. /\ Tokens(line) \in Seq(Seq(Symbols))
      /\ first > Len(line) => Tokens(line) = <<>>
      /\ first <= Len(line) /\ line[first] # Quote =>
            \/ Tokens(line) = Invalid
            \/ \E rest \in Seq(Seq(Symbols)) : Tokens(line) = <<word>> \o rest
  BY FirstToken
<1>4. \/ argv = <<>> /\ op = "none"
      \/ argv # <<>> /\ op = "ERR"
      \/ argv # <<>> /\ argv[1] = <<op>> /\ op \in {"get", "ttl", "del", "ping", "exit", "set"}
  BY ExecuteIsNamed
<1>5. argv = Invalid \/ argv = Tokens(line)
  BY DEF parse_command
<1>6. is_read_command(line) <=>
        /\ first <= Len(line) /\ line[first] \in {"get", "ttl"}
        /\ first = Len(line) \/ line[first + 1] \in Spaces
  BY ReadsFirstWord
<1> HIDE DEF first, argv, op, end
<1>7. first <= Len(line) => /\ end > first
                            /\ Len(word) = end - first /\ word[1] = line[first]
                            /\ word \in Seq(Symbols)
  <2> SUFFICES ASSUME first <= Len(line)
               PROVE  /\ end > first
                      /\ Len(word) = end - first /\ word[1] = line[first]
                      /\ word \in Seq(Symbols)
    OBVIOUS
  <2>1. end > first
    BY <1>1, <1>2
  <2> QED
    BY <1>1, <1>2, <2>1, SubSeqProperties, ElementOfSeq
<1> HIDE DEF word
<1>8. argv = Invalid => op = "ERR"
  <2> SUFFICES ASSUME argv = Invalid, op # "ERR"
               PROVE  FALSE
    OBVIOUS
  <2>1. argv[1] = <<NL>> /\ argv # <<>>
    BY DEF Invalid
  <2>2. NL = op /\ op \in {"get", "ttl", "del", "ping", "exit", "set"}
    BY <1>4, <2>1
  <2> QED
    BY <2>2 DEF NL
<1>9. first <= Len(line) /\ line[first] # Quote /\ op # "ERR" =>
        argv[1] = word /\ argv # <<>>
  <2> SUFFICES ASSUME first <= Len(line), line[first] # Quote, op # "ERR"
               PROVE  argv[1] = word /\ argv # <<>>
    OBVIOUS
  <2>1. argv # Invalid /\ argv = Tokens(line)
    BY <1>5, <1>8
  <2>2. PICK rest \in Seq(Seq(Symbols)) : argv = <<word>> \o rest
    BY <1>3, <2>1
  <2> QED
    BY <1>7, <2>2
<1>10. is_read_command(line) => op \in {"get", "ttl", "ERR"}
  <2> SUFFICES ASSUME is_read_command(line), op # "ERR"
               PROVE  op \in {"get", "ttl"}
    OBVIOUS
  <2>1. line[first] # Quote
    BY <1>6 DEF Quote
  <2>2. argv[1] = word /\ argv[1] = <<op>>
    BY <1>4, <1>6, <1>9, <2>1
  <2>3. word[1] = op
    BY <2>2
  <2> QED
    BY <1>6, <1>7, <2>3
<1>11. op \in {"get", "ttl"} /\ line[first] # Quote => is_read_command(line)
  <2> SUFFICES ASSUME op \in {"get", "ttl"}, line[first] # Quote
               PROVE  is_read_command(line)
    OBVIOUS
  <2>1. op # "ERR" /\ op # "none"
    OBVIOUS
  <2>2. first <= Len(line)
    <3> SUFFICES ASSUME first > Len(line)
                 PROVE  FALSE
      BY <1>1
    <3>1. Tokens(line) = <<>> /\ argv = <<>>
      BY <1>3, <1>5, <1>8, <2>1
    <3> QED
      BY <1>4, <2>1, <3>1
  <2>3. word = <<op>>
    BY <1>4, <1>9, <2>1, <2>2
  <2>4. Len(word) = 1 /\ word[1] = op
    BY <2>3
  <2>5. end = first + 1 /\ line[first] = op
    BY <1>1, <1>2, <1>7, <2>2, <2>4
  <2> QED
    BY <1>1, <1>2, <1>6, <2>2, <2>5
<1> QED
  BY <1>10, <1>11 DEF Fitting, op, first

-----------------------------------------------------------------------------
(* The stream of a client.                                                 *)

-----------------------------------------------------------------------------
(* Cutting lines.                                                          *)

\* Where the lines of a text begin and end: after position 0, and at the
\* newlines that are chosen.
Places(ends, text, S) ==
    /\ ends \in Seq(Nat)
    /\ Len(ends) = Cardinality(S) + 1
    /\ Cardinality(S) \in Nat
    /\ ends[1] = 0
    /\ \A n \in 1..Cardinality(S) : ends[n + 1] \in S
    /\ \A n \in 1..(Cardinality(S) + 1) : ends[n] \in 0..Len(text)
    /\ \A m, n \in 1..(Cardinality(S) + 1) : m < n => ends[m] < ends[n]
    /\ \A p \in S : Rank(S, p) \in 1..Cardinality(S) /\ ends[Rank(S, p) + 1] = p

LEMMA PlacesSorted ==
  ASSUME NEW text \in Seq(Symbols), NEW S \in SUBSET (1..Len(text))
  PROVE  /\ Places(<<0>> \o Sorted(S), text, S)
         /\ IsFiniteSet(S) /\ S \subseteq Nat
         /\ Len(Sorted(S)) = Cardinality(S)
<1> DEFINE s == Sorted(S)
           N == Cardinality(S)
           ends == <<0>> \o s
<1>1. IsFiniteSet(S) /\ S \subseteq Nat
  <2>1. Len(text) \in Nat /\ IsFiniteSet(1..Len(text))
    BY FS_Interval
  <2>2. IsFiniteSet(S)
    BY <2>1, FS_Subset
  <2> QED
    BY <2>1, <2>2
<1>2. /\ s \in Seq(S) /\ Len(s) = N
      /\ \A n \in 1..N : s[n] \in S
      /\ \A x \in S : Rank(S, x) \in 1..N /\ s[Rank(S, x)] = x
      /\ \A m, n \in 1..N : m < n => s[m] < s[n]
  BY <1>1, SortedLists
<1>3. N \in Nat
  BY <1>1, FS_CardinalityType
<1> HIDE DEF s, N
<1>4. s \in Seq(Nat) /\ <<0>> \in Seq(Nat) /\ Len(<<0>>) = 1 /\ <<0>>[1] = 0
  <2>1. s \in Seq(Nat)
    BY <1>1, <1>2, SeqMonotonic
  <2> QED
    BY <2>1
<1>5. /\ ends \in Seq(Nat)
      /\ Len(ends) = N + 1
      /\ \A n \in 1..(N + 1) : ends[n] = IF n <= 1 THEN <<0>>[n] ELSE s[n - 1]
  <2> HIDE DEF ends
  <2>1. /\ ends \in Seq(Nat)
        /\ Len(ends) = Len(<<0>>) + Len(s)
        /\ \A n \in 1..(Len(<<0>>) + Len(s)) :
              ends[n] = IF n <= Len(<<0>>) THEN <<0>>[n] ELSE s[n - Len(<<0>>)]
    BY <1>4, ConcatProperties DEF ends
  <2>2. Len(<<0>>) + Len(s) = N + 1
    BY <1>2, <1>3, <1>4
  <2> QED
    BY <1>4, <2>1, <2>2
<1> HIDE DEF ends
<1>6. ends[1] = 0 /\ \A n \in 1..N : ends[n + 1] = s[n]
  <2>1. ends[1] = 0
    BY <1>3, <1>4, <1>5
  <2>2. ASSUME NEW n \in 1..N
        PROVE  ends[n + 1] = s[n]
    <3>1. n + 1 \in 1..(N + 1) /\ ~(n + 1 <= 1) /\ n + 1 - 1 = n
      BY <1>3
    <3> QED
      BY <1>5, <3>1
  <2> QED
    BY <2>1, <2>2
<1>7. \A n \in 1..N : ends[n + 1] \in S
  BY <1>2, <1>6
<1>8. \A n \in 2..(N + 1) : n - 1 \in 1..N /\ ends[n] = s[n - 1] /\ ends[n] \in S
  <2> TAKE n \in 2..(N + 1)
  <2>1. n - 1 \in 1..N /\ (n - 1) + 1 = n
    BY <1>3
  <2> QED
    BY <1>2, <1>6, <2>1
<1>9. \A n \in 1..(N + 1) : n = 1 \/ n \in 2..(N + 1)
  BY <1>3
<1>10. \A n \in 1..(N + 1) : ends[n] \in 0..Len(text)
  <2>1. Len(text) \in Nat /\ 0 \in 0..Len(text) /\ \A p \in S : p \in 0..Len(text)
    OBVIOUS
  <2> QED
    BY <1>6, <1>8, <1>9, <2>1
<1>11. ASSUME NEW m \in 1..(N + 1), NEW n \in 1..(N + 1), m < n
       PROVE  ends[m] < ends[n]
  <2>1. n \in 2..(N + 1)
    BY <1>3, <1>11
  <2>2. ends[n] \in S /\ ends[n] \in 1..Len(text)
    BY <1>8, <2>1
  <2>3. CASE m = 1
    BY <1>6, <2>2, <2>3
  <2>4. CASE m \in 2..(N + 1)
    <3>1. m - 1 < n - 1
      BY <1>3, <1>11
    <3> QED
      BY <1>2, <1>8, <2>1, <2>4, <3>1
  <2> QED
    BY <1>9, <2>3, <2>4
<1>12. \A p \in S : Rank(S, p) \in 1..N /\ ends[Rank(S, p) + 1] = p
  BY <1>2, <1>6
<1>13. Places(ends, text, S)
  BY <1>3, <1>5, <1>6, <1>7, <1>10, <1>11, <1>12 DEF Places, N
<1> QED
  BY <1>1, <1>2, <1>13 DEF ends, s, N

\* No chosen newline lies inside a line.
LEMMA NothingBetween ==
  ASSUME NEW text, NEW S, S \subseteq Nat, NEW ends, Places(ends, text, S),
         NEW n \in 1..Cardinality(S), NEW p \in S
  PROVE  ~(ends[n] < p /\ p < ends[n + 1])
<1> SUFFICES ASSUME ends[n] < p, p < ends[n + 1]
             PROVE  FALSE
  OBVIOUS
<1> DEFINE N == Cardinality(S)
           r == Rank(S, p)
<1>1. /\ N \in Nat
      /\ r \in 1..N /\ ends[r + 1] = p
      /\ \A i, j \in 1..(N + 1) : i < j => ends[i] < ends[j]
      /\ \A i \in 1..(N + 1) : ends[i] \in Nat
  <2>1. /\ N \in Nat
        /\ r \in 1..N /\ ends[r + 1] = p
        /\ \A i, j \in 1..(N + 1) : i < j => ends[i] < ends[j]
        /\ \A i \in 1..(N + 1) : ends[i] \in 0..Len(text)
    BY Zenon DEF Places
  <2>2. \A i \in 0..Len(text) : i \in Nat
    OBVIOUS
  <2> QED
    BY <2>1, <2>2, Zenon
<1> HIDE DEF N, r
<1>2. n \in 1..(N + 1) /\ n + 1 \in 1..(N + 1) /\ r + 1 \in 1..(N + 1)
  BY <1>1 DEF N
<1>3. CASE r + 1 <= n
  <2>1. r + 1 = n \/ ends[r + 1] < ends[n]
    BY <1>1, <1>2, <1>3
  <2> QED
    BY <1>1, <1>2, <2>1
<1>4. CASE n + 1 <= r + 1
  <2>1. r + 1 = n + 1 \/ ends[n + 1] < ends[r + 1]
    BY <1>1, <1>2, <1>4
  <2> QED
    BY <1>1, <1>2, <2>1
<1> QED
  BY <1>1, <1>2, <1>3, <1>4

\* A line of a piece of a text is a line of the text.
LEMMA LineOfPiece ==
  ASSUME NEW s \in Seq(Symbols), NEW d \in 0..Len(s), NEW e \in d..Len(s),
         NEW a \in 0..(e - d), NEW b \in (a + 1)..(e - d)
  PROVE  Line(SubSeq(s, d + 1, e), a, b) = Line(s, d + a, d + b)
<1> DEFINE text == SubSeq(s, d + 1, e)
<1>1. /\ text \in Seq(Symbols)
      /\ Len(text) = e - d
      /\ \A i \in 1..(e - d) : text[i] = s[d + i]
  <2>1. /\ text \in Seq(Symbols)
        /\ Len(text) = IF d + 1 <= e THEN e - (d + 1) + 1 ELSE 0
        /\ \A i \in 1..(e - (d + 1) + 1) : text[i] = s[(d + 1) + i - 1]
    BY SubSeqProperties, ElementOfSeq
  <2> HIDE DEF text
  <2>2. e - (d + 1) + 1 = e - d /\ \A i \in 1..(e - d) : (d + 1) + i - 1 = d + i
    OBVIOUS
  <2> QED
    BY <2>1, <2>2
<1> HIDE DEF text
<1>2. ASSUME NEW z \in {b - 1, b - 2}
      PROVE  SubSeq(text, a + 1, z) = SubSeq(s, d + a + 1, d + z)
  <2> DEFINE u == SubSeq(text, a + 1, z)
             v == SubSeq(s, d + a + 1, d + z)
  <2>1. /\ u \in Seq(Symbols)
        /\ Len(u) = IF a + 1 <= z THEN z - (a + 1) + 1 ELSE 0
        /\ \A i \in 1..(z - (a + 1) + 1) : u[i] = text[(a + 1) + i - 1]
    BY <1>1, SubSeqProperties, ElementOfSeq
  <2>2. /\ v \in Seq(Symbols)
        /\ Len(v) = IF d + a + 1 <= d + z THEN (d + z) - (d + a + 1) + 1 ELSE 0
        /\ \A i \in 1..((d + z) - (d + a + 1) + 1) : v[i] = s[(d + a + 1) + i - 1]
    BY SubSeqProperties, ElementOfSeq
  <2> HIDE DEF u, v
  <2>3. Len(u) = Len(v)
    BY <2>1, <2>2
  <2>4. ASSUME NEW i \in 1..Len(u)
        PROVE  u[i] = v[i]
    <3>1. /\ i \in 1..(z - (a + 1) + 1)
          /\ i \in 1..((d + z) - (d + a + 1) + 1)
          /\ (a + 1) + i - 1 \in 1..(e - d)
          /\ (d + a + 1) + i - 1 = d + ((a + 1) + i - 1)
      BY <2>1, <2>4
    <3> QED
      BY <1>1, <2>1, <2>2, <3>1
  <2>5. u = v
    BY <2>1, <2>2, <2>3, <2>4, SeqEqual
  <2> QED
    BY <2>5 DEF u, v
<1>3. b - 1 > a <=> (d + b) - 1 > d + a
  OBVIOUS
<1>4. b - 1 > a => text[b - 1] = s[(d + b) - 1]
  <2>1. b - 1 > a => b - 1 \in 1..(e - d) /\ d + (b - 1) = (d + b) - 1
    OBVIOUS
  <2> QED
    BY <1>1, <2>1
<1>5. (d + b) - 1 = d + (b - 1) /\ (d + b) - 2 = d + (b - 2)
  OBVIOUS
<1>6. CASE b - 1 > a /\ text[b - 1] = CR
  <2>1. Line(text, a, b) = SubSeq(text, a + 1, b - 2)
    BY <1>6 DEF Line
  <2>2. Line(s, d + a, d + b) = SubSeq(s, d + a + 1, (d + b) - 2)
    BY <1>3, <1>4, <1>6 DEF Line
  <2> QED
    BY <1>2, <1>5, <2>1, <2>2 DEF text
<1>7. CASE ~(b - 1 > a /\ text[b - 1] = CR)
  <2>1. Line(text, a, b) = SubSeq(text, a + 1, b - 1)
    BY <1>7 DEF Line
  <2>2. Line(s, d + a, d + b) = SubSeq(s, d + a + 1, (d + b) - 1)
    BY <1>3, <1>4, <1>7 DEF Line
  <2> QED
    BY <1>2, <1>5, <2>1, <2>2 DEF text
<1> QED
  BY <1>6, <1>7

\* What follows a position in a part of a text is a part of the text.
LEMMA RestOfPiece ==
  ASSUME NEW s \in Seq(Symbols), NEW d \in 0..Len(s), NEW e \in d..Len(s), NEW a \in 0..(e - d)
  PROVE  SubSeq(SubSeq(s, d + 1, e), a + 1, e - d) = SubSeq(s, (d + a) + 1, e)
<1>1. Len(s) \in Nat /\ d \in Nat /\ e \in Nat /\ a \in Nat /\ e <= Len(s) /\ d + a <= e
  OBVIOUS
<1>2. CASE d + a = e
  <2>1. a + 1 > e - d /\ (d + a) + 1 > e
    BY <1>1, <1>2
  <2>2. SubSeq(SubSeq(s, d + 1, e), a + 1, e - d) = <<>> /\ SubSeq(s, (d + a) + 1, e) = <<>>
    BY <1>1, <2>1, SubSeqEmpty
  <2> QED
    BY <2>2
<1>3. CASE d + a # e
  <2>1. d + 1 \in 1..Len(s) /\ e \in 1..Len(s)
    BY <1>1, <1>3
  <2>2. a + 1 \in 1..(e - (d + 1) + 1) /\ e - d \in 1..(e - (d + 1) + 1)
    BY <1>1, <1>3
  <2>3. (d + 1) + (a + 1) - 1 = (d + a) + 1 /\ (d + 1) + (e - d) - 1 = e
    BY <1>1
  <2>4. SubSeq(SubSeq(s, d + 1, e), a + 1, e - d)
          = SubSeq(s, (d + 1) + (a + 1) - 1, (d + 1) + (e - d) - 1)
    BY <2>1, <2>2, SubSeqOfSubSeq
  <2> QED
    BY <2>3, <2>4
<1> QED
  BY <1>2, <1>3

\* What is appended follows what was there.
LEMMA Appended ==
  ASSUME NEW S, NEW old \in Seq(S), NEW K \in Nat, NEW lines, lines = [i \in 1..K |-> lines[i]]
  PROVE  /\ Len(old) \in Nat
         /\ Len(old \o lines) = Len(old) + K
         /\ \A k \in 1..Len(old) : (old \o lines)[k] = old[k]
         /\ \A i \in 1..K : (old \o lines)[Len(old) + i] = lines[i]
<1> DEFINE T == S \cup {lines[i] : i \in 1..K}
           L == Len(old)
<1>1. \A i \in 1..K : lines[i] \in T
  OBVIOUS
<1>2. old \in Seq(T)
  BY SeqMonotonic
<1> HIDE DEF T
<1>3. lines \in Seq(T) /\ Len(lines) = K
  BY <1>1
<1>4. /\ Len(old \o lines) = L + K
      /\ \A k \in 1..(L + K) : (old \o lines)[k] = IF k <= L THEN old[k] ELSE lines[k - L]
  BY <1>2, <1>3, ConcatProperties
<1>5. L \in Nat
  OBVIOUS
<1> HIDE DEF L
<1>6. \A k \in 1..L : k \in 1..(L + K) /\ k <= L
  BY <1>5
<1>7. \A i \in 1..K : L + i \in 1..(L + K) /\ ~(L + i <= L) /\ (L + i) - L = i
  BY <1>5
<1> QED
  BY <1>4, <1>5, <1>6, <1>7 DEF L

-----------------------------------------------------------------------------
(* The inductive invariant.                                                *)

\* Types; a client has one slot.
Typed ==
    /\ TypeOK
    /\ session \in Sessions
    /\ buffer \in [Slots -> Seq(Symbols)]
    /\ received \in [Clients -> Nat]
    /\ submitted \in [Clients -> Seq(Seq(Symbols))]
    /\ \A s, t \in Slots : client[s] = client[t] /\ client[s] # NoClient => s = t

\* A line of the stream ends at a newline, and has none inside.
IsLine(text, stream, end) ==
    /\ stream[end] = NL
    /\ \E from \in 0..(end - 1) :
          /\ text = Line(stream, from, end)
          /\ \A p \in (from + 1)..(end - 1) : stream[p] # NL

\* The tasks of c are lines that end at the places ends, ...
Tasks(c, ends) ==
    /\ \A n \in 1..Len(submitted[c]) : IsLine(submitted[c][n], Stream(c), ends[n])
    /\ \A m, n \in 1..Len(submitted[c]) : m < n => ends[m] < ends[n]

\* ... and its buffer begins behind the last of them.
Rest(c, ends) ==
    \A s \in Slots : client[s] = c =>
        \E d \in 0..received[c] :
            /\ buffer[s] = SubSeq(Stream(c), d + 1, received[c])
            /\ \A n \in 1..Len(submitted[c]) : ends[n] <= d

Framed ==
    \A c \in Clients :
        \E ends \in [1..Len(submitted[c]) -> 1..received[c]] : Tasks(c, ends) /\ Rest(c, ends)

IInv == Typed /\ Framed

LEMMA StreamType ==
  ASSUME session \in Sessions, NEW c \in Clients
  PROVE  Stream(c) \in Seq(Symbols)
<1> DEFINE texts == [n \in DOMAIN session[c] |-> session[c][n].text]
           S == Seq(STRING)
<1>1. session[c] \in Seq([text : S, means : Requests])
  BY LineFramingAssumption
<1> HIDE DEF S
<1>2. texts \in Seq(S)
  <2>1. DOMAIN session[c] = 1..Len(session[c]) /\ Len(session[c]) \in Nat
    BY <1>1
  <2>2. \A n \in 1..Len(session[c]) : session[c][n].text \in S
    <3> TAKE n \in 1..Len(session[c])
    <3>1. session[c][n] \in [text : S, means : Requests]
      BY <1>1, ElementOfSeq
    <3> QED
      BY <3>1
  <2> QED
    BY <2>1, <2>2
<1> HIDE DEF texts
<1>3. FlattenSeq(texts) \in S
  BY <1>2, FlattenType DEF S
<1>4. Stream(c) \in Seq(STRING)
  BY <1>3 DEF Stream, texts, S
<1> QED
  BY <1>4, SeqMonotonic DEF Symbols

LEMMA StreamStays ==
  ASSUME UNCHANGED session
  PROVE  \A c : Stream(c)' = Stream(c)
BY DEF Stream

LEMMA Initially == Init => IInv
<1> SUFFICES ASSUME Init
             PROVE  IInv
  OBVIOUS
<1>1. Typed
  <2>1. \A c \in Clients : Stream(c) \in Seq(Symbols)
    BY StreamType DEF Init
  <2>2. \A c \in Clients : 0 \in 0..Len(Stream(c))
    BY <2>1
  <2>3. 0 < BufferSize
    BY LineFramingAssumption
  <2>4. \A S : <<>> \in Seq(S) /\ Len(<<>>) = 0
    OBVIOUS
  <2>5. buffer \in [Slots -> Seq(Symbols)] /\ submitted \in [Clients -> Seq(Seq(Symbols))]
    BY <2>4 DEF Init
  <2>6. TypeOK
    BY <2>2, <2>3, <2>4 DEF Init, TypeOK
  <2> QED
    BY <2>5, <2>6 DEF Init, Typed
<1>2. Framed
  <2> SUFFICES ASSUME NEW c \in Clients
               PROVE  \E ends \in [1..Len(submitted[c]) -> 1..received[c]] :
                         Tasks(c, ends) /\ Rest(c, ends)
    BY DEF Framed
  <2>1. Len(submitted[c]) = 0 /\ received[c] = 0
    BY DEF Init
  <2>2. \A s \in Slots : client[s] # c
    BY DEF Init, Clients, NoClient
  <2> DEFINE ends == [n \in 1..0 |-> 1]
  <2>3. ends \in [1..Len(submitted[c]) -> 1..received[c]]
    BY <2>1
  <2>4. Tasks(c, ends) /\ Rest(c, ends)
    BY <2>1, <2>2 DEF Tasks, Rest
  <2> QED
    BY <2>3, <2>4
<1> QED
  BY <1>1, <1>2 DEF IInv

\* Without a NUL, strchr sees every newline up to any place.
LEMMA NewlinesSeen ==
  ASSUME NEW text \in Seq(Symbols), NEW p \in 1..Len(text), text[p] = NL,
         \A q \in 1..(p - 1) : text[q] # NUL
  PROVE  p < Find(text, 1, {NUL})
<1>1. Find(text, 1, {NUL}) \in 1..(Len(text) + 1)
      /\ (Find(text, 1, {NUL}) <= Len(text) => text[Find(text, 1, {NUL})] \in {NUL})
  BY FindFinds
<1>2. NL # NUL
  BY SymbolsDiffer
<1> QED
  BY <1>1, <1>2

\* What Cut does: it picks some of the lines that end at the newlines in S.
Cuts(s, text, S, ends, picks) ==
    LET c == client[s]
        N == Cardinality(S)
        lines == [i \in 1..Len(picks) |-> Line(text, ends[picks[i]], ends[picks[i] + 1])]
    IN  /\ \A p \in S : text[p] = NL
        /\ Places(ends, text, S)
        /\ \A k \in 1..N : \A p \in (ends[k] + 1)..(ends[k + 1] - 1) : text[p] # NL
        /\ \A i, j \in 1..Len(picks) : i < j => picks[i] < picks[j]
        /\ submitted' = [submitted EXCEPT ![c] = @ \o lines]
        /\ buffer' = [buffer EXCEPT ![s] = SubSeq(text, ends[N + 1] + 1, Len(text))]
        /\ (\A p \in 1..Len(text) : text[p] # NUL) =>
              \A p \in 1..Len(text) : text[p] = NL => p \in S
        /\ ~told'[c] => ~told[c] /\ Len(picks) = N /\ \A i \in 1..N : picks[i] = i

\* Numbers from 1 on are in order.
LEMMA SortedInterval ==
  ASSUME NEW n \in Nat
  PROVE  Len(Sorted(1..n)) = n /\ \A i \in 1..n : Sorted(1..n)[i] = i
<1>1. IsFiniteSet(1..n) /\ Cardinality(1..n) = n /\ 1..n \subseteq Nat
  BY FS_Interval
<1>2. \A i \in 1..n : Rank(1..n, i) = i
  <2> TAKE i \in 1..n
  <2>1. {y \in 1..n : y <= i} = 1..i
    OBVIOUS
  <2>2. Cardinality(1..i) = i
    BY FS_Interval
  <2> QED
    BY <2>1, <2>2 DEF Rank
<1> DEFINE S == 1..n
<1> HIDE DEF S
<1>3. /\ Len(Sorted(S)) = Cardinality(S)
      /\ \A x \in S : Sorted(S)[Rank(S, x)] = x
  BY <1>1, SortedLists DEF S
<1> QED
  BY <1>1, <1>2, <1>3 DEF S

\* The text it has before it.
Collected(s, n) ==
    buffer[s] \o SubSeq(Stream(client[s]), received[client[s]] + 1, received[client[s]] + n)

\* A cut changes nothing of other clients and slots.
LEMMA CutUpdates ==
  ASSUME NEW s, NEW n, Cut(s, n)
  PROVE  \E new, rest, more :
            /\ submitted' = [submitted EXCEPT ![client[s]] = new]
            /\ buffer' = [buffer EXCEPT ![s] = rest]
            /\ told' = [told EXCEPT ![client[s]] = @ \/ (more = TRUE)]
<1> DEFINE c == client[s]
           text == buffer[s] \o SubSeq(Stream(c), received[c] + 1, received[c] + n)
           ends == <<0>> \o Newlines(text)
           lines == [i \in 1..(Len(ends) - 1) |-> Line(text, ends[i], ends[i + 1])]
           queued(failed) == Sorted(DOMAIN lines \ failed)
<1>1. PICK failed \in SUBSET DOMAIN lines :
         /\ submitted' = [submitted EXCEPT ![c] =
               @ \o [i \in DOMAIN queued(failed) |-> lines[queued(failed)[i]]]]
         /\ told' = [told EXCEPT ![c] = @ \/ failed # {}]
         /\ buffer' = [buffer EXCEPT ![s] = SubSeq(text, Last(ends) + 1, Len(text))]
  BY Zenon DEF Cut
<1> HIDE DEF text, ends, lines, queued
<1>2. (failed # {}) = ((failed # {}) = TRUE)
  OBVIOUS
<1>3. told' = [told EXCEPT ![c] = @ \/ ((failed # {}) = TRUE)]
  BY <1>1, <1>2, Zenon
<1> QED
  BY <1>1, <1>3, Zenon

LEMMA CutEffect ==
  ASSUME Typed, NEW s \in Slots, NEW n, Cut(s, n), Collected(s, n) \in Seq(Symbols)
  PROVE  \E S \in SUBSET (1..Len(Collected(s, n))) : \E ends :
            \E picks \in Seq(1..Cardinality(S)) : Cuts(s, Collected(s, n), S, ends, picks)
<1> DEFINE c == client[s]
           text == Collected(s, n)
           S == {p \in DOMAIN text : text[p] = NL /\ p < Find(text, 1, {NUL})}
           N == Cardinality(S)
           ends == <<0>> \o Newlines(text)
           lines == [i \in 1..(Len(ends) - 1) |-> Line(text, ends[i], ends[i + 1])]
           queued(failed) == Sorted(DOMAIN lines \ failed)
<1>1. PICK failed \in SUBSET DOMAIN lines :
         /\ SubmitMayFail \/ failed = {}
         /\ submitted' = [submitted EXCEPT ![c] =
               @ \o [i \in DOMAIN queued(failed) |-> lines[queued(failed)[i]]]]
         /\ told' = [told EXCEPT ![c] = @ \/ failed # {}]
         /\ buffer' = [buffer EXCEPT ![s] = SubSeq(text, Last(ends) + 1, Len(text))]
  BY Zenon DEF Cut, Collected
<1>0. text \in Seq(Symbols)
  OBVIOUS
<1> HIDE DEF text
<1>2. DOMAIN text = 1..Len(text) /\ Len(text) \in Nat
  BY <1>0
<1>3. S \in SUBSET (1..Len(text))
  BY <1>2
<1>4. Newlines(text) = Sorted(S)
  BY DEF Newlines
<1>5. \A p \in S : text[p] = NL
  OBVIOUS
<1>6. (\A p \in 1..Len(text) : text[p] # NUL) =>
         \A p \in 1..Len(text) : text[p] = NL => p \in S
  <2> SUFFICES ASSUME \A p \in 1..Len(text) : text[p] # NUL, NEW p \in 1..Len(text), text[p] = NL
               PROVE  p \in S
    OBVIOUS
  <2>1. \A q \in 1..(p - 1) : text[q] # NUL
    BY <1>2
  <2>2. p < Find(text, 1, {NUL})
    BY <1>0, <2>1, NewlinesSeen
  <2> QED
    BY <1>2, <2>2
<1>7. ASSUME NEW p \in 1..Len(text), text[p] = NL, NEW q \in S, p < q
      PROVE  p \in S
  <2>1. 1 \in 1..(Len(text) + 1)
    BY <1>2
  <2>2. Find(text, 1, {NUL}) \in 1..(Len(text) + 1)
    BY <1>0, <2>1, FindFinds
  <2>3. q < Find(text, 1, {NUL}) /\ q \in Nat
    BY <1>2, <1>7
  <2> QED
    BY <1>2, <1>7, <2>2, <2>3
<1> HIDE DEF S
<1>8. Places(ends, text, S) /\ IsFiniteSet(S) /\ S \subseteq Nat
  BY <1>0, <1>3, <1>4, PlacesSorted
<1> HIDE DEF ends
<1>9. N \in Nat /\ Len(ends) = N + 1 /\ Last(ends) = ends[N + 1] /\ DOMAIN lines = 1..N
  BY <1>8 DEF Places, Last
<1>10. ASSUME NEW k \in 1..N, NEW p \in (ends[k] + 1)..(ends[k + 1] - 1)
       PROVE  text[p] # NL
  <2>1. /\ ends[k + 1] \in S /\ ends[k] \in Nat /\ ends[k + 1] \in 1..Len(text)
    <3>1. k \in 1..(N + 1)
      BY <1>9
    <3>2. ends[k + 1] \in S /\ ends[k] \in 0..Len(text)
      BY <1>8, <3>1, Zenon DEF Places
    <3>3. ends[k + 1] \in 1..Len(text)
      BY <1>3, <3>2
    <3> QED
      BY <3>2, <3>3
  <2>2. p \in 1..Len(text) /\ p < ends[k + 1] /\ ends[k] < p
    BY <1>2, <2>1
  <2>3. p \notin S
    BY <1>8, <2>2, NothingBetween
  <2> QED
    BY <1>7, <2>1, <2>2, <2>3
<1> DEFINE P == 1..N \ failed
           picks == Sorted(P)
<1>11. P \in SUBSET (1..N) /\ IsFiniteSet(P) /\ P \subseteq Nat
  <2>1. IsFiniteSet(1..N) /\ P \in SUBSET (1..N)
    BY <1>9, FS_Interval
  <2>2. IsFiniteSet(P)
    BY <2>1, FS_Subset
  <2> QED
    BY <1>9, <2>1, <2>2
<1>12. queued(failed) = picks
  BY <1>9
<1> HIDE DEF P
<1>13. /\ picks \in Seq(P) /\ Len(picks) = Cardinality(P)
       /\ \A i, j \in 1..Cardinality(P) : i < j => picks[i] < picks[j]
  BY <1>11, SortedLists
<1>14. picks \in Seq(1..N) /\ DOMAIN picks = 1..Len(picks)
  <2>1. picks \in Seq(P) /\ P \subseteq 1..N
    BY <1>11, <1>13
  <2> HIDE DEF picks
  <2>2. picks \in Seq(1..N)
    BY <2>1, SeqMonotonic
  <2> QED
    BY <2>2, LenProperties
<1>15. [i \in DOMAIN queued(failed) |-> lines[queued(failed)[i]]]
         = [i \in 1..Len(picks) |-> Line(text, ends[picks[i]], ends[picks[i] + 1])]
  <2>1. \A i \in 1..Len(picks) : picks[i] \in 1..N
    <3> HIDE DEF picks
    <3> QED
      BY <1>14, ElementOfSeq
  <2>2. \A k \in 1..N : lines[k] = Line(text, ends[k], ends[k + 1])
    BY <1>9
  <2> HIDE DEF lines, picks, queued
  <2> QED
    BY <1>12, <1>14, <2>1, <2>2
<1>16. ~told'[c] => ~told[c] /\ Len(picks) = N /\ \A i \in 1..N : picks[i] = i
  <2> SUFFICES ASSUME ~told'[c]
               PROVE  ~told[c] /\ Len(picks) = N /\ \A i \in 1..N : picks[i] = i
    OBVIOUS
  <2>1. c \in Clients
    BY Zenon DEF Cut, Receive, Typed, TypeOK
  <2>2. ~told[c] /\ failed = {}
    BY <1>1, <2>1 DEF Typed, TypeOK
  <2>3. P = 1..N
    BY <2>2 DEF P
  <2> QED
    BY <1>9, <2>2, <2>3, SortedInterval
<1> HIDE DEF lines, picks, queued
<1>17. Cuts(s, text, S, ends, picks)
  BY <1>1, <1>5, <1>6, <1>8, <1>9, <1>10, <1>13, <1>15, <1>16 DEF Cuts
<1> QED
  BY <1>3, <1>14, <1>17 DEF text

\* A slot in use has a client, and what is received is part of its stream.
LEMMA ReceiveEffect ==
  ASSUME Typed, NEW s \in Slots, NEW n \in 1..(BufferSize - 1), Receive(s, n)
  PROVE  LET c == client[s]
         IN  /\ c \in Clients /\ c # NoClient
             /\ Stream(c) \in Seq(Symbols)
             /\ received[c] \in Nat /\ received[c] + n \in 0..Len(Stream(c))
             /\ received' = [received EXCEPT ![c] = @ + n]
             /\ n \in Nat \ {0}
             /\ Collected(s, n) \in Seq(Symbols)
             /\ Len(Collected(s, n)) = Len(buffer[s]) + n
<1> DEFINE c == client[s]
           piece == SubSeq(Stream(c), received[c] + 1, received[c] + n)
<1>1. c \in Clients /\ c # NoClient
  BY DEF Receive, Typed, TypeOK
<1>2. Stream(c) \in Seq(Symbols)
  BY <1>1, StreamType DEF Typed
<1>3. n \in Nat \ {0}
  BY LineFramingAssumption
<1>4. /\ received[c] \in Nat /\ received[c] + n <= Len(Stream(c))
      /\ received' = [received EXCEPT ![c] = @ + n]
  BY <1>1 DEF Receive, Typed
<1>5. received[c] + n \in 0..Len(Stream(c))
  BY <1>2, <1>3, <1>4
<1>6. piece \in Seq(Symbols) /\ Len(piece) = n
  <2> DEFINE m == received[c] + 1
             z == received[c] + n
  <2>1. /\ m \in 1..(Len(Stream(c)) + 1) /\ z \in (m - 1)..Len(Stream(c))
        /\ z - m + 1 = n
    <3> DEFINE X == Len(Stream(c))
               r == received[c]
    <3>1. X \in Nat /\ r \in Nat /\ r + n <= X
      BY <1>2, <1>4
    <3> HIDE DEF X, r
    <3>2. r + 1 \in 1..(X + 1) /\ r + n \in ((r + 1) - 1)..X /\ (r + n) - (r + 1) + 1 = n
      BY <1>3, <3>1
    <3> QED
      BY <3>2 DEF X, r
  <2> HIDE DEF m, z
  <2>2. SubSeq(Stream(c), m, z) \in Seq(Symbols) /\ Len(SubSeq(Stream(c), m, z)) = z - m + 1
    BY <1>2, <2>1, PieceOf
  <2>3. SubSeq(Stream(c), m, z) \in Seq(Symbols) /\ Len(SubSeq(Stream(c), m, z)) = n
    BY <2>1, <2>2, Zenon
  <2> QED
    BY <2>3 DEF m, z
<1>7. buffer[s] \in Seq(Symbols)
  BY DEF Typed
<1> HIDE DEF piece
<1>8. buffer[s] \o piece \in Seq(Symbols) /\ Len(buffer[s] \o piece) = Len(buffer[s]) + n
  BY <1>6, <1>7, ConcatProperties
<1> QED
  BY <1>1, <1>2, <1>3, <1>4, <1>5, <1>8 DEF Collected, piece

\* The steps, one by one.
LEMMA Steps ==
  ASSUME [Next]_vars
  PROVE  \/ \E c \in Clients : Accept(c)
         \/ \E c \in Clients : Leave(c)
         \/ \E s \in Slots : Close(s)
         \/ \E s \in Slots, n \in 1..(BufferSize - 1) : Drop(s, n)
         \/ \E s \in Slots, n \in 1..(BufferSize - 1) : Cut(s, n)
         \/ UNCHANGED vars
BY DEF Next

LEMMA ResetType ==
  ASSUME Typed, NEW s \in Slots, ResetBuffer(s)
  PROVE  buffer' \in [Slots -> Seq(Symbols)] /\ \A t \in Slots : Len(buffer'[t]) < BufferSize
<1>1. <<>> \in Seq(Symbols) /\ Len(<<>>) = 0 /\ 0 < BufferSize
  BY LineFramingAssumption
<1> QED
  BY <1>1 DEF Typed, TypeOK, ResetBuffer

\* Types and slots are kept.
LEMMA TypedStep == Typed /\ [Next]_vars => Typed'
<1> SUFFICES ASSUME Typed, [Next]_vars
             PROVE  Typed'
  OBVIOUS
<1> USE DEF Typed, TypeOK
<1>1. ASSUME NEW c \in Clients, Accept(c)
      PROVE  Typed'
  <2>1. PICK s \in Slots : client[s] = NoClient /\ client' = [client EXCEPT ![s] = c] /\ ResetBuffer(s)
    BY <1>1 DEF Accept
  <2>2. UNCHANGED <<session, received, left, submitted, told>> /\ ~Connected(c)
    BY <1>1 DEF Accept
  <2>3. buffer' \in [Slots -> Seq(Symbols)] /\ \A t \in Slots : Len(buffer'[t]) < BufferSize
    BY <2>1, ResetType
  <2>4. \A b : Stream(b)' = Stream(b)
    BY <2>2, StreamStays
  <2>5. client' \in [Slots -> Clients \cup {NoClient}]
    BY <2>1
  <2>6. \A t, u \in Slots : client'[t] = client'[u] /\ client'[t] # NoClient => t = u
    BY <2>1, <2>2 DEF Connected
  <2> QED
    BY <2>2, <2>3, <2>4, <2>5, <2>6
<1>2. ASSUME NEW c \in Clients, Leave(c)
      PROVE  Typed'
  <2>1. UNCHANGED <<client, buffer, session, received, submitted, told>> /\ left' = left \cup {c}
    BY <1>2 DEF Leave
  <2>2. \A b : Stream(b)' = Stream(b)
    BY <2>1, StreamStays
  <2> QED
    BY <2>1, <2>2
<1>3. ASSUME NEW s \in Slots, Close(s)
      PROVE  Typed'
  <2>1. client' = [client EXCEPT ![s] = NoClient] /\ ResetBuffer(s)
        /\ UNCHANGED <<session, received, left, submitted, told>>
    BY <1>3 DEF Close
  <2>2. buffer' \in [Slots -> Seq(Symbols)] /\ \A t \in Slots : Len(buffer'[t]) < BufferSize
    BY <2>1, ResetType
  <2>3. \A b : Stream(b)' = Stream(b)
    BY <2>1, StreamStays
  <2>4. client' \in [Slots -> Clients \cup {NoClient}]
    BY <2>1
  <2>5. \A t, u \in Slots : client'[t] = client'[u] /\ client'[t] # NoClient => t = u
    BY <2>1
  <2> QED
    BY <2>1, <2>2, <2>3, <2>4, <2>5
<1>4. ASSUME NEW s \in Slots, NEW n \in 1..(BufferSize - 1), Drop(s, n)
      PROVE  Typed'
  <2> DEFINE c == client[s]
  <2>1. /\ Receive(s, n) /\ ResetBuffer(s) /\ told' = [told EXCEPT ![c] = TRUE]
        /\ UNCHANGED <<client, session, left, submitted>>
    BY <1>4 DEF Drop
  <2>2. /\ c \in Clients /\ received[c] + n \in 0..Len(Stream(c))
        /\ received' = [received EXCEPT ![c] = @ + n]
    BY <2>1, ReceiveEffect
  <2>3. buffer' \in [Slots -> Seq(Symbols)] /\ \A t \in Slots : Len(buffer'[t]) < BufferSize
    BY <2>1, ResetType
  <2>4. \A b : Stream(b)' = Stream(b)
    BY <2>1, StreamStays
  <2>5. received' \in [Clients -> Nat] /\ \A b \in Clients : received'[b] \in 0..Len(Stream(b))
    BY <2>2
  <2>6. told' \in [Clients -> BOOLEAN]
    BY <2>1, Zenon
  <2> QED
    BY <2>1, <2>3, <2>4, <2>5, <2>6
<1>5. ASSUME NEW s \in Slots, NEW n \in 1..(BufferSize - 1), Cut(s, n)
      PROVE  Typed'
  <2> DEFINE c == client[s]
             text == Collected(s, n)
  <2>1. Receive(s, n) /\ Fits(s, n) /\ UNCHANGED <<client, session, left>>
    BY <1>5, Zenon DEF Cut
  <2>2. /\ c \in Clients /\ received[c] + n \in 0..Len(Stream(c))
        /\ received' = [received EXCEPT ![c] = @ + n]
        /\ text \in Seq(Symbols) /\ Len(text) = Len(buffer[s]) + n
    BY <2>1, ReceiveEffect
  <2>3. told' \in [Clients -> BOOLEAN]
    BY <1>5, Zenon DEF Cut
  <2>4. PICK S \in SUBSET (1..Len(text)) :
           \E ends : \E picks \in Seq(1..Cardinality(S)) : Cuts(s, text, S, ends, picks)
    BY <1>5, <2>2, CutEffect
  <2>5. PICK ends : \E picks \in Seq(1..Cardinality(S)) : Cuts(s, text, S, ends, picks)
    BY <2>4
  <2>6. PICK picks \in Seq(1..Cardinality(S)) : Cuts(s, text, S, ends, picks)
    BY <2>5
  <2> HIDE DEF text
  <2> DEFINE N == Cardinality(S)
             lines == [i \in 1..Len(picks) |-> Line(text, ends[picks[i]], ends[picks[i] + 1])]
             rest == SubSeq(text, ends[N + 1] + 1, Len(text))
  <2>7. /\ N \in Nat /\ \A k \in 1..(N + 1) : ends[k] \in 0..Len(text)
        /\ submitted' = [submitted EXCEPT ![c] = @ \o lines]
        /\ buffer' = [buffer EXCEPT ![s] = rest]
    BY <2>6 DEF Cuts, Places
  <2>8. \A a, b \in 0..Len(text) : Line(text, a, b) \in Seq(Symbols)
    <3> SUFFICES ASSUME NEW a \in 0..Len(text), NEW b \in 0..Len(text)
                 PROVE  Line(text, a, b) \in Seq(Symbols)
      OBVIOUS
    <3>1. ASSUME NEW z \in {b - 1, b - 2}
          PROVE  SubSeq(text, a + 1, z) \in Seq(Symbols)
      <4>1. \A i \in (a + 1)..z : i \in 1..Len(text)
        BY <2>2
      <4>2. \A i \in (a + 1)..z : text[i] \in Symbols
        BY <2>2, <4>1, ElementOfSeq
      <4> QED
        BY <2>2, <4>2, SubSeqProperties
    <3> QED
      BY <3>1 DEF Line
  <2>9. lines \in Seq(Seq(Symbols))
    <3>1. \A i \in 1..Len(picks) : picks[i] \in 1..N
      BY <2>6, ElementOfSeq
    <3>2. \A i \in 1..Len(picks) : ends[picks[i]] \in 0..Len(text) /\ ends[picks[i] + 1] \in 0..Len(text)
      <4>1. \A k \in 1..N : k \in 1..(N + 1) /\ k + 1 \in 1..(N + 1)
        BY <2>7
      <4> QED
        BY <2>7, <3>1, <4>1
    <3>3. \A i \in 1..Len(picks) : lines[i] \in Seq(Symbols)
      BY <2>8, <3>2
    <3>4. Len(picks) \in Nat
      BY <2>6
    <3> DEFINE Q == Seq(Symbols)
    <3> HIDE DEF Q
    <3>5. lines \in Seq(Q)
      BY <3>3, <3>4 DEF Q
    <3> QED
      BY <3>5 DEF Q
  <2> HIDE DEF lines
  <2>10. submitted' \in [Clients -> Seq(Seq(Symbols))]
    <3>1. submitted[c] \in Seq(Seq(Symbols))
      BY <2>2
    <3>2. submitted[c] \o lines \in Seq(Seq(Symbols))
      BY <2>9, <3>1, ConcatProperties
    <3> QED
      BY <2>7, <3>2
  <2>11. rest \in Seq(Symbols) /\ Len(rest) <= Len(text)
    <3> DEFINE m == ends[N + 1] + 1
    <3>1. m \in 1..(Len(text) + 1) /\ Len(text) \in Nat
      <4>1. N + 1 \in 1..(N + 1)
        BY <2>7
      <4>2. ends[N + 1] \in 0..Len(text)
        BY <2>7, <4>1
      <4> QED
        BY <2>2, <4>2
    <3> HIDE DEF m
    <3>2. text \in Seq(Symbols) /\ m \in 1..(Len(text) + 1) /\ Len(text) \in (m - 1)..Len(text)
      BY <2>2, <3>1
    <3>3. /\ SubSeq(text, m, Len(text)) \in Seq(Symbols)
          /\ Len(SubSeq(text, m, Len(text))) = Len(text) - m + 1
      BY <3>2, PieceOf
    <3>4. Len(text) - m + 1 <= Len(text)
      BY <3>1
    <3> QED
      BY <3>3, <3>4 DEF m
  <2> HIDE DEF rest
  <2>12. Len(rest) < BufferSize
    <3>1. Len(buffer[s]) \in Nat /\ n \in Nat /\ Len(buffer[s]) + n < BufferSize
      BY <2>1, LineFramingAssumption DEF Fits
    <3>2. Len(rest) \in Nat /\ BufferSize \in Nat
      BY <2>11, LineFramingAssumption
    <3> QED
      BY <2>2, <2>11, <3>1, <3>2
  <2>13. buffer' \in [Slots -> Seq(Symbols)] /\ \A t \in Slots : Len(buffer'[t]) < BufferSize
    BY <2>7, <2>11, <2>12
  <2>14. \A b : Stream(b)' = Stream(b)
    BY <2>1, StreamStays
  <2>15. received' \in [Clients -> Nat] /\ \A b \in Clients : received'[b] \in 0..Len(Stream(b))
    BY <2>2
  <2> QED
    BY <2>1, <2>3, <2>10, <2>13, <2>14, <2>15
<1>6. CASE UNCHANGED vars
  <2>1. \A b : Stream(b)' = Stream(b)
    BY <1>6, StreamStays DEF vars
  <2> QED
    BY <1>6, <2>1 DEF vars
<1> HIDE DEF Typed, TypeOK
<1> QED
  BY <1>1, <1>2, <1>3, <1>4, <1>5, <1>6, Steps

\* A step after which a client has the same tasks, and whatever buffer it has
\* is empty or what it was.
LEMMA FramedKept ==
  ASSUME Typed, Typed', UNCHANGED session, NEW c \in Clients,
         NEW ends \in [1..Len(submitted[c]) -> 1..received[c]], Tasks(c, ends), Rest(c, ends),
         submitted'[c] = submitted[c], received[c] <= received'[c],
         \A s \in Slots : client'[s] = c =>
            \/ buffer'[s] = <<>>
            \/ client[s] = c /\ buffer'[s] = buffer[s] /\ received'[c] = received[c]
  PROVE  \E e \in [1..Len(submitted'[c]) -> 1..received'[c]] : Tasks(c, e)' /\ Rest(c, e)'
<1>1. received[c] \in Nat /\ received'[c] \in Nat
  BY DEF Typed
<1>2. \A n \in 1..Len(submitted[c]) : ends[n] \in 1..received[c]
  OBVIOUS
<1>3. ends \in [1..Len(submitted'[c]) -> 1..received'[c]]
  BY <1>1, <1>2
<1>4. Stream(c)' = Stream(c)
  BY StreamStays
<1>5. Tasks(c, ends)'
  BY <1>4 DEF Tasks
<1>6. ASSUME NEW s \in Slots, client'[s] = c
      PROVE  \E d \in 0..received'[c] :
                /\ buffer'[s] = SubSeq(Stream(c), d + 1, received'[c])
                /\ \A n \in 1..Len(submitted[c]) : ends[n] <= d
  <2>1. CASE buffer'[s] = <<>>
    <3> DEFINE d == received'[c]
    <3>1. SubSeq(Stream(c), d + 1, received'[c]) = <<>>
      BY <1>1, SubSeqEmpty
    <3>2. d \in 0..received'[c] /\ \A n \in 1..Len(submitted[c]) : ends[n] <= d
      BY <1>1, <1>2
    <3> QED
      BY <2>1, <3>1, <3>2
  <2>2. CASE client[s] = c /\ buffer'[s] = buffer[s] /\ received'[c] = received[c]
    <3>1. PICK d \in 0..received[c] :
             /\ buffer[s] = SubSeq(Stream(c), d + 1, received[c])
             /\ \A n \in 1..Len(submitted[c]) : ends[n] <= d
      BY <2>2 DEF Rest
    <3> QED
      BY <2>2, <3>1
  <2> QED
    BY <1>6, <2>1, <2>2
<1>7. Rest(c, ends)'
  BY <1>4, <1>6 DEF Rest
<1> QED
  BY <1>3, <1>5, <1>7

\* The text before Cut is the stream from where the buffer begins.
LEMMA CollectedIs ==
  ASSUME Typed, NEW s \in Slots, NEW n \in 1..(BufferSize - 1), Receive(s, n),
         NEW d \in 0..received[client[s]],
         buffer[s] = SubSeq(Stream(client[s]), d + 1, received[client[s]])
  PROVE  LET c == client[s]
             e == received[c] + n
         IN  /\ d \in 0..Len(Stream(c)) /\ e \in d..Len(Stream(c))
             /\ Collected(s, n) = SubSeq(Stream(c), d + 1, e)
             /\ Len(Collected(s, n)) = e - d
             /\ \A p \in 1..(e - d) : Collected(s, n)[p] = Stream(c)[d + p]
<1> DEFINE c == client[s]
           r == received[c]
           e == r + n
           x == Stream(c)
<1>1. /\ x \in Seq(Symbols) /\ r \in Nat /\ e \in 0..Len(x) /\ n \in Nat \ {0}
      /\ Collected(s, n) = SubSeq(x, d + 1, r) \o SubSeq(x, r + 1, e)
  BY ReceiveEffect DEF Collected
<1> HIDE DEF r, x, e
<1>2. d \in Nat /\ d <= r /\ e = r + n
  BY <1>1 DEF r, e
<1>3. Len(x) \in Nat /\ e <= Len(x)
  BY <1>1
<1>4. /\ d + 1 \in 1..(Len(x) + 1)
      /\ r \in ((d + 1) - 1)..Len(x)
      /\ e \in r..Len(x)
      /\ d \in 0..Len(x) /\ e \in d..Len(x)
  BY <1>1, <1>2, <1>3
<1>5. Collected(s, n) = SubSeq(x, d + 1, e)
  BY <1>1, <1>4, ConcatAdjacentSubSeq
<1>6. \A i \in (d + 1)..e : x[i] \in Symbols
  <2>1. (d + 1)..e \subseteq 1..Len(x)
    BY <1>4
  <2> QED
    BY <1>1, <2>1, ElementOfSeq
<1>7. /\ Len(SubSeq(x, d + 1, e)) = IF d + 1 <= e THEN e - (d + 1) + 1 ELSE 0
      /\ \A i \in 1..(e - (d + 1) + 1) : SubSeq(x, d + 1, e)[i] = x[(d + 1) + i - 1]
  BY <1>1, <1>4, <1>6, SubSeqProperties
<1>8. e - (d + 1) + 1 = e - d /\ \A i \in 1..(e - d) : (d + 1) + i - 1 = d + i
  BY <1>4
<1>9. Len(SubSeq(x, d + 1, e)) = e - d
  BY <1>4, <1>7
<1> QED
  BY <1>4, <1>5, <1>7, <1>8, <1>9 DEF r, x, e

\* The tasks and the buffer that Cut makes.
LEMMA FramedCut ==
  ASSUME Typed, NEW s \in Slots, NEW n \in 1..(BufferSize - 1), Cut(s, n),
         NEW c, c = client[s],
         NEW ends \in [1..Len(submitted[c]) -> 1..received[c]], Tasks(c, ends), Rest(c, ends)
  PROVE  \E e \in [1..Len(submitted'[c]) -> 1..received'[c]] : Tasks(c, e)' /\ Rest(c, e)'
<1> DEFINE text == Collected(s, n)
           x == Stream(c)
           r == received[c]
           done == r + n
<1>1. Receive(s, n) /\ UNCHANGED <<client, session, left>>
  BY Zenon DEF Cut
<1>2. /\ c \in Clients /\ c # NoClient
      /\ x \in Seq(Symbols) /\ received[c] \in Nat /\ done \in 0..Len(x)
      /\ received' = [received EXCEPT ![c] = @ + n] /\ n \in Nat \ {0}
      /\ text \in Seq(Symbols)
  BY <1>1, ReceiveEffect
<1>3. PICK d \in 0..r :
         /\ buffer[s] = SubSeq(x, d + 1, r)
         /\ \A k \in 1..Len(submitted[c]) : ends[k] <= d
  BY DEF Rest
<1>4. /\ d \in 0..Len(x) /\ done \in d..Len(x)
      /\ text = SubSeq(x, d + 1, done)
      /\ Len(text) = done - d
      /\ \A p \in 1..(done - d) : text[p] = x[d + p]
  BY <1>1, <1>3, CollectedIs
<1>5. PICK S \in SUBSET (1..Len(text)) :
         \E places : \E picks \in Seq(1..Cardinality(S)) : Cuts(s, text, S, places, picks)
  BY <1>2, CutEffect
<1>6. PICK places : \E picks \in Seq(1..Cardinality(S)) : Cuts(s, text, S, places, picks)
  BY <1>5
<1>7. PICK picks \in Seq(1..Cardinality(S)) : Cuts(s, text, S, places, picks)
  BY <1>6
<1> DEFINE N == Cardinality(S)
           L == Len(submitted[c])
           K == Len(picks)
           lines == [i \in 1..K |-> Line(text, places[picks[i]], places[picks[i] + 1])]
<1>8. x = Stream(c) /\ Stream(c)' = x /\ received'[c] = done /\ r = received[c]
  BY <1>1, <1>2, StreamStays DEF Typed
<1>9. r \in Nat /\ done = r + n /\ n \in Nat
  BY <1>2
<1> HIDE DEF text, x, r, done
<1>10. r \in Nat /\ d \in Nat /\ done \in Nat /\ d <= r /\ r <= done /\ done <= Len(x) /\ Len(x) \in Nat
  <2>1. Len(x) \in Nat
    BY <1>2
  <2>2. d \in 0..r /\ done \in d..Len(x)
    BY <1>3, <1>4
  <2> QED
    BY <1>9, <2>1, <2>2
<1>11. /\ \A p \in S : text[p] = NL
       /\ Places(places, text, S)
       /\ \A k \in 1..N : \A p \in (places[k] + 1)..(places[k + 1] - 1) : text[p] # NL
       /\ \A i, j \in 1..K : i < j => picks[i] < picks[j]
       /\ submitted' = [submitted EXCEPT ![c] = @ \o lines]
       /\ buffer' = [buffer EXCEPT ![s] = SubSeq(text, places[N + 1] + 1, Len(text))]
  BY <1>7 DEF Cuts
<1>12. N \in Nat /\ L \in Nat /\ K \in Nat
  <2>1. N \in Nat
    BY <1>11 DEF Places
  <2>2. submitted[c] \in Seq(Seq(Symbols))
    BY <1>2 DEF Typed
  <2>3. L \in Nat /\ K \in Nat
    BY <1>7, <2>2
  <2> QED
    BY <2>1, <2>3
<1>13. \A k \in 1..N : /\ places[k] \in 0..(done - d) /\ places[k + 1] \in (places[k] + 1)..(done - d)
                       /\ places[k + 1] \in S /\ places[k + 1] <= places[N + 1]
  <2> TAKE k \in 1..N
  <2>1. k \in 1..(N + 1) /\ k + 1 \in 1..(N + 1) /\ N + 1 \in 1..(N + 1)
    BY <1>12
  <2>2. places[k] \in 0..(done - d) /\ places[k + 1] \in 0..(done - d) /\ places[N + 1] \in 0..(done - d)
    <3>1. \A i \in 1..(N + 1) : places[i] \in 0..Len(text)
      BY <1>11, Zenon DEF Places
    <3> QED
      BY <1>4, <2>1, <3>1, Zenon
  <2>3. places[k] < places[k + 1] /\ (k + 1 = N + 1 \/ places[k + 1] < places[N + 1])
    <3>1. k < k + 1 /\ (k + 1 = N + 1 \/ k + 1 < N + 1)
      BY <1>12
    <3>2. \A i, j \in 1..(N + 1) : i < j => places[i] < places[j]
      BY <1>11, Zenon DEF Places
    <3> QED
      BY <2>1, <3>1, <3>2, Zenon
  <2>4. places[k + 1] \in S
    BY <1>11, Zenon DEF Places
  <2>5. places[k + 1] <= places[N + 1]
    BY <2>2, <2>3
  <2> QED
    BY <2>2, <2>3, <2>4, <2>5
<1>14. \A i \in 1..K : picks[i] \in 1..N
  BY <1>7, ElementOfSeq
<1> HIDE DEF N, L, K
<1>15. /\ submitted'[c] = submitted[c] \o lines
       /\ Len(submitted'[c]) = L + K
       /\ \A k \in 1..L : submitted'[c][k] = submitted[c][k]
       /\ \A i \in 1..K : submitted'[c][L + i] = lines[i]
  <2>1. submitted'[c] = submitted[c] \o lines /\ submitted[c] \in Seq(Seq(Symbols))
    BY <1>2, <1>11 DEF Typed
  <2>2. lines = [i \in 1..K |-> lines[i]]
    OBVIOUS
  <2> DEFINE old == submitted[c]
             T == Seq(Symbols)
  <2> HIDE DEF lines, old, T
  <2>3. /\ Len(old \o lines) = Len(old) + K
        /\ \A k \in 1..Len(old) : (old \o lines)[k] = old[k]
        /\ \A i \in 1..K : (old \o lines)[Len(old) + i] = lines[i]
    <3>1. old \in Seq(T)
      BY <2>1 DEF old, T
    <3> QED
      BY <1>12, <2>2, <3>1, Appended
  <2> QED
    BY <2>1, <2>3 DEF L, old
<1> DEFINE e == [k \in 1..(L + K) |-> IF k <= L THEN ends[k] ELSE d + places[picks[k - L] + 1]]
<1>16. \A k \in 1..L : e[k] = ends[k] /\ ends[k] \in 1..r /\ ends[k] <= d
  <2>1. \A k \in 1..L : k \in 1..(L + K) /\ k <= L
    BY <1>12
  <2> QED
    BY <1>3, <1>8, <2>1 DEF L
<1>17. \A i \in 1..K : e[L + i] = d + places[picks[i] + 1] /\ e[L + i] \in (d + 1)..done
  <2> TAKE i \in 1..K
  <2>1. L + i \in 1..(L + K) /\ ~(L + i <= L) /\ (L + i) - L = i
    BY <1>12
  <2> DEFINE w == places[picks[i] + 1]
  <2>2. e[L + i] = d + w
    BY <2>1
  <2>3. places[picks[i] + 1] \in 1..(done - d)
    <3>1. \A q \in 1..N : places[q + 1] \in 1..(done - d)
      <4> TAKE q \in 1..N
      <4>1. places[q] \in 0..(done - d) /\ places[q + 1] \in (places[q] + 1)..(done - d)
        BY <1>13, Zenon
      <4> DEFINE u == places[q]
                 v == places[q + 1]
      <4> HIDE DEF u, v
      <4>2. u \in 0..(done - d) /\ v \in (u + 1)..(done - d)
        BY <4>1, Zenon DEF u, v
      <4>3. v \in 1..(done - d)
        BY <1>10, <4>2
      <4> QED
        BY <4>3 DEF v
    <3> QED
      BY <1>14, <3>1, Zenon
  <2> HIDE DEF e, w
  <2>4. w \in 1..(done - d)
    BY <2>3, Zenon DEF w
  <2>5. d + w \in (d + 1)..done
    BY <1>10, <2>4
  <2> QED
    BY <2>2, <2>5, Zenon DEF w
<1>18. \A k \in 1..(L + K) : k \in 1..L \/ \E i \in 1..K : k = L + i
  <2> TAKE k \in 1..(L + K)
  <2>1. CASE k <= L
    BY <1>12, <2>1
  <2>2. CASE k > L
    <3>1. k - L \in 1..K /\ k = L + (k - L)
      BY <1>12, <2>2
    <3> QED
      BY <3>1
  <2> QED
    BY <1>12, <2>1, <2>2
<1>19. e \in [1..(L + K) -> 1..done]
  <2>1. \A k \in 1..L : e[k] \in 1..done
    <3> TAKE k \in 1..L
    <3>1. e[k] = ends[k] /\ ends[k] \in 1..r
      BY <1>16
    <3> QED
      BY <1>10, <3>1
  <2>2. \A i \in 1..K : e[L + i] \in 1..done
    <3> TAKE i \in 1..K
    <3>1. e[L + i] \in (d + 1)..done
      BY <1>17
    <3> HIDE DEF e
    <3> QED
      BY <1>10, <3>1
  <2>3. \A k \in 1..(L + K) : e[k] \in 1..done
    <3> HIDE DEF e
    <3> QED
      BY <1>18, <2>1, <2>2
  <2> QED
    BY <2>3
<1> HIDE DEF e, lines
<1>20. ASSUME NEW k \in 1..(L + K)
       PROVE  IsLine(submitted'[c][k], x, e[k])
  <2>1. CASE k \in 1..L
    BY <1>15, <1>16, <2>1 DEF Tasks, L, x
  <2>2. ASSUME NEW i \in 1..K, k = L + i
        PROVE  IsLine(submitted'[c][k], x, e[k])
    <3> DEFINE q == picks[i]
               a == places[q]
               b == places[q + 1]
    <3>1. q \in 1..N
      BY <1>14
    <3>2. submitted'[c][k] = Line(text, a, b)
      BY <1>15, <2>2 DEF lines
    <3>3. a \in 0..(done - d) /\ b \in (a + 1)..(done - d) /\ b \in S
      BY <1>13, <3>1
    <3>4. \A p \in (a + 1)..(b - 1) : text[p] # NL
      BY <1>11, <3>1 DEF N
    <3>5. text[b] = NL
      BY <1>11, <3>3
    <3>6. e[k] = d + b
      BY <1>17, <2>2
    <3> HIDE DEF a, b
    <3>7. Line(text, a, b) = Line(x, d + a, d + b)
      BY <1>2, <1>4, <3>3, LineOfPiece
    <3>8. x[d + b] = NL
      <4>1. b \in 1..(done - d)
        BY <3>3
      <4> QED
        BY <1>4, <3>5, <4>1
    <3>9. d + a \in 0..((d + b) - 1)
      BY <3>3
    <3>10. ASSUME NEW p \in ((d + a) + 1)..((d + b) - 1)
           PROVE  x[p] # NL
      <4>1. p - d \in (a + 1)..(b - 1) /\ p - d \in 1..(done - d) /\ d + (p - d) = p
        BY <1>10, <3>3, <3>9
      <4> QED
        BY <1>4, <3>4, <4>1
    <3> QED
      BY <3>2, <3>6, <3>7, <3>8, <3>9, <3>10 DEF IsLine
  <2> QED
    BY <1>18, <2>1, <2>2
<1>21. ASSUME NEW k \in 1..(L + K), NEW m \in 1..(L + K), k < m
       PROVE  e[k] < e[m]
  <2>1. CASE k \in 1..L /\ m \in 1..L
    BY <1>16, <1>21, <2>1 DEF Tasks, L
  <2>2. ASSUME k \in 1..L, NEW j \in 1..K, m = L + j
        PROVE  e[k] < e[m]
    <3>1. e[k] \in 1..r /\ e[k] <= d /\ e[m] \in (d + 1)..done
      BY <1>16, <1>17, <2>2, Zenon
    <3> DEFINE u == e[k]
               v == e[m]
    <3> HIDE DEF u, v
    <3>2. u < v
      BY <1>10, <3>1 DEF u, v
    <3> QED
      BY <3>2 DEF u, v
  <2>3. ASSUME NEW i \in 1..K, k = L + i, m \in 1..L
        PROVE  FALSE
    BY <1>12, <1>21, <2>3
  <2>4. ASSUME NEW i \in 1..K, k = L + i, NEW j \in 1..K, m = L + j
        PROVE  e[k] < e[m]
    <3>1. i < j
      BY <1>12, <1>21, <2>4
    <3>2. picks[i] < picks[j] /\ picks[i] \in 1..N /\ picks[j] \in 1..N
      BY <1>11, <1>14, <3>1 DEF K
    <3>3. picks[i] + 1 \in 1..(N + 1) /\ picks[j] + 1 \in 1..(N + 1) /\ picks[i] + 1 < picks[j] + 1
      <4> DEFINE a == picks[i]
                 b == picks[j]
      <4>1. a \in 1..N /\ b \in 1..N /\ a < b
        BY <3>2
      <4> HIDE DEF a, b
      <4>2. a + 1 \in 1..(N + 1) /\ b + 1 \in 1..(N + 1) /\ a + 1 < b + 1
        BY <1>12, <4>1
      <4> QED
        BY <4>2 DEF a, b
    <3>4. places[picks[i] + 1] < places[picks[j] + 1]
      BY <1>11, <3>3, Zenon DEF Places, N
    <3>5. places[picks[i] + 1] \in 0..(done - d) /\ places[picks[j] + 1] \in 0..(done - d)
      <4>1. \A q \in 1..N : places[q + 1] \in 0..(done - d)
        <5> TAKE q \in 1..N
        <5>1. places[q] \in 0..(done - d) /\ places[q + 1] \in (places[q] + 1)..(done - d)
          BY <1>13, Zenon
        <5> DEFINE u == places[q]
                   v == places[q + 1]
        <5> HIDE DEF u, v
        <5>2. u \in 0..(done - d) /\ v \in (u + 1)..(done - d)
          BY <5>1, Zenon DEF u, v
        <5>3. v \in 0..(done - d)
          BY <5>2
        <5> QED
          BY <5>3 DEF v
      <4> QED
        BY <3>2, <4>1
    <3>6. e[k] = d + places[picks[i] + 1] /\ e[m] = d + places[picks[j] + 1]
      BY <1>17, <2>4
    <3> DEFINE a == places[picks[i] + 1]
               b == places[picks[j] + 1]
    <3>7. a \in Int /\ b \in Int /\ a < b
      BY <1>10, <3>4, <3>5
    <3> HIDE DEF a, b
    <3>8. d + a < d + b
      BY <1>10, <3>7
    <3> QED
      BY <3>6, <3>8 DEF a, b
  <2> QED
    BY <1>18, <2>1, <2>2, <2>3, <2>4
<1> DEFINE z == d + places[N + 1]
           g == places[N + 1] + 1
<1>22. /\ places[N + 1] \in 0..(done - d)
       /\ z \in d..done /\ g \in 1..(done - d + 1) /\ d + g = z + 1
  <2>1. N + 1 \in 1..(N + 1)
    BY <1>12
  <2>2. places[N + 1] \in 0..(done - d)
    BY <1>4, <1>11, <2>1, Zenon DEF Places, N
  <2> DEFINE w == places[N + 1]
  <2> HIDE DEF w
  <2>3. w \in Int /\ 0 <= w /\ w <= done - d
    BY <1>10, <2>2 DEF w
  <2>4. /\ d + w \in d..done /\ w + 1 \in 1..(done - d + 1)
        /\ d + (w + 1) = (d + w) + 1
    BY <1>10, <2>3
  <2> QED
    BY <2>2, <2>4 DEF w
<1>23. \A k \in 1..(L + K) : e[k] <= z
  <2>1. \A k \in 1..L : e[k] <= z
    <3> TAKE k \in 1..L
    <3>1. e[k] <= d /\ e[k] \in Int
      BY <1>16, <1>10
    <3>2. z \in Int /\ d <= z
      BY <1>22, <1>10
    <3> HIDE DEF z
    <3> QED
      BY <1>10, <3>1, <3>2
  <2>2. ASSUME NEW i \in 1..K
        PROVE  e[L + i] <= z
    <3>1. places[picks[i] + 1] <= places[N + 1]
      BY <1>13, <1>14
    <3>2. places[picks[i] + 1] \in Int
      BY <1>13, <1>14, <1>10
    <3>3. e[L + i] = d + places[picks[i] + 1]
      BY <1>17
    <3>4. places[N + 1] \in Int
      BY <1>22, <1>10
    <3> QED
      BY <1>10, <3>1, <3>2, <3>3, <3>4
  <2> QED
    BY <1>18, <2>1, <2>2
<1>24. buffer'[s] = SubSeq(text, g, Len(text))
  BY <1>11 DEF Typed, N
<1>25. buffer'[s] = SubSeq(x, z + 1, done)
  <2>1. SubSeq(text, g, done - d) = SubSeq(x, z + 1, done)
    <3>1. x \in Seq(Symbols) /\ d \in 0..Len(x) /\ done \in d..Len(x)
      BY <1>2, <1>4
    <3>2. places[N + 1] \in 0..(done - d) /\ text = SubSeq(x, d + 1, done)
      BY <1>4, <1>22
    <3> HIDE DEF N
    <3> QED
      BY <3>1, <3>2, RestOfPiece
  <2> QED
    BY <1>4, <1>24, <2>1
<1> HIDE DEF z, g
<1>26. PICK f \in [1..(L + K) -> 1..done] :
          /\ \A k \in 1..(L + K) : IsLine(submitted'[c][k], x, f[k])
          /\ \A k, m \in 1..(L + K) : k < m => f[k] < f[m]
          /\ \A k \in 1..(L + K) : f[k] <= z
  BY <1>19, <1>20, <1>21, <1>23
<1>27. Len(submitted'[c]) = L + K /\ Stream(c)' = x /\ received'[c] = done
  BY <1>8, <1>15
<1>28. Tasks(c, f)'
  BY <1>26, <1>27 DEF Tasks
<1>29. Rest(c, f)'
  <2>1. \A t \in Slots : client'[t] = c => t = s
    BY <1>1, <1>2 DEF Typed
  <2>2. z \in 0..done
    BY <1>22, <1>10
  <2> QED
    BY <1>25, <1>26, <1>27, <2>1, <2>2 DEF Rest
<1>30. f \in [1..Len(submitted'[c]) -> 1..received'[c]]
  BY <1>26, <1>27
<1> QED
  BY <1>28, <1>29, <1>30, Zenon

LEMMA FramedStep == Typed /\ Typed' /\ Framed /\ [Next]_vars => Framed'
<1> SUFFICES ASSUME Typed, Typed', Framed, [Next]_vars, NEW c \in Clients
             PROVE  \E e \in [1..Len(submitted'[c]) -> 1..received'[c]] :
                       Tasks(c, e)' /\ Rest(c, e)'
  BY DEF Framed
<1>1. PICK ends \in [1..Len(submitted[c]) -> 1..received[c]] : Tasks(c, ends) /\ Rest(c, ends)
  BY DEF Framed
<1>2. received[c] \in Nat /\ c # NoClient
  <2>1. received[c] \in Nat
    BY DEF Typed
  <2>2. c # NoClient
    BY DEF Clients, NoClient
  <2> QED
    BY <2>1, <2>2
<1>3. ASSUME UNCHANGED <<session, received, submitted>>,
             \A s \in Slots : client'[s] = c =>
                buffer'[s] = <<>> \/ (client[s] = c /\ buffer'[s] = buffer[s])
      PROVE  \E e \in [1..Len(submitted'[c]) -> 1..received'[c]] : Tasks(c, e)' /\ Rest(c, e)'
  BY <1>1, <1>2, <1>3, FramedKept
<1>4. ASSUME NEW b \in Clients, Accept(b)
      PROVE  \E e \in [1..Len(submitted'[c]) -> 1..received'[c]] : Tasks(c, e)' /\ Rest(c, e)'
  <2>1. PICK s \in Slots : client' = [client EXCEPT ![s] = b] /\ ResetBuffer(s)
    BY <1>4 DEF Accept
  <2>2. UNCHANGED <<session, received, submitted>>
    BY <1>4 DEF Accept
  <2>3. \A t \in Slots : client'[t] = c =>
           buffer'[t] = <<>> \/ (client[t] = c /\ buffer'[t] = buffer[t])
    <3> SUFFICES ASSUME NEW t \in Slots, client'[t] = c
                 PROVE  buffer'[t] = <<>> \/ (client[t] = c /\ buffer'[t] = buffer[t])
      OBVIOUS
    <3>1. CASE t = s
      BY <2>1, <3>1 DEF ResetBuffer, Typed
    <3>2. CASE t # s
      BY <2>1, <3>2 DEF ResetBuffer, Typed, TypeOK
    <3> QED
      BY <3>1, <3>2
  <2> QED
    BY <1>3, <2>2, <2>3
<1>5. ASSUME NEW b \in Clients, Leave(b)
      PROVE  \E e \in [1..Len(submitted'[c]) -> 1..received'[c]] : Tasks(c, e)' /\ Rest(c, e)'
  BY <1>3, <1>5 DEF Leave
<1>6. ASSUME NEW s \in Slots, Close(s)
      PROVE  \E e \in [1..Len(submitted'[c]) -> 1..received'[c]] : Tasks(c, e)' /\ Rest(c, e)'
  <2>1. client' = [client EXCEPT ![s] = NoClient] /\ ResetBuffer(s)
        /\ UNCHANGED <<session, received, submitted>>
    BY <1>6 DEF Close
  <2>2. \A t \in Slots : client'[t] = c =>
           buffer'[t] = <<>> \/ (client[t] = c /\ buffer'[t] = buffer[t])
    BY <1>2, <2>1 DEF ResetBuffer, Typed, TypeOK
  <2> QED
    BY <1>3, <2>1, <2>2
<1>7. ASSUME NEW s \in Slots, NEW n \in 1..(BufferSize - 1), Drop(s, n)
      PROVE  \E e \in [1..Len(submitted'[c]) -> 1..received'[c]] : Tasks(c, e)' /\ Rest(c, e)'
  <2>1. Receive(s, n) /\ ResetBuffer(s) /\ UNCHANGED <<client, session, submitted>>
    BY <1>7 DEF Drop
  <2>2. /\ client[s] \in Clients /\ n \in Nat
        /\ received' = [received EXCEPT ![client[s]] = @ + n]
    BY <2>1, ReceiveEffect
  <2>3. received[c] <= received'[c] /\ (client[s] # c => received'[c] = received[c])
    BY <1>2, <2>2 DEF Typed
  <2>4. \A t \in Slots : client'[t] = c =>
           \/ buffer'[t] = <<>>
           \/ client[t] = c /\ buffer'[t] = buffer[t] /\ received'[c] = received[c]
    <3> SUFFICES ASSUME NEW t \in Slots, client'[t] = c
                 PROVE  \/ buffer'[t] = <<>>
                        \/ client[t] = c /\ buffer'[t] = buffer[t] /\ received'[c] = received[c]
      OBVIOUS
    <3>1. client[t] = c
      BY <2>1
    <3>2. CASE t = s
      BY <2>1, <3>2 DEF ResetBuffer, Typed
    <3>3. CASE t # s
      <4>1. client[s] # c
        BY <1>2, <3>1, <3>3 DEF Typed
      <4> QED
        BY <2>1, <2>3, <3>1, <3>3, <4>1 DEF ResetBuffer, Typed
    <3> QED
      BY <3>2, <3>3
  <2> QED
    BY <1>1, <2>1, <2>3, <2>4, FramedKept
<1>8. ASSUME NEW s \in Slots, NEW n \in 1..(BufferSize - 1), Cut(s, n)
      PROVE  \E e \in [1..Len(submitted'[c]) -> 1..received'[c]] : Tasks(c, e)' /\ Rest(c, e)'
  <2>1. CASE client[s] = c
    BY <1>1, <1>8, <2>1, FramedCut
  <2>2. CASE client[s] # c
    <3>1. Receive(s, n) /\ UNCHANGED <<client, session>>
      BY <1>8, Zenon DEF Cut
    <3>2. received' = [received EXCEPT ![client[s]] = @ + n] /\ client[s] \in Clients
          /\ Collected(s, n) \in Seq(Symbols)
      BY <3>1, ReceiveEffect
    <3>3. received'[c] = received[c]
      <4>1. received \in [Clients -> Nat]
        BY DEF Typed
      <4> QED
        BY <2>2, <3>2, <4>1
    <3>4. PICK new, rest, more :
             /\ submitted' = [submitted EXCEPT ![client[s]] = new]
             /\ buffer' = [buffer EXCEPT ![s] = rest]
             /\ told' = [told EXCEPT ![client[s]] = @ \/ (more = TRUE)]
      BY <1>8, CutUpdates, Zenon
    <3>5. submitted'[c] = submitted[c]
      BY <2>2, <3>4 DEF Typed
    <3>6. \A t \in Slots : client'[t] = c => client[t] = c /\ buffer'[t] = buffer[t]
      BY <2>2, <3>1, <3>4 DEF Typed
    <3> QED
      BY <1>1, <1>2, <3>1, <3>3, <3>5, <3>6, FramedKept
  <2> QED
    BY <2>1, <2>2
<1>9. CASE UNCHANGED vars
  BY <1>3, <1>9 DEF vars
<1> QED
  BY <1>4, <1>5, <1>6, <1>7, <1>8, <1>9, Steps

LEMMA Consecution == IInv /\ [Next]_vars => IInv'
BY TypedStep, FramedStep DEF IInv

\* The inductive invariant: a task is a line of its client, and the buffer
\* begins behind it, however recv cuts the stream.
THEOREM Invariant == Spec => []IInv
<1>1. Init => IInv
  BY Initially
<1>2. IInv /\ [Next]_vars => IInv'
  BY Consecution
<1> QED
  BY <1>1, <1>2, PTL DEF Spec

\* The variables keep their types, and the text in a buffer leaves room for
\* its '\0': no buffer overflows.
THEOREM TypeCorrect == Spec => []TypeOK
<1>1. IInv => TypeOK
  BY DEF IInv, Typed
<1> QED
  BY <1>1, Invariant, PTL

-----------------------------------------------------------------------------
(* What follows from it.                                                   *)

\* What ends at the same place and begins later is a suffix.
LEMMA LaterIsSuffix ==
  ASSUME NEW S, NEW s \in Seq(S), NEW a \in 0..Len(s), NEW b \in a..Len(s), NEW e \in b..Len(s)
  PROVE  IsSuffix(SubSeq(s, b + 1, e), SubSeq(s, a + 1, e))
<1> DEFINE u == SubSeq(s, b + 1, e)
           v == SubSeq(s, a + 1, e)
           ru == Reverse(u)
           rv == Reverse(v)
           n == e - b
           m == e - a
<1>1. n \in Nat /\ m \in Nat /\ n <= m /\ m <= Len(s) /\ e \in Nat /\ m <= e
  OBVIOUS
<1>2. ASSUME NEW c \in a..b
      PROVE  /\ SubSeq(s, c + 1, e) \in Seq(S)
             /\ Len(SubSeq(s, c + 1, e)) = e - c
             /\ \A i \in 1..(e - c) : SubSeq(s, c + 1, e)[i] = s[c + i]
  <2>1. c + 1 \in 1..(Len(s) + 1) /\ e \in ((c + 1) - 1)..Len(s)
    OBVIOUS
  <2>2. /\ SubSeq(s, c + 1, e) \in Seq(S)
        /\ Len(SubSeq(s, c + 1, e)) = e - (c + 1) + 1
        /\ \A i \in 1..(e - (c + 1) + 1) : SubSeq(s, c + 1, e)[i] = s[(c + 1) + i - 1]
    BY <2>1, PieceOf
  <2>3. /\ e - (c + 1) + 1 = e - c
        /\ \A i \in 1..(e - c) : (c + 1) + i - 1 = c + i
    OBVIOUS
  <2> QED
    BY <2>2, <2>3
<1>3. u \in Seq(S) /\ Len(u) = n /\ \A i \in 1..n : u[i] = s[b + i]
  BY <1>2
<1>4. v \in Seq(S) /\ Len(v) = m /\ \A i \in 1..m : v[i] = s[a + i]
  BY <1>2
<1> HIDE DEF u, v, n, m
<1>5. ru = [i \in 1..n |-> u[(n - i) + 1]]
  BY <1>3 DEF Reverse
<1>6. rv = [i \in 1..m |-> v[(m - i) + 1]]
  BY <1>4 DEF Reverse
<1> HIDE DEF ru, rv
<1>7. \A i \in 1..n : (n - i) + 1 \in 1..n /\ ru[i] = s[(e - i) + 1] /\ ru[i] \in S
  <2> TAKE i \in 1..n
  <2>1. (n - i) + 1 \in 1..n /\ b + ((n - i) + 1) = (e - i) + 1 /\ (e - i) + 1 \in 1..Len(s)
    BY <1>1 DEF n
  <2>2. ru[i] = s[(e - i) + 1]
    BY <1>3, <1>5, <2>1
  <2> QED
    BY <2>1, <2>2
<1>8. \A i \in 1..m : (m - i) + 1 \in 1..m /\ rv[i] = s[(e - i) + 1] /\ rv[i] \in S
  <2> TAKE i \in 1..m
  <2>1. (m - i) + 1 \in 1..m /\ a + ((m - i) + 1) = (e - i) + 1 /\ (e - i) + 1 \in 1..Len(s)
    BY <1>1 DEF m
  <2>2. rv[i] = s[(e - i) + 1]
    BY <1>4, <1>6, <2>1
  <2> QED
    BY <2>1, <2>2
<1>9. ru \in Seq(S) /\ Len(ru) = n
  <2>1. ru \in [1..n -> S]
    BY <1>5, <1>7
  <2> QED
    BY <1>1, <2>1
<1>10. rv \in Seq(S) /\ Len(rv) = m
  <2>1. rv \in [1..m -> S]
    BY <1>6, <1>8
  <2> QED
    BY <1>1, <2>1
<1>11. SubSeq(ru, 1, n) = ru
  BY <1>9, SubSeqFull
<1>12. /\ SubSeq(rv, 1, n) \in Seq(S) /\ Len(SubSeq(rv, 1, n)) = n
       /\ \A i \in 1..n : SubSeq(rv, 1, n)[i] = rv[i]
  <2>1. \A i \in 1..n : i \in 1..m /\ rv[i] \in S
    BY <1>1, <1>8
  <2>2. /\ SubSeq(rv, 1, n) \in Seq(S)
        /\ Len(SubSeq(rv, 1, n)) = IF 1 <= n THEN n - 1 + 1 ELSE 0
        /\ \A i \in 1..(n - 1 + 1) : SubSeq(rv, 1, n)[i] = rv[1 + i - 1]
    BY <1>1, <2>1, SubSeqProperties
  <2>3. /\ (IF 1 <= n THEN n - 1 + 1 ELSE 0) = n /\ n - 1 + 1 = n
        /\ \A i \in 1..n : 1 + i - 1 = i
    BY <1>1
  <2> QED
    BY <2>2, <2>3
<1>13. \A i \in 1..n : ru[i] = SubSeq(rv, 1, n)[i]
  BY <1>1, <1>7, <1>8, <1>12
<1>14. ru = SubSeq(rv, 1, n)
  BY <1>9, <1>12, <1>13, SeqEqual
<1>15. IsPrefix(ru, rv)
  BY <1>1, <1>9, <1>10, <1>11, <1>14 DEF IsPrefix
<1> QED
  BY <1>15 DEF IsSuffix, ru, rv, u, v

\* A line of a text, or the line and the CR that was taken from it, is a suffix
\* of what lies between two newlines.
LEMMA LineIsSuffix ==
  ASSUME NEW s \in Seq(Symbols), NEW a \in 0..Len(s), NEW e \in (a + 1)..Len(s),
         NEW b \in a..(e - 1)
  PROVE  \/ IsSuffix(Line(s, b, e), SubSeq(s, a + 1, e - 1))
         \/ IsSuffix(Line(s, b, e) \o <<CR>>, SubSeq(s, a + 1, e - 1))
<1> DEFINE f == e - 1
<1>1. /\ Len(s) \in Nat /\ f \in Nat
      /\ b \in a..Len(s) /\ f \in b..Len(s) /\ f = e - 1
  OBVIOUS
<1> HIDE DEF f
<1>2. IsSuffix(SubSeq(s, b + 1, f), SubSeq(s, a + 1, f))
  BY <1>1, LaterIsSuffix
<1>3. CASE f > b /\ s[f] = CR
  <2>1. b + 1 \in 1..Len(s) /\ f \in (b + 1)..Len(s)
    BY <1>1, <1>3
  <2>2. SubSeq(s, b + 1, f) = SubSeq(s, b + 1, f - 1) \o <<CR>>
    BY <1>3, <2>1, SubSeqRecursiveSecond
  <2>3. Line(s, b, e) = SubSeq(s, b + 1, f - 1)
    <3>1. f - 1 = e - 2
      BY <1>1
    <3> QED
      BY <1>1, <1>3, <3>1 DEF Line
  <2> QED
    BY <1>1, <1>2, <2>2, <2>3
<1>4. CASE ~(f > b /\ s[f] = CR)
  <2>1. Line(s, b, e) = SubSeq(s, b + 1, f)
    BY <1>1, <1>4 DEF Line
  <2> QED
    BY <1>1, <1>2, <2>1
<1> QED
  BY <1>3, <1>4

\* A task that is a line of a text belongs to the one line of Lines that ends
\* where it ends.
LEMMA LineBelongs ==
  ASSUME NEW text \in Seq(Symbols), NEW piece, NEW to \in 1..Len(text),
         IsLine(piece, text, to)
  PROVE  LET r == Rank({p \in DOMAIN text : text[p] = NL}, to)
         IN  /\ r \in DOMAIN Lines(text)
             /\ \/ IsSuffix(piece, Lines(text)[r])
                \/ IsSuffix(piece \o <<CR>>, Lines(text)[r])
<1> DEFINE P == {p \in DOMAIN text : text[p] = NL}
           ends == <<0>> \o Sorted(P)
           N == Cardinality(P)
           r == Rank(P, to)
           lines == Lines(text)
<1>1. PICK from \in 0..(to - 1) :
         /\ piece = Line(text, from, to)
         /\ \A p \in (from + 1)..(to - 1) : text[p] # NL
  BY DEF IsLine
<1>2. P \in SUBSET (1..Len(text)) /\ to \in P
  BY DEF IsLine
<1>3. \A p \in P : text[p] = NL
  OBVIOUS
<1>4. lines = [n \in 1..(Len(ends) - 1) |-> SubSeq(text, ends[n] + 1, ends[n + 1] - 1)]
  BY DEF Lines
<1> HIDE DEF P, lines
<1>5. Places(ends, text, P)
  BY <1>2, PlacesSorted
<1> HIDE DEF ends
<1>6. /\ N \in Nat /\ Len(ends) = N + 1
      /\ r \in 1..N /\ ends[r + 1] = to
      /\ \A n \in 1..N : ends[n + 1] \in P
      /\ \A n \in 1..(N + 1) : ends[n] \in 0..Len(text)
      /\ \A m, n \in 1..(N + 1) : m < n => ends[m] < ends[n]
      /\ ends[1] = 0
  BY <1>2, <1>5 DEF Places
<1> HIDE DEF N, r
<1>7. r \in 1..(N + 1) /\ r + 1 \in 1..(N + 1) /\ r < r + 1 /\ Len(ends) - 1 = N
  BY <1>6
<1>8. PICK a \in 0..Len(text) : a = ends[r] /\ a < to
  BY <1>6, <1>7
<1>9. a <= from
  <2> SUFFICES ASSUME from < a
               PROVE  FALSE
    BY <1>1, <1>8
  <2>1. r # 1
    BY <1>1, <1>6, <1>8
  <2>2. r - 1 \in 1..N /\ (r - 1) + 1 = r
    BY <1>6, <2>1
  <2>3. a \in P
    BY <1>6, <1>8, <2>2
  <2>4. a \in (from + 1)..(to - 1)
    BY <1>1, <1>8
  <2> QED
    BY <1>1, <1>3, <2>3, <2>4
<1>10. r \in DOMAIN lines /\ lines[r] = SubSeq(text, a + 1, to - 1)
  BY <1>4, <1>6, <1>7, <1>8
<1>11. to \in (a + 1)..Len(text) /\ from \in a..(to - 1)
  BY <1>1, <1>8, <1>9
<1>12. IsSuffix(piece, lines[r]) \/ IsSuffix(piece \o <<CR>>, lines[r])
  BY <1>1, <1>10, <1>11, LineIsSuffix
<1> QED
  BY <1>10, <1>12 DEF P, r, lines

\* Text of two lines, or of two clients, is never put together to a command.
THEOREM NothingIsGlued == Spec => []NeverGlued
<1>1. IInv => NeverGlued
  <2> SUFFICES ASSUME Typed, Framed, NEW c \in Clients
               PROVE  \E of \in [DOMAIN submitted[c] -> DOMAIN Lines(Arrived(c))] :
                         /\ \A m, n \in DOMAIN of : m < n => of[m] < of[n]
                         /\ \A n \in DOMAIN of :
                               LET line == Lines(Arrived(c))[of[n]]
                               IN  \/ IsSuffix(submitted[c][n], line)
                                   \/ IsSuffix(submitted[c][n] \o <<CR>>, line)
    BY DEF IInv, NeverGlued
  <2> DEFINE s == Stream(c)
             text == Arrived(c)
             K == Len(submitted[c])
             P == {p \in DOMAIN text : text[p] = NL}
  <2>1. PICK ends \in [1..K -> 1..received[c]] : Tasks(c, ends)
    BY DEF Framed
  <2>2. s \in Seq(Symbols) /\ received[c] \in 0..Len(s) /\ Len(s) \in Nat
    BY StreamType DEF Typed, TypeOK
  <2>3. K \in Nat /\ DOMAIN submitted[c] = 1..K
    BY DEF Typed
  <2>4. /\ text \in Seq(Symbols) /\ Len(text) = received[c]
        /\ text = SubSeq(s, 0 + 1, received[c])
        /\ \A p \in 1..received[c] : text[p] = s[p]
    <3>1. \A p \in 1..received[c] : s[p] \in Symbols
      BY <2>2, ElementOfSeq
    <3>2. /\ text \in Seq(Symbols)
          /\ Len(text) = IF 1 <= received[c] THEN received[c] - 1 + 1 ELSE 0
          /\ \A p \in 1..(received[c] - 1 + 1) : text[p] = s[1 + p - 1]
      BY <2>2, <3>1, SubSeqProperties DEF Arrived
    <3> QED
      BY <2>2, <3>2 DEF Arrived
  <2> HIDE DEF s, text, K
  <2>5. \A n \in 1..K : ends[n] \in 1..Len(text) /\ IsLine(submitted[c][n], text, ends[n])
    <3> TAKE n \in 1..K
    <3>1. ends[n] \in 1..received[c] /\ IsLine(submitted[c][n], s, ends[n])
      BY <2>1 DEF Tasks, K, s
    <3>2. PICK to \in 1..received[c] : to = ends[n]
      BY <3>1
    <3>3. PICK from \in 0..(to - 1) :
             /\ submitted[c][n] = Line(s, from, to)
             /\ \A p \in (from + 1)..(to - 1) : s[p] # NL
      BY <3>1, <3>2 DEF IsLine
    <3>4. 0 \in 0..Len(s) /\ received[c] \in 0..Len(s) /\ from \in 0..(received[c] - 0)
          /\ to \in (from + 1)..(received[c] - 0) /\ 0 + from = from /\ 0 + to = to
      BY <2>2, <3>2, <3>3
    <3>5. Line(text, from, to) = Line(s, from, to)
      BY <2>2, <2>4, <3>4, LineOfPiece
    <3>6. \A p \in (from + 1)..(to - 1) : text[p] # NL
      <4> TAKE p \in (from + 1)..(to - 1)
      <4>1. p \in 1..received[c]
        BY <2>2, <3>2, <3>3
      <4> QED
        BY <2>4, <3>3, <4>1
    <3>7. text[to] = NL
      BY <2>4, <3>1, <3>2 DEF IsLine
    <3> QED
      BY <2>4, <3>2, <3>3, <3>5, <3>6, <3>7 DEF IsLine
  <2> DEFINE of == [n \in 1..K |-> Rank(P, ends[n])]
  <2>6. \A n \in 1..K :
           /\ of[n] \in DOMAIN Lines(text)
           /\ \/ IsSuffix(submitted[c][n], Lines(text)[of[n]])
              \/ IsSuffix(submitted[c][n] \o <<CR>>, Lines(text)[of[n]])
    <3> TAKE n \in 1..K
    <3> QED
      BY <2>4, <2>5, LineBelongs
  <2>7. \A m, n \in 1..K : m < n => of[m] < of[n]
    <3> TAKE m, n \in 1..K
    <3>1. P \in SUBSET (1..Len(text))
      BY <2>4
    <3>2. IsFiniteSet(P) /\ P \subseteq Nat
      BY <2>4, <3>1, PlacesSorted
    <3>3. ends[m] \in P /\ ends[n] \in P
      BY <2>4, <2>5 DEF IsLine
    <3>4. m < n => ends[m] < ends[n]
      BY <2>1 DEF Tasks, K
    <3> QED
      BY <3>2, <3>3, <3>4, RankGrows
  <2>8. of \in [DOMAIN submitted[c] -> DOMAIN Lines(text)] /\ DOMAIN of = 1..K
    BY <2>3, <2>6
  <2> HIDE DEF of
  <2> QED
    BY <2>6, <2>7, <2>8 DEF text
<1> QED
  BY <1>1, Invariant, PTL

\* The lock fits the command: what runs under the read lock does not write, and
\* a GET or TTL runs under it, for every text a client can send.
THEOREM CommandsFitTheirLock == Spec => []LockFitsCommand
<1>1. IInv => LockFitsCommand
  <2> SUFFICES ASSUME Typed, NEW c \in Clients, NEW n \in DOMAIN submitted[c]
               PROVE  Fitting(submitted[c][n])
    BY DEF IInv, LockFitsCommand, Fitting
  <2>1. submitted[c] \in Seq(Seq(Symbols))
    BY DEF Typed
  <2>2. submitted[c][n] \in Seq(Symbols)
    BY <2>1, ElementOfSeq
  <2> QED
    BY <2>2, LinesFit
<1> QED
  BY <1>1, Invariant, PTL

-----------------------------------------------------------------------------
(* Every line arrives.                                                     *)

\* Lines put together: pos[i] is where the line i ends.
Ranges(texts, x, pos) ==
    /\ pos \in [0..Len(texts) -> 0..Len(x)]
    /\ pos[0] = 0
    /\ \A i \in 1..Len(texts) :
          /\ x[pos[i]] = NL
          /\ SubSeq(x, pos[i - 1] + 1, pos[i]) = texts[i]
          /\ pos[i] = pos[i - 1] + Len(texts[i])
    /\ \A i, j \in 0..Len(texts) : i < j => pos[i] < pos[j]
    /\ \A p \in 1..Len(x) : x[p] = NL => \E i \in 1..Len(texts) : p = pos[i]

LEMMA LinedUp ==
  ASSUME NEW texts \in Seq(Seq(Symbols)), \A i \in 1..Len(texts) : Ended(texts[i])
  PROVE  \E pos : Ranges(texts, FlattenSeq(texts), pos)
<1> DEFINE M == Len(texts)
           x == FlattenSeq(texts)
<1>1. M \in Nat /\ x \in Seq(Symbols) /\ Len(x) \in Nat
  BY FlattenType
<1>2. PICK pre : /\ pre[0] = <<>>
                 /\ x = pre[M]
                 /\ \A i \in 0..M : pre[i] \in Seq(Symbols)
                 /\ \A i \in 1..M : pre[i] = pre[i - 1] \o texts[i]
  BY FirstOnes
<1> DEFINE pos == [i \in 0..M |-> Len(pre[i])]
           len(i) == Len(texts[i])
<1>3. \A i \in 1..M : texts[i] \in Seq(Symbols) /\ len(i) \in Nat \ {0}
  <2> TAKE i \in 1..M
  <2>1. texts[i] \in Seq(Symbols)
    BY ElementOfSeq
  <2> QED
    BY <2>1, EmptySeq DEF Ended
<1>4. \A i \in 1..M : texts[i][len(i)] = NL /\ \A q \in 1..(len(i) - 1) : texts[i][q] # NL
  BY DEF Ended
<1>5. Len(texts) = M /\ FlattenSeq(texts) = x /\ \A i \in 1..M : Len(texts[i]) = len(i)
  OBVIOUS
<1> HIDE DEF M, x, len
<1>6. \A i \in 1..M : i \in 0..M /\ i - 1 \in 0..M
  BY <1>1
<1>7. \A i \in 0..M : pos[i] = Len(pre[i]) /\ pos[i] \in Nat
  BY <1>2
<1>8. pos[0] = 0 /\ pos[M] = Len(x)
  BY <1>1, <1>2
<1> HIDE DEF pos
<1>9. ASSUME NEW i \in 1..M
      PROVE  /\ pos[i] = pos[i - 1] + len(i)
             /\ \A q \in 1..pos[i - 1] : pre[i][q] = pre[i - 1][q]
             /\ \A q \in 1..len(i) : pre[i][pos[i - 1] + q] = texts[i][q]
  <2>1. /\ pre[i - 1] \in Seq(Symbols) /\ texts[i] \in Seq(Symbols)
        /\ pre[i] = pre[i - 1] \o texts[i]
        /\ pos[i - 1] = Len(pre[i - 1]) /\ pos[i] = Len(pre[i])
        /\ len(i) = Len(texts[i])
    BY <1>2, <1>3, <1>5, <1>6, <1>7
  <2> DEFINE u == pre[i - 1]
             v == texts[i]
             L == pos[i - 1]
             K == len(i)
  <2>3. pre[i] = u \o v /\ u \in Seq(Symbols) /\ v \in Seq(Symbols) /\ L = Len(u) /\ K = Len(v)
    BY <2>1, Zenon
  <2> HIDE DEF u, v, K, L
  <2>2. u \in Seq(Symbols) /\ K \in Nat /\ v = [q \in 1..K |-> v[q]] /\ L = Len(u)
    BY <2>3
  <2>4. /\ Len(u \o v) = Len(u) + K
        /\ \A q \in 1..Len(u) : (u \o v)[q] = u[q]
        /\ \A q \in 1..K : (u \o v)[Len(u) + q] = v[q]
    BY <2>2, Appended
  <2>5. pos[i] = L + K
    BY <2>1, <2>2, <2>3, <2>4
  <2>6. \A q \in 1..L : pre[i][q] = u[q]
    BY <2>2, <2>3, <2>4
  <2>7. \A q \in 1..K : pre[i][L + q] = v[q]
    BY <2>2, <2>3, <2>4
  <2> QED
    BY <2>5, <2>6, <2>7 DEF u, v, K, L
<1>10. \A i \in 0..M : pos[i] <= Len(x) /\ \A p \in 1..pos[i] : x[p] = pre[i][p]
  <2> DEFINE Good(i) == pos[i] <= Len(x) /\ \A p \in 1..pos[i] : x[p] = pre[i][p]
             Bad == {i \in 0..M : ~Good(i)}
  <2>1. Good(M)
    BY <1>1, <1>2, <1>8
  <2>2. ASSUME NEW i \in 0..M, i + 1 \in 0..M, Good(i + 1)
        PROVE  Good(i)
    <3>1. i + 1 \in 1..M /\ (i + 1) - 1 = i
      BY <1>1, <2>2
    <3>2. /\ pos[i + 1] = pos[i] + len(i + 1)
          /\ \A q \in 1..pos[i] : pre[i + 1][q] = pre[i][q]
      BY <1>9, <3>1
    <3>3. pos[i] \in Nat /\ pos[i + 1] \in Nat /\ len(i + 1) \in Nat
      BY <1>3, <1>7, <2>2, <3>1
    <3>4. pos[i] <= pos[i + 1]
      BY <3>2, <3>3
    <3>5. pos[i] <= Len(x)
      BY <1>1, <2>2, <3>3, <3>4
    <3>6. \A p \in 1..pos[i] : x[p] = pre[i][p]
      <4> TAKE p \in 1..pos[i]
      <4>1. p \in 1..pos[i + 1]
        BY <3>3, <3>4
      <4> QED
        BY <2>2, <3>2, <4>1
    <3> QED
      BY <3>5, <3>6
  <2> HIDE DEF Good
  <2>3. Bad = {}
    <3> SUFFICES ASSUME Bad # {}
                 PROVE  FALSE
      OBVIOUS
    <3>1. Bad \in SUBSET (0..M)
      OBVIOUS
    <3> HIDE DEF Bad
    <3>2. PICK i \in Bad : \A j \in Bad : j <= i
      BY <1>1, <3>1, GreatestNumber
    <3>3. i \in 0..M /\ ~Good(i) /\ i # M
      BY <2>1, <3>2 DEF Bad
    <3>4. i + 1 \in 0..M /\ ~(i + 1 <= i)
      BY <1>1, <3>3
    <3>5. Good(i + 1)
      BY <3>2, <3>4 DEF Bad
    <3> QED
      BY <2>2, <3>3, <3>4, <3>5
  <2> QED
    BY <2>3 DEF Good
<1>11. pos \in [0..M -> 0..Len(x)]
  <2>1. \A i \in 0..M : pos[i] \in 0..Len(x)
    BY <1>1, <1>7, <1>10
  <2> QED
    BY <2>1 DEF pos
<1>12. \A i \in 1..M : pos[i - 1] < pos[i] /\ pos[i - 1] \in Nat /\ pos[i] \in Nat /\ len(i) \in Nat
  <2> TAKE i \in 1..M
  <2>1. pos[i - 1] \in Nat /\ pos[i] \in Nat /\ len(i) \in Nat \ {0}
    BY <1>3, <1>6, <1>7
  <2> QED
    BY <1>9, <2>1
<1>13. ASSUME NEW i \in 1..M, NEW q \in 1..len(i)
       PROVE  /\ pos[i - 1] + q \in 1..pos[i]
              /\ x[pos[i - 1] + q] = texts[i][q]
  <2>1. pos[i - 1] + q \in 1..pos[i]
    BY <1>9, <1>12
  <2>2. x[pos[i - 1] + q] = pre[i][pos[i - 1] + q]
    <3>1. i \in 0..M
      BY <1>6
    <3> QED
      BY <1>10, <2>1, <3>1
  <2>3. pre[i][pos[i - 1] + q] = texts[i][q]
    BY <1>9
  <2> QED
    BY <2>1, <2>2, <2>3
<1>14. \A i, j \in 0..M : i < j => pos[i] < pos[j]
  <2> DEFINE Bad == {j \in 0..M : \E i \in 0..M : i < j /\ ~(pos[i] < pos[j])}
  <2>1. Bad = {}
    <3> SUFFICES ASSUME Bad # {}
                 PROVE  FALSE
      OBVIOUS
    <3>1. Bad \subseteq Nat
      BY <1>1
    <3> HIDE DEF Bad
    <3>2. PICK j \in Bad : \A k \in Bad : j <= k
      BY <3>1, LeastNumber
    <3>3. j \in 0..M /\ \E i \in 0..M : i < j /\ ~(pos[i] < pos[j])
      BY <3>2 DEF Bad
    <3>4. PICK i \in 0..M : i < j /\ ~(pos[i] < pos[j])
      BY <3>3
    <3>5. j \in 1..M /\ j - 1 \in 0..M /\ ~(j <= j - 1)
      BY <1>1, <3>3, <3>4
    <3>6. j - 1 \notin Bad
      BY <3>2, <3>5
    <3>7. i = j - 1 \/ pos[i] < pos[j - 1]
      BY <1>1, <3>4, <3>5, <3>6 DEF Bad
    <3>8. pos[j - 1] < pos[j] /\ pos[j - 1] \in Nat /\ pos[j] \in Nat /\ pos[i] \in Nat
      BY <1>7, <1>12, <3>5
    <3> QED
      BY <3>4, <3>7, <3>8
  <2> QED
    BY <2>1
<1>15. ASSUME NEW i \in 1..M
       PROVE  SubSeq(x, pos[i - 1] + 1, pos[i]) = texts[i]
  <2> DEFINE a == pos[i - 1]
             b == pos[i]
             u == SubSeq(x, a + 1, b)
             K == len(i)
  <2>1. /\ a \in Nat /\ b \in Nat /\ b = a + K /\ a < b /\ K \in Nat /\ b <= Len(x)
    BY <1>6, <1>9, <1>10, <1>12
  <2>2. \A q \in 1..K : x[a + q] = texts[i][q]
    BY <1>13
  <2>3. texts[i] \in Seq(Symbols) /\ Len(texts[i]) = K
    BY <1>3, <1>5
  <2> HIDE DEF a, b, K
  <2>4. a + 1 \in 1..(Len(x) + 1) /\ b \in ((a + 1) - 1)..Len(x)
    BY <1>1, <2>1
  <2>5. /\ u \in Seq(Symbols)
        /\ Len(u) = b - (a + 1) + 1
        /\ \A q \in 1..(b - (a + 1) + 1) : u[q] = x[(a + 1) + q - 1]
    BY <1>1, <2>4, PieceOf
  <2>6. b - (a + 1) + 1 = K /\ \A q \in 1..K : (a + 1) + q - 1 = a + q
    BY <2>1
  <2> HIDE DEF u
  <2>7. Len(u) = K /\ \A q \in 1..K : u[q] = x[a + q]
    BY <2>5, <2>6
  <2>8. u = texts[i]
    <3> DEFINE v == texts[i]
    <3>1. u \in Seq(Symbols) /\ v \in Seq(Symbols) /\ Len(u) = Len(v)
          /\ \A q \in 1..Len(u) : u[q] = v[q]
      BY <2>2, <2>3, <2>5, <2>7
    <3> HIDE DEF v
    <3>2. u = v
      BY <3>1, SeqEqual
    <3> QED
      BY <3>2 DEF v
  <2> QED
    BY <2>8 DEF a, b, u
<1>16. ASSUME NEW p \in 1..Len(x)
       PROVE  x[p] = NL <=> \E i \in 1..M : p = pos[i]
  <2> DEFINE T == {i \in 1..M : p <= pos[i]}
  <2>1. M \in T
    <3>1. M # 0
      BY <1>1, <1>8, <1>16
    <3> QED
      BY <1>1, <1>8, <3>1
  <2>2. T \subseteq Nat
    OBVIOUS
  <2> HIDE DEF T
  <2>3. PICK i \in T : \A j \in T : i <= j
    BY <2>1, <2>2, LeastNumber
  <2>4. i \in 1..M /\ p <= pos[i] /\ pos[i - 1] \in Nat /\ pos[i] \in Nat /\ i - 1 \in 0..M
    BY <1>6, <1>12, <2>3 DEF T
  <2>5. pos[i - 1] < p
    <3>1. CASE i = 1
      <4>1. i - 1 = 0
        BY <3>1
      <4> QED
        BY <1>8, <2>4, <4>1
    <3>2. CASE i # 1
      <4>1. i - 1 \in 1..M /\ ~(i <= i - 1)
        BY <1>1, <2>4, <3>2
      <4>2. i - 1 \notin T
        BY <2>3, <4>1
      <4> QED
        BY <2>4, <4>1, <4>2 DEF T
    <3> QED
      BY <3>1, <3>2
  <2> DEFINE q == p - pos[i - 1]
  <2>6. pos[i] = pos[i - 1] + len(i) /\ len(i) \in Nat
    BY <1>9, <1>12, <2>4
  <2>7. q \in 1..len(i) /\ pos[i - 1] + q = p /\ (q = len(i) <=> p = pos[i])
    BY <2>4, <2>5, <2>6
  <2> HIDE DEF q
  <2>8. x[p] = texts[i][q]
    BY <1>13, <2>4, <2>7
  <2>9. q = len(i) \/ q \in 1..(len(i) - 1)
    BY <2>6, <2>7
  <2>10. x[p] = NL => p = pos[i]
    BY <1>4, <2>4, <2>7, <2>8, <2>9
  <2>11. ASSUME NEW j \in 1..M, p = pos[j]
         PROVE  x[p] = NL
    <3>1. len(j) \in 1..len(j) /\ pos[j - 1] + len(j) = pos[j]
      BY <1>3, <1>9
    <3> QED
      BY <1>4, <1>13, <2>11, <3>1
  <2> QED
    BY <2>4, <2>10, <2>11
<1>17. \A i \in 1..M : x[pos[i]] = NL
  <2> TAKE i \in 1..M
  <2>1. pos[i] \in 1..Len(x)
    BY <1>1, <1>6, <1>10, <1>12
  <2> QED
    BY <1>16, <2>1
<1>18. Ranges(texts, x, pos)
  BY <1>5, <1>8, <1>9, <1>11, <1>14, <1>15, <1>16, <1>17 DEF Ranges
<1> QED
  BY <1>5, <1>18

\* Nothing is lost, and c was not told that it is.
Quiet(c) == ~told[c] /\ \A p \in 1..received[c] : Stream(c)[p] # NUL

\* The newlines among the first r symbols of x, in order, are at[1] to at[L].
Counts(at, L, x, r) ==
    /\ at \in [0..L -> 0..r]
    /\ at[0] = 0
    /\ \A m, n \in 0..L : m < n => at[m] < at[n]
    /\ \A n \in 1..L : x[at[n]] = NL
    /\ \A p \in 1..r : x[p] = NL => \E n \in 1..L : p = at[n]

\* The newlines of c that recv has returned are at[1], at[2] and so on; what
\* lies between two of them is a task, in order, and the buffer begins behind
\* the last of them.
Whole(c, at) ==
    /\ Counts(at, Len(submitted[c]), Stream(c), received[c])
    /\ \A n \in 1..Len(submitted[c]) : submitted[c][n] = Line(Stream(c), at[n - 1], at[n])
    /\ \A s \in Slots : client[s] = c =>
          buffer[s] = SubSeq(Stream(c), at[Len(submitted[c])] + 1, received[c])

\* A client that is not connected, and may still be, has sent nothing.
Fresh == \A c \in Clients : received[c] # 0 => Connected(c) \/ c \in left

Complete == \A c \in Clients : Quiet(c) => \E at : Whole(c, at)

LEMMA InitiallyComplete == Init => Fresh /\ Complete
<1> SUFFICES ASSUME Init, NEW c \in Clients
             PROVE  received[c] = 0 /\ \E at : Whole(c, at)
  BY DEF Fresh, Complete
<1>1. Len(submitted[c]) = 0 /\ received[c] = 0
  BY DEF Init
<1>2. \A s \in Slots : client[s] # c
  BY DEF Init, Clients, NoClient
<1> DEFINE at == [n \in 0..0 |-> 0]
<1>3. at \in [0..0 -> 0..0] /\ at[0] = 0
  OBVIOUS
<1>4. \A n \in 1..0 : FALSE
  OBVIOUS
<1>5. \A m, n \in 0..0 : ~(m < n)
  OBVIOUS
<1> HIDE DEF at
<1>6. Whole(c, at)
  BY <1>1, <1>2, <1>3, <1>4, <1>5 DEF Whole, Counts
<1> QED
  BY <1>1, <1>6

LEMMA FreshStep == Typed /\ Fresh /\ [Next]_vars => Fresh'
<1> SUFFICES ASSUME Typed, Fresh, [Next]_vars, NEW c \in Clients, received'[c] # 0
             PROVE  (\E s \in Slots : client'[s] = c) \/ c \in left'
  BY DEF Fresh, Connected
<1>1. received[c] # 0 => (\E s \in Slots : client[s] = c) \/ c \in left
  BY DEF Fresh, Connected
<1>2. ASSUME NEW b \in Clients, Accept(b)
      PROVE  (\E s \in Slots : client'[s] = c) \/ c \in left'
  <2>1. UNCHANGED <<received, left>>
    BY <1>2 DEF Accept
  <2>2. PICK t \in Slots : client[t] = NoClient /\ client' = [client EXCEPT ![t] = b]
    BY <1>2 DEF Accept
  <2>3. \A s \in Slots : client[s] = c => client'[s] = c
    BY <2>2 DEF Typed, TypeOK, Clients, NoClient
  <2> QED
    BY <1>1, <2>1, <2>3
<1>3. ASSUME NEW b \in Clients, Leave(b)
      PROVE  (\E s \in Slots : client'[s] = c) \/ c \in left'
  BY <1>1, <1>3 DEF Leave
<1>4. ASSUME NEW t \in Slots, Close(t)
      PROVE  (\E s \in Slots : client'[s] = c) \/ c \in left'
  <2>1. client[t] \in left /\ client' = [client EXCEPT ![t] = NoClient]
        /\ UNCHANGED <<received, left>>
    BY <1>4 DEF Close
  <2>2. \A s \in Slots : client[s] = c => client'[s] = c \/ c \in left
    BY <2>1 DEF Typed, TypeOK
  <2> QED
    BY <1>1, <2>1, <2>2
<1>5. ASSUME NEW t \in Slots, NEW n \in 1..(BufferSize - 1), Drop(t, n) \/ Cut(t, n)
      PROVE  (\E s \in Slots : client'[s] = c) \/ c \in left'
  <2>1. Receive(t, n) /\ UNCHANGED <<client, left>>
    BY <1>5, Zenon DEF Drop, Cut
  <2>2. received' = [received EXCEPT ![client[t]] = @ + n] /\ client[t] \in Clients
    BY <2>1, ReceiveEffect
  <2>3. CASE client[t] = c
    BY <2>1, <2>3
  <2>4. CASE client[t] # c
    <3>1. received'[c] = received[c]
      BY <2>2, <2>4 DEF Typed
    <3> QED
      BY <1>1, <2>1, <3>1
  <2> QED
    BY <2>3, <2>4
<1>6. CASE UNCHANGED vars
  BY <1>1, <1>6 DEF vars
<1> QED
  BY <1>2, <1>3, <1>4, <1>5, <1>6, Steps

\* A client for which nothing happens, or whose buffer is reset before it has
\* sent anything.
LEMMA WholeKept ==
  ASSUME Typed, UNCHANGED session, NEW c \in Clients, NEW at, Whole(c, at),
         submitted'[c] = submitted[c], received'[c] = received[c],
         \A s \in Slots : client'[s] = c =>
            \/ buffer'[s] = <<>> /\ received[c] = 0
            \/ client[s] = c /\ buffer'[s] = buffer[s]
  PROVE  Whole(c, at)'
<1>1. Stream(c)' = Stream(c)
  BY StreamStays
<1>2. ASSUME NEW s \in Slots, client'[s] = c
      PROVE  buffer'[s] = SubSeq(Stream(c), at[Len(submitted[c])] + 1, received[c])
  <2>1. CASE client[s] = c /\ buffer'[s] = buffer[s]
    BY <2>1 DEF Whole, Counts
  <2>2. CASE buffer'[s] = <<>> /\ received[c] = 0
    <3>1. Len(submitted[c]) \in 0..Len(submitted[c])
      BY DEF Typed
    <3>2. at[Len(submitted[c])] \in 0..received[c]
      <4>1. at \in [0..Len(submitted[c]) -> 0..received[c]]
        BY DEF Whole, Counts
      <4> QED
        BY <3>1, <4>1
    <3>3. at[Len(submitted[c])] = 0
      BY <2>2, <3>2
    <3>4. SubSeq(Stream(c), 0 + 1, 0) = <<>>
      BY SubSeqEmpty
    <3> QED
      BY <2>2, <3>3, <3>4
  <2> QED
    BY <1>2, <2>1, <2>2
<1> QED
  BY <1>1, <1>2 DEF Whole, Counts

\* Cut makes a task of every line whose newline recv has returned.
LEMMA WholeCut ==
  ASSUME Typed, NEW s \in Slots, NEW n \in 1..(BufferSize - 1), Cut(s, n),
         NEW c, c = client[s], NEW at, Whole(c, at), Quiet(c)'
  PROVE  \E new : Whole(c, new)'
<1> DEFINE text == Collected(s, n)
           x == Stream(c)
           r == received[c]
           done == r + n
           L == Len(submitted[c])
           d == at[L]
<1>1. Receive(s, n) /\ UNCHANGED <<client, session, left>>
  BY Zenon DEF Cut
<1>2. /\ c \in Clients /\ x \in Seq(Symbols) /\ r \in Nat /\ done \in 0..Len(x)
      /\ received' = [received EXCEPT ![c] = @ + n] /\ n \in Nat \ {0}
      /\ text \in Seq(Symbols)
  BY <1>1, ReceiveEffect
<1>3. L \in Nat
  BY <1>2 DEF Typed
<1>4. /\ at \in [0..L -> 0..r] /\ at[0] = 0
      /\ \A k, m \in 0..L : k < m => at[k] < at[m]
      /\ \A k \in 1..L : x[at[k]] = NL /\ submitted[c][k] = Line(x, at[k - 1], at[k])
      /\ \A p \in 1..r : x[p] = NL => \E k \in 1..L : p = at[k]
      /\ buffer[s] = SubSeq(x, d + 1, r)
  BY DEF Whole, Counts
<1>5. d \in 0..r
  <2>1. L \in 0..L
    BY <1>3
  <2> QED
    BY <1>4, <2>1
<1>6. /\ d \in 0..Len(x) /\ done \in d..Len(x)
      /\ text = SubSeq(x, d + 1, done)
      /\ Len(text) = done - d
      /\ \A p \in 1..(done - d) : text[p] = x[d + p]
  <2>1. d \in 0..received[client[s]]
    BY <1>5
  <2>2. buffer[s] = SubSeq(Stream(client[s]), d + 1, received[client[s]])
    BY <1>4
  <2> QED
    BY <1>1, <2>1, <2>2, CollectedIs
<1>7. PICK S \in SUBSET (1..Len(text)) :
         \E places : \E picks \in Seq(1..Cardinality(S)) : Cuts(s, text, S, places, picks)
  BY <1>2, CutEffect
<1>8. PICK places : \E picks \in Seq(1..Cardinality(S)) : Cuts(s, text, S, places, picks)
  BY <1>7
<1>9. PICK picks \in Seq(1..Cardinality(S)) : Cuts(s, text, S, places, picks)
  BY <1>8
<1>10. Stream(c)' = x /\ received'[c] = done
  BY <1>1, <1>2, StreamStays DEF Typed
<1>11. ~told'[c] /\ \A p \in 1..done : x[p] # NUL
  BY <1>10 DEF Quiet
<1>12. done = r + n
  OBVIOUS
<1> DEFINE N == Cardinality(S)
           lines == [i \in 1..Len(picks) |-> Line(text, places[picks[i]], places[picks[i] + 1])]
           made == [i \in 1..N |-> Line(text, places[i], places[i + 1])]
<1>13. /\ L = Len(submitted[c]) /\ r = received[c] /\ x = Stream(c)
  OBVIOUS
<1> HIDE DEF text, x, r, done, L, d
<1>14. /\ r \in Nat /\ d \in Nat /\ done \in Nat /\ n \in Nat /\ Len(x) \in Nat
       /\ d <= r /\ r <= done /\ done <= Len(x)
  BY <1>2, <1>5, <1>12
<1>15. /\ Places(places, text, S)
       /\ submitted' = [submitted EXCEPT ![c] = @ \o lines]
       /\ buffer' = [buffer EXCEPT ![s] = SubSeq(text, places[N + 1] + 1, Len(text))]
       /\ \A p \in S : text[p] = NL
       /\ Len(picks) = N /\ \A i \in 1..N : picks[i] = i
  BY <1>9, <1>11 DEF Cuts
<1>16. \A p \in 1..(done - d) : text[p] = NL => p \in S
  <2>1. ASSUME NEW p \in 1..Len(text)
        PROVE  text[p] # NUL
    <3>1. p \in 1..(done - d) /\ d + p \in 1..done
      BY <1>6, <1>14, <2>1
    <3> QED
      BY <1>6, <1>11, <3>1
  <2> QED
    BY <1>6, <1>9, <2>1 DEF Cuts
<1>17. lines = made /\ N \in Nat
  <2>1. N \in Nat
    BY <1>15 DEF Places
  <2> QED
    BY <1>15, <2>1
<1> HIDE DEF lines, N
<1>18. /\ \A k \in 1..(N + 1) : places[k] \in 0..(done - d)
       /\ \A k \in 1..N : places[k + 1] \in S
       /\ \A k, m \in 1..(N + 1) : k < m => places[k] < places[m]
       /\ \A p \in S : \E k \in 1..N : p = places[k + 1]
       /\ places[1] = 0
  BY <1>6, <1>15 DEF Places, N
<1>19. /\ Len(submitted'[c]) = L + N
       /\ \A k \in 1..L : submitted'[c][k] = submitted[c][k]
       /\ \A i \in 1..N : submitted'[c][L + i] = made[i]
  <2> DEFINE old == submitted[c]
             T == Seq(Symbols)
  <2>1. submitted'[c] = old \o made /\ old \in Seq(T) /\ L = Len(old)
    BY <1>2, <1>13, <1>15, <1>17 DEF Typed
  <2>2. made = [i \in 1..N |-> made[i]]
    OBVIOUS
  <2> HIDE DEF old, T, made
  <2>3. /\ Len(old \o made) = Len(old) + N
        /\ \A k \in 1..Len(old) : (old \o made)[k] = old[k]
        /\ \A i \in 1..N : (old \o made)[Len(old) + i] = made[i]
    BY <1>17, <2>1, <2>2, Appended
  <2> QED
    BY <2>1, <2>3 DEF old
<1>20. \A i \in 1..N : made[i] = Line(text, places[i], places[i + 1])
  OBVIOUS
<1> HIDE DEF made
<1> DEFINE new == [k \in 0..(L + N) |-> IF k <= L THEN at[k] ELSE d + places[(k - L) + 1]]
<1>21. \A k \in 0..L : new[k] = at[k] /\ new[k] \in 0..d
  <2> TAKE k \in 0..L
  <2>1. new[k] = at[k]
    BY <1>3, <1>17
  <2>2. at[k] \in 0..r
    BY <1>4
  <2>3. k = L \/ at[k] < at[L]
    BY <1>3, <1>4
  <2> QED
    BY <1>14, <2>1, <2>2, <2>3 DEF d
<1>22. \A i \in 0..N : new[L + i] = d + places[i + 1] /\ new[L + i] \in d..done
  <2> TAKE i \in 0..N
  <2>1. L + i \in 0..(L + N) /\ (L + i) - L = i /\ i + 1 \in 1..(N + 1) /\ (L + i <= L => i = 0)
    BY <1>3, <1>17
  <2>2. places[i + 1] \in 0..(done - d)
    BY <1>18, <2>1
  <2>3. new[L + i] = d + places[i + 1]
    <3>1. CASE i = 0
      <4>1. L + i = L /\ L <= L /\ i + 1 = 1
        BY <1>3, <3>1
      <4>2. new[L + i] = at[L]
        BY <2>1, <4>1
      <4> HIDE DEF new
      <4> QED
        BY <1>14, <1>18, <4>1, <4>2 DEF d
    <3>2. CASE i # 0
      BY <2>1, <3>2
    <3> QED
      BY <3>1, <3>2
  <2> HIDE DEF new
  <2> QED
    BY <1>14, <2>2, <2>3
<1>23. DOMAIN new = 0..(L + N)
  OBVIOUS
<1>24. new = [k \in 0..(L + N) |-> new[k]]
  OBVIOUS
<1> HIDE DEF new
<1>25. \A k \in 0..(L + N) : k \in 0..L \/ \E i \in 1..N : k = L + i
  <2> TAKE k \in 0..(L + N)
  <2>1. CASE k <= L
    BY <1>3, <2>1
  <2>2. CASE k > L
    <3>1. k - L \in 1..N /\ k = L + (k - L)
      BY <1>3, <1>17, <2>2
    <3> QED
      BY <3>1
  <2> QED
    BY <1>3, <1>17, <2>1, <2>2
<1>26. \A i \in 1..N : i \in 0..N /\ i - 1 \in 0..N /\ L + i \in 1..(L + N) /\ (L + i) - 1 = L + (i - 1)
  BY <1>3, <1>17
<1>27. new \in [0..(L + N) -> 0..done]
  <2>1. \A k \in 0..(L + N) : new[k] \in 0..done
    <3> TAKE k \in 0..(L + N)
    <3>1. CASE k \in 0..L
      <4>1. new[k] \in 0..d
        BY <1>21, <3>1
      <4> QED
        BY <1>14, <4>1
    <3>2. ASSUME NEW i \in 1..N, k = L + i
          PROVE  new[k] \in 0..done
      <4>1. new[L + i] \in d..done
        BY <1>22, <1>26
      <4> QED
        BY <1>14, <3>2, <4>1
    <3> QED
      BY <1>25, <3>1, <3>2
  <2> QED
    BY <1>24, <2>1
<1>28. new[0] = 0
  <2>1. 0 \in 0..L
    BY <1>3
  <2> QED
    BY <1>4, <1>21, <2>1
<1>29. ASSUME NEW k \in 0..(L + N), NEW m \in 0..(L + N), k < m
       PROVE  new[k] < new[m]
  <2>1. CASE k \in 0..L /\ m \in 0..L
    BY <1>4, <1>21, <1>29, <2>1
  <2>2. ASSUME k \in 0..L, NEW j \in 1..N, m = L + j
        PROVE  new[k] < new[m]
    <3>1. new[k] \in 0..d /\ new[m] = d + places[j + 1]
      BY <1>21, <1>22, <1>26, <2>2
    <3>2. 1 \in 1..(N + 1) /\ j + 1 \in 1..(N + 1) /\ 1 < j + 1
      BY <1>17
    <3>3. places[1] < places[j + 1] /\ places[j + 1] \in 0..(done - d)
      BY <1>18, <3>2
    <3>4. d + 0 < d + places[j + 1]
      <4> DEFINE b == places[j + 1]
      <4>1. b \in Int /\ 0 < b
        BY <1>14, <1>18, <3>3
      <4> HIDE DEF b
      <4>2. d + 0 < d + b
        BY <1>14, <4>1
      <4> QED
        BY <4>2 DEF b
    <3> HIDE DEF new
    <3> DEFINE u == new[k]
               v == new[m]
    <3>5. u \in 0..d /\ v \in Int /\ d + 0 < v
      BY <1>14, <3>1, <3>3, <3>4
    <3> HIDE DEF u, v
    <3>6. u < v
      BY <1>14, <3>5
    <3> QED
      BY <3>6 DEF u, v
  <2>3. ASSUME NEW i \in 1..N, k = L + i, m \in 0..L
        PROVE  FALSE
    BY <1>3, <1>29, <2>3
  <2>4. ASSUME NEW i \in 1..N, k = L + i, NEW j \in 1..N, m = L + j
        PROVE  new[k] < new[m]
    <3>1. i + 1 \in 1..(N + 1) /\ j + 1 \in 1..(N + 1) /\ i + 1 < j + 1
      BY <1>3, <1>17, <1>29, <2>4
    <3>2. places[i + 1] < places[j + 1]
      BY <1>18, <3>1
    <3>3. places[i + 1] \in 0..(done - d) /\ places[j + 1] \in 0..(done - d)
      BY <1>18, <3>1
    <3>4. new[k] = d + places[i + 1] /\ new[m] = d + places[j + 1]
      BY <1>22, <1>26, <2>4
    <3> DEFINE a == places[i + 1]
               b == places[j + 1]
    <3>5. a \in Int /\ b \in Int /\ a < b
      BY <1>14, <3>2, <3>3
    <3> HIDE DEF a, b
    <3>6. d + a < d + b
      BY <1>14, <3>5
    <3> QED
      BY <3>4, <3>6 DEF a, b
  <2> QED
    BY <1>25, <2>1, <2>2, <2>3, <2>4
<1>30. ASSUME NEW k \in 1..(L + N)
       PROVE  x[new[k]] = NL /\ submitted'[c][k] = Line(x, new[k - 1], new[k])
  <2>1. CASE k \in 0..L
    <3>1. k \in 1..L /\ k - 1 \in 0..L
      BY <1>3, <2>1
    <3> QED
      BY <1>4, <1>19, <1>21, <2>1, <3>1
  <2>2. ASSUME NEW i \in 1..N, k = L + i
        PROVE  x[new[k]] = NL /\ submitted'[c][k] = Line(x, new[k - 1], new[k])
    <3> DEFINE a == places[i]
               b == places[i + 1]
    <3>1. i \in 1..(N + 1) /\ i + 1 \in 1..(N + 1) /\ i < i + 1 /\ (i - 1) + 1 = i
      BY <1>17
    <3>2. a \in 0..(done - d) /\ b \in 0..(done - d) /\ a < b /\ b \in S
      BY <1>18, <3>1
    <3>3. new[k] = d + b
      BY <1>22, <1>26, <2>2
    <3>4. new[k - 1] = d + a
      <4>1. k - 1 = L + (i - 1) /\ i - 1 \in 0..N
        BY <1>26, <2>2
      <4> QED
        BY <1>22, <3>1, <4>1
    <3>5. submitted'[c][k] = Line(text, a, b)
      BY <1>19, <1>20, <2>2
    <3>6. text[b] = NL
      BY <1>15, <3>2
    <3> HIDE DEF a, b
    <3>7. b \in (a + 1)..(done - d) /\ b \in 1..(done - d)
      BY <1>14, <3>2
    <3>8. Line(text, a, b) = Line(x, d + a, d + b)
      BY <1>2, <1>6, <3>2, <3>7, LineOfPiece
    <3>9. x[d + b] = NL
      BY <1>6, <3>6, <3>7
    <3> QED
      BY <3>3, <3>4, <3>5, <3>8, <3>9
  <2>3. k \in 0..(L + N)
    BY <1>3, <1>17
  <2> QED
    BY <1>25, <2>1, <2>2, <2>3
<1>31. ASSUME NEW p \in 1..done, x[p] = NL
       PROVE  \E k \in 1..(L + N) : p = new[k]
  <2>1. CASE p <= r
    <3>1. p \in 1..r
      BY <1>14, <2>1
    <3>2. PICK k \in 1..L : p = at[k]
      BY <1>4, <1>31, <3>1
    <3>3. k \in 0..L /\ k \in 1..(L + N)
      BY <1>3, <1>17
    <3> QED
      BY <1>21, <3>2, <3>3
  <2>2. CASE p > r
    <3>1. p - d \in 1..(done - d) /\ d + (p - d) = p
      BY <1>14, <2>2
    <3>2. p - d \in S
      BY <1>6, <1>16, <1>31, <3>1
    <3>3. PICK i \in 1..N : p - d = places[i + 1]
      BY <1>18, <3>2
    <3>4. new[L + i] = d + (p - d) /\ L + i \in 1..(L + N)
      BY <1>22, <1>26, <3>3
    <3> QED
      BY <3>1, <3>4
  <2> QED
    BY <1>14, <2>1, <2>2
<1>32. ASSUME NEW t \in Slots, client'[t] = c
       PROVE  buffer'[t] = SubSeq(x, new[L + N] + 1, done)
  <2>1. t = s
    BY <1>1, <1>2, <1>32 DEF Typed, Clients, NoClient
  <2>2. buffer'[s] = SubSeq(text, places[N + 1] + 1, done - d)
    BY <1>6, <1>15 DEF Typed
  <2>3. N \in 0..N /\ N + 1 \in 1..(N + 1)
    BY <1>17
  <2>4. places[N + 1] \in 0..(done - d) /\ new[L + N] = d + places[N + 1]
    BY <1>18, <1>22, <2>3
  <2>5. SubSeq(text, places[N + 1] + 1, done - d) = SubSeq(x, (d + places[N + 1]) + 1, done)
    <3>1. x \in Seq(Symbols) /\ d \in 0..Len(x) /\ done \in d..Len(x)
      BY <1>2, <1>6
    <3>2. places[N + 1] \in 0..(done - d) /\ text = SubSeq(x, d + 1, done)
      BY <1>6, <2>4
    <3> QED
      BY <3>1, <3>2, RestOfPiece
  <2> QED
    BY <2>1, <2>2, <2>4, <2>5
<1>33. PICK f : f = new
  OBVIOUS
<1>34. /\ f \in [0..(L + N) -> 0..done] /\ f[0] = 0
       /\ \A k, m \in 0..(L + N) : k < m => f[k] < f[m]
       /\ \A k \in 1..(L + N) : x[f[k]] = NL /\ submitted'[c][k] = Line(x, f[k - 1], f[k])
       /\ \A p \in 1..done : x[p] = NL => \E k \in 1..(L + N) : p = f[k]
       /\ \A t \in Slots : client'[t] = c => buffer'[t] = SubSeq(x, f[L + N] + 1, done)
  BY <1>27, <1>28, <1>29, <1>30, <1>31, <1>32, <1>33
<1>35. Whole(c, f)'
  BY <1>10, <1>19, <1>34 DEF Whole, Counts
<1> QED
  BY <1>35

LEMMA CompleteStep == Typed /\ Fresh /\ Complete /\ [Next]_vars => Complete'
<1> SUFFICES ASSUME Typed, Fresh, Complete, [Next]_vars, NEW c \in Clients, Quiet(c)'
             PROVE  \E at : Whole(c, at)'
  BY DEF Complete
<1>1. c # NoClient /\ received[c] \in Nat
  <2>1. received[c] \in Nat
    BY DEF Typed
  <2>2. c # NoClient
    BY DEF Clients, NoClient
  <2> QED
    BY <2>1, <2>2
<1>2. ~told'[c] /\ \A p \in 1..received'[c] : Stream(c)'[p] # NUL
  BY DEF Quiet
<1>3. ASSUME UNCHANGED session, ~told[c], submitted'[c] = submitted[c], received'[c] = received[c],
             \A s \in Slots : client'[s] = c =>
                \/ buffer'[s] = <<>> /\ received[c] = 0
                \/ client[s] = c /\ buffer'[s] = buffer[s]
      PROVE  \E at : Whole(c, at)'
  <2>1. Quiet(c)
    BY <1>2, <1>3, StreamStays DEF Quiet
  <2>2. PICK at : Whole(c, at)
    BY <2>1 DEF Complete
  <2>3. Whole(c, at)'
    BY <1>3, <2>2, WholeKept
  <2> QED
    BY <2>3
<1>4. ASSUME NEW b \in Clients, Accept(b)
      PROVE  \E at : Whole(c, at)'
  <2>1. /\ UNCHANGED <<session, received, left, submitted, told>>
        /\ ~Connected(b) /\ b \notin left
    BY <1>4 DEF Accept
  <2>2. PICK s \in Slots : client' = [client EXCEPT ![s] = b] /\ ResetBuffer(s)
    BY <1>4 DEF Accept
  <2>3. received[b] = 0
    BY <2>1 DEF Fresh
  <2>4. \A t \in Slots : client'[t] = c =>
           \/ buffer'[t] = <<>> /\ received[c] = 0
           \/ client[t] = c /\ buffer'[t] = buffer[t]
    <3> SUFFICES ASSUME NEW t \in Slots, client'[t] = c
                 PROVE  \/ buffer'[t] = <<>> /\ received[c] = 0
                        \/ client[t] = c /\ buffer'[t] = buffer[t]
      OBVIOUS
    <3>1. CASE t = s
      BY <2>2, <2>3, <3>1 DEF ResetBuffer, Typed, TypeOK
    <3>2. CASE t # s
      BY <2>2, <3>2 DEF ResetBuffer, Typed, TypeOK
    <3> QED
      BY <3>1, <3>2
  <2> QED
    BY <1>2, <1>3, <2>1, <2>4
<1>5. ASSUME NEW b \in Clients, Leave(b)
      PROVE  \E at : Whole(c, at)'
  BY <1>2, <1>3, <1>5 DEF Leave
<1>6. ASSUME NEW s \in Slots, Close(s)
      PROVE  \E at : Whole(c, at)'
  <2>1. client' = [client EXCEPT ![s] = NoClient] /\ ResetBuffer(s)
        /\ UNCHANGED <<session, received, submitted, told>>
    BY <1>6 DEF Close
  <2>2. \A t \in Slots : client'[t] = c => client[t] = c /\ buffer'[t] = buffer[t]
    BY <1>1, <2>1 DEF ResetBuffer, Typed, TypeOK
  <2> QED
    BY <1>2, <1>3, <2>1, <2>2
<1>7. ASSUME NEW s \in Slots, NEW n \in 1..(BufferSize - 1), Drop(s, n)
      PROVE  \E at : Whole(c, at)'
  <2>1. /\ Receive(s, n) /\ ResetBuffer(s) /\ UNCHANGED <<client, session, submitted>>
        /\ told' = [told EXCEPT ![client[s]] = TRUE]
    BY <1>7 DEF Drop
  <2>2. client[s] \in Clients /\ received' = [received EXCEPT ![client[s]] = @ + n]
    BY <2>1, ReceiveEffect
  <2>3. client[s] # c
    BY <1>2, <2>1 DEF Typed, TypeOK
  <2>4. ~told[c] /\ received'[c] = received[c]
    BY <1>2, <2>1, <2>2, <2>3 DEF Typed, TypeOK
  <2>5. \A t \in Slots : client'[t] = c => client[t] = c /\ buffer'[t] = buffer[t]
    BY <2>1, <2>3 DEF ResetBuffer, Typed
  <2> QED
    BY <1>3, <2>1, <2>4, <2>5
<1>8. ASSUME NEW s \in Slots, NEW n \in 1..(BufferSize - 1), Cut(s, n)
      PROVE  \E at : Whole(c, at)'
  <2>1. Receive(s, n) /\ UNCHANGED <<client, session>>
    BY <1>8, Zenon DEF Cut
  <2>2. client[s] \in Clients /\ received' = [received EXCEPT ![client[s]] = @ + n] /\ n \in Nat
        /\ Collected(s, n) \in Seq(Symbols)
    BY <2>1, ReceiveEffect
  <2>3. PICK new, rest, more :
           /\ submitted' = [submitted EXCEPT ![client[s]] = new]
           /\ buffer' = [buffer EXCEPT ![s] = rest]
           /\ told' = [told EXCEPT ![client[s]] = @ \/ (more = TRUE)]
    BY <1>8, CutUpdates, Zenon
  <2>4. ~told[c]
    BY <1>2, <2>2, <2>3 DEF Typed, TypeOK
  <2>5. CASE client[s] = c
    <3>1. received[c] <= received'[c]
      BY <1>1, <2>2, <2>5 DEF Typed
    <3>2. \A p \in 1..received[c] : p \in 1..received'[c]
      BY <1>1, <2>2, <2>5 DEF Typed
    <3>3. Quiet(c)
      BY <1>2, <2>1, <2>4, <3>2, StreamStays DEF Quiet
    <3>4. PICK at : Whole(c, at)
      BY <3>3 DEF Complete
    <3> QED
      BY <1>8, <2>5, <3>4, WholeCut
  <2>6. CASE client[s] # c
    <3>1. received'[c] = received[c] /\ submitted'[c] = submitted[c]
      BY <2>2, <2>3, <2>6 DEF Typed
    <3>2. \A t \in Slots : client'[t] = c => client[t] = c /\ buffer'[t] = buffer[t]
      BY <2>1, <2>3, <2>6 DEF Typed
    <3> QED
      BY <1>3, <2>1, <2>4, <3>1, <3>2
  <2> QED
    BY <2>5, <2>6, Zenon
<1>9. CASE UNCHANGED vars
  BY <1>2, <1>3, <1>9 DEF vars
<1> QED
  BY <1>4, <1>5, <1>6, <1>7, <1>8, <1>9, Steps

\* Until a client is told that something is lost, or sends a NUL, nothing is:
\* its tasks are all the lines of which recv has returned the newline.
THEOREM NothingIsLost == Spec => [](Typed /\ Fresh /\ Complete)
<1>1. Init => Typed /\ Fresh /\ Complete
  BY Initially, InitiallyComplete DEF IInv
<1>2. Typed /\ Fresh /\ Complete /\ [Next]_vars => (Typed /\ Fresh /\ Complete)'
  BY TypedStep, FreshStep, CompleteStep
<1> QED
  BY <1>1, <1>2, PTL DEF Spec

\* The newlines recv has returned are the ends of the first lines.
LEMMA InOrder ==
  ASSUME NEW texts \in Seq(Seq(Symbols)), NEW x \in Seq(Symbols), NEW pos, Ranges(texts, x, pos),
         NEW r \in 0..Len(x), NEW L \in Nat, NEW at, Counts(at, L, x, r)
  PROVE  \A n \in 0..L : n \in 0..Len(texts) /\ at[n] = pos[n]
<1> DEFINE M == Len(texts)
           Good(n) == n \in 0..M /\ at[n] = pos[n]
           Bad == {n \in 0..L : ~Good(n)}
<1>1. /\ pos \in [0..M -> 0..Len(x)] /\ pos[0] = 0
      /\ \A i \in 1..M : x[pos[i]] = NL
      /\ \A i, j \in 0..M : i < j => pos[i] < pos[j]
      /\ \A p \in 1..Len(x) : x[p] = NL => \E i \in 1..M : p = pos[i]
  BY DEF Ranges
<1>2. M \in Nat /\ Len(x) \in Nat /\ r \in Nat /\ r <= Len(x)
  OBVIOUS
<1> HIDE DEF M
<1> USE DEF Counts
<1>3. Good(0)
  BY <1>1, <1>2
<1>4. ASSUME NEW n \in 1..L, Good(n - 1)
      PROVE  Good(n)
  <2>1. /\ n \in 0..L /\ n - 1 \in 0..L /\ n - 1 < n /\ n - 1 \in 0..M /\ at[n - 1] = pos[n - 1]
    BY <1>4
  <2>2. at[n - 1] < at[n] /\ at[n] \in 0..r /\ at[n - 1] \in 0..r
    BY <2>1
  <2>3. at[n] \in 1..Len(x)
    BY <1>2, <2>2
  <2>4. PICK j \in 1..M : at[n] = pos[j]
    BY <1>1, <2>3
  <2>5. j \in 0..M /\ n - 1 < j
    <3> SUFFICES ASSUME ~(n - 1 < j)
                 PROVE  FALSE
      BY <1>2
    <3>1. j \in 0..M /\ (j = n - 1 \/ j < n - 1)
      BY <1>2, <2>1
    <3>2. pos[j] <= pos[n - 1]
      <4>1. pos[j] \in 0..Len(x) /\ pos[n - 1] \in 0..Len(x)
        BY <1>1, <2>1, <3>1
      <4>2. pos[j] = pos[n - 1] \/ pos[j] < pos[n - 1]
        BY <1>1, <2>1, <3>1
      <4> QED
        BY <4>1, <4>2
    <3> QED
      BY <2>1, <2>2, <2>4, <3>2
  <2>6. n \in 0..M /\ n \in 1..M /\ (n = j \/ n < j)
    BY <1>2, <2>5
  <2>7. /\ pos[n] \in 0..Len(x) /\ pos[n - 1] \in 0..Len(x) /\ pos[j] \in 0..Len(x)
        /\ pos[n - 1] < pos[n] /\ (pos[n] = pos[j] \/ pos[n] < pos[j])
    BY <1>1, <2>1, <2>5, <2>6
  <2>8. pos[n] \in 1..r /\ x[pos[n]] = NL
    <3>1. x[pos[n]] = NL
      BY <1>1, <2>6
    <3>2. 1 <= pos[n] /\ pos[n] <= at[n] /\ at[n] <= r /\ pos[n] \in Nat
      BY <1>2, <2>2, <2>4, <2>7
    <3> QED
      BY <1>2, <2>2, <3>1, <3>2
  <2>9. PICK m \in 1..L : pos[n] = at[m]
    BY <2>8
  <2>10. m \in 0..L /\ at[m] \in 0..r /\ at[n - 1] < at[m]
    BY <2>1, <2>7, <2>9
  <2>11. ~(m < n - 1) /\ m # n - 1
    <3>1. m < n - 1 => at[m] < at[n - 1]
      BY <2>1, <2>10
    <3>2. m # n - 1
      <4> SUFFICES ASSUME m = n - 1
                   PROVE  FALSE
        OBVIOUS
      <4>1. at[m] = at[n - 1]
        OBVIOUS
      <4> QED
        BY <2>2, <2>10, <4>1
    <3>3. ~(m < n - 1)
      <4> DEFINE a == at[m]
                 b == at[n - 1]
      <4>1. a \in Int /\ b \in Int /\ b < a
        BY <2>2, <2>10
      <4>2. m < n - 1 => a < b
        BY <3>1
      <4> HIDE DEF a, b
      <4> QED
        BY <4>1, <4>2
    <3> QED
      BY <3>2, <3>3
  <2>12. m = n \/ n < m
    BY <2>1, <2>11
  <2>13. at[n] <= at[m]
    BY <2>1, <2>2, <2>10, <2>12
  <2> QED
    BY <2>2, <2>4, <2>6, <2>7, <2>9, <2>10, <2>13
<1> HIDE DEF Good
<1>5. Bad = {}
  <2> SUFFICES ASSUME Bad # {}
               PROVE  FALSE
    OBVIOUS
  <2>1. Bad \subseteq Nat
    OBVIOUS
  <2> HIDE DEF Bad
  <2>2. PICK n \in Bad : \A m \in Bad : n <= m
    BY <2>1, LeastNumber
  <2>3. n \in 0..L /\ ~Good(n)
    BY <2>2 DEF Bad
  <2>4. n \in 1..L /\ n - 1 \in 0..L /\ ~(n <= n - 1)
    BY <1>3, <2>3
  <2>5. Good(n - 1)
    BY <2>2, <2>4 DEF Bad
  <2> QED
    BY <1>4, <2>3, <2>4, <2>5
<1> QED
  BY <1>5 DEF Good, M

\* The commands of a client arrive: framing adds nothing to, and takes nothing
\* from, what parsing makes of each line alone, however the stream is cut.
THEOREM TasksArrive ==
  ASSUME \A x \in Sessions : \A c \in Clients : Understood(x[c])
  PROVE  Spec => []CommandsArrive
<1>1. ASSUME Typed, Complete, NEW c \in Clients, ~told[c], NUL \notin Range(Arrived(c))
      PROVE  /\ Len(submitted[c]) = Cardinality({p \in 1..received[c] : Stream(c)[p] = NL})
             /\ \A n \in DOMAIN submitted[c] :
                   session[c][n].means # Anything
                      => command_execute(submitted[c][n]) = session[c][n].means
  <2> DEFINE s == Stream(c)
             r == received[c]
             L == Len(submitted[c])
             P == {p \in 1..r : s[p] = NL}
             texts == [n \in DOMAIN session[c] |-> session[c][n].text]
  <2>1. /\ s \in Seq(Symbols) /\ r \in 0..Len(s) /\ r \in Nat /\ Len(s) \in Nat
        /\ L \in Nat /\ DOMAIN submitted[c] = 1..L
    <3>1. s \in Seq(Symbols)
      BY <1>1, StreamType DEF Typed
    <3>2. r \in 0..Len(s)
      BY <1>1 DEF Typed, TypeOK
    <3>3. submitted[c] \in Seq(Seq(Symbols))
      BY <1>1 DEF Typed
    <3> HIDE DEF s
    <3> QED
      BY <3>1, <3>2, <3>3
  <2>2. /\ session[c] \in Seq([text : Seq(STRING), means : Requests])
        /\ Understood(session[c])
    <3>1. session \in Sessions
      BY <1>1 DEF Typed
    <3> QED
      BY <3>1, LineFramingAssumption
  <2>3. texts \in Seq(Seq(Symbols)) /\ Len(texts) = Len(session[c])
        /\ DOMAIN session[c] = 1..Len(texts)
    <3>1. DOMAIN session[c] = 1..Len(session[c]) /\ Len(session[c]) \in Nat
      BY <2>2
    <3>2. \A n \in 1..Len(session[c]) : texts[n] \in Seq(Symbols)
      <4> TAKE n \in 1..Len(session[c])
      <4>1. session[c][n] \in [text : Seq(STRING), means : Requests]
        BY <2>2, ElementOfSeq
      <4>2. session[c][n].text \in Seq(STRING)
        BY <4>1
      <4>3. session[c][n].text \in Seq(Symbols)
        BY <4>2, SeqMonotonic DEF Symbols
      <4> QED
        BY <3>1, <4>3
    <3> DEFINE T == Seq(Symbols)
               K == Len(session[c])
    <3>3. texts = [n \in 1..K |-> texts[n]] /\ K \in Nat
      BY <3>1
    <3>4. \A n \in 1..K : texts[n] \in T
      BY <3>2
    <3> HIDE DEF texts, T, K
    <3>5. texts \in Seq(T) /\ Len(texts) = K
      BY <3>3, <3>4
    <3> QED
      BY <3>1, <3>5 DEF T, K
  <2>4. \A n \in 1..Len(texts) : Ended(texts[n])
    BY <2>2, <2>3 DEF Understood
  <2>5. s = FlattenSeq(texts)
    BY DEF Stream
  <2>6. \A n \in 1..Len(texts) : texts[n] = session[c][n].text
    BY <2>3
  <2> HIDE DEF texts
  <2>7. PICK pos : Ranges(texts, s, pos)
    BY <2>3, <2>4, <2>5, LinedUp
  <2>8. \A p \in 1..r : s[p] # NUL
    <3> SUFFICES ASSUME NEW p \in 1..r, s[p] = NUL
                 PROVE  FALSE
      OBVIOUS
    <3>1. \A q \in 1..r : s[q] \in Symbols
      BY <2>1, ElementOfSeq
    <3>2. /\ Arrived(c) \in Seq(Symbols)
          /\ Len(Arrived(c)) = IF 1 <= r THEN r - 1 + 1 ELSE 0
          /\ \A q \in 1..(r - 1 + 1) : Arrived(c)[q] = s[1 + q - 1]
      BY <2>1, <3>1, SubSeqProperties DEF Arrived
    <3>3. p \in 1..(r - 1 + 1) /\ 1 + p - 1 = p /\ p \in 1..Len(Arrived(c))
      BY <2>1, <3>2
    <3>4. Arrived(c)[p] = NUL /\ p \in DOMAIN Arrived(c)
      BY <3>2, <3>3
    <3> QED
      BY <1>1, <3>4 DEF Range
  <2>9. PICK at : Whole(c, at)
    BY <1>1, <2>8 DEF Complete, Quiet
  <2>10. /\ at \in [0..L -> 0..r] /\ at[0] = 0
         /\ \A m, n \in 0..L : m < n => at[m] < at[n]
         /\ \A n \in 1..L : s[at[n]] = NL /\ submitted[c][n] = Line(s, at[n - 1], at[n])
         /\ \A p \in 1..r : s[p] = NL => \E n \in 1..L : p = at[n]
    BY <2>9 DEF Whole, Counts
  <2> HIDE DEF s, r, L
  <2>11. \A n \in 1..L : n \in 0..L /\ n - 1 \in 0..L /\ 0 \in 0..L /\ 0 < n
    BY <2>1
  <2>12. L = Cardinality(P)
    <3> DEFINE f == [n \in 1..L |-> at[n]]
    <3>1. \A n \in 1..L : at[n] \in P
      <4> TAKE n \in 1..L
      <4>1. at[0] < at[n] /\ at[n] \in 0..r
        BY <2>10, <2>11
      <4>2. at[n] \in 1..r
        BY <2>1, <2>10, <4>1
      <4> QED
        BY <2>10, <4>2
    <3>2. \A m, n \in 1..L : at[m] = at[n] => m = n
      <4> SUFFICES ASSUME NEW m \in 1..L, NEW n \in 1..L, at[m] = at[n], m # n
                   PROVE  FALSE
        OBVIOUS
      <4>1. m < n \/ n < m
        BY <2>1
      <4>2. at[m] < at[n] \/ at[n] < at[m]
        BY <2>10, <2>11, <4>1
      <4>3. at[m] \in 0..r
        BY <2>10, <2>11
      <4> QED
        BY <1>1, <2>1, <4>2, <4>3, <4>1
    <3>3. \A p \in P : \E n \in 1..L : at[n] = p
      BY <2>10
    <3> HIDE DEF P
    <3>4. f \in Bijection(1..L, P)
      BY <3>1, <3>2, <3>3 DEF Bijection, Injection, Surjection, IsInjective
    <3>5. IsFiniteSet(1..L) /\ Cardinality(1..L) = L
      BY <2>1, FS_Interval
    <3>6. ExistsBijection(1..L, P)
      BY <3>4 DEF ExistsBijection
    <3> QED
      BY <3>5, <3>6, FS_Bijection
  <2>13. \A n \in 0..L : n \in 0..Len(texts) /\ at[n] = pos[n]
    <3>1. Counts(at, L, s, r)
      BY <2>10 DEF Counts
    <3>2. s \in Seq(Symbols) /\ texts \in Seq(Seq(Symbols)) /\ r \in 0..Len(s) /\ L \in Nat
      BY <2>1, <2>3
    <3> QED
      BY <2>7, <3>1, <3>2, InOrder
  <2>14. ASSUME NEW n \in 1..L, session[c][n].means # Anything
         PROVE  command_execute(submitted[c][n]) = session[c][n].means
    <3>1. n \in 1..Len(texts) /\ at[n] = pos[n] /\ at[n - 1] = pos[n - 1]
          /\ n \in 0..Len(texts) /\ n - 1 \in 0..Len(texts) /\ n - 1 < n
      BY <2>1, <2>3, <2>11, <2>13
    <3> DEFINE d == pos[n - 1]
               e == pos[n]
               K == Len(texts[n])
    <3>2. /\ SubSeq(s, d + 1, e) = texts[n] /\ e = d + K
          /\ d \in 0..Len(s) /\ e \in 0..Len(s) /\ d < e
      BY <2>7, <3>1 DEF Ranges
    <3>3. submitted[c][n] = Line(s, d, e)
      BY <2>10, <3>1
    <3>4. K \in Nat
      <4>1. texts[n] \in Seq(Symbols)
        BY <2>3, <3>1, ElementOfSeq
      <4> QED
        BY <4>1
    <3> HIDE DEF d, e, K
    <3>5. /\ e \in d..Len(s) /\ 0 \in 0..(e - d) /\ K \in (0 + 1)..(e - d)
          /\ d + 0 = d /\ d + K = e
      BY <2>1, <3>2, <3>4
    <3>6. Line(SubSeq(s, d + 1, e), 0, K) = Line(s, d + 0, d + K)
      BY <2>1, <3>2, <3>5, LineOfPiece
    <3>7. submitted[c][n] = Line(texts[n], 0, Len(texts[n]))
      BY <3>2, <3>3, <3>5, <3>6 DEF K
    <3> QED
      BY <2>2, <2>3, <2>6, <2>14, <3>1, <3>7 DEF Understood
  <2> QED
    BY <2>1, <2>12, <2>14 DEF L, r, s
<1>2. Typed /\ Complete => CommandsArrive
  BY <1>1 DEF CommandsArrive
<1> QED
  BY <1>2, NothingIsLost, PTL
=============================================================================

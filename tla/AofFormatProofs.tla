-------------------------- MODULE AofFormatProofs --------------------------
(***************************************************************************)
(* Proofs about AofFormat, for every text of keys and values, every log    *)
(* and every place at which its records are cut.  The loader only ever     *)
(* stands behind a newline, and only a whole record has one: so it always  *)
(* stands where a record begins, never comes past a partial record at the  *)
(* end of the file, and reads a whole one as what it was, because scanning *)
(* gives back what was printed.                                            *)
(***************************************************************************)
EXTENDS AofFormat, SharedLemmas

-----------------------------------------------------------------------------
(* What a record looks like.                                               *)

\* What the text of a record is made of, up to its newline.  (All of it are
\* strings, but the provers do not know it of literals.)
Marks == {"S", "E", "T", "D", "L", "X", "A", ":", "-", Blank}

Ink == (STRING \cup Marks \cup Digits) \ {NL}

Symbols == Ink \cup {NL}

LEMMA InkIs ==
  /\ Marks \subseteq Ink
  /\ Digits \subseteq Ink
  /\ "S" \notin Spaces /\ "D" \notin Spaces
<1>1. NL \notin Marks
  BY DEF Marks, NL, Blank
<1>2. ASSUME NEW n \in 0..9
      PROVE  Digit[n] # NL
  <2>1. Digit[n] = <<"0", "1", "2", "3", "4", "5", "6", "7", "8", "9">>[n + 1]
    BY DEF Digit
  <2>2. Digit[n] \in {"0", "1", "2", "3", "4", "5", "6", "7", "8", "9"}
    BY <2>1
  <2>3. NL \notin {"0", "1", "2", "3", "4", "5", "6", "7", "8", "9"}
    BY DEF NL
  <2> QED
    BY <2>2, <2>3, Zenon
<1>3. NL \notin Digits
  BY <1>2 DEF Digits
<1>4. "S" \notin Spaces /\ "D" \notin Spaces
  BY DEF Spaces, Blank, CR, NL
<1> QED
  BY <1>1, <1>3, <1>4 DEF Ink

\* Keys and values are ink.
LEMMA TextIsInk == \A text \in Keys \cup Values : text \in Seq(Ink)
<1> SUFFICES ASSUME NEW text \in Keys \cup Values
             PROVE  text \in Seq(Ink)
  OBVIOUS
<1>1. text \in Seq(STRING) /\ NL \notin Range(text)
  BY TextAssumption
<1>2. \A p \in 1..Len(text) : text[p] \in STRING /\ text[p] \in Range(text)
  <2>1. \A p \in 1..Len(text) : p \in DOMAIN text
    BY <1>1
  <2>2. \A p \in 1..Len(text) : text[p] \in STRING
    BY <1>1, ElementOfSeq
  <2> QED
    BY <2>1, <2>2, Zenon DEF Range
<1>3. \A p \in 1..Len(text) : text[p] \in Ink
  BY <1>1, <1>2 DEF Ink
<1>4. Len(text) \in Nat /\ text = [p \in 1..Len(text) |-> text[p]]
  BY <1>1
<1> DEFINE n == Len(text)
<1> HIDE DEF n
<1>5. [p \in 1..n |-> text[p]] \in Seq(Ink)
  BY <1>3, <1>4 DEF n
<1> QED
  BY <1>4, <1>5 DEF n

\* So is a text behind its length.
LEMMA CountedIsInk ==
  ASSUME NEW text \in Seq(Ink)
  PROVE  Counted(text) \in Seq(Ink)
<1>1. Decimal(Len(text)) \in Seq(Ink)
  <2>1. Len(text) \in Int /\ Digits \subseteq Ink /\ "-" \in Ink
    BY InkIs DEF Marks
  <2> QED
    BY <2>1, DecimalType
<1>2. <<":">> \in Seq(Ink)
  BY InkIs DEF Marks
<1> QED
  BY <1>1, <1>2, ConcatProperties DEF Counted

\* The text of a record but for its newline.
Body(key, entry) ==
    IF entry = NoEntry THEN <<"D", "E", "L", Blank>> \o Counted(key)
    ELSE <<"S", "E", "T", Blank>> \o Counted(key) \o Counted(entry.value) \o
         (IF entry.expires_at = 0 THEN <<>>
          ELSE <<Blank, "E", "X", "A", "T", Blank>> \o Decimal(entry.expires_at))

\* What is put behind a first word begins with its letter.
LEMMA Begun ==
  ASSUME NEW S, NEW w \in Seq(S), w # <<>>, NEW text \in Seq(S)
  PROVE  w \o text \in Seq(S) /\ w \o text # <<>> /\ (w \o text)[1] = w[1]
<1>1. Len(w) \in Nat \ {0} /\ Len(text) \in Nat
  BY EmptySeq
<1>2. /\ w \o text \in Seq(S) /\ Len(w \o text) = Len(w) + Len(text)
      /\ \A i \in 1..(Len(w) + Len(text)) :
            (w \o text)[i] = IF i <= Len(w) THEN w[i] ELSE text[i - Len(w)]
  BY ConcatProperties
<1>3. 1 \in 1..(Len(w) + Len(text)) /\ 1 <= Len(w)
  BY <1>1
<1>4. Len(w \o text) # 0
  BY <1>1, <1>2
<1>5. w \o text # <<>>
  BY <1>4
<1> QED
  BY <1>2, <1>3, <1>5

\* Printing puts a newline behind ink that begins with the letter of a command.
LEMMA PrintedIs ==
  ASSUME NEW key \in Keys, NEW entry \in Entry \cup {NoEntry}
  PROVE  /\ Body(key, entry) \in Seq(Ink) /\ Body(key, entry) # <<>>
         /\ Body(key, entry)[1] \in {"S", "D"}
         /\ Printed(key, entry) = Body(key, entry) \o <<NL>>
<1>1. Counted(key) \in Seq(Ink)
  BY TextIsInk, CountedIsInk
<1>2. CASE entry = NoEntry
  <2> DEFINE w == <<"D", "E", "L", Blank>>
  <2>1. w \in Seq(Ink) /\ w # <<>> /\ w[1] = "D"
    BY InkIs DEF Marks
  <2> HIDE DEF w
  <2>2. w \o Counted(key) \in Seq(Ink) /\ w \o Counted(key) # <<>> /\ (w \o Counted(key))[1] = w[1]
    BY <1>1, <2>1, Begun
  <2>3. Body(key, entry) = w \o Counted(key) /\ Printed(key, entry) = (w \o Counted(key)) \o <<NL>>
    BY <1>2, Zenon DEF Body, Printed, w
  <2>4. "D" \in {"S", "D"}
    OBVIOUS
  <2> QED
    BY <2>1, <2>2, <2>3, <2>4, Zenon
<1>3. CASE entry # NoEntry
  <2> DEFINE w == <<"S", "E", "T", Blank>>
             k == Counted(key)
             v == Counted(entry.value)
             x == IF entry.expires_at = 0 THEN <<>>
                  ELSE <<Blank, "E", "X", "A", "T", Blank>> \o Decimal(entry.expires_at)
  <2>1. w \in Seq(Ink) /\ w # <<>> /\ w[1] = "S"
    BY InkIs DEF Marks
  <2>2. entry.value \in Values /\ entry.expires_at \in Int
    BY <1>3 DEF Entry
  <2>3. v \in Seq(Ink)
    BY <2>2, TextIsInk, CountedIsInk
  <2>4. x \in Seq(Ink)
    <3>1. <<Blank, "E", "X", "A", "T", Blank>> \in Seq(Ink) /\ <<>> \in Seq(Ink)
      BY InkIs DEF Marks
    <3>2. Digits \subseteq Ink /\ "-" \in Ink
      BY InkIs DEF Marks
    <3>3. Decimal(entry.expires_at) \in Seq(Ink)
      BY <2>2, <3>2, DecimalType
    <3> QED
      BY <3>1, <3>3, ConcatProperties
  <2>5. Body(key, entry) = ((w \o k) \o v) \o x /\ Printed(key, entry) = (((w \o k) \o v) \o x) \o <<NL>>
    BY <1>3, Zenon DEF Body, Printed
  <2>6. k \in Seq(Ink)
    BY <1>1
  <2> HIDE DEF w, k, v, x
  <2>7. w \o k \in Seq(Ink) /\ w \o k # <<>> /\ (w \o k)[1] = w[1]
    BY <2>1, <2>6, Begun
  <2>8. (w \o k) \o v \in Seq(Ink) /\ (w \o k) \o v # <<>> /\ ((w \o k) \o v)[1] = (w \o k)[1]
    BY <2>3, <2>7, Begun
  <2>9. /\ ((w \o k) \o v) \o x \in Seq(Ink) /\ ((w \o k) \o v) \o x # <<>>
        /\ (((w \o k) \o v) \o x)[1] = ((w \o k) \o v)[1]
    BY <2>4, <2>8, Begun
  <2>10. "S" \in {"S", "D"}
    OBVIOUS
  <2> QED
    BY <2>1, <2>5, <2>7, <2>8, <2>9, <2>10, Zenon
<1> QED
  BY <1>2, <1>3

\* What was written of a record: it begins with a letter, and its only newline
\* is the end of a whole one.
LEMMA TextOfIs ==
  ASSUME NEW r \in Written
  PROVE  /\ TextOf(r) \in Seq(Symbols)
         /\ Len(TextOf(r)) = r.size /\ r.size \in Nat \ {0}
         /\ TextOf(r)[1] \in {"S", "D"}
         /\ \A i \in 1..r.size : TextOf(r)[i] = NL => i = r.size /\ Whole(r)
         /\ Whole(r) => TextOf(r) = Printed(r.key, r.entry)
<1> DEFINE body == Body(r.key, r.entry)
           text == Printed(r.key, r.entry)
           n == r.size
<1>1. /\ r.key \in Keys /\ r.entry \in Entry \cup {NoEntry}
      /\ n \in Nat \ {0} /\ n <= Len(text)
  BY DEF Written
<1>2. /\ body \in Seq(Ink) /\ body # <<>>
      /\ body[1] \in {"S", "D"}
      /\ text = body \o <<NL>>
  BY <1>1, PrintedIs
<1>3. TextOf(r) = SubSeq(text, 1, n) /\ (Whole(r) <=> n = Len(text))
  BY Zenon DEF TextOf, Whole
<1> HIDE DEF body, text, n
<1> DEFINE L == Len(body)
<1>4. L \in Nat \ {0}
  BY <1>2, EmptySeq
<1>5. \A i \in 1..L : body[i] \in Ink /\ body[i] # NL
  BY <1>2, ElementOfSeq DEF Ink
<1>6. \A i \in 1..L : body[i] \in Symbols
  BY <1>5, Zenon DEF Symbols
<1>7. body \in Seq(Symbols)
  <2>1. body = [i \in 1..L |-> body[i]]
    BY <1>2
  <2> HIDE DEF L
  <2>2. [i \in 1..L |-> body[i]] \in Seq(Symbols)
    BY <1>4, <1>6
  <2> QED
    BY <2>1, <2>2
<1>8. <<NL>> \in Seq(Symbols) /\ Len(<<NL>>) = 1
  BY DEF Symbols
<1>9. /\ text \in Seq(Symbols) /\ Len(text) = L + 1
      /\ \A i \in 1..L : text[i] = body[i]
  <2>1. /\ text \in Seq(Symbols) /\ Len(text) = L + 1
        /\ \A i \in 1..(L + 1) : text[i] = IF i <= L THEN body[i] ELSE <<NL>>[i - L]
    BY <1>2, <1>7, <1>8, ConcatProperties
  <2>2. \A i \in 1..L : i \in 1..(L + 1) /\ i <= L
    BY <1>4
  <2> HIDE DEF L
  <2> QED
    BY <2>1, <2>2
<1> HIDE DEF L
<1>10. /\ TextOf(r) \in Seq(Symbols) /\ Len(TextOf(r)) = n
       /\ \A i \in 1..n : TextOf(r)[i] = text[i]
  <2>1. 1 \in 1..(Len(text) + 1) /\ n \in (1 - 1)..Len(text)
    BY <1>1, <1>4, <1>9
  <2>2. /\ TextOf(r) \in Seq(Symbols) /\ Len(TextOf(r)) = n - 1 + 1
        /\ \A i \in 1..(n - 1 + 1) : TextOf(r)[i] = text[1 + i - 1]
    BY <1>3, <1>9, <2>1, PieceOf
  <2>3. n - 1 + 1 = n /\ \A i \in 1..n : 1 + i - 1 = i
    BY <1>1
  <2> QED
    BY <2>2, <2>3
<1>11. TextOf(r)[1] \in {"S", "D"}
  <2>1. 1 \in 1..n /\ 1 \in 1..L
    BY <1>1, <1>4
  <2> QED
    BY <1>2, <1>9, <1>10, <2>1, Zenon
<1>12. ASSUME NEW i \in 1..n, TextOf(r)[i] = NL
       PROVE  i = n /\ Whole(r)
  <2>1. i \notin 1..L
    BY <1>5, <1>9, <1>10, <1>12, Zenon
  <2>2. i = n /\ n = Len(text)
    BY <1>1, <1>4, <1>9, <2>1
  <2> QED
    BY <1>3, <2>2, Zenon
<1>13. ASSUME Whole(r)
       PROVE  TextOf(r) = text
  <2>1. n = Len(text)
    BY <1>3, <1>13, Zenon
  <2> QED
    BY <1>9, <1>10, <2>1, SeqEqual
<1> QED
  BY <1>1, <1>10, <1>11, <1>12, <1>13, Zenon DEF n, text

-----------------------------------------------------------------------------
(* The file.                                                               *)

FileOf(l) == FlattenSeq([n \in DOMAIN l |-> TextOf(l[n])])

\* Where record n of l begins.
Begins(l, n) == Len(FlattenSeq([i \in 1..(n - 1) |-> TextOf(l[i])])) + 1

\* The records are in the file, one behind the other.
LEMMA Layout ==
  ASSUME NEW l \in Seq(Written)
  PROVE  /\ FileOf(l) \in Seq(Symbols)
         /\ Begins(l, 1) = 1 /\ Begins(l, Len(l) + 1) = Len(FileOf(l)) + 1
         /\ \A n \in 1..Len(l) :
               /\ l[n] \in Written /\ Begins(l, n) \in Nat \ {0}
               /\ Begins(l, n + 1) = Begins(l, n) + l[n].size
               /\ Begins(l, n + 1) <= Len(FileOf(l)) + 1
               /\ \A i \in 1..l[n].size :
                     FileOf(l)[Begins(l, n) + i - 1] = TextOf(l[n])[i]
<1> DEFINE N == Len(l)
           texts == [n \in 1..N |-> TextOf(l[n])]
<1>1. N \in Nat /\ DOMAIN l = 1..N /\ \A n \in 1..N : l[n] \in Written
  BY ElementOfSeq
<1>2. FileOf(l) = FlattenSeq(texts)
  BY <1>1, Zenon DEF FileOf
<1>3. \A n \in 1..N : texts[n] \in Seq(Symbols) /\ texts[n] = TextOf(l[n])
  BY <1>1, TextOfIs
<1>4. texts \in Seq(Seq(Symbols)) /\ Len(texts) = N
  <2> DEFINE Q == Seq(Symbols)
  <2> HIDE DEF N, Q
  <2>1. \A n \in 1..N : TextOf(l[n]) \in Q
    BY <1>1, TextOfIs DEF Q
  <2>2. texts \in Seq(Q) /\ Len(texts) = N
    BY <1>1, <2>1
  <2> QED
    BY <2>2 DEF Q
<1> HIDE DEF texts
<1> DEFINE M == Len(texts)
<1> HIDE DEF N
<1>pre. PICK pre : Assembled(Symbols, texts, pre)
  BY <1>4, Concatenation
<1>5. /\ FlattenSeq(texts) = pre[M]
      /\ \A i \in 0..M :
            /\ pre[i] \in Seq(Symbols)
            /\ FlattenSeq([j \in 1..i |-> texts[j]]) = pre[i]
      /\ pre[0] = <<>>
  BY <1>pre, Zenon DEF Assembled
<1>parts. \A i \in 1..M : texts[i] \in Seq(Symbols) /\ pre[i] = pre[i - 1] \o texts[i]
  BY <1>pre, Zenon DEF Assembled
<1>places. \A n \in 1..M : \A i \in 1..Len(texts[n]) :
              /\ Len(pre[n - 1]) + i \in 1..Len(FlattenSeq(texts))
              /\ FlattenSeq(texts)[Len(pre[n - 1]) + i] = texts[n][i]
  BY <1>pre, Zenon DEF Assembled
<1>6. M = N
  BY <1>4
<1>7. ASSUME NEW n \in 0..N
      PROVE  Begins(l, n + 1) = Len(pre[n]) + 1
  <2>1. FlattenSeq([i \in 1..n |-> texts[i]]) = pre[n]
    <3>1. n \in 0..M
      BY <1>6
    <3> QED
      BY <1>5, <3>1, Zenon
  <2>2. \A i \in 1..n : i \in 1..N
    BY <1>1
  <2>3. [i \in 1..n |-> texts[i]] = [i \in 1..n |-> TextOf(l[i])]
    BY <1>3, <2>2, Zenon
  <2>4. (n + 1) - 1 = n
    BY <1>1
  <2> QED
    BY <2>1, <2>3, <2>4, Zenon DEF Begins
<1> HIDE DEF M
<1>8. FileOf(l) = pre[N] /\ FileOf(l) \in Seq(Symbols)
  <2>1. N \in 0..M
    BY <1>1, <1>6
  <2> QED
    BY <1>2, <1>5, <1>6, <2>1, Zenon
<1>9. Begins(l, 1) = 1 /\ Begins(l, N + 1) = Len(FileOf(l)) + 1
  <2>1. 0 \in 0..N /\ N \in 0..N /\ 0 + 1 = 1 /\ Len(<<>>) + 1 = 1
    BY <1>1
  <2> QED
    BY <1>5, <1>7, <1>8, <2>1, Zenon
<1>10. \A n \in 1..N : \A i \in 1..Len(texts[n]) :
          /\ Len(pre[n - 1]) + i \in 1..Len(pre[N])
          /\ pre[N][Len(pre[n - 1]) + i] = texts[n][i]
  <2> DEFINE g == FlattenSeq(texts)
  <2>1. g = pre[N] /\ \A n \in 1..N : \A i \in 1..Len(texts[n]) :
                         /\ Len(pre[n - 1]) + i \in 1..Len(g)
                         /\ g[Len(pre[n - 1]) + i] = texts[n][i]
    BY <1>5, <1>6, <1>places, Zenon
  <2> HIDE DEF g
  <2> QED
    BY <2>1, Zenon
<1>11. ASSUME NEW n \in 1..N
       PROVE  /\ Begins(l, n) \in Nat \ {0}
              /\ Begins(l, n + 1) = Begins(l, n) + l[n].size
              /\ Begins(l, n + 1) <= Len(FileOf(l)) + 1
              /\ \A i \in 1..l[n].size :
                    FileOf(l)[Begins(l, n) + i - 1] = TextOf(l[n])[i]
  <2> DEFINE u == pre[n - 1]
             t == TextOf(l[n])
             m == l[n].size
             g == FileOf(l)
  <2>1. n - 1 \in 0..N /\ n \in 0..N /\ (n - 1) + 1 = n
    BY <1>1
  <2>2. Begins(l, n) = Len(u) + 1 /\ Begins(l, n + 1) = Len(pre[n]) + 1
    BY <1>7, <2>1, Zenon
  <2>3. texts[n] = t /\ t \in Seq(Symbols) /\ Len(t) = m /\ m \in Nat \ {0}
    BY <1>1, <1>3, TextOfIs
  <2>4. u \in Seq(Symbols) /\ pre[n] = u \o t
    BY <1>5, <1>6, <1>parts, <2>1, <2>3, Zenon
  <2>5. \A i \in 1..m : Len(u) + i \in 1..Len(g) /\ g[Len(u) + i] = t[i]
    <3>1. \A i \in 1..Len(texts[n]) : /\ Len(u) + i \in 1..Len(pre[N])
                                      /\ pre[N][Len(u) + i] = texts[n][i]
      BY <1>10, Zenon
    <3>2. Len(texts[n]) = m /\ texts[n] = t /\ pre[N] = g
      BY <1>8, <2>3, Zenon
    <3> HIDE DEF u, t, m, g
    <3> QED
      BY <3>1, <3>2, Zenon
  <2> HIDE DEF u, t, m, g
  <2>6. Len(u) \in Nat /\ Len(pre[n]) = Len(u) + m
    <3>1. Len(u \o t) = Len(u) + Len(t)
      <4>1. u \in Seq(Symbols) /\ t \in Seq(Symbols)
        BY <2>3, <2>4, Zenon
      <4> QED
        BY <4>1, ConcatProperties
    <3>2. Len(u) \in Nat
      BY <2>4
    <3> QED
      BY <2>3, <2>4, <3>1, <3>2, Zenon
  <2>7. m \in 1..m /\ Len(g) \in Nat
    BY <1>8, <2>3 DEF g
  <2>8. Len(u) + m \in 1..Len(g)
    BY <2>5, <2>7, Zenon
  <2>9. \A i \in 1..m : (Len(u) + 1) + i - 1 = Len(u) + i
    BY <2>3, <2>6
  <2>10. /\ Len(u) + 1 \in Nat \ {0} /\ Len(pre[n]) + 1 = (Len(u) + 1) + m
         /\ Len(pre[n]) + 1 <= Len(g) + 1
    BY <2>3, <2>6, <2>7, <2>8
  <2>11. \A i \in 1..m : g[(Len(u) + 1) + i - 1] = t[i]
    BY <2>5, <2>9, Zenon
  <2> DEFINE a == Begins(l, n)
             e == Begins(l, n + 1)
  <2>12. a = Len(u) + 1 /\ e = Len(pre[n]) + 1
    BY <2>2
  <2> HIDE DEF a, e
  <2>13. /\ a \in Nat \ {0} /\ e = a + m /\ e <= Len(g) + 1
         /\ \A i \in 1..m : g[a + i - 1] = t[i]
    BY <2>10, <2>11, <2>12, Zenon
  <2> QED
    BY <2>13, Zenon DEF g, t, m, a, e
<1> QED
  BY <1>1, <1>8, <1>9, <1>11, Zenon DEF N

\* The last record written is the end of the file.
LEMMA FileEnds ==
  ASSUME NEW l \in Seq(Written), l # <<>>
  PROVE  \E b \in Nat :
            /\ Last(l) \in Written /\ Len(FileOf(l)) = b + Last(l).size
            /\ \A i \in 1..Last(l).size : FileOf(l)[b + i] = TextOf(Last(l))[i]
<1> DEFINE N == Len(l)
           a == Begins(l, N)
           m == l[N].size
           g == FileOf(l)
<1>1. N \in 1..N /\ Last(l) = l[N]
  BY EmptySeq DEF Last
<1>2. /\ l[N] \in Written /\ a \in Nat \ {0}
      /\ Begins(l, N + 1) = a + m /\ Begins(l, N + 1) = Len(g) + 1
      /\ \A i \in 1..m : g[a + i - 1] = TextOf(l[N])[i]
      /\ g \in Seq(Symbols)
  BY <1>1, Layout, Zenon
<1>3. m \in Nat \ {0}
  BY <1>2, TextOfIs
<1> HIDE DEF N, a, m, g
<1>4. a - 1 \in Nat /\ Len(g) = (a - 1) + m
  BY <1>2, <1>3
<1>5. \A i \in 1..m : g[(a - 1) + i] = TextOf(l[N])[i]
  <2> TAKE i \in 1..m
  <2>1. (a - 1) + i = a + i - 1
    <3>1. a \in Nat /\ i \in Int
      BY <1>2, <1>3
    <3> QED
      BY <3>1
  <2> DEFINE x == (a - 1) + i
             y == a + i - 1
  <2>2. g[y] = TextOf(l[N])[i]
    BY <1>2, Zenon
  <2>3. x = y
    BY <2>1
  <2> HIDE DEF x, y
  <2>4. g[x] = TextOf(l[N])[i]
    BY <2>2, <2>3, Zenon
  <2> QED
    BY <2>4 DEF x
<1> QED
  BY <1>1, <1>2, <1>4, <1>5, Zenon DEF g, m

\* A newline in the file is the end of a record.
LEMMA NewlineEnds ==
  ASSUME NEW l \in Seq(Written), NEW p \in 1..Len(FileOf(l)), FileOf(l)[p] = NL
  PROVE  \E n \in 2..(Len(l) + 1) : p + 1 = Begins(l, n)
<1> DEFINE N == Len(l)
           g == FileOf(l)
           T == {n \in 1..N : p < Begins(l, n + 1)}
<1>1. /\ g \in Seq(Symbols) /\ Begins(l, 1) = 1 /\ Begins(l, N + 1) = Len(g) + 1
      /\ \A n \in 1..N : /\ l[n] \in Written /\ Begins(l, n) \in Nat \ {0}
                         /\ Begins(l, n + 1) = Begins(l, n) + l[n].size
                         /\ \A i \in 1..l[n].size : g[Begins(l, n) + i - 1] = TextOf(l[n])[i]
  BY Layout, Zenon
<1>2. N \in Nat /\ Len(g) \in Nat /\ p \in 1..Len(g) /\ g[p] = NL
  BY <1>1
<1> HIDE DEF N, g
<1>3. N # 0
  <2>1. N = 0 => Begins(l, N + 1) = Begins(l, 1)
    OBVIOUS
  <2> QED
    BY <1>1, <1>2, <2>1
<1>4. N \in T
  <2>1. N \in 1..N
    BY <1>2, <1>3
  <2>2. p < Begins(l, N + 1)
    BY <1>1, <1>2
  <2> QED
    BY <2>1, <2>2, Zenon
<1>5. PICK n \in T : \A k \in T : n <= k
  <2>1. T \subseteq 1..N /\ T # {}
    BY <1>4, Zenon
  <2>2. 1..N \subseteq Nat
    BY <1>2
  <2>3. T \subseteq Nat /\ T # {}
    BY <2>1, <2>2, Zenon
  <2> HIDE DEF T
  <2> QED
    BY <2>3, LeastNumber
<1> DEFINE a == Begins(l, n)
           m == l[n].size
           t == TextOf(l[n])
<1>6. n \in 1..N /\ p < Begins(l, n + 1)
  BY <1>5
<1>7. /\ l[n] \in Written /\ a \in Nat \ {0} /\ Begins(l, n + 1) = a + m
      /\ \A i \in 1..m : g[a + i - 1] = t[i]
  BY <1>1, <1>6, Zenon
<1>8. m \in Nat \ {0} /\ \A i \in 1..m : t[i] = NL => i = m
  BY <1>7, TextOfIs
<1>9. a <= p
  <2>1. CASE n = 1
    <3>1. a = 1
      BY <1>1, <2>1
    <3> QED
      BY <1>2, <3>1
  <2>2. CASE n # 1
    <3>1. n - 1 \in 1..N /\ ~(n <= n - 1) /\ (n - 1) + 1 = n
      BY <1>2, <1>6, <2>2
    <3>2. n - 1 \notin T
      BY <1>5, <3>1, Zenon
    <3>3. ~(p < a)
      BY <3>1, <3>2
    <3> QED
      BY <1>2, <1>7, <3>3
  <2> QED
    BY <2>1, <2>2
<1> HIDE DEF a, m, t, T
<1> DEFINE i == p - a + 1
<1>10. i \in 1..m /\ a + i - 1 = p
  BY <1>2, <1>6, <1>7, <1>8, <1>9
<1>11. i = m
  BY <1>2, <1>7, <1>8, <1>10, Zenon
<1>12. p + 1 = Begins(l, n + 1)
  <2> DEFINE e == Begins(l, n + 1)
  <2>1. e = a + m /\ a \in Nat \ {0} /\ m \in Nat \ {0} /\ a + m - 1 = p
    BY <1>7, <1>8, <1>10, <1>11, Zenon
  <2> HIDE DEF e
  <2>2. p + 1 = e
    BY <2>1
  <2> QED
    BY <2>2 DEF e
<1>13. n + 1 \in 2..(N + 1)
  BY <1>2, <1>6
<1> QED
  BY <1>12, <1>13, Zenon DEF N

-----------------------------------------------------------------------------
(* Scanning: where each part of the scanner leaves the loader, when it     *)
(* succeeds.                                                               *)

Place == 1..(Len(file) + 1)

\* fgetc moves past the character it expects.
LEMMA CharMoves ==
  ASSUME file \in Seq(Symbols), NEW p \in Place \cup {Fail}, NEW c
  PROVE  /\ Char(p, c) \in Place \cup {Fail}
         /\ Char(p, c) # Fail => p \in 1..Len(file) /\ Char(p, c) = p + 1 /\ file[p] = c
<1>1. Len(file) \in Nat
  OBVIOUS
<1>2. CASE p # Fail /\ p <= Len(file) /\ file[p] = c
  <2>1. Char(p, c) = p + 1
    BY <1>2, Zenon DEF Char
  <2>2. p \in 1..Len(file) /\ p + 1 \in Place
    BY <1>1, <1>2 DEF Place
  <2> QED
    BY <1>2, <2>1, <2>2, Zenon
<1>3. CASE ~(p # Fail /\ p <= Len(file) /\ file[p] = c)
  <2>1. Char(p, c) = Fail
    BY <1>3, Zenon DEF Char
  <2> QED
    BY <2>1, Zenon
<1> QED
  BY <1>2, <1>3

\* fscanf("%ns") skips blanks; then it takes a symbol if there is one.
LEMMA WordMoves ==
  ASSUME file \in Seq(Symbols), NEW p \in Place, NEW n \in Nat \ {0}
  PROVE  LET q == FindOther(file, p, Spaces)
         IN  /\ q \in p..(Len(file) + 1)
             /\ WordEnd(p, n) \in q..(Len(file) + 1)
             /\ q <= Len(file) => WordEnd(p, n) > q
             /\ \A r \in p..(q - 1) : file[r] \in Spaces
<1> DEFINE q == FindOther(file, p, Spaces)
           e == Find(file, q, Spaces)
<1>1. Len(file) \in Nat /\ p \in 1..(Len(file) + 1)
  BY DEF Place
<1>2. /\ q \in p..(Len(file) + 1)
      /\ q <= Len(file) => file[q] \notin Spaces
      /\ \A r \in p..(q - 1) : file[r] \in Spaces
  BY <1>1, FindOtherFinds
<1> HIDE DEF q
<1>3. q \in 1..(Len(file) + 1)
  BY <1>1, <1>2
<1>4. e \in q..(Len(file) + 1) /\ (e <= Len(file) => file[e] \in Spaces)
  BY <1>1, <1>3, FindFinds
<1> HIDE DEF e
<1>5. WordEnd(p, n) = Min({e, q + n})
  BY Zenon DEF WordEnd, e, q
<1>6. e \in Int /\ q + n \in Int
  BY <1>1, <1>3, <1>4
<1>7. WordEnd(p, n) = IF e <= q + n THEN e ELSE q + n
  BY <1>5, <1>6, MinOfTwo
<1>8. q <= Len(file) => e > q
  <2> SUFFICES ASSUME q <= Len(file), ~(e > q)
               PROVE  FALSE
    OBVIOUS
  <2>1. e = q
    BY <1>1, <1>3, <1>4
  <2> QED
    BY <1>2, <1>4, <2>1
<1>9. WordEnd(p, n) \in q..(Len(file) + 1) /\ (q <= Len(file) => WordEnd(p, n) > q)
  BY <1>1, <1>3, <1>4, <1>7, <1>8
<1> QED
  BY <1>2, <1>9, Zenon DEF q

\* fscanf("%lld") takes at least one digit.
LEMMA NumberMoves ==
  ASSUME file \in Seq(Symbols), NEW p \in Place \cup {Fail}
  PROVE  /\ NumberEnd(p) \in Place \cup {Fail}
         /\ NumberEnd(p) # Fail =>
              \E start \in 1..Len(file), digits \in Place :
                 /\ NumberStart(p) = start
                 /\ digits = IF file[start] \in {"-", "+"} THEN start + 1 ELSE start
                 /\ digits < NumberEnd(p)
                 /\ \A i \in digits..(NumberEnd(p) - 1) : file[i] \in Digits
<1> DEFINE start == NumberStart(p)
           digits == IF start <= Len(file) /\ file[start] \in {"-", "+"} THEN start + 1 ELSE start
           end == FindOther(file, digits, Digits)
<1>1. Len(file) \in Nat
  OBVIOUS
<1>2. NumberEnd(p) = IF p = Fail \/ end = digits THEN Fail ELSE end
  BY Zenon DEF NumberEnd
<1>3. CASE NumberEnd(p) = Fail
  BY <1>3, Zenon
<1>4. CASE NumberEnd(p) # Fail
  <2>1. p # Fail /\ end # digits /\ NumberEnd(p) = end
    BY <1>2, <1>4, Zenon
  <2>2. p \in 1..(Len(file) + 1)
    BY <2>1 DEF Place
  <2>3. start \in p..(Len(file) + 1)
    BY <1>1, <2>2, FindOtherFinds DEF NumberStart
  <2>4. start \in 1..(Len(file) + 1)
    BY <1>1, <2>2, <2>3
  <2> HIDE DEF start
  <2>5. digits \in 1..(Len(file) + 1) /\ digits >= start
    BY <1>1, <2>4
  <2> HIDE DEF digits
  <2>6. /\ end \in digits..(Len(file) + 1)
        /\ \A i \in digits..(end - 1) : file[i] \notin Digits => FALSE
    BY <1>1, <2>5, FindOtherFinds
  <2> HIDE DEF end
  <2>7. end \in Place /\ digits < end /\ start \in 1..Len(file) /\ digits \in Place
    BY <1>1, <2>1, <2>4, <2>5, <2>6 DEF Place
  <2>8. digits = IF file[start] \in {"-", "+"} THEN start + 1 ELSE start
    <3>1. start <= Len(file)
      BY <1>1, <2>7
    <3> QED
      BY <3>1, Zenon DEF digits
  <2>9. \A i \in digits..(end - 1) : file[i] \in Digits
    BY <2>6, Zenon
  <2> QED
    BY <2>1, <2>7, <2>8, <2>9, Zenon DEF start
<1> QED
  BY <1>3, <1>4

\* What it takes is a number.
LEMMA NumberType ==
  ASSUME file \in Seq(Symbols), NEW p \in Place \cup {Fail}, NumberEnd(p) # Fail
  PROVE  Number(p) \in Int
<1> DEFINE end == NumberEnd(p)
           text == SubSeq(file, NumberStart(p), end - 1)
           spelled == IF Head(text) \in {"-", "+"} THEN Tail(text) ELSE text
           size == Value(spelled, MaxNumber)
<1>1. end \in Place
  BY NumberMoves
<1>2. PICK start \in 1..Len(file), digits \in Place :
         /\ NumberStart(p) = start
         /\ digits = IF file[start] \in {"-", "+"} THEN start + 1 ELSE start
         /\ digits < end
         /\ \A i \in digits..(end - 1) : file[i] \in Digits
  BY NumberMoves
<1>3. Number(p) = IF Head(text) = "-" THEN -size ELSE size
  BY Zenon DEF Number, end, text, spelled, size
<1> HIDE DEF end
<1>4. Len(file) \in Nat /\ start \in 1..(Len(file) + 1) /\ end - 1 \in (start - 1)..Len(file)
  BY <1>1, <1>2 DEF Place
<1>5. /\ text \in Seq(Symbols) /\ Len(text) = (end - 1) - start + 1
      /\ \A i \in 1..((end - 1) - start + 1) : text[i] = file[start + i - 1]
  <2> DEFINE e == end - 1
             s == SubSeq(file, start, e)
  <2>1. start \in 1..(Len(file) + 1) /\ e \in (start - 1)..Len(file)
    BY <1>4
  <2> HIDE DEF e
  <2>2. /\ s \in Seq(Symbols) /\ Len(s) = e - start + 1
        /\ \A i \in 1..(e - start + 1) : s[i] = file[start + i - 1]
    BY <2>1, PieceOf
  <2>3. text = s
    BY <1>2, Zenon DEF e
  <2> HIDE DEF text, s
  <2> QED
    BY <2>2, <2>3, Zenon DEF e
<1> HIDE DEF text
<1>6. /\ start \in Nat /\ end \in Nat /\ Len(text) = end - start /\ Len(text) \in Nat \ {0}
      /\ \A i \in 1..Len(text) : i + start - 1 \in start..(end - 1) /\ text[i] = file[i + start - 1]
  <2>1. start \in Nat /\ end \in Nat /\ (end - 1) - start + 1 = end - start
    BY <1>1, <1>2 DEF Place
  <2>2. start < end
    BY <1>1, <1>2 DEF Place
  <2>3. Len(text) = end - start /\ Len(text) \in Nat \ {0}
    BY <1>5, <2>1, <2>2
  <2> DEFINE L == Len(text)
  <2> HIDE DEF L
  <2>4. \A i \in 1..L : i + start - 1 = start + i - 1 /\ i + start - 1 \in start..(end - 1)
    BY <2>1, <2>3 DEF L
  <2> QED
    BY <1>5, <2>1, <2>3, <2>4 DEF L
<1>7. text # <<>> /\ Head(text) = file[start]
  <2>1. text # <<>> /\ Head(text) = text[1]
    BY <1>5, <1>6
  <2>2. 1 \in 1..Len(text) /\ 1 + start - 1 = start
    BY <1>6
  <2> QED
    BY <1>6, <2>1, <2>2
<1>8. Len(spelled) \in Nat /\ \A i \in 1..Len(spelled) : spelled[i] \in Digits
  <2>1. CASE file[start] \in {"-", "+"}
    <3> DEFINE t == Tail(text)
    <3>1. spelled = t /\ digits = start + 1
      BY <1>2, <1>7, <2>1, Zenon
    <3>2. Len(t) = Len(text) - 1 /\ \A i \in 1..Len(t) : t[i] = text[i + 1]
      BY <1>5, <1>7, HeadTailProperties
    <3> HIDE DEF t
    <3>3. ASSUME NEW i \in 1..Len(t)
          PROVE  t[i] \in Digits
      <4>1. i + 1 \in 1..Len(text) /\ (i + 1) + start - 1 \in digits..(end - 1)
        BY <1>6, <3>1, <3>2
      <4> QED
        BY <1>2, <1>6, <3>2, <4>1, Zenon
    <3>4. Len(t) \in Nat
      BY <1>6, <3>2
    <3> QED
      BY <3>1, <3>3, <3>4, Zenon
  <2>2. CASE file[start] \notin {"-", "+"}
    <3>1. spelled = text /\ digits = start
      BY <1>2, <1>7, <2>2, Zenon
    <3>2. \A i \in 1..Len(text) : text[i] \in Digits
      BY <1>2, <1>6, <3>1, Zenon
    <3>3. Len(text) \in Nat
      BY <1>6
    <3> QED
      BY <3>1, <3>2, <3>3, Zenon
  <2> QED
    BY <2>1, <2>2
<1> HIDE DEF spelled
<1>9. MaxNumber \in Int
  BY NumbersAssumption
<1>10. size \in Int
  BY <1>8, <1>9, ValueType
<1> HIDE DEF size
<1> QED
  BY <1>3, <1>10

\* A counted text ends inside the file.
LEMMA CountedMoves ==
  ASSUME file \in Seq(Symbols), NEW p \in Place \cup {Fail}
  PROVE  CountedEnd(p) \in Place \cup {Fail}
<1> DEFINE start == CountedStart(p)
<1>1. NumberEnd(p) \in Place \cup {Fail}
  BY NumberMoves
<1>2. start \in Place \cup {Fail}
  BY <1>1, CharMoves DEF CountedStart
<1>3. CountedEnd(p) = IF start = Fail THEN Fail
                      ELSE IF Number(p) \in 0..(Len(file) + 1 - start) THEN start + Number(p) ELSE Fail
  BY Zenon DEF CountedEnd
<1> HIDE DEF start
<1>4. CASE start # Fail /\ Number(p) \in 0..(Len(file) + 1 - start)
  <2> DEFINE n == Number(p)
  <2>1. CountedEnd(p) = start + n
    BY <1>3, <1>4, Zenon
  <2>2. start \in 1..(Len(file) + 1) /\ n \in 0..(Len(file) + 1 - start) /\ Len(file) \in Nat
    BY <1>2, <1>4 DEF Place
  <2> HIDE DEF n
  <2>3. start + n \in Place
    BY <2>2 DEF Place
  <2> QED
    BY <2>1, <2>3, Zenon
<1>5. CASE ~(start # Fail /\ Number(p) \in 0..(Len(file) + 1 - start))
  BY <1>3, <1>5, Zenon
<1> QED
  BY <1>4, <1>5

\* What follows the value of a SET ends with a newline.
LEMMA ValueMoves ==
  ASSUME file \in Seq(Symbols), NEW p \in Place \cup {Fail}, ValueEnd(p) # Fail
  PROVE  /\ ValueEnd(p) \in Place /\ ValueEnd(p) - 1 \in Place /\ file[ValueEnd(p) - 1] = NL
         /\ ExpiryPart(p) => p + 1 \in Place /\ WordEnd(p + 1, 4) \in Place
                             /\ NumberEnd(WordEnd(p + 1, 4)) # Fail
<1>1. CASE ~ExpiryPart(p)
  <2>1. ValueEnd(p) = Char(p, NL)
    BY <1>1, Zenon DEF ValueEnd
  <2>2. p \in 1..Len(file) /\ ValueEnd(p) = p + 1 /\ file[p] = NL
    BY <2>1, CharMoves
  <2> QED
    BY <1>1, <2>2 DEF Place
<1>2. CASE ExpiryPart(p)
  <2> DEFINE w == WordEnd(p + 1, 4)
             e == NumberEnd(w)
  <2>1. ValueEnd(p) = Char(e, NL)
    BY <1>2, Zenon DEF ValueEnd
  <2>2. p \in 1..Len(file) /\ p + 1 \in Place
    <3>1. p \in 1..Len(file)
      BY <1>2, CharMoves DEF ExpiryPart
    <3> QED
      BY <3>1 DEF Place
  <2>3. w \in Place
    <3>1. 4 \in Nat \ {0} /\ Len(file) \in Nat
      OBVIOUS
    <3>2. FindOther(file, p + 1, Spaces) \in (p + 1)..(Len(file) + 1)
          /\ w \in FindOther(file, p + 1, Spaces)..(Len(file) + 1)
      BY <2>2, <3>1, WordMoves
    <3> QED
      BY <2>2, <3>1, <3>2 DEF Place
  <2> HIDE DEF w
  <2>4. e \in Place \cup {Fail}
    BY <2>3, NumberMoves
  <2>5. e \in 1..Len(file) /\ Char(e, NL) = e + 1 /\ file[e] = NL
    BY <2>1, <2>4, CharMoves
  <2>6. e # Fail
    BY <2>5 DEF Fail
  <2> HIDE DEF e
  <2>7. ValueEnd(p) \in Place /\ ValueEnd(p) - 1 = e /\ e \in Place
    BY <2>1, <2>5 DEF Place
  <2> QED
    BY <2>2, <2>3, <2>5, <2>6, <2>7, Zenon DEF w, e
<1> QED
  BY <1>1, <1>2
-----------------------------------------------------------------------------
(* Scanning what was printed.                                              *)

\* text stands at position p of the file.
Stands(p, text) ==
    /\ p \in Place /\ p + Len(text) \in Place
    /\ \A i \in 1..Len(text) : file[p + i - 1] = text[i]

\* Then each part of it does.
Parts(p, s, t) ==
    /\ Stands(p, s) /\ Stands(p + Len(s), t)
    /\ p + Len(s \o t) = (p + Len(s)) + Len(t)

LEMMA StandsParts ==
  ASSUME file \in Seq(Symbols), NEW p, NEW s \in Seq(Symbols), NEW t \in Seq(Symbols),
         Stands(p, s \o t)
  PROVE  Parts(p, s, t)
<1> DEFINE m == Len(s)
           n == Len(t)
           c == s \o t
<1>1. /\ m \in Nat /\ n \in Nat /\ Len(c) = m + n
      /\ \A i \in 1..(m + n) : c[i] = IF i <= m THEN s[i] ELSE t[i - m]
  BY ConcatProperties
<1>2. /\ p \in Place /\ p + Len(c) \in Place
      /\ \A i \in 1..Len(c) : file[p + i - 1] = c[i]
  BY Zenon DEF Stands
<1> HIDE DEF m, n, c
<1>3. /\ p \in Nat \ {0} /\ Len(file) \in Nat /\ p + (m + n) <= Len(file) + 1
  BY <1>1, <1>2 DEF Place
<1>4. p + m \in Place /\ (p + m) + n \in Place /\ p + Len(c) = (p + m) + n
  BY <1>1, <1>3 DEF Place
<1>5. ASSUME NEW i \in 1..m
      PROVE  file[p + i - 1] = s[i]
  <2>1. i \in 1..(m + n) /\ i <= m
    BY <1>1
  <2> QED
    BY <1>1, <1>2, <2>1, Zenon
<1>6. ASSUME NEW i \in 1..n
      PROVE  file[(p + m) + i - 1] = t[i]
  <2> DEFINE j == m + i
  <2>1. j \in 1..(m + n) /\ ~(j <= m) /\ j - m = i /\ p + j - 1 = (p + m) + i - 1
    BY <1>1, <1>3
  <2> HIDE DEF j
  <2> QED
    BY <1>1, <1>2, <2>1, Zenon
<1> QED
  BY <1>2, <1>4, <1>5, <1>6, Zenon DEF Parts, Stands, m, n, c

LEMMA StandsTogether ==
  ASSUME file \in Seq(Symbols), NEW p, NEW s \in Seq(Symbols), NEW t \in Seq(Symbols),
         Stands(p, s), Stands(p + Len(s), t)
  PROVE  Stands(p, s \o t)
<1> DEFINE m == Len(s)
           n == Len(t)
           c == s \o t
<1>1. /\ m \in Nat /\ n \in Nat /\ Len(c) = m + n
      /\ \A i \in 1..(m + n) : c[i] = IF i <= m THEN s[i] ELSE t[i - m]
  BY ConcatProperties
<1>2. /\ p \in Place /\ (p + m) + n \in Place
      /\ \A i \in 1..m : file[p + i - 1] = s[i]
      /\ \A i \in 1..n : file[(p + m) + i - 1] = t[i]
  BY Zenon DEF Stands
<1> HIDE DEF m, n, c
<1>3. p \in Nat /\ p + Len(c) = (p + m) + n
  BY <1>1, <1>2 DEF Place
<1>4. ASSUME NEW i \in 1..(m + n)
      PROVE  file[p + i - 1] = c[i]
  <2>1. CASE i <= m
    <3>1. i \in 1..m
      BY <1>1, <2>1
    <3> QED
      BY <1>1, <1>2, <2>1, <3>1, Zenon
  <2>2. CASE ~(i <= m)
    <3> DEFINE j == i - m
    <3>1. j \in 1..n /\ (p + m) + j - 1 = p + i - 1
      BY <1>1, <1>3, <2>2
    <3>2. c[i] = t[j]
      BY <1>1, <2>2, Zenon
    <3> HIDE DEF j
    <3> QED
      BY <1>2, <3>1, <3>2, Zenon
  <2> QED
    BY <2>1, <2>2
<1>5. \A i \in 1..Len(c) : file[p + i - 1] = c[i]
  BY <1>1, <1>4, Zenon
<1> QED
  BY <1>2, <1>3, <1>5, Zenon DEF Stands, c

LEMMA StandsIs ==
  ASSUME file \in Seq(Symbols), NEW p, NEW text \in Seq(Symbols), Stands(p, text)
  PROVE  SubSeq(file, p, (p + Len(text)) - 1) = text
<1> DEFINE n == Len(text)
           b == (p + n) - 1
           s == SubSeq(file, p, b)
<1>1. n \in Nat /\ Len(file) \in Nat
  OBVIOUS
<1>2. p \in 1..(Len(file) + 1) /\ b \in (p - 1)..Len(file)
  BY <1>1 DEF Stands, Place
<1>3. b - p + 1 = n
  BY <1>1, <1>2
<1> HIDE DEF b, n
<1>4. s \in Seq(Symbols) /\ Len(s) = n /\ \A i \in 1..n : s[i] = file[p + i - 1]
  <2>1. s \in Seq(Symbols) /\ Len(s) = b - p + 1 /\ \A i \in 1..(b - p + 1) : s[i] = file[p + i - 1]
    BY <1>2, PieceOf
  <2> QED
    BY <1>3, <2>1, Zenon
<1>5. \A i \in 1..n : s[i] = text[i]
  BY <1>4, Zenon DEF Stands, n
<1> HIDE DEF s
<1>6. s = text
  BY <1>4, <1>5, SeqEqual DEF n
<1> QED
  BY <1>6 DEF s, b, n

\* The first symbol of a text that stands somewhere.
LEMMA StandsFirst ==
  ASSUME file \in Seq(Symbols), NEW p, NEW text \in Seq(Symbols), text # <<>>, Stands(p, text)
  PROVE  p \in 1..Len(file) /\ p + 1 \in Place /\ file[p] = text[1]
<1> DEFINE n == Len(text)
<1>1. n \in Nat \ {0} /\ Len(file) \in Nat
  BY EmptySeq
<1>2. p \in Place /\ p + n \in Place /\ \A i \in 1..n : file[p + i - 1] = text[i]
  BY Zenon DEF Stands
<1> HIDE DEF n
<1>3. p \in 1..Len(file) /\ p + 1 \in Place /\ 1 \in 1..n /\ p + 1 - 1 = p
  BY <1>1, <1>2 DEF Place
<1>4. file[p + 1 - 1] = text[1]
  BY <1>2, <1>3, Zenon
<1> QED
  BY <1>3, <1>4

\* fscanf skips a blank, and nothing where there is none.
LEMMA StartsHere ==
  ASSUME file \in Seq(Symbols), NEW p \in 1..Len(file), file[p] \notin Spaces
  PROVE  FindOther(file, p, Spaces) = p
<1>1. Len(file) \in Nat
  OBVIOUS
<1>2. p \in 1..(Len(file) + 1) /\ p \in p..(Len(file) + 1) /\ \A r \in p..(p - 1) : FALSE
  BY <1>1
<1> QED
  BY <1>1, <1>2, FindOtherIs

LEMMA StartsBehindBlank ==
  ASSUME file \in Seq(Symbols), NEW p \in 1..Len(file), file[p] = Blank,
         p + 1 \in 1..Len(file), file[p + 1] \notin Spaces
  PROVE  FindOther(file, p, Spaces) = p + 1
<1>1. Len(file) \in Nat
  OBVIOUS
<1>2. p \in 1..(Len(file) + 1) /\ p + 1 \in p..(Len(file) + 1) /\ \A r \in p..(p + 1 - 1) : r = p
  BY <1>1
<1>3. Blank \in Spaces
  BY DEF Spaces
<1>4. \A r \in p..(p + 1 - 1) : file[r] \in Spaces
  BY <1>2, <1>3, Zenon
<1> QED
  BY <1>1, <1>2, <1>4, FindOtherIs

\* fscanf("%ns") reads a word of n symbols.
LEMMA WordStands ==
  ASSUME file \in Seq(Symbols), NEW p \in Place, NEW w \in Seq(Symbols), w # <<>>,
         \A i \in 1..Len(w) : w[i] \notin Spaces,
         Stands(FindOther(file, p, Spaces), w)
  PROVE  /\ WordEnd(p, Len(w)) = FindOther(file, p, Spaces) + Len(w)
         /\ Word(p, Len(w)) = w
<1> DEFINE q == FindOther(file, p, Spaces)
           n == Len(w)
           e == Find(file, q, Spaces)
<1>1. n \in Nat \ {0} /\ Len(file) \in Nat
  BY EmptySeq
<1>2. /\ q \in 1..(Len(file) + 1) /\ q + n \in 1..(Len(file) + 1)
      /\ \A i \in 1..n : file[q + i - 1] = w[i] /\ w[i] \notin Spaces
  BY Zenon DEF Stands, Place
<1>3. WordEnd(p, n) = Min({e, q + n}) /\ Word(p, n) = SubSeq(file, q, WordEnd(p, n) - 1)
  BY Zenon DEF WordEnd, Word
<1>4. SubSeq(file, q, (q + n) - 1) = w
  BY StandsIs
<1> HIDE DEF q, n
<1>5. e \in q..(Len(file) + 1) /\ (e <= Len(file) => file[e] \in Spaces)
  BY <1>1, <1>2, FindFinds
<1> HIDE DEF e
<1>6. e >= q + n
  <2> SUFFICES ASSUME ~(e >= q + n)
               PROVE  FALSE
    OBVIOUS
  <2> DEFINE i == e - q + 1
  <2>1. i \in 1..n /\ q + i - 1 = e /\ e <= Len(file)
    BY <1>1, <1>2, <1>5
  <2> HIDE DEF i
  <2> QED
    BY <1>2, <1>5, <2>1, Zenon
<1>7. Min({e, q + n}) = q + n
  <2>1. e \in Int /\ q + n \in Int /\ (e <= q + n => e = q + n)
    BY <1>1, <1>2, <1>5, <1>6
  <2> DEFINE x == q + n
  <2> HIDE DEF x
  <2>2. Min({e, x}) = IF e <= x THEN e ELSE x
    BY <2>1, MinOfTwo DEF x
  <2> QED
    BY <2>1, <2>2, Zenon DEF x
<1>8. WordEnd(p, n) = q + n
  BY <1>3, <1>7, Zenon
<1>9. SubSeq(file, q, (q + n) - 1) = w
  BY <1>4 DEF q, n
<1>10. Word(p, n) = w
  <2> DEFINE x == q + n
  <2>1. SubSeq(file, q, x - 1) = w /\ WordEnd(p, n) = x
    BY <1>8, <1>9
  <2> HIDE DEF x
  <2> QED
    BY <1>3, <2>1, Zenon
<1> QED
  BY <1>8, <1>10, Zenon DEF n, q

\* A digit is neither a sign nor a blank nor a colon.
LEMMA DigitsApart ==
  /\ \A d \in Digits : d \notin {"-", "+", ":", NL} /\ d \notin Spaces
  /\ "-" \notin Spaces
<1> DEFINE names == {"0", "1", "2", "3", "4", "5", "6", "7", "8", "9"}
<1>1. \A n \in 0..9 : Digit[n] \in names
  BY DEF Digit
<1>2. \A d \in names : d \notin {"-", "+", ":", NL} /\ d \notin Spaces
  BY DEF NL, Spaces, Blank, CR
<1>3. "-" \notin Spaces
  BY DEF NL, Spaces, Blank, CR
<1> HIDE DEF names
<1> QED
  BY <1>1, <1>2, <1>3, Zenon DEF Digits

\* A number that was printed is read back, when something else follows it.
LEMMA NumberStands ==
  ASSUME file \in Seq(Symbols), NEW p \in Place, NEW n \in Int, Magnitude(n) <= MaxNumber,
         NEW c \in Symbols, c \notin Digits,
         Stands(NumberStart(p), Decimal(n) \o <<c>>)
  PROVE  /\ NumberEnd(p) = NumberStart(p) + Len(Decimal(n)) /\ NumberEnd(p) # Fail
         /\ Stands(NumberEnd(p), <<c>>)
         /\ Number(p) = n
<1> DEFINE q == NumberStart(p)
           all == Decimal(n)
           sign == IF n < 0 THEN <<"-">> ELSE <<>>
           e == q + Len(all)
<1>1. MaxNumber \in Int
  BY NumbersAssumption
<1>2. PICK digits \in Seq(Digits) :
         /\ digits # <<>>
         /\ all = sign \o digits
         /\ Value(digits, MaxNumber) = Magnitude(n)
  BY <1>1, DecimalSpells, Zenon
<1>3. /\ Digits \subseteq Symbols /\ <<"-">> \in Seq(Symbols) /\ <<>> \in Seq(Symbols)
      /\ <<c>> \in Seq(Symbols) /\ <<c>> # <<>> /\ <<c>>[1] = c
  BY InkIs DEF Marks, Symbols
<1>4. digits \in Seq(Symbols) /\ sign \in Seq(Symbols)
  <2>1. \A i \in 1..Len(digits) : digits[i] \in Symbols
    BY <1>2, <1>3, ElementOfSeq
  <2> DEFINE k == Len(digits)
  <2>2. k \in Nat /\ digits = [i \in 1..k |-> digits[i]]
    BY <1>2
  <2> HIDE DEF k
  <2>3. [i \in 1..k |-> digits[i]] \in Seq(Symbols)
    BY <2>1, <2>2 DEF k
  <2> QED
    BY <1>3, <2>2, <2>3
<1>5. all \in Seq(Symbols) /\ all # <<>>
  <2>1. Len(all) = Len(sign) + Len(digits) /\ all \in Seq(Symbols)
    BY <1>2, <1>4, ConcatProperties
  <2>2. Len(sign) \in Nat /\ Len(digits) \in Nat \ {0}
    BY <1>2, <1>4, EmptySeq
  <2>3. Len(all) # 0
    BY <2>1, <2>2
  <2> QED
    BY <2>1, <2>3
<1>6. Stands(q, all) /\ Stands(e, <<c>>)
  <2> DEFINE z == <<c>>
  <2>1. all \in Seq(Symbols) /\ z \in Seq(Symbols) /\ Stands(q, all \o z)
    BY <1>3, <1>5
  <2> HIDE DEF q, all, z
  <2>2. Parts(q, all, z)
    BY <2>1, StandsParts
  <2> QED
    BY <2>2, Zenon DEF Parts, z
<1> DEFINE d == q + Len(sign)
<1>7. Stands(q, sign) /\ Stands(d, digits) /\ e = d + Len(digits)
  <2> HIDE DEF q, all, sign
  <2>1. Stands(q, sign \o digits)
    BY <1>2, <1>6, Zenon
  <2>2. Parts(q, sign, digits)
    BY <1>4, <2>1, StandsParts
  <2>3. Stands(q, sign) /\ Stands(d, digits) /\ q + Len(sign \o digits) = d + Len(digits)
    BY <2>2, Zenon DEF Parts
  <2> QED
    BY <1>2, <2>3, Zenon
<1>8. SubSeq(file, q, e - 1) = all
  <2> HIDE DEF q, all
  <2>1. all \in Seq(Symbols) /\ Stands(q, all)
    BY <1>5, <1>6, Zenon
  <2>2. SubSeq(file, q, (q + Len(all)) - 1) = all
    BY <2>1, StandsIs
  <2> QED
    BY <2>2
<1>9. q \in 1..Len(file) /\ file[q] = all[1]
  BY <1>5, <1>6, StandsFirst
<1>10. e \in 1..Len(file) /\ file[e] = c
  BY <1>3, <1>6, StandsFirst
<1>11. d \in 1..Len(file) /\ file[d] = digits[1]
  BY <1>2, <1>4, <1>7, StandsFirst
<1>12. Len(digits) \in Nat \ {0} /\ digits[1] \in Digits /\ \A i \in 1..Len(digits) : digits[i] \in Digits
  BY <1>2, EmptySeq, ElementOfSeq
<1>13. Len(file) \in Nat
  OBVIOUS
<1>14. NumberEnd(p) = LET digits_ == IF q <= Len(file) /\ file[q] \in {"-", "+"} THEN q + 1 ELSE q
                          end == FindOther(file, digits_, Digits)
                      IN  IF p = Fail \/ end = digits_ THEN Fail ELSE end
  BY Zenon DEF NumberEnd
<1>15. Number(p) = LET size == Value(IF Head(SubSeq(file, q, NumberEnd(p) - 1)) \in {"-", "+"}
                                     THEN Tail(SubSeq(file, q, NumberEnd(p) - 1))
                                     ELSE SubSeq(file, q, NumberEnd(p) - 1), MaxNumber)
                   IN  IF Head(SubSeq(file, q, NumberEnd(p) - 1)) = "-" THEN -size ELSE size
  BY Zenon DEF Number
<1>16. d = IF q <= Len(file) /\ file[q] \in {"-", "+"} THEN q + 1 ELSE q
  <2>1. CASE n < 0
    <3>1. sign = <<"-">>
      BY <2>1, Zenon
    <3>2. Len(<<"-">>) = 1 /\ <<"-">>[1] = "-" /\ <<"-">> # <<>>
      OBVIOUS
    <3>3. Stands(q, <<"-">>)
      BY <1>7, <3>1, Zenon
    <3>4. file[q] = "-"
      BY <1>3, <3>2, <3>3, StandsFirst
    <3>5. d = q + 1
      BY <3>1, <3>2, Zenon
    <3>6. q <= Len(file)
      BY <1>9, <1>13
    <3> QED
      BY <3>4, <3>5, <3>6, Zenon
  <2>2. CASE ~(n < 0)
    <3>1. sign = <<>> /\ Len(<<>>) = 0
      BY <2>2
    <3>2. q + 0 = q
      BY <1>9, <1>13
    <3>3. d = q
      BY <3>1, <3>2, Zenon
    <3>4. file[q] \notin {"-", "+"}
      BY <1>11, <1>12, <3>3, DigitsApart, Zenon
    <3> QED
      BY <3>3, <3>4, Zenon
  <2> QED
    BY <2>1, <2>2
<1> HIDE DEF d, e, q
<1>17. FindOther(file, d, Digits) = e
  <2>1. d \in 1..(Len(file) + 1) /\ e \in d..(Len(file) + 1) /\ \A r \in d..(e - 1) : r - d + 1 \in 1..Len(digits)
        /\ d + (r - d + 1) - 1 = r
    BY <1>7, <1>10, <1>11, <1>12, <1>13
  <2>2. \A r \in d..(e - 1) : file[r] \in Digits
    <3>1. \A i \in 1..Len(digits) : file[d + i - 1] = digits[i]
      BY <1>7, Zenon DEF Stands
    <3> TAKE r \in d..(e - 1)
    <3> DEFINE i == r - d + 1
    <3>2. i \in 1..Len(digits) /\ d + i - 1 = r
      BY <2>1, Zenon
    <3> HIDE DEF i
    <3>3. file[r] = digits[i] /\ digits[i] \in Digits
      BY <1>12, <3>1, <3>2, Zenon
    <3> QED
      BY <3>3
  <2> QED
    BY <1>10, <1>13, <2>1, <2>2, FindOtherIs
<1>18. e # d /\ p # Fail /\ e # Fail
  BY <1>7, <1>10, <1>11, <1>12, <1>13 DEF Place, Fail
<1>19. NumberEnd(p) = e
  BY <1>14, <1>16, <1>17, <1>18, Zenon
<1> HIDE DEF all
<1>20. Head(all) = all[1]
  BY <1>5
<1>21. Number(p) = n
  <2> DEFINE spelled == IF Head(all) \in {"-", "+"} THEN Tail(all) ELSE all
  <2>1. Number(p) = IF Head(all) = "-" THEN -Value(spelled, MaxNumber) ELSE Value(spelled, MaxNumber)
    BY <1>8, <1>15, <1>19, Zenon
  <2>2. CASE n < 0
    <3>1. all = <<"-">> \o digits
      BY <1>2, <2>2, Zenon
    <3>2. Head(all) = "-" /\ Tail(all) = digits
      <4> DEFINE k == Len(digits)
      <4>1. /\ Len(all) = 1 + k /\ all \in Seq(Symbols)
            /\ \A i \in 1..(1 + k) : all[i] = IF i <= 1 THEN <<"-">>[i] ELSE digits[i - 1]
        <5>1. Len(<<"-">>) = 1
          OBVIOUS
        <5> QED
          BY <1>3, <1>4, <3>1, <5>1, ConcatProperties
      <4>2. all[1] = "-"
        BY <1>12, <4>1
      <4>3. /\ Tail(all) \in Seq(Symbols) /\ Len(Tail(all)) = Len(all) - 1
            /\ \A i \in 1..Len(Tail(all)) : Tail(all)[i] = all[i + 1]
        BY <1>5, HeadTailProperties
      <4> HIDE DEF k
      <4>4. Len(Tail(all)) = k /\ \A i \in 1..k : i + 1 \in 1..(1 + k) /\ ~(i + 1 <= 1) /\ (i + 1) - 1 = i
        BY <1>12, <4>1, <4>3 DEF k
      <4>5. \A i \in 1..k : Tail(all)[i] = digits[i]
        BY <4>1, <4>3, <4>4
      <4>6. Tail(all) = digits
        BY <1>4, <4>3, <4>4, <4>5, SeqEqual DEF k
      <4> QED
        BY <1>20, <4>2, <4>6, Zenon
    <3>3. spelled = digits
      <4>1. "-" \in {"-", "+"}
        OBVIOUS
      <4> QED
        BY <3>2, <4>1, Zenon
    <3>4. Number(p) = -Magnitude(n)
      BY <1>2, <2>1, <3>2, <3>3, Zenon
    <3> QED
      BY <2>2, <3>4 DEF Magnitude
  <2>3. CASE ~(n < 0)
    <3>1. all = digits
      <4>1. all = <<>> \o digits
        BY <1>2, <2>3, Zenon
      <4> QED
        BY <1>2, <4>1, ConcatEmptySeq
    <3>2. Head(all) \notin {"-", "+"}
      BY <1>12, <1>20, <3>1, DigitsApart, Zenon
    <3>3. spelled = digits /\ Head(all) # "-"
      <4>1. "-" \in {"-", "+"}
        OBVIOUS
      <4> QED
        BY <3>1, <3>2, <4>1, Zenon
    <3>4. Number(p) = Magnitude(n)
      BY <1>2, <2>1, <3>3, Zenon
    <3> QED
      BY <2>3, <3>4 DEF Magnitude
  <2> QED
    BY <2>2, <2>3
<1> QED
  BY <1>6, <1>18, <1>19, <1>21, Zenon DEF e, q, all

\* A printed number begins with a digit or a minus sign.
LEMMA DecimalBegins ==
  ASSUME NEW n \in Int, Magnitude(n) <= MaxNumber
  PROVE  Decimal(n) \in Seq(Symbols) /\ Decimal(n) # <<>> /\ Decimal(n)[1] \notin Spaces
<1>1. Digits \subseteq Symbols /\ "-" \in Symbols
  BY InkIs DEF Marks, Symbols
<1>2. Decimal(n) \in Seq(Symbols)
  BY <1>1, DecimalType
<1>3. MaxNumber \in Int
  BY NumbersAssumption
<1>4. PICK digits \in Seq(Digits) :
         /\ digits # <<>>
         /\ Decimal(n) = (IF n < 0 THEN <<"-">> ELSE <<>>) \o digits
  BY <1>3, DecimalSpells, Zenon
<1>5. Len(digits) \in Nat \ {0} /\ digits[1] \in Digits
  BY <1>4, EmptySeq, ElementOfSeq
<1>6. CASE n < 0
  <2> DEFINE s == <<"-">> \o digits
  <2>1. Decimal(n) = s
    BY <1>4, <1>6, Zenon
  <2>2. <<"-">> \in Seq(Digits \cup {"-"}) /\ digits \in Seq(Digits \cup {"-"})
    <3>1. \A i \in 1..Len(digits) : digits[i] \in Digits \cup {"-"}
      BY ElementOfSeq
    <3> DEFINE k == Len(digits)
    <3>2. k \in Nat /\ digits = [i \in 1..k |-> digits[i]]
      OBVIOUS
    <3> HIDE DEF k
    <3>3. [i \in 1..k |-> digits[i]] \in Seq(Digits \cup {"-"})
      BY <3>1, <3>2 DEF k
    <3> QED
      BY <3>2, <3>3
  <2>3. /\ Len(s) = 1 + Len(digits)
        /\ \A i \in 1..(1 + Len(digits)) : s[i] = IF i <= 1 THEN <<"-">>[i] ELSE digits[i - 1]
    <3>1. Len(<<"-">>) = 1
      OBVIOUS
    <3> QED
      BY <2>2, <3>1, ConcatProperties
  <2> HIDE DEF s
  <2>4. Len(s) # 0 /\ s[1] = <<"-">>[1] /\ <<"-">>[1] = "-"
    BY <1>5, <2>3
  <2>5. s # <<>>
    BY <2>4
  <2> QED
    BY <1>2, <2>1, <2>4, <2>5, DigitsApart, Zenon
<1>7. CASE ~(n < 0)
  <2>1. Decimal(n) = <<>> \o digits
    BY <1>4, <1>7, Zenon
  <2>2. Decimal(n) = digits
    BY <2>1, ConcatEmptySeq
  <2> QED
    BY <1>2, <1>4, <1>5, <2>2, DigitsApart, Zenon
<1> QED
  BY <1>6, <1>7

\* A text behind its length.
LEMMA CountedBegins ==
  ASSUME NEW text \in Seq(Symbols), Len(text) <= MaxNumber
  PROVE  /\ Magnitude(Len(text)) <= MaxNumber
         /\ <<":">> \in Seq(Symbols) /\ ":" \in Symbols /\ ":" \notin Digits
         /\ Decimal(Len(text)) \o <<":">> \in Seq(Symbols)
         /\ Counted(text) \in Seq(Symbols) /\ Counted(text) # <<>>
         /\ Counted(text)[1] \notin Spaces
         /\ Counted(text) = (Decimal(Len(text)) \o <<":">>) \o text
<1> DEFINE n == Len(text)
           D == Decimal(n)
           h == D \o <<":">>
<1>1. n \in Nat /\ Magnitude(n) <= MaxNumber
  BY DEF Magnitude
<1>2. D \in Seq(Symbols) /\ D # <<>> /\ D[1] \notin Spaces
  BY <1>1, DecimalBegins
<1>3. ":" \in Symbols /\ <<":">> \in Seq(Symbols)
  BY InkIs DEF Marks, Symbols
<1>4. ":" \notin Digits
  <2>1. ":" \in {"-", "+", ":", NL}
    OBVIOUS
  <2> QED
    BY <2>1, DigitsApart, Zenon
<1> HIDE DEF D
<1>5. h \in Seq(Symbols) /\ h # <<>> /\ h[1] = D[1]
  BY <1>2, <1>3, Begun
<1> HIDE DEF h
<1>6. h \o text \in Seq(Symbols) /\ h \o text # <<>> /\ (h \o text)[1] = h[1]
  BY <1>5, Begun
<1>7. Counted(text) = h \o text
  BY Zenon DEF Counted, h, D, n
<1> QED
  BY <1>1, <1>2, <1>3, <1>4, <1>5, <1>6, <1>7, Zenon DEF n, D, h

\* A counted text that was printed is read back, whatever is in it.
LEMMA CountedStands ==
  ASSUME file \in Seq(Symbols), NEW p \in Place,
         NEW text \in Seq(Symbols), Len(text) <= MaxNumber,
         Stands(NumberStart(p), Counted(text))
  PROVE  /\ CountedEnd(p) = NumberStart(p) + Len(Counted(text))
         /\ CountedEnd(p) \in Place
         /\ CountedText(p) = text
<1> DEFINE q == NumberStart(p)
           n == Len(text)
           D == Decimal(n)
           h == D \o <<":">>
           e == NumberEnd(p)
           b == q + Len(h)
<1>1. /\ n \in Nat /\ Magnitude(n) <= MaxNumber
      /\ <<":">> \in Seq(Symbols) /\ ":" \in Symbols /\ ":" \notin Digits
      /\ h \in Seq(Symbols) /\ Counted(text) = h \o text
  BY CountedBegins
<1>2. D \in Seq(Symbols)
  BY <1>1, DecimalBegins
<1>3. Stands(q, h) /\ Stands(b, text) /\ q + Len(Counted(text)) = b + n
  <2> HIDE DEF q, h
  <2>1. Stands(q, h \o text)
    BY <1>1, Zenon DEF q
  <2>2. Parts(q, h, text)
    BY <1>1, <2>1, StandsParts
  <2>3. Stands(q, h) /\ Stands(b, text) /\ q + Len(h \o text) = b + n
    BY <2>2, Zenon DEF Parts
  <2> QED
    BY <1>1, <2>3, Zenon
<1>4. e = q + Len(D) /\ e # Fail /\ Stands(e, <<":">>) /\ Number(p) = n
  BY <1>1, <1>3, NumberStands
<1>5. e + 1 = b
  <2>1. Len(h) = Len(D) + Len(<<":">>) /\ Len(<<":">>) = 1 /\ Len(D) \in Nat
    BY <1>1, <1>2, ConcatProperties
  <2>2. q \in Nat
    BY <1>3 DEF Stands, Place
  <2> HIDE DEF q, D, h, e
  <2> QED
    BY <1>4, <2>1, <2>2 DEF b
<1>6. e \in 1..Len(file) /\ file[e] = ":"
  <2>1. <<":">> # <<>> /\ <<":">>[1] = ":"
    OBVIOUS
  <2> HIDE DEF e
  <2> QED
    BY <1>1, <1>4, <2>1, StandsFirst
<1>7. Len(file) \in Nat
  OBVIOUS
<1>8. SubSeq(file, b, (b + n) - 1) = text
  <2> HIDE DEF b
  <2> QED
    BY <1>3, StandsIs
<1> HIDE DEF q, D, h, n, b, e
<1>9. CountedStart(p) = b
  <2>1. e <= Len(file)
    BY <1>6, <1>7
  <2>2. CountedStart(p) = Char(e, ":")
    BY Zenon DEF CountedStart, e
  <2> QED
    BY <1>4, <1>5, <1>6, <2>1, <2>2, Zenon DEF Char
<1>10. b \in Place /\ b + n \in Place
  BY <1>3, Zenon DEF Stands, n
<1>11. b # Fail /\ n \in 0..(Len(file) + 1 - b)
  BY <1>1, <1>7, <1>10 DEF Place, Fail
<1>12. CountedEnd(p) = b + n
  BY <1>4, <1>9, <1>11, Zenon DEF CountedEnd
<1>13. CountedText(p) = text
  BY <1>8, <1>9, <1>12, Zenon DEF CountedText
<1> QED
  BY <1>3, <1>10, <1>12, <1>13, Zenon DEF q

LEMMA BlankIs ==
  /\ <<Blank>> \in Seq(Symbols) /\ <<Blank>> # <<>> /\ <<Blank>>[1] = Blank /\ Len(<<Blank>>) = 1
  /\ <<NL>> \in Seq(Symbols) /\ <<NL>> # <<>> /\ <<NL>>[1] = NL /\ Len(<<NL>>) = 1
  /\ Blank # NL /\ NL \in Symbols /\ NL \notin Digits
<1>1. Blank \in Symbols
  BY InkIs DEF Marks, Symbols
<1>2. NL \in Symbols /\ NL \notin Digits
  BY InkIs DEF Symbols, Ink
<1>3. Blank # NL
  BY DEF Blank, NL
<1> QED
  BY <1>1, <1>2, <1>3

\* The words that are printed, and the blanks around them.
LEMMA WordsAre ==
  LET set == <<"S", "E", "T">>
      del == <<"D", "E", "L">>
      exat == <<"E", "X", "A", "T">>
  IN  /\ \A w \in {set, del, exat} :
            w \in Seq(Symbols) /\ w # <<>> /\ \A i \in 1..Len(w) : w[i] \notin Spaces
      /\ Len(set) = 3 /\ Len(del) = 3 /\ Len(exat) = 4
      /\ <<"S", "E", "T", Blank>> = set \o <<Blank>>
      /\ <<"D", "E", "L", Blank>> = del \o <<Blank>>
      /\ <<Blank, "E", "X", "A", "T", Blank>> = (<<Blank>> \o exat) \o <<Blank>>
      /\ <<Blank>> \o exat \in Seq(Symbols)
      /\ set # del
<1> DEFINE set == <<"S", "E", "T">>
           del == <<"D", "E", "L">>
           exat == <<"E", "X", "A", "T">>
<1>1. \A c \in {"S", "E", "T", "D", "L", "X", "A"} : c \in Symbols /\ c \notin Spaces
  <2>1. \A c \in {"S", "E", "T", "D", "L", "X", "A"} : c \in Marks /\ c \notin {Blank, CR, NL}
    BY DEF Marks, Blank, CR, NL
  <2> QED
    BY <2>1, InkIs DEF Symbols, Spaces
<1>2. set \in Seq(Symbols) /\ set # <<>> /\ Len(set) = 3 /\ \A i \in 1..3 : set[i] \notin Spaces
  BY <1>1
<1>3. del \in Seq(Symbols) /\ del # <<>> /\ Len(del) = 3 /\ \A i \in 1..3 : del[i] \notin Spaces
  BY <1>1
<1>4. exat \in Seq(Symbols) /\ exat # <<>> /\ Len(exat) = 4 /\ \A i \in 1..4 : exat[i] \notin Spaces
  BY <1>1
<1>5. set # del
  OBVIOUS
<1>6. <<"S", "E", "T", Blank>> = set \o <<Blank>> /\ <<"D", "E", "L", Blank>> = del \o <<Blank>>
  OBVIOUS
<1>7. <<Blank, "E", "X", "A", "T", Blank>> = (<<Blank>> \o exat) \o <<Blank>>
  OBVIOUS
<1>8. <<Blank>> \o exat \in Seq(Symbols)
  BY <1>4, BlankIs, ConcatProperties
<1> QED
  BY <1>2, <1>3, <1>4, <1>5, <1>6, <1>7, <1>8

\* A word is read where it stands.
LEMMA WordHere ==
  ASSUME file \in Seq(Symbols), NEW p, NEW w \in Seq(Symbols), w # <<>>,
         \A i \in 1..Len(w) : w[i] \notin Spaces, Stands(p, w)
  PROVE  WordEnd(p, Len(w)) = p + Len(w) /\ Word(p, Len(w)) = w
<1>1. p \in 1..Len(file) /\ file[p] = w[1] /\ Len(w) \in Nat \ {0}
  BY StandsFirst, EmptySeq
<1>2. 1 \in 1..Len(w)
  BY <1>1
<1>3. file[p] \notin Spaces
  BY <1>1, <1>2, Zenon
<1>4. FindOther(file, p, Spaces) = p
  BY <1>1, <1>3, StartsHere
<1>5. Stands(FindOther(file, p, Spaces), w) /\ p \in Place
  BY <1>4, Zenon DEF Stands
<1>6. WordEnd(p, Len(w)) = FindOther(file, p, Spaces) + Len(w) /\ Word(p, Len(w)) = w
  BY <1>5, WordStands
<1> QED
  BY <1>4, <1>6, Zenon

\* A counted text is read where it stands.
LEMMA CountedHere ==
  ASSUME file \in Seq(Symbols), NEW p,
         NEW text \in Seq(Symbols), Len(text) <= MaxNumber, Stands(p, Counted(text))
  PROVE  /\ CountedEnd(p) = p + Len(Counted(text)) /\ CountedEnd(p) \in Place
         /\ CountedText(p) = text
<1>1. Counted(text) \in Seq(Symbols) /\ Counted(text) # <<>> /\ Counted(text)[1] \notin Spaces
  BY CountedBegins
<1>2. p \in 1..Len(file) /\ file[p] = Counted(text)[1]
  BY <1>1, StandsFirst
<1>3. file[p] \notin Spaces
  BY <1>1, <1>2, Zenon
<1>4. NumberStart(p) = p
  BY <1>2, <1>3, StartsHere DEF NumberStart
<1>5. Stands(NumberStart(p), Counted(text)) /\ p \in Place
  BY <1>4, Zenon DEF Stands
<1>6. /\ CountedEnd(p) = NumberStart(p) + Len(Counted(text)) /\ CountedEnd(p) \in Place
      /\ CountedText(p) = text
  BY <1>5, CountedStands
<1> QED
  BY <1>4, <1>6, Zenon

\* Or behind a blank.
LEMMA CountedBehindBlank ==
  ASSUME file \in Seq(Symbols), NEW p, Stands(p, <<Blank>>),
         NEW text \in Seq(Symbols), Len(text) <= MaxNumber, Stands(p + 1, Counted(text))
  PROVE  /\ CountedEnd(p) = (p + 1) + Len(Counted(text)) /\ CountedEnd(p) \in Place
         /\ CountedText(p) = text
<1>1. Counted(text) \in Seq(Symbols) /\ Counted(text) # <<>> /\ Counted(text)[1] \notin Spaces
  BY CountedBegins
<1>2. p + 1 \in 1..Len(file) /\ file[p + 1] = Counted(text)[1]
  <2> DEFINE q == p + 1
  <2>1. Stands(q, Counted(text))
    OBVIOUS
  <2> HIDE DEF q
  <2>2. q \in 1..Len(file) /\ file[q] = Counted(text)[1]
    BY <1>1, <2>1, StandsFirst
  <2> QED
    BY <2>2 DEF q
<1>3. file[p + 1] \notin Spaces
  BY <1>1, <1>2, Zenon
<1>4. p \in 1..Len(file) /\ file[p] = Blank
  BY BlankIs, StandsFirst
<1>5. NumberStart(p) = p + 1
  BY <1>2, <1>3, <1>4, StartsBehindBlank DEF NumberStart
<1>6. Stands(NumberStart(p), Counted(text)) /\ p \in Place
  BY <1>5, Zenon DEF Stands
<1>7. /\ CountedEnd(p) = NumberStart(p) + Len(Counted(text)) /\ CountedEnd(p) \in Place
      /\ CountedText(p) = text
  BY <1>6, CountedStands
<1> QED
  BY <1>5, <1>7, Zenon

\* How an expiry is printed behind a value.
ExpiryText(t) ==
    IF t = 0 THEN <<>> ELSE <<Blank, "E", "X", "A", "T", Blank>> \o Decimal(t)

LEMMA ExpiryTextType ==
  ASSUME NEW t \in (-MaxNumber)..MaxNumber
  PROVE  ExpiryText(t) \in Seq(Symbols)
<1>1. CASE t = 0
  <2>1. ExpiryText(t) = <<>>
    BY <1>1, Zenon DEF ExpiryText
  <2>2. <<>> \in Seq(Symbols)
    OBVIOUS
  <2> QED
    BY <2>1, <2>2
<1>2. CASE t # 0
  <2> DEFINE w == <<Blank, "E", "X", "A", "T", Blank>>
  <2>1. w \in Seq(Symbols)
    BY InkIs DEF Marks, Symbols
  <2> HIDE DEF w
  <2>2. t \in Int /\ Magnitude(t) <= MaxNumber
    BY NumbersAssumption DEF Magnitude
  <2>3. Decimal(t) \in Seq(Symbols)
    BY <2>2, DecimalBegins
  <2>4. w \o Decimal(t) \in Seq(Symbols)
    BY <2>1, <2>3, ConcatProperties
  <2> QED
    BY <1>2, <2>4, Zenon DEF ExpiryText, w
<1> QED
  BY <1>1, <1>2

\* What follows a value is read as it was printed.
LEMMA ExpiryStands ==
  ASSUME file \in Seq(Symbols), NEW p, NEW t \in (-MaxNumber)..MaxNumber,
         Stands(p, ExpiryText(t)), Stands(p + Len(ExpiryText(t)), <<NL>>)
  PROVE  ValueEnd(p) = (p + Len(ExpiryText(t))) + 1 /\ Expiry(p) = t
<1>1. p \in Place /\ Len(file) \in Nat /\ Fail = 0
  BY DEF Stands, Fail
<1>2. CASE t = 0
  <2>1. ExpiryText(t) = <<>> /\ Len(<<>>) = 0
    BY <1>2 DEF ExpiryText
  <2>2. p + Len(ExpiryText(t)) = p
    BY <1>1, <2>1 DEF Place
  <2>3. Stands(p, <<NL>>)
    BY <2>2, Zenon
  <2>4. p \in 1..Len(file) /\ file[p] = NL
    BY <2>3, BlankIs, StandsFirst
  <2>5. p # Fail /\ p <= Len(file)
    BY <1>1, <2>4
  <2>6. Char(p, Blank) = Fail /\ Char(p, NL) = p + 1
    BY <2>4, <2>5, BlankIs, Zenon DEF Char
  <2>7. ~ExpiryPart(p)
    BY <2>6, Zenon DEF ExpiryPart
  <2>8. ValueEnd(p) = p + 1 /\ Expiry(p) = 0
    BY <2>6, <2>7, Zenon DEF ValueEnd, Expiry
  <2> QED
    BY <1>2, <2>2, <2>8, Zenon
<1>3. CASE t # 0
  <2> DEFINE exat == <<"E", "X", "A", "T">>
             b == <<Blank>>
             D == Decimal(t)
             h == (b \o exat) \o b
             x == p + 1
             y == x + 4
             z == y + 1
             e == z + Len(D)
  <2>1. /\ exat \in Seq(Symbols) /\ exat # <<>> /\ \A i \in 1..Len(exat) : exat[i] \notin Spaces
        /\ Len(exat) = 4 /\ b \o exat \in Seq(Symbols)
        /\ <<Blank, "E", "X", "A", "T", Blank>> = h
        /\ b \in Seq(Symbols)
    BY WordsAre, BlankIs
  <2>2. ExpiryText(t) = h \o D
    BY <1>3, <2>1, Zenon DEF ExpiryText
  <2>3. t \in Int /\ Magnitude(t) <= MaxNumber
    BY NumbersAssumption DEF Magnitude
  <2>4. D \in Seq(Symbols) /\ D # <<>> /\ D[1] \notin Spaces
    BY <2>3, DecimalBegins
  <2>5. h \in Seq(Symbols)
    <3> HIDE DEF exat, b
    <3>1. b \o exat \in Seq(Symbols) /\ b \in Seq(Symbols)
      BY <2>1
    <3> QED
      BY <3>1, ConcatProperties
  <2>6. Len(b) = 1
    BY BlankIs
  <2> HIDE DEF exat, b, D
  <2>7. /\ Stands(p, h) /\ Stands(p + Len(h), D)
        /\ p + Len(h \o D) = (p + Len(h)) + Len(D)
    <3> HIDE DEF h
    <3>1. h \in Seq(Symbols) /\ D \in Seq(Symbols) /\ Stands(p, h \o D)
      BY <2>2, <2>4, <2>5, Zenon
    <3>2. Parts(p, h, D)
      BY <3>1, StandsParts
    <3> QED
      BY <3>2, Zenon DEF Parts
  <2>8. /\ Stands(p, b \o exat) /\ Stands(p + Len(b \o exat), b)
        /\ p + Len(h) = (p + Len(b \o exat)) + Len(b)
    <3> DEFINE bx == b \o exat
    <3>1. bx \in Seq(Symbols) /\ b \in Seq(Symbols) /\ Stands(p, bx \o b)
      BY <2>1, <2>7, Zenon
    <3> HIDE DEF bx
    <3>2. Parts(p, bx, b)
      BY <3>1, StandsParts
    <3> QED
      BY <3>2, Zenon DEF Parts, bx
  <2>9. /\ Stands(p, b) /\ Stands(p + Len(b), exat)
        /\ p + Len(b \o exat) = (p + Len(b)) + Len(exat)
    <3>1. b \in Seq(Symbols) /\ exat \in Seq(Symbols) /\ Stands(p, b \o exat)
      BY <2>1, <2>8, Zenon
    <3>2. Parts(p, b, exat)
      BY <3>1, StandsParts
    <3> QED
      BY <3>2, Zenon DEF Parts
  <2>10. p + Len(b) = x /\ p + Len(b \o exat) = y /\ p + Len(h) = z
         /\ p + Len(ExpiryText(t)) = e
    <3> HIDE DEF h
    <3>1. p + Len(b) = x
      BY <2>6, Zenon
    <3>2. p + Len(b \o exat) = y
      BY <2>1, <2>9, <3>1, Zenon
    <3>3. p + Len(h) = z
      BY <2>6, <2>8, <3>2, Zenon
    <3> QED
      BY <2>2, <2>7, <3>1, <3>2, <3>3, Zenon
  <2>11. /\ Stands(p, b) /\ Stands(x, exat) /\ Stands(y, b) /\ Stands(z, D)
         /\ Stands(e, <<NL>>)
    <3> HIDE DEF h, x, y, z, e
    <3> QED
      BY <2>7, <2>8, <2>9, <2>10, Zenon
  <2> HIDE DEF h, z, e
  <2>12. p \in 1..Len(file) /\ file[p] = Blank /\ y \in 1..Len(file) /\ file[y] = Blank
    <3> HIDE DEF y
    <3> QED
      BY <2>11, BlankIs, StandsFirst DEF b
  <2>13. ExpiryPart(p)
    <3>1. p # Fail /\ p <= Len(file) /\ p + 1 # Fail
      BY <1>1, <2>12
    <3> QED
      BY <2>12, <3>1, Zenon DEF ExpiryPart, Char
  <2>14. WordEnd(p + 1, 4) = y /\ Word(p + 1, 4) = exat
    <3> HIDE DEF x, y
    <3>1. WordEnd(x, Len(exat)) = x + Len(exat) /\ Word(x, Len(exat)) = exat
      BY <2>1, <2>11, WordHere
    <3> QED
      BY <2>1, <3>1, Zenon DEF x, y
  <2>15. z \in 1..Len(file) /\ file[z] = D[1]
    BY <2>4, <2>11, StandsFirst
  <2>16. NumberStart(y) = z
    <3> HIDE DEF y
    <3>1. file[y + 1] \notin Spaces /\ y + 1 \in 1..Len(file)
      BY <2>4, <2>15, Zenon DEF z
    <3> QED
      BY <2>12, <3>1, StartsBehindBlank DEF NumberStart, z
  <2>17. Stands(z, D \o <<NL>>)
    <3> HIDE DEF y
    <3>1. Stands(z, D) /\ Stands(z + Len(D), <<NL>>)
      BY <2>11 DEF e
    <3> QED
      BY <2>4, <3>1, BlankIs, StandsTogether
  <2>18. /\ NumberEnd(y) = e /\ Number(y) = t
    <3> HIDE DEF y
    <3>1. Stands(NumberStart(y), Decimal(t) \o <<NL>>) /\ y \in Place
      BY <2>11, <2>16, <2>17, Zenon DEF D, Stands
    <3>2. NumberEnd(y) = NumberStart(y) + Len(Decimal(t)) /\ Number(y) = t
      BY <2>3, <3>1, BlankIs, NumberStands
    <3> QED
      BY <2>16, <3>2, Zenon DEF e, D
  <2>19. e \in 1..Len(file) /\ file[e] = NL
    BY <2>11, BlankIs, StandsFirst
  <2>20. Char(e, NL) = e + 1
    <3>1. e # Fail /\ e <= Len(file)
      BY <1>1, <2>19
    <3> QED
      BY <2>19, <3>1, Zenon DEF Char
  <2>21. ValueEnd(p) = e + 1 /\ Expiry(p) = t
    BY <2>13, <2>14, <2>18, <2>20, Zenon DEF ValueEnd, Expiry, exat
  <2> QED
    BY <2>10, <2>21, Zenon
<1> QED
  BY <1>2, <1>3

\* A text that clients use.
LEMMA ClientText ==
  ASSUME NEW text \in Keys \cup Values
  PROVE  text \in Seq(Symbols) /\ Len(text) <= MaxNumber
<1>1. text \in Seq(Ink)
  BY TextIsInk
<1>2. text \in Seq(Symbols)
  <2>1. \A i \in 1..Len(text) : text[i] \in Symbols
    BY <1>1, ElementOfSeq DEF Symbols
  <2> DEFINE n == Len(text)
  <2>2. n \in Nat /\ text = [i \in 1..n |-> text[i]]
    BY <1>1
  <2> HIDE DEF n
  <2>3. [i \in 1..n |-> text[i]] \in Seq(Symbols)
    BY <2>1, <2>2 DEF n
  <2> QED
    BY <2>2, <2>3
<1> QED
  BY <1>2, TextAssumption, Zenon

\* A SET that was printed is read as what it was.
LEMMA SetStands ==
  ASSUME file \in Seq(Symbols), NEW key \in Keys, NEW entry \in Entry, entry # NoEntry,
         entry.expires_at \in (-MaxNumber)..MaxNumber,
         Stands(at, Printed(key, entry))
  PROVE  /\ Word(at, 3) = <<"S", "E", "T">>
         /\ CountedText(SetKey) = key /\ CountedText(SetValue) = entry.value
         /\ Expiry(CountedEnd(SetValue)) = entry.expires_at
         /\ SetEnd = at + Len(Printed(key, entry)) /\ SetEnd # Fail
<1> DEFINE set == <<"S", "E", "T">>
           b == <<Blank>>
           w == set \o b
           K == Counted(key)
           V == Counted(entry.value)
           X == ExpiryText(entry.expires_at)
           c == w \o K
           d == c \o V
           f == d \o X
           pk == at + 3
           pv == (pk + 1) + Len(K)
           px == pv + Len(V)
           pe == px + Len(X)
<1>1. /\ set \in Seq(Symbols) /\ set # <<>> /\ \A i \in 1..Len(set) : set[i] \notin Spaces
      /\ Len(set) = 3 /\ w = <<"S", "E", "T", Blank>>
  BY WordsAre
<1>2. b \in Seq(Symbols) /\ Len(b) = 1 /\ <<NL>> \in Seq(Symbols) /\ Len(<<NL>>) = 1
  BY BlankIs
<1>3. /\ key \in Seq(Symbols) /\ Len(key) <= MaxNumber
      /\ entry.value \in Seq(Symbols) /\ Len(entry.value) <= MaxNumber
  <2>1. key \in Keys \cup Values /\ entry.value \in Keys \cup Values
    BY DEF Entry
  <2> QED
    BY <2>1, ClientText
<1>4. K \in Seq(Symbols) /\ V \in Seq(Symbols)
  BY <1>3, CountedBegins
<1>5. X \in Seq(Symbols)
  BY ExpiryTextType
<1>6. Printed(key, entry) = f \o <<NL>>
  BY <1>1, Zenon DEF Printed, ExpiryText
<1> HIDE DEF set, b, K, V, X
<1>7. w \in Seq(Symbols)
  BY <1>1, <1>2, ConcatProperties
<1>8. c \in Seq(Symbols)
  <2> HIDE DEF w
  <2> QED
    BY <1>4, <1>7, ConcatProperties
<1>9. d \in Seq(Symbols)
  <2> HIDE DEF c
  <2> QED
    BY <1>4, <1>8, ConcatProperties
<1>10. f \in Seq(Symbols)
  <2> HIDE DEF d
  <2> QED
    BY <1>5, <1>9, ConcatProperties
<1>11. /\ Stands(at, f) /\ Stands(at + Len(f), <<NL>>)
       /\ at + Len(Printed(key, entry)) = (at + Len(f)) + 1
  <2> HIDE DEF f
  <2> DEFINE z == <<NL>>
  <2>1. f \in Seq(Symbols) /\ z \in Seq(Symbols) /\ Stands(at, f \o z) /\ Len(z) = 1
    BY <1>2, <1>6, <1>10, Zenon
  <2> HIDE DEF z
  <2>2. Parts(at, f, z)
    BY <2>1, StandsParts
  <2>3. Stands(at, f) /\ Stands(at + Len(f), z) /\ at + Len(f \o z) = (at + Len(f)) + 1
    BY <2>1, <2>2, Zenon DEF Parts
  <2> QED
    BY <1>6, <2>3, Zenon DEF z
<1>12. Stands(at, d) /\ Stands(at + Len(d), X) /\ at + Len(f) = (at + Len(d)) + Len(X)
  <2> HIDE DEF d
  <2>1. d \in Seq(Symbols) /\ X \in Seq(Symbols) /\ Stands(at, d \o X)
    BY <1>5, <1>9, <1>11, Zenon
  <2>2. Parts(at, d, X)
    BY <2>1, StandsParts
  <2> QED
    BY <2>2, Zenon DEF Parts
<1>13. Stands(at, c) /\ Stands(at + Len(c), V) /\ at + Len(d) = (at + Len(c)) + Len(V)
  <2> HIDE DEF c
  <2>1. c \in Seq(Symbols) /\ V \in Seq(Symbols) /\ Stands(at, c \o V)
    BY <1>4, <1>8, <1>12, Zenon
  <2>2. Parts(at, c, V)
    BY <2>1, StandsParts
  <2> QED
    BY <2>2, Zenon DEF Parts
<1>14. Stands(at, w) /\ Stands(at + Len(w), K) /\ at + Len(c) = (at + Len(w)) + Len(K)
  <2> HIDE DEF w
  <2>1. w \in Seq(Symbols) /\ K \in Seq(Symbols) /\ Stands(at, w \o K)
    BY <1>4, <1>7, <1>13, Zenon
  <2>2. Parts(at, w, K)
    BY <2>1, StandsParts
  <2> QED
    BY <2>2, Zenon DEF Parts
<1>15. Stands(at, set) /\ Stands(at + Len(set), b) /\ at + Len(w) = (at + Len(set)) + Len(b)
  <2>1. set \in Seq(Symbols) /\ b \in Seq(Symbols) /\ Stands(at, set \o b)
    BY <1>1, <1>2, <1>14, Zenon
  <2>2. Parts(at, set, b)
    BY <2>1, StandsParts
  <2> QED
    BY <2>2, Zenon DEF Parts
<1> HIDE DEF w, c, d, f
<1>16. /\ at + Len(set) = pk /\ at + Len(w) = pk + 1 /\ at + Len(c) = pv
       /\ at + Len(d) = px /\ at + Len(f) = pe
  <2>1. at + Len(set) = pk
    BY <1>1, Zenon
  <2>2. at + Len(w) = pk + 1
    BY <1>2, <1>15, <2>1, Zenon
  <2>3. at + Len(c) = pv
    BY <1>14, <2>2, Zenon
  <2>4. at + Len(d) = px
    BY <1>13, <2>3, Zenon
  <2> QED
    BY <1>12, <2>1, <2>2, <2>3, <2>4, Zenon
<1>17. /\ Stands(at, set) /\ Stands(pk, b) /\ Stands(pk + 1, K) /\ Stands(pv, V)
       /\ Stands(px, X) /\ Stands(pe, <<NL>>)
  BY <1>11, <1>12, <1>13, <1>14, <1>15, <1>16, Zenon
<1> HIDE DEF pv, px, pe
<1>18. WordEnd(at, 3) = pk /\ Word(at, 3) = set
  <2>1. WordEnd(at, Len(set)) = at + Len(set) /\ Word(at, Len(set)) = set
    BY <1>1, <1>17, WordHere
  <2> QED
    BY <1>1, <2>1, Zenon
<1>19. SetKey = pk
  BY <1>18, Zenon DEF SetKey
<1> HIDE DEF pk
<1>20. CountedEnd(pk) = pv /\ CountedText(pk) = key
  <2>1. Stands(pk, <<Blank>>) /\ Stands(pk + 1, Counted(key))
    BY <1>17, Zenon DEF b, K
  <2>2. CountedEnd(pk) = (pk + 1) + Len(Counted(key)) /\ CountedText(pk) = key
    BY <1>3, <2>1, CountedBehindBlank
  <2> QED
    BY <2>2, Zenon DEF pv, K
<1>21. SetValue = pv
  BY <1>19, <1>20, Zenon DEF SetValue
<1>22. CountedEnd(pv) = px /\ CountedText(pv) = entry.value
  <2> DEFINE v == entry.value
  <2>1. Stands(pv, Counted(v))
    BY <1>17, Zenon DEF V
  <2>2. v \in Seq(Symbols) /\ Len(v) <= MaxNumber
    BY <1>3
  <2> HIDE DEF v
  <2>3. CountedEnd(pv) = pv + Len(Counted(v)) /\ CountedText(pv) = v
    BY <2>1, <2>2, CountedHere
  <2> QED
    BY <2>3, Zenon DEF px, V, v
<1>23. ValueEnd(px) = pe + 1 /\ Expiry(px) = entry.expires_at
  <2> DEFINE t == entry.expires_at
  <2>1. t \in (-MaxNumber)..MaxNumber /\ Stands(px, ExpiryText(t)) /\ Stands(px + Len(ExpiryText(t)), <<NL>>)
    BY <1>17, Zenon DEF X, pe
  <2> HIDE DEF t
  <2>2. ValueEnd(px) = (px + Len(ExpiryText(t))) + 1 /\ Expiry(px) = t
    BY <2>1, ExpiryStands
  <2> QED
    BY <2>2, Zenon DEF t, pe, X
<1>24. SetEnd = pe + 1
  BY <1>21, <1>22, <1>23, Zenon DEF SetEnd
<1>25. pe + 1 # Fail
  BY <1>17 DEF Stands, Place, Fail
<1>26. SetEnd = at + Len(Printed(key, entry))
  BY <1>11, <1>16, <1>24, Zenon
<1> QED
  BY <1>18, <1>19, <1>20, <1>21, <1>22, <1>23, <1>24, <1>25, <1>26, Zenon DEF set

\* So is a DEL.
LEMMA DelStands ==
  ASSUME file \in Seq(Symbols), NEW key \in Keys, Stands(at, Printed(key, NoEntry))
  PROVE  /\ Word(at, 3) = <<"D", "E", "L">>
         /\ CountedText(DelKey) = key
         /\ DelEnd = at + Len(Printed(key, NoEntry)) /\ DelEnd # Fail
<1> DEFINE del == <<"D", "E", "L">>
           b == <<Blank>>
           w == del \o b
           K == Counted(key)
           c == w \o K
           pk == at + 3
           pe == (pk + 1) + Len(K)
<1>1. /\ del \in Seq(Symbols) /\ del # <<>> /\ \A i \in 1..Len(del) : del[i] \notin Spaces
      /\ Len(del) = 3 /\ w = <<"D", "E", "L", Blank>>
  BY WordsAre
<1>2. b \in Seq(Symbols) /\ Len(b) = 1 /\ <<NL>> \in Seq(Symbols) /\ Len(<<NL>>) = 1
  BY BlankIs
<1>3. key \in Seq(Symbols) /\ Len(key) <= MaxNumber
  BY ClientText
<1>4. K \in Seq(Symbols)
  BY <1>3, CountedBegins
<1>5. Printed(key, NoEntry) = c \o <<NL>>
  BY <1>1, Zenon DEF Printed
<1> HIDE DEF del, b, K
<1>6. w \in Seq(Symbols)
  BY <1>1, <1>2, ConcatProperties
<1>7. c \in Seq(Symbols)
  <2> HIDE DEF w
  <2> QED
    BY <1>4, <1>6, ConcatProperties
<1>8. /\ Stands(at, c) /\ Stands(at + Len(c), <<NL>>)
      /\ at + Len(Printed(key, NoEntry)) = (at + Len(c)) + 1
  <2> HIDE DEF c
  <2> DEFINE z == <<NL>>
  <2>1. c \in Seq(Symbols) /\ z \in Seq(Symbols) /\ Stands(at, c \o z) /\ Len(z) = 1
    BY <1>2, <1>5, <1>7, Zenon
  <2> HIDE DEF z
  <2>2. Parts(at, c, z)
    BY <2>1, StandsParts
  <2>3. Stands(at, c) /\ Stands(at + Len(c), z) /\ at + Len(c \o z) = (at + Len(c)) + 1
    BY <2>1, <2>2, Zenon DEF Parts
  <2> QED
    BY <1>5, <2>3, Zenon DEF z
<1>9. Stands(at, w) /\ Stands(at + Len(w), K) /\ at + Len(c) = (at + Len(w)) + Len(K)
  <2> HIDE DEF w
  <2>1. w \in Seq(Symbols) /\ K \in Seq(Symbols) /\ Stands(at, w \o K)
    BY <1>4, <1>6, <1>8, Zenon
  <2>2. Parts(at, w, K)
    BY <2>1, StandsParts
  <2> QED
    BY <2>2, Zenon DEF Parts
<1>10. Stands(at, del) /\ Stands(at + Len(del), b) /\ at + Len(w) = (at + Len(del)) + Len(b)
  <2>1. del \in Seq(Symbols) /\ b \in Seq(Symbols) /\ Stands(at, del \o b)
    BY <1>1, <1>2, <1>9, Zenon
  <2>2. Parts(at, del, b)
    BY <2>1, StandsParts
  <2> QED
    BY <2>2, Zenon DEF Parts
<1> HIDE DEF w, c
<1>11. at + Len(del) = pk /\ at + Len(w) = pk + 1 /\ at + Len(c) = pe
  <2>1. at + Len(del) = pk
    BY <1>1, Zenon
  <2>2. at + Len(w) = pk + 1
    BY <1>2, <1>10, <2>1, Zenon
  <2> QED
    BY <1>9, <2>1, <2>2, Zenon
<1>12. Stands(at, del) /\ Stands(pk, b) /\ Stands(pk + 1, K) /\ Stands(pe, <<NL>>)
  BY <1>8, <1>9, <1>10, <1>11, Zenon
<1> HIDE DEF pe
<1>13. WordEnd(at, 3) = pk /\ Word(at, 3) = del
  <2>1. WordEnd(at, Len(del)) = at + Len(del) /\ Word(at, Len(del)) = del
    BY <1>1, <1>12, WordHere
  <2> QED
    BY <1>1, <2>1, Zenon
<1>14. DelKey = pk
  BY <1>13, Zenon DEF DelKey
<1> HIDE DEF pk
<1>15. CountedEnd(pk) = pe /\ CountedText(pk) = key
  <2>1. Stands(pk, <<Blank>>) /\ Stands(pk + 1, Counted(key))
    BY <1>12, Zenon DEF b, K
  <2>2. CountedEnd(pk) = (pk + 1) + Len(Counted(key)) /\ CountedText(pk) = key
    BY <1>3, <2>1, CountedBehindBlank
  <2> QED
    BY <2>2, Zenon DEF pe, K
<1>16. pe \in 1..Len(file) /\ file[pe] = NL
  BY <1>12, BlankIs, StandsFirst
<1>17. pe # Fail /\ pe <= Len(file) /\ pe + 1 # Fail
  BY <1>16 DEF Fail
<1>18. DelEnd = pe + 1
  BY <1>14, <1>15, <1>16, <1>17, Zenon DEF DelEnd, Char
<1> QED
  BY <1>8, <1>11, <1>13, <1>14, <1>15, <1>17, <1>18, Zenon DEF del

-----------------------------------------------------------------------------
(* The inductive invariant.  Behind: the loader starts each round behind a *)
(* newline.  No partial record has one, so none at the end of the file is  *)
(* ever passed.                                                            *)

Behind == pc = "loading" => at = 1 \/ file[at - 1] = NL

IInv ==
    /\ TypeOK
    /\ log \in Logs /\ file = FileOf(log)
    /\ table = [k \in Keys |-> table[k]]
    /\ Behind
    /\ TornTailRefused

LEMMA FileType == IInv => file \in Seq(Symbols) /\ log \in Seq(Written)
  BY Layout, LogsAssumption DEF IInv

LEMMA InitIInv == Init => IInv
<1> SUFFICES ASSUME Init
             PROVE  IInv
  OBVIOUS
<1>1. log \in Seq(Written) /\ file = FileOf(log)
  BY LogsAssumption DEF Init, FileOf
<1>2. file \in Seq(Symbols)
  BY <1>1, Layout
<1>3. at \in 1..(Len(file) + 1)
  BY <1>2 DEF Init
<1>4. pc \in {"loading", "ready", "refused"} /\ pc # "ready"
  BY DEF Init
<1>5. \A k \in Keys : table[k] = NoEntry
  BY DEF Init
<1>6. TypeOK
  BY <1>3, <1>4, <1>5, Zenon DEF TypeOK
<1>7. Behind /\ TornTailRefused
  BY <1>4, Zenon DEF Behind, TornTailRefused, Init
<1>8. table = [k \in Keys |-> table[k]]
  BY DEF Init
<1> QED
  BY <1>1, <1>6, <1>7, <1>8, Zenon DEF IInv, Init

\* The loader finds a word in a partial record at the end of the file.
LEMMA TornTailHasWord ==
  ASSUME IInv, pc = "loading", Word(at, 3) = <<>>, log # <<>>
  PROVE  Whole(Last(log))
<1> SUFFICES ASSUME ~Whole(Last(log))
             PROVE  FALSE
  OBVIOUS
<1> DEFINE r == Last(log)
           m == r.size
           t == TextOf(r)
           q == FindOther(file, at, Spaces)
           e == WordEnd(at, 3)
<1>1. file \in Seq(Symbols) /\ log \in Seq(Written) /\ file = FileOf(log)
  BY FileType DEF IInv
<1>2. PICK b \in Nat : /\ r \in Written /\ Len(file) = b + m
                       /\ \A i \in 1..m : file[b + i] = t[i]
  BY <1>1, FileEnds
<1>3. m \in Nat \ {0} /\ t[1] \in {"S", "D"} /\ \A i \in 1..m : t[i] # NL
  BY <1>2, TextOfIs
<1> HIDE DEF m, t
<1>4. at \in Place /\ at \in 1..(b + m + 1)
  BY <1>2, Zenon DEF IInv, TypeOK, Place
<1>5. at <= b + 1
  <2> SUFFICES ASSUME ~(at <= b + 1)
               PROVE  FALSE
    OBVIOUS
  <2> DEFINE i == at - 1 - b
  <2>1. i \in 1..m /\ b + i = at - 1 /\ at # 1
    BY <1>3, <1>4
  <2>2. file[at - 1] = NL
    BY <2>1, Zenon DEF IInv, Behind
  <2> HIDE DEF i
  <2>3. t[i] = NL
    BY <1>2, <2>1, <2>2, Zenon
  <2> QED
    BY <1>3, <2>1, <2>3, Zenon
<1>6. /\ q \in at..(Len(file) + 1) /\ e \in q..(Len(file) + 1)
      /\ q <= Len(file) => e > q
      /\ \A i \in at..(q - 1) : file[i] \in Spaces
  <2>1. 3 \in Nat \ {0}
    OBVIOUS
  <2> QED
    BY <1>1, <1>4, <2>1, WordMoves
<1>7. Word(at, 3) = SubSeq(file, q, e - 1)
  BY Zenon DEF Word, q, e
<1> HIDE DEF q, e
<1>8. q <= b + 1
  <2> SUFFICES ASSUME ~(q <= b + 1)
               PROVE  FALSE
    OBVIOUS
  <2>1. b + 1 \in at..(q - 1) /\ 1 \in 1..m
    BY <1>2, <1>3, <1>4, <1>5, <1>6
  <2>2. t[1] \in Spaces
    BY <1>2, <1>6, <2>1, Zenon
  <2> QED
    BY <1>3, <2>2, InkIs, Zenon
<1>9. q \in 1..(Len(file) + 1) /\ e - 1 \in (q - 1)..Len(file) /\ e - 1 - q + 1 # 0
  BY <1>2, <1>3, <1>4, <1>6, <1>8
<1>10. Len(Word(at, 3)) = e - 1 - q + 1
  BY <1>1, <1>7, <1>9, PieceOf
<1>11. Len(Word(at, 3)) = 0
  OBVIOUS
<1> QED
  BY <1>9, <1>10, <1>11, Zenon

\* Every word the loader reads ends in the file.
LEMMA WordStays ==
  ASSUME file \in Seq(Symbols), NEW p \in Place, NEW n \in Nat \ {0}
  PROVE  WordEnd(p, n) \in Place
<1> DEFINE q == FindOther(file, p, Spaces)
<1>1. q \in p..(Len(file) + 1) /\ WordEnd(p, n) \in q..(Len(file) + 1)
  BY WordMoves
<1> HIDE DEF q
<1>2. Len(file) \in Nat
  OBVIOUS
<1> QED
  BY <1>1, <1>2 DEF Place

\* A record read leaves the loader behind a newline, and its expiry is a number.
LEMMA ReadSetMoves ==
  ASSUME file \in Seq(Symbols), at \in Place, SetEnd # Fail
  PROVE  /\ SetEnd \in Place /\ file[SetEnd - 1] = NL
         /\ Expiry(CountedEnd(SetValue)) \in Int
<1> DEFINE v == CountedEnd(SetValue)
           w == WordEnd(v + 1, 4)
<1>1. SetKey \in Place
  BY WordStays DEF SetKey
<1>2. SetValue \in Place \cup {Fail}
  BY <1>1, CountedMoves DEF SetValue
<1>3. v \in Place \cup {Fail} /\ ValueEnd(v) = SetEnd
  BY <1>2, CountedMoves DEF SetEnd
<1> HIDE DEF v
<1>4. /\ ValueEnd(v) \in Place /\ file[ValueEnd(v) - 1] = NL
      /\ ExpiryPart(v) => w \in Place /\ NumberEnd(w) # Fail
  BY <1>3, ValueMoves
<1> HIDE DEF w
<1>5. Expiry(v) \in Int
  <2>1. CASE ExpiryPart(v)
    <3>1. Number(w) \in Int
      BY <1>4, <2>1, NumberType
    <3> QED
      BY <2>1, <3>1, Zenon DEF Expiry, w
  <2>2. CASE ~ExpiryPart(v)
    <3>1. Expiry(v) = 0
      BY <2>2, Zenon DEF Expiry
    <3> QED
      BY <3>1
  <2> QED
    BY <2>1, <2>2
<1> QED
  BY <1>3, <1>4, <1>5, Zenon DEF v

LEMMA ReadDelMoves ==
  ASSUME file \in Seq(Symbols), at \in Place, DelEnd # Fail
  PROVE  DelEnd \in Place /\ file[DelEnd - 1] = NL
<1> DEFINE v == CountedEnd(DelKey)
<1>1. DelKey \in Place
  BY WordStays DEF DelKey
<1>2. v \in Place \cup {Fail} /\ DelEnd = Char(v, NL)
  BY <1>1, CountedMoves DEF DelEnd
<1> HIDE DEF v
<1>3. v \in 1..Len(file) /\ DelEnd = v + 1 /\ file[v] = NL
  BY <1>2, CharMoves
<1> QED
  BY <1>3 DEF Place

LEMMA NextIInv == IInv /\ [Next]_vars => IInv'
<1> SUFFICES ASSUME IInv, [Next]_vars
             PROVE  IInv'
  OBVIOUS
<1>1. file \in Seq(Symbols) /\ at \in Place /\ Len(file) \in Nat
  BY FileType DEF IInv, TypeOK, Place
<1>2. ASSUME ReadSet
      PROVE  IInv'
  <2> DEFINE entry == [value |-> CountedText(SetValue),
                       expires_at |-> Expiry(CountedEnd(SetValue))]
  <2>1. pc' = pc /\ pc = "loading" /\ file' = file /\ log' = log /\ at' = SetEnd
    BY <1>2, Zenon DEF ReadSet, Reading
  <2>2. SetEnd \in Place /\ file[SetEnd - 1] = NL /\ Expiry(CountedEnd(SetValue)) \in Int
    BY <1>1, <1>2, ReadSetMoves DEF ReadSet
  <2>3. entry.expires_at \in Int
    BY <2>2
  <2>4. table' = table \/ Store(CountedText(SetKey), entry)
    BY <1>2, Zenon DEF ReadSet, entry
  <2> HIDE DEF entry
  <2>5. \A k \in Keys : table'[k] # NoEntry => table'[k].expires_at \in Int
    <3> TAKE k \in Keys
    <3>1. table'[k] = table[k] \/ table'[k] = entry
      BY <2>4 DEF Store
    <3> QED
      BY <2>3, <3>1, Zenon DEF IInv, TypeOK
  <2>6. TypeOK'
    BY <2>1, <2>2, <2>5, Zenon DEF IInv, TypeOK, Place
  <2>7. Behind'
    BY <2>1, <2>2, Zenon DEF Behind
  <2>8. TornTailRefused'
    <3>1. pc' # "ready"
      BY <2>1
    <3> QED
      BY <3>1, Zenon DEF TornTailRefused
  <2>9. table' = [k \in Keys |-> table'[k]]
    <3>1. CASE table' = table
      BY <3>1, Zenon DEF IInv
    <3>2. CASE Store(CountedText(SetKey), entry)
      BY <3>2 DEF Store
    <3> QED
      BY <2>4, <3>1, <3>2
  <2> QED
    BY <2>1, <2>6, <2>7, <2>8, <2>9, Zenon DEF IInv, FileOf
<1>3. ASSUME ReadDel
      PROVE  IInv'
  <2>1. pc' = pc /\ pc = "loading" /\ file' = file /\ log' = log /\ at' = DelEnd
    BY <1>3, Zenon DEF ReadDel, Reading
  <2>2. DelEnd \in Place /\ file[DelEnd - 1] = NL
    BY <1>1, <1>3, ReadDelMoves DEF ReadDel
  <2>3. \A k \in Keys : table'[k] = table[k] \/ table'[k] = NoEntry
    BY <1>3 DEF ReadDel, Store
  <2>4. TypeOK'
    BY <2>1, <2>2, <2>3, Zenon DEF IInv, TypeOK, Place
  <2>5. Behind'
    BY <2>1, <2>2, Zenon DEF Behind
  <2>6. TornTailRefused'
    <3>1. pc' # "ready"
      BY <2>1
    <3> QED
      BY <3>1, Zenon DEF TornTailRefused
  <2>7. table' = [k \in Keys |-> table'[k]]
    BY <1>3 DEF ReadDel, Store
  <2> QED
    BY <2>1, <2>4, <2>5, <2>6, <2>7, Zenon DEF IInv, FileOf
<1>4. ASSUME Refuse
      PROVE  IInv'
  <2>1. pc' = "refused" /\ file' = file /\ log' = log /\ at' = 1
        /\ table' = [k \in Keys |-> NoEntry]
    BY <1>4, Zenon DEF Refuse
  <2>2. pc' # "ready" /\ 1 \in Place
    BY <1>1, <2>1 DEF Place
  <2>3. \A k \in Keys : table'[k] = NoEntry
    BY <2>1, Zenon
  <2>4. TypeOK'
    BY <2>1, <2>2, <2>3, Zenon DEF TypeOK, Place
  <2>5. Behind' /\ TornTailRefused'
    BY <2>1, <2>2, Zenon DEF Behind, TornTailRefused
  <2>6. table' = [k \in Keys |-> table'[k]]
    BY <2>1
  <2> QED
    BY <2>1, <2>4, <2>5, <2>6, Zenon DEF IInv, FileOf
<1>5. ASSUME Finish
      PROVE  IInv'
  <2>1. pc = "loading" /\ Word(at, 3) = <<>> /\ pc' = "ready" /\ at' = 1
        /\ file' = file /\ log' = log /\ table' = table
    BY <1>5, Zenon DEF Finish
  <2>2. 1 \in Place
    BY <1>1 DEF Place
  <2>3. TypeOK'
    BY <2>1, <2>2, Zenon DEF IInv, TypeOK, Place
  <2>4. log # <<>> => Whole(Last(log))
    BY <2>1, TornTailHasWord
  <2>5. Behind' /\ TornTailRefused'
    BY <2>1, <2>4, Zenon DEF Behind, TornTailRefused, Whole
  <2> QED
    BY <2>1, <2>3, <2>5, Zenon DEF IInv, FileOf
<1>6. ASSUME UNCHANGED vars
      PROVE  IInv'
  BY <1>6, Zenon DEF vars, IInv, TypeOK, Behind, TornTailRefused, FileOf, Whole
<1> QED
  BY <1>2, <1>3, <1>4, <1>5, <1>6 DEF Next

\* Every reachable state of the loader fulfils the invariant.
THEOREM Invariant == Spec => []IInv
  BY InitIInv, NextIInv, PTL DEF Spec

\* persistence_load never leaves the file, and every expiry it puts into the
\* table is a number, however damaged the file is.
THEOREM TypeCorrect == Spec => []TypeOK
<1>1. IInv => TypeOK
  BY DEF IInv
<1> QED
  BY <1>1, Invariant, PTL

\* A file that ends in a partial record never loads, wherever append_* or
\* persistence_rewrite was cut and whatever the keys and values look like.
THEOREM TornTailNeverLoads == Spec => []TornTailRefused
<1>1. IInv => TornTailRefused
  BY DEF IInv
<1> QED
  BY <1>1, Invariant, PTL

\* Every round begins where a record begins, or at the end of the file.
BetweenRecords ==
    pc = "loading" => \E n \in 1..(Len(log) + 1) : at = StartOf(n)

\* Behind a newline is where a record begins.
LEMMA BehindIsBetween == IInv => BetweenRecords
<1>1. ASSUME IInv, pc = "loading"
      PROVE  \E n \in 1..(Len(log) + 1) : at = StartOf(n)
  <2>1. log \in Seq(Written) /\ file = FileOf(log) /\ file \in Seq(Symbols)
    BY <1>1, FileType DEF IInv
  <2>2. Len(log) \in Nat /\ Len(file) \in Nat /\ at \in 1..(Len(file) + 1)
    BY <1>1, <2>1 DEF IInv, TypeOK
  <2>3. \A n : StartOf(n) = Begins(log, n)
    BY Zenon DEF StartOf, Begins
  <2>4. CASE at = 1
    <3>1. 1 \in 1..(Len(log) + 1) /\ at = Begins(log, 1)
      BY <2>1, <2>2, <2>4, Layout
    <3> QED
      BY <2>3, <3>1, Zenon
  <2>5. CASE at # 1
    <3> DEFINE p == at - 1
    <3>1. p \in 1..Len(file) /\ p + 1 = at
      BY <2>2, <2>5
    <3>2. file[p] = NL
      BY <1>1, <2>5, Zenon DEF IInv, Behind
    <3> HIDE DEF p
    <3>3. p \in 1..Len(FileOf(log)) /\ FileOf(log)[p] = NL
      BY <2>1, <3>1, <3>2, Zenon
    <3>4. PICK n \in 2..(Len(log) + 1) : p + 1 = Begins(log, n)
      BY <2>1, <3>3, NewlineEnds, Zenon
    <3>5. n \in 1..(Len(log) + 1)
      BY <2>2
    <3> QED
      BY <2>3, <3>1, <3>4, <3>5, Zenon
  <2> QED
    BY <2>4, <2>5
<1> QED
  BY <1>1, Zenon DEF BetweenRecords

\* A whole record stands in the file where it begins.
LEMMA WholeStands ==
  ASSUME IInv, NEW n \in DOMAIN log, Whole(log[n]), at = StartOf(n)
  PROVE  /\ log[n] \in Written /\ file \in Seq(Symbols)
         /\ Stands(at, Printed(log[n].key, log[n].entry))
         /\ StartOf(n + 1) = at + Len(Printed(log[n].key, log[n].entry))
<1> DEFINE r == log[n]
           t == Printed(r.key, r.entry)
           m == r.size
<1>1. log \in Seq(Written) /\ file = FileOf(log) /\ file \in Seq(Symbols)
  BY FileType DEF IInv
<1>2. n \in 1..Len(log) /\ Len(file) \in Nat
  BY <1>1
<1>3. StartOf(n) = Begins(log, n) /\ StartOf(n + 1) = Begins(log, n + 1)
  BY Zenon DEF StartOf, Begins
<1>4. /\ r \in Written /\ at \in Nat \ {0}
      /\ Begins(log, n + 1) = at + m /\ Begins(log, n + 1) <= Len(file) + 1
      /\ \A i \in 1..m : file[at + i - 1] = TextOf(r)[i]
  <2> DEFINE a == Begins(log, n)
             e == Begins(log, n + 1)
             g == FileOf(log)
  <2>1. /\ r \in Written /\ a \in Nat \ {0} /\ e = a + m /\ e <= Len(g) + 1
        /\ \A i \in 1..m : g[a + i - 1] = TextOf(r)[i]
    BY <1>1, <1>2, Layout, Zenon
  <2> HIDE DEF a, e, g, r, m
  <2>2. at = a /\ file = g
    BY <1>1, <1>3, Zenon DEF a, g
  <2>3. /\ at \in Nat \ {0} /\ e = at + m /\ e <= Len(file) + 1
        /\ \A i \in 1..m : file[at + i - 1] = TextOf(r)[i]
    BY <2>1, <2>2, Zenon
  <2> QED
    BY <2>1, <2>3, Zenon DEF e
<1>5. m = Len(t) /\ TextOf(r) = t /\ m \in Nat \ {0}
  BY <1>4, TextOfIs, Zenon DEF Whole
<1> HIDE DEF r, t, m
<1>6. at \in Place /\ at + m \in Place
  BY <1>2, <1>4, <1>5 DEF Place
<1>7. Stands(at, t)
  BY <1>4, <1>5, <1>6, Zenon DEF Stands
<1> QED
  BY <1>1, <1>3, <1>4, <1>5, <1>7, Zenon DEF r, t

\* Where a whole SET or DEL stands, the loader can only read it.
LEMMA SetReadBack ==
  ASSUME IInv, Next, pc = "loading",
         NEW n \in DOMAIN log, Whole(log[n]), at = StartOf(n), log[n].entry # NoEntry
  PROVE  pc' = "loading" /\ at' = StartOf(n + 1) /\ table' = Loaded(log[n])
<1> DEFINE r == log[n]
           entry == [value |-> CountedText(SetValue),
                     expires_at |-> Expiry(CountedEnd(SetValue))]
<1>1. /\ r \in Written /\ file \in Seq(Symbols) /\ Stands(at, Printed(r.key, r.entry))
      /\ StartOf(n + 1) = at + Len(Printed(r.key, r.entry))
  BY WholeStands
<1>2. r.key \in Keys /\ r.entry \in Entry /\ r.entry.expires_at \in (-MaxNumber)..MaxNumber
  BY <1>1 DEF Written
<1> HIDE DEF r
<1>3. /\ Word(at, 3) = <<"S", "E", "T">>
      /\ CountedText(SetKey) = r.key /\ CountedText(SetValue) = r.entry.value
      /\ Expiry(CountedEnd(SetValue)) = r.entry.expires_at
      /\ SetEnd = at + Len(Printed(r.key, r.entry)) /\ SetEnd # Fail
  <2> DEFINE k == r.key
             x == r.entry
  <2>1. /\ k \in Keys /\ x \in Entry /\ x # NoEntry /\ x.expires_at \in (-MaxNumber)..MaxNumber
        /\ Stands(at, Printed(k, x))
    BY <1>1, <1>2 DEF r
  <2> HIDE DEF k, x
  <2>2. /\ Word(at, 3) = <<"S", "E", "T">>
        /\ CountedText(SetKey) = k /\ CountedText(SetValue) = x.value
        /\ Expiry(CountedEnd(SetValue)) = x.expires_at
        /\ SetEnd = at + Len(Printed(k, x)) /\ SetEnd # Fail
    BY <1>1, <2>1, SetStands
  <2> QED
    BY <2>2, Zenon DEF k, x
<1>4. entry = r.entry
  <2>1. r.entry = [value |-> r.entry.value, expires_at |-> r.entry.expires_at]
    BY <1>2 DEF Entry
  <2> QED
    BY <1>3, <2>1, Zenon
<1>5. ReadSet
  <2>1. <<"S", "E", "T">> # <<"D", "E", "L">> /\ <<"S", "E", "T">> # <<>>
        /\ <<"S", "E", "T">> \in {<<>>, <<"S", "E", "T">>, <<"D", "E", "L">>}
    OBVIOUS
  <2> QED
    BY <1>3, <2>1, Zenon DEF Next, ReadDel, Refuse, Finish, Reading
<1>6. /\ pc' = pc /\ at' = SetEnd
      /\ IF Expired(entry, now) THEN UNCHANGED table ELSE Store(CountedText(SetKey), entry)
  BY <1>5, Zenon DEF ReadSet
<1> HIDE DEF entry
<1>7. table' = Loaded(r)
  <2>1. CASE Expired(r.entry, now)
    <3>1. table' = table
      BY <1>4, <1>6, <2>1, Zenon
    <3> QED
      BY <2>1, <3>1, Zenon DEF Loaded, r
  <2>2. CASE ~Expired(r.entry, now)
    <3>1. Store(r.key, r.entry)
      BY <1>3, <1>4, <1>6, <2>2, Zenon
    <3> DEFINE k == r.key
               x == r.entry
    <3>2. table' = [j \in Keys |-> IF j = k THEN x ELSE table[j]]
      BY <3>1, Zenon DEF Store
    <3>3. table = [j \in Keys |-> table[j]]
      BY Zenon DEF IInv
    <3> HIDE DEF k, x
    <3>4. table' = [table EXCEPT ![k] = x]
      BY <3>2, <3>3
    <3> QED
      BY <2>2, <3>4, Zenon DEF Loaded, k, x
  <2> QED
    BY <2>1, <2>2
<1> QED
  BY <1>1, <1>3, <1>6, <1>7, Zenon DEF r

LEMMA DelReadBack ==
  ASSUME IInv, Next, pc = "loading",
         NEW n \in DOMAIN log, Whole(log[n]), at = StartOf(n), log[n].entry = NoEntry
  PROVE  pc' = "loading" /\ at' = StartOf(n + 1) /\ table' = Loaded(log[n])
<1> DEFINE r == log[n]
<1>1. /\ r \in Written /\ file \in Seq(Symbols) /\ Stands(at, Printed(r.key, r.entry))
      /\ StartOf(n + 1) = at + Len(Printed(r.key, r.entry))
  BY WholeStands
<1>2. r.key \in Keys /\ r.entry = NoEntry
  BY <1>1 DEF Written
<1> HIDE DEF r
<1>3. /\ Word(at, 3) = <<"D", "E", "L">> /\ CountedText(DelKey) = r.key
      /\ DelEnd = at + Len(Printed(r.key, r.entry)) /\ DelEnd # Fail
  <2> DEFINE k == r.key
  <2>1. k \in Keys /\ Stands(at, Printed(k, NoEntry))
    BY <1>1, <1>2, Zenon
  <2> HIDE DEF k
  <2>2. /\ Word(at, 3) = <<"D", "E", "L">> /\ CountedText(DelKey) = k
        /\ DelEnd = at + Len(Printed(k, NoEntry)) /\ DelEnd # Fail
    BY <1>1, <2>1, DelStands
  <2> QED
    BY <1>2, <2>2, Zenon DEF k
<1>4. ReadDel
  <2>1. <<"D", "E", "L">> # <<"S", "E", "T">> /\ <<"D", "E", "L">> # <<>>
        /\ <<"D", "E", "L">> \in {<<>>, <<"S", "E", "T">>, <<"D", "E", "L">>}
    OBVIOUS
  <2> QED
    BY <1>3, <2>1, Zenon DEF Next, ReadSet, Refuse, Finish, Reading
<1>5. pc' = pc /\ at' = DelEnd /\ Store(CountedText(DelKey), NoEntry)
  BY <1>4, Zenon DEF ReadDel
<1>6. table' = Loaded(r)
  <2> DEFINE k == r.key
  <2>1. table' = [j \in Keys |-> IF j = k THEN NoEntry ELSE table[j]]
    BY <1>3, <1>5, Zenon DEF Store
  <2>2. table = [j \in Keys |-> table[j]]
    BY Zenon DEF IInv
  <2> HIDE DEF k
  <2>3. table' = [table EXCEPT ![k] = NoEntry]
    BY <2>1, <2>2
  <2> QED
    BY <1>2, <2>3, Zenon DEF Loaded, k
<1> QED
  BY <1>1, <1>3, <1>5, <1>6, Zenon DEF r

\* Behind the last record there is no further word.
LEMMA EndReadBack ==
  ASSUME IInv, Next, pc = "loading", at = StartOf(Len(log) + 1)
  PROVE  pc' = "ready" /\ table' = table
<1> DEFINE q == FindOther(file, at, Spaces)
           e == WordEnd(at, 3)
           L == Len(file)
<1>1. log \in Seq(Written) /\ file = FileOf(log) /\ file \in Seq(Symbols) /\ L \in Nat
  BY FileType DEF IInv
<1>2. at = L + 1
  <2>1. StartOf(Len(log) + 1) = Begins(log, Len(log) + 1)
    BY Zenon DEF StartOf, Begins
  <2> QED
    BY <1>1, <2>1, Layout, Zenon
<1>3. q \in at..(L + 1) /\ e \in q..(L + 1)
  <2>1. at \in Place /\ 3 \in Nat \ {0}
    BY <1>1, <1>2 DEF Place
  <2> QED
    BY <1>1, <2>1, WordMoves
<1>4. Word(at, 3) = SubSeq(file, q, e - 1)
  BY Zenon DEF Word
<1> HIDE DEF q, e, L
<1>5. q = L + 1 /\ e - 1 = L
  BY <1>1, <1>2, <1>3
<1>6. Word(at, 3) = <<>>
  <2>1. SubSeq(file, L + 1, L) = <<>>
    BY <1>1 DEF L
  <2> QED
    BY <1>4, <1>5, <2>1, Zenon
<1>7. Finish
  <2>1. <<>> # <<"S", "E", "T">> /\ <<>> # <<"D", "E", "L">>
        /\ <<>> \in {<<>>, <<"S", "E", "T">>, <<"D", "E", "L">>}
    OBVIOUS
  <2> QED
    BY <1>6, <2>1, Zenon DEF Next, ReadSet, ReadDel, Refuse, Reading
<1> QED
  BY <1>7, Zenon DEF Finish

\* One round.
LEMMA RoundReadsBack ==
  ASSUME IInv, Next, pc = "loading"
  PROVE  \E n \in 1..(Len(log) + 1) :
            /\ at = StartOf(n)
            /\ IF n > Len(log) THEN pc' = "ready" /\ table' = table
               ELSE Whole(log[n]) => /\ pc' = "loading" /\ at' = StartOf(n + 1)
                                     /\ table' = Loaded(log[n])
<1>1. PICK n \in 1..(Len(log) + 1) : at = StartOf(n)
  BY BehindIsBetween, Zenon DEF BetweenRecords
<1>2. log \in Seq(Written)
  BY FileType
<1>3. ASSUME n > Len(log)
      PROVE  pc' = "ready" /\ table' = table
  <2>1. n = Len(log) + 1
    BY <1>2, <1>3
  <2> QED
    BY <1>1, <2>1, EndReadBack
<1>4. ASSUME ~(n > Len(log)), Whole(log[n])
      PROVE  pc' = "loading" /\ at' = StartOf(n + 1) /\ table' = Loaded(log[n])
  <2>1. n \in DOMAIN log
    BY <1>2, <1>4
  <2>2. CASE log[n].entry = NoEntry
    BY <1>1, <1>4, <2>1, <2>2, DelReadBack
  <2>3. CASE log[n].entry # NoEntry
    BY <1>1, <1>4, <2>1, <2>3, SetReadBack
  <2> QED
    BY <2>2, <2>3
<1> QED
  BY <1>1, <1>3, <1>4, Zenon

\* What append_* and persistence_rewrite print, persistence_load reads as
\* what it was, for all keys and values, and with anything around it; and
\* every round begins where a record does, whatever was swallowed before.
THEOREM WhatIsWrittenIsRead == Spec => RecordsAreReadBack
<1> DEFINE ReadBack ==
             pc = "loading" => \E n \in 1..(Len(log) + 1) :
               /\ at = StartOf(n)
               /\ IF n > Len(log) THEN pc' = "ready" /\ table' = table
                  ELSE Whole(log[n]) => /\ pc' = "loading" /\ at' = StartOf(n + 1)
                                        /\ table' = Loaded(log[n])
<1>1. IInv /\ Next => ReadBack
  <2> SUFFICES ASSUME IInv, Next, pc = "loading"
               PROVE  ReadBack
    BY Zenon
  <2> QED
    BY RoundReadsBack, Zenon
<1>2. IInv /\ [Next]_vars => [ReadBack]_vars
  BY <1>1
<1> QED
  BY <1>2, Invariant, PTL DEF Spec, RecordsAreReadBack

\* Only a partial record makes start-up fail.
RefusedOnlyIfTorn ==
    pc = "refused" => \E n \in DOMAIN log : ~Whole(log[n])

\* A file of whole records always loads: the loader reads every record it
\* comes to, and at the end it is done.
THEOREM WholeFilesLoad == Spec => []RefusedOnlyIfTorn
<1>1. Init => RefusedOnlyIfTorn
  <2> SUFFICES ASSUME Init
               PROVE  pc # "refused"
    BY Zenon DEF RefusedOnlyIfTorn
  <2> QED
    BY DEF Init
<1>2. ASSUME IInv, RefusedOnlyIfTorn, [Next]_vars
      PROVE  RefusedOnlyIfTorn'
  <2>1. CASE UNCHANGED vars
    BY <1>2, <2>1, Zenon DEF vars, RefusedOnlyIfTorn, Whole
  <2>2. CASE Next
    <3> SUFFICES ASSUME pc' = "refused", \A n \in DOMAIN log : Whole(log[n])
                 PROVE  FALSE
      <4>1. log' = log
        BY <2>2, Zenon DEF Next, ReadSet, ReadDel, Refuse, Finish
      <4> QED
        BY <4>1, Zenon DEF RefusedOnlyIfTorn, Whole
    <3>1. pc = "loading"
      BY <2>2, Zenon DEF Next, ReadSet, ReadDel, Refuse, Finish, Reading
    <3>2. PICK n \in 1..(Len(log) + 1) :
            IF n > Len(log) THEN pc' = "ready"
            ELSE Whole(log[n]) => pc' = "loading"
      BY <1>2, <2>2, <3>1, RoundReadsBack, Zenon
    <3>3. pc' = "ready" \/ pc' = "loading"
      <4>1. ~(n > Len(log)) => n \in DOMAIN log
        <5>1. log \in Seq(Written)
          BY <1>2, FileType
        <5> QED
          BY <5>1
      <4> QED
        BY <3>2, <4>1, Zenon
    <3> QED
      BY <3>3
  <2> QED
    BY <1>2, <2>1, <2>2
<1> QED
  BY <1>1, <1>2, Invariant, PTL DEF Spec
=============================================================================

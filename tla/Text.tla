-------------------------------- MODULE Text --------------------------------
(***************************************************************************)
(* Text as sequences of symbols, and what the C library does with it:      *)
(* isspace, strchr, strtoll and printf's decimal numbers.                  *)
(***************************************************************************)
EXTENDS Integers, Sequences, FiniteSetsExt, SequencesExt, TLC

NUL == "NUL"
NL == "\n"
CR == "\r"
Blank == " "       \* tabs are treated alike
Quote == "\""

Spaces == {Blank, CR, NL}

\* What the numbers up to nine look like.
Digit == [n \in 0..9 |-> <<"0", "1", "2", "3", "4", "5", "6", "7", "8", "9">>[n + 1]]

Digits == {Digit[n] : n \in 0..9}

\* The first position from p on whose symbol is in S, or the end of the text.
Find(text, p, S) == Min({q \in p..Len(text) : text[q] \in S} \cup {Len(text) + 1})

\* The first position from p on whose symbol is not in S.
FindOther(text, p, S) == Min({q \in p..Len(text) : text[q] \notin S} \cup {Len(text) + 1})

\* The members of a finite set of numbers, the smallest first.
Sorted(S) ==
    [n \in 1..Cardinality(S) |-> CHOOSE x \in S : Cardinality({y \in S : y <= x}) = n]

\* The number that digits spell, no larger than max.
Value(digits, max) ==
    LET number(d) == CHOOSE n \in 0..9 : Digit[n] = d
        of[n \in 0..Len(digits)] ==
            IF n = 0 THEN 0 ELSE Min({10 * of[n - 1] + number(digits[n]), max})
    IN  of[Len(digits)]

\* The digits of a number.
Decimal(n) ==
    LET size == IF n < 0 THEN -n ELSE n
        of[i \in 0..size] == IF i < 10 THEN <<Digit[i]>>
                             ELSE Append(of[i \div 10], Digit[i % 10])
    IN  (IF n < 0 THEN <<"-">> ELSE <<>>) \o of[size]
=============================================================================

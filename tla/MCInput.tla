------------------------------ MODULE MCInput ------------------------------
(* Instances of LineFraming for TLC: sessions of two clients.              *)
EXTENDS LineFraming

Styles == {"bare", "quoted", "tight"}
Ends == {<<NL>>, <<CR, NL>>}

\* A value with a blank, an empty key and a command word as value, a quote
\* inside a word.
SomeRequests ==
    {Request("get", << <<"a">> >>, 0),
     Request("set", << <<"a">>, <<"b", Blank>> >>, 12),
     Request("set", << <<>>, <<"get">> >>, 0),
     Request("exit", <<>>, 0)}

Questions == {Ask(r, style, eol) : r \in SomeRequests, style \in Styles, eol \in Ends}
             \cup {Ask(Request("del", << <<"a", Quote>> >>, 0), "bare", <<NL>>)}

\* All short lines over a few symbols.
ShortLines ==
    UNION {[1..n -> {"get", "a", Blank, Quote}] : n \in 0..4}

\* Six arguments, EX misspelt, zero, negative, signed, blank, cut short and
\* huge expiries, words that only begin like a command, a NUL, and a line
\* longer than the buffer whose end is a command.
LongLines ==
    LET set(seconds) == <<"set", Blank, "a", Blank, "b", Blank, "ex", Blank>> \o seconds
    IN  {set(t) : t \in {<<"0">>, <<"-", "1">>, <<"+", "1">>, <<"1", "a">>,
                         <<Quote, Blank, Quote>>, <<Quote, Blank, "9", Quote>>,
                         <<Quote, Quote>>, <<"9", "9", "9">>, <<"1", Blank, "a">>}}
        \cup {<<"set", Blank, "a", Blank, "b", Blank, "a", Blank, "1">>,
              <<"ttl", Blank, "a", Blank, "a">>, <<"ttl", Blank, "a">>,
              <<"del", Blank, "a", CR>>, <<Quote, "exit">>, <<"exit", "get">>,
              <<Blank, "exit", Blank>>, <<"get", CR, "a">>,
              <<"get", NUL, "a">>, <<NUL>>,
              [i \in 1..14 |-> "a"] \o <<Blank, "del", Blank, "a">>}

Get == Ask(Request("get", << <<"a">> >>, 0), "bare", <<NL>>)

\* Any line, and a plain command after it; two commands, the second of a
\* client that gets the slot of the first; three commands at once.
SomeSessions ==
    {<< <<Odd(text, <<NL>>), Get>>, <<>> >> : text \in ShortLines}
    \cup {<< <<Odd(text, eol), Get>>, <<Get>> >> : text \in LongLines, eol \in Ends}
    \cup {<< <<q, Get>>, <<Get>> >> : q \in Questions}
    \cup {<< <<Get, q, Get>>, <<>> >> : q \in Questions}

\* Parsing takes every question, in any style, for what it means.
ASSUME QuestionsAreUnderstood ==
    \A x \in Sessions : \A c \in Clients : Understood(x[c])
=============================================================================

---------------------------- MODULE MCAofFormat ----------------------------
(* Instances of AofFormat for TLC: short logs of which one record may be   *)
(* torn anywhere.                                                          *)
EXTENDS AofFormat

\* The second key is as long as "DEL ".
SomeKeys == {<<"a">>, <<"k", "e", "y", "b">>}

\* A plain value, one that looks like a record and is long enough for a
\* length of two digits, and one that ends like an expiry.
SomeValues == {<<"x">>,
               <<"1", ":", "a", "D", "E", "L", Blank, "1", ":", "a">>,
               <<"x", Blank, "E", "X", "A", "T", Blank, "9">>}

SomeEntries == [value : SomeValues, expires_at : {0, 12}]

Records == {[key |-> k, entry |-> e, size |-> Len(Printed(k, e))] :
              k \in SomeKeys, e \in SomeEntries \cup {NoEntry}}
           \cup {[key |-> <<"a">>, entry |-> e, size |-> Len(Printed(<<"a">>, e))] :
              e \in [value : {<<"x">>}, expires_at : {-5}]}

Torn == UNION {{[r EXCEPT !.size = n] : n \in 1..(r.size - 1)} : r \in Records}

Short == {r \in Records : r.entry = NoEntry \/ r.entry.value = <<"x">>}

\* Whole logs, and logs with a torn record at the end or before others.
SomeLogs ==
    {<<>>} \cup (Records \X Records)
    \cup {<<r, t>> : r \in Records, t \in Torn}
    \cup {<<t, r, s>> : t \in Torn, r \in Records, s \in Short}
=============================================================================

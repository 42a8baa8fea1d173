--------------------------- MODULE MCNumberExchange ---------------------------
(* A small instance of NumberExchange: one id is a part of another, one     *)
(* holds the separator of the salt, one is a digit of the numbers, and one  *)
(* is such that what is cut from the text overlaps with itself.             *)
EXTENDS NumberExchange

MCNumbers == {<<"9", "1">>, <<"9", "2">>}

MCCorrelationIds == {<<"r">>, <<"s", ":", "r">>, <<"9">>,
                     <<":", ":">>, <<":">>}

\* For numbers_read_back: two ids, one the beginning of the other.
PartIds == {<<"r", "1">>, <<"r">>}

MCAllKeys == <<"k1", "k2", "k3">>

=============================================================================

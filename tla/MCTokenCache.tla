----------------------------- MODULE MCTokenCache -----------------------------
(* A small instance of TokenCache: the tokens bound the number of fetches. *)
EXTENDS TokenCache

CONSTANTS w1, w2, t1, t2

MCWorkers == {w1, w2}

MCTokens == {t1, t2}

\* The margin is 4: a token that lives 3 is cached as expired.
MCLifetimes == {3, 6}

=============================================================================

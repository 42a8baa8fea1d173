------------------------------ MODULE TokenCache ------------------------------
(***************************************************************************)
(* The OAuth token of the proxy (client.py): every request builds its own  *)
(* BrpClient, which reads the token that earlier requests left in Django's *)
(* cache, and fetches one when there was none.  Workers are the threads    *)
(* that handle requests; the cache is what they share.                     *)
(*                                                                         *)
(* Time is counted down: a token has its remaining lifetime at the OAuth   *)
(* server, a cache entry its remaining timeout, a worker the time since    *)
(* its client was built or its token issued.  The code bounds neither a    *)
(* slow token response nor a slow view; Latency and Hold are the delays    *)
(* under which the margin of _cache_token is claimed to be enough.  A      *)
(* response that is later than that counts as one that never comes.        *)
(***************************************************************************)
EXTENDS Integers, FiniteSets

CONSTANTS
  Workers,     \* concurrent requests
  Tokens,      \* names for the access tokens the OAuth server hands out
  NoToken,     \* None
  Lifetimes,   \* the values of expires_in the server uses
  Margin,      \* 900 seconds, by which the cache forgets a token early
  Latency,     \* longest time from issuing a token to caching it
  Hold         \* longest time from obtaining a token to presenting it

ASSUME NoTokenAssumption == NoToken \notin Tokens

ASSUME TimingAssumption ==
  /\ Lifetimes \subseteq Nat /\ Margin \in Nat /\ Latency \in Nat /\ Hold \in Nat
  /\ Latency + Hold <= Margin
  /\ \A l \in Lifetimes : l > Latency + Hold

VARIABLES
  pc,          \* where each worker is
  session,     \* the token in each worker's OAuth2Session
  age,         \* time since the client was built, then since the token was issued
  cached,      \* the token stored under "haal-centraal-token"
  ttl,         \* the time that entry has left; it is gone at 0
  expiresIn,   \* the expires_in of each token
  remaining,   \* the time each token stays valid at the server
  issued,      \* the tokens handed out
  revoked      \* the tokens the server no longer accepts

vars == <<pc, session, age, cached, ttl, expiresIn, remaining, issued, revoked>>

Pcs == {"idle", "built", "fetching", "inFlight", "received", "ready"}

-----------------------------------------------------------------------------

Init ==
  /\ pc = [w \in Workers |-> "idle"]
  /\ session = [w \in Workers |-> NoToken]
  /\ age = [w \in Workers |-> 0]
  /\ cached = NoToken
  /\ ttl = 0
  /\ expiresIn = [t \in Tokens |-> 0]
  /\ remaining = [t \in Tokens |-> 0]
  /\ issued = {}
  /\ revoked = {}

Goto(w, p) == pc' = [pc EXCEPT ![w] = p]

End(w) ==
  /\ Goto(w, "idle")
  /\ session' = [session EXCEPT ![w] = NoToken]
  /\ age' = [age EXCEPT ![w] = 0]

\* __init__: cache.get finds nothing once the entry has timed out.
Cached == IF ttl > 0 THEN cached ELSE NoToken

\* Variant: reading the entry starts its timeout anew.
BuildSliding(w) ==
  /\ pc[w] = "idle"
  /\ Goto(w, "built")
  /\ session' = [session EXCEPT ![w] = IF ttl > 0 THEN cached ELSE NoToken]
  /\ ttl' = IF ttl > 0 THEN expiresIn[cached] - Margin ELSE ttl
  /\ UNCHANGED <<age, cached, expiresIn, remaining, issued, revoked>>

\* get_client in initial(), before the permission checks.
Build(w) ==
  /\ pc[w] = "idle"
  /\ Goto(w, "built")
  /\ session' = [session EXCEPT ![w] = Cached]
  /\ UNCHANGED <<age, cached, ttl, expiresIn, remaining, issued, revoked>>

\* The view refuses the request: the client is never used.
Abandon(w) ==
  /\ pc[w] = "built"
  /\ End(w)
  /\ UNCHANGED <<cached, ttl, expiresIn, remaining, issued, revoked>>

\* call fetches for want of a token; the testendpoint command always does.
StartFetch(w) ==
  /\ pc[w] = "built"
  /\ session[w] = NoToken
  /\ Goto(w, "fetching")
  /\ UNCHANGED <<session, age, cached, ttl, expiresIn, remaining, issued, revoked>>

ForceFetch(w) ==
  /\ pc[w] = "built"
  /\ Goto(w, "fetching")
  /\ session' = [session EXCEPT ![w] = NoToken]
  /\ UNCHANGED <<age, cached, ttl, expiresIn, remaining, issued, revoked>>

\* The OAuth server; every token is handed out once.
Issue(w) ==
  /\ pc[w] = "fetching"
  /\ \E t \in Tokens \ issued, l \in Lifetimes :
       /\ session' = [session EXCEPT ![w] = t]
       /\ issued' = issued \cup {t}
       /\ expiresIn' = [expiresIn EXCEPT ![t] = l]
       /\ remaining' = [remaining EXCEPT ![t] = l]
  /\ Goto(w, "inFlight")
  /\ age' = [age EXCEPT ![w] = 0]
  /\ UNCHANGED <<cached, ttl, revoked>>

\* The token request fails, or its answer is lost.
FetchFails(w) ==
  /\ pc[w] \in {"fetching", "inFlight"}
  /\ End(w)
  /\ UNCHANGED <<cached, ttl, expiresIn, remaining, issued, revoked>>

\* OAuth2Session.fetch_token keeps the token in the session ...
Receive(w) ==
  /\ pc[w] = "inFlight"
  /\ age[w] <= Latency
  /\ Goto(w, "received")
  /\ UNCHANGED <<session, age, cached, ttl, expiresIn, remaining, issued, revoked>>

\* Variants: no margin; no care for a lifetime below it; a lifetime below it
\* taken whole.
TimeoutWhole(t) == expiresIn[t]

TimeoutUnchecked(t) == expiresIn[t] - Margin

TimeoutFallback(t) == IF expiresIn[t] > Margin THEN expiresIn[t] - Margin ELSE expiresIn[t]

\* The timeout of an entry that Django would store as expired is 0 here.
Timeout(t) == IF expiresIn[t] > Margin THEN expiresIn[t] - Margin ELSE 0

\* ... and _cache_token replaces whatever another worker stored meanwhile.
CacheToken(w) ==
  /\ pc[w] = "received"
  /\ Goto(w, "ready")
  /\ cached' = session[w]
  /\ ttl' = Timeout(session[w])
  /\ UNCHANGED <<session, age, expiresIn, remaining, issued, revoked>>

Holds(w) == pc[w] \in {"built", "ready"} /\ session[w] # NoToken

Valid(t) == remaining[t] > 0 /\ t \notin revoked

\* The call: Haal Centraal takes the token or answers 401 (had its lifetime
\* passed, oauthlib would refuse it even before).  Either way the client is
\* done and the cache stays as it is.
Accepted(w) ==
  /\ Holds(w)
  /\ Valid(session[w])
  /\ End(w)
  /\ UNCHANGED <<cached, ttl, expiresIn, remaining, issued, revoked>>

Rejected(w) ==
  /\ Holds(w)
  /\ ~ Valid(session[w])
  /\ End(w)
  /\ UNCHANGED <<cached, ttl, expiresIn, remaining, issued, revoked>>

\* The server withdraws a token before its time.
Revoke(t) ==
  /\ t \in issued \ revoked
  /\ revoked' = revoked \cup {t}
  /\ UNCHANGED <<pc, session, age, cached, ttl, expiresIn, remaining, issued>>

\* The process ends and starts anew: the workers are gone, and a token that was
\* on its way is never used.  So is the cache when it is in the memory of the
\* process; one that CACHE_URL names elsewhere stays.  The tokens stay valid at
\* the server.
Restart ==
  /\ pc' = [w \in Workers |-> "idle"]
  /\ session' = [w \in Workers |-> NoToken]
  /\ age' = [w \in Workers |-> 0]
  /\ \/ cached' = NoToken /\ ttl' = 0
     \/ UNCHANGED <<cached, ttl>>
  /\ UNCHANGED <<expiresIn, remaining, issued, revoked>>

\* How long a worker may take from the birth of its client or its token.
Deadline(w) ==
  IF pc[w] = "built" THEN Hold
  ELSE IF pc[w] = "ready" THEN Latency + Hold
  ELSE Latency

\* The time of a response that is too late is no longer counted.
Timed(w) == session[w] # NoToken /\ age[w] <= Deadline(w)

Less(n) == IF n > 0 THEN n - 1 ELSE 0

\* Time does not wait for a response: a client may wait for it for ever.
Tick ==
  /\ \A w \in Workers : Timed(w) /\ pc[w] # "inFlight" => age[w] < Deadline(w)
  /\ age' = [w \in Workers |-> IF Timed(w) THEN age[w] + 1 ELSE age[w]]
  /\ ttl' = Less(ttl)
  /\ remaining' = [t \in Tokens |-> Less(remaining[t])]
  /\ UNCHANGED <<pc, session, cached, expiresIn, issued, revoked>>

Local(w) == CacheToken(w) \/ Accepted(w) \/ Rejected(w)

\* What the view does next with its client.
Begin(w) == Abandon(w) \/ StartFetch(w) \/ ForceFetch(w)

Worker(w) == Build(w) \/ Begin(w) \/ Issue(w) \/ FetchFails(w) \/ Receive(w) \/ Local(w)

Next ==
  \/ Tick
  \/ Restart
  \/ \E t \in Tokens : Revoke(t)
  \/ \E w \in Workers : Worker(w)

\* Time goes on, and a worker runs on unless it waits for the OAuth server: the
\* call to Haal Centraal has a timeout.  Nothing makes the OAuth server answer,
\* or its answer arrive.
Fairness == SF_vars(Tick) /\ \A w \in Workers : WF_vars(Local(w) \/ Begin(w))

Spec == Init /\ [][Next]_vars /\ Fairness

-----------------------------------------------------------------------------
(* What the margin is for *)

\* Every variable holds a value of its kind.
TypeOK ==
  /\ pc \in [Workers -> Pcs]
  /\ session \in [Workers -> Tokens \cup {NoToken}]
  /\ age \in [Workers -> Nat]
  /\ cached \in Tokens \cup {NoToken}
  /\ ttl \in Nat
  /\ expiresIn \in [Tokens -> Nat]
  /\ remaining \in [Tokens -> Nat]
  /\ issued \subseteq Tokens
  /\ revoked \subseteq issued

\* _cache_token: a token that can still be read from the cache stays valid for
\* the margin less the time its response took, in whatever order concurrent
\* workers fetched and stored their tokens.
CacheKeepsMargin ==
  ttl > 0 => cached \in Tokens /\ remaining[cached] + Latency >= ttl + Margin

\* fetch_token, call: a worker never presents a token whose lifetime is over,
\* be it one it fetched or one it found in the cache.
PresentedInTime ==
  \A w \in Workers : Holds(w) => remaining[session[w]] > 0

\* "make sure the cache is expired when refreshes are needed": a token that
\* lives no longer than the margin is used by the worker that fetched it only.
ShortLivedNotShared ==
  \A w \in Workers :
    pc[w] = "built" /\ session[w] # NoToken => expiresIn[session[w]] > Margin

\* A 401 does not clear the cache; the timeout does: a withdrawn token does not
\* stay in the cache for ever, even with every client stuck at the OAuth server.
RevokedLeavesCache ==
  \A t \in Tokens : t \in revoked /\ Cached = t ~> Cached # t

=============================================================================

--------------------------- MODULE TokenCacheProofs ---------------------------
(***************************************************************************)
(* For every number of workers and tokens, and every lifetime, margin and  *)
(* delay that satisfy TimingAssumption: no token is presented after its    *)
(* lifetime, and the cache keeps its margin.                               *)
(*                                                                         *)
(* PresentedInTime is not inductive: that a token found in the cache is    *)
(* still good follows from the margin left when it was read, and that      *)
(* margin from how long the token was under way before it was stored.      *)
(* Each conjunct of IInv is one of these links.                            *)
(***************************************************************************)
EXTENDS TokenCache, TLAPS

\* A worker has a token exactly when it is past the fetch, and only issued ones.
SessionInv ==
  \A w \in Workers :
    /\ pc[w] \in {"idle", "fetching"} => session[w] = NoToken
    /\ pc[w] \in {"inFlight", "received", "ready"} => session[w] # NoToken
    /\ session[w] # NoToken => session[w] \in issued
    /\ pc[w] = "idle" => age[w] = 0
    /\ session[w] # NoToken /\ pc[w] # "inFlight" => age[w] <= Deadline(w)

\* From its issue on, a token has aged exactly as long as its worker waited, as
\* far as that is counted.
FlightInv ==
  \A w \in Workers : pc[w] \in {"inFlight", "received"} /\ age[w] <= Latency =>
    /\ expiresIn[session[w]] \in Lifetimes
    /\ remaining[session[w]] + age[w] = expiresIn[session[w]]

\* A token at hand outlives the time its worker may still take.
FreshInv ==
  \A w \in Workers : Holds(w) => remaining[session[w]] + age[w] > Deadline(w)

CacheInv ==
  ttl > 0 => /\ cached \in issued
             /\ expiresIn[cached] > Margin
             /\ remaining[cached] + Latency >= ttl + Margin

BuiltInv ==
  \A w \in Workers :
    pc[w] = "built" /\ session[w] # NoToken => expiresIn[session[w]] > Margin

IInv == TypeOK /\ SessionInv /\ FlightInv /\ FreshInv /\ CacheInv /\ BuiltInv

-----------------------------------------------------------------------------
\* The variables hold values of their kinds.
LEMMA TypeStep == TypeOK /\ SessionInv /\ [Next]_vars => TypeOK'
<1> SUFFICES ASSUME TypeOK, SessionInv, [Next]_vars PROVE TypeOK'
  OBVIOUS
<1> USE NoTokenAssumption, TimingAssumption DEF TypeOK, Pcs
<1>1. CASE Tick
  BY <1>1 DEF Tick, Less
<1>2. ASSUME NEW t \in Tokens, Revoke(t) PROVE TypeOK'
  BY <1>2 DEF Revoke
<1>3. ASSUME NEW w \in Workers, Worker(w) PROVE TypeOK'
  <2>1. CASE Build(w)
    BY <2>1 DEF Build, Goto, Cached
  <2>2. CASE Abandon(w)
    BY <2>2 DEF Abandon, End, Goto
  <2>3. CASE StartFetch(w)
    BY <2>3 DEF StartFetch, Goto
  <2>4. CASE ForceFetch(w)
    BY <2>4 DEF ForceFetch, Goto
  <2>5. CASE Issue(w)
    BY <2>5 DEF Issue, Goto
  <2>6. CASE FetchFails(w)
    BY <2>6 DEF FetchFails, End, Goto
  <2>7. CASE Receive(w)
    BY <2>7 DEF Receive, Goto
  <2>8. CASE CacheToken(w)
    <3>1. session[w] \in Tokens
      BY <2>8 DEF CacheToken, SessionInv
    <3>2. Timeout(session[w]) \in Nat
      BY <3>1 DEF Timeout
    <3> QED BY <2>8, <3>1, <3>2 DEF CacheToken, Goto
  <2>9. CASE Accepted(w)
    BY <2>9 DEF Accepted, End, Goto
  <2>10. CASE Rejected(w)
    BY <2>10 DEF Rejected, End, Goto
  <2> QED BY <1>3, <2>1, <2>2, <2>3, <2>4, <2>5, <2>6, <2>7, <2>8, <2>9, <2>10
          DEF Worker, Begin, Local
<1>5. CASE Restart
  BY <1>5 DEF Restart
<1>4. CASE UNCHANGED vars
  BY <1>4 DEF vars
<1> QED BY <1>1, <1>2, <1>3, <1>4, <1>5 DEF Next

\* Where each worker stands with its token, and for how long it may stay.
LEMMA SessionStep == IInv /\ [Next]_vars => SessionInv'
<1> SUFFICES ASSUME IInv, [Next]_vars PROVE SessionInv'
  OBVIOUS
<1> USE NoTokenAssumption, TimingAssumption DEF IInv, TypeOK, SessionInv, Deadline
<1>1. CASE Tick
  BY <1>1 DEF Tick, Timed
<1>2. ASSUME NEW t \in Tokens, Revoke(t) PROVE SessionInv'
  BY <1>2 DEF Revoke
<1>3. ASSUME NEW w \in Workers, Worker(w) PROVE SessionInv'
  <2>1. CASE Build(w)
    BY <2>1 DEF Build, Goto, Cached, CacheInv
  <2>2. CASE Abandon(w)
    BY <2>2 DEF Abandon, End, Goto
  <2>3. CASE StartFetch(w)
    BY <2>3 DEF StartFetch, Goto
  <2>4. CASE ForceFetch(w)
    BY <2>4 DEF ForceFetch, Goto
  <2>5. CASE Issue(w)
    BY <2>5 DEF Issue, Goto
  <2>6. CASE FetchFails(w)
    BY <2>6 DEF FetchFails, End, Goto
  <2>7. CASE Receive(w)
    BY <2>7 DEF Receive, Goto
  <2>8. CASE CacheToken(w)
    BY <2>8 DEF CacheToken, Goto
  <2>9. CASE Accepted(w)
    BY <2>9 DEF Accepted, End, Goto
  <2>10. CASE Rejected(w)
    BY <2>10 DEF Rejected, End, Goto
  <2> QED BY <1>3, <2>1, <2>2, <2>3, <2>4, <2>5, <2>6, <2>7, <2>8, <2>9, <2>10
          DEF Worker, Begin, Local
<1>5. CASE Restart
  BY <1>5 DEF Restart
<1>4. CASE UNCHANGED vars
  BY <1>4 DEF vars
<1> QED BY <1>1, <1>2, <1>3, <1>4, <1>5 DEF Next

\* A fetched token: only Issue gives one a lifetime, and no other worker has it.
LEMMA FlightStep == IInv /\ [Next]_vars => FlightInv'
<1> SUFFICES ASSUME IInv, [Next]_vars PROVE FlightInv'
  OBVIOUS
<1> USE NoTokenAssumption, TimingAssumption DEF IInv, TypeOK, SessionInv, FlightInv
<1>1. CASE Tick
  <2> SUFFICES ASSUME NEW v \in Workers, pc[v] \in {"inFlight", "received"}, age'[v] <= Latency
               PROVE  /\ expiresIn[session[v]] \in Lifetimes
                      /\ remaining'[session[v]] + age'[v] = expiresIn[session[v]]
    BY <1>1 DEF Tick
  <2>1. age[v] < Latency /\ age'[v] = age[v] + 1 /\ session[v] \in Tokens
    BY <1>1 DEF Tick, Timed, Deadline
  <2>2. remaining[session[v]] > 0
    BY <2>1
  <2> QED BY <1>1, <2>1, <2>2 DEF Tick, Less
<1>2. ASSUME NEW t \in Tokens, Revoke(t) PROVE FlightInv'
  BY <1>2 DEF Revoke
<1>3. ASSUME NEW w \in Workers, Worker(w) PROVE FlightInv'
  <2>1. CASE Build(w)
    BY <2>1 DEF Build, Goto
  <2>2. CASE Abandon(w)
    BY <2>2 DEF Abandon, End, Goto
  <2>3. CASE StartFetch(w)
    BY <2>3 DEF StartFetch, Goto
  <2>4. CASE ForceFetch(w)
    BY <2>4 DEF ForceFetch, Goto
  <2>5. CASE Issue(w)
    BY <2>5 DEF Issue, Goto
  <2>6. CASE FetchFails(w)
    BY <2>6 DEF FetchFails, End, Goto
  <2>7. CASE Receive(w)
    BY <2>7 DEF Receive, Goto
  <2>8. CASE CacheToken(w)
    BY <2>8 DEF CacheToken, Goto
  <2>9. CASE Accepted(w)
    BY <2>9 DEF Accepted, End, Goto
  <2>10. CASE Rejected(w)
    BY <2>10 DEF Rejected, End, Goto
  <2> QED BY <1>3, <2>1, <2>2, <2>3, <2>4, <2>5, <2>6, <2>7, <2>8, <2>9, <2>10
          DEF Worker, Begin, Local
<1>5. CASE Restart
  BY <1>5 DEF Restart
<1>4. CASE UNCHANGED vars
  BY <1>4 DEF vars
<1> QED BY <1>1, <1>2, <1>3, <1>4, <1>5 DEF Next

\* A token at hand is good for as long as its worker may wait: by the margin
\* when it was found in the cache, by its lifetime when it was fetched.
LEMMA FreshStep == IInv /\ [Next]_vars => FreshInv'
<1> SUFFICES ASSUME IInv, [Next]_vars PROVE FreshInv'
  OBVIOUS
<1> USE NoTokenAssumption, TimingAssumption
    DEF IInv, TypeOK, SessionInv, FreshInv, Holds, Deadline
<1>1. CASE Tick
  <2> SUFFICES ASSUME NEW v \in Workers, Holds(v)
               PROVE  remaining'[session[v]] + age'[v] > Deadline(v)
    BY <1>1 DEF Tick
  <2>1. age[v] < Deadline(v) /\ age'[v] = age[v] + 1 /\ session[v] \in Tokens
    BY <1>1 DEF Tick, Timed
  <2>2. remaining[session[v]] > 0
    BY <2>1
  <2> QED BY <1>1, <2>1, <2>2 DEF Tick, Less
<1>2. ASSUME NEW t \in Tokens, Revoke(t) PROVE FreshInv'
  BY <1>2 DEF Revoke
<1>3. ASSUME NEW w \in Workers, Worker(w) PROVE FreshInv'
  <2>1. CASE Build(w)
    BY <2>1 DEF Build, Goto, Cached, CacheInv
  <2>2. CASE Abandon(w)
    BY <2>2 DEF Abandon, End, Goto
  <2>3. CASE StartFetch(w)
    BY <2>3 DEF StartFetch, Goto
  <2>4. CASE ForceFetch(w)
    BY <2>4 DEF ForceFetch, Goto
  <2>5. CASE Issue(w)
    BY <2>5 DEF Issue, Goto
  <2>6. CASE FetchFails(w)
    BY <2>6 DEF FetchFails, End, Goto
  <2>7. CASE Receive(w)
    BY <2>7 DEF Receive, Goto
  <2>8. CASE CacheToken(w)
    BY <2>8 DEF CacheToken, Goto, FlightInv
  <2>9. CASE Accepted(w)
    BY <2>9 DEF Accepted, End, Goto
  <2>10. CASE Rejected(w)
    BY <2>10 DEF Rejected, End, Goto
  <2> QED BY <1>3, <2>1, <2>2, <2>3, <2>4, <2>5, <2>6, <2>7, <2>8, <2>9, <2>10
          DEF Worker, Begin, Local
<1>5. CASE Restart
  BY <1>5 DEF Restart
<1>4. CASE UNCHANGED vars
  BY <1>4 DEF vars
<1> QED BY <1>1, <1>2, <1>3, <1>4, <1>5 DEF Next

\* Only CacheToken writes the entry, at most Latency after the token's issue.
LEMMA CacheStep == IInv /\ [Next]_vars => CacheInv'
<1> SUFFICES ASSUME IInv, [Next]_vars PROVE CacheInv'
  OBVIOUS
<1> USE NoTokenAssumption, TimingAssumption DEF IInv, TypeOK, CacheInv
<1>1. CASE Tick
  BY <1>1 DEF Tick, Less
<1>2. ASSUME NEW t \in Tokens, Revoke(t) PROVE CacheInv'
  BY <1>2 DEF Revoke
<1>3. ASSUME NEW w \in Workers, Worker(w) PROVE CacheInv'
  <2>1. CASE Issue(w)
    BY <2>1 DEF Issue
  <2>2. CASE CacheToken(w)
    <3> DEFINE s == session[w]
    <3>1. /\ s \in issued /\ s \in Tokens
          /\ remaining[s] + age[w] = expiresIn[s]
          /\ age[w] <= Latency
      BY <2>2 DEF CacheToken, SessionInv, FlightInv, Deadline
    <3>2. ttl' > 0 => expiresIn[s] > Margin /\ ttl' = expiresIn[s] - Margin
      BY <2>2, <3>1 DEF CacheToken, Timeout
    <3>3. cached' = s /\ UNCHANGED <<expiresIn, remaining, issued>>
      BY <2>2 DEF CacheToken
    <3> QED BY <3>1, <3>2, <3>3
  <2>3. CASE ~ Issue(w) /\ ~ CacheToken(w)
    BY <1>3, <2>3 DEF Worker, Begin, Local, Build, Abandon, StartFetch, ForceFetch, FetchFails,
                      Receive, Accepted, Rejected
  <2> QED BY <2>1, <2>2, <2>3
<1>5. CASE Restart
  BY <1>5 DEF Restart
<1>4. CASE UNCHANGED vars
  BY <1>4 DEF vars
<1> QED BY <1>1, <1>2, <1>3, <1>4, <1>5 DEF Next

\* A client that has a token from the start has it from the cache.
LEMMA BuiltStep == IInv /\ [Next]_vars => BuiltInv'
<1> SUFFICES ASSUME IInv, [Next]_vars PROVE BuiltInv'
  OBVIOUS
<1> USE NoTokenAssumption DEF IInv, TypeOK, SessionInv, BuiltInv
<1>1. CASE Tick
  BY <1>1 DEF Tick
<1>2. ASSUME NEW t \in Tokens, Revoke(t) PROVE BuiltInv'
  BY <1>2 DEF Revoke
<1>3. ASSUME NEW w \in Workers, Worker(w) PROVE BuiltInv'
  <2>1. CASE Build(w)
    BY <2>1 DEF Build, Goto, Cached, CacheInv
  <2>2. CASE Issue(w)
    BY <2>2 DEF Issue, Goto
  <2>3. CASE ~ Build(w) /\ ~ Issue(w)
    BY <1>3, <2>3 DEF Worker, Begin, Local, Abandon, StartFetch, ForceFetch, FetchFails,
                      Receive, CacheToken, Accepted, Rejected, End, Goto
  <2> QED BY <2>1, <2>2, <2>3
<1>5. CASE Restart
  BY <1>5 DEF Restart
<1>4. CASE UNCHANGED vars
  BY <1>4 DEF vars
<1> QED BY <1>1, <1>2, <1>3, <1>4, <1>5 DEF Next

\* The inductive invariant of TokenCache holds in every state.
THEOREM Invariance == Spec => []IInv
<1>1. Init => IInv
  BY NoTokenAssumption, TimingAssumption
     DEF Init, IInv, TypeOK, Pcs, SessionInv, FlightInv, FreshInv, Holds, CacheInv, BuiltInv
<1>2. IInv /\ [Next]_vars => IInv'
  BY TypeStep, SessionStep, FlightStep, FreshStep, CacheStep, BuiltStep DEF IInv
<1> QED BY <1>1, <1>2, PTL DEF Spec

-----------------------------------------------------------------------------
\* The variables of TokenCache always hold values of their kinds.
THEOREM TypeCorrect == Spec => []TypeOK
<1>1. IInv => TypeOK
  BY DEF IInv
<1> QED BY <1>1, Invariance, PTL

\* _cache_token: a readable entry of the cache keeps its margin, whichever of
\* the concurrent workers stored it.
THEOREM CacheMargin == Spec => []CacheKeepsMargin
<1>1. IInv => CacheKeepsMargin
  BY DEF IInv, CacheInv, CacheKeepsMargin, TypeOK
<1> QED BY <1>1, Invariance, PTL

\* What FreshInv and the deadlines come to.
LEMMA HeldIsUnexpired == IInv => PresentedInTime
<1> SUFFICES ASSUME IInv, NEW w \in Workers, Holds(w) PROVE remaining[session[w]] > 0
  BY DEF PresentedInTime
<1>1. session[w] \in Tokens /\ age[w] <= Deadline(w) /\ age[w] \in Nat
  BY DEF IInv, TypeOK, SessionInv, Holds
<1>2. remaining[session[w]] + age[w] > Deadline(w) /\ remaining[session[w]] \in Nat
  BY <1>1 DEF IInv, FreshInv, TypeOK
<1>3. Deadline(w) \in Nat
  BY TimingAssumption DEF Deadline
<1> QED BY <1>1, <1>2, <1>3

\* call: no worker presents a token whose lifetime is over.
THEOREM InTime == Spec => []PresentedInTime
BY HeldIsUnexpired, Invariance, PTL

\* _cache_token: a token whose lifetime does not exceed the margin is used by
\* the worker that fetched it and no other.
THEOREM NotShared == Spec => []ShortLivedNotShared
<1>1. IInv => ShortLivedNotShared
  BY DEF IInv, BuiltInv, ShortLivedNotShared
<1> QED BY <1>1, Invariance, PTL

=============================================================================

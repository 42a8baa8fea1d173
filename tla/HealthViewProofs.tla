--------------------------- MODULE HealthViewProofs ---------------------------
(***************************************************************************)
(* What operators may rely on, for any course of events: what the health   *)
(* view and the command report of the two servers.                         *)
(***************************************************************************)
EXTENDS HealthView, TLAPS

\* The conditions of the servers and of the token in the cache.
Conditions ==
  /\ remote \in Remotes
  /\ oauth \in OAuths
  /\ token \in Tokens

LEMMA ConditionsHold == Spec => []Conditions
<1>1. Init => Conditions
  BY DEF Init, Conditions, Tokens
<1>2. Conditions /\ [Next]_vars => Conditions'
  BY DEF Conditions, Tokens, Next, vars, Change, Withdraw, Expire, Probe, Fetched, TestEndpoint,
         CommandToken, Query
<1>. QED  BY <1>1, <1>2, PTL DEF Spec

-----------------------------------------------------------------------------
(* The signs of life *)

\* The complaint about the type of the probe comes from where a query is
\* answered, and from nowhere else.
LEMMA ProbeMeetsWhatQueryMeets ==
  ASSUME Conditions
  PROVE  HealthSays(MetWith(token, "probe"))
           <=> \/ CallResult(MetWith(token, "query")).class = "nothing"
               \/ MetWith(token, "query").status = 304
<1> USE DEF Conditions, Remotes, OAuths, Tokens, MetWith, RemoteOutcome, Response, Failure
<1>1. CASE token = "none" /\ oauth # "issues"
  BY <1>1 DEF HealthSays, CallResult, Raises, Crash
<1>2. CASE ~ (token = "none" /\ oauth # "issues") /\ token = "withdrawn" /\ remote = "serves"
  BY <1>2 DEF HealthSays, CallResult, HttpError, RejectsCredentials, IsJson, JsonBodies,
              Raises, Crash
<1>3. CASE ~ (token = "none" /\ oauth # "issues") /\ token # "withdrawn" /\ remote = "serves"
  BY <1>3 DEF HealthSays, ComplainsOfType, CallResult, HttpError, RejectsCredentials, IsJson,
              JsonBodies, Raises, Crash
<1>4. CASE ~ (token = "none" /\ oauth # "issues") /\ remote # "serves"
  <2>1. /\ MetWith(token, "probe") = RemoteOutcome("probe")
        /\ MetWith(token, "query") = RemoteOutcome("probe")
    BY <1>4
  <2>2. ~ ComplainsOfType(RemoteOutcome("probe"))
    BY <1>4 DEF ComplainsOfType
  <2>3. CallResult(RemoteOutcome("probe")).class = "None"
          <=> RemoteOutcome("probe").status = 304
    BY <1>4 DEF CallResult, HttpError, RejectsCredentials, IsJson, JsonBodies, Raises, Crash
  <2>. QED  BY <2>1, <2>2, <2>3 DEF HealthSays
<1>. QED  BY <1>1, <1>2, <1>3, <1>4

\* get, client.call: a health view reports a success exactly when a query sent
\* at the same moment would have been answered, but for a 304.
THEOREM HealthIsService == Spec => HealthTellsService
<1>1. Conditions /\ [Next]_vars =>
        [LET o == MetWith(token, "query")
         IN Probe /\ last'.by = "health" =>
              (last'.says <=> CallResult(o).class = "nothing" \/ o.status = 304)]_vars
  BY ProbeMeetsWhatQueryMeets DEF Probe
<1>. QED  BY <1>1, ConditionsHold, PTL DEF Spec, HealthTellsService

\* handle: the command reports a connection exactly when both servers are in
\* order, whatever token the cache holds.
THEOREM CommandIsConnection == Spec => CommandTellsConnection
<1>1. ASSUME Conditions, TestEndpoint
      PROVE  last'.says <=> remote = "serves" /\ oauth = "issues"
  <2> DEFINE o == MetWith("none", "probe")
  <2>1. last'.says <=> CallResult(o).class = "RemoteAPIException" /\ ComplainsOfType(o)
    BY <1>1 DEF TestEndpoint, CommandToken
  <2>2. CASE oauth # "issues"
    BY <1>1, <2>1, <2>2 DEF Conditions, OAuths, MetWith, Failure, CallResult, Raises, Crash
  <2>3. CASE oauth = "issues"
    BY <1>1, <2>1, <2>3 DEF MetWith, RemoteOutcome, Response, ComplainsOfType, CallResult, HttpError,
                            RejectsCredentials, IsJson, JsonBodies, Raises, Crash
  <2>. QED  BY <2>2, <2>3
<1>2. Conditions /\ [Next]_vars =>
        [TestEndpoint /\ last'.by = "command" =>
           (last'.says <=> remote = "serves" /\ oauth = "issues")]_vars
  BY <1>1
<1>. QED  BY <1>2, ConditionsHold, PTL DEF Spec, CommandTellsConnection

=============================================================================

------------------------------ MODULE HealthView ------------------------------
(***************************************************************************)
(* How the operators learn whether the proxy works: the health views       *)
(* (BaseHealthCheckView of views/base.py) and the testendpoint command.    *)
(* Both send {"type": "healthcheck"}, which no Haal Centraal API knows,    *)
(* and take the complaint about that type for the sign of life.            *)
(*                                                                         *)
(* The two remote servers and the token in the cache change underneath;    *)
(* TokenCache has the cache in detail, here a token is there or not, and   *)
(* accepted or not.                                                        *)
(***************************************************************************)
EXTENDS ClientErrors

VARIABLES
  remote,   \* the condition of Haal Centraal, as seen from the proxy
  oauth,    \* the condition of the OAuth server
  token,    \* the token in the cache: "none", "valid" or "withdrawn"
  last      \* the last answer: to whom, and whether it was a success

vars == <<remote, oauth, token, last>>

\* "wrongApi" is a server that answers in JSON, but not at this path;
\* "wrongPage" one that answers in HTML.
Remotes == {"serves", "rejectsKey", "wrongApi", "wrongPage", "broken", "notModified",
            "unreachable", "slow"}

OAuths == {"issues", "refuses", "down"}

Tokens == {"none", "valid", "withdrawn"}

-----------------------------------------------------------------------------
(* What client.call meets *)

\* "probe" is the dummy request; a query is well-formed.
RemoteOutcome(asks) ==
  CASE remote = "serves" ->
         IF asks = "query" THEN Response(200, "json", "data") ELSE Response(400, "json", "titled")
    [] remote = "rejectsKey" -> Response(403, "json", "apiTitle")
    [] remote = "wrongApi" -> Response(404, "problem", "titled")
    [] remote = "wrongPage" -> Response(404, "html", "garbled")
    [] remote = "broken" -> Response(500, "html", "garbled")
    [] remote = "notModified" -> Response(304, "none", "none")
    [] remote = "unreachable" -> Failure("ConnectionError")
    [] remote = "slow" -> Failure("Timeout")

\* With held the token of the session; without one it is fetched first.
MetWith(held, asks) ==
  IF held = "none" /\ oauth = "refuses" THEN Failure("OAuth2Error")
  ELSE IF held = "none" /\ oauth = "down" THEN Failure("ConnectionError")
  ELSE IF held = "withdrawn" /\ remote = "serves" THEN Response(401, "json", "titled")
  ELSE RemoteOutcome(asks)

\* The token that is in the cache afterwards.
Fetched(held) == IF held = "none" /\ oauth = "issues" THEN "valid" ELSE held

\* "De foutieve parameter(s) zijn: type."
ComplainsOfType(o) == remote = "serves" /\ o.status = 400

-----------------------------------------------------------------------------

Init ==
  /\ remote \in Remotes /\ oauth \in OAuths /\ token = "none"
  /\ last = [by |-> "nobody", says |-> FALSE]

Change ==
  \/ remote' \in Remotes \ {remote} /\ UNCHANGED <<oauth, token, last>>
  \/ oauth' \in OAuths \ {oauth} /\ UNCHANGED <<remote, token, last>>

Withdraw == token = "valid" /\ token' = "withdrawn" /\ UNCHANGED <<remote, oauth, last>>

\* Variant: the entry has no timeout.
ExpireNever == FALSE /\ UNCHANGED vars

\* The timeout of the entry in the cache.
Expire == token # "none" /\ token' = "none" /\ UNCHANGED <<remote, oauth, last>>

\* Variant: whatever Haal Centraal complains of is a sign of life.
HealthSaysAny(o) == CallResult(o).class \in {"RemoteAPIException", "nothing", "None"}

\* get: "success" in the answer, which is a 200 but for exceptions get does not
\* catch.  A call that returns None counts as a success.
HealthSays(o) ==
  \/ CallResult(o).class = "RemoteAPIException" /\ ComplainsOfType(o)
  \/ CallResult(o).class \in {"nothing", "None"}

Probe ==
  LET o == MetWith(token, "probe")
  IN /\ last' = [by |-> "health", says |-> HealthSays(o)]
     /\ token' = Fetched(token)
     /\ UNCHANGED <<remote, oauth>>

\* Variant: a token that is in the cache is good enough.
CommandTokenCached == token

\* The command fetches a token whatever is in the cache.
CommandToken == "none"

\* handle: the token is fetched outside of the try, so that its errors end the
\* command, as do all others but the complaint about the type: with any other
\* complaint hc_response is unbound, an answer of bytes cannot be written to
\* stdout, and call raises no OSError of its own.  Its token reaches the views
\* when the cache is shared, and not when each process has its own.
TestEndpoint ==
  LET o == MetWith(CommandToken, "probe")
  IN /\ last' = [by |-> "command",
                 says |-> CallResult(o).class = "RemoteAPIException" /\ ComplainsOfType(o)]
     /\ token' \in {token} \cup (IF oauth = "issues" THEN {"valid"} ELSE {})
     /\ UNCHANGED <<remote, oauth>>

\* A request of a client that gets as far as the call.
Query ==
  /\ last' = [by |-> "client",
              says |-> CallResult(MetWith(token, "query")).class = "nothing"]
  /\ token' = Fetched(token)
  /\ UNCHANGED <<remote, oauth>>

Next == Change \/ Withdraw \/ Expire \/ Probe \/ TestEndpoint \/ Query

\* Probes keep coming, and the cache forgets in time.
Spec == Init /\ [][Next]_vars /\ WF_vars(Probe) /\ WF_vars(Expire)

-----------------------------------------------------------------------------
(* What operators may rely on *)

\* get, client.call: a health view reports a success exactly when a query sent
\* at the same moment would have been answered, whatever the token in the cache
\* and the condition of the two servers; but for a 304, for which it reports a
\* success that no query would be.
HealthTellsService ==
  [][LET o == MetWith(token, "query")
     IN Probe /\ last'.by = "health" =>
          (last'.says <=> CallResult(o).class = "nothing" \/ o.status = 304)]_vars

\* handle: the command reports a connection exactly when both servers are in
\* order, and so it may while the health view, with a token of the cache that
\* was withdrawn, does not.
CommandTellsConnection ==
  [][TestEndpoint /\ last'.by = "command" =>
       (last'.says <=> remote = "serves" /\ oauth = "issues")]_vars

\* The token that is refused leaves the cache by its timeout alone; still, once
\* both servers are in order for good and tokens are no longer withdrawn, the
\* health view reports it, and stays with it.
EventuallyHealthy ==
  <>[](remote = "serves" /\ oauth = "issues") /\ <>[][~ Withdraw]_vars =>
    <>[](last.by = "health" => last.says)

=============================================================================

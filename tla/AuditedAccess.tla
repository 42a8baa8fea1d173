----------------------------- MODULE AuditedAccess -----------------------------
(***************************************************************************)
(* What the proxy promises about one request, with nothing of how a view   *)
(* goes about it (views/base.py, the docstring of BaseProxyView: a         *)
(* pass-through proxy "with authorization and extra restrictions added"):  *)
(*  - whoever is refused for want of a token or a scope is on record as    *)
(*    refused by the time the refusal is sent, and nothing was asked of    *)
(*    Haal Centraal for that request;                                      *)
(*  - data is sent only after the access is on record as granted;          *)
(*  - the record of a request never changes from one into the other, and   *)
(*    nothing happens after the reply.                                     *)
(***************************************************************************)

VARIABLES
  asked,    \* whether Haal Centraal was called for the request
  record,   \* what the audit log says of it: "none", "denied" or "granted"
  given     \* the reply: "nothing" yet, a "refusal", a "failure" or "data"

accessVars == <<asked, record, given>>

Init == asked = FALSE /\ record = "none" /\ given = "nothing"

Refuse ==
  /\ ~ asked /\ record = "none" /\ given = "nothing"
  /\ record' = "denied"
  /\ given' = "refusal"
  /\ UNCHANGED asked

Ask ==
  /\ ~ asked /\ record = "none" /\ given = "nothing"
  /\ asked' = TRUE
  /\ UNCHANGED <<record, given>>

Grant ==
  /\ asked /\ record = "none" /\ given = "nothing"
  /\ record' = "granted"
  /\ UNCHANGED <<asked, given>>

Give ==
  /\ record = "granted" /\ given = "nothing"
  /\ given' = "data"
  /\ UNCHANGED <<asked, record>>

\* A request that is malformed, or that fails on the way or after the call: the
\* access to the remote server may be put on record in the same step.
Fail ==
  /\ given = "nothing"
  /\ given' = "failure"
  /\ asked => asked'
  /\ record' = record \/ (record = "none" /\ asked' /\ record' = "granted")

Next == Refuse \/ Ask \/ Grant \/ Give \/ Fail

Spec == Init /\ [][Next]_accessVars

=============================================================================

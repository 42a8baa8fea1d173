----------------------------- MODULE ClientErrors -----------------------------
(***************************************************************************)
(* How BrpClient.call turns what happened on the wire into a response or   *)
(* an exception (client.py), which exceptions the proxy view can still     *)
(* write to the audit log (base.py), and the status each ends in           *)
(* (haal_centraal_proxy/views.py).                                         *)
(*                                                                         *)
(* An outcome is what the two remote servers did.  "response" carries a    *)
(* status, a content type and a body; the other sorts are exceptions of    *)
(* the libraries: requests.Timeout, requests.ConnectionError, a plain      *)
(* OSError (a certificate file that is not there), or an OAuth error that  *)
(* is neither an OSError nor an APIException.                              *)
(***************************************************************************)
EXTENDS Naturals

CONSTANTS
  Outcomes     \* the outcomes an instance lets the remote servers produce

Statuses == {200, 304, 400, 401, 403, 404, 500}

\* Content types: "problem" is application/problem+json without parameters.
Media == {"json", "problem", "html", "none"}

\* Bodies: "data" is the answer the API documents, "apiTitle" an error with
\* the title of a refused API key, "structured" one with a list or an object for
\* its detail, "garbled" is no JSON at all, "none" is empty.
JsonBodies == {"data", "titled", "apiTitle", "structured", "untitled", "empty"}

Bodies == JsonBodies \cup {"garbled", "none"}

Response(status, media, body) ==
  [sort |-> "response", status |-> status, media |-> media, body |-> body]

Failure(sort) == [sort |-> sort, status |-> 0, media |-> "none", body |-> "none"]

Failures == {"Timeout", "ConnectionError", "OSError", "OAuth2Error"}

Outcome ==
  [sort : {"response"}, status : Statuses, media : Media, body : Bodies]
    \cup {Failure(sort) : sort \in Failures}

ASSUME OutcomesAssumption == Outcomes \subseteq Outcome

NoOutcome == Failure("none")

-----------------------------------------------------------------------------
(* Exceptions: the class and, for an APIException, the status it renders *)

Raises(class, status) == [class |-> class, status |-> status]

Crash(class) == Raises(class, 500)

\* APIException and its subclasses, the only classes with a status of their own.
ApiExceptions ==
  {"BadGateway", "ServiceUnavailable", "GatewayTimeout", "RemoteAPIException", "NotFound"}

-----------------------------------------------------------------------------

IsJson(o) == o.media \in {"json", "problem"}

RejectsCredentials(o) == o.status = 401 \/ (o.status = 403 /\ o.body = "apiTitle")

\* Variant: a 403 is passed on before its title is looked at.
HttpErrorForwarded(o) ==
  IF IsJson(o) /\ o.body \notin JsonBodies THEN Crash("JSONDecodeError")
  ELSE IF ~ IsJson(o) \/ o.body = "empty" THEN Raises("BadGateway", 502)
  ELSE IF o.status \in {400, 403} THEN Raises("RemoteAPIException", o.status)
  ELSE Raises("BadGateway", 502)

\* _get_http_error.  A 403 whose JSON has no title fails on remote_json["title"].
HttpError(o) ==
  IF IsJson(o) /\ o.body \notin JsonBodies THEN Crash("JSONDecodeError")
  ELSE IF ~ IsJson(o) \/ o.body = "empty" THEN Raises("BadGateway", 502)
  ELSE IF o.status = 403 /\ o.body = "untitled" THEN Crash("KeyError")
  ELSE IF RejectsCredentials(o) THEN Raises("BadGateway", 502)
  ELSE IF o.status \in {400, 403} THEN Raises("RemoteAPIException", o.status)
  ELSE IF o.status = 404
    THEN Raises(IF o.media = "problem" THEN "RemoteAPIException" ELSE "NotFound", 404)
  ELSE Raises("BadGateway", 502)

\* call: a 3xx passes raise_for_status, so that call returns None.
CallResult(o) ==
  IF o.sort = "Timeout" THEN Raises("GatewayTimeout", 504)
  ELSE IF o.sort \in {"ConnectionError", "OSError"} THEN Raises("ServiceUnavailable", 503)
  ELSE IF o.sort = "OAuth2Error" THEN Crash("OAuth2Error")
  ELSE IF o.status = 200 THEN Raises("nothing", 200)
  ELSE IF o.status = 304 THEN Crash("None")
  ELSE HttpError(o)

\* server_error, for an exception that is no APIException.
ServerError == 500

\* exception_handler.  Django REST framework makes a list or an object for a detail
\* the whole of response.data: a list has no update(), and an object is given
\* itself for a member, which cannot be rendered.
ErrorStatus(o) ==
  IF CallResult(o).class = "RemoteAPIException" /\ o.body = "structured"
    THEN ServerError ELSE CallResult(o).status

\* The views' "except (APIException, OSError)".
Handled(o) == CallResult(o).class \in ApiExceptions

\* e.__cause__.response.json(): a RequestException that has no response, or
\* whose body is no JSON, fails inside the handler.
CauseHasJson(o) ==
  /\ o.sort \notin {"Timeout", "ConnectionError"}
  /\ o.sort = "response" => o.body \in JsonBodies

=============================================================================

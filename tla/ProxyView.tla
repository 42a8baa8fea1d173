------------------------------ MODULE ProxyView ------------------------------
(***************************************************************************)
(* BaseProxyView (views/base.py): one POST request through the proxy, with *)
(* the hooks of its three subclasses.  Each step of post() is an action;   *)
(* pc names the point between two steps.                                   *)
(*                                                                         *)
(* Everything a request brings along is chosen in Init and kept in req.    *)
(* The Haal Centraal server is external: it answers with an outcome of     *)
(* ClientErrors and, when that is a success, with persons that satisfy the *)
(* filters it was sent.                                                    *)
(***************************************************************************)
EXTENDS OtherViews, ClientErrors

CONSTANTS
  Requests,      \* the requests an instance lets clients send
  Population     \* the residents Haal Centraal knows

VARIABLES
  req,           \* the request: view, token, headers, body
  pc,            \* where post() is
  data,          \* request.data
  hcRequest,     \* hc_request, the body sent on
  inserted,      \* self.inserted_id_fields
  needed,        \* needed_scopes | needed_param_scopes
  outcome,       \* what client.call met
  hcResponse,    \* the persons Haal Centraal returned
  finalResponse, \* the persons the client receives
  audit,         \* the records of the audit log
  reply          \* the HTTP status sent, 0 before there is one

vars == <<req, pc, data, hcRequest, inserted, needed, outcome, hcResponse,
          finalResponse, audit, reply>>

Views == {"personen", "bewoningen", "verblijfplaatshistorie"}

EncryptBsn == "benk-brp-encrypt-bsn"

NoBody == [p \in {} |-> {}]

\* Requests and residents as far as the steps below depend on their shape.
ASSUME RequestsAssumption ==
  \A r \in Requests :
    /\ r.view \in Views
    /\ {r.token, r.headers, r.volledig, r.text} \subseteq BOOLEAN
    /\ r.body = [p \in DOMAIN r.body |-> r.body[p]]

\* A type is one text, as the API documents it.
ASSUME TypesAssumption ==
  \A r \in Requests : "type" \in DOMAIN r.body =>
    \E t \in r.body["type"] : r.body["type"] = {t}

\* A resident is known by who it is.
ASSUME PopulationAssumption ==
  \A p, q \in Population : p.who = q.who => p = q

-----------------------------------------------------------------------------
(* The parts of the subclasses *)

NeededScope(view) ==
  CASE view = "personen" -> "benk-brp-personen-api"
    [] view = "bewoningen" -> BewoningenScope
    [] view = "verblijfplaatshistorie" -> VerblijfScope

Ruleset(view, body) ==
  CASE view = "personen" -> PersonenRuleset(IF HasType(body) THEN QueryType(body) ELSE "")
    [] view = "bewoningen" -> BewoningenRuleset
    [] view = "verblijfplaatshistorie" -> VerblijfRuleset

\* Whether the view's answer is a list of persons that the hooks walk through.
ListsPersons(view) == view \in {"personen", "bewoningen"}

Transform(persons) ==
  IF req.view = "personen"
    THEN TransformPersonen(persons, hcRequest, req.scopes, inserted, req.volledig)
  ELSE IF req.view = "bewoningen" THEN TransformBewoners(persons, req.volledig)
  ELSE persons

\* transform_response on an answer without "personen": every part of it that
\* runs looks that key up.
TransformFails ==
  /\ req.view = "personen"
  /\ outcome.body # "data"
  /\ req.volledig \/ Geheim \notin req.scopes \/ inserted # {}

\* An object in the answer may be of a type that the mapping does not know.
MayMeetUnknownType ==
  /\ req.view = "verblijfplaatshistorie"
  /\ req.volledig
  /\ outcome.body # "empty"

-----------------------------------------------------------------------------
(* The audit log *)

Event(name) == [event |-> name, ids |-> NoBody, request |-> NoBody, sent |-> NoBody,
                needed |-> {}, persons |-> {}]

\* log_access_granted of the base class.
GrantedEvent(name, persons) ==
  [Event(name) EXCEPT !.request = data, !.sent = hcRequest, !.needed = needed,
                      !.persons = persons]

\* One record for each person of the original answer: those that were hidden
\* from the client too.  These records name no scopes.
LoggedIds(view) == IF view = "personen" THEN IdFields ELSE {"burgerservicenummer"}

RetrievedEvents(persons) ==
  {[GrantedEvent("retrieved", finalResponse) EXCEPT
      !.needed = {}, !.ids = [f \in LoggedIds(req.view) |-> Get(p, f)]] : p \in persons}

-----------------------------------------------------------------------------
(* Haal Centraal *)

\* A search returns whom its filters let through; which of them match the
\* other search terms is left open.
Matches(p) ==
  /\ hcRequest["type"] = {Raadpleeg} =>
       \E v \in hcRequest["burgerservicenummer"] : v.text = p.bsn
  /\ "gemeenteVanInschrijving" \in DOMAIN hcRequest =>
       p.gemeente \in hcRequest["gemeenteVanInschrijving"]
  /\ p.overleden /\ hcRequest["type"] # {Raadpleeg} =>
       /\ "inclusiefOverledenPersonen" \in DOMAIN hcRequest
       /\ \E v \in hcRequest["inclusiefOverledenPersonen"] : v # "false"

\* What an answer holds whether or not it was asked for.
AutomaticFields ==
  {"geheimhoudingPersoonsgegevens", "inOnderzoek", "opschortingBijhouding", "rni", "verificatie"}

\* An answer holds the fields that were asked for, or come by themselves, and
\* have a value, and the confidentiality flag whenever it is set.
Render(p, names) ==
  [who |-> p.who,
   data |-> [f \in (DOMAIN p.fields \cap (names \cup AutomaticFields))
                   \cup (IF p.geheim THEN {"geheimhoudingPersoonsgegevens"} ELSE {}) |->
               IF f \in DOMAIN p.fields THEN Plain(p.fields[f]) ELSE Plain(<<"1">>)]]

\* Its API wants a list of names.
Unsupported == req.text /\ "fields" \in DOMAIN req.body

Answers ==
  IF req.view = "personen"
    THEN {{Render(p, hcRequest["fields"]) : p \in S} :
            S \in SUBSET {p \in Population : Matches(p)}}
  ELSE IF req.view = "bewoningen"
    THEN {{Render(p, BewonerFields) : p \in S} : S \in SUBSET Population}
  ELSE {{}}

-----------------------------------------------------------------------------
(* The steps of post() *)

Init ==
  /\ req \in Requests
  /\ pc = "received"
  /\ data = req.body
  /\ hcRequest = NoBody
  /\ inserted = {}
  /\ needed = {}
  /\ outcome = NoOutcome
  /\ hcResponse = {}
  /\ finalResponse = {}
  /\ audit = {}
  /\ reply = 0

\* Variant: the answer is built but post() goes on.
FinishLate(status) == pc' = "done" /\ UNCHANGED reply

Finish(status) == pc' = "done" /\ reply' = status

Log(records) == audit' = audit \cup records

\* initial(): the permission classes, in their order.
Admit ==
  /\ pc = "received"
  /\ NeededScope(req.view) \in req.scopes
  /\ req.headers
  /\ pc' = "admitted"
  /\ UNCHANGED <<req, data, hcRequest, inserted, needed, outcome, hcResponse,
                 finalResponse, audit, reply>>

\* Variant: only a request without a token is logged.
RefuseOverallSilent ==
  /\ pc = "received"
  /\ NeededScope(req.view) \notin req.scopes
  /\ Log(IF req.token THEN {} ELSE {Event("deniedOverall")})
  /\ Finish(IF req.token THEN 403 ELSE 401)
  /\ UNCHANGED <<req, data, hcRequest, inserted, needed, outcome, hcResponse, finalResponse>>

RefuseOverall ==
  /\ pc = "received"
  /\ NeededScope(req.view) \notin req.scopes
  /\ Log({Event("deniedOverall")})
  /\ Finish(IF req.token THEN 403 ELSE 401)
  /\ UNCHANGED <<req, data, hcRequest, inserted, needed, outcome, hcResponse, finalResponse>>

RefuseHeaders ==
  /\ pc = "received"
  /\ NeededScope(req.view) \in req.scopes
  /\ ~ req.headers
  /\ Finish(403)
  /\ UNCHANGED <<req, data, hcRequest, inserted, needed, outcome, hcResponse,
                 finalResponse, audit>>

\* The numbers decrypt_request touches: none without the scope.
SealedNumbers ==
  IF EncryptBsn \in req.scopes /\ "burgerservicenummer" \in DOMAIN data
    THEN data["burgerservicenummer"] ELSE {}

\* The copy is shallow, but a decrypted list is a new one: request.data keeps
\* the encrypted numbers.
DecryptRequest ==
  /\ pc = "admitted"
  /\ \A v \in SealedNumbers : CanDecrypt(v, req.correlation)
  /\ hcRequest' = IF SealedNumbers = {} THEN data
                  ELSE Put(data, "burgerservicenummer",
                           {Decrypt(v, req.correlation) : v \in SealedNumbers})
  /\ pc' = "decrypted"
  /\ UNCHANGED <<req, data, inserted, needed, outcome, hcResponse, finalResponse,
                 audit, reply>>

\* log_decryption_failed reads hc_request["type"], which nothing has validated.
RefuseNumber ==
  /\ pc = "admitted"
  /\ \E v \in SealedNumbers : ~ CanDecrypt(v, req.correlation)
  /\ hcRequest' = data
  /\ IF "type" \in DOMAIN data
       THEN Log({Event("deniedNumber")}) /\ Finish(403)
     ELSE Finish(500) /\ UNCHANGED audit
  /\ UNCHANGED <<req, data, inserted, needed, outcome, hcResponse, finalResponse>>

ValidateOutcomes ==
  ValidateParameters(Ruleset(req.view, hcRequest), hcRequest, req.scopes)

Validate ==
  /\ pc = "decrypted"
  /\ \E o \in ValidateOutcomes : o.verdict = "granted"
  /\ needed' = {NeededScope(req.view)}
                 \cup ScopesUsedBy(Ruleset(req.view, hcRequest), hcRequest, req.scopes)
  /\ pc' = "validated"
  /\ UNCHANGED <<req, data, hcRequest, inserted, outcome, hcResponse, finalResponse,
                 audit, reply>>

\* Variant: the denial is logged, and post() goes on.
DenyParameterContinues ==
  /\ pc = "decrypted"
  /\ \E o \in ValidateOutcomes : o.verdict = "AccessDenied"
  /\ Log({Event("deniedParameter")})
  /\ pc' = "validated"
  /\ UNCHANGED <<req, data, hcRequest, inserted, needed, outcome, hcResponse,
                 finalResponse, reply>>

DenyParameter ==
  /\ pc = "decrypted"
  /\ \E o \in ValidateOutcomes : o.verdict = "AccessDenied"
  /\ Log({Event("deniedParameter")})
  /\ Finish(403)
  /\ UNCHANGED <<req, data, hcRequest, inserted, needed, outcome, hcResponse, finalResponse>>

RejectParameter ==
  /\ pc = "decrypted"
  /\ \E o \in ValidateOutcomes : o.verdict \in {"InvalidParameters", "InvalidValues"}
  /\ Finish(400)
  /\ UNCHANGED <<req, data, hcRequest, inserted, needed, outcome, hcResponse,
                 finalResponse, audit>>

\* hc_request["fields"] is the list of request.data when the client sent one:
\* what is added to or removed from the one shows in the other.
ShareFields(body) ==
  IF "fields" \in DOMAIN data THEN Put(data, "fields", body["fields"]) ELSE data

\* A "fields" that is one text passes the validation like a list of one name,
\* but has no append for _add_identifier_fields to call.
AppendFails ==
  /\ req.view = "personen"
  /\ req.text
  /\ "fields" \in DOMAIN data
  /\ InsertedIds(hcRequest) # {}

TransformRequest ==
  /\ pc = "validated"
  /\ ~ AppendFails
  /\ \/ /\ req.view = "personen"
        /\ ~ NoFieldsLeft(hcRequest, req.scopes)
        /\ hcRequest' = TransformPersonenRequest(hcRequest, req.scopes)
        /\ inserted' = InsertedIds(AddDefaults(hcRequest, req.scopes))
        /\ data' = ShareFields(TransformPersonenRequest(hcRequest, req.scopes))
     \/ req.view # "personen" /\ UNCHANGED <<data, hcRequest, inserted>>
  /\ pc' = "transformed"
  /\ UNCHANGED <<req, needed, outcome, hcResponse, finalResponse, audit, reply>>

DenyFields ==
  /\ pc = "validated"
  /\ req.view = "personen"
  /\ NoFieldsLeft(hcRequest, req.scopes)
  /\ Log({Event("deniedFields")})
  /\ Finish(403)
  /\ UNCHANGED <<req, data, hcRequest, inserted, needed, outcome, hcResponse, finalResponse>>

TransformRequestCrashes ==
  /\ pc = "validated"
  /\ AppendFails
  /\ Finish(500)
  /\ UNCHANGED <<req, data, hcRequest, inserted, needed, outcome, hcResponse,
                 finalResponse, audit>>

\* client.call, and orjson.loads on the text of a success.
CallSucceeds ==
  /\ pc = "transformed"
  /\ \E o \in Outcomes :
       /\ CallResult(o).class = "nothing"
       /\ o.body \in JsonBodies
       /\ ~ Unsupported
       /\ outcome' = o
       /\ hcResponse' \in IF o.body = "data" THEN Answers ELSE {{}}
  /\ pc' = "answered"
  /\ UNCHANGED <<req, data, hcRequest, inserted, needed, finalResponse, audit, reply>>

CallFails ==
  /\ pc = "transformed"
  /\ \E o \in Outcomes : Handled(o) /\ outcome' = o
  /\ pc' = "failed"
  /\ UNCHANGED <<req, data, hcRequest, inserted, needed, hcResponse, finalResponse,
                 audit, reply>>

\* Neither an APIException nor an OSError: Django answers 500.
CallCrashes ==
  /\ pc = "transformed"
  /\ \E o \in Outcomes :
       /\ ~ Handled(o)
       /\ CallResult(o).class = "nothing" => o.body \notin JsonBodies
       /\ outcome' = o
  /\ Finish(500)
  /\ UNCHANGED <<req, data, hcRequest, inserted, needed, hcResponse, finalResponse, audit>>

LogFailure ==
  /\ pc = "failed"
  /\ IF CauseHasJson(outcome)
       THEN /\ Log({GrantedEvent("grantedError", {})})
            /\ Finish(ErrorStatus(outcome))
     ELSE Finish(500) /\ UNCHANGED audit
  /\ UNCHANGED <<req, data, hcRequest, inserted, needed, outcome, hcResponse, finalResponse>>

\* Variant: the request is not cleaned up before it is logged.
TransformResponseOnly ==
  /\ pc = "answered"
  /\ ~ TransformFails
  /\ finalResponse' = Transform(hcResponse)
  /\ pc' = "final"
  /\ UNCHANGED <<req, data, hcRequest, inserted, needed, outcome, hcResponse, audit, reply>>

TransformResponse ==
  /\ pc = "answered"
  /\ ~ TransformFails
  /\ finalResponse' = Transform(hcResponse)
  /\ IF inserted = {} THEN UNCHANGED <<hcRequest, data>>
     ELSE /\ hcRequest' = Put(hcRequest, "fields", hcRequest["fields"] \ inserted)
          /\ data' = ShareFields(hcRequest')
  /\ pc' = "final"
  /\ UNCHANGED <<req, inserted, needed, outcome, hcResponse, audit, reply>>

TransformCrashes ==
  /\ pc = "answered"
  /\ TransformFails \/ MayMeetUnknownType
  /\ Finish(500)
  /\ UNCHANGED <<req, data, hcRequest, inserted, needed, outcome, hcResponse,
                 finalResponse, audit>>

\* The base record is written before the loop looks for the persons.
LogGranted ==
  /\ pc = "final"
  /\ Log({GrantedEvent("granted", finalResponse)}
           \cup IF ListsPersons(req.view) THEN RetrievedEvents(hcResponse) ELSE {})
  /\ IF ListsPersons(req.view) /\ outcome.body # "data" THEN Finish(500)
     ELSE pc' = "logged" /\ UNCHANGED reply
  /\ UNCHANGED <<req, data, hcRequest, inserted, needed, outcome, hcResponse, finalResponse>>

EncryptNumber(person) ==
  IF "burgerservicenummer" \in DOMAIN person.data
    THEN [person EXCEPT !.data["burgerservicenummer"] = Encrypt(@, req.correlation)]
  ELSE person

\* Variant: the answer may leave before it is logged.
ReplyEarly ==
  /\ pc \in {"final", "logged"}
  /\ finalResponse' = IF EncryptBsn \in req.scopes
                        THEN {EncryptNumber(p) : p \in finalResponse}
                      ELSE finalResponse
  /\ Finish(200)
  /\ UNCHANGED <<req, data, hcRequest, inserted, needed, outcome, hcResponse, audit>>

\* Variant: only the persons view encrypts its answers.
EncryptPersonenOnly ==
  /\ pc = "logged"
  /\ finalResponse' = IF EncryptBsn \in req.scopes /\ req.view = "personen"
                        THEN {EncryptNumber(p) : p \in finalResponse}
                      ELSE finalResponse
  /\ Finish(200)
  /\ UNCHANGED <<req, data, hcRequest, inserted, needed, outcome, hcResponse, audit>>

EncryptAndReply ==
  /\ pc = "logged"
  /\ finalResponse' = IF EncryptBsn \in req.scopes
                        THEN {EncryptNumber(p) : p \in finalResponse}
                      ELSE finalResponse
  /\ Finish(200)
  /\ UNCHANGED <<req, data, hcRequest, inserted, needed, outcome, hcResponse, audit>>

Refuse == RefuseOverall \/ RefuseHeaders \/ RefuseNumber \/ DenyParameter
            \/ RejectParameter \/ DenyFields \/ TransformRequestCrashes

Ask == Admit \/ DecryptRequest \/ Validate \/ TransformRequest

Answer == CallSucceeds \/ CallFails \/ CallCrashes \/ LogFailure \/ TransformResponse
            \/ TransformCrashes \/ LogGranted \/ EncryptAndReply

Done == pc = "done" /\ UNCHANGED vars

Next == Refuse \/ Ask \/ Answer \/ Done

Spec == Init /\ [][Next]_vars

-----------------------------------------------------------------------------
(* What the view promises *)

Pcs == {"received", "admitted", "decrypted", "validated", "transformed", "answered",
        "failed", "final", "logged", "done"}

IsBody(b) == b = [p \in DOMAIN b |-> b[p]]

\* Every variable holds a value of its kind, and a reply exists exactly when
\* post() has ended.
TypeOK ==
  /\ pc \in Pcs
  /\ IsBody(data) /\ IsBody(hcRequest)
  /\ inserted \subseteq IdFields
  /\ outcome \in Outcomes \cup {NoOutcome}
  /\ reply \in {0, 200} \cup 400..504
  /\ reply = 0 <=> pc # "done"

Delivered == IF reply = 200 THEN finalResponse ELSE {}

Resident(p) == CHOOSE r \in Population : r.who = p.who

Asked == outcome # NoOutcome

GrantedFields == AllowedValues(FieldsPolicy, req.scopes)

\* log_access_granted, _add_identifier_fields: every person a client receives
\* is on record with the original number, whether or not the client may see
\* or asked for that number, whenever Haal Centraal knows it.
DeliveredIsAudited ==
  \A p \in Delivered : "burgerservicenummer" \in DOMAIN Resident(p).fields =>
    \E e \in audit :
      /\ e.event = "retrieved"
      /\ e.ids["burgerservicenummer"] = Plain(Resident(p).fields["burgerservicenummer"])

\* post(): the record of a granted request is in the log before the step that
\* sends the answer, not with it or after it.
LoggedBeforeDelivered ==
  [][reply' = 200 => \E e \in audit : e.event = "granted"]_vars

\* _add_municipality_filter and the three municipality rules, whatever the
\* client sends as the municipality or leaves out.  README.md: without the two
\* nationwide scopes a search is limited to "persons within Amsterdam only".
\* personen.py: "Disallow searching outside Amsterdam" for four of the types,
\* whatever the scopes, and a search by postcode goes outside with its own
\* nationwide scope at least.
WithinMunicipality ==
  req.view = "personen" /\ (\E p \in Delivered : Resident(p).gemeente # Amsterdam) =>
    /\ {Landelijk, PostcodeLandelijk} \cap req.scopes # {}
    /\ \A type \in OnlyInAmsterdam : req.body["type"] # {type}
    /\ req.body["type"] = {ZoekPostcode} => PostcodeLandelijk \in req.scopes
    /\ req.body["type"] # {ZoekPostcode} => Landelijk \in req.scopes

\* _add_deceased_filter and the rule for inclusiefOverledenPersonen: a search
\* gives no deceased person to a user without the scope.
DeceasedNeedsScope ==
  req.view = "personen" =>
    \A p \in Delivered : Resident(p).overleden /\ req.body["type"] # {Raadpleeg} =>
      Overledenen \in req.scopes

\* What the client asked for by itself or by default, as far as it is granted.
Wanted ==
  (IF "fields" \in DOMAIN req.body THEN req.body["fields"] ELSE GrantedFields)
    \cap GrantedFields

\* The key stands in the answer of Haal Centraal with the same value.
AsSent(p, f) ==
  \E h \in hcResponse : h.who = p.who /\ f \in DOMAIN h.data /\ h.data[f] = p.data[f]

\* _add_fields_filter, _hide_inserted_identifiers, _insert_null_values: the proxy
\* asks Haal Centraal for nothing that the scopes do not grant but the
\* identifiers, and a client receives no key, with or without a value, that it
\* did not (explicitly or by default) ask for or that its scopes do not grant,
\* except for what Haal Centraal delivers by itself, and that as it was sent:
\* README.md has no null values inserted for "automatically included fields".
OnlyGrantedFields ==
  req.view = "personen" /\ Asked =>
    /\ hcRequest["fields"] \ IdFields \subseteq GrantedFields
    /\ \A p \in Delivered : \A f \in DOMAIN p.data \ Wanted :
         f \in AutomaticFields /\ AsSent(p, f)

\* _hide_confidential_persons: no confidential person without the scope, even
\* when null values were added or identifiers taken away.
ConfidentialHidden ==
  req.view = "personen" /\ Geheim \notin req.scopes =>
    \A p \in Delivered : ~ Resident(p).geheim

\* encrypt_response runs on the answer, after the log: no readable number
\* leaves the proxy, and none in the log has become unreadable.
NumbersSealed ==
  EncryptBsn \in req.scopes =>
    /\ \A p \in Delivered : Get(p, "burgerservicenummer").form # "plain"
    /\ \A e \in audit :
         /\ \A f \in DOMAIN e.ids : e.ids[f].form # "cipher"
         /\ \A p \in e.persons : Get(p, "burgerservicenummer").form # "cipher"
         /\ "burgerservicenummer" \in DOMAIN e.sent =>
              \A v \in e.sent["burgerservicenummer"] : v.form = "plain"

Denials == {"deniedOverall", "deniedNumber", "deniedParameter", "deniedFields"}

\* Missing headers are no matter of authorization; they are looked at last.
LacksHeaders == NeededScope(req.view) \in req.scopes /\ ~ req.headers

Refused == reply \in {401, 403} /\ ~ Asked /\ ~ LacksHeaders

\* Every refusal for want of a token or a scope is on record, and a request that
\* is on record as refused was never sent on.
RefusalIsAudited ==
  /\ Refused => \E e \in audit : e.event \in Denials
  /\ (\E e \in audit : e.event \in Denials) => ~ Asked

Recorded ==
  IF \E e \in audit : e.event \in {"granted", "grantedError"} THEN "granted"
  ELSE IF \E e \in audit : e.event \in Denials THEN "denied"
  ELSE "none"

Given ==
  IF reply = 0 THEN "nothing"
  ELSE IF reply = 200 THEN "data"
  ELSE IF Refused THEN "refusal"
  ELSE "failure"

Access == INSTANCE AuditedAccess WITH asked <- Asked, record <- Recorded, given <- Given

\* post() and initial() keep the promise of AuditedAccess with every outcome of
\* the remote servers and every failure on the way: what was asked, what is on
\* record and what was answered never contradict each other, at any step.
ImplementsAuditedAccess == Access!Spec

\* _get_http_error: "Don't blame the client" for credentials of the proxy that
\* Haal Centraal does not accept.
NeverBlamesClient ==
  /\ reply = 401 => ~ req.token
  /\ outcome.sort = "response" /\ RejectsCredentials(outcome) => reply \notin {401, 403}

\* The "needed" scopes of a granted record are the user's, and they suffice
\* for what the client asked: validating it again with those only grants it.
NeededJustifies ==
  \A e \in audit : e.event = "granted" =>
    /\ e.needed \subseteq req.scopes
    /\ \A o \in ValidateParameters(Ruleset(req.view, e.sent),
                                   [p \in DOMAIN data |-> e.sent[p]], e.needed) :
         o.verdict = "granted"

\* The clean-up of _hide_inserted_identifiers: on success the log holds the
\* request as the client sent it, although its list of fields is shared.
LogsClientRequest ==
  \A e \in audit : e.event \in {"granted", "retrieved"} => e.request = req.body

-----------------------------------------------------------------------------
(* What the repository says of the view and the code does not do *)

\* base.py: "Even when the request failed, still log that we did grant access",
\* in the handler of the exceptions that are meant to pass through it.
EveryCallIsAudited ==
  pc = "done" /\ Asked /\ Handled(outcome) =>
    \E e \in audit : e.event \in {"granted", "grantedError"}

\* base.py: log_decryption_failed is to "Perform the audit logging for the
\* denied request", whatever else the request lacks.
RefusedNumberIsAudited ==
  pc = "done" /\ NeededScope(req.view) \in req.scopes /\ req.headers
    /\ (\E v \in SealedNumbers : ~ CanDecrypt(v, req.correlation))
  => \E e \in audit : e.event = "deniedNumber"

\* README.md: "When the scope benk-brp-landelijk is missing, only results within
\* Amsterdam are returned"; personen.py: a postcode in another municipality may
\* be searched "if both scopes are present".
NationwideScopeNeeded ==
  req.view = "personen" /\ Landelijk \notin req.scopes =>
    \A p \in Delivered : Resident(p).gemeente = Amsterdam

\* personen.py: "Also clean up from request before logging it."
FailureLogsClientRequest ==
  \A e \in audit : e.event = "grantedError" => e.request = req.body

=============================================================================

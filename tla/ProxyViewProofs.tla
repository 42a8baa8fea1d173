--------------------------- MODULE ProxyViewProofs ---------------------------
(***************************************************************************)
(* The order of the audit log and the answer, and what becomes of the two  *)
(* on their way through the view, for every set of requests, every         *)
(* population and every outcome: whom a failure is blamed on, that the log *)
(* holds the request as the client sent it, that who is delivered is on    *)
(* record under its own number, and that with the scope numbers are        *)
(* readable in the log and not in the answer.                              *)
(***************************************************************************)
EXTENDS ProxyView, TLAPS

\* What is known at each point of post() about the outcome and the log.
StepInv ==
  /\ pc \in {"received", "admitted", "decrypted", "validated", "transformed"} =>
       ~ Asked /\ audit = {}
  /\ pc \in {"answered", "failed", "final", "logged"} => Asked
  /\ pc = "failed" => Handled(outcome)
  /\ pc \in {"answered", "failed", "final"} => audit = {}
  /\ pc = "logged" => \E e \in audit : e.event = "granted"
  /\ pc = "logged" => \A e \in audit : e.event \notin Denials
  /\ pc \notin {"received", "done"} => req.headers

\* The request is one of those considered from its beginning to its end.
Typed == TypeOK /\ req \in Requests

IInv == Typed /\ StepInv /\ RefusalIsAudited

-----------------------------------------------------------------------------
\* Setting a parameter of a body leaves a body.
LEMMA PutIsBody == ASSUME NEW b, NEW p, NEW V PROVE IsBody(Put(b, p, V))
BY DEF IsBody, Put

\* An exception the view handles has a status of its own, never 200.
LEMMA HandledStatus ==
  ASSUME NEW o \in Outcome, Handled(o)
  PROVE  ErrorStatus(o) \in 400..504
BY DEF ErrorStatus, ServerError, Handled, CallResult, HttpError, Raises, Crash, ApiExceptions, Outcome, Statuses,
       Failure, Failures, Media, Bodies, JsonBodies

\* No outcome is the absence of one.
LEMMA OutcomeIsAsked == NoOutcome \notin Outcomes
BY OutcomesAssumption DEF Outcome, NoOutcome, Failure, Failures

-----------------------------------------------------------------------------
LEMMA InitIInv == Init => IInv
BY RequestsAssumption DEF Init, IInv, Typed, TypeOK, StepInv, RefusalIsAudited, Refused,
                           Pcs, IsBody, NoBody, Asked

\* Every step keeps the kinds of the variables.
LEMMA TypeStep == ASSUME IInv, [Next]_vars PROVE Typed'
<1> USE DEF IInv, Typed, TypeOK, Pcs, Finish
<1>1. CASE Admit
  BY <1>1 DEF Admit
<1>2. CASE RefuseOverall
  BY <1>2 DEF RefuseOverall
<1>3. CASE RefuseHeaders
  BY <1>3 DEF RefuseHeaders
<1>4. CASE DecryptRequest
  BY <1>4, PutIsBody DEF DecryptRequest
<1>5. CASE RefuseNumber
  BY <1>5 DEF RefuseNumber
<1>6. CASE Validate
  BY <1>6 DEF Validate
<1>7. CASE DenyParameter
  BY <1>7 DEF DenyParameter
<1>8. CASE RejectParameter
  BY <1>8 DEF RejectParameter
<1>20. CASE TransformRequestCrashes
  BY <1>20 DEF TransformRequestCrashes
<1>9. CASE TransformRequest
  <2>1. CASE req.view = "personen"
    <3>1. IsBody(hcRequest')
      BY <1>9, <2>1, PutIsBody DEF TransformRequest, TransformPersonenRequest, AddIdentifiers
    <3>2. IsBody(data')
      BY <1>9, <2>1, PutIsBody DEF TransformRequest, ShareFields
    <3>3. inserted' \subseteq IdFields
      BY <1>9, <2>1 DEF TransformRequest, InsertedIds
    <3>. QED  BY <1>9, <3>1, <3>2, <3>3 DEF TransformRequest
  <2>2. CASE req.view # "personen"
    BY <1>9, <2>2 DEF TransformRequest
  <2>. QED  BY <2>1, <2>2
<1>10. CASE DenyFields
  BY <1>10 DEF DenyFields
<1>11. CASE CallSucceeds
  BY <1>11 DEF CallSucceeds
<1>12. CASE CallFails
  BY <1>12 DEF CallFails
<1>13. CASE CallCrashes
  BY <1>13 DEF CallCrashes
<1>14. CASE LogFailure
  <2>1. ErrorStatus(outcome) \in 400..504
    BY <1>14, HandledStatus, OutcomesAssumption DEF LogFailure, StepInv, Asked
  <2>. QED  BY <1>14, <2>1 DEF LogFailure
<1>15. CASE TransformResponse
  <2>1. IsBody(hcRequest')
    BY <1>15, PutIsBody DEF TransformResponse
  <2>2. IsBody(data')
    BY <1>15, PutIsBody DEF TransformResponse, ShareFields
  <2>. QED  BY <1>15, <2>1, <2>2 DEF TransformResponse
<1>16. CASE TransformCrashes
  BY <1>16 DEF TransformCrashes
<1>17. CASE LogGranted
  BY <1>17 DEF LogGranted
<1>18. CASE EncryptAndReply
  BY <1>18 DEF EncryptAndReply
<1>19. CASE UNCHANGED vars
  BY <1>19 DEF vars
<1>. QED
  BY <1>1, <1>2, <1>3, <1>4, <1>5, <1>6, <1>7, <1>8, <1>9, <1>10, <1>11, <1>12, <1>13,
     <1>14, <1>15, <1>16, <1>17, <1>18, <1>19, <1>20
     DEF Next, Refuse, Ask, Answer, Done

\* log_access_granted only writes records of access.
LEMMA LogGrantedRecords ==
  ASSUME LogGranted, audit = {}
  PROVE  /\ \E e \in audit' : e.event = "granted"
         /\ \A e \in audit' : e.event \notin Denials
<1>1. GrantedEvent("granted", finalResponse).event = "granted"
  BY DEF GrantedEvent, Event
<1>2. \A e \in RetrievedEvents(hcResponse) : e.event = "retrieved"
  BY DEF RetrievedEvents, GrantedEvent, Event
<1>3. audit' = {GrantedEvent("granted", finalResponse)}
                 \cup IF ListsPersons(req.view) THEN RetrievedEvents(hcResponse) ELSE {}
  BY DEF LogGranted, Log
<1>. QED  BY <1>1, <1>2, <1>3 DEF Denials

\* Each action moves pc to a point for which the log and the outcome are right.
LEMMA StepStep == ASSUME IInv, [Next]_vars PROVE StepInv'
<1> USE DEF IInv, Typed, TypeOK, StepInv, Asked
<1>1. CASE Refuse
  BY <1>1 DEF Refuse, RefuseOverall, RefuseHeaders, RefuseNumber, DenyParameter,
              RejectParameter, DenyFields, TransformRequestCrashes, Finish
<1>2. CASE Admit \/ DecryptRequest \/ Validate
  BY <1>2 DEF Admit, DecryptRequest, Validate
<1>3. CASE TransformRequest
  BY <1>3 DEF TransformRequest
<1>4. CASE CallSucceeds
  BY <1>4, OutcomeIsAsked DEF CallSucceeds
<1>5. CASE CallFails
  BY <1>5, OutcomeIsAsked DEF CallFails
<1>6. CASE CallCrashes \/ LogFailure \/ TransformCrashes \/ EncryptAndReply
  BY <1>6 DEF CallCrashes, LogFailure, TransformCrashes, EncryptAndReply, Finish
<1>7. CASE TransformResponse
  BY <1>7 DEF TransformResponse
<1>8. CASE LogGranted
  BY <1>8, LogGrantedRecords DEF LogGranted, Finish
<1>9. CASE UNCHANGED vars
  BY <1>9 DEF vars
<1>. QED
  BY <1>1, <1>2, <1>3, <1>4, <1>5, <1>6, <1>7, <1>8, <1>9
     DEF Next, Ask, Answer, Done

\* A refusal writes its record in the step that answers; nothing is refused
\* once Haal Centraal was called, and a record of access is no refusal.
LEMMA RefusalStep == ASSUME IInv, [Next]_vars PROVE RefusalIsAudited'
<1> USE DEF IInv, Typed, TypeOK, Asked, RefusalIsAudited, Refused, LacksHeaders
<1>1. CASE RefuseOverall \/ RefuseNumber \/ DenyParameter \/ DenyFields
  <2>1. \A name : Event(name).event = name
    BY DEF Event
  <2>2. ~ Asked'
    BY <1>1 DEF RefuseOverall, RefuseNumber, DenyParameter, DenyFields, StepInv
  <2>3. reply' \in {401, 403} => \E e \in audit' : e.event \in Denials
    <3>1. CASE RefuseOverall
      BY <2>1, <3>1 DEF RefuseOverall, Log, Denials
    <3>2. CASE RefuseNumber
      BY <2>1, <3>2 DEF RefuseNumber, Finish, Log, Denials
    <3>3. CASE DenyParameter \/ DenyFields
      BY <2>1, <3>3 DEF DenyParameter, DenyFields, Log, Denials
    <3>. QED  BY <1>1, <3>1, <3>2, <3>3
  <2>. QED  BY <2>2, <2>3
<1>2. CASE RefuseHeaders \/ RejectParameter \/ TransformRequestCrashes
  BY <1>2 DEF RefuseHeaders, RejectParameter, TransformRequestCrashes, Finish
<1>3. CASE Admit \/ DecryptRequest \/ Validate
  BY <1>3 DEF Admit, DecryptRequest, Validate
<1>4. CASE TransformRequest
  BY <1>4 DEF TransformRequest
<1>5. CASE CallSucceeds \/ CallFails \/ CallCrashes
  BY <1>5, OutcomeIsAsked DEF CallSucceeds, CallFails, CallCrashes, StepInv
<1>6. CASE LogFailure
  <2>1. GrantedEvent("grantedError", {}).event \notin Denials
    BY DEF GrantedEvent, Event, Denials
  <2>. QED  BY <1>6, <2>1 DEF LogFailure, Log, Finish, StepInv, Asked
<1>7. CASE TransformResponse \/ TransformCrashes
  BY <1>7 DEF TransformResponse, TransformCrashes, Finish, StepInv
<1>8. CASE LogGranted
  <2>1. \A e \in audit' : e.event \notin Denials
    BY <1>8, LogGrantedRecords DEF LogGranted, StepInv
  <2>. QED  BY <1>8, <2>1 DEF LogGranted, StepInv, Finish
<1>9. CASE EncryptAndReply
  BY <1>9 DEF EncryptAndReply, StepInv, Finish
<1>10. CASE UNCHANGED vars
  BY <1>10 DEF vars
<1>. QED
  BY <1>1, <1>2, <1>3, <1>4, <1>5, <1>6, <1>7, <1>8, <1>9, <1>10
     DEF Next, Refuse, Ask, Answer, Done

\* The only step that answers 200 starts from "logged".
LEMMA AnswerStep ==
  ASSUME IInv, [Next]_vars, vars' # vars, reply' = 200
  PROVE  pc = "logged"
<1> USE DEF IInv, Typed, TypeOK, Finish
<1>1. CASE LogFailure
  <2>1. ErrorStatus(outcome) \in 400..504
    BY <1>1, HandledStatus, OutcomesAssumption DEF LogFailure, StepInv, Asked
  <2>. QED  BY <1>1, <2>1 DEF LogFailure
<1>2. CASE Refuse
  BY <1>2 DEF Refuse, RefuseOverall, RefuseHeaders, RefuseNumber, DenyParameter,
              RejectParameter, DenyFields, TransformRequestCrashes
<1>3. CASE Ask
  BY <1>3 DEF Ask, Admit, DecryptRequest, Validate, TransformRequest
<1>4. CASE CallSucceeds \/ CallFails \/ CallCrashes \/ TransformResponse
             \/ TransformCrashes \/ LogGranted \/ EncryptAndReply
  BY <1>4 DEF CallSucceeds, CallFails, CallCrashes, TransformResponse, TransformCrashes,
              LogGranted, EncryptAndReply
<1>. QED  BY <1>1, <1>2, <1>3, <1>4 DEF Next, Answer, Done

-----------------------------------------------------------------------------
\* IInv is an inductive invariant of the view.
THEOREM Invariance == Spec => []IInv
<1>1. IInv /\ [Next]_vars => IInv'
  BY TypeStep, StepStep, RefusalStep DEF IInv
<1>. QED  BY InitIInv, <1>1, PTL DEF Spec

\* post(): every variable holds a value of its kind, and there is a reply
\* exactly when post() has ended, with every outcome of the remote servers.
THEOREM TypeCorrect == Spec => []TypeOK
<1>1. IInv => TypeOK
  BY DEF IInv, Typed
<1>. QED  BY Invariance, <1>1, PTL

\* check_permissions, validate_parameters, decrypt_request, _add_fields_filter:
\* whoever is refused for want of a scope is on record as refused, and whoever
\* is on record as refused was never passed on to Haal Centraal.
THEOREM RefusalsAudited == Spec => []RefusalIsAudited
<1>1. IInv => RefusalIsAudited
  BY DEF IInv
<1>. QED  BY Invariance, <1>1, PTL

\* post(): no answer with personal data leaves the proxy before the record of
\* the access is in the audit log.
THEOREM LoggedFirst == Spec => LoggedBeforeDelivered
<1>1. IInv /\ [Next]_vars
        => [reply' = 200 => \E e \in audit : e.event = "granted"]_vars
  <2> SUFFICES ASSUME IInv, [Next]_vars, vars' # vars, reply' = 200
               PROVE  \E e \in audit : e.event = "granted"
    OBVIOUS
  <2>. QED  BY AnswerStep DEF IInv, StepInv
<1>. QED  BY Invariance, <1>1, PTL DEF Spec, LoggedBeforeDelivered

-----------------------------------------------------------------------------
(* The view implements AuditedAccess *)

\* What the mapped variables are at each point of post().
LEMMA MappedValues ==
  ASSUME IInv
  PROVE  /\ audit = {} => Recorded = "none"
         /\ pc = "logged" => Recorded = "granted"
         /\ pc # "done" <=> Given = "nothing"
BY DEF IInv, Typed, TypeOK, StepInv, Recorded, Given, Denials

\* The steps before the call either stutter or end the request.
LEMMA MappedRefusal ==
  ASSUME IInv, Refuse
  PROVE  Access!Refuse \/ Access!Fail
<1> USE DEF IInv, Typed, TypeOK, StepInv
<1>1. Asked = FALSE /\ Asked' = FALSE
  BY DEF Asked, Refuse, RefuseOverall, RefuseHeaders, RefuseNumber, DenyParameter,
         RejectParameter, DenyFields, TransformRequestCrashes
<1>2. Recorded = "none" /\ Given = "nothing"
  BY MappedValues DEF Refuse, RefuseOverall, RefuseHeaders, RefuseNumber, DenyParameter,
         RejectParameter, DenyFields, TransformRequestCrashes
<1>3. ASSUME NEW name \in Denials, audit' = audit \cup {Event(name)}, reply' \in {401, 403},
             ~ LacksHeaders, req' = req
      PROVE  Access!Refuse
  <2>1. \A e \in audit' : e.event = name
    BY <1>3 DEF Event, Refuse, RefuseOverall, RefuseHeaders, RefuseNumber, DenyParameter,
         RejectParameter, DenyFields, TransformRequestCrashes
  <2>2. Recorded' = "denied"
    BY <1>3, <2>1 DEF Recorded, Denials
  <2>3. Given' = "refusal"
    BY <1>1, <1>3 DEF Given, Refused, LacksHeaders
  <2>. QED  BY <1>1, <1>2, <2>2, <2>3 DEF Access!Refuse
<1>4. ASSUME audit' = audit, \/ reply' \in {400, 500}
                             \/ reply' \in {401, 403} /\ LacksHeaders /\ req' = req
      PROVE  Access!Fail
  <2>1. Recorded' = Recorded
    BY <1>4 DEF Recorded
  <2>2. Given' = "failure"
    BY <1>4 DEF Given, Refused, LacksHeaders
  <2>. QED  BY <1>1, <1>2, <2>1, <2>2 DEF Access!Fail
<1>5. CASE RefuseOverall
  BY <1>3, <1>5 DEF RefuseOverall, Log, Finish, LacksHeaders, Denials
<1>6. CASE RefuseHeaders
  BY <1>4, <1>6 DEF RefuseHeaders, Finish, LacksHeaders
<1>7. CASE RefuseNumber
  BY <1>3, <1>4, <1>7 DEF RefuseNumber, Log, Finish, LacksHeaders, Denials
<1>8. CASE DenyParameter \/ DenyFields
  BY <1>3, <1>8 DEF DenyParameter, DenyFields, Log, Finish, LacksHeaders, Denials
<1>9. CASE RejectParameter \/ TransformRequestCrashes
  BY <1>4, <1>9 DEF RejectParameter, TransformRequestCrashes, Finish
<1>. QED  BY <1>5, <1>6, <1>7, <1>8, <1>9 DEF Refuse

\* The steps from the call on.
LEMMA MappedAnswer ==
  ASSUME IInv, IInv', Answer
  PROVE  [Access!Next]_(Access!accessVars)
<1> USE DEF IInv, Typed, TypeOK, StepInv
<1>1. CASE CallSucceeds \/ CallFails \/ CallCrashes
  <2>1. Asked = FALSE /\ Asked' = TRUE
    BY <1>1, OutcomeIsAsked DEF Asked, CallSucceeds, CallFails, CallCrashes
  <2>2. Recorded = "none" /\ Recorded' = "none" /\ Given = "nothing"
    BY <1>1, MappedValues DEF Recorded, CallSucceeds, CallFails, CallCrashes
  <2>3. CASE CallSucceeds \/ CallFails
    <3>1. Given' = "nothing"
      BY <2>3 DEF Given, CallSucceeds, CallFails
    <3>. QED  BY <2>1, <2>2, <3>1 DEF Access!Next, Access!Ask
  <2>4. CASE CallCrashes
    <3>1. Given' = "failure"
      BY <2>4 DEF Given, Refused, CallCrashes, Finish
    <3>. QED  BY <2>1, <2>2, <3>1 DEF Access!Next, Access!Fail
  <2>. QED  BY <1>1, <2>3, <2>4
<1>2. CASE LogFailure
  <2>1. Asked = TRUE /\ Asked' = TRUE
    BY <1>2 DEF Asked, LogFailure
  <2>2. Recorded = "none" /\ Given = "nothing"
    BY <1>2, MappedValues DEF LogFailure
  <2>3. Recorded' \in {"none", "granted"}
    <3>1. GrantedEvent("grantedError", {}).event = "grantedError"
      BY DEF GrantedEvent, Event
    <3>. QED  BY <1>2, <3>1 DEF LogFailure, Log, Recorded, Denials
  <2>4. Given' = "failure"
    <3>1. ErrorStatus(outcome) \in 400..504
      BY <1>2, HandledStatus, OutcomesAssumption DEF LogFailure, Asked
    <3>. QED  BY <1>2, <2>1, <3>1 DEF LogFailure, Finish, Given, Refused
  <2>. QED  BY <2>1, <2>2, <2>3, <2>4 DEF Access!Next, Access!Fail
<1>3. CASE TransformResponse
  BY <1>3 DEF TransformResponse, Access!accessVars, Asked, Recorded, Given, Refused, LacksHeaders
<1>4. CASE TransformCrashes
  <2>1. Asked = TRUE /\ Asked' = TRUE /\ Recorded' = Recorded /\ Given = "nothing"
    BY <1>4, MappedValues DEF Asked, Recorded, TransformCrashes
  <2>2. Given' = "failure"
    BY <1>4 DEF TransformCrashes, Finish, Given, Refused
  <2>. QED  BY <2>1, <2>2 DEF Access!Next, Access!Fail
<1>5. CASE LogGranted
  <2>1. Asked = TRUE /\ Asked' = TRUE
    BY <1>5 DEF Asked, LogGranted
  <2>2. Recorded = "none" /\ Given = "nothing"
    BY <1>5, MappedValues DEF LogGranted
  <2>3. Recorded' = "granted"
    BY <1>5, LogGrantedRecords DEF LogGranted, Recorded
  <2>4. Given' \in {"nothing", "failure"}
    BY <1>5 DEF LogGranted, Finish, Given, Refused
  <2>. QED  BY <2>1, <2>2, <2>3, <2>4 DEF Access!Next, Access!Grant, Access!Fail
<1>6. CASE EncryptAndReply
  <2>1. Asked' = Asked /\ Recorded' = Recorded /\ Recorded = "granted" /\ Given = "nothing"
    BY <1>6, MappedValues DEF EncryptAndReply, Asked, Recorded
  <2>2. Given' = "data"
    BY <1>6 DEF EncryptAndReply, Finish, Given
  <2>. QED  BY <2>1, <2>2 DEF Access!Next, Access!Give
<1>. QED  BY <1>1, <1>2, <1>3, <1>4, <1>5, <1>6 DEF Answer

\* initial() and post(): with every request, population and outcome of the remote
\* servers, the view implements AuditedAccess.
THEOREM Implementation == Spec => ImplementsAuditedAccess
<1>1. Init => Access!Init
  BY DEF Init, Access!Init, Asked, Recorded, Given
<1>2. IInv /\ IInv' /\ [Next]_vars => [Access!Next]_(Access!accessVars)
  <2> SUFFICES ASSUME IInv, IInv', [Next]_vars
               PROVE  [Access!Next]_(Access!accessVars)
    OBVIOUS
  <2>1. CASE Refuse
    BY <2>1, MappedRefusal DEF Access!Next
  <2>2. CASE Ask
    BY <2>2 DEF Ask, Admit, DecryptRequest, Validate, TransformRequest,
                Access!accessVars, Asked, Recorded, Given, Refused, LacksHeaders
  <2>3. CASE Answer
    BY <2>3, MappedAnswer
  <2>4. CASE UNCHANGED vars
    BY <2>4 DEF vars, Access!accessVars, Asked, Recorded, Given, Refused, LacksHeaders
  <2>. QED  BY <2>1, <2>2, <2>3, <2>4 DEF Next, Done
<1>. QED  BY Invariance, <1>1, <1>2, PTL DEF Spec, ImplementsAuditedAccess, Access!Spec

-----------------------------------------------------------------------------
(* Confidential persons *)

IsPerson(p) == p = [who |-> p.who, data |-> p.data]

\* The persons of an answer are residents, flagged when they are confidential;
\* those of the final answer are residents that the client may see.
AnswerInv ==
  req.view = "personen" =>
    /\ \A p \in hcResponse : IsPerson(p) /\ \E r \in Population :
         p.who = r.who /\ (r.geheim => IsConfidential(p))
    /\ \A p \in finalResponse : IsPerson(p) /\ \E r \in Population :
         p.who = r.who /\ (Geheim \notin req.scopes => ~ r.geheim)

\* Haal Centraal flags the confidential persons it returns.
LEMMA AnswersAreFlagged ==
  ASSUME req.view = "personen", NEW persons \in Answers, NEW p \in persons
  PROVE  IsPerson(p) /\ \E r \in Population : p.who = r.who /\ (r.geheim => IsConfidential(p))
<1>1. PICK r \in Population : p = Render(r, hcRequest["fields"])
  BY DEF Answers
<1>2. IsPerson(p) /\ p.who = r.who
  BY <1>1 DEF Render, IsPerson
<1>3. r.geheim => "geheimhoudingPersoonsgegevens" \in DOMAIN p.data
  BY <1>1 DEF Render
<1>. QED  BY <1>2, <1>3 DEF IsConfidential

\* The hooks keep who a person is, and leave out the flagged ones.
LEMMA HooksHide ==
  ASSUME NEW persons, \A p \in persons : IsPerson(p),
         NEW body, NEW scopes, NEW ids, NEW volledig \in BOOLEAN,
         NEW q \in TransformPersonen(persons, body, scopes, ids, volledig)
  PROVE  IsPerson(q) /\ \E p \in persons :
           q.who = p.who /\ (Geheim \notin scopes => ~ IsConfidential(p))
<1> DEFINE Completed == IF volledig THEN {InsertNulls(p, body["fields"]) : p \in persons}
                        ELSE persons
<1>1. PICK c \in HideConfidential(Completed, scopes) : q = DropKeys(c, ids)
  BY DEF TransformPersonen, HideIdentifiers
<1>2. c \in Completed /\ (Geheim \notin scopes => ~ IsConfidential(c))
  BY <1>1 DEF HideConfidential
<1>3. PICK p \in persons : IF volledig THEN c = InsertNulls(p, body["fields"]) ELSE c = p
  BY <1>2
<1>4. IsPerson(p)
  OBVIOUS
<1>5. IsPerson(c) /\ c.who = p.who /\ DOMAIN p.data \subseteq DOMAIN c.data
  BY <1>3, <1>4 DEF InsertNulls, IsPerson
<1>6. IsPerson(q) /\ q.who = c.who
  BY <1>1, <1>5 DEF DropKeys, IsPerson
<1>. QED  BY <1>2, <1>5, <1>6 DEF IsConfidential

\* Encryption keeps who a person is.
LEMMA EncryptKeepsWho ==
  ASSUME NEW p, IsPerson(p)
  PROVE  IsPerson(EncryptNumber(p)) /\ EncryptNumber(p).who = p.who
BY DEF EncryptNumber, IsPerson

LEMMA AnswerStepInv == ASSUME Typed, AnswerInv, [Next]_vars PROVE AnswerInv'
<1> USE DEF AnswerInv
<1>1. CASE Refuse
  BY <1>1 DEF Refuse, RefuseOverall, RefuseHeaders, RefuseNumber, DenyParameter,
              RejectParameter, DenyFields, TransformRequestCrashes
<1>2. CASE Ask
  BY <1>2 DEF Ask, Admit, DecryptRequest, Validate, TransformRequest
<1>3. CASE CallSucceeds
  <2>1. hcResponse' \in Answers \/ hcResponse' = {}
    BY <1>3 DEF CallSucceeds
  <2>. QED  BY <1>3, <2>1, AnswersAreFlagged DEF CallSucceeds
<1>4. CASE CallFails \/ CallCrashes \/ LogFailure \/ TransformCrashes \/ LogGranted
  BY <1>4 DEF CallFails, CallCrashes, LogFailure, TransformCrashes, LogGranted
<1>5. CASE TransformResponse
  <2> SUFFICES ASSUME req.view = "personen", NEW q \in finalResponse'
               PROVE  IsPerson(q) /\ \E r \in Population :
                        q.who = r.who /\ (Geheim \notin req.scopes => ~ r.geheim)
    BY <1>5 DEF TransformResponse
  <2>1. q \in TransformPersonen(hcResponse, hcRequest, req.scopes, inserted, req.volledig)
    BY <1>5 DEF TransformResponse, Transform
  <2>2. req.volledig \in BOOLEAN
    BY RequestsAssumption DEF Typed, TypeOK
  <2>3. IsPerson(q) /\ \E p \in hcResponse :
          q.who = p.who /\ (Geheim \notin req.scopes => ~ IsConfidential(p))
    BY <2>1, <2>2, HooksHide
  <2>. QED  BY <2>3
<1>6. CASE EncryptAndReply
  <2> SUFFICES ASSUME req.view = "personen"
               PROVE  AnswerInv'
    BY <1>6 DEF EncryptAndReply
  <2>1. \A q \in finalResponse' : IsPerson(q) /\ \E p \in finalResponse : q.who = p.who
    <3>1. \A p \in finalResponse : IsPerson(p)
      OBVIOUS
    <3>2. \A p \in finalResponse : IsPerson(EncryptNumber(p)) /\ EncryptNumber(p).who = p.who
      BY <3>1, EncryptKeepsWho
    <3>. QED  BY <1>6, <3>1, <3>2 DEF EncryptAndReply
  <2>. QED  BY <1>6, <2>1 DEF EncryptAndReply
<1>7. CASE UNCHANGED vars
  BY <1>7 DEF vars
<1>. QED  BY <1>1, <1>2, <1>3, <1>4, <1>5, <1>6, <1>7 DEF Next, Answer, Done

\* _hide_confidential_persons: without the scope no confidential person is
\* delivered, whatever null values were added before and whatever was taken
\* away or encrypted after.
THEOREM Confidential == Spec => []ConfidentialHidden
<1>1. Init => AnswerInv
  BY DEF Init, AnswerInv
<1>2. Typed /\ AnswerInv /\ [Next]_vars => AnswerInv'
  BY AnswerStepInv
<1>3. AnswerInv => ConfidentialHidden
  <2> SUFFICES ASSUME AnswerInv, req.view = "personen", Geheim \notin req.scopes,
                      NEW p \in finalResponse
               PROVE  ~ Resident(p).geheim
    BY DEF ConfidentialHidden, Delivered
  <2>1. PICK r \in Population : p.who = r.who /\ ~ r.geheim
    BY DEF AnswerInv
  <2>2. Resident(p) = r
    BY <2>1, PopulationAssumption DEF Resident
  <2>. QED  BY <2>1, <2>2
<1>4. IInv => Typed
  BY DEF IInv
<1>. QED  BY Invariance, <1>1, <1>2, <1>3, <1>4, PTL DEF Spec

-----------------------------------------------------------------------------
(* Errors of Haal Centraal *)

\* No error becomes a 401, and one about the credentials no 403 either.
LEMMA BlamelessStatus ==
  ASSUME NEW o \in Outcome
  PROVE  /\ ErrorStatus(o) # 401
         /\ o.sort = "response" /\ RejectsCredentials(o) => ErrorStatus(o) # 403
<1>1. HttpError(o).status # 401
  BY DEF HttpError, Raises, Crash
<1>2. RejectsCredentials(o) => HttpError(o).status # 403
  BY DEF HttpError, Raises, Crash
<1>3. RejectsCredentials(o) => o.status # 200 /\ o.status # 304
  BY DEF RejectsCredentials
<1>. QED  BY <1>1, <1>2, <1>3 DEF ErrorStatus, ServerError, CallResult, Raises, Crash

LEMMA BlameStep ==
  ASSUME IInv, NeverBlamesClient, [Next]_vars
  PROVE  NeverBlamesClient'
<1> USE DEF IInv, Typed, TypeOK, StepInv, NeverBlamesClient, Finish
<1>1. CASE Refuse
  <2>1. outcome' = NoOutcome
    BY <1>1 DEF Asked, Refuse, RefuseOverall, RefuseHeaders, RefuseNumber, DenyParameter,
                RejectParameter, DenyFields, TransformRequestCrashes
  <2>2. reply' = 401 => ~ req'.token
    BY <1>1 DEF Refuse, RefuseOverall, RefuseHeaders, RefuseNumber, DenyParameter,
                RejectParameter, DenyFields, TransformRequestCrashes
  <2>. QED  BY <2>1, <2>2 DEF NoOutcome, Failure
<1>2. CASE Ask
  BY <1>2 DEF Ask, Admit, DecryptRequest, Validate, TransformRequest
<1>3. CASE LogFailure
  <2>1. outcome \in Outcome
    BY <1>3, OutcomesAssumption DEF LogFailure, Asked
  <2>. QED  BY <1>3, <2>1, BlamelessStatus DEF LogFailure
<1>4. CASE CallSucceeds \/ CallFails
  BY <1>4 DEF CallSucceeds, CallFails
<1>5. CASE CallCrashes \/ TransformResponse \/ TransformCrashes \/ LogGranted \/ EncryptAndReply
  BY <1>5 DEF CallCrashes, TransformResponse, TransformCrashes, LogGranted, EncryptAndReply
<1>6. CASE UNCHANGED vars
  BY <1>6 DEF vars, RejectsCredentials
<1>. QED  BY <1>1, <1>2, <1>3, <1>4, <1>5, <1>6 DEF Next, Answer, Done

\* _get_http_error: however Haal Centraal rejects the credentials of the proxy,
\* the client is not told that its own were.
THEOREM Blameless == Spec => []NeverBlamesClient
<1>1. Init => NeverBlamesClient
  BY DEF Init, NeverBlamesClient, NoOutcome, Failure
<1>2. IInv /\ NeverBlamesClient /\ [Next]_vars => NeverBlamesClient'
  BY BlameStep
<1>. QED  BY Invariance, <1>1, <1>2, PTL DEF Spec

-----------------------------------------------------------------------------
(* The request in the log *)

\* Until the request is transformed request.data is what the client sent, from
\* then on it differs by the identifiers in the list it shares, and from the
\* clean-up on it is what the client sent again.
SharedInv ==
  /\ pc \in {"received", "admitted", "decrypted", "validated"} =>
       data = req.body /\ inserted = {}
  /\ pc \in {"admitted", "decrypted", "validated"} /\ "fields" \in DOMAIN data =>
       pc = "admitted" \/ ("fields" \in DOMAIN hcRequest /\ hcRequest["fields"] = data["fields"])
  /\ pc \in {"transformed", "answered"} =>
       IF inserted = {} THEN data = req.body
       ELSE IF "fields" \notin DOMAIN req.body THEN data = req.body
       ELSE /\ data = Put(req.body, "fields", hcRequest["fields"])
            /\ hcRequest["fields"] \ inserted = req.body["fields"]
  /\ pc \in {"final", "logged"} => data = req.body
  /\ LogsClientRequest

\* Putting the same values in the place of those that are there changes nothing.
LEMMA PutSame ==
  ASSUME NEW b, IsBody(b), "fields" \in DOMAIN b
  PROVE  /\ Put(b, "fields", b["fields"]) = b
         /\ \A V : Put(Put(b, "fields", V), "fields", b["fields"]) = b
BY DEF Put, IsBody

\* The filters that are added leave a list of fields that is there alone.
LEMMA DefaultsKeepFields ==
  ASSUME NEW body, NEW scopes, "fields" \in DOMAIN body
  PROVE  /\ "fields" \in DOMAIN AddDefaults(body, scopes)
         /\ AddDefaults(body, scopes)["fields"] = body["fields"]
BY DEF AddDefaults, AddDeceased, NeedsDeceased, AddMunicipality, AddFields, Put

LEMMA BodyOfRequest == ASSUME Typed PROVE IsBody(req.body)
BY RequestsAssumption DEF Typed, TypeOK, IsBody

\* What _add_identifier_fields appends is not in the list yet.
LEMMA SharedAfterTransform ==
  ASSUME Typed, SharedInv, TransformRequest
  PROVE  IF inserted' = {} THEN data' = req.body
         ELSE IF "fields" \notin DOMAIN req.body THEN data' = req.body
         ELSE /\ data' = Put(req.body, "fields", hcRequest'["fields"])
              /\ hcRequest'["fields"] \ inserted' = req.body["fields"]
<1>1. data = req.body /\ inserted = {}
  BY DEF SharedInv, TransformRequest
<1>2. CASE req.view # "personen"
  BY <1>1, <1>2 DEF TransformRequest
<1>3. CASE req.view = "personen" /\ "fields" \notin DOMAIN data
  BY <1>1, <1>3 DEF TransformRequest, ShareFields
<1>4. CASE req.view = "personen" /\ "fields" \in DOMAIN data
  <2> DEFINE with == AddDefaults(hcRequest, req.scopes)
  <2>1. with["fields"] = req.body["fields"]
    BY <1>1, <1>4, DefaultsKeepFields DEF SharedInv, TransformRequest
  <2>2. /\ inserted' = InsertedIds(with)
        /\ hcRequest' = AddIdentifiers(with)
        /\ data' = Put(data, "fields", hcRequest'["fields"])
    BY <1>4 DEF TransformRequest, TransformPersonenRequest, ShareFields
  <2>3. hcRequest'["fields"] = req.body["fields"] \cup inserted'
    BY <2>1, <2>2 DEF AddIdentifiers, Put
  <2>4. inserted' \cap req.body["fields"] = {}
    BY <2>1, <2>2 DEF InsertedIds
  <2>5. inserted' = {} => data' = req.body
    BY <1>1, <1>4, <2>2, <2>3, PutSame, BodyOfRequest
  <2>. QED  BY <1>1, <1>4, <2>2, <2>3, <2>4, <2>5
<1>. QED  BY <1>2, <1>3, <1>4

LEMMA CleanedUp ==
  ASSUME Typed, SharedInv, TransformResponse
  PROVE  data' = req.body
<1>1. CASE inserted = {}
  BY <1>1 DEF SharedInv, TransformResponse
<1>2. CASE inserted # {} /\ "fields" \notin DOMAIN req.body
  BY <1>2 DEF SharedInv, TransformResponse, ShareFields
<1>3. CASE inserted # {} /\ "fields" \in DOMAIN req.body
  <2>1. /\ data = Put(req.body, "fields", hcRequest["fields"])
        /\ hcRequest["fields"] \ inserted = req.body["fields"]
    BY <1>3 DEF SharedInv, TransformResponse
  <2>2. "fields" \in DOMAIN data /\ hcRequest'["fields"] = req.body["fields"]
    BY <1>3, <2>1 DEF TransformResponse, Put
  <2>3. data' = Put(data, "fields", req.body["fields"])
    BY <1>3, <2>2 DEF TransformResponse, ShareFields
  <2>. QED  BY <1>3, <2>1, <2>3, PutSame, BodyOfRequest
<1>. QED  BY <1>1, <1>2, <1>3

LEMMA SharedStep ==
  ASSUME IInv, SharedInv, [Next]_vars
  PROVE  SharedInv'
<1> USE DEF SharedInv, LogsClientRequest, Finish
<1>1. CASE Refuse
  <2>1. \A name : Event(name).event = name
    BY DEF Event
  <2>. QED
    BY <1>1, <2>1 DEF Refuse, RefuseOverall, RefuseHeaders, RefuseNumber, DenyParameter,
                RejectParameter, DenyFields, TransformRequestCrashes, Log
<1>2. CASE Admit
  BY <1>2 DEF Admit
<1>3. CASE DecryptRequest
  <2>1. "fields" \in DOMAIN data => "fields" \in DOMAIN hcRequest' /\ hcRequest'["fields"] = data["fields"]
    BY <1>3 DEF DecryptRequest, Put
  <2>. QED  BY <1>3, <2>1 DEF DecryptRequest
<1>4. CASE Validate
  BY <1>4 DEF Validate
<1>5. CASE TransformRequest
  BY <1>5, SharedAfterTransform DEF TransformRequest, IInv
<1>6. CASE CallSucceeds \/ CallFails \/ CallCrashes \/ TransformCrashes \/ EncryptAndReply
  BY <1>6 DEF CallSucceeds, CallFails, CallCrashes, TransformCrashes, EncryptAndReply
<1>7. CASE LogFailure
  <2>1. GrantedEvent("grantedError", {}).event = "grantedError"
    BY DEF GrantedEvent, Event
  <2>. QED  BY <1>7, <2>1 DEF LogFailure, Log
<1>8. CASE TransformResponse
  BY <1>8, CleanedUp DEF TransformResponse, IInv
<1>9. CASE LogGranted
  <2>1. data = req.body
    BY <1>9 DEF LogGranted
  <2>2. GrantedEvent("granted", finalResponse).request = data
    BY DEF GrantedEvent, Event
  <2>3. \A e \in RetrievedEvents(hcResponse) : e.request = data
    BY DEF RetrievedEvents, GrantedEvent, Event
  <2>. QED  BY <1>9, <2>1, <2>2, <2>3 DEF LogGranted, Log
<1>10. CASE UNCHANGED vars
  BY <1>10 DEF vars
<1>. QED
  BY <1>1, <1>2, <1>3, <1>4, <1>5, <1>6, <1>7, <1>8, <1>9, <1>10 DEF Next, Ask, Answer, Done

\* _hide_inserted_identifiers: although the list of fields is shared with the
\* request that is sent on, a granted access is logged with the request that
\* the client sent, for any list of fields and any scopes.
THEOREM RequestLogged == Spec => []LogsClientRequest
<1>1. Init => SharedInv
  BY DEF Init, SharedInv, LogsClientRequest
<1>2. IInv /\ SharedInv /\ [Next]_vars => SharedInv'
  BY SharedStep
<1>3. SharedInv => LogsClientRequest
  BY DEF SharedInv
<1>. QED  BY Invariance, <1>1, <1>2, <1>3, PTL DEF Spec

-----------------------------------------------------------------------------
(* The numbers in the answer and in the log *)

\* What the steps before the call make of the request.
RequestInv ==
  /\ pc = "transformed" /\ req.view = "personen" =>
       "burgerservicenummer" \in hcRequest["fields"]
  /\ pc \notin {"received", "admitted", "done"} =>
       (EncryptBsn \in req.scopes /\ "burgerservicenummer" \in DOMAIN hcRequest =>
          \A v \in hcRequest["burgerservicenummer"] : v.form = "plain")

\* A person as Haal Centraal returns it: a resident, whose number is there and
\* readable.
IsOriginal(p) ==
  /\ IsPerson(p)
  /\ \A f \in DOMAIN p.data : p.data[f].form = "plain"
  /\ \E r \in Population :
       /\ p.who = r.who
       /\ "burgerservicenummer" \in DOMAIN r.fields =>
            Get(p, "burgerservicenummer") = Plain(r.fields["burgerservicenummer"])

\* A person that is not encrypted yet.
IsReadable(p) == IsPerson(p) /\ \A f \in DOMAIN p.data : p.data[f].form \in {"plain", "null"}

PersonsInv ==
  /\ \A p \in hcResponse : IsOriginal(p) /\ ListsPersons(req.view)
  /\ \A q \in finalResponse : \E p \in hcResponse : q.who = p.who
  /\ pc # "done" => \A q \in finalResponse : IsReadable(q)
  /\ pc \notin {"final", "logged", "done"} => finalResponse = {}

RecordsInv ==
  /\ pc = "logged" \/ reply = 200 =>
       \A p \in hcResponse : \E e \in audit :
         e.event = "retrieved" /\ e.ids["burgerservicenummer"] = Get(p, "burgerservicenummer")
  /\ NumbersSealed

NumbersInv == RequestInv /\ PersonsInv /\ RecordsInv

-----------------------------------------------------------------------------
\* _add_fields_filter, _add_identifier_fields: whatever the client asks for, the
\* number is asked of Haal Centraal.
LEMMA NumberIsAsked ==
  ASSUME NEW body, NEW scopes
  PROVE  "burgerservicenummer" \in TransformPersonenRequest(body, scopes)["fields"]
<1> DEFINE with == AddDefaults(body, scopes)
<1>1. "burgerservicenummer" \in PossibleFields(QueryType(with))
  BY FieldsAssumption DEF PossibleFields
<1>2. "burgerservicenummer" \in with["fields"] \cup InsertedIds(with)
  BY <1>1 DEF InsertedIds, IdFields
<1>. QED  BY <1>2 DEF TransformPersonenRequest, AddIdentifiers, Put

\* The transformation of a request adds no number to it.
LEMMA NumbersStay ==
  ASSUME NEW body, NEW scopes
  PROVE  LET new == TransformPersonenRequest(body, scopes)
         IN "burgerservicenummer" \in DOMAIN new =>
              "burgerservicenummer" \in DOMAIN body
                /\ new["burgerservicenummer"] = body["burgerservicenummer"]
BY DEF TransformPersonenRequest, AddDefaults, AddDeceased, NeedsDeceased, AddMunicipality, AddFields,
       AddIdentifiers, Put

LEMMA RequestStep == ASSUME RequestInv, [Next]_vars PROVE RequestInv'
<1> USE DEF RequestInv, Finish
<1>1. CASE Refuse
  BY <1>1 DEF Refuse, RefuseOverall, RefuseHeaders, RefuseNumber, DenyParameter,
              RejectParameter, DenyFields, TransformRequestCrashes
<1>2. CASE Admit \/ Validate
  BY <1>2 DEF Admit, Validate
<1>3. CASE DecryptRequest
  <2>1. \A v, salt : Decrypt(v, salt).form = "plain"
    BY DEF Decrypt, Plain
  <2>2. ASSUME EncryptBsn \in req.scopes, "burgerservicenummer" \in DOMAIN hcRequest'
        PROVE  \A v \in hcRequest'["burgerservicenummer"] : v.form = "plain"
    BY <1>3, <2>1, <2>2 DEF DecryptRequest, SealedNumbers, Put
  <2>. QED  BY <1>3, <2>2 DEF DecryptRequest
<1>4. CASE TransformRequest
  <2>1. CASE req.view = "personen"
    BY <1>4, <2>1, NumberIsAsked, NumbersStay DEF TransformRequest
  <2>2. CASE req.view # "personen"
    BY <1>4, <2>2 DEF TransformRequest
  <2>. QED  BY <2>1, <2>2
<1>5. CASE TransformResponse
  BY <1>5 DEF TransformResponse, Put
<1>6. CASE CallSucceeds \/ CallFails \/ CallCrashes \/ LogFailure \/ TransformCrashes
             \/ LogGranted \/ EncryptAndReply
  BY <1>6 DEF CallSucceeds, CallFails, CallCrashes, LogFailure, TransformCrashes, LogGranted,
              EncryptAndReply
<1>7. CASE UNCHANGED vars
  BY <1>7 DEF vars
<1>. QED  BY <1>1, <1>2, <1>3, <1>4, <1>5, <1>6, <1>7 DEF Next, Ask, Answer, Done

-----------------------------------------------------------------------------
\* What Haal Centraal shows of a resident.
LEMMA RenderIsOriginal ==
  ASSUME NEW r \in Population, NEW names, "burgerservicenummer" \in names
  PROVE  IsOriginal(Render(r, names))
<1> DEFINE p == Render(r, names)
<1>1. IsPerson(p) /\ p.who = r.who
  BY DEF Render, IsPerson
<1>2. \A f \in DOMAIN p.data : p.data[f].form = "plain"
  BY DEF Render, Plain
<1>3. ASSUME "burgerservicenummer" \in DOMAIN r.fields
      PROVE  Get(p, "burgerservicenummer") = Plain(r.fields["burgerservicenummer"])
  BY <1>3 DEF Render, Get
<1>. QED  BY <1>1, <1>2, <1>3 DEF IsOriginal

\* Null values are readable, and the other hooks only take away.
LEMMA HooksKeepReadable ==
  ASSUME NEW p, IsReadable(p), NEW names
  PROVE  /\ IsReadable(InsertNulls(p, names)) /\ InsertNulls(p, names).who = p.who
         /\ IsReadable(DropKeys(p, names)) /\ DropKeys(p, names).who = p.who
<1>1. IsPerson(p)
  BY DEF IsReadable
<1>2. \A f : Get(p, f).form \in {"plain", "null"}
  BY DEF Get, Null, IsReadable
<1>3. /\ InsertNulls(p, names) = [who |-> p.who,
             data |-> [f \in DOMAIN p.data \cup names |-> Get(p, f)]]
      /\ DropKeys(p, names) = [who |-> p.who,
             data |-> [f \in DOMAIN p.data \ names |-> p.data[f]]]
  BY <1>1 DEF InsertNulls, DropKeys, IsPerson
<1>4. IsReadable(InsertNulls(p, names)) /\ InsertNulls(p, names).who = p.who
  BY <1>2, <1>3 DEF IsReadable, IsPerson
<1>5. IsReadable(DropKeys(p, names)) /\ DropKeys(p, names).who = p.who
  BY <1>3 DEF IsReadable, IsPerson
<1>. QED  BY <1>4, <1>5

\* The answer of each view is made of the persons it was given.
LEMMA TransformKeeps ==
  ASSUME NEW persons, \A p \in persons : IsReadable(p), NEW q \in Transform(persons)
  PROVE  IsReadable(q) /\ \E p \in persons : q.who = p.who
<1>1. CASE req.view = "personen"
  <2> DEFINE completed == IF req.volledig
                            THEN {InsertNulls(p, hcRequest["fields"]) : p \in persons}
                          ELSE persons
  <2>1. \A c \in completed : IsReadable(c) /\ \E p \in persons : c.who = p.who
    BY HooksKeepReadable
  <2>2. PICK c \in completed : q = DropKeys(c, inserted)
    BY <1>1 DEF Transform, TransformPersonen, HideIdentifiers, HideConfidential
  <2>. QED  BY <2>1, <2>2, HooksKeepReadable
<1>2. CASE req.view # "personen"
  BY <1>2, HooksKeepReadable DEF Transform, TransformBewoners
<1>. QED  BY <1>1, <1>2

LEMMA PersonsStep == ASSUME Typed, RequestInv, PersonsInv, [Next]_vars PROVE PersonsInv'
<1> USE DEF PersonsInv, Finish
<1>1. CASE Refuse
  BY <1>1 DEF Refuse, RefuseOverall, RefuseHeaders, RefuseNumber, DenyParameter,
              RejectParameter, DenyFields, TransformRequestCrashes
<1>2. CASE Ask
  BY <1>2 DEF Ask, Admit, DecryptRequest, Validate, TransformRequest
<1>3. CASE CallSucceeds
  <2>1. ASSUME NEW persons \in Answers, NEW p \in persons
        PROVE  IsOriginal(p) /\ ListsPersons(req.view)
    <3>1. CASE req.view = "personen"
      BY <1>3, <2>1, <3>1, RenderIsOriginal
         DEF Answers, CallSucceeds, RequestInv, ListsPersons
    <3>2. CASE req.view = "bewoningen"
      BY <2>1, <3>2, RenderIsOriginal DEF Answers, BewonerFields, ListsPersons
    <3>3. CASE req.view \notin {"personen", "bewoningen"}
      BY <2>1, <3>3 DEF Answers
    <3>. QED  BY <3>1, <3>2, <3>3
  <2>2. \A p \in hcResponse' : IsOriginal(p) /\ ListsPersons(req.view)
    BY <1>3, <2>1 DEF CallSucceeds
  <2>3. finalResponse = {}
    BY <1>3 DEF CallSucceeds
  <2>. QED  BY <1>3, <2>2, <2>3 DEF CallSucceeds
<1>4. CASE CallFails \/ CallCrashes \/ LogFailure \/ TransformCrashes \/ LogGranted
  BY <1>4 DEF CallFails, CallCrashes, LogFailure, TransformCrashes, LogGranted
<1>5. CASE TransformResponse
  <2>1. \A p \in hcResponse : IsReadable(p)
    BY DEF IsOriginal, IsReadable
  <2>2. \A q \in Transform(hcResponse) : IsReadable(q) /\ \E p \in hcResponse : q.who = p.who
    BY <2>1, TransformKeeps
  <2>. QED  BY <1>5, <2>2 DEF TransformResponse
<1>6. CASE EncryptAndReply
  <2>1. \A p \in finalResponse : IsPerson(p)
    BY <1>6 DEF EncryptAndReply, IsReadable
  <2>2. \A q \in finalResponse' : \E p \in finalResponse : q.who = p.who
    BY <1>6, <2>1, EncryptKeepsWho DEF EncryptAndReply
  <2>. QED  BY <1>6, <2>2 DEF EncryptAndReply
<1>7. CASE UNCHANGED vars
  BY <1>7 DEF vars
<1>. QED  BY <1>1, <1>2, <1>3, <1>4, <1>5, <1>6, <1>7 DEF Next, Answer, Done

-----------------------------------------------------------------------------
\* What is written of a refusal names nobody, and neither does a failed call.
LEMMA PlainEvents ==
  ASSUME NEW name
  PROVE  /\ Event(name).event = name
         /\ DOMAIN Event(name).ids = {} /\ Event(name).persons = {}
         /\ DOMAIN Event(name).sent = {}
BY DEF Event, NoBody

LEMMA GrantedEvents ==
  ASSUME NEW name, NEW persons
  PROVE  LET e == GrantedEvent(name, persons)
         IN /\ e.event = name /\ DOMAIN e.ids = {} /\ e.persons = persons
            /\ e.sent = hcRequest
BY DEF GrantedEvent, Event, NoBody

LEMMA RetrievedEvent ==
  ASSUME NEW e \in RetrievedEvents(hcResponse)
  PROVE  \E p \in hcResponse :
           /\ e.event = "retrieved" /\ e.persons = finalResponse /\ e.sent = hcRequest
           /\ e.ids = [f \in LoggedIds(req.view) |-> Get(p, f)]
BY DEF RetrievedEvents, GrantedEvent, Event

\* What may stand in a record, of a user whose numbers are encrypted.
IsOpen(e) ==
  /\ \A f \in DOMAIN e.ids : e.ids[f].form # "cipher"
  /\ \A p \in e.persons : Get(p, "burgerservicenummer").form # "cipher"
  /\ "burgerservicenummer" \in DOMAIN e.sent =>
       \A v \in e.sent["burgerservicenummer"] : v.form = "plain"

\* No record of the log, and no new one, shows a sealed number.
LEMMA RecordsOpen ==
  ASSUME IInv, RequestInv, PersonsInv, [Next]_vars, EncryptBsn \in req.scopes,
         \A e \in audit : IsOpen(e)
  PROVE  \A e \in audit' : IsOpen(e)
<1>1. \A name : IsOpen(Event(name))
  BY PlainEvents DEF IsOpen
<1>2. CASE Refuse
  BY <1>1, <1>2 DEF Refuse, RefuseOverall, RefuseHeaders, RefuseNumber, DenyParameter,
              RejectParameter, DenyFields, TransformRequestCrashes, Log
<1>3. CASE LogFailure
  <2>1. IsOpen(GrantedEvent("grantedError", {}))
    BY <1>3, GrantedEvents DEF IsOpen, RequestInv, LogFailure
  <2>. QED  BY <1>3, <2>1 DEF LogFailure, Log
<1>4. CASE LogGranted
  <2>1. \A p \in finalResponse : Get(p, "burgerservicenummer").form # "cipher"
    BY <1>4 DEF LogGranted, PersonsInv, IsReadable, Get, Null
  <2>2. \A p \in hcResponse : \A f : Get(p, f).form # "cipher"
    BY DEF PersonsInv, IsOriginal, Get, Null
  <2>3. "burgerservicenummer" \in DOMAIN hcRequest =>
          \A v \in hcRequest["burgerservicenummer"] : v.form = "plain"
    BY <1>4 DEF LogGranted, RequestInv
  <2>4. IsOpen(GrantedEvent("granted", finalResponse))
    BY <2>1, <2>3, GrantedEvents DEF IsOpen
  <2>5. ASSUME NEW e \in RetrievedEvents(hcResponse)
        PROVE  IsOpen(e)
    <3>1. PICK p \in hcResponse :
            /\ e.event = "retrieved" /\ e.persons = finalResponse /\ e.sent = hcRequest
            /\ e.ids = [f \in LoggedIds(req.view) |-> Get(p, f)]
      BY RetrievedEvent
    <3>2. \A f \in DOMAIN e.ids : e.ids[f].form # "cipher"
      BY <2>2, <3>1
    <3>. QED  BY <2>1, <2>3, <3>1, <3>2 DEF IsOpen
  <2>. QED  BY <1>4, <2>4, <2>5 DEF LogGranted, Log
<1>5. CASE Ask \/ CallSucceeds \/ CallFails \/ CallCrashes \/ TransformResponse
             \/ TransformCrashes \/ EncryptAndReply
  BY <1>5 DEF Ask, Admit, DecryptRequest, Validate, TransformRequest, CallSucceeds, CallFails,
              CallCrashes, TransformResponse, TransformCrashes, EncryptAndReply
<1>6. CASE UNCHANGED vars
  BY <1>6 DEF vars
<1>. QED  BY <1>2, <1>3, <1>4, <1>5, <1>6 DEF Next, Answer, Done

\* An encrypted person shows no number that can be read.
LEMMA EncryptSeals ==
  ASSUME NEW p, IsPerson(p)
  PROVE  Get(EncryptNumber(p), "burgerservicenummer").form # "plain"
<1>1. \A v, salt : Encrypt(v, salt).form = "cipher"
  BY DEF Encrypt, Cipher
<1>2. CASE "burgerservicenummer" \in DOMAIN p.data
  <2>1. p = [who |-> p.who, data |-> p.data]
    BY DEF IsPerson
  <2>2. EncryptNumber(p).data = [p.data EXCEPT !["burgerservicenummer"] =
                                   Encrypt(@, req.correlation)]
    BY <1>2, <2>1 DEF EncryptNumber
  <2>. QED  BY <1>1, <1>2, <2>2 DEF Get
<1>3. CASE "burgerservicenummer" \notin DOMAIN p.data
  BY <1>3 DEF EncryptNumber, Get, Null
<1>. QED  BY <1>2, <1>3

\* A step that replies 200 is the encryption, and a reply stays.
LEMMA ReplyStep ==
  ASSUME IInv, [Next]_vars, reply' = 200
  PROVE  (reply = 200 /\ vars' = vars) \/ (pc = "logged" /\ EncryptAndReply)
<1>1. CASE vars' = vars
  BY <1>1 DEF vars
<1>2. CASE vars' # vars
  <2>1. pc = "logged"
    BY <1>2, AnswerStep
  <2>. QED
    BY <1>2, <2>1 DEF Next, Refuse, Ask, Answer, Done, RefuseOverall, RefuseHeaders,
       RefuseNumber, DenyParameter, RejectParameter, DenyFields, TransformRequestCrashes,
       Admit, DecryptRequest, Validate, TransformRequest, CallSucceeds, CallFails,
       CallCrashes, LogFailure, TransformResponse, TransformCrashes, LogGranted
<1>. QED  BY <1>1, <1>2

LEMMA RecordsStep ==
  ASSUME IInv, RequestInv, PersonsInv, RecordsInv, [Next]_vars
  PROVE  RecordsInv'
<1>1. req' = req
  BY DEF Next, Refuse, Ask, Answer, Done, RefuseOverall, RefuseHeaders,
       RefuseNumber, DenyParameter, RejectParameter, DenyFields, TransformRequestCrashes,
       Admit, DecryptRequest, Validate, TransformRequest, CallSucceeds, CallFails,
       CallCrashes, LogFailure, TransformResponse, TransformCrashes, LogGranted,
       EncryptAndReply, vars
<1>2. ASSUME EncryptBsn \in req.scopes
      PROVE  \A e \in audit' : IsOpen(e)
  BY <1>2, RecordsOpen DEF RecordsInv, NumbersSealed, IsOpen
<1>3. ASSUME EncryptBsn \in req.scopes, reply' = 200, NEW q \in finalResponse'
      PROVE  Get(q, "burgerservicenummer").form # "plain"
  <2>1. CASE reply = 200 /\ vars' = vars
    BY <1>3, <2>1 DEF vars, RecordsInv, NumbersSealed, Delivered
  <2>2. CASE pc = "logged" /\ EncryptAndReply
    <3>1. PICK p \in finalResponse : q = EncryptNumber(p)
      BY <1>3, <2>2 DEF EncryptAndReply
    <3>2. IsPerson(p)
      BY <2>2 DEF PersonsInv, IsReadable
    <3>. QED  BY <3>1, <3>2, EncryptSeals
  <2>. QED  BY <1>3, <2>1, <2>2, ReplyStep
<1>4. NumbersSealed'
  BY <1>1, <1>2, <1>3 DEF NumbersSealed, Delivered, IsOpen
<1>5. ASSUME pc' = "logged" \/ reply' = 200, NEW p \in hcResponse'
      PROVE  \E e \in audit' :
        e.event = "retrieved" /\ e.ids["burgerservicenummer"] = Get(p, "burgerservicenummer")
  <2>1. CASE reply' = 200
    BY <1>5, <2>1, ReplyStep DEF RecordsInv, EncryptAndReply, vars
  <2>2. CASE pc' = "logged" /\ LogGranted
    <3>1. p \in hcResponse /\ ListsPersons(req.view)
      BY <1>5, <2>2 DEF LogGranted, PersonsInv
    <3> DEFINE e == [GrantedEvent("retrieved", finalResponse) EXCEPT
                       !.needed = {}, !.ids = [f \in LoggedIds(req.view) |-> Get(p, f)]]
    <3>2. e \in audit'
      BY <2>2, <3>1 DEF LogGranted, Log, RetrievedEvents
    <3>3. e.event = "retrieved" /\ e.ids = [f \in LoggedIds(req.view) |-> Get(p, f)]
      BY DEF GrantedEvent, Event
    <3>4. "burgerservicenummer" \in LoggedIds(req.view)
      BY DEF LoggedIds, IdFields
    <3>. QED  BY <3>2, <3>3, <3>4
  <2>3. CASE pc' = "logged" /\ vars' = vars
    BY <1>5, <2>3 DEF RecordsInv, vars
  <2>4. pc' = "logged" => LogGranted \/ vars' = vars
    BY DEF Next, Refuse, Ask, Answer, Done, RefuseOverall, RefuseHeaders,
       RefuseNumber, DenyParameter, RejectParameter, DenyFields, TransformRequestCrashes,
       Admit, DecryptRequest, Validate, TransformRequest, CallSucceeds, CallFails,
       CallCrashes, LogFailure, TransformResponse, TransformCrashes, EncryptAndReply, Finish
  <2>. QED  BY <1>5, <2>1, <2>2, <2>3, <2>4
<1>. QED  BY <1>4, <1>5 DEF RecordsInv

-----------------------------------------------------------------------------
LEMMA NumbersInvariance == Spec => []NumbersInv
<1>1. Init => NumbersInv
  BY DEF Init, NumbersInv, RequestInv, PersonsInv, RecordsInv, NumbersSealed, Delivered
<1>2. IInv /\ NumbersInv /\ [Next]_vars => NumbersInv'
  BY RequestStep, PersonsStep, RecordsStep DEF NumbersInv, IInv
<1>. QED  BY Invariance, <1>1, <1>2, PTL DEF Spec

\* encrypt_response, decrypt_request: for a user whose numbers are encrypted no
\* readable number is delivered and no sealed one logged, in any view.
THEOREM Sealed == Spec => []NumbersSealed
<1>1. NumbersInv => NumbersSealed
  BY DEF NumbersInv, RecordsInv
<1>. QED  BY NumbersInvariance, <1>1, PTL

\* log_access_granted, _add_identifier_fields: every resident that is delivered
\* is on record with its own number, which the client may not have asked for.
THEOREM Audited == Spec => []DeliveredIsAudited
<1>1. NumbersInv => DeliveredIsAudited
  <2> SUFFICES ASSUME NumbersInv, reply = 200, NEW q \in finalResponse,
                      "burgerservicenummer" \in DOMAIN Resident(q).fields
               PROVE  \E e \in audit :
                        /\ e.event = "retrieved"
                        /\ e.ids["burgerservicenummer"] =
                             Plain(Resident(q).fields["burgerservicenummer"])
    BY DEF DeliveredIsAudited, Delivered
  <2>1. PICK p \in hcResponse : q.who = p.who
    BY DEF NumbersInv, PersonsInv
  <2>2. PICK r \in Population :
          /\ p.who = r.who
          /\ "burgerservicenummer" \in DOMAIN r.fields =>
               Get(p, "burgerservicenummer") = Plain(r.fields["burgerservicenummer"])
    BY DEF NumbersInv, PersonsInv, IsOriginal
  <2>3. Resident(q) = r
    BY <2>1, <2>2, PopulationAssumption DEF Resident
  <2>. QED  BY <2>1, <2>2, <2>3 DEF NumbersInv, RecordsInv
<1>. QED  BY NumbersInvariance, <1>1, PTL

=============================================================================

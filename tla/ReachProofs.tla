------------------------------ MODULE ReachProofs ------------------------------
(***************************************************************************)
(* Whom and what a request can reach, for every set of requests, scopes,   *)
(* population and outcome: the parameters that were accepted, the filters  *)
(* that are added to them, and the answer that Haal Centraal gives to what *)
(* is sent on.                                                             *)
(***************************************************************************)
EXTENDS ProxyViewProofs

SameButNumbers(body) ==
  /\ DOMAIN body = DOMAIN req.body
  /\ \A p \in DOMAIN body \ {"burgerservicenummer"} : body[p] = req.body[p]

\* validate_parameters lets the request through.
Accepted(body) ==
  /\ HasType(body)
  /\ DOMAIN body \subseteq DOMAIN Ruleset(req.view, body)
  /\ \A p \in DOMAIN body : Verdict(Ruleset(req.view, body)[p], body[p], req.scopes) = "granted"

AcceptedInv ==
  /\ pc \in {"decrypted", "validated"} => SameButNumbers(hcRequest)
  /\ pc = "validated" => Accepted(hcRequest)

\* Whom the user may reach with the type of its search.
InReach(r) ==
  /\ r.gemeente # Amsterdam =>
       IF req.body["type"] = {ZoekPostcode} THEN PostcodeLandelijk \in req.scopes
       ELSE /\ Landelijk \in req.scopes
            /\ req.body["type"] \in {{Raadpleeg}, {ZoekGeslachtsnaam}}
  /\ r.overleden /\ req.body["type"] # {Raadpleeg} => Overledenen \in req.scopes

ReachInv ==
  req.view = "personen" =>
    /\ pc = "transformed" => \A r \in Population : Matches(r) => InReach(r)
    /\ \A p \in hcResponse : \E r \in Population : p.who = r.who /\ InReach(r)

-----------------------------------------------------------------------------
\* A request that is granted has a type and no parameter that is unknown or fails.
LEMMA GrantedMeans ==
  ASSUME NEW ruleset, NEW body, NEW scopes,
         \E o \in ValidateParameters(ruleset, body, scopes) : o.verdict = "granted"
  PROVE  /\ HasType(body)
         /\ DOMAIN body \subseteq DOMAIN ruleset
         /\ \A p \in DOMAIN body : Verdict(ruleset[p], body[p], scopes) = "granted"
<1>1. HasType(body)
  BY DEF ValidateParameters
<1>2. Failing(ruleset, body, scopes) = {}
  BY <1>1 DEF ValidateParameters, Failing
<1>3. DOMAIN body \subseteq DOMAIN ruleset
  BY <1>1, <1>2 DEF ValidateParameters
<1>. QED  BY <1>1, <1>2, <1>3 DEF Failing

LEMMA AcceptedStep == ASSUME SharedInv, AcceptedInv, [Next]_vars PROVE AcceptedInv'
<1> USE DEF AcceptedInv, Finish
<1>1. CASE DecryptRequest
  <2>1. data = req.body
    BY <1>1 DEF DecryptRequest, SharedInv
  <2>2. SameButNumbers(hcRequest')
    BY <1>1, <2>1 DEF DecryptRequest, SealedNumbers, SameButNumbers, Put
  <2>. QED  BY <1>1, <2>2 DEF DecryptRequest, SameButNumbers
<1>2. CASE Validate
  <2>1. Accepted(hcRequest)
    BY <1>2, GrantedMeans DEF Validate, ValidateOutcomes, Accepted
  <2>. QED  BY <1>2, <2>1 DEF Validate, Accepted, SameButNumbers
<1>3. CASE Refuse
  BY <1>3 DEF Refuse, RefuseOverall, RefuseHeaders, RefuseNumber, DenyParameter,
              RejectParameter, DenyFields, TransformRequestCrashes
<1>4. CASE Admit \/ TransformRequest
  BY <1>4 DEF Admit, TransformRequest
<1>5. CASE Answer
  BY <1>5 DEF Answer, CallSucceeds, CallFails, CallCrashes, LogFailure, TransformResponse,
              TransformCrashes, LogGranted, EncryptAndReply
<1>6. CASE UNCHANGED vars
  BY <1>6 DEF vars, SameButNumbers, Accepted
<1>. QED  BY <1>1, <1>2, <1>3, <1>4, <1>5, <1>6 DEF Next, Ask, Done

-----------------------------------------------------------------------------
(* Searches stay within the municipality, and away from the deceased *)

\* An accepted municipality other than Amsterdam takes the scope of the type.
LEMMA AcceptedMunicipality ==
  ASSUME NEW t, NEW values, NEW scopes, NEW m \in values, m # Amsterdam,
         Verdict(MunicipalityPolicy(t), values, scopes) = "granted"
  PROVE  /\ t \notin OnlyInAmsterdam
         /\ IF t = ZoekPostcode THEN PostcodeLandelijk \in scopes ELSE Landelijk \in scopes
<1>1. NeededScopes(MunicipalityPolicy(t), m) # {}
  BY DEF Verdict
<1>2. NeededScopes(MunicipalityPolicy(t), m) = MunicipalityPolicy(t).defaultScope
  BY DEF NeededScopes, MunicipalityPolicy, ForValues, ForValuesOrElse
<1>3. t \notin OnlyInAmsterdam
  BY <1>1, <1>2 DEF MunicipalityPolicy, ForValues
<1>4. MunicipalityPolicy(t).defaultScope =
        {OneOf(IF t = ZoekPostcode THEN {PostcodeLandelijk} ELSE {Landelijk})}
  BY <1>3 DEF MunicipalityPolicy, ForValues, ForValuesOrElse
<1>5. Grants(OneOf(IF t = ZoekPostcode THEN {PostcodeLandelijk} ELSE {Landelijk}), scopes)
  BY <1>2, <1>4 DEF Verdict
<1>. QED  BY <1>3, <1>5 DEF Grants, OneOf

\* An accepted type is one of the seven, and the user holds a scope of it.
LEMMA AcceptedType ==
  ASSUME NEW t, NEW scopes, Verdict(TypePolicy, {t}, scopes) = "granted"
  PROVE  /\ t \in PersonenTypes
         /\ t = ZoekPostcode => {Postcode, PostcodeLandelijk} \cap scopes # {}
<1>1. NeededScopes(TypePolicy, t) # {}
  BY DEF Verdict
<1>2. t \in PersonenTypes
  BY <1>1 DEF NeededScopes, TypePolicy, ForValues
<1>3. NeededScopes(TypePolicy, t) = {OneOf(TypeScopes[t])}
  BY <1>2 DEF NeededScopes, TypePolicy, ForValues
<1>4. Grants(OneOf(TypeScopes[t]), scopes)
  BY <1>3 DEF Verdict
<1>5. t = ZoekPostcode => TypeScopes[t] = {Postcode, PostcodeLandelijk}
  BY <1>2 DEF TypeScopes, ZoekPostcode, Raadpleeg, ZoekGeslachtsnaam
<1>. QED  BY <1>2, <1>4, <1>5 DEF Grants, OneOf

\* An accepted value other than "false" takes the scope.
LEMMA AcceptedDeceased ==
  ASSUME NEW values, NEW scopes, NEW v \in values, v # "false",
         Verdict(DeceasedPolicy, values, scopes) = "granted"
  PROVE  Overledenen \in scopes
<1>1. NeededScopes(DeceasedPolicy, v) # {}
  BY DEF Verdict
<1>2. /\ DOMAIN DeceasedPolicy.scopesForValues = {"true", "false"}
      /\ DeceasedPolicy.scopesForValues["true"] = OneOf({Overledenen})
      /\ DeceasedPolicy.patterns = <<>>
      /\ DeceasedPolicy.defaultScope = {}
  BY DEF DeceasedPolicy, ForValues
<1>3. v = "true"
  BY <1>1, <1>2 DEF NeededScopes
<1>4. NeededScopes(DeceasedPolicy, v) = {OneOf({Overledenen})}
  BY <1>2, <1>3 DEF NeededScopes
<1>5. Grants(OneOf({Overledenen}), scopes)
  BY <1>4 DEF Verdict
<1>. QED  BY <1>5 DEF Grants, OneOf

\* transform_request keeps what the client sent of these parameters, and adds
\* what it lacks.
LEMMA Filters ==
  ASSUME NEW body, NEW scopes, "type" \in DOMAIN body
  PROVE  LET new == TransformPersonenRequest(body, scopes)
             m == "gemeenteVanInschrijving"
             d == "inclusiefOverledenPersonen"
         IN /\ "type" \in DOMAIN new /\ new["type"] = body["type"]
            /\ m \in DOMAIN body => m \in DOMAIN new /\ new[m] = body[m]
            /\ m \notin DOMAIN body =>
                 IF NeedsMunicipality(body, scopes) THEN m \in DOMAIN new /\ new[m] = {Amsterdam}
                 ELSE m \notin DOMAIN new
            /\ d \in DOMAIN body => d \in DOMAIN new /\ new[d] = body[d]
            /\ d \notin DOMAIN body /\ d \in DOMAIN new => Overledenen \in scopes
<1> DEFINE b1 == AddFields(body, scopes)
           b2 == AddMunicipality(b1, scopes)
           b3 == AddDeceased(b2, scopes)
           m == "gemeenteVanInschrijving"
           d == "inclusiefOverledenPersonen"
<1>1. \A p \in {"type", m, d} :
        (p \in DOMAIN b1 <=> p \in DOMAIN body) /\ (p \in DOMAIN body => b1[p] = body[p])
  BY DEF AddFields, Put
<1>2. NeedsMunicipality(b1, scopes) <=> NeedsMunicipality(body, scopes)
  BY <1>1 DEF NeedsMunicipality, QueryType
<1>3. /\ \A p \in {"type", d} :
           (p \in DOMAIN b2 <=> p \in DOMAIN b1) /\ (p \in DOMAIN b1 => b2[p] = b1[p])
      /\ m \in DOMAIN b1 => m \in DOMAIN b2 /\ b2[m] = b1[m]
      /\ m \notin DOMAIN b1 =>
           IF NeedsMunicipality(b1, scopes) THEN m \in DOMAIN b2 /\ b2[m] = {Amsterdam}
           ELSE m \notin DOMAIN b2
  BY DEF AddMunicipality, Put, NeedsMunicipality
<1>4. /\ \A p \in {"type", m} :
           (p \in DOMAIN b3 <=> p \in DOMAIN b2) /\ (p \in DOMAIN b2 => b3[p] = b2[p])
      /\ d \in DOMAIN b2 => d \in DOMAIN b3 /\ b3[d] = b2[d]
      /\ d \notin DOMAIN b2 /\ d \in DOMAIN b3 => Overledenen \in scopes
  BY DEF AddDeceased, NeedsDeceased, Put
<1>5. \A p \in {"type", m, d} :
        /\ p \in DOMAIN AddIdentifiers(b3) <=> p \in DOMAIN b3
        /\ p \in DOMAIN b3 => AddIdentifiers(b3)[p] = b3[p]
  BY DEF AddIdentifiers, Put
<1>. QED  BY <1>1, <1>2, <1>3, <1>4, <1>5 DEF TransformPersonenRequest, AddDefaults

\* What an accepted request of the persons view has gone through.
LEMMA AcceptedPersonen ==
  ASSUME Typed, req.view = "personen", SameButNumbers(hcRequest), Accepted(hcRequest)
  PROVE  \E t \in PersonenTypes :
           /\ "type" \in DOMAIN hcRequest /\ hcRequest["type"] = {t} /\ req.body["type"] = {t}
           /\ t = ZoekPostcode => {Postcode, PostcodeLandelijk} \cap req.scopes # {}
           /\ "gemeenteVanInschrijving" \in DOMAIN hcRequest =>
                Verdict(MunicipalityPolicy(t), hcRequest["gemeenteVanInschrijving"],
                        req.scopes) = "granted"
           /\ "inclusiefOverledenPersonen" \in DOMAIN hcRequest =>
                Verdict(DeceasedPolicy, hcRequest["inclusiefOverledenPersonen"],
                        req.scopes) = "granted"
           /\ "fields" \in DOMAIN hcRequest =>
                Verdict(FieldsPolicy, hcRequest["fields"], req.scopes) = "granted"
<1>1. "type" \in DOMAIN hcRequest /\ hcRequest["type"] = req.body["type"]
  BY DEF Accepted, HasType, SameButNumbers
<1>2. PICK t : req.body["type"] = {t}
  BY <1>1, TypesAssumption DEF Typed, TypeOK, SameButNumbers
<1>3. QueryType(hcRequest) = t
  BY <1>1, <1>2 DEF QueryType
<1>4. Ruleset(req.view, hcRequest) = PersonenRuleset(t)
  BY <1>3 DEF Ruleset, Accepted
<1>5. \A p \in DOMAIN hcRequest : Verdict(PersonenRuleset(t)[p], hcRequest[p], req.scopes) = "granted"
  BY <1>4 DEF Accepted
<1>6. /\ PersonenRuleset(t)["type"] = TypePolicy
      /\ PersonenRuleset(t)["fields"] = FieldsPolicy
      /\ PersonenRuleset(t)["inclusiefOverledenPersonen"] = DeceasedPolicy
      /\ PersonenRuleset(t)["gemeenteVanInschrijving"] = MunicipalityPolicy(t)
  BY DEF PersonenRuleset
<1>7. /\ t \in PersonenTypes
      /\ t = ZoekPostcode => {Postcode, PostcodeLandelijk} \cap req.scopes # {}
  BY <1>1, <1>2, <1>5, <1>6, AcceptedType
<1>. QED  BY <1>1, <1>2, <1>5, <1>6, <1>7

\* What is sent on matches those only whom the user may reach.
LEMMA SentInReach ==
  ASSUME Typed, req.view = "personen", SameButNumbers(hcRequest), Accepted(hcRequest),
         hcRequest' = TransformPersonenRequest(hcRequest, req.scopes),
         NEW r \in Population, Matches(r)'
  PROVE  InReach(r)
<1>1. PICK t \in PersonenTypes :
           /\ "type" \in DOMAIN hcRequest /\ hcRequest["type"] = {t} /\ req.body["type"] = {t}
           /\ t = ZoekPostcode => {Postcode, PostcodeLandelijk} \cap req.scopes # {}
           /\ "gemeenteVanInschrijving" \in DOMAIN hcRequest =>
                Verdict(MunicipalityPolicy(t), hcRequest["gemeenteVanInschrijving"],
                        req.scopes) = "granted"
           /\ "inclusiefOverledenPersonen" \in DOMAIN hcRequest =>
                Verdict(DeceasedPolicy, hcRequest["inclusiefOverledenPersonen"],
                        req.scopes) = "granted"
  BY AcceptedPersonen
<1>2. QueryType(hcRequest) = t
  BY <1>1 DEF QueryType
<1>3. ASSUME r.gemeente # Amsterdam
      PROVE  /\ t \notin OnlyInAmsterdam
             /\ IF t = ZoekPostcode THEN PostcodeLandelijk \in req.scopes
                ELSE Landelijk \in req.scopes
  <2>1. CASE "gemeenteVanInschrijving" \in DOMAIN hcRequest
    <3>1. r.gemeente \in hcRequest["gemeenteVanInschrijving"]
      BY <1>1, <2>1, Filters DEF Matches
    <3>. QED  BY <1>1, <1>3, <2>1, <3>1, AcceptedMunicipality
  <2>2. CASE "gemeenteVanInschrijving" \notin DOMAIN hcRequest
    <3>1. ~ NeedsMunicipality(hcRequest, req.scopes)
      BY <1>1, <1>3, <2>2, Filters DEF Matches
    <3>. QED  BY <1>1, <1>2, <2>2, <3>1 DEF NeedsMunicipality
  <2>. QED  BY <2>1, <2>2
<1>4. t \notin OnlyInAmsterdam => t \in {Raadpleeg, ZoekGeslachtsnaam, ZoekPostcode}
  BY DEF PersonenTypes, IncludeDeceasedTypes
<1>5. ASSUME r.overleden, t # Raadpleeg
      PROVE  Overledenen \in req.scopes
  <2>1. /\ "inclusiefOverledenPersonen" \in DOMAIN hcRequest'
        /\ \E v \in hcRequest'["inclusiefOverledenPersonen"] : v # "false"
    BY <1>1, <1>5, Filters DEF Matches
  <2>. QED  BY <1>1, <2>1, Filters, AcceptedDeceased
<1>. QED  BY <1>1, <1>3, <1>4, <1>5 DEF InReach

LEMMA ReachStep ==
  ASSUME Typed, AcceptedInv, ReachInv, [Next]_vars
  PROVE  ReachInv'
<1> USE DEF ReachInv, Finish
<1>1. CASE TransformRequest
  <2>1. ASSUME req.view = "personen", NEW r \in Population, Matches(r)'
        PROVE  InReach(r)
    BY <1>1, <2>1, SentInReach DEF TransformRequest, AcceptedInv
  <2>. QED  BY <1>1, <2>1 DEF TransformRequest, InReach
<1>2. CASE CallSucceeds
  <2>1. ASSUME req.view = "personen", NEW p \in hcResponse'
        PROVE  \E r \in Population : p.who = r.who /\ InReach(r)
    <3>1. PICK r \in Population : Matches(r) /\ p = Render(r, hcRequest["fields"])
      BY <1>2, <2>1 DEF CallSucceeds, Answers
    <3>2. p.who = r.who
      BY <3>1 DEF Render
    <3>. QED  BY <1>2, <2>1, <3>1, <3>2 DEF CallSucceeds
  <2>. QED  BY <1>2, <2>1 DEF CallSucceeds, InReach
<1>3. CASE Refuse
  BY <1>3 DEF Refuse, RefuseOverall, RefuseHeaders, RefuseNumber, DenyParameter,
              RejectParameter, DenyFields, TransformRequestCrashes, InReach
<1>4. CASE Admit \/ DecryptRequest \/ Validate
  BY <1>4 DEF Admit, DecryptRequest, Validate, InReach
<1>5. CASE CallFails \/ CallCrashes \/ LogFailure \/ TransformResponse \/ TransformCrashes
             \/ LogGranted \/ EncryptAndReply
  BY <1>5 DEF CallFails, CallCrashes, LogFailure, TransformResponse, TransformCrashes,
              LogGranted, EncryptAndReply, InReach
<1>6. CASE UNCHANGED vars
  BY <1>6 DEF vars, InReach, Matches
<1>. QED  BY <1>1, <1>2, <1>3, <1>4, <1>5, <1>6 DEF Next, Ask, Answer, Done

LEMMA ReachInvariance == Spec => [](AcceptedInv /\ ReachInv)
<1>1. Init => SharedInv /\ AcceptedInv /\ ReachInv
  BY DEF Init, SharedInv, LogsClientRequest, AcceptedInv, ReachInv
<1>2. IInv /\ SharedInv /\ AcceptedInv /\ ReachInv /\ [Next]_vars
        => SharedInv' /\ AcceptedInv' /\ ReachInv'
  BY SharedStep, AcceptedStep, ReachStep DEF IInv
<1>. QED  BY Invariance, <1>1, <1>2, PTL DEF Spec

\* Who is delivered is a resident within reach.
LEMMA DeliveredInReach ==
  ASSUME ReachInv, NumbersInv, req.view = "personen", NEW q \in Delivered
  PROVE  InReach(Resident(q))
<1>1. PICK p \in hcResponse : q.who = p.who
  BY DEF Delivered, NumbersInv, PersonsInv
<1>2. PICK r \in Population : p.who = r.who /\ InReach(r)
  BY DEF ReachInv
<1>3. Resident(q) = r
  BY <1>1, <1>2, PopulationAssumption DEF Resident
<1>. QED  BY <1>2, <1>3

\* _add_municipality_filter and the rules for the municipality: residents of
\* other municipalities only reach a client with a nationwide scope that goes
\* with its type of search, and with four of the types none does, whatever the
\* client sends.
THEOREM Municipality == Spec => []WithinMunicipality
<1>1. ReachInv /\ NumbersInv => WithinMunicipality
  <2> SUFFICES ASSUME ReachInv, NumbersInv, req.view = "personen",
                      NEW p \in Delivered, Resident(p).gemeente # Amsterdam
               PROVE  /\ {Landelijk, PostcodeLandelijk} \cap req.scopes # {}
                      /\ \A type \in OnlyInAmsterdam : req.body["type"] # {type}
                      /\ req.body["type"] = {ZoekPostcode} => PostcodeLandelijk \in req.scopes
                      /\ req.body["type"] # {ZoekPostcode} => Landelijk \in req.scopes
    BY DEF WithinMunicipality
  <2>1. IF req.body["type"] = {ZoekPostcode} THEN PostcodeLandelijk \in req.scopes
        ELSE /\ Landelijk \in req.scopes
             /\ req.body["type"] \in {{Raadpleeg}, {ZoekGeslachtsnaam}}
    BY DeliveredInReach DEF InReach
  <2>2. \A type \in OnlyInAmsterdam : type \notin {ZoekPostcode, Raadpleeg, ZoekGeslachtsnaam}
    BY DEF OnlyInAmsterdam, ZoekPostcode, Raadpleeg, ZoekGeslachtsnaam
  <2>. QED  BY <2>1, <2>2
<1>. QED  BY ReachInvariance, NumbersInvariance, <1>1, PTL

\* _add_deceased_filter and the rule for inclusiefOverledenPersonen: a search
\* shows no deceased person to a client without the scope.
THEOREM Deceased == Spec => []DeceasedNeedsScope
<1>1. ReachInv /\ NumbersInv => DeceasedNeedsScope
  BY DeliveredInReach DEF DeceasedNeedsScope, InReach
<1>. QED  BY ReachInvariance, NumbersInvariance, <1>1, PTL

-----------------------------------------------------------------------------
(* No field without a scope *)

FieldsInv ==
  /\ pc \in {"received", "admitted", "decrypted", "validated"} =>
       hcResponse = {} /\ finalResponse = {}
  /\ req.view = "personen" =>
       /\ pc = "transformed" \/ Asked => hcRequest["fields"] \ inserted \subseteq Wanted
       /\ \A p \in hcResponse :
            DOMAIN p.data \subseteq hcRequest["fields"] \cup inserted \cup AutomaticFields
       /\ \A q \in finalResponse : \A f \in DOMAIN q.data \ Wanted :
            f \in AutomaticFields /\ AsSent(q, f)

\* Names that are accepted are granted.
LEMMA AcceptedFields ==
  ASSUME NEW names, NEW scopes, Verdict(FieldsPolicy, names, scopes) = "granted"
  PROVE  names \subseteq AllowedValues(FieldsPolicy, scopes)
<1>1. /\ FieldsPolicy.patterns = <<>> /\ FieldsPolicy.defaultScope = {}
      /\ DOMAIN FieldsPolicy.scopesForValues = AllFieldNames
  BY DEF FieldsPolicy, ForValues
<1>2. ASSUME NEW f \in names
      PROVE  f \in AllowedValues(FieldsPolicy, scopes)
  <2>1. NeededScopes(FieldsPolicy, f) # {}
    BY DEF Verdict
  <2>2. f \in AllFieldNames
    BY <1>1, <2>1 DEF NeededScopes
  <2>3. NeededScopes(FieldsPolicy, f) = {FieldsPolicy.scopesForValues[f]}
    BY <1>1, <2>2 DEF NeededScopes
  <2>. QED  BY <1>1, <2>2, <2>3 DEF Verdict, AllowedValues
<1>. QED  BY <1>2

\* The list that is sent on, without the identifiers that were added to it.
LEMMA SentFields ==
  ASSUME NEW body, NEW scopes
  PROVE  LET new == TransformPersonenRequest(body, scopes)
             ids == InsertedIds(AddDefaults(body, scopes))
             asked == IF "fields" \in DOMAIN body THEN body["fields"]
                      ELSE AllowedFields(QueryType(body), scopes)
         IN /\ "fields" \in DOMAIN new
            /\ new["fields"] = asked \cup ids
            /\ asked \cap ids = {}
<1> DEFINE b1 == AddFields(body, scopes)
           b3 == AddDefaults(body, scopes)
<1>1. /\ "fields" \in DOMAIN b1
      /\ b1["fields"] = IF "fields" \in DOMAIN body THEN body["fields"]
                        ELSE AllowedFields(QueryType(body), scopes)
  BY DEF AddFields, Put
<1>2. b3["fields"] = b1["fields"]
  BY <1>1 DEF AddDefaults, AddDeceased, NeedsDeceased, AddMunicipality, Put
<1>. QED  BY <1>1, <1>2 DEF TransformPersonenRequest, AddIdentifiers, InsertedIds, Put

\* The keys of a person after the hooks of the persons view, and that those
\* which were not asked for are as they were.
LEMMA HookKeys ==
  ASSUME NEW persons, NEW body, NEW scopes, NEW ids, NEW volledig \in BOOLEAN, NEW bound,
         \A p \in persons : IsPerson(p) /\ DOMAIN p.data \subseteq bound,
         body["fields"] \subseteq bound,
         NEW q \in TransformPersonen(persons, body, scopes, ids, volledig)
  PROVE  /\ DOMAIN q.data \subseteq bound \ ids
         /\ \A f \in DOMAIN q.data \ body["fields"] :
              \E p \in persons : p.who = q.who /\ f \in DOMAIN p.data /\ p.data[f] = q.data[f]
<1> DEFINE completed == IF volledig THEN {InsertNulls(p, body["fields"]) : p \in persons}
                        ELSE persons
           Same(c, f) == \E p \in persons :
                           p.who = c.who /\ f \in DOMAIN p.data /\ p.data[f] = c.data[f]
           AsBefore(c) == \A f \in DOMAIN c.data \ body["fields"] : Same(c, f)
<1>1. \A c \in completed : IsPerson(c) /\ DOMAIN c.data \subseteq bound /\ AsBefore(c)
  <2>1. \A p \in persons :
          InsertNulls(p, body["fields"]) =
            [who |-> p.who, data |-> [f \in DOMAIN p.data \cup body["fields"] |-> Get(p, f)]]
    BY DEF InsertNulls, IsPerson
  <2>2. \A p \in persons : LET c == InsertNulls(p, body["fields"])
                           IN IsPerson(c) /\ DOMAIN c.data \subseteq bound /\ AsBefore(c)
    <3> TAKE p \in persons
    <3> DEFINE c == InsertNulls(p, body["fields"])
    <3>1. c = [who |-> p.who, data |-> [f \in DOMAIN p.data \cup body["fields"] |-> Get(p, f)]]
      BY <2>1
    <3>2. c.who = p.who /\ c.data = [f \in DOMAIN p.data \cup body["fields"] |-> Get(p, f)]
      BY <3>1
    <3>3. DOMAIN c.data \subseteq bound
      BY <3>2
    <3>4. \A f \in DOMAIN c.data \ body["fields"] : f \in DOMAIN p.data /\ c.data[f] = p.data[f]
      BY <3>2 DEF Get
    <3>5. AsBefore(c)
      BY <3>2, <3>4
    <3>. QED  BY <3>1, <3>2, <3>3, <3>5 DEF IsPerson
  <2>. QED  BY <2>2
<1>2. PICK c \in completed : q = DropKeys(c, ids)
  BY DEF TransformPersonen, HideIdentifiers, HideConfidential
<1>3. q = [who |-> c.who, data |-> [f \in DOMAIN c.data \ ids |-> c.data[f]]]
  BY <1>1, <1>2 DEF DropKeys, IsPerson
<1>4. /\ q.who = c.who /\ DOMAIN q.data = DOMAIN c.data \ ids
      /\ \A f \in DOMAIN q.data : q.data[f] = c.data[f]
  BY <1>3
<1>5. \A f \in DOMAIN q.data \ body["fields"] : Same(q, f)
  <2> TAKE f \in DOMAIN q.data \ body["fields"]
  <2>1. f \in DOMAIN c.data \ body["fields"]
    BY <1>4
  <2>2. Same(c, f)
    BY <1>1, <1>2, <2>1
  <2>. QED  BY <1>4, <2>2
<1>. QED  BY <1>1, <1>2, <1>4, <1>5

LEMMA FieldsStep ==
  ASSUME IInv, AcceptedInv, PersonsInv, FieldsInv, [Next]_vars
  PROVE  FieldsInv'
<1> USE DEF FieldsInv, Finish
<1>1. CASE TransformRequest
  <2>1. ASSUME req.view = "personen"
        PROVE  hcRequest'["fields"] \ inserted' \subseteq Wanted
    <3>1. SameButNumbers(hcRequest) /\ Accepted(hcRequest)
      BY <1>1 DEF TransformRequest, AcceptedInv
    <3>2. CASE "fields" \in DOMAIN hcRequest
      <4>1. hcRequest["fields"] \subseteq GrantedFields
        BY <2>1, <3>1, <3>2, AcceptedPersonen, AcceptedFields DEF IInv, GrantedFields
      <4>2. hcRequest["fields"] = req.body["fields"] /\ "fields" \in DOMAIN req.body
        BY <3>1, <3>2 DEF SameButNumbers
      <4>. QED  BY <1>1, <2>1, <3>2, <4>1, <4>2, SentFields DEF TransformRequest, Wanted
    <3>3. CASE "fields" \notin DOMAIN hcRequest
      <4>1. AllowedFields(QueryType(hcRequest), req.scopes) \subseteq GrantedFields
        BY DEF AllowedFields, GrantedFields
      <4>2. "fields" \notin DOMAIN req.body
        BY <3>1, <3>3 DEF SameButNumbers
      <4>. QED  BY <1>1, <2>1, <3>3, <4>1, <4>2, SentFields DEF TransformRequest, Wanted
    <3>. QED  BY <3>2, <3>3
  <2>. QED  BY <1>1, <2>1 DEF TransformRequest, Wanted, GrantedFields
<1>2. CASE CallSucceeds
  <2>1. ASSUME req.view = "personen", NEW p \in hcResponse'
        PROVE  DOMAIN p.data \subseteq hcRequest["fields"] \cup AutomaticFields
    <3>1. PICK r \in Population : p = Render(r, hcRequest["fields"])
      BY <1>2, <2>1 DEF CallSucceeds, Answers
    <3>. QED  BY <3>1 DEF Render, AutomaticFields
  <2>2. finalResponse = {}
    BY <1>2 DEF CallSucceeds, PersonsInv
  <2>. QED  BY <1>2, <2>1, <2>2 DEF CallSucceeds, Wanted, GrantedFields
<1>3. CASE CallFails \/ CallCrashes
  BY <1>3 DEF CallFails, CallCrashes, Wanted, AsSent, GrantedFields
<1>4. CASE TransformResponse
  <2>1. ASSUME req.view = "personen", NEW q \in finalResponse'
        PROVE  \A f \in DOMAIN q.data \ Wanted : f \in AutomaticFields /\ AsSent(q, f)
    <3> DEFINE bound == hcRequest["fields"] \cup inserted \cup AutomaticFields
    <3>1. q \in TransformPersonen(hcResponse, hcRequest, req.scopes, inserted, req.volledig)
      BY <1>4, <2>1 DEF TransformResponse, Transform
    <3>2. \A p \in hcResponse : IsPerson(p) /\ DOMAIN p.data \subseteq bound
      BY <2>1 DEF PersonsInv, IsOriginal
    <3>3. req.volledig \in BOOLEAN
      BY RequestsAssumption DEF IInv, Typed, TypeOK
    <3>4. /\ DOMAIN q.data \subseteq bound \ inserted
          /\ \A f \in DOMAIN q.data \ hcRequest["fields"] : AsSent(q, f)
      <4>1. hcRequest["fields"] \subseteq bound
        OBVIOUS
      <4>. HIDE DEF bound
      <4>. QED  BY <3>1, <3>2, <3>3, <4>1, HookKeys DEF AsSent
    <3>5. hcRequest["fields"] \ inserted \subseteq Wanted
      BY <1>4, <2>1 DEF TransformResponse, IInv, StepInv
    <3>. QED  BY <3>4, <3>5
  <2>2. hcRequest'["fields"] \subseteq hcRequest["fields"]
        /\ hcRequest["fields"] \subseteq hcRequest'["fields"] \cup inserted
    BY <1>4 DEF TransformResponse, Put
  <2>. QED
    BY <1>4, <2>1, <2>2 DEF TransformResponse, Wanted, AsSent, GrantedFields, Asked, IInv, StepInv
<1>5. CASE EncryptAndReply
  <2>1. ASSUME NEW p \in finalResponse
        PROVE  /\ EncryptNumber(p).who = p.who
               /\ DOMAIN EncryptNumber(p).data = DOMAIN p.data
               /\ \A f \in AutomaticFields \cap DOMAIN p.data :
                    EncryptNumber(p).data[f] = p.data[f]
    <3>1. p = [who |-> p.who, data |-> p.data]
      BY <1>5 DEF EncryptAndReply, PersonsInv, IsReadable, IsPerson
    <3>2. "burgerservicenummer" \notin AutomaticFields
      BY DEF AutomaticFields
    <3>. QED  BY <3>1, <3>2 DEF EncryptNumber
  <2>2. ASSUME req.view = "personen", NEW q \in finalResponse', NEW f \in DOMAIN q.data \ Wanted
        PROVE  f \in AutomaticFields /\ AsSent(q, f)
    <3>1. CASE q \in finalResponse
      BY <2>2, <3>1
    <3>2. CASE q \notin finalResponse
      <4>1. PICK p \in finalResponse : q = EncryptNumber(p)
        BY <1>5, <3>2 DEF EncryptAndReply
      <4>2. f \in DOMAIN p.data \ Wanted
        BY <2>1, <4>1
      <4>3. f \in AutomaticFields /\ AsSent(p, f)
        BY <2>2, <4>2
      <4>. QED  BY <2>1, <4>1, <4>2, <4>3 DEF AsSent
    <3>. QED  BY <3>1, <3>2
  <2>. QED  BY <1>5, <2>2 DEF EncryptAndReply, Wanted, AsSent, GrantedFields, Asked
<1>6. CASE Refuse
  BY <1>6 DEF Refuse, RefuseOverall, RefuseHeaders, RefuseNumber, DenyParameter,
              RejectParameter, DenyFields, TransformRequestCrashes, Wanted, AsSent,
              GrantedFields, Asked, IInv, StepInv
<1>7. CASE Admit \/ DecryptRequest \/ Validate
  BY <1>7 DEF Admit, DecryptRequest, Validate, Wanted, AsSent, GrantedFields, Asked, IInv, StepInv
<1>8. CASE LogFailure \/ TransformCrashes \/ LogGranted
  BY <1>8 DEF LogFailure, TransformCrashes, LogGranted, Wanted, AsSent, GrantedFields, Asked
<1>9. CASE UNCHANGED vars
  BY <1>9 DEF vars, Wanted, AsSent, GrantedFields, Asked
<1>. QED
  BY <1>1, <1>2, <1>3, <1>4, <1>5, <1>6, <1>7, <1>8, <1>9 DEF Next, Ask, Answer, Done

\* _add_fields_filter, _hide_inserted_identifiers, _insert_null_values: Haal
\* Centraal is asked for nothing the scopes do not grant but the identifiers,
\* and the client gets no key that they do not grant or that it did not ask for,
\* but for those Haal Centraal delivers by itself, and these as they were sent.
THEOREM FieldsGranted == Spec => []OnlyGrantedFields
<1>1. Init => FieldsInv
  BY DEF Init, FieldsInv, Asked
<1>2. IInv /\ AcceptedInv /\ NumbersInv /\ FieldsInv /\ [Next]_vars => FieldsInv'
  BY FieldsStep DEF NumbersInv
<1>3. IInv /\ FieldsInv => OnlyGrantedFields
  <2>1. Wanted \subseteq GrantedFields
    BY DEF Wanted
  <2>. QED  BY <2>1 DEF IInv, Typed, TypeOK, FieldsInv, OnlyGrantedFields, Delivered
<1>. QED  BY Invariance, ReachInvariance, NumbersInvariance, <1>1, <1>2, <1>3, PTL DEF Spec

-----------------------------------------------------------------------------
(* The scopes on record *)

\* The parameters of the client as they are sent on, without the identifiers.
Cleaned ==
  [p \in DOMAIN req.body |-> IF p = "fields" THEN hcRequest[p] \ inserted ELSE hcRequest[p]]

Justify(ruleset, body, scopes) ==
  /\ scopes \subseteq req.scopes
  /\ \A o \in ValidateParameters(ruleset, body, scopes) : o.verdict = "granted"

RecordJustified(e) ==
  e.event = "granted" =>
    Justify(Ruleset(req.view, e.sent), [p \in DOMAIN req.body |-> e.sent[p]], e.needed)

NeededInv ==
  /\ DOMAIN data = DOMAIN req.body
  /\ pc \notin {"received", "done"} => NeededScope(req.view) \in req.scopes
  /\ pc = "validated" => DOMAIN hcRequest = DOMAIN req.body
  /\ pc \in {"validated", "transformed", "answered", "final"} =>
       /\ "type" \in DOMAIN req.body /\ DOMAIN req.body \subseteq DOMAIN hcRequest
       /\ Justify(Ruleset(req.view, hcRequest), Cleaned, needed)
  /\ pc = "final" /\ "fields" \in DOMAIN req.body => hcRequest["fields"] \ inserted = hcRequest["fields"]
  /\ \A e \in audit : RecordJustified(e)

-----------------------------------------------------------------------------
\* validate_values: what it counts as used grants the same values by itself.
LEMMA UsedGrant ==
  ASSUME NEW policy, NEW values, NEW scopes, NEW n,
         Verdict(policy, values, scopes) = "granted",
         ScopesUsed(policy, values, scopes) \subseteq n
  PROVE  Verdict(policy, values, n) = "granted"
<1>1. ASSUME NEW v \in values, NEW rule \in NeededScopes(policy, v)
      PROVE  Grants(rule, n)
  <2>1. Grants(rule, scopes)
    BY DEF Verdict
  <2>2. rule.oneOf \cap scopes \subseteq n
    BY DEF ScopesUsed
  <2>. QED  BY <2>1, <2>2 DEF Grants
<1>2. \A v \in values : NeededScopes(policy, v) # {}
  BY DEF Verdict
<1>. QED  BY <1>1, <1>2 DEF Verdict

\* validate_parameters: so it is with a whole request.
LEMMA UsedJustify ==
  ASSUME NEW ruleset, NEW body, NEW scopes, NEW n,
         HasType(body), DOMAIN body \subseteq DOMAIN ruleset,
         \A p \in DOMAIN body : Verdict(ruleset[p], body[p], scopes) = "granted",
         ScopesUsedBy(ruleset, body, scopes) \subseteq n
  PROVE  \A o \in ValidateParameters(ruleset, body, n) : o.verdict = "granted"
<1>1. ASSUME NEW p \in DOMAIN body
      PROVE  Verdict(ruleset[p], body[p], n) = "granted"
  <2>1. ScopesUsed(ruleset[p], body[p], scopes) \subseteq n
    BY DEF ScopesUsedBy
  <2>. QED  BY <2>1, UsedGrant
<1>2. Failing(ruleset, body, n) = {}
  BY <1>1 DEF Failing
<1>. QED  BY <1>2 DEF ValidateParameters

LEMMA UsedAreHeld ==
  ASSUME NEW ruleset, NEW body, NEW scopes
  PROVE  ScopesUsedBy(ruleset, body, scopes) \subseteq scopes
BY DEF ScopesUsedBy, ScopesUsed

-----------------------------------------------------------------------------
\* validate_parameters grants the request that is there.
LEMMA ValidateJustifies ==
  ASSUME Typed, SharedInv, AcceptedInv, NeededInv, Validate
  PROVE  /\ "type" \in DOMAIN req.body
         /\ DOMAIN hcRequest = DOMAIN req.body
         /\ Justify(Ruleset(req.view, hcRequest), Cleaned, needed')
<1>1. Accepted(hcRequest) /\ SameButNumbers(hcRequest) /\ inserted = {}
  BY GrantedMeans DEF Validate, ValidateOutcomes, Accepted, AcceptedInv, SharedInv
<1>2. Cleaned = hcRequest
  <2>1. IsBody(hcRequest)
    BY DEF Typed, TypeOK
  <2>2. Cleaned = [p \in DOMAIN hcRequest |-> hcRequest[p]]
    BY <1>1 DEF Cleaned, SameButNumbers
  <2>. QED  BY <2>1, <2>2 DEF IsBody
<1>3. needed' = {NeededScope(req.view)}
                  \cup ScopesUsedBy(Ruleset(req.view, hcRequest), hcRequest, req.scopes)
  BY DEF Validate
<1>4. needed' \subseteq req.scopes
  BY <1>3, UsedAreHeld DEF NeededInv, Validate
<1>5. \A o \in ValidateParameters(Ruleset(req.view, hcRequest), hcRequest, needed') :
        o.verdict = "granted"
  BY <1>1, <1>3, UsedJustify DEF Accepted
<1>. QED  BY <1>1, <1>2, <1>4, <1>5 DEF Justify, Accepted, HasType, SameButNumbers

\* The ruleset depends on the type alone.
LEMMA RulesetByType ==
  ASSUME NEW view, NEW b, NEW c, "type" \in DOMAIN b, "type" \in DOMAIN c,
         b["type"] = c["type"]
  PROVE  Ruleset(view, b) = Ruleset(view, c)
<1>1. HasType(b) <=> HasType(c)
  BY DEF HasType
<1>2. QueryType(b) = QueryType(c)
  BY DEF QueryType
<1>. QED  BY <1>1, <1>2 DEF Ruleset

\* transform_request changes no parameter of the client but for the identifiers.
LEMMA TransformKeepsParameters ==
  ASSUME NEW body, NEW scopes, NEW p \in DOMAIN body, p # "fields"
  PROVE  /\ p \in DOMAIN TransformPersonenRequest(body, scopes)
         /\ TransformPersonenRequest(body, scopes)[p] = body[p]
<1> DEFINE b1 == AddFields(body, scopes)
           b2 == AddMunicipality(b1, scopes)
           b3 == AddDeceased(b2, scopes)
<1>1. p \in DOMAIN b1 /\ b1[p] = body[p]
  BY DEF AddFields, Put
<1>2. p \in DOMAIN b2 /\ b2[p] = b1[p]
  BY <1>1 DEF AddMunicipality, NeedsMunicipality, Put
<1>3. p \in DOMAIN b3 /\ b3[p] = b2[p]
  BY <1>2 DEF AddDeceased, NeedsDeceased, Put
<1>4. p \in DOMAIN AddIdentifiers(b3) /\ AddIdentifiers(b3)[p] = b3[p]
  BY <1>3 DEF AddIdentifiers, Put
<1>. QED  BY <1>1, <1>2, <1>3, <1>4 DEF TransformPersonenRequest, AddDefaults

LEMMA TransformKeepsCleaned ==
  ASSUME Typed, SharedInv, NeededInv, TransformRequest
  PROVE  /\ Cleaned' = Cleaned
         /\ DOMAIN req.body \subseteq DOMAIN hcRequest'
         /\ Ruleset(req.view, hcRequest)' = Ruleset(req.view, hcRequest)
<1>1. inserted = {} /\ DOMAIN hcRequest = DOMAIN req.body /\ req' = req
        /\ "type" \in DOMAIN hcRequest
  BY DEF SharedInv, NeededInv, TransformRequest
<1>2. CASE req.view # "personen"
  BY <1>1, <1>2 DEF TransformRequest, Cleaned
<1>3. CASE req.view = "personen"
  <2>1. /\ hcRequest' = TransformPersonenRequest(hcRequest, req.scopes)
        /\ inserted' = InsertedIds(AddDefaults(hcRequest, req.scopes))
    BY <1>3 DEF TransformRequest
  <2>2. \A p \in DOMAIN req.body \ {"fields"} :
          p \in DOMAIN hcRequest' /\ hcRequest'[p] = hcRequest[p]
    BY <1>1, <2>1, TransformKeepsParameters
  <2>3. /\ "fields" \in DOMAIN hcRequest'
        /\ "fields" \in DOMAIN req.body => hcRequest'["fields"] \ inserted' = hcRequest["fields"]
    BY <1>1, <2>1, SentFields
  <2>4. "fields" \in DOMAIN req.body => hcRequest["fields"] \ inserted = hcRequest["fields"]
    BY <1>1, <2>3
  <2>5. Cleaned' = Cleaned
    BY <1>1, <2>2, <2>3, <2>4 DEF Cleaned
  <2>6. "type" \in DOMAIN hcRequest' /\ hcRequest'["type"] = hcRequest["type"]
    BY <1>1, <2>2
  <2>7. Ruleset(req.view, hcRequest') = Ruleset(req.view, hcRequest)
    BY <1>1, <2>6, RulesetByType
  <2>. QED  BY <1>1, <2>2, <2>3, <2>5, <2>6, <2>7
<1>. QED  BY <1>2, <1>3

\* The clean-up of the request before it is logged.
LEMMA CleanUpKeepsCleaned ==
  ASSUME NeededInv, TransformResponse
  PROVE  /\ Cleaned' = Cleaned
         /\ DOMAIN req.body \subseteq DOMAIN hcRequest'
         /\ Ruleset(req.view, hcRequest)' = Ruleset(req.view, hcRequest)
         /\ "fields" \in DOMAIN req.body => hcRequest'["fields"] \ inserted = hcRequest'["fields"]
<1>1. /\ req' = req /\ inserted' = inserted
      /\ "type" \in DOMAIN req.body /\ DOMAIN req.body \subseteq DOMAIN hcRequest
  BY DEF NeededInv, TransformResponse
<1>2. CASE inserted = {}
  <2>1. hcRequest' = hcRequest
    BY <1>2 DEF TransformResponse
  <2>. QED  BY <1>1, <1>2, <2>1 DEF Cleaned
<1>3. CASE inserted # {}
  <2>1. hcRequest' = Put(hcRequest, "fields", hcRequest["fields"] \ inserted)
    BY <1>3 DEF TransformResponse
  <2>2. "fields" \in DOMAIN hcRequest' /\ hcRequest'["fields"] = hcRequest["fields"] \ inserted
    BY <2>1 DEF Put
  <2>3. \A p \in DOMAIN hcRequest \ {"fields"} : p \in DOMAIN hcRequest' /\ hcRequest'[p] = hcRequest[p]
    BY <2>1 DEF Put
  <2>4. Cleaned' = Cleaned
    BY <1>1, <2>2, <2>3 DEF Cleaned
  <2>5. hcRequest'["type"] = hcRequest["type"]
    BY <1>1, <2>3
  <2>6. Ruleset(req.view, hcRequest') = Ruleset(req.view, hcRequest)
    BY <1>1, <2>3, <2>5, RulesetByType
  <2>. QED  BY <1>1, <2>2, <2>3, <2>4, <2>6
<1>. QED  BY <1>2, <1>3

-----------------------------------------------------------------------------
\* The record is written of what was validated.
LEMMA RecordStep ==
  ASSUME SharedInv, NeededInv, LogGranted
  PROVE  \A e \in audit' : RecordJustified(e)'
<1> DEFINE e == GrantedEvent("granted", finalResponse)
<1>1. e.sent = hcRequest /\ e.needed = needed
  BY DEF GrantedEvent, Event
<1>2. "fields" \in DOMAIN req.body => hcRequest["fields"] \ inserted = hcRequest["fields"]
  BY DEF NeededInv, LogGranted
<1>3. Cleaned = [p \in DOMAIN req.body |-> e.sent[p]]
  BY <1>1, <1>2 DEF Cleaned
<1>4. Justify(Ruleset(req.view, e.sent), [p \in DOMAIN req.body |-> e.sent[p]], e.needed)
  BY <1>1, <1>3 DEF NeededInv, LogGranted
<1>5. \A f \in RetrievedEvents(hcResponse) : f.event # "granted"
  BY RetrievedEvent
<1>6. audit' = audit \cup {e} \cup
        IF ListsPersons(req.view) THEN RetrievedEvents(hcResponse) ELSE {}
  BY DEF LogGranted, Log
<1>7. \A f \in audit' : RecordJustified(f)
  BY <1>4, <1>5, <1>6 DEF NeededInv, RecordJustified
<1>. QED  BY <1>7 DEF RecordJustified, Justify, LogGranted

LEMMA NeededStep ==
  ASSUME IInv, SharedInv, AcceptedInv, NeededInv, [Next]_vars
  PROVE  NeededInv'
<1> USE DEF Finish
<1>1. CASE Refuse
  <2>1. \A name : Event(name).event = name
    BY DEF Event
  <2>2. \A e \in audit' : RecordJustified(e)
    BY <1>1, <2>1 DEF Refuse, RefuseOverall, RefuseHeaders, RefuseNumber, DenyParameter,
              RejectParameter, DenyFields, TransformRequestCrashes, Log, NeededInv,
              RecordJustified
  <2>. QED
    BY <1>1, <2>2 DEF Refuse, RefuseOverall, RefuseHeaders, RefuseNumber, DenyParameter,
              RejectParameter, DenyFields, TransformRequestCrashes, NeededInv,
              RecordJustified, Justify
<1>2. CASE Admit \/ DecryptRequest
  BY <1>2 DEF Admit, DecryptRequest, NeededInv, RecordJustified, Justify
<1>3. CASE Validate
  <2>1. /\ "type" \in DOMAIN req.body /\ DOMAIN hcRequest = DOMAIN req.body
        /\ Justify(Ruleset(req.view, hcRequest), Cleaned, needed')
    BY <1>3, ValidateJustifies DEF IInv
  <2>. QED  BY <1>3, <2>1 DEF Validate, NeededInv, RecordJustified, Justify, Cleaned
<1>4. CASE TransformRequest
  <2>1. DOMAIN data' = DOMAIN data
    BY <1>4 DEF TransformRequest, ShareFields, Put
  <2>2. /\ Cleaned' = Cleaned /\ DOMAIN req.body \subseteq DOMAIN hcRequest'
        /\ Ruleset(req.view, hcRequest)' = Ruleset(req.view, hcRequest)
    BY <1>4, TransformKeepsCleaned DEF IInv
  <2>3. pc = "validated" /\ pc' = "transformed" /\ req' = req /\ needed' = needed /\ audit' = audit
    BY <1>4 DEF TransformRequest
  <2>. QED  BY <2>1, <2>2, <2>3 DEF NeededInv, RecordJustified, Justify
<1>5. CASE CallSucceeds \/ CallFails \/ CallCrashes \/ TransformCrashes \/ EncryptAndReply
  BY <1>5 DEF CallSucceeds, CallFails, CallCrashes, TransformCrashes, EncryptAndReply,
              NeededInv, RecordJustified, Justify, Cleaned
<1>6. CASE LogFailure
  <2>1. GrantedEvent("grantedError", {}).event = "grantedError"
    BY GrantedEvents
  <2>2. \A e \in audit' : RecordJustified(e)
    BY <1>6, <2>1 DEF LogFailure, Log, NeededInv, RecordJustified
  <2>. QED  BY <1>6, <2>2 DEF LogFailure, NeededInv, RecordJustified, Justify
<1>7. CASE TransformResponse
  <2>1. DOMAIN data' = DOMAIN data
    BY <1>7 DEF TransformResponse, ShareFields, Put
  <2>2. /\ Cleaned' = Cleaned /\ DOMAIN req.body \subseteq DOMAIN hcRequest'
        /\ Ruleset(req.view, hcRequest)' = Ruleset(req.view, hcRequest)
        /\ "fields" \in DOMAIN req.body => hcRequest'["fields"] \ inserted = hcRequest'["fields"]
    BY <1>7, CleanUpKeepsCleaned
  <2>3. /\ pc = "answered" /\ pc' = "final" /\ req' = req /\ needed' = needed
        /\ audit' = audit /\ inserted' = inserted
    BY <1>7 DEF TransformResponse
  <2>. QED  BY <2>1, <2>2, <2>3 DEF NeededInv, RecordJustified, Justify
<1>8. CASE LogGranted
  BY <1>8, RecordStep DEF LogGranted, NeededInv
<1>9. CASE UNCHANGED vars
  BY <1>9 DEF vars, NeededInv, RecordJustified, Justify, Cleaned
<1>. QED
  BY <1>1, <1>2, <1>3, <1>4, <1>5, <1>6, <1>7, <1>8, <1>9 DEF Next, Ask, Answer, Done

\* validate_parameters, log_access_granted: the scopes that a record of access
\* names as needed are held by the user, and would by themselves have granted
\* the request that the record shows.
THEOREM NeededOnRecord == Spec => []NeededJustifies
<1>1. Init => SharedInv /\ AcceptedInv /\ NeededInv
  BY DEF Init, SharedInv, LogsClientRequest, AcceptedInv, NeededInv
<1>2. IInv /\ SharedInv /\ AcceptedInv /\ NeededInv /\ [Next]_vars
        => SharedInv' /\ AcceptedInv' /\ NeededInv'
  BY SharedStep, AcceptedStep, NeededStep
<1>3. NeededInv => NeededJustifies
  BY DEF NeededInv, NeededJustifies, RecordJustified, Justify
<1>. QED  BY Invariance, <1>1, <1>2, <1>3, PTL DEF Spec

=============================================================================

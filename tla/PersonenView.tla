----------------------------- MODULE PersonenView -----------------------------
(***************************************************************************)
(* The hooks of BrpPersonenView (views/personen.py) and its ruleset.       *)
(*                                                                         *)
(* A field is one name of the "fields" parameter: a whole group such as    *)
(* "naam" or a single field such as "burgerservicenummer".  The names in   *)
(* the gegevenssets hold no "*", so that compact_fields_values returns     *)
(* them as they are (fields.py, its first return).                         *)
(*                                                                         *)
(* A person in an answer is [who, data]: data maps the keys present in the *)
(* JSON object to their values.                                            *)
(***************************************************************************)
EXTENDS ParameterPolicy, Encryption, FiniteSets

CONSTANTS
  AllFieldNames,     \* fields-Persoon.csv
  FilteredMin,       \* fields-filtered-PersoonBeperkt.csv
  ScopesForFields    \* field name -> the gegevenssets that list it

IdFields == {"aNummer", "burgerservicenummer"}    \* always_insert_id_fields

\* Facts of the configuration files, which the code reads without checking them.
\* A field without a gegevensset has no entry in ScopesForFields.
ASSUME FieldsAssumption ==
  /\ FilteredMin \subseteq AllFieldNames
  /\ "burgerservicenummer" \in FilteredMin
  /\ "aNummer" \in AllFieldNames \ FilteredMin
  /\ DOMAIN ScopesForFields \subseteq AllFieldNames
  /\ \A f \in DOMAIN ScopesForFields : ScopesForFields[f] # {}

-----------------------------------------------------------------------------
(* Constants of the module *)

Amsterdam == "0363"

Raadpleeg == "RaadpleegMetBurgerservicenummer"
ZoekPostcode == "ZoekMetPostcodeEnHuisnummer"
ZoekGeslachtsnaam == "ZoekMetGeslachtsnaamEnGeboortedatum"

OnlyInAmsterdam ==
  {"ZoekMetStraatHuisnummerEnGemeenteVanInschrijving",
   "ZoekMetNummeraanduidingIdentificatie",
   "ZoekMetAdresseerbaarObjectIdentificatie",
   "ZoekMetNaamEnGemeenteVanInschrijving"}

IncludeDeceasedTypes == OnlyInAmsterdam \cup {ZoekPostcode, ZoekGeslachtsnaam}

PersonenTypes == IncludeDeceasedTypes \cup {Raadpleeg}

Landelijk == "benk-brp-landelijk"
Overledenen == "benk-brp-inclusief-overledenen"
Geheim == "benk-brp-inclusief-geheim"
Postcode == "benk-brp-zoekvraag-postcode-huisnummer"
PostcodeLandelijk == "benk-brp-zoekvraag-postcode-huisnummer-landelijk"
ZoekvraagBsn == "benk-brp-zoekvraag-bsn"

-----------------------------------------------------------------------------
(* The ruleset *)

TypeScopes ==
  [t \in PersonenTypes |->
     CASE t = Raadpleeg -> {ZoekvraagBsn}
       [] t = ZoekGeslachtsnaam -> {"benk-brp-zoekvraag-geslachtsnaam-geboortedatum"}
       [] t = ZoekPostcode -> {Postcode, PostcodeLandelijk}
       [] t = "ZoekMetNaamEnGemeenteVanInschrijving" -> {"benk-brp-zoekvraag-naam-gemeente"}
       [] t = "ZoekMetAdresseerbaarObjectIdentificatie" ->
            {"benk-brp-zoekvraag-adresseerbaar-object"}
       [] t = "ZoekMetNummeraanduidingIdentificatie" ->
            {"benk-brp-zoekvraag-nummeraanduiding"}
       [] t = "ZoekMetStraatHuisnummerEnGemeenteVanInschrijving" ->
            {"benk-brp-zoekvraag-straatnaam-huisnummer"}]

TypePolicy == ForValues([t \in PersonenTypes |-> OneOf(TypeScopes[t])])

\* dict.fromkeys(ALL_FIELD_NAMES) | SCOPES_FOR_FIELDS
FieldsPolicy ==
  ForValues([f \in AllFieldNames |->
    IF f \in DOMAIN ScopesForFields THEN OneOf(ScopesForFields[f]) ELSE Deny])

\* Variant: the two values of the parameter are mixed up.
DeceasedPolicySwapped ==
  ForValues([v \in {"true", "false"} |->
    IF v = "false" THEN OneOf({Overledenen}) ELSE AllowValue])

DeceasedPolicy ==
  ForValues([v \in {"true", "false"} |->
    IF v = "true" THEN OneOf({Overledenen}) ELSE AllowValue])

\* Amsterdam is free for every type; another municipality is an unknown value
\* for the types bound to Amsterdam, and a matter of scopes for the others.
MunicipalityPolicy(type) ==
  LET amsterdam == [m \in {Amsterdam} |-> AllowValue]
  IN IF type \in OnlyInAmsterdam THEN ForValues(amsterdam)
     ELSE IF type = ZoekPostcode THEN ForValuesOrElse(amsterdam, {PostcodeLandelijk})
     ELSE ForValuesOrElse(amsterdam, {Landelijk})

SearchParameters ==
  {"geboortedatum", "geslachtsnaam", "geslacht", "voorvoegsel", "voornamen", "straat",
   "huisletter", "huisnummer", "huisnummertoevoeging", "postcode", "verblijfplaats",
   "nummeraanduidingIdentificatie", "adresseerbaarObjectIdentificatie"}

\* get_parameter_ruleset
PersonenRuleset(type) ==
  [p \in SearchParameters \cup {"type", "fields", "burgerservicenummer",
                                "inclusiefOverledenPersonen", "gemeenteVanInschrijving"} |->
     CASE p = "type" -> TypePolicy
       [] p = "fields" -> FieldsPolicy
       [] p = "burgerservicenummer" -> ForAllValues({ZoekvraagBsn})
       [] p = "inclusiefOverledenPersonen" -> DeceasedPolicy
       [] p = "gemeenteVanInschrijving" -> MunicipalityPolicy(type)
       [] OTHER -> AllowAll]

-----------------------------------------------------------------------------
(* transform_request *)

Put(body, p, values) ==
  [q \in DOMAIN body \cup {p} |-> IF q = p THEN values ELSE body[q]]

QueryType(body) == CHOOSE t \in body["type"] : TRUE

PossibleFields(type) == IF type = Raadpleeg THEN AllFieldNames ELSE FilteredMin

AllowedFields(type, scopes) == PossibleFields(type) \cap AllowedValues(FieldsPolicy, scopes)

\* _add_fields_filter refuses the request when nothing is left to ask for.
NoFieldsLeft(body, scopes) ==
  "fields" \notin DOMAIN body /\ AllowedFields(QueryType(body), scopes) = {}

AddFields(body, scopes) ==
  IF "fields" \in DOMAIN body THEN body
  ELSE Put(body, "fields", AllowedFields(QueryType(body), scopes))

\* Variant: the nationwide scope frees the search by postcode as well.
NeedsMunicipalityLoose(body, scopes) ==
  /\ "gemeenteVanInschrijving" \notin DOMAIN body
  /\ Landelijk \notin scopes \/ QueryType(body) \in OnlyInAmsterdam

NeedsMunicipality(body, scopes) ==
  /\ "gemeenteVanInschrijving" \notin DOMAIN body
  /\ \/ Landelijk \notin scopes
     \/ QueryType(body) \in OnlyInAmsterdam
     \/ Postcode \in scopes /\ QueryType(body) = ZoekPostcode

AddMunicipality(body, scopes) ==
  IF NeedsMunicipality(body, scopes)
    THEN Put(body, "gemeenteVanInschrijving", {Amsterdam})
  ELSE body

NeedsDeceased(body, scopes) ==
  /\ Overledenen \in scopes
  /\ QueryType(body) \in IncludeDeceasedTypes
  /\ "inclusiefOverledenPersonen" \notin DOMAIN body

\* The value added is Python's True, not the text "true" of the ruleset.
AddDeceased(body, scopes) ==
  IF NeedsDeceased(body, scopes) THEN Put(body, "inclusiefOverledenPersonen", {"True"})
  ELSE body

\* Variant: identifiers are only added to the query by number.
InsertedIdsRaadpleeg(body) ==
  {f \in IdFields : f \notin body["fields"] /\ QueryType(body) = Raadpleeg}

\* inserted_id_fields: identifiers asked for only to be logged.
InsertedIds(body) ==
  {f \in IdFields : f \notin body["fields"] /\ f \in PossibleFields(QueryType(body))}

AddIdentifiers(body) == Put(body, "fields", body["fields"] \cup InsertedIds(body))

\* The request without the identifiers, and with them.
AddDefaults(body, scopes) ==
  AddDeceased(AddMunicipality(AddFields(body, scopes), scopes), scopes)

TransformPersonenRequest(body, scopes) == AddIdentifiers(AddDefaults(body, scopes))

-----------------------------------------------------------------------------
(* transform_response *)

Get(person, f) == IF f \in DOMAIN person.data THEN person.data[f] ELSE Null

\* _insert_null_values for the names asked for
InsertNulls(person, names) ==
  [person EXCEPT !.data = [f \in DOMAIN person.data \cup names |-> Get(person, f)]]

IsConfidential(person) == "geheimhoudingPersoonsgegevens" \in DOMAIN person.data

\* Variant: any additional scope shows confidential persons.
HideConfidentialLoose(persons, scopes) ==
  IF {Geheim, Landelijk} \cap scopes # {} THEN persons
  ELSE {p \in persons : ~ IsConfidential(p)}

HideConfidential(persons, scopes) ==
  IF Geheim \in scopes THEN persons ELSE {p \in persons : ~ IsConfidential(p)}

DropKeys(person, names) ==
  [person EXCEPT !.data = [f \in DOMAIN person.data \ names |-> person.data[f]]]

HideIdentifiers(persons, inserted) == {DropKeys(p, inserted) : p \in persons}

\* Variant: the null values come last, for a list that still holds the identifiers.
TransformPersonenNullsLast(persons, body, scopes, inserted, volledig) ==
  LET visible == HideIdentifiers(HideConfidential(persons, scopes), inserted)
  IN IF volledig THEN {InsertNulls(p, body["fields"]) : p \in visible} ELSE visible

\* In the order of the code: the null values come before the two removals.
TransformPersonen(persons, body, scopes, inserted, volledig) ==
  LET completed == IF volledig THEN {InsertNulls(p, body["fields"]) : p \in persons}
                   ELSE persons
  IN HideIdentifiers(HideConfidential(completed, scopes), inserted)

=============================================================================

----------------------------- MODULE MCProxyView -----------------------------
(***************************************************************************)
(* Small instances of ProxyView.  Each set of requests below puts one part *)
(* of the view under load and keeps the rest of the request simple.        *)
(***************************************************************************)
EXTENDS ProxyView

MCKeys == <<"new", "old">>

MCAllFieldNames == {"aNummer", "burgerservicenummer", "naam", "partners"}

MCFilteredMin == {"burgerservicenummer", "naam"}

\* set1 grants the usual fields, set2 only the administration number.
MCScopesForFields ==
  [f \in {"aNummer", "burgerservicenummer", "naam"} |->
     IF f = "aNummer" THEN {"set2"} ELSE {"set1"}]

PersonenScope == "benk-brp-personen-api"

Nummer(n) == <<"9", n>>

Anne == [who |-> "Anne", bsn |-> Nummer("1"), gemeente |-> Amsterdam,
         overleden |-> FALSE, geheim |-> FALSE,
         fields |-> [f \in {"aNummer", "burgerservicenummer", "naam"} |-> Nummer("1")]]

\* lives elsewhere
Bram == [Anne EXCEPT !.who = "Bram", !.bsn = Nummer("2"), !.gemeente = "0518",
                     !.fields = [f \in {"burgerservicenummer", "naam"} |-> Nummer("2")]]

\* has died
Cora == [Anne EXCEPT !.who = "Cora", !.bsn = Nummer("3"), !.overleden = TRUE,
                     !.fields = [f \in {"burgerservicenummer"} |-> Nummer("3")]]

\* is confidential and under investigation, and has no name on record
Daan == [Anne EXCEPT !.who = "Daan", !.bsn = Nummer("4"), !.geheim = TRUE,
                     !.fields = [f \in {"aNummer", "burgerservicenummer", "inOnderzoek"} |->
                                   Nummer("4")]]

\* has no number on record, and is no longer registered
Eva == [Anne EXCEPT !.who = "Eva", !.bsn = Nummer("5"),
                    !.fields = [f \in {"naam", "opschortingBijhouding"} |-> Nummer("5")]]

\* A body without a content type is left out: it is treated like HTML.
EachOutcome == {o \in Outcome : o.sort = "response" /\ o.media = "none" => o.body = "none"}

Success == {Response(200, "json", "data")}

Request(view, scopes, body) ==
  [view |-> view, token |-> TRUE, headers |-> TRUE, volledig |-> FALSE, text |-> FALSE,
   correlation |-> <<"r", "1">>, scopes |-> scopes, body |-> body]

Optional(body, p, values) == {body, Put(body, p, values)}

Body(type) == [p \in {"type"} |-> {type}]

-----------------------------------------------------------------------------
(* Who may search where, and for whom *)

SearchTypes == {Raadpleeg, ZoekPostcode, ZoekGeslachtsnaam,
                "ZoekMetNaamEnGemeenteVanInschrijving"}

SearchBodies ==
  LET WithPlace(b) == {b} \cup {Put(b, "gemeenteVanInschrijving", {g}) : g \in {Amsterdam, "0518"}}
      WithDead(b) == {b} \cup {Put(b, "inclusiefOverledenPersonen", {v}) :
                                 v \in {"true", "false", "True"}}
      Numbered(t) == IF t = Raadpleeg
                       THEN Put(Body(t), "burgerservicenummer",
                                {Plain(Nummer("2")), Plain(Nummer("3"))})
                     ELSE Body(t)
  IN UNION {WithDead(b) : b \in UNION {WithPlace(Numbered(t)) : t \in SearchTypes}}

SearchRequests ==
  {Request("personen", {PersonenScope, "set1"} \cup S \cup T, b) :
     S \in SUBSET {Landelijk, Overledenen, Postcode, PostcodeLandelijk},
     T \in {{}, {ZoekvraagBsn, "benk-brp-zoekvraag-geslachtsnaam-geboortedatum",
                 "benk-brp-zoekvraag-naam-gemeente"}},
     b \in SearchBodies}

SearchPopulation == {Anne, Bram, Cora}

-----------------------------------------------------------------------------
(* Which fields are asked for, shown and logged *)

FieldBodies ==
  LET bodies == {Put(Body(Raadpleeg), "burgerservicenummer",
                     {Plain(Nummer("1")), Plain(Nummer("4"))}),
                 Put(Body(ZoekGeslachtsnaam), "geslachtsnaam", {"x"})}
  IN bodies \cup {Put(b, "fields", F) : b \in bodies, F \in SUBSET MCAllFieldNames}

FieldRequests ==
  {[Request("personen", {PersonenScope, Landelijk, ZoekvraagBsn,
                         "benk-brp-zoekvraag-geslachtsnaam-geboortedatum"} \cup S, b)
      EXCEPT !.volledig = v] :
     S \in SUBSET {"set1", "set2", Geheim}, b \in FieldBodies, v \in BOOLEAN}

FieldPopulation == {Anne, Daan, Eva}

-----------------------------------------------------------------------------
(* What happens when a step fails *)

ViewBody(view) ==
  CASE view = "personen" -> Body(ZoekGeslachtsnaam)
    [] view = "bewoningen" -> Body("BewoningMetPeildatum")
    [] view = "verblijfplaatshistorie" -> Body("RaadpleegMetPeildatum")

FailureRequests ==
  LET all == {[Request(view,
                       {PersonenScope, BewoningenScope, VerblijfScope, "set1",
                        "benk-brp-zoekvraag-geslachtsnaam-geboortedatum"} \cup S, b)
                 EXCEPT !.volledig = v, !.headers = h] :
                 view \in Views, S \in {{}, {Geheim}, {Landelijk}},
                 b \in UNION {{ViewBody(w), Put(ViewBody(w), "peildatum", {"d"}),
                               Put(ViewBody(w), "fields", {"naam"}),
                               Put(ViewBody(w), "fields", {"aNummer"})} : w \in Views},
                 v \in BOOLEAN, h \in BOOLEAN}
      texts == {[r EXCEPT !.text = TRUE, !.body = Put(@, "fields", {f})] :
                  r \in {q \in all : q.body = ViewBody("personen")},
                  f \in {"naam", "burgerservicenummer"}}
      \* no field is left to ask for, and a number that was not sealed
      unlisted == {[r EXCEPT !.scopes = @ \ {"set1"}] :
                     r \in {q \in all : q.body = ViewBody("personen")}}
      unsealed == {Request("verblijfplaatshistorie", {VerblijfScope, EncryptBsn},
                           Put(ViewBody("verblijfplaatshistorie"), "burgerservicenummer",
                               {Plain(Nummer("1"))}))}
      scopeless == {[r EXCEPT !.scopes = {}, !.token = t] : r \in all, t \in BOOLEAN}
  IN UNION {all, texts, unlisted, unsealed, scopeless}

FailurePopulation == {Anne, Daan}

-----------------------------------------------------------------------------
(* Encrypted numbers *)

Sealed(n, correlation) == Cipher("new", Salted(Nummer(n), correlation))

NumberValues ==
  {Plain(Nummer("1")), Sealed("1", <<"r", "1">>), Sealed("1", <<"s">>),
   Cipher("old", Salted(Nummer("1"), <<"r", "1">>)),
   Cipher("lost", Salted(Nummer("1"), <<"r", "1">>))}

NumberBodies ==
  LET typed == {[p \in {"type", "burgerservicenummer"} |->
                   IF p = "type" THEN {t} ELSE V] :
                  t \in {Raadpleeg, "RaadpleegMetPeildatum"},
                  V \in {W \in SUBSET NumberValues : W # {}}}
  IN typed \cup {[p \in {"burgerservicenummer"} |-> b["burgerservicenummer"]] : b \in typed}
           \cup {Body("BewoningMetPeildatum")}

NumberRequests ==
  {[Request(view, {PersonenScope, BewoningenScope, VerblijfScope, "set1", ZoekvraagBsn,
                   Landelijk} \cup S, b)
      EXCEPT !.volledig = v] :
     view \in Views, S \in {{}, {EncryptBsn}}, b \in NumberBodies, v \in BOOLEAN}

-----------------------------------------------------------------------------
(* All of them, whoever may be found and however the call ends *)

AllRequests == UNION {SearchRequests, FieldRequests, NumberRequests, FailureRequests}

AllPopulation == {Anne, Bram, Cora, Daan, Eva}

=============================================================================

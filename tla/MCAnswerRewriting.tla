--------------------------- MODULE MCAnswerRewriting ---------------------------
(* Small answers of the three views: lists of up to two elements, objects   *)
(* with each key there or not, links at several depths.                     *)
EXTENDS AnswerRewriting

\* A document whose root has the given kind and holds the given documents.
Holding(node, parts) ==
  LET paths == {<<>>} \cup UNION {{<<step>> \o p : p \in DOMAIN parts[step]} : step \in DOMAIN parts}
  IN [p \in paths |-> IF p = <<>> THEN node ELSE parts[p[1]][Tail(p)]]

Object(fields) ==
  Holding(EmptyObject, [step \in {Key(k) : k \in DOMAIN fields} |-> fields[step[1]]])

List(items) == Holding(EmptyList, [step \in {Item(i) : i \in DOMAIN items} |-> items[step[2]]])

Leaf(node) == Holding(node, <<>>)

Absent == Leaf(Node("absent", "", ""))

\* The objects that have, for each key, one of the values or none.
Objects(values) ==
  LET choices == {c \in [DOMAIN values -> UNION {values[k] : k \in DOMAIN values} \cup {Absent}] :
                    \A k \in DOMAIN values : c[k] \in values[k]}
  IN {Object([k \in {k \in DOMAIN c : c[k] # Absent} |-> c[k]]) : c \in choices}

Lists(elements, n) == {List(items) : items \in UNION {[1..m -> elements] : m \in 0..n}}

Said(text) == Leaf(Node("leaf", "text", text))

Text == Said("t")

Null == Leaf(NullLeaf)

Link(to) == Leaf(Node("leaf", "link", to))

Self(to) == Object([self |-> Object([href |-> Link(to)])])

-----------------------------------------------------------------------------

ChildLists ==
  {Absent, List(<<>>), List(<<Object([burgerservicenummer |-> Text, _links |-> Self("endpoint")])>>)}

Persons ==
  Objects([burgerservicenummer |-> {Absent, Text, Null},
           naam |-> {Absent, Null, Object(<<>>), Object([voornamen |-> Text])},
           kinderen |-> ChildLists,
           _links |-> {Absent, Object(<<>>), Self("endpoint"), Self("elsewhere")}])

PersonenFields ==
  {{<<"naam", "voornamen">>, <<"kinderen", "burgerservicenummer">>},
   {<<"burgerservicenummer">>, <<"naam">>, <<"kinderen">>}}

PersonenCases ==
  [view : {"personen"}, fields : PersonenFields, volledig : BOOLEAN, encrypt : BOOLEAN,
   answer : {Object([personen |-> List(<<p>>)]) : p \in Persons}
              \cup {Object([personen |-> List(<<p>>), href |-> Link("endpoint"),
                            _links |-> Self("endpoint")]) : p \in Persons}]

Occupants ==
  {Absent, List(<<>>),
   List(<<Object([burgerservicenummer |-> Text]), Object(<<>>),
          Object([burgerservicenummer |-> List(<<Text, Null>>)])>>)}

BewoningenCases ==
  [view : {"bewoningen"}, fields : {{}}, volledig : BOOLEAN, encrypt : BOOLEAN,
   answer : Objects([bewoningen |->
                       Lists(Objects([bewoners |-> Occupants, mogelijkeBewoners |-> Occupants]), 2)
                         \cup {Absent}])]

Residences ==
  Objects([type |-> {Absent, Said("Adres"), Said("Locatie"), Said("Woonwagen")},
           verblijfadres |-> {Absent, Object([korteStraatnaam |-> Text])},
           datumVan |-> {Absent, Object([type |-> Said("Datum")])}])

VerblijfCases ==
  [view : {"verblijfplaatshistorie"}, fields : {{}}, volledig : {TRUE}, encrypt : {FALSE},
   answer : Objects([verblijfplaatsen |-> Lists(Residences, 2) \cup {Absent},
                     opschortingBijhouding |-> {Absent, Object([reden |-> Text])}])]

MCCases == PersonenCases \cup BewoningenCases \cup VerblijfCases

MCBewoningFields ==
  {<<"bewoningen">>, <<"bewoningen", "bewoners">>,
   <<"bewoningen", "bewoners", "burgerservicenummer">>,
   <<"bewoningen", "mogelijkeBewoners">>,
   <<"bewoningen", "mogelijkeBewoners", "naam">>,
   <<"bewoningen", "mogelijkeBewoners", "naam", "volledigeNaam">>}

MCBaseFields ==
  {<<"verblijfplaatsen">>, <<"verblijfplaatsen", "type">>,
   <<"opschortingBijhouding">>, <<"opschortingBijhouding", "datum">>}

MCTypeFields ==
  [Adres |-> {<<"verblijfadres">>, <<"verblijfadres", "korteStraatnaam">>,
              <<"verblijfadres", "inOnderzoek">>, <<"inOnderzoek">>,
              <<"nummeraanduidingIdentificatie">>, <<"datumVan">>},
   Locatie |-> {<<"verblijfadres">>, <<"verblijfadres", "locatiebeschrijving">>,
                <<"verblijfadres", "inOnderzoek">>, <<"inOnderzoek">>, <<"datumVan">>}]

=============================================================================

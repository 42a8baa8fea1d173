------------------------------ MODULE AnswerTrees ------------------------------
(***************************************************************************)
(* The three walks of views/base.py over the JSON of an answer: the links  *)
(* are pointed at the proxy, null values are put in for names that may be  *)
(* there and are not, and the citizen service numbers are sealed.          *)
(*                                                                         *)
(* A document maps the path of each value to the value.  A path is a       *)
(* sequence of keys and of positions in lists.  The walks change the       *)
(* document in place and call themselves for what a value holds; here is   *)
(* what one call does, and which calls it makes.  What the text of a leaf  *)
(* is does not matter to the walks, only whether it is null, a link to     *)
(* Haal Centraal, and how often it was sealed.                             *)
(***************************************************************************)
EXTENDS Naturals, Sequences, SequencesExt

Node(kind, sort, text) == [kind |-> kind, sort |-> sort, text |-> text, seals |-> 0]

EmptyObject == Node("object", "", "")

EmptyList == Node("list", "", "")

NullLeaf == Node("leaf", "null", "None")

Key(k) == <<k, 0>>

Item(i) == <<"", i>>

Field(path, k) == Append(path, Key(k))

Children(doc, path) == {p \in DOMAIN doc : p # <<>> /\ Front(p) = path}

\* What a value holds and holds something itself: a call on any other value of
\* a walk that adds nothing returns at once.
Nested(doc, path) == {p \in Children(doc, path) : Children(doc, p) # {}}

\* "if links := data.get(...)": what Python takes for true.
Truthy(doc, path) ==
  Children(doc, path) # {} \/ (doc[path].kind = "leaf" /\ doc[path].sort # "null")

Steps == STRING \X Nat

\* Any text; the proxy writes three of its own.
Texts == STRING \cup {"", "None", "proxy"}

Nodes == [kind : {"object", "list", "leaf"}, sort : {"", "text", "null", "link"}, text : Texts,
          seals : Nat]

\* What holds a value is in the document, as an object or as a list.
IsTree(doc) ==
  /\ <<>> \in DOMAIN doc
  /\ \A p \in DOMAIN doc :
       /\ p \in Seq(Steps) /\ doc[p] \in Nodes
       /\ \A i \in 0..Len(p) : SubSeq(p, 1, i) \in DOMAIN doc
       /\ p # <<>> => doc[Front(p)].kind = IF Last(p)[2] = 0 THEN "object" ELSE "list"

-----------------------------------------------------------------------------
(* _rewrite_links *)

\* Variant: wherever a link leads, it is replaced.
HrefAny(node) == IF node.sort = "link" THEN [node EXCEPT !.text = "proxy"] ELSE node

Href(node) ==
  IF node.sort = "link" /\ node.text = "endpoint" THEN [node EXCEPT !.text = "proxy"] ELSE node

WithLink(doc, call) ==
  [p \in DOMAIN doc |-> IF call.inLinks /\ p = Field(call.at, "href") THEN Href(doc[p]) ELSE doc[p]]

\* "can skip other keys"
LinkCalls(doc, call) ==
  LET links == Field(call.at, "_links")
  IN IF links \in DOMAIN doc /\ Truthy(doc, links)
       THEN {[at |-> p, inLinks |-> TRUE] : p \in Nested(doc, call.at) \cap {links}}
     ELSE {[at |-> p, inLinks |-> call.inLinks] : p \in Nested(doc, call.at)}

-----------------------------------------------------------------------------
(* _include_nulls *)

\* A name is the sequence of its parts.  The tree that group_dotted_names makes
\* of a set of names has at "under" the parts that follow it, and each of them
\* is a leaf when nothing follows.
Below(names, under) == {name \in names : IsStrictPrefix(under, name)}

PartsBelow(names, under) == {name[Len(under) + 1] : name \in Below(names, under)}

\* dict.update: what the tree has under the first parts of other is replaced.
Update(names, under, other) ==
  {name \in names : IsStrictPrefix(under, name) =>
                      \A o \in other : o[1] # name[Len(under) + 1]}
    \cup {under \o o : o \in other}

\* The walk of the residence history: an object that says its type adds the
\* names of that type to the tree at hand.  typeNames is empty in the other
\* views, and without the type when FIELD_NAMES_TYPE_MAPPING does not know it.
IsTyped(typeNames, doc, path) == DOMAIN typeNames # {} /\ Field(path, "type") \in DOMAIN doc

TypeAt(doc, path) == doc[Field(path, "type")].text

KnowsType(typeNames, doc, path) ==
  IsTyped(typeNames, doc, path) => TypeAt(doc, path) \in DOMAIN typeNames

\* Variant: what the tree holds already takes precedence.
OwnNamesBehind(typeNames, names, doc, call) ==
  IF IsTyped(typeNames, doc, call.at)
    THEN names \cup {call.under \o o : o \in {o \in typeNames[TypeAt(doc, call.at)] :
                                               o[1] \notin PartsBelow(names, call.under)}}
  ELSE names

\* Variant: an object with a type gets the names of every type.
OwnNamesAll(typeNames, names, doc, call) ==
  IF IsTyped(typeNames, doc, call.at)
    THEN Update(names, call.under, UNION {typeNames[t] : t \in DOMAIN typeNames})
  ELSE names

OwnNames(typeNames, names, doc, call) ==
  IF IsTyped(typeNames, doc, call.at)
    THEN Update(names, call.under, typeNames[TypeAt(doc, call.at)])
  ELSE names

\* Variant: "item.get(key)" in place of the KeyError.
MissingFalsy(doc, path) == path \notin DOMAIN doc \/ ~ Truthy(doc, path)

Missing(doc, path) == path \notin DOMAIN doc

\* The value of a missing element: only an object is looked into.
Filler(arrays, names, under, part) ==
  IF under = <<>> /\ part \in arrays THEN EmptyList
  ELSE IF Below(names, Append(under, part)) = {} THEN NullLeaf
  ELSE EmptyObject

WithNulls(arrays, names, doc, call) ==
  LET missing == {part \in PartsBelow(names, call.under) : Missing(doc, Field(call.at, part))}
      added == {Field(call.at, part) : part \in missing}
  IN [p \in DOMAIN doc \cup added |->
        IF p \in added THEN Filler(arrays, names, call.under, Last(p)[1]) ELSE doc[p]]

NullCalls(names, doc, call) ==
  {[at |-> Field(call.at, part), under |-> Append(call.under, part)] :
     part \in {part \in PartsBelow(names, call.under) :
                 /\ Below(names, Append(call.under, part)) # {}
                 /\ doc[Field(call.at, part)].kind # "leaf"}}

ItemCalls(doc, call) ==
  {[at |-> p, under |-> call.under] : p \in {p \in Children(doc, call.at) : doc[p].kind # "leaf"}}

-----------------------------------------------------------------------------
(* _process_bsn *)

Numbers(doc, path) ==
  LET own == Field(path, "burgerservicenummer")
  IN IF own \notin DOMAIN doc THEN {}
     ELSE IF doc[own].kind = "list" THEN Children(doc, own)
     ELSE {own}

WithSeals(doc, call) ==
  [p \in DOMAIN doc |->
     IF p \in Numbers(doc, call.at) THEN [doc[p] EXCEPT !.sort = "text", !.seals = @ + 1]
     ELSE doc[p]]

\* Variant: what lies beside a number is not looked at.
SealCallsShallow(doc, call) ==
  {[at |-> p] : p \in {p \in Nested(doc, call.at) :
                         Field(call.at, "burgerservicenummer") \notin DOMAIN doc}}

SealCalls(doc, call) ==
  {[at |-> p] : p \in Nested(doc, call.at) \ {Field(call.at, "burgerservicenummer")}}

=============================================================================

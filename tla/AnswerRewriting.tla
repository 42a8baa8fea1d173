---------------------------- MODULE AnswerRewriting ----------------------------
(***************************************************************************)
(* What happens to the tree of an answer between Haal Centraal and the     *)
(* client: transform_response of the base class, with the null values of   *)
(* the view, and encrypt_response.  ProxyView has the order of these steps *)
(* among the others of a request, and which persons and identifiers the    *)
(* persons view takes out; here the answer is the tree it is.              *)
(*                                                                         *)
(* The walks of AnswerTrees are recursive; "calls" are the calls that were *)
(* made and have not begun.  The first to begin is the one last made, and  *)
(* of the elements of a list the first; of the keys of an object any,      *)
(* since their order is that of the JSON.                                  *)
(***************************************************************************)
EXTENDS AnswerTrees, FiniteSets

CONSTANTS
  Cases,            \* the requests and the answers to them
  BewoningFields,   \* fields.csv of the bewoningen
  BaseFields,       \* fields.csv of the verblijfplaatshistorie
  TypeFields        \* FIELD_NAMES_TYPE_MAPPING

VARIABLES
  req,       \* view, fields, resultaat-formaat=volledig, scope to encrypt
  original,  \* hc_response as it came
  answer,    \* final_response
  pc,        \* the walk at hand: "links", "nulls", "seals"; "failed" or "done"
  calls,     \* the calls of that walk that have not begun
  names      \* request_fields, the names of the walk for null values

vars == <<req, original, answer, pc, calls, names>>

-----------------------------------------------------------------------------
(* The differences between the views *)

TopLevelArrayFields ==
  CASE req.view = "personen" ->
         {"ouders", "kinderen", "nationaliteiten", "partners", "gezag"}
    [] req.view = "bewoningen" -> {"bewoningen"}
    [] req.view = "verblijfplaatshistorie" -> {}

FieldNames ==
  CASE req.view = "personen" -> req.fields
    [] req.view = "bewoningen" -> BewoningFields
    [] req.view = "verblijfplaatshistorie" -> BaseFields

TypeNames == IF req.view = "verblijfplaatshistorie" THEN TypeFields ELSE <<>>

\* Where the walk for null values starts.
NullsRoot == IF req.view = "personen" THEN Field(<<>>, "personen") ELSE <<>>

-----------------------------------------------------------------------------
(* What Haal Centraal sends, and the names the proxy has *)

\* A number is a leaf or a list of leaves.
NumbersAreLeaves(doc) ==
  \A path \in DOMAIN doc :
    LET own == Field(path, "burgerservicenummer")
    IN own \in DOMAIN doc => /\ doc[own].kind # "object"
                             /\ \A p \in Children(doc, own) : doc[p].kind = "leaf"

ASSUME CasesAssumption ==
  \A c \in Cases :
    /\ c.view \in {"personen", "bewoningen", "verblijfplaatshistorie"}
    /\ c.volledig \in BOOLEAN /\ c.encrypt \in BOOLEAN
    /\ IsTree(c.answer) /\ NumbersAreLeaves(c.answer)
    /\ \A p \in DOMAIN c.answer : c.answer[p].seals = 0
    /\ c.view = "personen" =>
         /\ Field(<<>>, "personen") \in DOMAIN c.answer
         /\ c.answer[Field(<<>>, "personen")].kind = "list"

\* In all lists of names burgerservicenummer has no parts.
IsName(name) ==
  /\ name \in Seq(STRING) /\ name # <<>>
  /\ \A i \in 1..(Len(name) - 1) : name[i] # "burgerservicenummer"

ASSUME NamesAssumption ==
  /\ \A c \in Cases : c.view = "personen" => \A name \in c.fields : IsName(name)
  /\ \A name \in BewoningFields \cup BaseFields : IsName(name)
  /\ \A type \in DOMAIN TypeFields : \A name \in TypeFields[type] : IsName(name)

\* A type that takes the place of what the i-th part of a name leads to has what
\* follows of that name too.  So it is in the tables: the one part that types
\* share with others, below their first, is inOnderzoek, which all of them have.
HasRest(type, name, i) ==
  \A own \in TypeFields[type] :
    own[1] = name[i] => SubSeq(name, i, Len(name)) \in TypeFields[type]

ASSUME TypesAssumption ==
  \A type \in DOMAIN TypeFields :
    /\ \A name \in BaseFields : \A i \in 1..Len(name) : HasRest(type, name, i)
    /\ \A other \in DOMAIN TypeFields : \A name \in TypeFields[other] :
         \A i \in 2..Len(name) : HasRest(type, name, i)

-----------------------------------------------------------------------------
(* The steps *)

Init ==
  /\ \E c \in Cases :
       /\ req = [view |-> c.view, fields |-> c.fields, volledig |-> c.volledig,
                 encrypt |-> c.encrypt]
       /\ original = c.answer
  /\ answer = original
  /\ pc = "links"
  /\ calls = {[at |-> <<>>, inLinks |-> FALSE]}
  /\ names = {}

First(call) ==
  \A other \in calls :
    /\ Len(other.at) <= Len(call.at)
    /\ call.at # <<>> /\ Len(other.at) = Len(call.at) => Last(call.at)[2] <= Last(other.at)[2]

RewriteLinks(call) ==
  /\ pc = "links"
  /\ answer' = WithLink(answer, call)
  /\ calls' = (calls \ {call}) \cup LinkCalls(answer, call)
  /\ UNCHANGED <<req, original, pc, names>>

InsertNullValues ==
  /\ pc = "links" /\ calls = {}
  /\ req.volledig
  /\ pc' = "nulls"
  /\ calls' = {[at |-> NullsRoot, under |-> <<>>]}
  /\ names' = FieldNames
  /\ UNCHANGED <<req, original, answer>>

IncludeNullsInList(call) ==
  /\ pc = "nulls"
  /\ answer[call.at].kind = "list"
  /\ calls' = (calls \ {call}) \cup ItemCalls(answer, call)
  /\ UNCHANGED <<req, original, answer, pc, names>>

\* What is missing is added at once; the walk of what was added comes after.
IncludeNulls(call) ==
  /\ pc = "nulls"
  /\ answer[call.at].kind = "object"
  /\ KnowsType(TypeNames, answer, call.at)
  /\ names' = OwnNames(TypeNames, names, answer, call)
  /\ answer' = WithNulls(TopLevelArrayFields, names', answer, call)
  /\ calls' = (calls \ {call}) \cup NullCalls(names', answer', call)
  /\ UNCHANGED <<req, original, pc>>

\* The KeyError of a type the mapping does not know: 500, before the log.
IncludeNullsFails(call) ==
  /\ pc = "nulls"
  /\ answer[call.at].kind = "object"
  /\ ~ KnowsType(TypeNames, answer, call.at)
  /\ pc' = "failed"
  /\ UNCHANGED <<req, original, answer, calls, names>>

EncryptResponse ==
  /\ calls = {}
  /\ pc = "nulls" \/ (pc = "links" /\ ~ req.volledig)
  /\ pc' = IF req.encrypt THEN "seals" ELSE "done"
  /\ calls' = IF req.encrypt THEN {[at |-> <<>>]} ELSE {}
  /\ UNCHANGED <<req, original, answer, names>>

ProcessBsn(call) ==
  /\ pc = "seals"
  /\ answer' = WithSeals(answer, call)
  /\ calls' = (calls \ {call}) \cup SealCalls(answer, call)
  /\ UNCHANGED <<req, original, pc, names>>

Reply ==
  /\ pc = "seals" /\ calls = {}
  /\ pc' = "done"
  /\ UNCHANGED <<req, original, answer, calls, names>>

Next ==
  \/ \E call \in calls :
       /\ First(call)
       /\ \/ RewriteLinks(call) \/ IncludeNullsInList(call) \/ IncludeNulls(call)
          \/ IncludeNullsFails(call) \/ ProcessBsn(call)
  \/ InsertNullValues
  \/ EncryptResponse
  \/ Reply

Spec == Init /\ [][Next]_vars

-----------------------------------------------------------------------------
(* What the client may rely on *)

\* The three walks take nothing away: whatever Haal Centraal sent is in the
\* answer, at its place and in lists of the same length, and reads the same but
\* for links and sealed numbers.
ValuesKept ==
  pc = "done" => \A p \in DOMAIN original :
    /\ p \in DOMAIN answer
    /\ answer[p].kind = original[p].kind
    /\ original[p].kind = "list" => Children(answer, p) = Children(original, p)
    /\ original[p].sort # "link" => answer[p].text = original[p].text
    /\ original[p].sort # "link" /\ answer[p].seals = 0 => answer[p] = original[p]

KeysUpTo(path, i) == {j \in 1..i : path[j][2] = 0}

\* The keys on a path, without the positions in lists between them.
Parts(path) ==
  LET keys == KeysUpTo(path, Len(path))
  IN [n \in 1..Cardinality(keys) |->
        path[CHOOSE i \in keys : Cardinality(KeysUpTo(path, i)) = n][1]]

\* The objects that these parts lead to from a path, through whatever lists lie
\* on the way.
Reached(from, parts) ==
  {p \in DOMAIN answer : /\ answer[p].kind = "object" /\ IsPrefix(from, p)
                         /\ Parts(p) = Parts(from) \o parts}

HasEvery(from, which) ==
  \A name \in which : \A i \in DOMAIN name :
    \A p \in Reached(from, SubSeq(name, 1, i - 1)) : Field(p, name[i]) \in DOMAIN answer

\* The objects on the way to a name of the view.
Visited ==
  UNION {UNION {Reached(NullsRoot, SubSeq(name, 1, i - 1)) : i \in DOMAIN name} : name \in FieldNames}

\* An object of the answer that says a type of the mapping, and its names.
HasOwn(v) == IsTyped(TypeNames, original, v) /\ TypeAt(original, v) \in DOMAIN TypeNames

Own(v) == TypeNames[TypeAt(original, v)]

\* _include_nulls: with resultaat-formaat=volledig the client finds every name
\* it has access to, at every depth and in every element of every list, and for
\* a residence the names of its own type, whatever the types before it were.
EveryNameIsThere ==
  pc = "done" /\ req.volledig =>
    /\ HasEvery(NullsRoot, FieldNames)
    /\ \A v \in Visited : HasOwn(v) => HasEvery(v, Own(v))

\* The walk comes to a path no later than to another with the same keys: where
\* they part, it is at an earlier element of a list.
NotAfter(path, other) ==
  \A i \in DOMAIN path \cap DOMAIN other :
    (\A j \in 1..(i - 1) : path[j] = other[j]) => path[i][2] <= other[i][2]

\* The names a null may stand for at a path: those of the view, and those of the
\* type of an object on the same keys, at the path or before it.
MayBeNull(path) ==
  \/ \E name \in FieldNames : IsPrefix(Parts(path), Parts(NullsRoot) \o name)
  \/ \E v \in DOMAIN original :
       /\ HasOwn(v) /\ NotAfter(v, path)
       /\ \E name \in Own(v) : IsPrefix(Parts(path), Parts(v) \o name)

\* group_dotted_names, request_fields.update: what the proxy adds to an answer
\* is null or empty, and only under names of the view or of the type of the
\* same or of an earlier residence, never of a later one or of another request.
AddedIsNamed ==
  pc = "done" => \A p \in DOMAIN answer \ DOMAIN original :
    req.volledig /\ MayBeNull(p) /\ answer[p].text \in {"", "None"}

OnPath(k, path) == \E i \in DOMAIN path : path[i] = Key(k)

\* _process_bsn: with the scope every number in the tree is sealed, exactly
\* once, those of children, in lists and of inserted objects too; nothing else
\* is.
NumbersSealedOnce ==
  pc = "done" => \A p \in DOMAIN answer :
    answer[p].seals = IF /\ req.encrypt
                         /\ OnPath("burgerservicenummer", p) /\ answer[p].kind = "leaf"
                        THEN 1 ELSE 0

\* "can skip other keys": the walk does not enter the other keys of an object
\* that has links of its own.
Skipped(path) ==
  \E i \in DOMAIN path :
    LET links == Field(SubSeq(path, 1, i - 1), "_links")
    IN links \in DOMAIN original /\ Truthy(original, links) /\ path[i] # Key("_links")

\* _rewrite_links: a link to Haal Centraal leads to the proxy exactly when it
\* stands in the first _links on its path; no other link and no other key of
\* the name href changes.
LinksRewritten ==
  pc = "done" => \A p \in DOMAIN original : original[p].sort = "link" =>
    answer[p].text =
      IF /\ p # <<>> /\ Last(p) = Key("href")
         /\ OnPath("_links", p)
         /\ ~ Skipped(Front(p))
         /\ original[p].text = "endpoint"
        THEN "proxy" ELSE original[p].text

-----------------------------------------------------------------------------
(* What the repository says and the code does not do *)

\* bewoningen.py, of the names of lists: "all array fields (which shouldn't get
\* null-defaults)".
MissingListIsEmpty ==
  pc = "done" /\ req.volledig /\ req.view = "bewoningen" =>
    \A b \in Reached(<<>>, <<"bewoningen">>) :
      answer[Field(b, "bewoners")].kind = "list" /\ answer[Field(b, "mogelijkeBewoners")].kind = "list"

=============================================================================

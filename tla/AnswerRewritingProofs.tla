------------------------- MODULE AnswerRewritingProofs -------------------------
(***************************************************************************)
(* The walks over an answer, for every answer and every set of names: they *)
(* lose nothing, point the right links at the proxy, and seal every number *)
(* once.                                                                   *)
(***************************************************************************)
EXTENDS AnswerRewriting, TLAPS

-----------------------------------------------------------------------------
(* Paths *)

LEMMA AppendEnds ==
  ASSUME NEW S, NEW p \in Seq(S), NEW s \in S
  PROVE  /\ Append(p, s) \in Seq(S) /\ Append(p, s) # <<>>
         /\ Len(Append(p, s)) = Len(p) + 1
         /\ Front(Append(p, s)) = p /\ Last(Append(p, s)) = s
BY DEF Front, Last

LEMMA SplitLast ==
  ASSUME NEW S, NEW p \in Seq(S), p # <<>>
  PROVE  /\ Front(p) \in Seq(S) /\ Last(p) \in S /\ Len(Front(p)) = Len(p) - 1
         /\ p = Append(Front(p), Last(p))
<1>1. Len(p) \in Nat /\ Len(p) >= 1
  OBVIOUS
<1>2. Front(p) \in Seq(S) /\ Len(Front(p)) = Len(p) - 1
  <2>1. \A i \in 1..(Len(p) - 1) : p[i] \in S
    BY <1>1
  <2>2. SubSeq(p, 1, Len(p) - 1) = [i \in 1..(Len(p) - 1) |-> p[i]]
    BY <1>1
  <2>3. PICK n \in Nat : n = Len(p) - 1
    BY <1>1
  <2>4. Front(p) = [i \in 1..n |-> p[i]]
    BY <2>2, <2>3 DEF Front
  <2>5. [i \in 1..n |-> p[i]] \in Seq(S) /\ Len([i \in 1..n |-> p[i]]) = n
    BY <2>1, <2>3
  <2>. QED  BY <2>3, <2>4, <2>5
<1>3. \A i \in 1..(Len(p) - 1) : Front(p)[i] = p[i]
  BY <1>1 DEF Front
<1>4. Last(p) \in S
  BY <1>1 DEF Last
<1>5. p = Append(Front(p), Last(p))
  BY <1>1, <1>2, <1>3, <1>4 DEF Last
<1>. QED  BY <1>2, <1>4, <1>5

LEMMA PrefixPointwise ==
  ASSUME NEW S, NEW p \in Seq(S), NEW q \in Seq(S)
  PROVE  IsPrefix(p, q) <=> Len(p) <= Len(q) /\ \A i \in 1..Len(p) : p[i] = q[i]
<1>1. SubSeq(p, 1, Len(p)) = p
  OBVIOUS
<1>2. Len(p) <= Len(q) => SubSeq(q, 1, Len(p)) \in Seq(S) /\ Len(SubSeq(q, 1, Len(p))) = Len(p)
                          /\ \A i \in 1..Len(p) : SubSeq(q, 1, Len(p))[i] = q[i]
  OBVIOUS
<1>. QED  BY <1>1, <1>2 DEF IsPrefix

LEMMA PrefixOrder ==
  ASSUME NEW S, NEW p \in Seq(S), NEW q \in Seq(S), NEW r \in Seq(S)
  PROVE  /\ IsPrefix(p, p)
         /\ IsPrefix(p, q) /\ IsPrefix(q, r) => IsPrefix(p, r)
         /\ IsPrefix(p, q) /\ IsPrefix(q, p) => p = q
         /\ IsPrefix(p, q) /\ Len(p) = Len(q) => p = q
         /\ IsPrefix(p, r) /\ IsPrefix(q, r) => IsPrefix(p, q) \/ IsPrefix(q, p)
BY PrefixPointwise

LEMMA StrictIsShorter ==
  ASSUME NEW S, NEW p \in Seq(S), NEW q \in Seq(S)
  PROVE  IsStrictPrefix(p, q) <=> IsPrefix(p, q) /\ Len(p) < Len(q)
<1>1. IsPrefix(p, q) => Len(p) <= Len(q)
  BY DEF IsPrefix
<1>2. IsPrefix(p, q) /\ Len(p) = Len(q) => p = q
  BY PrefixOrder
<1>. QED  BY <1>1, <1>2 DEF IsStrictPrefix

LEMMA PrefixOfAppend ==
  ASSUME NEW S, NEW p \in Seq(S), NEW q \in Seq(S), NEW s \in S
  PROVE  /\ IsStrictPrefix(p, Append(p, s))
         /\ IsStrictPrefix(q, Append(p, s)) <=> IsPrefix(q, p)
<1> DEFINE r == Append(p, s)
<1>1. r \in Seq(S) /\ Len(r) = Len(p) + 1 /\ \A i \in 1..Len(p) : r[i] = p[i]
  OBVIOUS
<1> HIDE DEF r
<1>2. IsStrictPrefix(q, r) <=> IsPrefix(q, r) /\ Len(q) < Len(r)
  BY <1>1, StrictIsShorter
<1>3. IsStrictPrefix(p, r) <=> IsPrefix(p, r) /\ Len(p) < Len(r)
  BY <1>1, StrictIsShorter
<1>4. IsPrefix(q, r) <=> Len(q) <= Len(r) /\ \A i \in 1..Len(q) : q[i] = r[i]
  BY <1>1, PrefixPointwise
<1>5. IsPrefix(p, r) <=> Len(p) <= Len(r) /\ \A i \in 1..Len(p) : p[i] = r[i]
  BY <1>1, PrefixPointwise
<1>6. IsPrefix(q, p) <=> Len(q) <= Len(p) /\ \A i \in 1..Len(q) : q[i] = p[i]
  BY PrefixPointwise
<1>7. IsStrictPrefix(q, r) <=> IsPrefix(q, p)
  BY <1>1, <1>2, <1>4, <1>6
<1>8. IsStrictPrefix(p, r)
  BY <1>1, <1>3, <1>5
<1>. QED  BY <1>7, <1>8 DEF r

LEMMA EmptyIsPrefix ==
  ASSUME NEW S, NEW p \in Seq(S), p # <<>>
  PROVE  IsStrictPrefix(<<>>, p)
<1>1. Len(p) >= 1 /\ Len(<<>>) = 0
  OBVIOUS
<1>2. SubSeq(<<>>, 1, 0) = <<>> /\ SubSeq(p, 1, 0) = <<>>
  OBVIOUS
<1>. QED  BY <1>1, <1>2 DEF IsStrictPrefix, IsPrefix

\* The step that leads from a path towards one that continues it.
LEMMA StepTowards ==
  ASSUME NEW S, NEW p \in Seq(S), NEW q \in Seq(S), IsStrictPrefix(p, q)
  PROVE  LET r == SubSeq(q, 1, Len(p) + 1)
         IN r \in Seq(S) /\ r # <<>> /\ Front(r) = p /\ IsPrefix(r, q)
<1> DEFINE r == SubSeq(q, 1, Len(p) + 1)
<1>1. Len(p) < Len(q) /\ \A i \in 1..Len(p) : p[i] = q[i]
  BY StrictIsShorter, PrefixPointwise
<1>2. r \in Seq(S) /\ Len(r) = Len(p) + 1 /\ \A i \in 1..(Len(p) + 1) : r[i] = q[i]
  BY <1>1
<1> HIDE DEF r
<1>3. Front(r) = p
  BY <1>1, <1>2 DEF Front
<1>4. IsPrefix(r, q)
  BY <1>1, <1>2, PrefixPointwise
<1>5. r # <<>>
  BY <1>2
<1>. QED  BY <1>2, <1>3, <1>4, <1>5 DEF r

-----------------------------------------------------------------------------
(* Documents *)

\* The provers do not see that the keys the walks look for are strings.
Marks == Steps \cup {Key(k) : k \in {"_links", "href", "burgerservicenummer", "type", "personen"}}

LEMMA TreePaths ==
  ASSUME NEW doc, IsTree(doc), NEW p \in DOMAIN doc
  PROVE  p \in Seq(Marks) /\ doc[p] \in Nodes
<1>1. p \in Seq(Steps) /\ doc[p] \in Nodes
  BY DEF IsTree
<1>. QED  BY <1>1 DEF Marks

LEMMA ChildPaths ==
  ASSUME NEW doc, IsTree(doc), NEW p \in Seq(Marks), NEW q \in Children(doc, p)
  PROVE  /\ q \in DOMAIN doc /\ q \in Seq(Marks) /\ q # <<>> /\ Front(q) = p
         /\ Last(q) \in Marks /\ q = Append(p, Last(q)) /\ Len(q) = Len(p) + 1
         /\ IsStrictPrefix(p, q)
         /\ \A r \in Seq(Marks) : IsStrictPrefix(r, q) <=> IsPrefix(r, p)
<1>1. q \in DOMAIN doc /\ q # <<>> /\ Front(q) = p
  BY DEF Children
<1>2. q \in Seq(Marks)
  BY <1>1, TreePaths
<1>3. Last(q) \in Marks /\ q = Append(p, Last(q))
  BY <1>1, <1>2, SplitLast
<1>4. Len(q) = Len(p) + 1
  BY <1>3, AppendEnds
<1>. QED  BY <1>1, <1>2, <1>3, <1>4, PrefixOfAppend

\* What continues a path in a document passes through one of its children.
LEMMA ChildTowards ==
  ASSUME NEW doc, IsTree(doc), NEW p \in Seq(Marks), NEW q \in DOMAIN doc, IsStrictPrefix(p, q)
  PROVE  \E r \in Children(doc, p) : IsPrefix(r, q)
<1> DEFINE r == SubSeq(q, 1, Len(p) + 1)
<1>1. q \in Seq(Marks)
  BY TreePaths
<1>2. r # <<>> /\ Front(r) = p /\ IsPrefix(r, q)
  BY <1>1, StepTowards
<1>3. Len(p) + 1 \in 0..Len(q)
  BY <1>1, StrictIsShorter
<1>4. r \in DOMAIN doc
  BY <1>3 DEF IsTree
<1>. QED  BY <1>2, <1>4 DEF Children

LEMMA LeafHoldsNothing ==
  ASSUME NEW doc, IsTree(doc), NEW p \in DOMAIN doc, doc[p].kind = "leaf"
  PROVE  /\ Children(doc, p) = {}
         /\ \A q \in DOMAIN doc : ~ IsStrictPrefix(p, q)
<1>1. Children(doc, p) = {}
  BY DEF Children, IsTree
<1>. QED  BY <1>1, ChildTowards, TreePaths

-----------------------------------------------------------------------------
(* The calls of a walk *)

\* No call is made for what another call will come to.
Apart(C) == \A c \in C, d \in C : IsPrefix(c.at, d.at) => c = d

\* A call will come to this path.
Pending(C, path) == \E c \in C : IsStrictPrefix(c.at, path)

\* A call takes its own place, and those it makes are for what that holds.
LEMMA CallsStayApart ==
  ASSUME NEW doc, IsTree(doc), NEW C, Apart(C), \A c \in C : c.at \in DOMAIN doc,
         NEW c \in C, NEW new, \A x \in new : x.at \in Children(doc, c.at),
         \A x \in new, y \in new : x.at = y.at => x = y
  PROVE  LET after == (C \ {c}) \cup new
         IN /\ Apart(after)
            /\ \A x \in after : x.at \in DOMAIN doc
            /\ \A p \in DOMAIN doc :
                 Pending(after, p) <=> IF IsStrictPrefix(c.at, p)
                                         THEN \E x \in new : IsStrictPrefix(x.at, p)
                                         ELSE Pending(C, p)
<1> DEFINE after == (C \ {c}) \cup new
<1>1. \A d \in C : d.at \in Seq(Marks)
  BY TreePaths
<1>2. \A x \in new : /\ x.at \in DOMAIN doc /\ x.at \in Seq(Marks) /\ Len(x.at) = Len(c.at) + 1
                     /\ IsStrictPrefix(c.at, x.at) /\ IsPrefix(c.at, x.at)
                     /\ \A r \in Seq(Marks) : IsStrictPrefix(r, x.at) <=> IsPrefix(r, c.at)
  BY <1>1, ChildPaths DEF IsStrictPrefix
<1>3. ASSUME NEW d \in C, d # c, NEW x \in new
      PROVE  ~ IsPrefix(d.at, x.at) /\ ~ IsPrefix(x.at, d.at)
  <2>1. ~ IsPrefix(x.at, d.at)
    <3>1. IsPrefix(x.at, d.at) => IsPrefix(c.at, d.at)
      BY <1>1, <1>2, PrefixOrder
    <3>. QED  BY <1>3, <3>1 DEF Apart
  <2>2. ASSUME IsPrefix(d.at, x.at) PROVE FALSE
    <3>1. CASE d.at = x.at
      BY <1>2, <1>3, <3>1 DEF Apart
    <3>2. CASE d.at # x.at
      BY <1>1, <1>2, <1>3, <2>2, <3>2 DEF Apart, IsStrictPrefix
    <3>. QED  BY <3>1, <3>2
  <2>. QED  BY <2>1, <2>2
<1>4. ASSUME NEW x \in new, NEW y \in new, IsPrefix(x.at, y.at) PROVE x = y
  BY <1>2, <1>4, PrefixOrder
<1>5. Apart(after)
  BY <1>3, <1>4 DEF Apart
<1>6. ASSUME NEW p \in DOMAIN doc
      PROVE  Pending(after, p) <=> IF IsStrictPrefix(c.at, p)
                                     THEN \E x \in new : IsStrictPrefix(x.at, p)
                                     ELSE Pending(C, p)
  <2>1. p \in Seq(Marks)
    BY TreePaths
  <2>2. CASE IsStrictPrefix(c.at, p)
    <3>1. ASSUME NEW d \in C, d # c, IsStrictPrefix(d.at, p) PROVE FALSE
      <4>1. IsPrefix(c.at, p) /\ IsPrefix(d.at, p)
        BY <2>2, <3>1 DEF IsStrictPrefix
      <4>2. IsPrefix(c.at, d.at) \/ IsPrefix(d.at, c.at)
        BY <1>1, <2>1, <4>1, PrefixOrder
      <4>. QED  BY <3>1, <4>2 DEF Apart
    <3>. QED  BY <2>2, <3>1 DEF Pending
  <2>3. CASE ~ IsStrictPrefix(c.at, p)
    <3>1. ASSUME NEW x \in new, IsStrictPrefix(x.at, p) PROVE FALSE
      <4>1. IsPrefix(c.at, p) /\ Len(c.at) < Len(p)
        <5>1. IsPrefix(x.at, p) /\ Len(x.at) < Len(p)
          BY <1>2, <2>1, <3>1, StrictIsShorter
        <5>. QED  BY <1>1, <1>2, <2>1, <5>1, PrefixOrder
      <4>. QED  BY <1>1, <2>1, <2>3, <4>1, StrictIsShorter
    <3>. QED  BY <2>3, <3>1 DEF Pending
  <2>. QED  BY <2>2, <2>3
<1>7. \A x \in after : x.at \in DOMAIN doc
  BY <1>2
<1>. QED  BY <1>5, <1>6, <1>7

-----------------------------------------------------------------------------
(* What is on a path *)

LEMMA KeysDiffer ==
  ASSUME NEW j, NEW k
  PROVE  Key(j) = Key(k) <=> j = k
BY DEF Key

LEMMA OnPathAppend ==
  ASSUME NEW k, NEW p \in Seq(Marks), NEW s \in Marks
  PROVE  OnPath(k, Append(p, s)) <=> OnPath(k, p) \/ s = Key(k)
BY DEF OnPath

LEMMA OnPathLonger ==
  ASSUME NEW k, NEW p \in Seq(Marks), NEW q \in Seq(Marks), IsPrefix(p, q), OnPath(k, p)
  PROVE  OnPath(k, q)
<1>1. Len(p) <= Len(q) /\ \A i \in 1..Len(p) : p[i] = q[i]
  BY PrefixPointwise
<1>. QED  BY <1>1 DEF OnPath

\* The i-th step of a path passes links of the object it leaves.
Passes(path, i) ==
  LET links == Field(SubSeq(path, 1, i - 1), "_links")
  IN links \in DOMAIN original /\ Truthy(original, links) /\ path[i] # Key("_links")

LEMMA PassesPrefix ==
  ASSUME NEW p \in Seq(Marks), NEW q \in Seq(Marks), IsPrefix(p, q), NEW i \in 1..Len(p)
  PROVE  Passes(p, i) <=> Passes(q, i)
<1>1. Len(p) <= Len(q) /\ \A j \in 1..Len(p) : p[j] = q[j]
  BY PrefixPointwise
<1>2. SubSeq(p, 1, i - 1) = SubSeq(q, 1, i - 1)
  <2>1. SubSeq(p, 1, i - 1) = [j \in 1..(i - 1) |-> p[j]]
    OBVIOUS
  <2>2. SubSeq(q, 1, i - 1) = [j \in 1..(i - 1) |-> q[j]]
    BY <1>1
  <2>3. \A j \in 1..(i - 1) : p[j] = q[j]
    BY <1>1
  <2>. QED  BY <2>1, <2>2, <2>3
<1>. QED  BY <1>1, <1>2 DEF Passes

LEMMA SkippedLonger ==
  ASSUME NEW p \in Seq(Marks), NEW q \in Seq(Marks), IsPrefix(p, q), Skipped(p)
  PROVE  Skipped(q)
<1>1. PICK i \in DOMAIN p : Passes(p, i)
  BY DEF Skipped, Passes
<1>2. i \in 1..Len(p) /\ i \in DOMAIN q
  BY <1>1, PrefixPointwise
<1>3. Passes(q, i)
  BY <1>1, <1>2, PassesPrefix
<1>. QED  BY <1>2, <1>3 DEF Skipped, Passes

LEMMA SkippedAppend ==
  ASSUME NEW p \in Seq(Marks), NEW s \in Marks
  PROVE  Skipped(Append(p, s)) <=> \/ Skipped(p)
                                   \/ /\ Field(p, "_links") \in DOMAIN original
                                      /\ Truthy(original, Field(p, "_links"))
                                      /\ s # Key("_links")
<1> DEFINE q == Append(p, s)
<1>1. q \in Seq(Marks) /\ Len(q) = Len(p) + 1 /\ q[Len(p) + 1] = s
  OBVIOUS
<1>2. SubSeq(q, 1, Len(p) + 1 - 1) = p
  <2>1. Len(p) + 1 - 1 = Len(p) /\ SubSeq(q, 1, Len(p)) = p
    OBVIOUS
  <2>. QED  BY <2>1
<1>3. IsPrefix(p, q)
  BY PrefixOfAppend DEF IsStrictPrefix
<1> HIDE DEF q
<1>4. Passes(q, Len(p) + 1) <=> /\ Field(p, "_links") \in DOMAIN original
                                /\ Truthy(original, Field(p, "_links"))
                                /\ s # Key("_links")
  <2>1. PICK n \in Nat : n = Len(p) + 1
    OBVIOUS
  <2>2. SubSeq(q, 1, n - 1) = p /\ q[n] = s
    BY <1>1, <1>2, <2>1
  <2>3. Passes(q, n) <=> /\ Field(p, "_links") \in DOMAIN original
                         /\ Truthy(original, Field(p, "_links"))
                         /\ s # Key("_links")
    BY <2>2 DEF Passes
  <2>. QED  BY <2>1, <2>3
<1>5. ASSUME NEW i \in 1..Len(p) PROVE Passes(p, i) <=> Passes(q, i)
  BY <1>1, <1>3, PassesPrefix
<1>6. DOMAIN q = 1..Len(p) \cup {Len(p) + 1} /\ DOMAIN p = 1..Len(p)
  BY <1>1
<1>7. Skipped(q) <=> \E i \in DOMAIN q : Passes(q, i)
  BY DEF Skipped, Passes
<1>8. Skipped(p) <=> \E i \in DOMAIN p : Passes(p, i)
  BY DEF Skipped, Passes
<1>. QED  BY <1>4, <1>5, <1>6, <1>7, <1>8 DEF q

-----------------------------------------------------------------------------
(* The inductive invariant *)

Origin ==
  \E c \in Cases :
    /\ req = [view |-> c.view, fields |-> c.fields, volledig |-> c.volledig, encrypt |-> c.encrypt]
    /\ original = c.answer

DocumentInv ==
  /\ Origin
  /\ pc \in {"links", "nulls", "seals", "failed", "done"}
  /\ IsTree(answer) /\ NumbersAreLeaves(answer)
  /\ \A call \in calls : call.at \in DOMAIN answer

\* A null or something empty, in an object, for a client that asked for it.
AddedIsEmpty ==
  \A p \in DOMAIN answer \ DOMAIN original :
    /\ req.volledig
    /\ p # <<>> /\ Last(p)[2] = 0
    /\ answer[p].text \in {"", "None"}

\* What came is there and reads the same.
KeptInv ==
  /\ \A p \in DOMAIN original :
       /\ p \in DOMAIN answer
       /\ answer[p].kind = original[p].kind
       /\ original[p].sort # "link" => answer[p].text = original[p].text
       /\ original[p].sort # "link" /\ answer[p].seals = 0 => answer[p] = original[p]
  /\ AddedIsEmpty

LeadsToProxy(p) ==
  /\ p # <<>> /\ Last(p) = Key("href")
  /\ OnPath("_links", p)
  /\ ~ Skipped(Front(p))
  /\ original[p].text = "endpoint"

\* A link reads as it will once no call will come to it.
LinksInv ==
  \A p \in DOMAIN original : original[p].sort = "link" =>
    answer[p].text = IF LeadsToProxy(p) /\ ~ (pc = "links" /\ Pending(calls, p))
                       THEN "proxy" ELSE original[p].text

\* The calls of the first walk know whether they are in links, and enter no key
\* that is skipped.
LinkCallsInv ==
  pc = "links" =>
    /\ DOMAIN answer = DOMAIN original
    /\ \A p \in DOMAIN answer :
         answer[p].kind = original[p].kind /\ answer[p].sort = original[p].sort
    /\ Apart(calls)
    /\ \A call \in calls :
         /\ call.inLinks <=> OnPath("_links", call.at)
         /\ ~ Skipped(call.at)

NullCallsInv ==
  pc = "nulls" =>
    /\ req.volledig
    /\ \A name \in names : IsName(name)
    /\ \A call \in calls :
         /\ call.under \in Seq(STRING)
         /\ \A i \in DOMAIN call.under : call.under[i] # "burgerservicenummer"
         /\ ~ OnPath("burgerservicenummer", call.at)

IsNumber(p) == OnPath("burgerservicenummer", p) /\ answer[p].kind = "leaf"

\* A number is sealed once no call will come to it.
SealsInv ==
  /\ pc \in {"seals", "done"} =>
       \A p \in DOMAIN answer :
         answer[p].seals = IF req.encrypt /\ IsNumber(p) /\ ~ (pc = "seals" /\ Pending(calls, p))
                             THEN 1 ELSE 0
  /\ pc \in {"links", "nulls", "failed"} => \A p \in DOMAIN answer : answer[p].seals = 0
  /\ pc = "seals" =>
       /\ req.encrypt /\ Apart(calls)
       /\ \A call \in calls : ~ OnPath("burgerservicenummer", call.at)

IInv == DocumentInv /\ KeptInv /\ LinksInv /\ LinkCallsInv /\ NullCallsInv /\ SealsInv

LEMMA OriginFacts ==
  ASSUME Origin
  PROVE  /\ IsTree(original) /\ NumbersAreLeaves(original)
         /\ \A p \in DOMAIN original : original[p].seals = 0
         /\ req.volledig \in BOOLEAN /\ req.encrypt \in BOOLEAN
         /\ req.view \in {"personen", "bewoningen", "verblijfplaatshistorie"}
         /\ \A name \in FieldNames : IsName(name)
         /\ NullsRoot \in DOMAIN original
<1>1. PICK c \in Cases :
        /\ req = [view |-> c.view, fields |-> c.fields, volledig |-> c.volledig,
                  encrypt |-> c.encrypt]
        /\ original = c.answer
  BY DEF Origin
<1>2. /\ req.view = c.view /\ req.fields = c.fields /\ req.volledig = c.volledig
      /\ req.encrypt = c.encrypt
  BY <1>1
<1>3. /\ IsTree(original) /\ NumbersAreLeaves(original)
      /\ \A p \in DOMAIN original : original[p].seals = 0
      /\ c.volledig \in BOOLEAN /\ c.encrypt \in BOOLEAN
      /\ c.view \in {"personen", "bewoningen", "verblijfplaatshistorie"}
      /\ c.view = "personen" => Field(<<>>, "personen") \in DOMAIN original
  BY <1>1, CasesAssumption
<1>4. \A name \in FieldNames : IsName(name)
  BY <1>2, <1>3, NamesAssumption DEF FieldNames
<1>5. NullsRoot \in DOMAIN original
  BY <1>2, <1>3 DEF NullsRoot, IsTree
<1>. QED  BY <1>2, <1>3, <1>4, <1>5

LEMMA InitInv == Init => IInv
<1> SUFFICES ASSUME Init PROVE IInv
  OBVIOUS
<1>1. Origin
  BY DEF Init, Origin
<1>2. answer = original /\ pc = "links" /\ calls = {[at |-> <<>>, inLinks |-> FALSE]}
  BY DEF Init
<1>3. IsTree(original) /\ NumbersAreLeaves(original) /\ \A p \in DOMAIN original : original[p].seals = 0
  BY <1>1, OriginFacts
<1>4. DocumentInv
  BY <1>1, <1>2, <1>3 DEF DocumentInv, IsTree
<1>5. KeptInv
  BY <1>2 DEF KeptInv, AddedIsEmpty
<1>6. LinksInv
  <2>1. ASSUME NEW p \in DOMAIN original, LeadsToProxy(p) PROVE Pending(calls, p)
    <3>1. p \in Seq(Marks) /\ p # <<>>
      BY <1>3, <2>1, TreePaths DEF LeadsToProxy
    <3>2. IsStrictPrefix(<<>>, p)
      BY <3>1, EmptyIsPrefix
    <3>. QED  BY <1>2, <3>2 DEF Pending
  <2>. QED  BY <1>2, <2>1 DEF LinksInv
<1>7. LinkCallsInv
  <2>1. ~ OnPath("_links", <<>>) /\ ~ Skipped(<<>>)
    BY DEF OnPath, Skipped
  <2>. QED  BY <1>2, <2>1 DEF LinkCallsInv, Apart
<1>8. NullCallsInv /\ SealsInv
  BY <1>2, <1>3 DEF NullCallsInv, SealsInv
<1>. QED  BY <1>4, <1>5, <1>6, <1>7, <1>8 DEF IInv

-----------------------------------------------------------------------------
(* _rewrite_links *)

LEMMA SameShape ==
  ASSUME NEW doc, NEW after, IsTree(doc), NumbersAreLeaves(doc), DOMAIN after = DOMAIN doc,
         \A p \in DOMAIN doc : after[p].kind = doc[p].kind /\ after[p] \in Nodes
  PROVE  IsTree(after) /\ NumbersAreLeaves(after)
<1>1. \A p : Children(after, p) = Children(doc, p)
  BY DEF Children
<1>2. IsTree(after)
  <2>1. ASSUME NEW p \in DOMAIN doc, p # <<>> PROVE after[Front(p)].kind = doc[Front(p)].kind
    <3>1. Len(p) - 1 \in 0..Len(p) /\ Front(p) = SubSeq(p, 1, Len(p) - 1)
      BY <2>1, TreePaths DEF Front
    <3>. QED  BY <3>1 DEF IsTree
  <2>. QED  BY <2>1 DEF IsTree
<1>3. NumbersAreLeaves(after)
  <2>1. \A p \in DOMAIN doc : \A q \in Children(doc, p) : q \in DOMAIN doc
    BY DEF Children
  <2>. QED  BY <1>1, <2>1 DEF NumbersAreLeaves
<1>. QED  BY <1>2, <1>3

LEMMA HrefOfNode ==
  ASSUME NEW node \in Nodes
  PROVE  /\ Href(node) \in Nodes
         /\ Href(node).kind = node.kind /\ Href(node).sort = node.sort
         /\ Href(node).seals = node.seals
         /\ node.sort # "link" => Href(node) = node
         /\ node.sort = "link" =>
              Href(node).text = IF node.text = "endpoint" THEN "proxy" ELSE node.text
BY DEF Href, Nodes, Texts

LEMMA LinkCallsAreChildren ==
  ASSUME NEW doc, NEW call
  PROVE  /\ \A x \in LinkCalls(doc, call) : x.at \in Nested(doc, call.at)
         /\ \A x \in LinkCalls(doc, call) : x.at \in Children(doc, call.at)
         /\ \A x \in LinkCalls(doc, call), y \in LinkCalls(doc, call) : x.at = y.at => x = y
<1> DEFINE links == Field(call.at, "_links")
<1>1. \E b, places : /\ places \subseteq Nested(doc, call.at)
                     /\ LinkCalls(doc, call) = {[at |-> p, inLinks |-> b] : p \in places}
  <2>1. CASE links \in DOMAIN doc /\ Truthy(doc, links)
    <3>1. LinkCalls(doc, call) = {[at |-> p, inLinks |-> TRUE] : p \in Nested(doc, call.at) \cap {links}}
      BY <2>1 DEF LinkCalls
    <3>2. Nested(doc, call.at) \cap {links} \subseteq Nested(doc, call.at)
      OBVIOUS
    <3>. QED  BY <3>1, <3>2
  <2>2. CASE ~ (links \in DOMAIN doc /\ Truthy(doc, links))
    <3>1. LinkCalls(doc, call) = {[at |-> p, inLinks |-> call.inLinks] : p \in Nested(doc, call.at)}
      BY <2>2 DEF LinkCalls
    <3>. QED  BY <3>1
  <2>. QED  BY <2>1, <2>2
<1>2. PICK b, places : /\ places \subseteq Nested(doc, call.at)
                       /\ LinkCalls(doc, call) = {[at |-> p, inLinks |-> b] : p \in places}
  BY <1>1
<1>3. \A x \in LinkCalls(doc, call) : x.at \in places /\ x = [at |-> x.at, inLinks |-> b]
  BY <1>2
<1>4. Nested(doc, call.at) \subseteq Children(doc, call.at)
  BY DEF Nested
<1>. QED  BY <1>2, <1>3, <1>4

\* The truth of the links of an object is that of the answer as it came.
LEMMA LinksAsTheyCame ==
  ASSUME LinkCallsInv, pc = "links", NEW p, p \in DOMAIN answer
  PROVE  Truthy(answer, p) <=> Truthy(original, p)
BY DEF LinkCallsInv, Truthy, Children

LEMMA LinkCallsStep ==
  ASSUME IInv, NEW call \in calls, RewriteLinks(call)
  PROVE  LinkCallsInv'
<1> USE DEF IInv
<1>1. pc = "links" /\ answer' = WithLink(answer, call) /\ pc' = pc /\ original' = original
      /\ calls' = (calls \ {call}) \cup LinkCalls(answer, call)
  BY DEF RewriteLinks
<1>2. IsTree(answer) /\ call.at \in DOMAIN answer /\ call.at \in Seq(Marks)
  BY TreePaths DEF DocumentInv
<1>3. DOMAIN answer' = DOMAIN original
  BY <1>1 DEF LinkCallsInv, WithLink
<1>4. \A p \in DOMAIN answer' :
        answer'[p].kind = original[p].kind /\ answer'[p].sort = original[p].sort
  BY <1>1, <1>2, TreePaths, HrefOfNode DEF LinkCallsInv, WithLink
<1>5. Apart(calls')
  BY <1>1, <1>2, LinkCallsAreChildren, CallsStayApart DEF LinkCallsInv, DocumentInv
<1>6. ASSUME NEW x \in LinkCalls(answer, call)
      PROVE  (x.inLinks <=> OnPath("_links", x.at)) /\ ~ Skipped(x.at)
  <2> DEFINE links == Field(call.at, "_links")
  <2>1. x.at \in Nested(answer, call.at) /\ x.at \in Children(answer, call.at)
    BY LinkCallsAreChildren
  <2>2. /\ Last(x.at) \in Marks /\ x.at = Append(call.at, Last(x.at))
        /\ OnPath("_links", x.at) <=> OnPath("_links", call.at) \/ Last(x.at) = Key("_links")
    <3>1. Last(x.at) \in Marks /\ x.at = Append(call.at, Last(x.at))
      BY <1>2, <2>1, ChildPaths
    <3>2. PICK s \in Marks : s = Last(x.at)
      BY <3>1
    <3>3. OnPath("_links", Append(call.at, s)) <=> OnPath("_links", call.at) \/ s = Key("_links")
      BY <1>2, OnPathAppend
    <3>. QED  BY <3>1, <3>2, <3>3
  <2>3. Skipped(x.at) <=> \/ Skipped(call.at)
                          \/ /\ links \in DOMAIN original
                             /\ Truthy(original, links)
                             /\ Last(x.at) # Key("_links")
    BY <1>2, <2>2, SkippedAppend
  <2>4. x.at = links <=> Last(x.at) = Key("_links")
    <3>1. x.at = links => Last(x.at) = Key("_links")
      <4>1. Key("_links") \in Marks
        BY DEF Marks
      <4>. QED  BY <1>2, <4>1, AppendEnds DEF Field
    <3>. QED  BY <2>2, <3>1 DEF Field
  <2>5. links \in DOMAIN answer => (Truthy(answer, links) <=> Truthy(original, links))
    BY <1>1, LinksAsTheyCame
  <2>6. ~ Skipped(call.at) /\ (call.inLinks <=> OnPath("_links", call.at))
        /\ DOMAIN answer = DOMAIN original
    BY <1>1 DEF LinkCallsInv
  <2>7. CASE links \in DOMAIN answer /\ Truthy(answer, links)
    <3>1. x.at = links /\ x.inLinks = TRUE
      BY <2>7 DEF LinkCalls
    <3>. QED  BY <2>2, <2>3, <2>4, <2>6, <3>1
  <2>8. CASE ~ (links \in DOMAIN answer /\ Truthy(answer, links))
    <3>1. x.inLinks = call.inLinks
      BY <2>8 DEF LinkCalls
    <3>2. x.at # links
      BY <2>1, <2>8 DEF Nested, Children, Truthy
    <3>. QED  BY <2>2, <2>3, <2>4, <2>5, <2>6, <2>8, <3>1, <3>2
  <2>. QED  BY <2>7, <2>8
<1>7. \A x \in calls' : (x.inLinks <=> OnPath("_links", x.at)) /\ ~ Skipped(x.at)
  BY <1>1, <1>6 DEF LinkCallsInv
<1>8. \A path : Skipped(path)' <=> Skipped(path)
  BY <1>1 DEF Skipped
<1>. QED  BY <1>3, <1>4, <1>5, <1>7, <1>8, <1>1 DEF LinkCallsInv

LEMMA WithLinkChanges ==
  ASSUME NEW doc, IsTree(doc), NEW call
  PROVE  /\ DOMAIN WithLink(doc, call) = DOMAIN doc
         /\ \A p \in DOMAIN doc :
              /\ WithLink(doc, call)[p] \in Nodes
              /\ WithLink(doc, call)[p].kind = doc[p].kind
              /\ WithLink(doc, call)[p].seals = doc[p].seals
              /\ doc[p].sort # "link" => WithLink(doc, call)[p] = doc[p]
BY TreePaths, HrefOfNode DEF WithLink

\* The walk leaves a link alone, passes it with the others it skips, or comes
\* to it in the object that holds it.
LEMMA LinksStep ==
  ASSUME IInv, NEW call \in calls, RewriteLinks(call)
  PROVE  LinksInv'
<1> USE DEF IInv
<1> DEFINE links == Field(call.at, "_links")
           href == Field(call.at, "href")
<1>1. /\ pc = "links" /\ answer' = WithLink(answer, call) /\ pc' = pc /\ original' = original
      /\ calls' = (calls \ {call}) \cup LinkCalls(answer, call)
  BY DEF RewriteLinks
<1>2. IsTree(answer) /\ call.at \in DOMAIN answer /\ call.at \in Seq(Marks)
  BY TreePaths DEF DocumentInv
<1>3. /\ DOMAIN answer = DOMAIN original /\ ~ Skipped(call.at)
      /\ call.inLinks <=> OnPath("_links", call.at)
  BY <1>1 DEF LinkCallsInv
<1>4. Key("_links") \in Marks /\ Key("href") \in Marks /\ Key("_links") # Key("href")
  BY KeysDiffer DEF Marks
<1>5. /\ href \in Seq(Marks) /\ Last(href) = Key("href") /\ Len(href) = Len(call.at) + 1
      /\ IsStrictPrefix(call.at, href) /\ Last(links) = Key("_links")
  BY <1>2, <1>4, AppendEnds, PrefixOfAppend DEF Field
<1>6. \A p \in DOMAIN original :
        Pending(calls', p) <=> IF IsStrictPrefix(call.at, p)
                                 THEN \E x \in LinkCalls(answer, call) : IsStrictPrefix(x.at, p)
                                 ELSE Pending(calls, p)
  BY <1>1, <1>2, <1>3, LinkCallsAreChildren, CallsStayApart DEF LinkCallsInv, DocumentInv
<1>7. \A p \in DOMAIN original : p # href => answer'[p] = answer[p]
  BY <1>1, <1>3 DEF WithLink
<1> HIDE DEF links, href
<1>8. ASSUME NEW p \in DOMAIN original, original[p].sort = "link"
      PROVE  answer'[p].text = IF LeadsToProxy(p) /\ ~ Pending(calls', p)
                                 THEN "proxy" ELSE original[p].text
  <2>1. p \in Seq(Marks) /\ p \in DOMAIN answer /\ answer[p] \in Nodes
    BY <1>2, <1>3, TreePaths
  <2>2. CASE ~ IsStrictPrefix(call.at, p)
    BY <1>1, <1>5, <1>6, <1>7, <1>8, <2>2 DEF LinksInv
  <2>3. CASE IsStrictPrefix(call.at, p)
    <3>1. answer[p].text = original[p].text /\ answer[p].sort = "link"
      BY <1>1, <1>8, <2>1, <2>3 DEF LinksInv, Pending, LinkCallsInv
    <3>2. PICK r \in Children(answer, call.at) : IsPrefix(r, p)
      BY <1>2, <2>1, <2>3, ChildTowards
    <3>3. /\ r \in DOMAIN answer /\ r \in Seq(Marks) /\ r # <<>> /\ Front(r) = call.at
          /\ Last(r) \in Marks /\ r = Append(call.at, Last(r)) /\ Len(r) = Len(call.at) + 1
      BY <1>2, ChildPaths
    <3>4. CASE p = r
      <4>1. ~ Pending(calls', p)
        <5>1. ASSUME NEW x \in LinkCalls(answer, call), IsStrictPrefix(x.at, p) PROVE FALSE
          <6>1. x.at \in Children(answer, call.at)
            BY LinkCallsAreChildren
          <6>2. x.at \in Seq(Marks) /\ Len(x.at) = Len(call.at) + 1
            BY <1>2, <6>1, ChildPaths
          <6>. QED  BY <2>1, <3>3, <3>4, <5>1, <6>2, StrictIsShorter
        <5>. QED  BY <1>6, <2>3, <5>1
      <4>2. p = href <=> Last(p) = Key("href")
        BY <1>5, <3>3, <3>4 DEF href, Field
      <4>3. OnPath("_links", p) <=> OnPath("_links", call.at) \/ Last(p) = Key("_links")
        <5>1. PICK s \in Marks : s = Last(p)
          BY <3>3, <3>4
        <5>2. OnPath("_links", Append(call.at, s)) <=> OnPath("_links", call.at) \/ s = Key("_links")
          BY <1>2, OnPathAppend
        <5>. QED  BY <3>3, <3>4, <5>1, <5>2
      <4>4. LeadsToProxy(p) <=> p = href /\ call.inLinks /\ original[p].text = "endpoint"
        BY <1>3, <1>4, <3>3, <3>4, <4>2, <4>3 DEF LeadsToProxy
      <4>5. answer'[p].text = IF p = href /\ call.inLinks /\ original[p].text = "endpoint"
                                THEN "proxy" ELSE original[p].text
        <5>1. answer'[p] = IF call.inLinks /\ p = href THEN Href(answer[p]) ELSE answer[p]
          BY <1>1, <2>1 DEF WithLink, href
        <5>. QED  BY <2>1, <3>1, <5>1, HrefOfNode
      <4>. QED  BY <4>1, <4>4, <4>5
    <3>5. CASE p # r
      <4>1. IsStrictPrefix(r, p) /\ Len(r) < Len(p)
        BY <2>1, <3>2, <3>3, <3>5, StrictIsShorter DEF IsStrictPrefix
      <4>2. r \in Nested(answer, call.at)
        BY <1>2, <2>1, <3>3, <4>1, ChildTowards DEF Nested
      <4>3. answer'[p].text = original[p].text
        BY <1>5, <1>7, <3>1, <3>3, <4>1
      <4>4. CASE \E x \in LinkCalls(answer, call) : x.at = r
        BY <1>6, <2>3, <4>1, <4>3, <4>4
      <4>5. CASE ~ \E x \in LinkCalls(answer, call) : x.at = r
        <5>1. links \in DOMAIN answer /\ Truthy(answer, links) /\ r # links
          <6>1. CASE ~ (links \in DOMAIN answer /\ Truthy(answer, links))
            <7>1. [at |-> r, inLinks |-> call.inLinks] \in LinkCalls(answer, call)
              BY <4>2, <6>1 DEF LinkCalls, links
            <7>. QED  BY <4>5, <7>1
          <6>2. CASE links \in DOMAIN answer /\ Truthy(answer, links) /\ r = links
            <7>1. [at |-> r, inLinks |-> TRUE] \in LinkCalls(answer, call)
              BY <4>2, <6>2 DEF LinkCalls, links
            <7>. QED  BY <4>5, <7>1
          <6>. QED  BY <6>1, <6>2
        <5>2. Last(r) # Key("_links")
          BY <3>3, <5>1 DEF links, Field
        <5>3. Truthy(original, links)
          BY <1>1, <5>1, LinksAsTheyCame
        <5>4. Skipped(r)
          <6>1. PICK s \in Marks : s = Last(r)
            BY <3>3
          <6>2. Skipped(Append(call.at, s)) <=>
                  \/ Skipped(call.at)
                  \/ links \in DOMAIN original /\ Truthy(original, links) /\ s # Key("_links")
            BY <1>2, SkippedAppend DEF links
          <6>. QED  BY <1>3, <3>3, <5>1, <5>2, <5>3, <6>1, <6>2
        <5>5. p # <<>> => Skipped(Front(p))
          <6>1. ASSUME p # <<>> PROVE Front(p) \in Seq(Marks) /\ IsPrefix(r, Front(p))
            <7>1. Front(p) \in Seq(Marks) /\ Last(p) \in Marks /\ p = Append(Front(p), Last(p))
              BY <2>1, <6>1, SplitLast
            <7>2. PICK s \in Marks : s = Last(p)
              BY <7>1
            <7>3. IsStrictPrefix(r, Append(Front(p), s)) <=> IsPrefix(r, Front(p))
              BY <3>3, <7>1, PrefixOfAppend
            <7>. QED  BY <4>1, <7>1, <7>2, <7>3
          <6>. QED  BY <3>3, <5>4, <6>1, SkippedLonger
        <5>. QED  BY <4>3, <5>5 DEF LeadsToProxy
      <4>. QED  BY <4>4, <4>5
    <3>. QED  BY <3>4, <3>5
  <2>. QED  BY <2>2, <2>3
<1>9. \A p : LeadsToProxy(p)' <=> LeadsToProxy(p)
  BY <1>1 DEF LeadsToProxy, Skipped
<1>. QED  BY <1>1, <1>8, <1>9 DEF LinksInv

LEMMA RewriteLinksStep ==
  ASSUME IInv, NEW call \in calls, RewriteLinks(call)
  PROVE  IInv'
<1> USE DEF IInv
<1>1. /\ pc = "links" /\ answer' = WithLink(answer, call) /\ pc' = "links"
      /\ calls' = (calls \ {call}) \cup LinkCalls(answer, call)
      /\ req' = req /\ original' = original
  BY DEF RewriteLinks
<1>2. IsTree(answer) /\ NumbersAreLeaves(answer) /\ \A c \in calls : c.at \in DOMAIN answer
  BY DEF DocumentInv
<1>3. /\ DOMAIN answer' = DOMAIN answer
      /\ \A p \in DOMAIN answer :
           /\ answer'[p] \in Nodes /\ answer'[p].kind = answer[p].kind
           /\ answer'[p].seals = answer[p].seals
           /\ answer[p].sort # "link" => answer'[p] = answer[p]
  BY <1>1, <1>2, WithLinkChanges
<1>4. DocumentInv'
  <2>1. IsTree(answer') /\ NumbersAreLeaves(answer')
    BY <1>2, <1>3, SameShape
  <2>2. \A x \in calls' : x.at \in DOMAIN answer'
    BY <1>1, <1>2, <1>3, LinkCallsAreChildren DEF Children
  <2>3. Origin'
    BY <1>1 DEF DocumentInv, Origin
  <2>. QED  BY <1>1, <2>1, <2>2, <2>3 DEF DocumentInv
<1>5. KeptInv'
  <2>1. AddedIsEmpty'
    BY <1>1, <1>3 DEF AddedIsEmpty, LinkCallsInv
  <2>. QED  BY <1>1, <1>3, <2>1 DEF KeptInv, LinkCallsInv
<1>6. LinksInv' /\ LinkCallsInv'
  BY LinksStep, LinkCallsStep
<1>7. NullCallsInv' /\ SealsInv'
  BY <1>1, <1>3 DEF NullCallsInv, SealsInv
<1>. QED  BY <1>4, <1>5, <1>6, <1>7

-----------------------------------------------------------------------------
(* From one walk to the next *)

LEMMA LinksStay ==
  ASSUME LinksInv, pc # "links" \/ calls = {}, pc' # "links", original' = original,
         \A p \in DOMAIN original : answer'[p].text = answer[p].text
  PROVE  LinksInv'
<1>1. \A p : LeadsToProxy(p)' <=> LeadsToProxy(p)
  BY DEF LeadsToProxy, Skipped
<1>2. \A p : ~ (pc = "links" /\ Pending(calls, p))
  BY DEF Pending
<1>. QED  BY <1>1, <1>2 DEF LinksInv

LEMMA InsertNullValuesStep == IInv /\ InsertNullValues => IInv'
<1> SUFFICES ASSUME IInv, InsertNullValues PROVE IInv'
  OBVIOUS
<1> USE DEF IInv
<1>1. /\ pc = "links" /\ calls = {} /\ req.volledig /\ pc' = "nulls" /\ names' = FieldNames
      /\ calls' = {[at |-> NullsRoot, under |-> <<>>]}
      /\ req' = req /\ original' = original /\ answer' = answer
  BY DEF InsertNullValues
<1>2. (\A name \in FieldNames : IsName(name)) /\ NullsRoot \in DOMAIN original
  BY OriginFacts DEF DocumentInv
<1>3. DocumentInv'
  BY <1>1, <1>2 DEF DocumentInv, Origin, KeptInv
<1>4. KeptInv'
  BY <1>1 DEF KeptInv, AddedIsEmpty
<1>5. LinksInv'
  BY <1>1, LinksStay
<1>6. NullCallsInv'
  <2>1. ~ OnPath("burgerservicenummer", NullsRoot)
    <3>1. NullsRoot = <<>> \/ NullsRoot = <<Key("personen")>>
      BY DEF NullsRoot, Field
    <3>2. ~ OnPath("burgerservicenummer", <<>>)
      BY DEF OnPath
    <3>3. ~ OnPath("burgerservicenummer", <<Key("personen")>>)
      BY DEF OnPath, Key
    <3>. QED  BY <3>1, <3>2, <3>3
  <2>2. <<>> \in Seq(STRING) /\ DOMAIN <<>> = {}
    OBVIOUS
  <2>. QED  BY <1>1, <1>2, <2>1, <2>2 DEF NullCallsInv
<1>7. LinkCallsInv' /\ SealsInv'
  BY <1>1 DEF LinkCallsInv, SealsInv
<1>. QED  BY <1>3, <1>4, <1>5, <1>6, <1>7

LEMMA EncryptResponseStep == IInv /\ EncryptResponse => IInv'
<1> SUFFICES ASSUME IInv, EncryptResponse PROVE IInv'
  OBVIOUS
<1> USE DEF IInv
<1>1. /\ pc \in {"links", "nulls"} /\ calls = {}
      /\ pc' = IF req.encrypt THEN "seals" ELSE "done"
      /\ calls' = IF req.encrypt THEN {[at |-> <<>>]} ELSE {}
      /\ req' = req /\ original' = original /\ answer' = answer
  BY DEF EncryptResponse
<1>2. DocumentInv'
  BY <1>1 DEF DocumentInv, Origin, IsTree
<1>3. KeptInv' /\ LinkCallsInv' /\ NullCallsInv'
  BY <1>1 DEF KeptInv, AddedIsEmpty, LinkCallsInv, NullCallsInv
<1>4. LinksInv'
  BY <1>1, LinksStay
<1>5. SealsInv'
  <2>1. \A p \in DOMAIN answer : answer[p].seals = 0
    BY <1>1 DEF SealsInv
  <2>2. req.encrypt \in BOOLEAN
    BY OriginFacts DEF DocumentInv
  <2>3. CASE req.encrypt
    <3>1. pc' = "seals" /\ calls' = {[at |-> <<>>]}
      BY <1>1, <2>3
    <3>2. ~ OnPath("burgerservicenummer", <<>>)
      BY DEF OnPath
    <3>3. ASSUME NEW p \in DOMAIN answer, IsNumber(p) PROVE Pending(calls', p)
      <4>1. p \in Seq(Marks) /\ p # <<>>
        BY <3>2, <3>3, TreePaths DEF IsNumber, DocumentInv
      <4>2. IsStrictPrefix(<<>>, p)
        BY <4>1, EmptyIsPrefix
      <4>. QED  BY <3>1, <4>2 DEF Pending
    <3>4. \A p : IsNumber(p)' <=> IsNumber(p)
      BY <1>1 DEF IsNumber
    <3>5. Apart(calls')
      BY <3>1 DEF Apart
    <3>. QED  BY <1>1, <2>1, <2>3, <3>1, <3>2, <3>3, <3>4, <3>5 DEF SealsInv
  <2>4. CASE ~ req.encrypt
    BY <1>1, <2>1, <2>4 DEF SealsInv
  <2>. QED  BY <2>2, <2>3, <2>4
<1>. QED  BY <1>2, <1>3, <1>4, <1>5

LEMMA ReplyStep == IInv /\ Reply => IInv'
<1> SUFFICES ASSUME IInv, Reply PROVE IInv'
  OBVIOUS
<1> USE DEF IInv
<1>1. /\ pc = "seals" /\ calls = {} /\ pc' = "done" /\ calls' = calls
      /\ req' = req /\ original' = original /\ answer' = answer
  BY DEF Reply
<1>2. DocumentInv' /\ KeptInv' /\ LinkCallsInv' /\ NullCallsInv'
  BY <1>1 DEF DocumentInv, Origin, KeptInv, AddedIsEmpty, LinkCallsInv, NullCallsInv
<1>3. LinksInv'
  BY <1>1, LinksStay
<1>4. SealsInv'
  BY <1>1 DEF SealsInv, IsNumber, Pending
<1>. QED  BY <1>2, <1>3, <1>4

LEMMA IncludeNullsFailsStep == IInv /\ (\E call \in calls : IncludeNullsFails(call)) => IInv'
<1> SUFFICES ASSUME IInv, NEW call \in calls, IncludeNullsFails(call) PROVE IInv'
  OBVIOUS
<1> USE DEF IInv
<1>1. /\ pc = "nulls" /\ pc' = "failed" /\ calls' = calls
      /\ req' = req /\ original' = original /\ answer' = answer
  BY DEF IncludeNullsFails
<1>2. DocumentInv' /\ KeptInv' /\ LinkCallsInv' /\ NullCallsInv' /\ SealsInv'
  BY <1>1 DEF DocumentInv, Origin, KeptInv, AddedIsEmpty, LinkCallsInv, NullCallsInv, SealsInv
<1>3. LinksInv'
  BY <1>1, LinksStay
<1>. QED  BY <1>2, <1>3

LEMMA IncludeNullsInListStep ==
  ASSUME IInv, NEW call \in calls, IncludeNullsInList(call)
  PROVE  IInv'
<1> USE DEF IInv
<1>1. /\ pc = "nulls" /\ pc' = pc /\ answer[call.at].kind = "list"
      /\ calls' = (calls \ {call}) \cup ItemCalls(answer, call)
      /\ req' = req /\ original' = original /\ answer' = answer /\ names' = names
  BY DEF IncludeNullsInList
<1>2. ASSUME NEW x \in ItemCalls(answer, call)
      PROVE  x.at \in DOMAIN answer /\ x.under = call.under
             /\ ~ OnPath("burgerservicenummer", x.at)
  <2>1. x.at \in Children(answer, call.at) /\ x.under = call.under
    BY DEF ItemCalls
  <2>2. IsTree(answer) /\ call.at \in Seq(Marks) /\ ~ OnPath("burgerservicenummer", call.at)
    BY <1>1, TreePaths DEF DocumentInv, NullCallsInv
  <2>3. /\ x.at \in DOMAIN answer /\ x.at # <<>> /\ Front(x.at) = call.at
        /\ Last(x.at) \in Marks /\ x.at = Append(call.at, Last(x.at))
    BY <2>1, <2>2, ChildPaths
  <2>4. Last(x.at)[2] # 0
    BY <1>1, <2>2, <2>3 DEF IsTree
  <2>5. Last(x.at) # Key("burgerservicenummer")
    BY <2>4 DEF Key
  <2>6. PICK s \in Marks : s = Last(x.at)
    BY <2>3
  <2>7. OnPath("burgerservicenummer", Append(call.at, s)) <=>
          OnPath("burgerservicenummer", call.at) \/ s = Key("burgerservicenummer")
    BY <2>2, OnPathAppend
  <2>. QED  BY <2>1, <2>2, <2>3, <2>5, <2>6, <2>7
<1>3. DocumentInv'
  BY <1>1, <1>2 DEF DocumentInv, Origin
<1>4. KeptInv' /\ LinkCallsInv' /\ SealsInv'
  BY <1>1 DEF KeptInv, AddedIsEmpty, LinkCallsInv, SealsInv
<1>5. LinksInv'
  BY <1>1, LinksStay
<1>6. NullCallsInv'
  BY <1>1, <1>2 DEF NullCallsInv
<1>. QED  BY <1>3, <1>4, <1>5, <1>6

-----------------------------------------------------------------------------
(* _include_nulls of an object *)

LEMMA NamesUnder ==
  ASSUME NEW under \in Seq(STRING), NEW o, IsName(o),
         \A i \in DOMAIN under : under[i] # "burgerservicenummer"
  PROVE  IsName(under \o o)
<1>1. o \in Seq(STRING) /\ Len(o) >= 1
  BY DEF IsName
<1>2. /\ under \o o \in Seq(STRING) /\ Len(under \o o) = Len(under) + Len(o)
      /\ \A i \in 1..(Len(under) + Len(o)) :
           (under \o o)[i] = IF i <= Len(under) THEN under[i] ELSE o[i - Len(under)]
  BY <1>1
<1>3. ASSUME NEW i \in 1..(Len(under \o o) - 1) PROVE (under \o o)[i] # "burgerservicenummer"
  <2>1. CASE i <= Len(under)
    BY <1>1, <1>2, <2>1
  <2>2. CASE i > Len(under)
    <3>1. PICK j \in Nat : j = i - Len(under)
      BY <2>2
    <3>2. j \in 1..(Len(o) - 1) /\ (under \o o)[i] = o[j]
      BY <1>1, <1>2, <2>2, <3>1
    <3>. QED  BY <3>2 DEF IsName
  <2>. QED  BY <2>1, <2>2
<1>4. under \o o # <<>>
  BY <1>1, <1>2
<1>. QED  BY <1>2, <1>3, <1>4 DEF IsName

LEMMA OwnNamesAreNames ==
  ASSUME \A name \in names : IsName(name), NEW call, call.under \in Seq(STRING),
         \A i \in DOMAIN call.under : call.under[i] # "burgerservicenummer",
         KnowsType(TypeNames, answer, call.at)
  PROVE  \A name \in OwnNames(TypeNames, names, answer, call) : IsName(name)
<1>1. CASE ~ IsTyped(TypeNames, answer, call.at)
  BY <1>1 DEF OwnNames
<1>2. CASE IsTyped(TypeNames, answer, call.at)
  <2> DEFINE other == TypeNames[TypeAt(answer, call.at)]
  <2>1. TypeAt(answer, call.at) \in DOMAIN TypeNames
    BY <1>2 DEF KnowsType
  <2>2. TypeNames = TypeFields
    <3>1. DOMAIN TypeNames # {} /\ DOMAIN <<>> = {}
      BY <2>1
    <3>. QED  BY <3>1 DEF TypeNames
  <2>3. \A o \in other : IsName(o)
    BY <2>1, <2>2, NamesAssumption
  <2> HIDE DEF other
  <2>4. \A name \in Update(names, call.under, other) :
          name \in names \/ \E o \in other : name = call.under \o o
    BY DEF Update
  <2>5. OwnNames(TypeNames, names, answer, call) = Update(names, call.under, other)
    BY <1>2 DEF OwnNames, other
  <2>. QED  BY <2>3, <2>4, <2>5, NamesUnder
<1>. QED  BY <1>1, <1>2

LEMMA PartsOfNames ==
  ASSUME NEW which, \A name \in which : IsName(name), NEW under \in Seq(STRING),
         NEW part \in PartsBelow(which, under)
  PROVE  /\ part \in STRING
         /\ Below(which, Append(under, part)) # {} => part # "burgerservicenummer"
<1>1. part \in STRING
  <2>1. PICK name \in Below(which, under) : part = name[Len(under) + 1]
    BY DEF PartsBelow
  <2>2. name \in Seq(STRING) /\ Len(under) < Len(name)
    BY <2>1, StrictIsShorter DEF Below, IsName
  <2>. QED  BY <2>1, <2>2
<1>2. ASSUME NEW name \in Below(which, Append(under, part)) PROVE part # "burgerservicenummer"
  <2> DEFINE longer == Append(under, part)
  <2>1. longer \in Seq(STRING) /\ Len(longer) = Len(under) + 1 /\ longer[Len(longer)] = part
    BY <1>1, AppendEnds DEF Last
  <2>2. IsName(name) /\ name \in Seq(STRING) /\ IsStrictPrefix(longer, name)
    BY <1>2 DEF Below, IsName
  <2> HIDE DEF longer
  <2>3. Len(longer) < Len(name) /\ \A i \in 1..Len(longer) : longer[i] = name[i]
    BY <2>1, <2>2, StrictIsShorter, PrefixPointwise
  <2>4. PICK n \in Nat : n = Len(under) + 1
    OBVIOUS
  <2>5. name[n] = part /\ n \in 1..(Len(name) - 1)
    BY <2>1, <2>2, <2>3, <2>4
  <2>. QED  BY <2>2, <2>5 DEF IsName
<1>. QED  BY <1>1, <1>2

\* What is put into an object: its fields that were not there.
LEMMA WithNullsAdds ==
  ASSUME NEW doc, IsTree(doc), NEW call, call.at \in DOMAIN doc,
         NEW arrays, NEW which, \A part \in PartsBelow(which, call.under) : part \in STRING
  PROVE  LET after == WithNulls(arrays, which, doc, call)
         IN /\ DOMAIN doc \subseteq DOMAIN after
            /\ \A p \in DOMAIN doc : after[p] = doc[p]
            /\ \A part \in PartsBelow(which, call.under) : Field(call.at, part) \in DOMAIN after
            /\ \A p \in DOMAIN after \ DOMAIN doc :
                 \E part \in PartsBelow(which, call.under) :
                   /\ p = Field(call.at, part) /\ Last(p) = Key(part)
                   /\ p \in Seq(Steps) /\ p # <<>> /\ Front(p) = call.at
                   /\ Len(p) = Len(call.at) + 1
                   /\ after[p] = Filler(arrays, which, call.under, part)
<1> DEFINE after == WithNulls(arrays, which, doc, call)
           missing == {part \in PartsBelow(which, call.under) : Missing(doc, Field(call.at, part))}
           added == {Field(call.at, part) : part \in missing}
<1>1. after = [p \in DOMAIN doc \cup added |->
                 IF p \in added THEN Filler(arrays, which, call.under, Last(p)[1]) ELSE doc[p]]
  BY DEF WithNulls
<1>2. DOMAIN doc \cap added = {}
  BY DEF Missing
<1>3. ASSUME NEW part \in missing
      PROVE  LET p == Field(call.at, part)
             IN /\ Last(p) = Key(part) /\ p \in Seq(Steps) /\ p # <<>> /\ Front(p) = call.at
                /\ Len(p) = Len(call.at) + 1
                /\ Key(part)[1] = part
  <2>1. call.at \in Seq(Steps)
    BY DEF IsTree
  <2>2. part \in STRING
    OBVIOUS
  <2>3. Key(part) \in Steps /\ Key(part)[1] = part
    BY <2>2 DEF Key, Steps
  <2>. QED  BY <2>1, <2>3, AppendEnds DEF Field
<1>4. DOMAIN after = DOMAIN doc \cup added
  BY <1>1
<1>5. \A p \in DOMAIN doc : after[p] = doc[p]
  BY <1>1, <1>2
<1>6. \A p \in added : after[p] = Filler(arrays, which, call.under, Last(p)[1])
  BY <1>1
<1>7. ASSUME NEW part \in PartsBelow(which, call.under) PROVE Field(call.at, part) \in DOMAIN after
  BY <1>4 DEF Missing
<1>8. ASSUME NEW p \in added
      PROVE  \E part \in PartsBelow(which, call.under) :
               /\ p = Field(call.at, part) /\ Last(p) = Key(part)
               /\ p \in Seq(Steps) /\ p # <<>> /\ Front(p) = call.at
               /\ Len(p) = Len(call.at) + 1
               /\ after[p] = Filler(arrays, which, call.under, part)
  <2>1. PICK part \in missing : p = Field(call.at, part)
    BY <1>8
  <2>2. Last(p)[1] = part
    BY <1>3, <2>1
  <2>3. after[p] = Filler(arrays, which, call.under, part)
    BY <1>6, <2>2
  <2>4. part \in PartsBelow(which, call.under)
    BY <2>1
  <2> HIDE DEF after, added, missing
  <2>. QED  BY <1>3, <2>1, <2>3, <2>4
<1> HIDE DEF added, missing, after
<1>9. \A p \in DOMAIN after \ DOMAIN doc : p \in added
  BY <1>4
<1>10. DOMAIN doc \subseteq DOMAIN after
  BY <1>4
<1>. QED  BY <1>5, <1>7, <1>8, <1>9, <1>10 DEF after

LEMMA FillerIsNode ==
  ASSUME NEW arrays, NEW which, NEW under, NEW part
  PROVE  LET node == Filler(arrays, which, under, part)
         IN node \in Nodes /\ node.seals = 0 /\ node.text \in {"", "None"}
BY DEF Filler, EmptyList, NullLeaf, EmptyObject, Node, Nodes, Texts

LEMMA IncludeNullsStep ==
  ASSUME IInv, NEW call \in calls, IncludeNulls(call)
  PROVE  IInv'
<1> USE DEF IInv
<1> DEFINE arrays == TopLevelArrayFields
           parts == PartsBelow(names', call.under)
<1>1. /\ pc = "nulls" /\ pc' = pc /\ answer[call.at].kind = "object"
      /\ KnowsType(TypeNames, answer, call.at)
      /\ names' = OwnNames(TypeNames, names, answer, call)
      /\ answer' = WithNulls(arrays, names', answer, call)
      /\ calls' = (calls \ {call}) \cup NullCalls(names', answer', call)
      /\ req' = req /\ original' = original
  BY DEF IncludeNulls
<1>2. /\ IsTree(answer) /\ NumbersAreLeaves(answer)
      /\ call.at \in DOMAIN answer /\ call.at \in Seq(Marks)
  BY TreePaths DEF DocumentInv
<1>3. /\ call.under \in Seq(STRING)
      /\ \A i \in DOMAIN call.under : call.under[i] # "burgerservicenummer"
      /\ ~ OnPath("burgerservicenummer", call.at)
      /\ \A name \in names : IsName(name)
  BY <1>1 DEF NullCallsInv
<1>4. \A name \in names' : IsName(name)
  BY <1>1, <1>3, OwnNamesAreNames
<1>5. \A part \in parts :
        /\ part \in STRING
        /\ Below(names', Append(call.under, part)) # {} => part # "burgerservicenummer"
  BY <1>3, <1>4, PartsOfNames
<1> HIDE DEF parts
<1>6. /\ DOMAIN answer \subseteq DOMAIN answer'
      /\ \A p \in DOMAIN answer : answer'[p] = answer[p]
      /\ \A part \in parts : Field(call.at, part) \in DOMAIN answer'
      /\ \A p \in DOMAIN answer' \ DOMAIN answer :
           \E part \in parts :
             /\ p = Field(call.at, part) /\ Last(p) = Key(part)
             /\ p \in Seq(Steps) /\ p # <<>> /\ Front(p) = call.at
             /\ Len(p) = Len(call.at) + 1
             /\ answer'[p] = Filler(arrays, names', call.under, part)
  BY <1>1, <1>2, <1>5, WithNullsAdds DEF parts
<1> HIDE DEF arrays
<1>7. ASSUME NEW p \in DOMAIN answer' \ DOMAIN answer
      PROVE  /\ p \in Seq(Steps) /\ p # <<>> /\ Front(p) = call.at /\ Len(p) = Len(call.at) + 1
             /\ Last(p)[2] = 0 /\ answer'[p] \in Nodes /\ answer'[p].seals = 0
  <2>1. PICK part \in parts :
          /\ Last(p) = Key(part)
          /\ p \in Seq(Steps) /\ p # <<>> /\ Front(p) = call.at /\ Len(p) = Len(call.at) + 1
          /\ answer'[p] = Filler(arrays, names', call.under, part)
    BY <1>6
  <2>2. Last(p)[2] = 0
    BY <2>1 DEF Key
  <2>3. answer'[p] \in Nodes /\ answer'[p].seals = 0
    BY <2>1, FillerIsNode
  <2>. QED  BY <2>1, <2>2, <2>3
<1>8. IsTree(answer')
  <2>1. <<>> \in DOMAIN answer'
    BY <1>2, <1>6 DEF IsTree
  <2>2. ASSUME NEW p \in DOMAIN answer
        PROVE  /\ p \in Seq(Steps) /\ answer'[p] \in Nodes
               /\ \A i \in 0..Len(p) : SubSeq(p, 1, i) \in DOMAIN answer'
               /\ p # <<>> => answer'[Front(p)].kind = IF Last(p)[2] = 0 THEN "object" ELSE "list"
    <3>1. p # <<>> => Front(p) \in DOMAIN answer
      <4>1. p # <<>> => Len(p) - 1 \in 0..Len(p) /\ Front(p) = SubSeq(p, 1, Len(p) - 1)
        BY <1>2, TreePaths DEF Front
      <4>. QED  BY <1>2, <4>1 DEF IsTree
    <3>. QED  BY <1>2, <1>6, <3>1 DEF IsTree
  <2>3. ASSUME NEW p \in DOMAIN answer' \ DOMAIN answer
        PROVE  /\ p \in Seq(Steps) /\ answer'[p] \in Nodes
               /\ \A i \in 0..Len(p) : SubSeq(p, 1, i) \in DOMAIN answer'
               /\ p # <<>> => answer'[Front(p)].kind = IF Last(p)[2] = 0 THEN "object" ELSE "list"
    <3>1. ASSUME NEW i \in 0..Len(p) PROVE SubSeq(p, 1, i) \in DOMAIN answer'
      <4>1. CASE i = Len(p)
        <5>1. SubSeq(p, 1, Len(p)) = p
          BY <1>7
        <5>. QED  BY <4>1, <5>1
      <4>2. CASE i # Len(p)
        <5>1. i \in 0..Len(call.at)
          BY <1>2, <1>7, <4>2
        <5>2. SubSeq(p, 1, i) = SubSeq(call.at, 1, i)
          <6>1. p = Append(call.at, Last(p)) /\ Last(p) \in Steps
            BY <1>7, SplitLast
          <6>2. PICK s \in Steps : s = Last(p)
            BY <6>1
          <6>3. SubSeq(Append(call.at, s), 1, i) = SubSeq(call.at, 1, i)
            <7>1. \A j \in 1..Len(call.at) : Append(call.at, s)[j] = call.at[j]
              BY <1>2
            <7>2. \A j \in 1..i : Append(call.at, s)[j] = call.at[j]
              BY <1>2, <5>1, <7>1
            <7>3. SubSeq(Append(call.at, s), 1, i) = [j \in 1..i |-> Append(call.at, s)[j]]
              BY <1>2, <5>1
            <7>4. SubSeq(call.at, 1, i) = [j \in 1..i |-> call.at[j]]
              BY <1>2, <5>1
            <7>. QED  BY <7>2, <7>3, <7>4
          <6>. QED  BY <6>1, <6>2, <6>3
        <5>. QED  BY <1>2, <1>6, <5>1, <5>2 DEF IsTree
      <4>. QED  BY <4>1, <4>2
    <3>. QED  BY <1>1, <1>2, <1>6, <1>7, <3>1
  <2>. QED  BY <2>1, <2>2, <2>3 DEF IsTree
<1>9. NumbersAreLeaves(answer')
  <2>1. ASSUME NEW path \in DOMAIN answer', Field(path, "burgerservicenummer") \in DOMAIN answer'
        PROVE  LET own == Field(path, "burgerservicenummer")
               IN /\ answer'[own].kind # "object"
                  /\ \A p \in Children(answer', own) : answer'[p].kind = "leaf"
    <3> DEFINE own == Field(path, "burgerservicenummer")
    <3>1. path \in Seq(Marks) /\ Key("burgerservicenummer") \in Marks
      BY <1>8, <2>1, TreePaths DEF Marks
    <3>2. own # <<>> /\ Front(own) = path /\ Last(own) = Key("burgerservicenummer")
          /\ OnPath("burgerservicenummer", own)
      BY <3>1, AppendEnds, OnPathAppend DEF Field
    <3> HIDE DEF own
    <3>3. ASSUME NEW p \in Children(answer', own) PROVE p \in Children(answer, own)
      BY <1>3, <1>7, <3>2, <3>3 DEF Children
    <3>4. CASE own \in DOMAIN answer
      <4>1. path \in DOMAIN answer
        <5>1. Len(own) - 1 \in 0..Len(own) /\ Front(own) = SubSeq(own, 1, Len(own) - 1)
          BY <1>2, <3>2, <3>4, TreePaths DEF Front
        <5>. QED  BY <1>2, <3>2, <3>4, <5>1 DEF IsTree
      <4>2. answer[own].kind # "object" /\ \A p \in Children(answer, own) : answer[p].kind = "leaf"
        BY <1>2, <3>4, <4>1 DEF NumbersAreLeaves, own
      <4>. QED  BY <1>6, <3>3, <3>4, <4>2 DEF Children, own
    <3>5. CASE own \notin DOMAIN answer
      <4>1. PICK part \in parts : /\ Last(own) = Key(part)
                                  /\ answer'[own] = Filler(arrays, names', call.under, part)
        BY <1>6, <2>1, <3>5 DEF own
      <4>2. part = "burgerservicenummer"
        BY <3>2, <4>1, KeysDiffer
      <4>3. part \notin arrays
        <5>1. req.view \in {"personen", "bewoningen", "verblijfplaatshistorie"}
          BY OriginFacts DEF DocumentInv
        <5>. QED  BY <4>2, <5>1 DEF arrays, TopLevelArrayFields
      <4>4. answer'[own].kind = "leaf"
        BY <1>5, <4>1, <4>2, <4>3 DEF Filler, NullLeaf, Node
      <4>5. Children(answer, own) = {}
        <5>1. ASSUME NEW p \in Children(answer, own) PROVE FALSE
          <6>1. p \in DOMAIN answer /\ p # <<>> /\ Front(p) = own
            BY DEF Children
          <6>2. Len(p) - 1 \in 0..Len(p) /\ Front(p) = SubSeq(p, 1, Len(p) - 1)
            BY <1>2, <6>1, TreePaths DEF Front
          <6>. QED  BY <1>2, <3>5, <6>1, <6>2 DEF IsTree
        <5>. QED  BY <5>1
      <4>. QED  BY <3>3, <4>4, <4>5 DEF own
    <3>. QED  BY <3>4, <3>5
  <2>. QED  BY <2>1 DEF NumbersAreLeaves
<1>10. ASSUME NEW x \in NullCalls(names', answer', call)
       PROVE  /\ x.at \in DOMAIN answer' /\ x.under \in Seq(STRING)
              /\ \A i \in DOMAIN x.under : x.under[i] # "burgerservicenummer"
              /\ ~ OnPath("burgerservicenummer", x.at)
  <2>1. PICK part \in parts :
          /\ Below(names', Append(call.under, part)) # {}
          /\ x.at = Field(call.at, part) /\ x.under = Append(call.under, part)
    BY DEF NullCalls, parts
  <2>2. part \in STRING /\ part # "burgerservicenummer"
    BY <1>5, <2>1
  <2>3. x.at \in DOMAIN answer'
    BY <1>6, <2>1
  <2>4. x.under \in Seq(STRING) /\ \A i \in DOMAIN x.under : x.under[i] # "burgerservicenummer"
    BY <1>3, <2>1, <2>2
  <2>5. ~ OnPath("burgerservicenummer", x.at)
    <3>1. PICK s \in Marks : s = Key(part)
      BY <2>2 DEF Key, Marks, Steps
    <3>2. s # Key("burgerservicenummer")
      BY <2>2, <3>1, KeysDiffer
    <3>3. OnPath("burgerservicenummer", Append(call.at, s)) <=>
            OnPath("burgerservicenummer", call.at) \/ s = Key("burgerservicenummer")
      BY <1>2, OnPathAppend
    <3>. QED  BY <1>3, <2>1, <3>1, <3>2, <3>3 DEF Field
  <2>. QED  BY <2>3, <2>4, <2>5
<1>11. DocumentInv'
  BY <1>1, <1>6, <1>8, <1>9, <1>10 DEF DocumentInv, Origin
<1>12. KeptInv'
  <2>1. ASSUME NEW p \in DOMAIN answer' \ DOMAIN answer PROVE answer'[p].text \in {"", "None"}
    <3>1. PICK part \in parts : answer'[p] = Filler(arrays, names', call.under, part)
      BY <1>6
    <3>. QED  BY <3>1, FillerIsNode
  <2>2. req.volledig /\ AddedIsEmpty
    BY <1>1 DEF NullCallsInv, KeptInv
  <2>3. AddedIsEmpty'
    BY <1>1, <1>6, <1>7, <2>1, <2>2 DEF AddedIsEmpty
  <2>. QED  BY <1>1, <1>6, <2>3 DEF KeptInv
<1>13. LinksInv'
  BY <1>1, <1>6, LinksStay DEF KeptInv
<1>14. LinkCallsInv' /\ SealsInv'
  BY <1>1, <1>6, <1>7 DEF LinkCallsInv, SealsInv
<1>15. NullCallsInv'
  BY <1>1, <1>4, <1>10 DEF NullCallsInv
<1>. QED  BY <1>11, <1>12, <1>13, <1>14, <1>15

-----------------------------------------------------------------------------
(* _process_bsn *)

\* Where the number of an object is, and what may be there.
LEMMA NumbersOf ==
  ASSUME NEW doc, IsTree(doc), NumbersAreLeaves(doc), NEW at \in DOMAIN doc
  PROVE  LET own == Field(at, "burgerservicenummer")
         IN /\ own \in Seq(Marks) /\ own # <<>> /\ Front(own) = at /\ Len(own) = Len(at) + 1
            /\ Last(own) = Key("burgerservicenummer") /\ IsStrictPrefix(at, own)
            /\ OnPath("burgerservicenummer", own)
            /\ \A p \in Numbers(doc, at) : p \in DOMAIN doc /\ IsPrefix(own, p)
            /\ own \in DOMAIN doc =>
                 /\ own \in Numbers(doc, at) <=> doc[own].kind = "leaf"
                 /\ \A p \in Children(doc, own) : doc[p].kind = "leaf"
                 /\ Children(doc, own) # {} => Numbers(doc, at) = Children(doc, own)
<1> DEFINE own == Field(at, "burgerservicenummer")
<1>1. at \in Seq(Marks) /\ Key("burgerservicenummer") \in Marks
  BY TreePaths DEF Marks
<1>2. /\ own \in Seq(Marks) /\ own # <<>> /\ Front(own) = at /\ Len(own) = Len(at) + 1
      /\ Last(own) = Key("burgerservicenummer") /\ IsStrictPrefix(at, own)
      /\ OnPath("burgerservicenummer", own)
  BY <1>1, AppendEnds, PrefixOfAppend, OnPathAppend DEF Field
<1>3. own \in DOMAIN doc => doc[own].kind # "object" /\ \A p \in Children(doc, own) : doc[p].kind = "leaf"
  BY DEF NumbersAreLeaves
<1>4. Numbers(doc, at) = IF own \notin DOMAIN doc THEN {}
                         ELSE IF doc[own].kind = "list" THEN Children(doc, own) ELSE {own}
  BY DEF Numbers
<1> HIDE DEF own
<1>5. ASSUME NEW p \in Children(doc, own) PROVE p \in DOMAIN doc /\ IsPrefix(own, p) /\ p # own
  BY <1>2, ChildPaths DEF IsStrictPrefix
<1>6. own \in DOMAIN doc => doc[own].kind \in {"object", "list", "leaf"}
  BY TreePaths DEF Nodes
<1>7. own \in DOMAIN doc /\ Children(doc, own) # {} => doc[own].kind # "leaf"
  BY LeafHoldsNothing
<1>8. IsPrefix(own, own)
  BY <1>2, PrefixOrder
<1>9. \A p \in Numbers(doc, at) : p \in DOMAIN doc /\ IsPrefix(own, p)
  BY <1>4, <1>5, <1>8
<1>10. own \in DOMAIN doc =>
         /\ own \in Numbers(doc, at) <=> doc[own].kind = "leaf"
         /\ \A p \in Children(doc, own) : doc[p].kind = "leaf"
         /\ Children(doc, own) # {} => Numbers(doc, at) = Children(doc, own)
  BY <1>3, <1>4, <1>5, <1>6, <1>7
<1>. QED  BY <1>2, <1>9, <1>10 DEF own

LEMMA WithSealsChanges ==
  ASSUME NEW doc, IsTree(doc), NEW call
  PROVE  /\ DOMAIN WithSeals(doc, call) = DOMAIN doc
         /\ \A p \in DOMAIN doc :
              /\ WithSeals(doc, call)[p] \in Nodes
              /\ WithSeals(doc, call)[p].kind = doc[p].kind
              /\ WithSeals(doc, call)[p].text = doc[p].text
              /\ p \in Numbers(doc, call.at) => WithSeals(doc, call)[p].seals = doc[p].seals + 1
              /\ p \notin Numbers(doc, call.at) => WithSeals(doc, call)[p] = doc[p]
<1>1. \A p \in DOMAIN doc : doc[p] \in Nodes
  BY TreePaths
<1>2. ASSUME NEW node \in Nodes
      PROVE  LET sealed == [node EXCEPT !.sort = "text", !.seals = @ + 1]
             IN /\ sealed \in Nodes /\ sealed.kind = node.kind /\ sealed.text = node.text
                /\ sealed.seals = node.seals + 1
  <2>1. PICK n : n = node.seals + 1
    OBVIOUS
  <2>2. n \in Nat
    <3>1. node.seals \in Nat
      BY DEF Nodes
    <3>. QED  BY <2>1, <3>1
  <2>3. [node EXCEPT !.sort = "text", !.seals = @ + 1] = [node EXCEPT !.sort = "text", !.seals = n]
    BY <2>1, Zenon
  <2>4. LET sealed == [node EXCEPT !.sort = "text", !.seals = n]
        IN sealed \in Nodes /\ sealed.kind = node.kind /\ sealed.text = node.text /\ sealed.seals = n
    BY <2>2 DEF Nodes
  <2>. QED  BY <2>1, <2>3, <2>4
<1>. QED  BY <1>1, <1>2 DEF WithSeals

LEMMA SealCallsAreChildren ==
  ASSUME NEW doc, NEW call
  PROVE  /\ \A x \in SealCalls(doc, call) :
              x.at \in Children(doc, call.at) /\ x.at # Field(call.at, "burgerservicenummer")
         /\ \A p \in Nested(doc, call.at) :
              p # Field(call.at, "burgerservicenummer") => \E x \in SealCalls(doc, call) : x.at = p
         /\ \A x \in SealCalls(doc, call), y \in SealCalls(doc, call) : x.at = y.at => x = y
<1> DEFINE places == Nested(doc, call.at) \ {Field(call.at, "burgerservicenummer")}
<1>1. SealCalls(doc, call) = {[at |-> p] : p \in places}
  BY DEF SealCalls
<1>2. places \subseteq Children(doc, call.at)
  BY DEF Nested
<1>3. \A x \in SealCalls(doc, call) : x.at \in places /\ x = [at |-> x.at]
  BY <1>1
<1>4. ASSUME NEW p \in places PROVE \E x \in SealCalls(doc, call) : x.at = p
  <2>1. [at |-> p] \in SealCalls(doc, call) /\ [at |-> p].at = p
    BY <1>1
  <2>. QED  BY <2>1
<1>. QED  BY <1>2, <1>3, <1>4

\* What the object holds is a number it seals now, or left to a further call,
\* or no number.
LEMMA SealedStep ==
  ASSUME IInv, NEW call \in calls, ProcessBsn(call), NEW p \in DOMAIN answer
  PROVE  answer'[p].seals = IF IsNumber(p) /\ ~ Pending(calls', p) THEN 1 ELSE 0
<1> USE DEF IInv
<1> DEFINE own == Field(call.at, "burgerservicenummer")
<1>1. /\ pc = "seals" /\ answer' = WithSeals(answer, call)
      /\ calls' = (calls \ {call}) \cup SealCalls(answer, call)
  BY DEF ProcessBsn
<1>2. /\ IsTree(answer) /\ NumbersAreLeaves(answer) /\ \A c \in calls : c.at \in DOMAIN answer
      /\ call.at \in DOMAIN answer /\ call.at \in Seq(Marks)
      /\ p \in Seq(Marks) /\ answer[p] \in Nodes
  BY TreePaths DEF DocumentInv
<1>3. /\ Apart(calls) /\ ~ OnPath("burgerservicenummer", call.at)
      /\ answer[p].seals = IF IsNumber(p) /\ ~ Pending(calls, p) THEN 1 ELSE 0
  BY <1>1 DEF SealsInv
<1>4. /\ own \in Seq(Marks) /\ own # <<>> /\ Front(own) = call.at /\ Len(own) = Len(call.at) + 1
      /\ Last(own) = Key("burgerservicenummer") /\ IsStrictPrefix(call.at, own)
      /\ OnPath("burgerservicenummer", own)
      /\ \A q \in Numbers(answer, call.at) : IsPrefix(own, q)
      /\ own \in DOMAIN answer =>
           /\ own \in Numbers(answer, call.at) <=> answer[own].kind = "leaf"
           /\ \A q \in Children(answer, own) : answer[q].kind = "leaf"
           /\ Children(answer, own) # {} => Numbers(answer, call.at) = Children(answer, own)
  BY <1>2, NumbersOf
<1> HIDE DEF own
<1>5. Pending(calls', p) <=> IF IsStrictPrefix(call.at, p)
                               THEN \E x \in SealCalls(answer, call) : IsStrictPrefix(x.at, p)
                               ELSE Pending(calls, p)
  <2>1. \A x \in SealCalls(answer, call) : x.at \in Children(answer, call.at)
    BY SealCallsAreChildren
  <2>2. \A x \in SealCalls(answer, call), y \in SealCalls(answer, call) : x.at = y.at => x = y
    BY SealCallsAreChildren
  <2>. QED  BY <1>1, <1>2, <1>3, <2>1, <2>2, CallsStayApart
<1>6. /\ p \in Numbers(answer, call.at) => answer'[p].seals = answer[p].seals + 1
      /\ p \notin Numbers(answer, call.at) => answer'[p].seals = answer[p].seals
  <2>1. p \in Numbers(answer, call.at) => WithSeals(answer, call)[p].seals = answer[p].seals + 1
    BY <1>2, WithSealsChanges
  <2>2. p \notin Numbers(answer, call.at) => WithSeals(answer, call)[p] = answer[p]
    BY <1>2, WithSealsChanges
  <2>. QED  BY <1>1, <2>1, <2>2
<1>7. ASSUME NEW x \in SealCalls(answer, call), IsStrictPrefix(x.at, p)
      PROVE  /\ x.at \in Seq(Marks) /\ Len(x.at) = Len(call.at) + 1 /\ Len(x.at) < Len(p)
             /\ x.at # own /\ IsPrefix(x.at, p)
  <2>1. x.at \in Children(answer, call.at) /\ x.at # own
    BY SealCallsAreChildren DEF own
  <2>2. x.at \in Seq(Marks) /\ Len(x.at) = Len(call.at) + 1
    BY <1>2, <2>1, ChildPaths
  <2>. QED  BY <1>2, <1>7, <2>1, <2>2, StrictIsShorter
<1>8. CASE ~ IsStrictPrefix(call.at, p)
  <2>1. p \notin Numbers(answer, call.at)
    <3>1. ASSUME IsPrefix(own, p) PROVE IsStrictPrefix(call.at, p)
      <4>1. IsPrefix(call.at, own)
        BY <1>4 DEF IsStrictPrefix
      <4>2. IsPrefix(call.at, p)
        BY <1>2, <1>4, <3>1, <4>1, PrefixOrder
      <4>3. Len(own) <= Len(p)
        BY <1>2, <1>4, <3>1, PrefixPointwise
      <4>. QED  BY <1>2, <1>4, <4>2, <4>3, StrictIsShorter
    <3>. QED  BY <1>4, <1>8, <3>1
  <2>. QED  BY <1>3, <1>5, <1>6, <1>8, <2>1
<1>9. CASE IsStrictPrefix(call.at, p)
  <2>1. answer[p].seals = 0
    BY <1>3, <1>9 DEF Pending
  <2>2. PICK r \in Children(answer, call.at) : IsPrefix(r, p)
    BY <1>2, <1>9, ChildTowards
  <2>3. /\ r \in DOMAIN answer /\ r \in Seq(Marks) /\ r # <<>> /\ Front(r) = call.at
        /\ Last(r) \in Marks /\ r = Append(call.at, Last(r)) /\ Len(r) = Len(call.at) + 1
    BY <1>2, ChildPaths
  <2>4. IsPrefix(own, p) => r = own
    BY <1>2, <1>4, <2>2, <2>3, PrefixOrder
  <2>5. CASE p = r
    <3>1. ~ Pending(calls', p)
      BY <1>5, <1>7, <1>9, <2>3, <2>5
    <3>2. OnPath("burgerservicenummer", p) <=> p = own
      <4>1. PICK s \in Marks : s = Last(r)
        BY <2>3
      <4>2. OnPath("burgerservicenummer", Append(call.at, s)) <=>
              OnPath("burgerservicenummer", call.at) \/ s = Key("burgerservicenummer")
        BY <1>2, OnPathAppend
      <4>3. r = own <=> s = Key("burgerservicenummer")
        BY <1>4, <2>3, <4>1 DEF own, Field
      <4>. QED  BY <1>3, <2>3, <2>5, <4>1, <4>2, <4>3
    <3>3. p \in Numbers(answer, call.at) <=> p = own /\ answer[p].kind = "leaf"
      BY <1>4, <2>3, <2>4, <2>5
    <3>. QED  BY <1>6, <2>1, <3>1, <3>2, <3>3 DEF IsNumber
  <2>6. CASE p # r
    <3>1. IsStrictPrefix(r, p)
      BY <2>2, <2>6 DEF IsStrictPrefix
    <3>2. PICK q \in Children(answer, r) : IsPrefix(q, p)
      BY <1>2, <2>3, <3>1, ChildTowards
    <3>3. r \in Nested(answer, call.at)
      BY <3>2 DEF Nested
    <3>4. CASE r # own
      <4>1. p \notin Numbers(answer, call.at)
        BY <1>4, <2>4, <3>4
      <4>2. Pending(calls', p)
        BY <1>5, <1>9, <3>1, <3>3, <3>4, SealCallsAreChildren DEF own
      <4>. QED  BY <1>6, <2>1, <4>1, <4>2
    <3>5. CASE r = own
      <4>1. answer[q].kind = "leaf" /\ q \in Numbers(answer, call.at) /\ q \in DOMAIN answer
        BY <1>4, <2>3, <3>2, <3>5 DEF Children
      <4>2. p = q
        BY <1>2, <3>2, <4>1, LeafHoldsNothing DEF IsStrictPrefix
      <4>3. IsNumber(p)
        BY <1>2, <1>4, <2>2, <3>5, <4>1, <4>2, OnPathLonger DEF IsNumber
      <4>4. ~ Pending(calls', p)
        <5>1. ASSUME NEW x \in SealCalls(answer, call), IsStrictPrefix(x.at, p) PROVE FALSE
          <6>1. IsPrefix(x.at, own) \/ IsPrefix(own, x.at)
            BY <1>2, <1>4, <1>7, <2>2, <3>5, <5>1, PrefixOrder
          <6>. QED  BY <1>4, <1>7, <5>1, <6>1, PrefixOrder
        <5>. QED  BY <1>5, <1>9, <5>1
      <4>. QED  BY <1>6, <2>1, <4>1, <4>2, <4>3, <4>4
    <3>. QED  BY <3>4, <3>5
  <2>. QED  BY <2>5, <2>6
<1>. QED  BY <1>8, <1>9

LEMMA ProcessBsnStep ==
  ASSUME IInv, NEW call \in calls, ProcessBsn(call)
  PROVE  IInv'
<1> USE DEF IInv
<1>1. /\ pc = "seals" /\ pc' = pc /\ answer' = WithSeals(answer, call)
      /\ calls' = (calls \ {call}) \cup SealCalls(answer, call)
      /\ req' = req /\ original' = original
  BY DEF ProcessBsn
<1>2. /\ IsTree(answer) /\ NumbersAreLeaves(answer) /\ \A c \in calls : c.at \in DOMAIN answer
      /\ call.at \in Seq(Marks)
  BY TreePaths DEF DocumentInv
<1>3. /\ DOMAIN answer' = DOMAIN answer
      /\ \A p \in DOMAIN answer :
           /\ answer'[p] \in Nodes /\ answer'[p].kind = answer[p].kind
           /\ answer'[p].text = answer[p].text
           /\ answer'[p].seals = answer[p].seals + 1 \/ answer'[p] = answer[p]
  BY <1>1, <1>2, WithSealsChanges
<1>4. \A p \in DOMAIN answer : answer[p].seals \in Nat
  BY <1>2, TreePaths DEF Nodes
<1>5. DocumentInv'
  <2>1. IsTree(answer') /\ NumbersAreLeaves(answer')
    BY <1>2, <1>3, SameShape
  <2>2. \A x \in SealCalls(answer, call) : x.at \in DOMAIN answer
    BY SealCallsAreChildren DEF Children
  <2>. QED  BY <1>1, <1>2, <1>3, <2>1, <2>2 DEF DocumentInv, Origin
<1>6. KeptInv'
  <2>1. AddedIsEmpty'
    BY <1>1, <1>3 DEF KeptInv, AddedIsEmpty
  <2>. QED  BY <1>1, <1>3, <1>4, <2>1 DEF KeptInv
<1>7. LinksInv'
  BY <1>1, <1>3, LinksStay DEF KeptInv
<1>8. LinkCallsInv' /\ NullCallsInv'
  BY <1>1 DEF LinkCallsInv, NullCallsInv
<1>9. SealsInv'
  <2>1. req.encrypt /\ Apart(calls) /\ \A c \in calls : ~ OnPath("burgerservicenummer", c.at)
    BY <1>1 DEF SealsInv
  <2>2. \A x \in SealCalls(answer, call) :
          x.at \in Children(answer, call.at) /\ x.at # Field(call.at, "burgerservicenummer")
    BY SealCallsAreChildren
  <2>3. Apart(calls')
    <3>1. \A x \in SealCalls(answer, call), y \in SealCalls(answer, call) : x.at = y.at => x = y
      BY SealCallsAreChildren
    <3>. QED  BY <1>1, <1>2, <2>1, <2>2, <3>1, CallsStayApart
  <2>4. ASSUME NEW x \in SealCalls(answer, call) PROVE ~ OnPath("burgerservicenummer", x.at)
    <3>1. /\ Last(x.at) \in Marks /\ x.at = Append(call.at, Last(x.at))
          /\ x.at # Append(call.at, Key("burgerservicenummer"))
      BY <1>2, <2>2, ChildPaths DEF Field
    <3>2. PICK s \in Marks : s = Last(x.at)
      BY <3>1
    <3>3. OnPath("burgerservicenummer", Append(call.at, s)) <=>
            OnPath("burgerservicenummer", call.at) \/ s = Key("burgerservicenummer")
      BY <1>2, OnPathAppend
    <3>. QED  BY <2>1, <3>1, <3>2, <3>3
  <2>5. \A p \in DOMAIN answer :
          answer'[p].seals = IF IsNumber(p) /\ ~ Pending(calls', p) THEN 1 ELSE 0
    BY SealedStep
  <2>6. \A p \in DOMAIN answer : IsNumber(p)' <=> IsNumber(p)
    BY <1>3 DEF IsNumber
  <2>. QED  BY <1>1, <1>3, <2>1, <2>3, <2>4, <2>5, <2>6 DEF SealsInv
<1>. QED  BY <1>5, <1>6, <1>7, <1>8, <1>9

-----------------------------------------------------------------------------
(* Every answer *)

LEMMA NextInv == IInv /\ [Next]_vars => IInv'
<1> SUFFICES ASSUME IInv, [Next]_vars PROVE IInv'
  OBVIOUS
<1>1. ASSUME NEW call \in calls, RewriteLinks(call) PROVE IInv'
  BY <1>1, RewriteLinksStep
<1>2. ASSUME NEW call \in calls, IncludeNullsInList(call) PROVE IInv'
  BY <1>2, IncludeNullsInListStep
<1>3. ASSUME NEW call \in calls, IncludeNulls(call) PROVE IInv'
  BY <1>3, IncludeNullsStep
<1>4. ASSUME NEW call \in calls, IncludeNullsFails(call) PROVE IInv'
  BY <1>4, IncludeNullsFailsStep
<1>5. ASSUME NEW call \in calls, ProcessBsn(call) PROVE IInv'
  BY <1>5, ProcessBsnStep
<1>6. CASE InsertNullValues
  BY <1>6, InsertNullValuesStep
<1>7. CASE EncryptResponse
  BY <1>7, EncryptResponseStep
<1>8. CASE Reply
  BY <1>8, ReplyStep
<1>9. CASE UNCHANGED vars
  <2>1. DocumentInv' /\ KeptInv' /\ LinkCallsInv' /\ NullCallsInv'
    BY <1>9 DEF IInv, vars, DocumentInv, Origin, KeptInv, AddedIsEmpty, LinkCallsInv, NullCallsInv,
                   Skipped
  <2>2. LinksInv' /\ SealsInv'
    BY <1>9 DEF IInv, vars, LinksInv, LeadsToProxy, Pending, Skipped, SealsInv, IsNumber
  <2>. QED  BY <2>1, <2>2 DEF IInv
<1>. QED  BY <1>1, <1>2, <1>3, <1>4, <1>5, <1>6, <1>7, <1>8, <1>9 DEF Next

\* transform_response, encrypt_response: whatever the tree of an answer and the
\* names, the calls that are still to begin are in the document, no two of them
\* lead to the same value, and what no call will come to is finished.
THEOREM WalksInvariant == Spec => []IInv
<1>1. Init => IInv
  BY InitInv
<1>2. IInv /\ [Next]_vars => IInv'
  BY NextInv
<1>. QED  BY <1>1, <1>2, PTL DEF Spec

\* No walk takes away, moves or rewrites what Haal Centraal sent, and no list
\* gets another length, whatever names are put in on the way.
THEOREM NothingLost == Spec => []ValuesKept
<1>1. IInv => ValuesKept
  <2> SUFFICES ASSUME IInv, NEW p \in DOMAIN original
               PROVE  /\ p \in DOMAIN answer
                      /\ answer[p].kind = original[p].kind
                      /\ original[p].kind = "list" => Children(answer, p) = Children(original, p)
                      /\ original[p].sort # "link" => answer[p].text = original[p].text
                      /\ original[p].sort # "link" /\ answer[p].seals = 0 => answer[p] = original[p]
    BY DEF ValuesKept
  <2>1. /\ p \in DOMAIN answer /\ answer[p].kind = original[p].kind
        /\ original[p].sort # "link" => answer[p].text = original[p].text
        /\ original[p].sort # "link" /\ answer[p].seals = 0 => answer[p] = original[p]
    BY DEF IInv, KeptInv
  <2>2. ASSUME original[p].kind = "list" PROVE Children(answer, p) = Children(original, p)
    <3>1. ASSUME NEW q \in Children(answer, p) PROVE q \in DOMAIN original
      <4>1. q \in DOMAIN answer /\ q # <<>> /\ Front(q) = p
        BY DEF Children
      <4>2. Last(q)[2] # 0
        BY <2>1, <2>2, <4>1 DEF IInv, DocumentInv, IsTree
      <4>. QED  BY <4>1, <4>2 DEF IInv, KeptInv, AddedIsEmpty
    <3>2. DOMAIN original \subseteq DOMAIN answer
      BY DEF IInv, KeptInv
    <3>. QED  BY <3>1, <3>2 DEF Children
  <2>. QED  BY <2>1, <2>2
<1>. QED  BY <1>1, WalksInvariant, PTL

\* _include_nulls: what is put into an answer is a null, an empty list or an
\* object of nulls; it is put into objects only, and into no answer unless the
\* client asked for resultaat-formaat=volledig.
THEOREM OnlyNullsAdded == Spec => []AddedIsEmpty
<1>1. IInv => AddedIsEmpty
  BY DEF IInv, KeptInv
<1>. QED  BY <1>1, WalksInvariant, PTL

\* With the scope every citizen service number is sealed once, wherever it is
\* and whatever lies beside it; without it none is, and nothing else ever is.
THEOREM EverySealOnce == Spec => []NumbersSealedOnce
<1>1. IInv => NumbersSealedOnce
  BY DEF IInv, SealsInv, NumbersSealedOnce, IsNumber
<1>. QED  BY <1>1, WalksInvariant, PTL

\* A link leads to the proxy exactly when it stands in the first _links on its
\* path and led to Haal Centraal; the keys that are skipped are those the code
\* says it can skip.
THEOREM LinksLead == Spec => []LinksRewritten
<1>1. IInv => LinksRewritten
  BY DEF IInv, LinksInv, LeadsToProxy, LinksRewritten
<1>. QED  BY <1>1, WalksInvariant, PTL

=============================================================================

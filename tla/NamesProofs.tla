------------------------------ MODULE NamesProofs ------------------------------
(***************************************************************************)
(* The walk for null values, for every answer and every table of names:    *)
(* what it adds stands under a name of the view or of a type that came     *)
(* before, and when it has ended every name is there.                      *)
(*                                                                         *)
(* Neither is inductive.  Which names are at hand depends on the objects   *)
(* the walk has come to, and that these are the ones before the path of a  *)
(* call on the shape of the calls that have not begun: they are a stack,   *)
(* each beside the path to the first.                                      *)
(***************************************************************************)
EXTENDS AnswerRewritingProofs, FiniteSetTheorems, WellFoundedInduction

-----------------------------------------------------------------------------
(* The inductive invariant *)

\* A call that has not begun is for what lies beside the path of one that is
\* as deep or deeper, and after it when they are elements of a list.
Beside(path, deeper) ==
  /\ path # <<>> /\ IsPrefix(Front(path), deeper)
  /\ Len(path) < Len(deeper) => deeper[Len(path)][2] <= Last(path)[2]

Stack(C) ==
  /\ Apart(C)
  /\ \A c \in C, d \in C : c # d /\ Len(d.at) <= Len(c.at) => Beside(d.at, c.at)

StackInv ==
  pc = "nulls" =>
    /\ Stack(calls)
    /\ \A c \in calls : IsPrefix(NullsRoot, c.at) /\ Parts(c.at) = Parts(NullsRoot) \o c.under

\* No call will come to an object again, and those that have not begun are for
\* what comes after it.
Past(C, v) == \A c \in C : ~ IsPrefix(c.at, v) /\ NotAfter(v, c.at)

\* The names at hand are those of the view and of the objects that came before;
\* what holds a path for which a call is made has all its own names in them.
NamesInv ==
  pc = "nulls" =>
    /\ FieldNames \subseteq names
    /\ \A name \in names :
         \/ name \in FieldNames
         \/ \E v \in DOMAIN original :
              HasOwn(v) /\ Past(calls, v) /\ \E own \in Own(v) : name = Parts(v) \o own
    /\ \A v \in DOMAIN original, c \in calls :
         IsTyped(TypeNames, original, v) /\ IsStrictPrefix(v, c.at) =>
           HasOwn(v) /\ \A own \in Own(v) : Parts(v) \o own \in names

AddedInv ==
  \A p \in DOMAIN answer \ DOMAIN original : MayBeNull(p) /\ (pc = "nulls" => ~ Pending(calls, p))

\* A name is there or a call will come to the object that should have it.
Promised(from, which) ==
  \A name \in which : \A i \in DOMAIN name :
    \A p \in Reached(from, SubSeq(name, 1, i - 1)) :
      \/ Field(p, name[i]) \in DOMAIN answer
      \/ pc = "nulls" /\ \E c \in calls : IsPrefix(c.at, p)

PromisedInv ==
  req.volledig /\ pc \in {"nulls", "seals", "done"} =>
    /\ Promised(NullsRoot, FieldNames)
    /\ \A v \in Visited : HasOwn(v) => Promised(v, Own(v))

WalkInv == IInv /\ StackInv /\ NamesInv /\ AddedInv /\ PromisedInv

-----------------------------------------------------------------------------
(* The keys on a path *)

LEMMA MinOfNats ==
  ASSUME NEW T, T \subseteq Nat, T # {}
  PROVE  \E m \in T : \A k \in T : m <= k
<1> DEFINE R == {ss \in Nat \X Nat : ss[1] < ss[2]}
<1>1. OpToRel(<, Nat) = R
  BY DEF OpToRel
<1>2. IsWellFoundedOn(R, Nat)
  BY <1>1, NatLessThanWellFounded
<1> HIDE DEF R
<1>3. PICK m \in T : \A k \in T : <<k, m>> \notin R
  BY <1>2, WFMin
<1>4. ASSUME NEW k \in T PROVE m <= k
  <2>1. k \in Nat /\ m \in Nat
    OBVIOUS
  <2>2. k < m => <<k, m>> \in R
    BY <2>1 DEF R
  <2>. QED  BY <1>3, <2>1, <2>2
<1>. QED  BY <1>3, <1>4

LEMMA StepParts ==
  ASSUME NEW s \in Steps
  PROVE  s[1] \in STRING /\ s[2] \in Nat /\ (s[2] = 0 => s = Key(s[1]))
BY DEF Steps, Key

LEMMA KeysFinite ==
  ASSUME NEW p, NEW i \in Nat
  PROVE  IsFiniteSet(KeysUpTo(p, i)) /\ Cardinality(KeysUpTo(p, i)) \in Nat
<1>1. IsFiniteSet(1..i) /\ KeysUpTo(p, i) \subseteq 1..i
  BY FS_Interval DEF KeysUpTo
<1>. QED  BY <1>1, FS_Subset, FS_CardinalityType

LEMMA KeysOfAppend ==
  ASSUME NEW p \in Seq(Steps), NEW s \in Steps
  PROVE  LET q == Append(p, s)
             n == Len(p)
         IN /\ \A i \in 0..n : KeysUpTo(q, i) = KeysUpTo(p, i)
            /\ KeysUpTo(q, n + 1) =
                 IF s[2] = 0 THEN KeysUpTo(p, n) \cup {n + 1} ELSE KeysUpTo(p, n)
<1> DEFINE q == Append(p, s)
<1>1. PICK n \in Nat : n = Len(p)
  OBVIOUS
<1>2. (\A j \in 1..n : q[j] = p[j]) /\ q[n + 1] = s
  BY <1>1
<1> HIDE DEF q
<1>3. \A i \in 0..n : KeysUpTo(q, i) = KeysUpTo(p, i)
  BY <1>2 DEF KeysUpTo
<1>4. KeysUpTo(q, n + 1) = IF s[2] = 0 THEN KeysUpTo(p, n) \cup {n + 1} ELSE KeysUpTo(p, n)
  <2>1. 1..(n + 1) = (1..n) \cup {n + 1}
    OBVIOUS
  <2>. QED  BY <1>2, <2>1 DEF KeysUpTo
<1>. QED  BY <1>1, <1>3, <1>4 DEF q

LEMMA KeysGrow ==
  ASSUME NEW p, NEW i \in Nat, NEW j \in Nat, i <= j
  PROVE  Cardinality(KeysUpTo(p, i)) <= Cardinality(KeysUpTo(p, j))
<1>1. KeysUpTo(p, i) \subseteq KeysUpTo(p, j)
  BY DEF KeysUpTo
<1>. QED  BY <1>1, KeysFinite, FS_Subset

\* The n-th key is at some step.
LEMMA KeyOfRank ==
  ASSUME NEW p \in Seq(Steps), NEW l \in Nat, NEW n \in 1..Cardinality(KeysUpTo(p, l))
  PROVE  \E i \in KeysUpTo(p, l) : Cardinality(KeysUpTo(p, i)) = n
<1> DEFINE Found(m) == \A k \in 1..Cardinality(KeysUpTo(p, m)) :
                         \E i \in KeysUpTo(p, m) : Cardinality(KeysUpTo(p, i)) = k
           bad == {m \in Nat : ~ Found(m)}
<1>1. ASSUME bad # {} PROVE FALSE
  <2>1. PICK m \in bad : \A k \in bad : m <= k
    BY <1>1, MinOfNats
  <2>2. CASE m = 0
    <3>1. KeysUpTo(p, 0) = {}
      BY DEF KeysUpTo
    <3>2. Cardinality(KeysUpTo(p, 0)) = 0
      BY <3>1, FS_EmptySet
    <3>. QED  BY <2>1, <2>2, <3>2
  <2>3. CASE m # 0
    <3>1. PICK j \in Nat : m = j + 1
      BY <2>3
    <3>2. Found(j)
      BY <2>1, <3>1
    <3>3. IsFiniteSet(KeysUpTo(p, j)) /\ Cardinality(KeysUpTo(p, j)) \in Nat
          /\ j + 1 \notin KeysUpTo(p, j)
      BY KeysFinite DEF KeysUpTo
    <3>4. 1..(j + 1) = (1..j) \cup {j + 1}
      OBVIOUS
    <3>5. CASE p[j + 1][2] = 0
      <4>1. KeysUpTo(p, m) = KeysUpTo(p, j) \cup {m}
        BY <3>1, <3>4, <3>5 DEF KeysUpTo
      <4>2. Cardinality(KeysUpTo(p, m)) = Cardinality(KeysUpTo(p, j)) + 1
        BY <3>1, <3>3, <4>1, FS_AddElement
      <4>3. ASSUME NEW k \in 1..Cardinality(KeysUpTo(p, m))
            PROVE  \E i \in KeysUpTo(p, m) : Cardinality(KeysUpTo(p, i)) = k
        <5>1. CASE k = Cardinality(KeysUpTo(p, m))
          BY <4>1, <5>1
        <5>2. CASE k # Cardinality(KeysUpTo(p, m))
          <6>1. k \in 1..Cardinality(KeysUpTo(p, j))
            BY <3>3, <4>2, <5>2
          <6>. QED  BY <3>2, <4>1, <6>1
        <5>. QED  BY <5>1, <5>2
      <4>. QED  BY <2>1, <4>3
    <3>6. CASE p[j + 1][2] # 0
      <4>1. KeysUpTo(p, m) = KeysUpTo(p, j)
        BY <3>1, <3>4, <3>6 DEF KeysUpTo
      <4>2. Found(m)
        BY <3>2, <4>1
      <4>. QED  BY <2>1, <4>2
    <3>. QED  BY <3>5, <3>6
  <2>. QED  BY <2>2, <2>3
<1>. QED  BY <1>1

LEMMA PartsLength ==
  ASSUME NEW p \in Seq(Steps)
  PROVE  /\ Parts(p) \in Seq({Parts(p)[n] : n \in 1..Len(Parts(p))})
         /\ Len(Parts(p)) = Cardinality(KeysUpTo(p, Len(p)))
<1>1. PICK m \in Nat : m = Cardinality(KeysUpTo(p, Len(p)))
  BY KeysFinite
<1>2. Parts(p) = [n \in 1..m |-> Parts(p)[n]]
  BY <1>1 DEF Parts
<1>3. Len(Parts(p)) = m
  BY <1>2
<1> DEFINE S == {Parts(p)[n] : n \in 1..m}
<1>4. [n \in 1..m |-> Parts(p)[n]] \in Seq(S)
  OBVIOUS
<1>. QED  BY <1>1, <1>2, <1>3, <1>4

\* A key adds itself to the parts, a position in a list nothing.
LEMMA PartsOfAppend ==
  ASSUME NEW p \in Seq(Steps), NEW s \in Steps
  PROVE  Parts(Append(p, s)) = IF s[2] = 0 THEN Append(Parts(p), s[1]) ELSE Parts(p)
<1> DEFINE q == Append(p, s)
           At(path, keys, n) == CHOOSE i \in keys : Cardinality(KeysUpTo(path, i)) = n
<1>1. PICK l \in Nat : l = Len(p) /\ l + 1 = Len(q)
  OBVIOUS
<1>2. q \in Seq(Steps) /\ (\A i \in 1..l : q[i] = p[i]) /\ q[l + 1] = s
  BY <1>1
<1> DEFINE K == KeysUpTo(p, l)
           L == KeysUpTo(q, l + 1)
<1>3. /\ \A i \in 0..l : KeysUpTo(q, i) = KeysUpTo(p, i)
      /\ L = IF s[2] = 0 THEN K \cup {l + 1} ELSE K
  BY <1>1, KeysOfAppend
<1> HIDE DEF q
<1>4. K \subseteq 1..l /\ IsFiniteSet(K) /\ Cardinality(K) \in Nat
  BY KeysFinite DEF KeysUpTo
<1>5. Parts(p) = [n \in 1..Cardinality(K) |-> p[At(p, K, n)][1]]
  BY <1>1 DEF Parts
<1>6. Len(q) = l + 1
  BY <1>1
<1>7. Parts(q) = [n \in 1..Cardinality(L) |-> q[At(q, L, n)][1]]
  BY <1>6 DEF Parts
<1>8. \A i \in K : KeysUpTo(q, i) = KeysUpTo(p, i)
  BY <1>3, <1>4
<1>9. \A n \in 1..Cardinality(K) : \E i \in K : Cardinality(KeysUpTo(p, i)) = n
  BY KeyOfRank
<1> HIDE DEF K, L
<1>10. ASSUME NEW n \in 1..Cardinality(K)
       PROVE  At(q, K, n) = At(p, K, n) /\ At(p, K, n) \in K /\ q[At(q, K, n)] = p[At(p, K, n)]
  <2>1. At(q, K, n) = At(p, K, n)
    BY <1>8
  <2>2. At(p, K, n) \in K
    BY <1>9
  <2>. QED  BY <1>2, <1>4, <2>1, <2>2
<1>11. CASE s[2] # 0
  <2>1. L = K
    BY <1>3, <1>11
  <2>2. Parts(q) = [n \in 1..Cardinality(K) |-> q[At(q, K, n)][1]]
    BY <1>7, <2>1
  <2>3. \A n \in 1..Cardinality(K) : q[At(q, K, n)][1] = p[At(p, K, n)][1]
    BY <1>10
  <2> HIDE DEF At
  <2>4. Parts(q) = Parts(p)
    BY <1>5, <2>2, <2>3
  <2>. QED  BY <1>11, <2>4 DEF q
<1>12. CASE s[2] = 0
  <2>1. L = K \cup {l + 1} /\ l + 1 \notin K
    BY <1>3, <1>4, <1>12
  <2>2. PICK m \in Nat : m = Cardinality(K) /\ m + 1 = Cardinality(L)
    BY <1>4, <2>1, FS_AddElement
  <2>3. Cardinality(KeysUpTo(q, l + 1)) = m + 1
    BY <2>2 DEF L
  <2>4. \A i \in K : Cardinality(KeysUpTo(p, i)) \in Nat /\ Cardinality(KeysUpTo(p, i)) <= m
    BY <1>4, <2>2, KeysFinite, KeysGrow DEF K
  <2>5. At(q, L, m + 1) = l + 1
    <3>1. \A i \in L : Cardinality(KeysUpTo(q, i)) = m + 1 <=> i = l + 1
      BY <1>8, <2>1, <2>3, <2>4
    <3>. QED  BY <2>1, <3>1
  <2>6. ASSUME NEW n \in 1..m PROVE At(q, L, n) = At(q, K, n)
    <3>1. \A i \in L :
            Cardinality(KeysUpTo(q, i)) = n <=> i \in K /\ Cardinality(KeysUpTo(q, i)) = n
      BY <2>1, <2>3
    <3>2. \A i : i \in L /\ Cardinality(KeysUpTo(q, i)) = n <=>
                   i \in K /\ Cardinality(KeysUpTo(q, i)) = n
      BY <2>1, <3>1
    <3>. QED  BY <3>2
  <2> HIDE DEF At
  <2>7. Parts(q) = [n \in 1..(m + 1) |-> IF n = m + 1 THEN s[1] ELSE p[At(p, K, n)][1]]
    <3>1. ASSUME NEW n \in 1..(m + 1)
          PROVE  q[At(q, L, n)][1] = IF n = m + 1 THEN s[1] ELSE p[At(p, K, n)][1]
      <4>1. CASE n = m + 1
        BY <1>2, <2>5, <4>1
      <4>2. CASE n # m + 1
        <5>1. n \in 1..m
          BY <4>2
        <5>. QED  BY <1>10, <2>2, <2>6, <4>2, <5>1
      <4>. QED  BY <4>1, <4>2
    <3>. QED  BY <1>7, <2>2, <3>1
  <2>8. Parts(p) = [n \in 1..m |-> p[At(p, K, n)][1]]
    BY <1>5, <2>2
  <2>9. Append(Parts(p), s[1]) = [n \in 1..(m + 1) |-> IF n = m + 1 THEN s[1] ELSE p[At(p, K, n)][1]]
    <3>1. /\ Parts(p) \in Seq({Parts(p)[n] : n \in 1..Len(Parts(p))})
          /\ Len(Parts(p)) = m
      BY <1>1, <2>2, PartsLength DEF K
    <3> DEFINE S == {Parts(p)[n] : n \in 1..Len(Parts(p))}
    <3>2. PICK T : Parts(p) \in Seq(T)
      BY <3>1
    <3>3. \A n \in 1..m : Parts(p)[n] = p[At(p, K, n)][1]
      BY <2>8
    <3>. QED  BY <3>1, <3>2, <3>3
  <2>. QED  BY <1>12, <2>7, <2>9 DEF q
<1>. QED  BY <1>11, <1>12
LEMMA PartsOfPrefix ==
  ASSUME NEW q \in Seq(Steps), NEW n \in 0..Len(q)
  PROVE  /\ Parts(SubSeq(q, 1, n)) \in Seq(STRING)
         /\ \A m \in 0..n : IsPrefix(Parts(SubSeq(q, 1, m)), Parts(SubSeq(q, 1, n)))
<1> DEFINE P(k) == Parts(SubSeq(q, 1, k))
           Good(k) == P(k) \in Seq(STRING) /\ \A m \in 0..k : IsPrefix(P(m), P(k))
           bad == {k \in 0..Len(q) : ~ Good(k)}
<1>1. ASSUME bad # {} PROVE FALSE
  <2>1. PICK k \in bad : \A j \in bad : k <= j
    <3>1. bad \subseteq Nat
      OBVIOUS
    <3>. QED  BY <1>1, <3>1, MinOfNats
  <2>2. CASE k = 0
    <3>1. SubSeq(q, 1, 0) = <<>>
      OBVIOUS
    <3>2. KeysUpTo(<<>>, 0) = {}
      BY DEF KeysUpTo
    <3>3. PICK none \in Seq(Steps) : none = <<>> /\ Len(none) = 0
      <4>1. <<>> \in Seq(Steps) /\ Len(<<>>) = 0
        OBVIOUS
      <4>. QED  BY <4>1
    <3>4. Cardinality(KeysUpTo(none, Len(none))) = 0
      BY <3>2, <3>3, FS_EmptySet
    <3>5. Len(Parts(none)) = 0 /\ \E T : Parts(none) \in Seq(T)
      BY <3>4, PartsLength
    <3>6. Parts(none) = <<>>
      BY <3>5
    <3>7. P(0) = <<>>
      BY <3>1, <3>3, <3>6
    <3> HIDE DEF P
    <3>8. P(0) \in Seq(STRING)
      <4>1. <<>> \in Seq(STRING)
        OBVIOUS
      <4>. QED  BY <3>7, <4>1
    <3>9. IsPrefix(P(0), P(0))
      BY <3>8, PrefixOrder
    <3>10. Good(0)
      BY <3>8, <3>9
    <3>. QED  BY <2>1, <2>2, <3>10
  <2>3. CASE k # 0
    <3>1. PICK j \in Nat : k = j + 1
      BY <2>3
    <3>2. j \in 0..Len(q) /\ j < k /\ k \in 1..Len(q)
      BY <3>1
    <3>3. Good(j)
      BY <2>1, <3>2
    <3>4. PICK s \in Steps : s = q[k]
      BY <3>2
    <3>5. SubSeq(q, 1, k) = Append(SubSeq(q, 1, j), s) /\ SubSeq(q, 1, j) \in Seq(Steps)
      BY <3>1, <3>2, <3>4
    <3>6. P(k) = IF s[2] = 0 THEN Append(P(j), s[1]) ELSE P(j)
      BY <3>5, PartsOfAppend
    <3> HIDE DEF P
    <3>7. s[1] \in STRING
      BY StepParts
    <3>8. P(k) \in Seq(STRING) /\ IsPrefix(P(j), P(k))
      <4>1. P(j) \in Seq(STRING)
        BY <3>3
      <4>2. IsPrefix(P(j), P(j)) /\ IsPrefix(P(j), Append(P(j), s[1]))
        BY <3>7, <4>1, PrefixOrder, PrefixOfAppend DEF IsStrictPrefix
      <4>3. Append(P(j), s[1]) \in Seq(STRING)
        BY <3>7, <4>1
      <4>4. CASE s[2] = 0
        BY <3>6, <4>2, <4>3, <4>4
      <4>5. CASE s[2] # 0
        BY <3>6, <4>1, <4>2, <4>5
      <4>. QED  BY <4>4, <4>5
    <3>9. ASSUME NEW m \in 0..k PROVE IsPrefix(P(m), P(k))
      <4>1. CASE m = k
        BY <3>8, <4>1, PrefixOrder
      <4>2. CASE m # k
        <5>1. m \in 0..j
          BY <3>1, <4>2
        <5>2. IsPrefix(P(m), P(j))
          BY <3>3, <5>1
        <5>3. m \in bad \/ Good(m)
          BY <3>2, <5>1
        <5>4. P(m) \in Seq(STRING)
          BY <2>1, <3>2, <5>1, <5>3
        <5>. QED  BY <3>3, <3>8, <5>2, <5>4, PrefixOrder
      <4>. QED  BY <4>1, <4>2
    <3>10. Good(k)
      BY <3>8, <3>9
    <3>. QED  BY <2>1, <3>10
  <2>. QED  BY <2>2, <2>3
<1>. QED  BY <1>1

LEMMA PartsArePrefix ==
  ASSUME NEW p \in Seq(Steps), NEW q \in Seq(Steps), IsPrefix(p, q)
  PROVE  Parts(p) \in Seq(STRING) /\ Parts(q) \in Seq(STRING) /\ IsPrefix(Parts(p), Parts(q))
<1>1. Len(p) \in 0..Len(q) /\ \A i \in 1..Len(p) : p[i] = q[i]
  BY PrefixPointwise
<1>2. SubSeq(q, 1, Len(p)) = p
  BY <1>1
<1>3. SubSeq(q, 1, Len(q)) = q /\ Len(q) \in 0..Len(q)
  OBVIOUS
<1>4. Len(p) \in 0..Len(p) /\ SubSeq(p, 1, Len(p)) = p
  OBVIOUS
<1>. QED  BY <1>1, <1>2, <1>3, <1>4, PartsOfPrefix

\* What is in an object has the parts of the object, and a key more.
LEMMA PartsInObject ==
  ASSUME NEW doc, IsTree(doc), NEW p \in DOMAIN doc, doc[p].kind = "object",
         NEW q \in DOMAIN doc, IsStrictPrefix(p, q)
  PROVE  /\ Parts(p) \in Seq(STRING) /\ Parts(q) \in Seq(STRING)
         /\ \E k \in STRING : /\ Field(p, k) \in DOMAIN doc /\ IsPrefix(Field(p, k), q)
                              /\ Field(p, k) \in Seq(Steps) /\ Front(Field(p, k)) = p
                              /\ Parts(Field(p, k)) = Append(Parts(p), k)
                              /\ IsPrefix(Append(Parts(p), k), Parts(q))
         /\ IsStrictPrefix(Parts(p), Parts(q))
<1>1. p \in Seq(Steps) /\ q \in Seq(Steps) /\ IsPrefix(p, q)
  BY DEF IsTree, IsStrictPrefix
<1>2. p \in Seq(Marks) /\ q \in Seq(Marks)
  BY TreePaths
<1>3. PICK r \in Children(doc, p) : IsPrefix(r, q)
  BY <1>2, ChildTowards
<1>4. r \in DOMAIN doc /\ r # <<>> /\ Front(r) = p /\ r \in Seq(Steps) /\ Last(r)[2] = 0
  BY <1>3 DEF Children, IsTree
<1>5. Last(r) \in Steps /\ r = Append(p, Last(r))
  BY <1>4, SplitLast
<1>6. PICK s \in Steps : s = Last(r)
  BY <1>5
<1>7. s[1] \in STRING /\ s = Key(s[1])
  BY <1>4, <1>6, StepParts
<1>8. PICK k \in STRING : s = Key(k) /\ k = s[1]
  BY <1>7
<1>9. r = Field(p, k)
  BY <1>5, <1>6, <1>8 DEF Field
<1>10. Parts(r) = Append(Parts(p), k)
  BY <1>1, <1>4, <1>5, <1>6, <1>8, PartsOfAppend
<1>11. Parts(p) \in Seq(STRING) /\ Parts(q) \in Seq(STRING) /\ IsPrefix(Parts(r), Parts(q))
       /\ Parts(r) \in Seq(STRING)
  BY <1>1, <1>3, <1>4, PartsArePrefix
<1>12. IsStrictPrefix(Parts(p), Parts(q))
  <2>1. IsStrictPrefix(Parts(p), Parts(r)) /\ Len(Parts(p)) < Len(Parts(r))
    BY <1>10, <1>11, PrefixOfAppend, AppendEnds
  <2>2. Len(Parts(r)) <= Len(Parts(q))
    BY <1>11, PrefixPointwise
  <2>3. IsPrefix(Parts(p), Parts(q))
    BY <1>11, <2>1, PrefixOrder DEF IsStrictPrefix
  <2>4. Len(Parts(p)) < Len(Parts(q))
    BY <1>11, <2>1, <2>2
  <2>. QED  BY <1>11, <2>3, <2>4, StrictIsShorter
<1>. QED  BY <1>3, <1>4, <1>9, <1>10, <1>11, <1>12

-----------------------------------------------------------------------------
(* Names after parts *)

LEMMA ConcatPoints ==
  ASSUME NEW S, NEW a \in Seq(S), NEW b \in Seq(S)
  PROVE  /\ a \o b \in Seq(S) /\ Len(a \o b) = Len(a) + Len(b)
         /\ \A i \in 1..Len(a) : (a \o b)[i] = a[i]
         /\ \A i \in 1..Len(b) : (a \o b)[Len(a) + i] = b[i]
OBVIOUS

LEMMA PrefixOfConcat ==
  ASSUME NEW S, NEW a \in Seq(S), NEW b \in Seq(S), NEW c \in Seq(S)
  PROVE  /\ IsPrefix(a, a \o b)
         /\ IsPrefix(a \o b, a \o c) <=> IsPrefix(b, c)
         /\ IsStrictPrefix(a \o b, a \o c) <=> IsStrictPrefix(b, c)
<1> DEFINE ab == a \o b
           ac == a \o c
<1>1. /\ ab \in Seq(S) /\ Len(ab) = Len(a) + Len(b)
      /\ \A i \in 1..Len(a) : ab[i] = a[i]
      /\ \A i \in 1..Len(b) : ab[Len(a) + i] = b[i]
  BY ConcatPoints
<1>2. /\ ac \in Seq(S) /\ Len(ac) = Len(a) + Len(c)
      /\ \A i \in 1..Len(a) : ac[i] = a[i]
      /\ \A i \in 1..Len(c) : ac[Len(a) + i] = c[i]
  BY ConcatPoints
<1> HIDE DEF ab, ac
<1>3. IsPrefix(a, ab)
  BY <1>1, PrefixPointwise
<1>4. ASSUME IsPrefix(ab, ac) PROVE IsPrefix(b, c)
  <2>1. Len(ab) <= Len(ac) /\ \A i \in 1..Len(ab) : ab[i] = ac[i]
    <3>1. ab \in Seq(S) /\ ac \in Seq(S)
      BY <1>1, <1>2
    <3>. QED  BY <3>1, <1>4, PrefixPointwise
  <2>2. ASSUME NEW i \in 1..Len(b) PROVE b[i] = c[i]
    <3>1. PICK j \in Nat : j = Len(a) + i
      OBVIOUS
    <3>2. j \in 1..Len(ab) /\ i \in 1..Len(c)
      BY <1>1, <1>2, <2>1, <3>1
    <3>3. ab[j] = b[i] /\ ac[j] = c[i]
      BY <1>1, <1>2, <3>1, <3>2
    <3>. QED  BY <2>1, <3>2, <3>3
  <2>. QED  BY <1>1, <1>2, <2>1, <2>2, PrefixPointwise
<1>5. ASSUME IsPrefix(b, c) PROVE IsPrefix(ab, ac)
  <2>1. Len(b) <= Len(c) /\ \A i \in 1..Len(b) : b[i] = c[i]
    BY <1>5, PrefixPointwise
  <2>2. ASSUME NEW j \in 1..Len(ab) PROVE ab[j] = ac[j]
    <3>1. CASE j <= Len(a)
      BY <1>1, <1>2, <3>1
    <3>2. CASE j > Len(a)
      <4>1. PICK i \in Nat : j = Len(a) + i
        <5>1. j - Len(a) \in Nat /\ j = Len(a) + (j - Len(a))
          BY <3>2
        <5>. QED  BY <5>1
      <4>2. i \in 1..Len(b) /\ i \in 1..Len(c)
        BY <1>1, <2>1, <3>2, <4>1
      <4>3. ab[j] = b[i] /\ ac[j] = c[i]
        BY <1>1, <1>2, <4>1, <4>2
      <4>. QED  BY <2>1, <4>2, <4>3
    <3>. QED  BY <3>1, <3>2
  <2>3. ab \in Seq(S) /\ ac \in Seq(S) /\ Len(ab) <= Len(ac)
    BY <1>1, <1>2, <2>1
  <2>. QED  BY <2>2, <2>3, PrefixPointwise
<1>6. IsStrictPrefix(ab, ac) <=> IsStrictPrefix(b, c)
  BY <1>1, <1>2, <1>4, <1>5, StrictIsShorter
<1>. QED  BY <1>3, <1>4, <1>5, <1>6 DEF ab, ac

LEMMA ConcatEmpty ==
  ASSUME NEW S, NEW a \in Seq(S)
  PROVE  <<>> \o a = a /\ a \o <<>> = a
OBVIOUS

\* The rest of a name, after the parts to some place within it.
LEMMA RestOfName ==
  ASSUME NEW S, NEW under \in Seq(S), NEW a \in Seq(S), NEW b \in Seq(S),
         IsPrefix(a, under), IsStrictPrefix(under, a \o b)
  PROVE  LET i == Len(under) - Len(a) + 1
         IN /\ i \in 1..Len(b)
            /\ (a \o b)[Len(under) + 1] = b[i]
            /\ a \o b = under \o SubSeq(b, i, Len(b))
<1> DEFINE ab == a \o b
<1>1. /\ ab \in Seq(S) /\ Len(ab) = Len(a) + Len(b)
      /\ \A i \in 1..Len(a) : ab[i] = a[i]
      /\ \A i \in 1..Len(b) : ab[Len(a) + i] = b[i]
  BY ConcatPoints
<1> HIDE DEF ab
<1>2. Len(a) <= Len(under) /\ \A i \in 1..Len(a) : a[i] = under[i]
  BY PrefixPointwise
<1>3. Len(under) < Len(ab) /\ \A i \in 1..Len(under) : under[i] = ab[i]
  <2>1. ab \in Seq(S) /\ IsStrictPrefix(under, ab)
    BY <1>1 DEF ab
  <2>2. IsPrefix(under, ab) /\ Len(under) < Len(ab)
    BY <2>1, StrictIsShorter
  <2>. QED  BY <2>1, <2>2, PrefixPointwise
<1>4. PICK n \in Nat : Len(under) = Len(a) + n
  <2>1. Len(under) - Len(a) \in Nat /\ Len(under) = Len(a) + (Len(under) - Len(a))
    BY <1>2
  <2>. QED  BY <2>1
<1>5. n + 1 \in 1..Len(b) /\ Len(under) - Len(a) + 1 = n + 1 /\ Len(under) + 1 = Len(a) + (n + 1)
  BY <1>1, <1>3, <1>4
<1>6. ab[Len(under) + 1] = b[n + 1]
  BY <1>1, <1>5
<1> DEFINE rest == SubSeq(b, n + 1, Len(b))
<1>7. rest \in Seq(S) /\ Len(rest) = Len(b) - n /\ \A j \in 1..(Len(b) - n) : rest[j] = b[n + j]
  BY <1>5
<1> HIDE DEF rest
<1> DEFINE whole == under \o rest
<1>8. /\ whole \in Seq(S) /\ Len(whole) = Len(under) + Len(rest)
      /\ \A i \in 1..Len(under) : whole[i] = under[i]
      /\ \A i \in 1..Len(rest) : whole[Len(under) + i] = rest[i]
  <2>1. rest \in Seq(S)
    BY <1>7
  <2>. QED  BY <2>1, ConcatPoints
<1> HIDE DEF whole
<1>9. ASSUME NEW j \in 1..Len(ab) PROVE whole[j] = ab[j]
  <2>1. CASE j <= Len(under)
    BY <1>3, <1>8, <2>1
  <2>2. CASE j > Len(under)
    <3>1. PICK i \in Nat : j = Len(under) + i
      <4>1. j - Len(under) \in Nat /\ j = Len(under) + (j - Len(under))
        BY <2>2
      <4>. QED  BY <4>1
    <3>2. i \in 1..Len(rest) /\ n + i \in 1..Len(b) /\ j = Len(a) + (n + i)
      BY <1>1, <1>4, <1>5, <1>7, <2>2, <3>1
    <3>3. whole[j] = b[n + i] /\ ab[j] = b[n + i]
      BY <1>1, <1>7, <1>8, <3>1, <3>2
    <3>. QED  BY <3>3
  <2>. QED  BY <2>1, <2>2
<1>10. Len(whole) = Len(ab)
  BY <1>1, <1>4, <1>5, <1>7, <1>8
<1>11. whole = ab
  BY <1>1, <1>8, <1>9, <1>10
<1>. QED  BY <1>5, <1>6, <1>11 DEF ab, rest, whole

-----------------------------------------------------------------------------
(* The calls are a stack *)

LEMMA NotAfterChild ==
  ASSUME NEW v \in Seq(Steps), NEW path \in Seq(Steps), NEW s \in Steps
  PROVE  /\ NotAfter(v, path) /\ ~ IsPrefix(path, v) => NotAfter(v, Append(path, s))
         /\ NotAfter(path, Append(path, s))
<1> DEFINE q == Append(path, s)
<1>1. q \in Seq(Steps) /\ Len(q) = Len(path) + 1 /\ \A i \in 1..Len(path) : q[i] = path[i]
  OBVIOUS
<1> HIDE DEF q
<1>2. \A i \in 1..Len(path) : path[i][2] \in Nat
  BY StepParts
<1>3. NotAfter(path, q)
  BY <1>1, <1>2 DEF NotAfter
<1>4. ASSUME NotAfter(v, path), ~ IsPrefix(path, v),
             NEW i \in DOMAIN v \cap DOMAIN q, \A j \in 1..(i - 1) : v[j] = q[j]
      PROVE  v[i][2] <= q[i][2]
  <2>1. CASE i <= Len(path)
    <3>1. i \in DOMAIN v \cap DOMAIN path /\ q[i] = path[i]
      BY <1>1, <1>4, <2>1
    <3>2. \A j \in 1..(i - 1) : v[j] = path[j]
      BY <1>1, <1>4, <3>1
    <3>. QED  BY <1>4, <3>1, <3>2 DEF NotAfter
  <2>2. CASE i > Len(path)
    <3>1. i = Len(path) + 1 /\ Len(path) <= Len(v)
      BY <1>1, <1>4, <2>2
    <3>2. \A j \in 1..Len(path) : path[j] = v[j]
      BY <1>1, <1>4, <3>1
    <3>. QED  BY <1>4, <3>1, <3>2, PrefixPointwise
  <2>. QED  BY <1>1, <2>1, <2>2
<1>5. NotAfter(v, path) /\ ~ IsPrefix(path, v) => NotAfter(v, q)
  BY <1>4 DEF NotAfter
<1>. QED  BY <1>3, <1>5 DEF q

LEMMA BesideIsLater ==
  ASSUME NEW c \in Seq(Steps), NEW d \in Seq(Steps), Len(d) <= Len(c), Beside(d, c),
         Len(d) = Len(c) => Last(c)[2] <= Last(d)[2]
  PROVE  /\ NotAfter(c, d)
         /\ c[Len(d)][2] <= Last(d)[2]
         /\ \A v \in Seq(Steps) : IsStrictPrefix(v, d) => IsPrefix(v, c)
<1>1. d # <<>> /\ IsPrefix(Front(d), c)
  BY DEF Beside
<1>2. Front(d) \in Seq(Steps) /\ Last(d) \in Steps /\ Len(Front(d)) = Len(d) - 1
      /\ d = Append(Front(d), Last(d)) /\ Len(d) >= 1
  BY <1>1, SplitLast
<1>3. \A i \in 1..(Len(d) - 1) : Front(d)[i] = c[i] /\ Front(d)[i] = d[i]
  <2>1. \A i \in 1..(Len(d) - 1) : Front(d)[i] = c[i]
    BY <1>1, <1>2, PrefixPointwise
  <2>2. \A i \in 1..(Len(d) - 1) : Front(d)[i] = d[i]
    BY DEF Front
  <2>. QED  BY <2>1, <2>2
<1>4. Last(d) = d[Len(d)] /\ Last(c) = c[Len(c)]
  BY DEF Last
<1>5. c[Len(d)][2] <= Last(d)[2]
  <2>1. CASE Len(d) < Len(c)
    BY <2>1 DEF Beside
  <2>2. CASE Len(d) = Len(c)
    BY <1>4, <2>2
  <2>. QED  BY <2>1, <2>2
<1>6. NotAfter(c, d)
  <2>1. ASSUME NEW i \in DOMAIN c \cap DOMAIN d PROVE c[i][2] <= d[i][2]
    <3>1. CASE i = Len(d)
      BY <1>4, <1>5, <3>1
    <3>2. CASE i # Len(d)
      <4>1. i \in 1..(Len(d) - 1) /\ d[i] \in Steps
        BY <2>1, <3>2
      <4>2. c[i] = d[i] /\ d[i][2] \in Nat
        BY <1>3, <4>1, StepParts
      <4>. QED  BY <4>2
    <3>. QED  BY <3>1, <3>2
  <2>. QED  BY <2>1 DEF NotAfter
<1>7. ASSUME NEW v \in Seq(Steps), IsStrictPrefix(v, d) PROVE IsPrefix(v, c)
  <2>1. PICK f \in Seq(Steps), s \in Steps : f = Front(d) /\ s = Last(d)
    BY <1>2
  <2>2. IsStrictPrefix(v, Append(f, s)) <=> IsPrefix(v, f)
    BY PrefixOfAppend
  <2>3. IsPrefix(v, f) /\ IsPrefix(f, c)
    BY <1>1, <1>2, <1>7, <2>1, <2>2
  <2>. QED  BY <2>3, PrefixOrder
<1>. QED  BY <1>5, <1>6, <1>7

LEMMA StackStays ==
  ASSUME NEW doc, IsTree(doc), NEW C, Stack(C), \A d \in C : d.at \in DOMAIN doc,
         NEW c \in C,
         \A d \in C : /\ Len(d.at) <= Len(c.at)
                      /\ c.at # <<>> /\ Len(d.at) = Len(c.at) => Last(c.at)[2] <= Last(d.at)[2],
         NEW new, \A x \in new : x.at \in Children(doc, c.at),
         \A x \in new, y \in new : x.at = y.at => x = y
  PROVE  LET after == (C \ {c}) \cup new
         IN /\ Stack(after)
            /\ Past(after, c.at)
            /\ \A v \in Seq(Steps) : Past(C, v) => Past(after, v)
            /\ \A v \in Seq(Steps), d \in after :
                 IsStrictPrefix(v, d.at) => v = c.at \/ IsStrictPrefix(v, c.at)
<1> DEFINE after == (C \ {c}) \cup new
<1>1. \A d \in C : d.at \in Seq(Steps)
  BY DEF IsTree
<1>2. ASSUME NEW x \in new
      PROVE  /\ x.at \in Seq(Steps) /\ Len(x.at) = Len(c.at) + 1 /\ x.at # <<>>
             /\ Front(x.at) = c.at
             /\ Last(x.at) \in Steps /\ x.at = Append(c.at, Last(x.at))
             /\ IsStrictPrefix(c.at, x.at) /\ IsPrefix(c.at, x.at)
             /\ \A r \in Seq(Steps) : IsStrictPrefix(r, x.at) <=> IsPrefix(r, c.at)
             /\ \A i \in 1..Len(c.at) : x.at[i] = c.at[i]
  <2>1. x.at \in Seq(Steps) /\ x.at # <<>> /\ Front(x.at) = c.at
    BY DEF Children, IsTree
  <2>2. PICK s \in Steps : s = Last(x.at) /\ x.at = Append(c.at, s)
    BY <2>1, SplitLast
  <2>3. \A r \in Seq(Steps) : IsStrictPrefix(r, Append(c.at, s)) <=> IsPrefix(r, c.at)
    BY <1>1, PrefixOfAppend
  <2>4. IsStrictPrefix(c.at, Append(c.at, s)) /\ Len(Append(c.at, s)) = Len(c.at) + 1
        /\ \A i \in 1..Len(c.at) : Append(c.at, s)[i] = c.at[i]
    BY <1>1, PrefixOfAppend
  <2>. QED  BY <2>1, <2>2, <2>3, <2>4 DEF IsStrictPrefix
<1>3. Apart(C) /\ \A a \in C, b \in C : a # b /\ Len(b.at) <= Len(a.at) => Beside(b.at, a.at)
  BY DEF Stack
<1>4. Apart(after)
  BY <1>3, CallsStayApart
<1>5. ASSUME NEW d \in C, d # c
      PROVE  /\ Beside(d.at, c.at) /\ NotAfter(c.at, d.at) /\ Len(d.at) <= Len(c.at)
             /\ d.at # <<>> /\ Len(d.at) \in 1..Len(c.at)
             /\ c.at[Len(d.at)][2] <= Last(d.at)[2]
             /\ ~ IsPrefix(d.at, c.at) /\ ~ IsPrefix(c.at, d.at)
             /\ \A v \in Seq(Steps) : IsStrictPrefix(v, d.at) => IsPrefix(v, c.at)
  <2>1. Beside(d.at, c.at) /\ Len(d.at) <= Len(c.at) /\ d.at # <<>>
    BY <1>3, <1>5 DEF Beside
  <2>2. Len(d.at) \in 1..Len(c.at) /\ c.at # <<>>
    BY <1>1, <2>1
  <2>3. Len(d.at) = Len(c.at) => Last(c.at)[2] <= Last(d.at)[2]
    BY <2>2
  <2>4. ~ IsPrefix(d.at, c.at) /\ ~ IsPrefix(c.at, d.at)
    BY <1>3, <1>5 DEF Apart
  <2>. QED  BY <1>1, <2>1, <2>2, <2>3, <2>4, BesideIsLater
<1>6. ASSUME NEW a \in after, NEW b \in after, a # b, Len(b.at) <= Len(a.at)
      PROVE  Beside(b.at, a.at)
  <2>1. CASE a \in C \ {c} /\ b \in C \ {c}
    BY <1>3, <1>6, <2>1
  <2>2. CASE a \in new /\ b \in new
    BY <1>1, <1>2, <2>2 DEF Beside
  <2>3. CASE a \in C \ {c} /\ b \in new
    <3>1. Len(a.at) <= Len(c.at) /\ Len(b.at) = Len(c.at) + 1
      BY <1>2, <2>3
    <3>. QED  BY <1>1, <1>6, <2>3, <3>1
  <2>4. CASE a \in new /\ b \in C \ {c}
    <3>1. /\ b.at # <<>> /\ IsPrefix(Front(b.at), c.at)
          /\ c.at[Len(b.at)][2] <= Last(b.at)[2]
          /\ Len(b.at) \in 1..Len(c.at)
      BY <1>5, <2>4 DEF Beside
    <3>2. Front(b.at) \in Seq(Steps)
      BY <1>1, <2>4, <3>1, SplitLast
    <3>3. IsPrefix(Front(b.at), a.at)
      BY <1>1, <1>2, <2>4, <3>1, <3>2, PrefixOrder
    <3>4. a.at[Len(b.at)] = c.at[Len(b.at)]
      BY <1>2, <2>4, <3>1
    <3>. QED  BY <3>1, <3>3, <3>4 DEF Beside
  <2>. QED  BY <2>1, <2>2, <2>3, <2>4
<1>7. ASSUME NEW d \in after PROVE ~ IsPrefix(d.at, c.at) /\ NotAfter(c.at, d.at)
  <2>1. CASE d \in C \ {c}
    BY <1>5, <2>1
  <2>2. CASE d \in new
    <3>1. Len(d.at) = Len(c.at) + 1 /\ d.at = Append(c.at, Last(d.at)) /\ Last(d.at) \in Steps
          /\ d.at \in Seq(Steps)
      BY <1>2, <2>2
    <3>2. ~ IsPrefix(d.at, c.at)
      BY <1>1, <3>1, PrefixPointwise
    <3>3. NotAfter(c.at, d.at)
      <4>1. PICK s \in Steps : d.at = Append(c.at, s)
        BY <3>1
      <4>2. NotAfter(c.at, Append(c.at, s))
        BY <1>1, NotAfterChild
      <4>. QED  BY <4>1, <4>2
    <3>. QED  BY <3>2, <3>3
  <2>. QED  BY <2>1, <2>2
<1>8. ASSUME NEW v \in Seq(Steps), Past(C, v), NEW d \in after
      PROVE  ~ IsPrefix(d.at, v) /\ NotAfter(v, d.at)
  <2>1. CASE d \in C \ {c}
    BY <1>8, <2>1 DEF Past
  <2>2. CASE d \in new
    <3>1. ~ IsPrefix(c.at, v) /\ NotAfter(v, c.at)
      BY <1>8 DEF Past
    <3>2. d.at = Append(c.at, Last(d.at)) /\ Last(d.at) \in Steps /\ IsPrefix(c.at, d.at)
          /\ d.at \in Seq(Steps)
      BY <1>2, <2>2
    <3>3. ~ IsPrefix(d.at, v)
      BY <1>1, <3>1, <3>2, PrefixOrder
    <3>4. NotAfter(v, d.at)
      BY <1>1, <3>1, <3>2, NotAfterChild
    <3>. QED  BY <3>3, <3>4
  <2>. QED  BY <2>1, <2>2
<1>9. ASSUME NEW v \in Seq(Steps), NEW d \in after, IsStrictPrefix(v, d.at)
      PROVE  v = c.at \/ IsStrictPrefix(v, c.at)
  <2>1. IsPrefix(v, c.at)
    <3>1. CASE d \in C \ {c}
      BY <1>5, <1>9, <3>1
    <3>2. CASE d \in new
      BY <1>2, <1>9, <3>2
    <3>. QED  BY <3>1, <3>2
  <2>. QED  BY <2>1 DEF IsStrictPrefix
<1>. QED  BY <1>4, <1>6, <1>7, <1>8, <1>9 DEF Stack, Past

-----------------------------------------------------------------------------
(* What a step leaves as it is *)

LEMMA RequestStays ==
  ASSUME req' = req, original' = original
  PROVE  /\ FieldNames' = FieldNames /\ TypeNames' = TypeNames /\ NullsRoot' = NullsRoot
         /\ \A v : HasOwn(v)' <=> HasOwn(v)
         /\ \A v : Own(v)' = Own(v)
         /\ \A p : MayBeNull(p)' <=> MayBeNull(p)
<1>1. FieldNames' = FieldNames /\ TypeNames' = TypeNames /\ NullsRoot' = NullsRoot
  BY DEF FieldNames, TypeNames, NullsRoot
<1>2. \A v : HasOwn(v)' <=> HasOwn(v)
  BY <1>1 DEF HasOwn
<1>3. \A v : Own(v)' = Own(v)
  BY <1>1 DEF Own
<1>4. \A p : MayBeNull(p)' <=> MayBeNull(p)
  BY <1>1, <1>2, <1>3 DEF MayBeNull
<1>. QED  BY <1>1, <1>2, <1>3, <1>4

\* Only the answers of the residence history have types, and there the names
\* are those of the files and the walk starts at the top.
LEMMA OnlyResidencesAreTyped ==
  ASSUME DOMAIN TypeNames # {}
  PROVE  /\ req.view = "verblijfplaatshistorie"
         /\ TypeNames = TypeFields /\ FieldNames = BaseFields /\ NullsRoot = <<>>
         /\ Parts(NullsRoot) = <<>>
<1>1. DOMAIN <<>> = {}
  OBVIOUS
<1>2. req.view = "verblijfplaatshistorie" /\ TypeNames = TypeFields
  BY <1>1 DEF TypeNames
<1>3. FieldNames = BaseFields /\ NullsRoot = <<>>
  BY <1>2 DEF FieldNames, NullsRoot
<1>4. Parts(<<>>) = <<>>
  <2>1. PICK none \in Seq(Steps) : none = <<>> /\ Len(none) = 0
    <3>1. <<>> \in Seq(Steps) /\ Len(<<>>) = 0
      OBVIOUS
    <3>. QED  BY <3>1
  <2>2. KeysUpTo(none, Len(none)) = {}
    BY <2>1 DEF KeysUpTo
  <2>3. Len(Parts(none)) = 0 /\ \E T : Parts(none) \in Seq(T)
    BY <2>2, PartsLength, FS_EmptySet
  <2>. QED  BY <2>1, <2>3
<1>. QED  BY <1>2, <1>3, <1>4

LEMMA TypedFacts ==
  ASSUME IInv, NEW v \in DOMAIN original, HasOwn(v)
  PROVE  /\ IsTyped(TypeNames, original, v)
         /\ original[v].kind = "object" /\ v \in Seq(Steps) /\ Parts(v) \in Seq(STRING)
         /\ DOMAIN TypeNames # {}
         /\ TypeAt(original, v) \in DOMAIN TypeFields /\ Own(v) = TypeFields[TypeAt(original, v)]
         /\ \A own \in Own(v) : own \in Seq(STRING) /\ own # <<>>
<1>1. IsTree(original)
  BY OriginFacts DEF IInv, DocumentInv
<1>2. v \in Seq(Steps) /\ Parts(v) \in Seq(STRING)
  <2>1. v \in Seq(Steps)
    BY <1>1 DEF IsTree
  <2>. QED  BY <2>1, PrefixOrder, PartsArePrefix
<1>3. IsTyped(TypeNames, original, v) /\ TypeAt(original, v) \in DOMAIN TypeNames
      /\ Field(v, "type") \in DOMAIN original
  BY DEF HasOwn, IsTyped
<1>4. TypeNames = TypeFields
  BY <1>3, OnlyResidencesAreTyped
<1>5. original[v].kind = "object"
  <2>1. v \in Seq(Marks) /\ Key("type") \in Marks
    BY <1>1, TreePaths DEF Marks
  <2>2. Field(v, "type") # <<>> /\ Front(Field(v, "type")) = v /\ Last(Field(v, "type")) = Key("type")
    BY <2>1, AppendEnds DEF Field
  <2>3. Key("type")[2] = 0
    BY DEF Key
  <2>. QED  BY <1>1, <1>3, <2>2, <2>3 DEF IsTree
<1>6. \A own \in Own(v) : own \in Seq(STRING) /\ own # <<>>
  BY <1>3, <1>4, NamesAssumption DEF Own, IsName
<1>. QED  BY <1>2, <1>3, <1>4, <1>5, <1>6 DEF Own

\* What an answer with the same shape and no more calls is promised is as before.
LEMMA ReachedStays ==
  ASSUME req' = req, original' = original, DOMAIN answer' = DOMAIN answer,
         \A p \in DOMAIN answer : answer'[p].kind = answer[p].kind
  PROVE  /\ \A from, parts : Reached(from, parts)' = Reached(from, parts)
         /\ Visited' = Visited
<1>1. \A from, parts : Reached(from, parts)' = Reached(from, parts)
  BY DEF Reached
<1>2. Visited' = Visited
  BY <1>1, RequestStays DEF Visited
<1>. QED  BY <1>1, <1>2

LEMMA VisitedFacts ==
  ASSUME IInv, NEW v \in Visited
  PROVE  /\ v \in DOMAIN answer /\ answer[v].kind = "object" /\ v \in Seq(Steps)
         /\ IsPrefix(NullsRoot, v)
         /\ \E name \in FieldNames : \E i \in DOMAIN name :
              Parts(v) = Parts(NullsRoot) \o SubSeq(name, 1, i - 1)
<1>1. \E name \in FieldNames : \E i \in DOMAIN name : v \in Reached(NullsRoot, SubSeq(name, 1, i - 1))
  BY DEF Visited
<1>. QED  BY <1>1 DEF Reached, IInv, DocumentInv, IsTree

-----------------------------------------------------------------------------
(* The names at hand *)

\* An object at which the walk arrives says the type it came with.
LEMMA TypeAsItCame ==
  ASSUME IInv, AddedInv, pc = "nulls", NEW call \in calls
  PROVE  /\ IsTyped(TypeNames, answer, call.at) <=> IsTyped(TypeNames, original, call.at)
         /\ IsTyped(TypeNames, answer, call.at) =>
              TypeAt(answer, call.at) = TypeAt(original, call.at) /\ call.at \in DOMAIN original
<1> DEFINE t == Field(call.at, "type")
<1>1. call.at \in DOMAIN answer /\ call.at \in Seq(Marks) /\ Key("type") \in Marks
  BY TreePaths DEF IInv, DocumentInv, Marks
<1>2. /\ t # <<>> /\ Front(t) = call.at /\ Last(t) = Key("type")
      /\ IsStrictPrefix(call.at, t)
  BY <1>1, AppendEnds, PrefixOfAppend DEF Field
<1>3. t \in DOMAIN answer => t \in DOMAIN original
  <2>1. ASSUME t \in DOMAIN answer \ DOMAIN original PROVE FALSE
    <3>1. Pending(calls, t)
      BY <1>2 DEF Pending
    <3>. QED  BY <2>1, <3>1 DEF AddedInv
  <2>. QED  BY <2>1
<1>4. t \in DOMAIN original => t \in DOMAIN answer /\ answer[t].text = original[t].text
  <2>1. ASSUME t \in DOMAIN original PROVE answer[t].text = original[t].text
    <3>1. CASE original[t].sort # "link"
      BY <2>1, <3>1 DEF IInv, KeptInv
    <3>2. CASE original[t].sort = "link"
      <4>1. ~ LeadsToProxy(t)
        BY <1>2, KeysDiffer DEF LeadsToProxy
      <4>. QED  BY <2>1, <3>2, <4>1 DEF IInv, LinksInv
    <3>. QED  BY <3>1, <3>2
  <2>. QED  BY <2>1 DEF IInv, KeptInv
<1>5. t \in DOMAIN original => call.at \in DOMAIN original
  <2>1. ASSUME t \in DOMAIN original PROVE call.at \in DOMAIN original
    <3>1. IsTree(original)
      BY OriginFacts DEF IInv, DocumentInv
    <3>2. t \in Seq(Marks) /\ Len(t) - 1 \in 0..Len(t) /\ Front(t) = SubSeq(t, 1, Len(t) - 1)
      BY <1>2, <2>1, <3>1, TreePaths DEF Front
    <3>3. SubSeq(t, 1, Len(t) - 1) \in DOMAIN original
      BY <2>1, <3>1, <3>2 DEF IsTree
    <3>. QED  BY <1>2, <3>2, <3>3
  <2>. QED  BY <2>1
<1> HIDE DEF t
<1>. QED  BY <1>3, <1>4, <1>5 DEF IsTyped, TypeAt, t

\* A name stays when a type takes the place of others, by what the tables have.
LEMMA UpdateKeeps ==
  ASSUME NEW type \in DOMAIN TypeFields, NEW which, NEW under \in Seq(STRING),
         NEW a \in Seq(STRING), NEW b \in Seq(STRING), a \o b \in which, IsPrefix(a, under),
         LET i == Len(under) - Len(a) + 1 IN i \in 1..Len(b) => HasRest(type, b, i)
  PROVE  a \o b \in Update(which, under, TypeFields[type])
<1> DEFINE other == TypeFields[type]
           name == a \o b
<1>1. CASE ~ IsStrictPrefix(under, name)
  BY <1>1 DEF Update
<1>2. CASE IsStrictPrefix(under, name)
  <2> DEFINE i == Len(under) - Len(a) + 1
             rest == SubSeq(b, i, Len(b))
  <2>1. /\ i \in 1..Len(b) /\ name[Len(under) + 1] = b[i] /\ name = under \o rest
    BY <1>2, RestOfName
  <2>2. HasRest(type, b, i)
    BY <2>1
  <2> HIDE DEF i
  <2>3. CASE \E o \in other : o[1] = name[Len(under) + 1]
    <3>1. rest \in other
      BY <2>1, <2>2, <2>3 DEF HasRest
    <3>. QED  BY <2>1, <3>1 DEF Update
  <2>4. CASE \A o \in other : o[1] # name[Len(under) + 1]
    BY <2>4 DEF Update
  <2>. QED  BY <2>3, <2>4
<1>. QED  BY <1>1, <1>2

\* The names after a call: those of the view are among them, and all that are
\* there come from the view or from an object up to the call.
LEMMA NamesAfterObject ==
  ASSUME WalkInv, NEW call \in calls, IncludeNulls(call)
  PROVE  /\ FieldNames \subseteq names'
         /\ \A name \in names' :
              \/ name \in names
              \/ /\ call.at \in DOMAIN original /\ HasOwn(call.at)
                 /\ \E own \in Own(call.at) : name = Parts(call.at) \o own
         /\ IsTyped(TypeNames, original, call.at) =>
              /\ HasOwn(call.at)
              /\ \A own \in Own(call.at) : Parts(call.at) \o own \in names'
         /\ \A v \in DOMAIN original :
              IsTyped(TypeNames, original, v) /\ IsStrictPrefix(v, call.at) =>
                HasOwn(v) /\ \A own \in Own(v) : Parts(v) \o own \in names'
<1>1. /\ pc = "nulls" /\ answer[call.at].kind = "object"
      /\ KnowsType(TypeNames, answer, call.at)
      /\ names' = OwnNames(TypeNames, names, answer, call)
  BY DEF IncludeNulls
<1>2. /\ IInv /\ AddedInv /\ FieldNames \subseteq names
      /\ call.under \in Seq(STRING) /\ Parts(call.at) = Parts(NullsRoot) \o call.under
      /\ IsTree(original) /\ \A name \in FieldNames : name \in Seq(STRING)
  BY <1>1, OriginFacts DEF WalkInv, IInv, NullCallsInv, NamesInv, StackInv, DocumentInv, IsName
<1>3. \A v \in DOMAIN original :
        IsTyped(TypeNames, original, v) /\ IsStrictPrefix(v, call.at) =>
          HasOwn(v) /\ \A own \in Own(v) : Parts(v) \o own \in names
  BY <1>1 DEF WalkInv, NamesInv
<1>4. CASE ~ IsTyped(TypeNames, answer, call.at)
  <2>1. names' = names /\ ~ IsTyped(TypeNames, original, call.at)
    BY <1>1, <1>2, <1>4, TypeAsItCame DEF OwnNames
  <2>. QED  BY <1>2, <1>3, <2>1
<1>5. CASE IsTyped(TypeNames, answer, call.at)
  <2>1. /\ IsTyped(TypeNames, original, call.at)
        /\ TypeAt(answer, call.at) = TypeAt(original, call.at) /\ call.at \in DOMAIN original
    BY <1>1, <1>2, <1>5, TypeAsItCame
  <2>2. TypeAt(original, call.at) \in DOMAIN TypeNames
    BY <1>1, <1>5, <2>1 DEF KnowsType
  <2>3. HasOwn(call.at)
    BY <2>1, <2>2 DEF HasOwn
  <2>4. PICK type \in DOMAIN TypeFields :
          type = TypeAt(original, call.at) /\ Own(call.at) = TypeFields[type]
    BY <1>2, <2>1, <2>3, TypedFacts
  <2>5. /\ DOMAIN TypeNames # {} /\ FieldNames = BaseFields /\ Parts(NullsRoot) = <<>>
        /\ TypeNames = TypeFields
    BY <2>2, OnlyResidencesAreTyped
  <2>6. Parts(call.at) = call.under
    BY <1>2, <2>5, ConcatEmpty
  <2>7. names' = Update(names, call.under, TypeFields[type])
    BY <1>1, <1>5, <2>1, <2>4, <2>5 DEF OwnNames
  <2>8. ASSUME NEW name \in FieldNames PROVE name \in names'
    <3>1. <<>> \in Seq(STRING) /\ name \in Seq(STRING) /\ <<>> \o name = name
      BY <1>2, ConcatEmpty
    <3>2. PICK none \in Seq(STRING) : none = <<>> /\ Len(none) = 0
      BY <3>1
    <3>3. IsPrefix(none, call.under)
      <4>1. PICK u \in Seq(STRING) : u = call.under
        BY <1>2
      <4>2. Len(none) <= Len(u) /\ \A i \in 1..Len(none) : none[i] = u[i]
        BY <3>2
      <4>. QED  BY <4>1, <4>2, PrefixPointwise
    <3>4. \A i \in 1..Len(name) : HasRest(type, name, i)
      BY <2>5, TypesAssumption
    <3>5. none \o name \in names
      BY <1>2, <3>1, <3>2
    <3>6. LET i == Len(call.under) - Len(none) + 1 IN i \in 1..Len(name) => HasRest(type, name, i)
      BY <3>4
    <3>7. none \o name \in Update(names, call.under, TypeFields[type])
      BY <1>2, <3>1, <3>3, <3>5, <3>6, UpdateKeeps
    <3>. QED  BY <2>7, <3>1, <3>2, <3>7
  <2>9. ASSUME NEW name \in names', name \notin names
        PROVE  \E own \in Own(call.at) : name = Parts(call.at) \o own
    BY <2>4, <2>6, <2>7, <2>9 DEF Update
  <2>10. ASSUME NEW own \in Own(call.at) PROVE Parts(call.at) \o own \in names'
    BY <2>4, <2>6, <2>7 DEF Update
  <2>11. ASSUME NEW v \in DOMAIN original, IsTyped(TypeNames, original, v),
                IsStrictPrefix(v, call.at), NEW own \in Own(v)
         PROVE  HasOwn(v) /\ Parts(v) \o own \in names'
    <3>1. HasOwn(v) /\ Parts(v) \o own \in names
      BY <1>3, <2>11
    <3>2. /\ original[v].kind = "object" /\ Parts(v) \in Seq(STRING)
          /\ TypeAt(original, v) \in DOMAIN TypeFields
          /\ Own(v) = TypeFields[TypeAt(original, v)] /\ own \in Seq(STRING)
      BY <1>2, <2>11, <3>1, TypedFacts
    <3>3. IsStrictPrefix(Parts(v), Parts(call.at))
      BY <1>2, <2>1, <2>11, <3>2, PartsInObject
    <3>4. IsPrefix(Parts(v), call.under) /\ Len(Parts(v)) < Len(call.under)
      BY <1>2, <2>6, <3>2, <3>3, StrictIsShorter
    <3>5. \A i \in 2..Len(own) : HasRest(type, own, i)
      BY <2>11, <3>2, TypesAssumption
    <3>6. Parts(v) \o own \in Update(names, call.under, TypeFields[type])
      <4>1. PICK n \in Nat : n = Len(Parts(v))
        BY <3>2
      <4>2. LET i == Len(call.under) - n + 1 IN i \in 1..Len(own) => HasRest(type, own, i)
        <5>1. PICK m \in Nat : m = Len(call.under) /\ n < m
          BY <1>2, <3>4, <4>1
        <5>2. m - n + 1 \in 1..Len(own) => m - n + 1 \in 2..Len(own)
          BY <5>1
        <5>. QED  BY <3>5, <5>1, <5>2
      <4>. QED  BY <1>2, <3>1, <3>2, <3>4, <4>1, <4>2, UpdateKeeps
    <3>. QED  BY <2>7, <3>1, <3>6
  <2>12. \A v \in DOMAIN original :
           IsTyped(TypeNames, original, v) /\ IsStrictPrefix(v, call.at) => HasOwn(v)
    BY <1>3
  <2>. QED  BY <2>1, <2>3, <2>8, <2>9, <2>10, <2>11, <2>12
<1>. QED  BY <1>4, <1>5

-----------------------------------------------------------------------------
(* An object *)

LEMMA IncludeNullsFacts ==
  ASSUME IInv, NEW call \in calls, IncludeNulls(call)
  PROVE  LET parts == PartsBelow(names', call.under)
         IN /\ call.under \in Seq(STRING) /\ call.at \in DOMAIN answer /\ call.at \in Seq(Steps)
            /\ \A name \in names' : name \in Seq(STRING)
            /\ DOMAIN answer \subseteq DOMAIN answer'
            /\ \A p \in DOMAIN answer : answer'[p] = answer[p]
            /\ \A part \in parts : part \in STRING /\ Field(call.at, part) \in DOMAIN answer'
            /\ \A p \in DOMAIN answer' \ DOMAIN answer :
                 \E part \in parts :
                   /\ p = Field(call.at, part)
                   /\ answer'[p] = Filler(TopLevelArrayFields, names', call.under, part)
<1> DEFINE parts == PartsBelow(names', call.under)
<1>1. /\ pc = "nulls" /\ KnowsType(TypeNames, answer, call.at)
      /\ names' = OwnNames(TypeNames, names, answer, call)
      /\ answer' = WithNulls(TopLevelArrayFields, names', answer, call)
  BY DEF IncludeNulls
<1>2. IsTree(answer) /\ call.at \in DOMAIN answer /\ call.at \in Seq(Steps)
  BY DEF IInv, DocumentInv, IsTree
<1>3. /\ call.under \in Seq(STRING)
      /\ \A i \in DOMAIN call.under : call.under[i] # "burgerservicenummer"
      /\ \A name \in names : IsName(name)
  BY <1>1 DEF IInv, NullCallsInv
<1>4. \A name \in names' : IsName(name)
  BY <1>1, <1>3, OwnNamesAreNames
<1>5. \A part \in parts : part \in STRING
  BY <1>3, <1>4, PartsOfNames
<1>6. \A name \in names' : name \in Seq(STRING)
  BY <1>4 DEF IsName
<1> HIDE DEF parts
<1>7. /\ DOMAIN answer \subseteq DOMAIN answer'
      /\ \A p \in DOMAIN answer : answer'[p] = answer[p]
      /\ \A part \in parts : Field(call.at, part) \in DOMAIN answer'
      /\ \A p \in DOMAIN answer' \ DOMAIN answer :
           \E part \in parts :
             /\ p = Field(call.at, part)
             /\ answer'[p] = Filler(TopLevelArrayFields, names', call.under, part)
  BY <1>1, <1>2, <1>5, WithNullsAdds DEF parts
<1>. QED  BY <1>2, <1>3, <1>5, <1>6, <1>7 DEF parts

LEMMA FieldFacts ==
  ASSUME NEW p \in Seq(Steps), NEW k \in STRING
  PROVE  /\ Field(p, k) \in Seq(Steps) /\ Field(p, k) # <<>> /\ Front(Field(p, k)) = p
         /\ Last(Field(p, k)) = Key(k)
         /\ IsPrefix(p, Field(p, k)) /\ IsStrictPrefix(p, Field(p, k))
         /\ Parts(Field(p, k)) = Append(Parts(p), k)
         /\ Parts(p) \in Seq(STRING)
<1>1. PICK s \in Steps : s = Key(k) /\ s[1] = k /\ s[2] = 0
  <2>1. Key(k) \in Steps /\ Key(k)[1] = k /\ Key(k)[2] = 0
    BY DEF Key, Steps
  <2>. QED  BY <2>1
<1>2. /\ Append(p, s) \in Seq(Steps) /\ Append(p, s) # <<>> /\ Front(Append(p, s)) = p
      /\ Last(Append(p, s)) = s
  BY AppendEnds
<1>3. IsStrictPrefix(p, Append(p, s))
  BY PrefixOfAppend
<1>4. Parts(Append(p, s)) = Append(Parts(p), k)
  BY <1>1, PartsOfAppend
<1>5. Parts(p) \in Seq(STRING)
  BY PrefixOrder, PartsArePrefix
<1>. QED  BY <1>1, <1>2, <1>3, <1>4, <1>5 DEF Field, IsStrictPrefix

LEMMA NullCallsFacts ==
  ASSUME IInv, StackInv, NEW call \in calls, IncludeNulls(call)
  PROVE  LET new == NullCalls(names', answer', call)
         IN /\ \A x \in new : /\ x.at \in Children(answer', call.at)
                              /\ IsPrefix(NullsRoot, x.at)
                              /\ Parts(x.at) = Parts(NullsRoot) \o x.under
            /\ \A x \in new, y \in new : x.at = y.at => x = y
<1> DEFINE new == NullCalls(names', answer', call)
<1>1. /\ call.under \in Seq(STRING) /\ call.at \in Seq(Steps)
      /\ \A part \in PartsBelow(names', call.under) :
           part \in STRING /\ Field(call.at, part) \in DOMAIN answer'
  BY IncludeNullsFacts
<1>2. /\ IsPrefix(NullsRoot, call.at) /\ Parts(call.at) = Parts(NullsRoot) \o call.under
      /\ NullsRoot \in Seq(Steps)
  BY OriginFacts DEF IncludeNulls, StackInv, IInv, DocumentInv, IsTree
<1>3. Parts(NullsRoot) \in Seq(STRING)
  BY <1>1, <1>2, PartsArePrefix
<1>4. ASSUME NEW x \in new
      PROVE  \E part \in PartsBelow(names', call.under) :
               x = [at |-> Field(call.at, part), under |-> Append(call.under, part)]
  BY DEF NullCalls
<1> HIDE DEF new
<1>5. ASSUME NEW x \in new
      PROVE  /\ x.at \in Children(answer', call.at) /\ IsPrefix(NullsRoot, x.at)
             /\ Parts(x.at) = Parts(NullsRoot) \o x.under
  <2>1. PICK part \in PartsBelow(names', call.under) :
          x = [at |-> Field(call.at, part), under |-> Append(call.under, part)]
    BY <1>4
  <2>2. x.at = Field(call.at, part) /\ x.under = Append(call.under, part) /\ part \in STRING
        /\ x.at \in DOMAIN answer'
    BY <1>1, <2>1
  <2>3. /\ x.at \in Seq(Steps) /\ x.at # <<>> /\ Front(x.at) = call.at /\ IsPrefix(call.at, x.at)
        /\ Parts(x.at) = Append(Parts(call.at), part)
    BY <1>1, <2>2, FieldFacts
  <2>4. Parts(x.at) = Parts(NullsRoot) \o x.under
    <3>1. PICK a \in Seq(STRING), b \in Seq(STRING) : a = Parts(NullsRoot) /\ b = call.under
      BY <1>1, <1>3
    <3>2. PICK s \in STRING : s = part
      BY <2>2
    <3>3. Append(a \o b, s) = a \o Append(b, s)
      OBVIOUS
    <3>. QED  BY <1>2, <2>2, <2>3, <3>1, <3>2, <3>3
  <2>5. IsPrefix(NullsRoot, x.at)
    BY <1>1, <1>2, <2>3, PrefixOrder
  <2>. QED  BY <2>2, <2>3, <2>4, <2>5 DEF Children
<1>6. ASSUME NEW x \in new, NEW y \in new, x.at = y.at PROVE x = y
  <2>1. PICK i \in PartsBelow(names', call.under) :
          x = [at |-> Field(call.at, i), under |-> Append(call.under, i)]
    BY <1>4
  <2>2. PICK j \in PartsBelow(names', call.under) :
          y = [at |-> Field(call.at, j), under |-> Append(call.under, j)]
    BY <1>4
  <2>3. Last(x.at) = Key(i) /\ Last(y.at) = Key(j)
    BY <1>1, <2>1, <2>2, FieldFacts
  <2>4. i = j
    BY <1>6, <2>3, KeysDiffer
  <2>. QED  BY <2>1, <2>2, <2>4
<1>. QED  BY <1>5, <1>6 DEF new

\* A name that leads on from an object is there after the call for the object,
\* and the call for one on the way to it makes another call on the way.
LEMMA WalkGoesOn ==
  ASSUME WalkInv, NEW call \in calls, IncludeNulls(call),
         NEW p \in DOMAIN answer, answer[p].kind = "object", NEW k \in STRING,
         NEW name \in names', IsPrefix(Append(Parts(p), k), Parts(NullsRoot) \o name)
  PROVE  /\ p = call.at => Field(p, k) \in DOMAIN answer'
         /\ IsStrictPrefix(call.at, p) =>
              \E x \in NullCalls(names', answer', call) : IsPrefix(x.at, p)
<1> DEFINE root == Parts(NullsRoot)
           under == call.under
<1>1. /\ under \in Seq(STRING) /\ call.at \in DOMAIN answer /\ call.at \in Seq(Steps)
      /\ name \in Seq(STRING) /\ DOMAIN answer \subseteq DOMAIN answer'
      /\ \A q \in DOMAIN answer : answer'[q] = answer[q]
      /\ \A part \in PartsBelow(names', under) :
           part \in STRING /\ Field(call.at, part) \in DOMAIN answer'
  BY IncludeNullsFacts DEF WalkInv
<1>2. /\ IsPrefix(NullsRoot, call.at) /\ Parts(call.at) = root \o under
      /\ NullsRoot \in Seq(Steps) /\ answer[call.at].kind = "object" /\ IsTree(answer)
  BY OriginFacts DEF IncludeNulls, StackInv, WalkInv, IInv, DocumentInv, IsTree
<1>3. root \in Seq(STRING)
  BY <1>1, <1>2, PartsArePrefix
<1> HIDE DEF root, under
<1>4. ASSUME NEW i \in STRING PROVE Append(root \o under, i) = root \o Append(under, i)
  <2>1. PICK a \in Seq(STRING), b \in Seq(STRING) : a = root /\ b = under
    BY <1>1, <1>3
  <2>2. Append(a \o b, i) = a \o Append(b, i)
    OBVIOUS
  <2>. QED  BY <2>1, <2>2
<1>5. ASSUME NEW i \in STRING, IsPrefix(Append(root \o under, i), root \o name)
      PROVE  i \in PartsBelow(names', under) /\ IsPrefix(Append(under, i), name)
  <2>1. Append(root \o under, i) = root \o Append(under, i)
    BY <1>4
  <2>2. Append(under, i) \in Seq(STRING) /\ Append(under, i)[Len(under) + 1] = i
        /\ Len(Append(under, i)) = Len(under) + 1
    BY <1>1
  <2>3. IsPrefix(Append(under, i), name)
    <3>1. IsPrefix(root \o Append(under, i), root \o name)
      BY <1>5, <2>1
    <3>. QED  BY <1>1, <1>3, <2>2, <3>1, PrefixOfConcat
  <2>4. PICK longer \in Seq(STRING) : longer = Append(under, i)
    BY <2>2
  <2>5. Len(longer) <= Len(name) /\ \A j \in 1..Len(longer) : longer[j] = name[j]
    <3>1. IsPrefix(longer, name) /\ name \in Seq(STRING)
      BY <1>1, <2>3, <2>4
    <3>. QED  BY <3>1, PrefixPointwise
  <2>6. name[Len(under) + 1] = i /\ Len(under) < Len(name)
    BY <1>1, <2>2, <2>4, <2>5
  <2>7. IsPrefix(under, longer)
    BY <1>1, <2>4, PrefixOfAppend DEF IsStrictPrefix
  <2>8. IsPrefix(under, name)
    <3>1. IsPrefix(longer, name) /\ name \in Seq(STRING) /\ under \in Seq(STRING)
      BY <1>1, <2>3, <2>4
    <3>. QED  BY <2>7, <3>1, PrefixOrder
  <2>9. IsStrictPrefix(under, name)
    BY <1>1, <2>6, <2>8, StrictIsShorter
  <2>. QED  BY <2>3, <2>6, <2>9 DEF PartsBelow, Below
<1>6. ASSUME p = call.at PROVE Field(p, k) \in DOMAIN answer'
  BY <1>1, <1>2, <1>5, <1>6 DEF root, under
<1>7. ASSUME IsStrictPrefix(call.at, p)
      PROVE  \E x \in NullCalls(names', answer', call) : IsPrefix(x.at, p)
  <2>1. PICK i \in STRING :
          /\ Field(call.at, i) \in DOMAIN answer /\ IsPrefix(Field(call.at, i), p)
          /\ Field(call.at, i) \in Seq(Steps)
          /\ IsPrefix(Append(Parts(call.at), i), Parts(p))
    BY <1>1, <1>2, <1>7, PartsInObject
  <2>2. Parts(p) \in Seq(STRING) /\ Parts(call.at) \in Seq(STRING)
    BY <1>1, <1>2, <1>7, PartsInObject
  <2>3. PICK first \in Seq(STRING), at \in Seq(STRING), here \in Seq(STRING), full \in Seq(STRING) :
          /\ first = Append(Parts(call.at), i) /\ at = Append(Parts(p), k)
          /\ here = Parts(p) /\ full = root \o name
    <3>1. Append(Parts(call.at), i) \in Seq(STRING) /\ Append(Parts(p), k) \in Seq(STRING)
      BY <2>2
    <3>2. root \o name \in Seq(STRING)
      BY <1>1, <1>3
    <3>. QED  BY <2>2, <3>1, <3>2
  <2>4. IsStrictPrefix(here, at)
    BY <2>3, PrefixOfAppend
  <2>5. IsPrefix(first, here) /\ IsPrefix(at, full)
    BY <2>1, <2>3 DEF root
  <2>6. IsStrictPrefix(first, full)
    BY <2>4, <2>5, PrefixOrder, StrictIsShorter, PrefixPointwise
  <2>7. i \in PartsBelow(names', under)
    BY <1>2, <1>5, <2>3, <2>6 DEF IsStrictPrefix
  <2>8. IsStrictPrefix(Append(under, i), name)
    <3>1. first = root \o Append(under, i)
      BY <1>2, <1>4, <2>3, Zenon
    <3>2. Append(under, i) \in Seq(STRING)
      BY <1>1
    <3>. QED  BY <1>1, <1>3, <2>3, <2>6, <3>1, <3>2, PrefixOfConcat
  <2>9. answer'[Field(call.at, i)].kind # "leaf"
    <3>1. CASE Field(call.at, i) = p
      BY <1>1, <3>1
    <3>2. CASE Field(call.at, i) # p
      BY <1>1, <1>2, <2>1, <3>2, LeafHoldsNothing DEF IsStrictPrefix
    <3>. QED  BY <3>1, <3>2
  <2> DEFINE x == [at |-> Field(call.at, i), under |-> Append(under, i)]
  <2>10. x \in NullCalls(names', answer', call)
    BY <2>7, <2>8, <2>9 DEF NullCalls, Below, under
  <2>. QED  BY <2>1, <2>10
<1>. QED  BY <1>6, <1>7

-----------------------------------------------------------------------------
(* A step of the walk *)

\* An object that says a type came as it is.
LEMMA TypedCame ==
  ASSUME IInv, NEW v \in Seq(Steps), IsTyped(TypeNames, original, v)
  PROVE  v \in DOMAIN original /\ original[v].kind = "object"
<1>1. IsTree(original) /\ Field(v, "type") \in DOMAIN original
  BY OriginFacts DEF IInv, DocumentInv, IsTyped
<1>2. PICK t \in DOMAIN original :
        /\ t = Field(v, "type") /\ t \in Seq(Marks) /\ t # <<>> /\ Front(t) = v
        /\ Last(t) = Key("type") /\ v \in Seq(Marks) /\ IsStrictPrefix(v, t)
  <2>1. v \in Seq(Marks) /\ Key("type") \in Marks
    BY DEF Marks
  <2>. QED  BY <1>1, <2>1, AppendEnds, PrefixOfAppend DEF Field
<1>3. original[v].kind = "object"
  BY <1>1, <1>2 DEF IsTree, Key
<1>4. Len(v) \in 0..Len(t) /\ SubSeq(t, 1, Len(v)) = v
  BY <1>2, StrictIsShorter DEF IsStrictPrefix, IsPrefix
<1>5. v \in DOMAIN original
  BY <1>1, <1>2, <1>4 DEF IsTree
<1>. QED  BY <1>3, <1>5

LEMMA StackStep ==
  ASSUME IInv, StackInv, pc = "nulls", NEW call \in calls, First(call),
         req' = req, original' = original,
         IsTree(answer'), DOMAIN answer \subseteq DOMAIN answer',
         NEW new, calls' = (calls \ {call}) \cup new,
         \A x \in new : /\ x.at \in Children(answer', call.at)
                        /\ IsPrefix(NullsRoot, x.at)
                        /\ Parts(x.at) = Parts(NullsRoot) \o x.under,
         \A x \in new, y \in new : x.at = y.at => x = y
  PROVE  /\ StackInv'
         /\ Past(calls', call.at)
         /\ \A v \in Seq(Steps) : Past(calls, v) => Past(calls', v)
         /\ \A v \in Seq(Steps), c \in calls' :
              IsStrictPrefix(v, c.at) => v = call.at \/ IsStrictPrefix(v, call.at)
         /\ \A p \in DOMAIN answer : Pending(calls', p) => Pending(calls, p)
         /\ \A p \in Children(answer', call.at) : ~ Pending(calls', p)
<1>1. /\ Stack(calls)
      /\ \A c \in calls : IsPrefix(NullsRoot, c.at) /\ Parts(c.at) = Parts(NullsRoot) \o c.under
      /\ \A c \in calls : c.at \in DOMAIN answer'
  BY DEF StackInv, IInv, DocumentInv
<1>2. \A d \in calls : /\ Len(d.at) <= Len(call.at)
                       /\ call.at # <<>> /\ Len(d.at) = Len(call.at) =>
                            Last(call.at)[2] <= Last(d.at)[2]
  BY DEF First
<1>3. /\ Stack(calls')
      /\ Past(calls', call.at)
      /\ \A v \in Seq(Steps) : Past(calls, v) => Past(calls', v)
      /\ \A v \in Seq(Steps), d \in calls' :
           IsStrictPrefix(v, d.at) => v = call.at \/ IsStrictPrefix(v, call.at)
  BY <1>1, <1>2, StackStays
<1>4. StackInv'
  <2>1. NullsRoot' = NullsRoot
    BY RequestStays
  <2>2. \A c \in calls' :
          IsPrefix(NullsRoot, c.at) /\ Parts(c.at) = Parts(NullsRoot) \o c.under
    BY <1>1
  <2>. QED  BY <1>3, <2>1, <2>2 DEF StackInv
<1>5. \A p \in DOMAIN answer' :
        Pending(calls', p) <=> IF IsStrictPrefix(call.at, p)
                                 THEN \E x \in new : IsStrictPrefix(x.at, p)
                                 ELSE Pending(calls, p)
  BY <1>1, CallsStayApart DEF Stack
<1>6. \A p \in DOMAIN answer : Pending(calls', p) => Pending(calls, p)
  BY <1>5 DEF Pending
<1>7. ASSUME NEW p \in Children(answer', call.at), Pending(calls', p) PROVE FALSE
  <2>1. /\ p \in DOMAIN answer' /\ p \in Seq(Marks) /\ Len(p) = Len(call.at) + 1
        /\ IsStrictPrefix(call.at, p)
    BY <1>1, <1>7, TreePaths, ChildPaths
  <2>2. PICK x \in new : IsStrictPrefix(x.at, p)
    BY <1>5, <1>7, <2>1
  <2>3. x.at \in Seq(Marks) /\ Len(x.at) = Len(call.at) + 1
    BY <1>1, <2>2, TreePaths, ChildPaths
  <2>. QED  BY <2>1, <2>2, <2>3, StrictIsShorter
<1>. QED  BY <1>3, <1>4, <1>6, <1>7

\* What is promised is kept when the walk goes on from the call that began.
LEMMA PromisedStep ==
  ASSUME WalkInv, req.volledig, pc = "nulls", pc' = "nulls", req' = req, original' = original,
         IsTree(answer'), DOMAIN answer \subseteq DOMAIN answer',
         \A p \in DOMAIN answer : answer'[p].kind = answer[p].kind,
         NEW call \in calls, NEW new, calls' = (calls \ {call}) \cup new,
         \A p \in DOMAIN answer' \ DOMAIN answer :
           answer'[p].kind = "object" => \E x \in new : IsPrefix(x.at, p),
         \A name \in FieldNames : \A i \in DOMAIN name :
           \A p \in Reached(NullsRoot, SubSeq(name, 1, i - 1)) :
             IsPrefix(call.at, p) =>
               Field(p, name[i]) \in DOMAIN answer' \/ \E x \in new : IsPrefix(x.at, p),
         \A v \in Visited : HasOwn(v) => \A name \in Own(v) : \A i \in DOMAIN name :
           \A p \in Reached(v, SubSeq(name, 1, i - 1)) :
             IsPrefix(call.at, p) =>
               Field(p, name[i]) \in DOMAIN answer' \/ \E x \in new : IsPrefix(x.at, p)
  PROVE  PromisedInv'
<1>1. /\ FieldNames' = FieldNames /\ NullsRoot' = NullsRoot
      /\ (\A v : HasOwn(v)' <=> HasOwn(v)) /\ (\A v : Own(v)' = Own(v))
  BY RequestStays
<1>2. /\ Promised(NullsRoot, FieldNames)
      /\ \A v \in Visited : HasOwn(v) => Promised(v, Own(v))
  BY DEF WalkInv, PromisedInv
<1>3. \A from, parts : \A p \in DOMAIN answer :
        p \in Reached(from, parts)' <=> p \in Reached(from, parts)
  BY DEF Reached
<1>4. \A from, parts : \A p \in Reached(from, parts)' :
        p \in DOMAIN answer' /\ answer'[p].kind = "object"
  BY DEF Reached
<1>5. ASSUME NEW name \in FieldNames, NEW i \in DOMAIN name,
             NEW p \in Reached(NullsRoot, SubSeq(name, 1, i - 1))'
      PROVE  Field(p, name[i]) \in DOMAIN answer' \/ \E c \in calls' : IsPrefix(c.at, p)
  <2>1. CASE p \notin DOMAIN answer
    BY <1>4, <1>5, <2>1
  <2>2. CASE p \in DOMAIN answer
    <3>1. p \in Reached(NullsRoot, SubSeq(name, 1, i - 1))
      BY <1>1, <2>2, <1>5 DEF Reached
    <3>2. Field(p, name[i]) \in DOMAIN answer \/ \E c \in calls : IsPrefix(c.at, p)
      BY <1>2, <3>1 DEF Promised
    <3>. QED  BY <3>1, <3>2
  <2>. QED  BY <2>1, <2>2
<1>6. ASSUME NEW v \in Visited', HasOwn(v) PROVE v \in Visited
  <2>1. PICK name \in FieldNames : \E i \in DOMAIN name :
                                    v \in Reached(NullsRoot, SubSeq(name, 1, i - 1))'
    BY <1>1, <1>6 DEF Visited
  <2>2. v \in DOMAIN answer' /\ v \in Seq(Steps)
    BY <1>4, <2>1 DEF IsTree
  <2>3. v \in DOMAIN answer
    BY <1>6, <2>2, TypedCame DEF HasOwn, WalkInv, IInv, KeptInv
  <2>4. \E i \in DOMAIN name : v \in Reached(NullsRoot, SubSeq(name, 1, i - 1))
    BY <1>1, <2>1, <2>3 DEF Reached
  <2>. QED  BY <2>4 DEF Visited
<1>7. ASSUME NEW v \in Visited', HasOwn(v), NEW name \in Own(v), NEW i \in DOMAIN name,
             NEW p \in Reached(v, SubSeq(name, 1, i - 1))'
      PROVE  Field(p, name[i]) \in DOMAIN answer' \/ \E c \in calls' : IsPrefix(c.at, p)
  <2>1. CASE p \notin DOMAIN answer
    BY <1>4, <1>7, <2>1
  <2>2. CASE p \in DOMAIN answer
    <3>1. p \in Reached(v, SubSeq(name, 1, i - 1)) /\ v \in Visited
      BY <1>3, <1>6, <1>7, <2>2
    <3>2. Field(p, name[i]) \in DOMAIN answer \/ \E c \in calls : IsPrefix(c.at, p)
      BY <1>2, <1>7, <3>1 DEF Promised
    <3>. QED  BY <1>7, <3>1, <3>2
  <2>. QED  BY <2>1, <2>2
<1>8. Promised(NullsRoot, FieldNames)'
  BY <1>1, <1>5 DEF Promised
<1>9. ASSUME NEW v \in Visited', HasOwn(v)' PROVE Promised(v, Own(v))'
  BY <1>1, <1>7, <1>9 DEF Promised
<1>. QED  BY <1>8, <1>9 DEF PromisedInv

-----------------------------------------------------------------------------
(* _include_nulls of an object *)

\* The part of a name that follows others leads on under what comes before it.
LEMMA LeadsOn ==
  ASSUME NEW S, NEW a \in Seq(S), NEW b \in Seq(S), NEW name \in Seq(S), NEW s \in S,
         IsPrefix(Append(b, s), name)
  PROVE  IsPrefix(Append(a \o b, s), a \o name)
<1>1. Append(a \o b, s) = a \o Append(b, s)
  OBVIOUS
<1>2. Append(b, s) \in Seq(S)
  OBVIOUS
<1>3. IsPrefix(a \o Append(b, s), a \o name)
  BY <1>2, PrefixOfConcat
<1>. QED  BY <1>1, <1>3, Zenon

LEMMA NextPart ==
  ASSUME NEW S, NEW a \in Seq(S), NEW b \in Seq(S), NEW name \in Seq(S), IsStrictPrefix(b, name)
  PROVE  /\ name[Len(b) + 1] \in S
         /\ IsPrefix(Append(a \o b, name[Len(b) + 1]), a \o name)
<1>1. Len(b) < Len(name) /\ \A i \in 1..Len(b) : b[i] = name[i]
  BY StrictIsShorter, PrefixPointwise
<1>2. name[Len(b) + 1] \in S
  BY <1>1
<1>3. ASSUME NEW s \in S, s = name[Len(b) + 1] PROVE IsPrefix(Append(b, s), name)
  <2>1. /\ Append(b, s) \in Seq(S) /\ Len(Append(b, s)) = Len(b) + 1
        /\ Append(b, s)[Len(b) + 1] = s /\ \A i \in 1..Len(b) : Append(b, s)[i] = b[i]
    OBVIOUS
  <2>2. PICK longer \in Seq(S) :
          /\ longer = Append(b, s) /\ Len(longer) = Len(b) + 1 /\ longer[Len(b) + 1] = s
          /\ \A i \in 1..Len(b) : longer[i] = b[i]
    BY <2>1, Zenon
  <2>3. Len(longer) <= Len(name) /\ \A i \in 1..Len(longer) : longer[i] = name[i]
    BY <1>1, <1>3, <2>2
  <2>. QED  BY <2>2, <2>3, PrefixPointwise
<1>. QED  BY <1>2, <1>3, LeadsOn, Zenon

LEMMA FirstParts ==
  ASSUME NEW S, NEW a \in Seq(S), NEW name \in Seq(S), NEW i \in DOMAIN name
  PROVE  /\ name[i] \in S
         /\ IsPrefix(Append(a \o SubSeq(name, 1, i - 1), name[i]), a \o name)
<1>1. i \in 1..Len(name) /\ i - 1 \in 0..Len(name) /\ name[i] \in S
  OBVIOUS
<1>2. /\ SubSeq(name, 1, i - 1) \in Seq(S) /\ Len(SubSeq(name, 1, i - 1)) = i - 1
      /\ \A j \in 1..(i - 1) : SubSeq(name, 1, i - 1)[j] = name[j]
  BY <1>1
<1>3. PICK b \in Seq(S) : /\ b = SubSeq(name, 1, i - 1) /\ Len(b) = i - 1
                         /\ \A j \in 1..(i - 1) : b[j] = name[j]
  BY <1>2, Zenon
<1>4. Len(b) < Len(name) /\ Len(b) + 1 = i /\ \A j \in 1..Len(b) : b[j] = name[j]
  BY <1>1, <1>3
<1>5. IsStrictPrefix(b, name)
  BY <1>4, PrefixPointwise, StrictIsShorter
<1>6. IsPrefix(Append(a \o b, name[Len(b) + 1]), a \o name)
  BY <1>5, NextPart
<1>. QED  BY <1>1, <1>3, <1>4, <1>6, Zenon

\* What is put in leads on under a name at hand; an object that is put in is
\* called for.
LEMMA AddedFacts ==
  ASSUME IInv, StackInv, NEW call \in calls, IncludeNulls(call),
         NEW p \in DOMAIN answer' \ DOMAIN answer
  PROVE  /\ p \in Children(answer', call.at)
         /\ \E s \in Steps : p = Append(call.at, s)
         /\ \E name \in names' : IsPrefix(Parts(p), Parts(NullsRoot) \o name)
         /\ answer'[p].kind = "object" =>
              \E x \in NullCalls(names', answer', call) : IsPrefix(x.at, p)
<1> DEFINE root == Parts(NullsRoot)
           under == call.under
<1>1. /\ under \in Seq(STRING) /\ call.at \in Seq(Steps)
      /\ \A name \in names' : name \in Seq(STRING)
      /\ \A part \in PartsBelow(names', under) : part \in STRING
  BY IncludeNullsFacts
<1>2. PICK part \in PartsBelow(names', under) :
        p = Field(call.at, part)
        /\ answer'[p] = Filler(TopLevelArrayFields, names', under, part)
  BY IncludeNullsFacts
<1>3. NullsRoot \in Seq(Steps) /\ Parts(call.at) = root \o under
  BY OriginFacts DEF IncludeNulls, StackInv, IInv, DocumentInv, IsTree
<1>4. root \in Seq(STRING)
  BY <1>3, PrefixOrder, PartsArePrefix
<1>5. PICK name \in Below(names', under) : part = name[Len(under) + 1]
  BY DEF PartsBelow
<1>6. name \in names' /\ name \in Seq(STRING) /\ IsStrictPrefix(under, name) /\ part \in STRING
  BY <1>1, <1>2, <1>5 DEF Below
<1> HIDE DEF root, under
<1>7. /\ p \in Seq(Steps) /\ p # <<>> /\ Front(p) = call.at
      /\ Parts(p) = Append(Parts(call.at), part)
  BY <1>1, <1>2, <1>6, FieldFacts
<1>8. IsPrefix(Append(root \o under, part), root \o name)
  BY <1>1, <1>4, <1>5, <1>6, NextPart
<1>9. IsPrefix(Parts(p), root \o name)
  BY <1>3, <1>7, <1>8, Zenon
<1>10. ASSUME answer'[p].kind = "object"
       PROVE  \E x \in NullCalls(names', answer', call) : IsPrefix(x.at, p)
  <2>1. Below(names', Append(under, part)) # {}
    <3>1. EmptyList.kind = "list" /\ NullLeaf.kind = "leaf"
      BY DEF EmptyList, NullLeaf, Node
    <3>. QED  BY <1>2, <1>10, <3>1 DEF Filler
  <2> DEFINE x == [at |-> Field(call.at, part), under |-> Append(under, part)]
  <2>2. x \in NullCalls(names', answer', call)
    BY <1>2, <1>10, <2>1 DEF NullCalls, under
  <2>3. IsPrefix(p, p)
    BY <1>7, PrefixOrder
  <2>. QED  BY <1>2, <2>2, <2>3
<1>11. \E s \in Steps : p = Append(call.at, s)
  BY <1>1, <1>7, SplitLast
<1>. QED  BY <1>6, <1>7, <1>9, <1>10, <1>11 DEF Children, root

\* What leads on from an object is there after the call, or a call is made.
LEMMA ObjectPromises ==
  ASSUME WalkInv, NEW call \in calls, IncludeNulls(call)
  PROVE  LET new == NullCalls(names', answer', call)
         IN /\ \A name \in FieldNames : \A i \in DOMAIN name :
                 \A p \in Reached(NullsRoot, SubSeq(name, 1, i - 1)) :
                   IsPrefix(call.at, p) =>
                     Field(p, name[i]) \in DOMAIN answer' \/ \E x \in new : IsPrefix(x.at, p)
            /\ \A v \in Visited : HasOwn(v) => \A name \in Own(v) : \A i \in DOMAIN name :
                 \A p \in Reached(v, SubSeq(name, 1, i - 1)) :
                   IsPrefix(call.at, p) =>
                     Field(p, name[i]) \in DOMAIN answer' \/ \E x \in new : IsPrefix(x.at, p)
<1> DEFINE new == NullCalls(names', answer', call)
           root == Parts(NullsRoot)
<1>1. /\ IInv /\ IsTree(answer) /\ call.at \in Seq(Steps)
      /\ \A name \in FieldNames : name \in Seq(STRING)
      /\ NullsRoot \in Seq(Steps)
  BY OriginFacts DEF WalkInv, IInv, DocumentInv, IsTree, IsName
<1>2. root \in Seq(STRING)
  BY <1>1, PrefixOrder, PartsArePrefix
<1>3. FieldNames \subseteq names'
  BY NamesAfterObject
<1> HIDE DEF new, root
<1>4. ASSUME NEW p \in DOMAIN answer, answer[p].kind = "object", IsPrefix(call.at, p),
             NEW k \in STRING, NEW name \in names', IsPrefix(Append(Parts(p), k), root \o name)
      PROVE  Field(p, k) \in DOMAIN answer' \/ \E x \in new : IsPrefix(x.at, p)
  BY <1>4, WalkGoesOn DEF IsStrictPrefix, root, new
<1>5. ASSUME NEW a \in Seq(STRING), NEW name \in Seq(STRING), NEW i \in DOMAIN name
      PROVE  name[i] \in STRING /\ IsPrefix(Append(a \o SubSeq(name, 1, i - 1), name[i]), a \o name)
  BY <1>5, FirstParts
<1>6. ASSUME NEW name \in FieldNames, NEW i \in DOMAIN name,
             NEW p \in Reached(NullsRoot, SubSeq(name, 1, i - 1)), IsPrefix(call.at, p)
      PROVE  Field(p, name[i]) \in DOMAIN answer' \/ \E x \in new : IsPrefix(x.at, p)
  <2>1. /\ p \in DOMAIN answer /\ answer[p].kind = "object"
        /\ Parts(p) = root \o SubSeq(name, 1, i - 1)
    BY <1>6 DEF Reached, root
  <2>2. name[i] \in STRING /\ IsPrefix(Append(root \o SubSeq(name, 1, i - 1), name[i]), root \o name)
    BY <1>1, <1>2, <1>5, <1>6
  <2>3. IsPrefix(Append(Parts(p), name[i]), root \o name)
    BY <2>1, <2>2, Zenon
  <2>. QED  BY <1>3, <1>4, <1>6, <2>1, <2>2, <2>3
<1>7. ASSUME NEW v \in Visited, HasOwn(v), NEW name \in Own(v), NEW i \in DOMAIN name,
             NEW p \in Reached(v, SubSeq(name, 1, i - 1)), IsPrefix(call.at, p)
      PROVE  Field(p, name[i]) \in DOMAIN answer' \/ \E x \in new : IsPrefix(x.at, p)
  <2>1. /\ p \in DOMAIN answer /\ answer[p].kind = "object" /\ p \in Seq(Steps)
        /\ IsPrefix(v, p) /\ Parts(p) = Parts(v) \o SubSeq(name, 1, i - 1)
    BY <1>1, <1>7 DEF Reached, IsTree
  <2>2. v \in DOMAIN original /\ v \in Seq(Steps) /\ v \in DOMAIN answer
        /\ answer[v].kind = "object" /\ IsTyped(TypeNames, original, v)
    BY <1>1, <1>7, VisitedFacts, TypedCame DEF HasOwn
  <2>3. /\ DOMAIN TypeNames # {} /\ Parts(v) \in Seq(STRING) /\ name \in Seq(STRING)
    BY <1>1, <1>7, <2>2, TypedFacts
  <2>4. CASE IsPrefix(v, call.at)
    <3>1. Parts(v) \o name \in names'
      <4>1. CASE v = call.at
        BY <1>7, <2>2, <4>1, NamesAfterObject
      <4>2. CASE v # call.at
        BY <1>7, <2>2, <2>4, <4>2, NamesAfterObject DEF IsStrictPrefix
      <4>. QED  BY <4>1, <4>2
    <3>2. root \o (Parts(v) \o name) = Parts(v) \o name
      <4>1. root = <<>>
        BY <2>3, OnlyResidencesAreTyped DEF root
      <4>2. PICK whole \in Seq(STRING) : whole = Parts(v) \o name
        BY <2>3, ConcatPoints
      <4>3. <<>> \o whole = whole
        BY ConcatEmpty
      <4>. QED  BY <4>1, <4>2, <4>3, Zenon
    <3>3. /\ name[i] \in STRING
          /\ IsPrefix(Append(Parts(v) \o SubSeq(name, 1, i - 1), name[i]), Parts(v) \o name)
      BY <1>5, <1>7, <2>3
    <3>4. IsPrefix(Append(Parts(p), name[i]), root \o (Parts(v) \o name))
      BY <2>1, <3>2, <3>3, Zenon
    <3>. QED  BY <1>4, <1>7, <2>1, <3>1, <3>3, <3>4
  <2>5. CASE ~ IsPrefix(v, call.at)
    <3>1. IsStrictPrefix(call.at, v)
      BY <1>1, <1>7, <2>1, <2>2, <2>5, PrefixOrder DEF IsStrictPrefix
    <3>2. PICK way \in FieldNames : \E j \in DOMAIN way : Parts(v) = root \o SubSeq(way, 1, j - 1)
      BY <1>1, <1>7, VisitedFacts DEF root
    <3>3. PICK j \in DOMAIN way : Parts(v) = root \o SubSeq(way, 1, j - 1)
      BY <3>2
    <3>4. /\ way[j] \in STRING
          /\ IsPrefix(Append(root \o SubSeq(way, 1, j - 1), way[j]), root \o way)
      BY <1>1, <1>2, <1>5, <3>2, <3>3
    <3>5. IsPrefix(Append(Parts(v), way[j]), root \o way)
      BY <3>3, <3>4, Zenon
    <3>6. way \in names'
      BY <1>3, <3>2
    <3>7. PICK x \in new : IsPrefix(x.at, v)
      BY <2>2, <3>1, <3>4, <3>5, <3>6, WalkGoesOn DEF new, root
    <3>8. x.at \in Seq(Steps)
      <4>1. x.at \in Children(answer', call.at)
        BY <3>7, NullCallsFacts DEF WalkInv, new
      <4>2. IsTree(answer')
        BY IncludeNullsStep DEF WalkInv, IInv, DocumentInv
      <4>. QED  BY <4>1, <4>2 DEF Children, IsTree
    <3>9. IsPrefix(x.at, p)
      BY <2>1, <2>2, <3>7, <3>8, PrefixOrder
    <3>. QED  BY <3>7, <3>9
  <2>. QED  BY <2>4, <2>5
<1>. QED  BY <1>6, <1>7 DEF new

LEMMA ObjectWalkStep ==
  ASSUME WalkInv, NEW call \in calls, First(call), IncludeNulls(call)
  PROVE  WalkInv'
<1> DEFINE new == NullCalls(names', answer', call)
<1>1. /\ pc = "nulls" /\ pc' = pc /\ req' = req /\ original' = original
      /\ calls' = (calls \ {call}) \cup new
  BY DEF IncludeNulls
<1>2. IInv /\ StackInv /\ NamesInv /\ AddedInv /\ req.volledig
  BY <1>1 DEF WalkInv, IInv, NullCallsInv
<1>3. IInv'
  BY <1>2, IncludeNullsStep
<1>4. /\ IsTree(answer') /\ IsTree(original) /\ call.at \in Seq(Steps)
      /\ \A name \in names' : name \in Seq(STRING)
      /\ DOMAIN answer \subseteq DOMAIN answer'
      /\ \A p \in DOMAIN answer : answer'[p] = answer[p]
  BY <1>2, <1>3, IncludeNullsFacts, OriginFacts DEF IInv, DocumentInv
<1> HIDE DEF new
<1>5. /\ \A x \in new : /\ x.at \in Children(answer', call.at)
                        /\ IsPrefix(NullsRoot, x.at)
                        /\ Parts(x.at) = Parts(NullsRoot) \o x.under
      /\ \A x \in new, y \in new : x.at = y.at => x = y
  BY <1>2, NullCallsFacts DEF new
<1>6. /\ StackInv'
      /\ Past(calls', call.at)
      /\ \A v \in Seq(Steps) : Past(calls, v) => Past(calls', v)
      /\ \A v \in Seq(Steps), c \in calls' :
           IsStrictPrefix(v, c.at) => v = call.at \/ IsStrictPrefix(v, call.at)
      /\ \A p \in DOMAIN answer : Pending(calls', p) => Pending(calls, p)
      /\ \A p \in Children(answer', call.at) : ~ Pending(calls', p)
  BY <1>1, <1>2, <1>4, <1>5, StackStep
<1>7. /\ FieldNames' = FieldNames /\ TypeNames' = TypeNames /\ NullsRoot' = NullsRoot
      /\ (\A v : HasOwn(v)' <=> HasOwn(v)) /\ (\A v : Own(v)' = Own(v))
      /\ \A p : MayBeNull(p)' <=> MayBeNull(p)
  BY <1>1, RequestStays
<1>8. \A name \in names' :
        \/ name \in FieldNames
        \/ \E v \in DOMAIN original :
             /\ v = call.at \/ Past(calls, v)
             /\ HasOwn(v) /\ \E own \in Own(v) : name = Parts(v) \o own
  BY <1>1, <1>2, NamesAfterObject DEF NamesInv
<1>9. NamesInv'
  <2>1. FieldNames \subseteq names'
    BY NamesAfterObject
  <2>2. ASSUME NEW name \in names', name \notin FieldNames
        PROVE  \E v \in DOMAIN original :
                 HasOwn(v) /\ Past(calls', v) /\ \E own \in Own(v) : name = Parts(v) \o own
    BY <1>4, <1>6, <1>8, <2>2 DEF IsTree
  <2>3. ASSUME NEW v \in DOMAIN original, NEW c \in calls',
               IsTyped(TypeNames, original, v), IsStrictPrefix(v, c.at)
        PROVE  HasOwn(v) /\ \A own \in Own(v) : Parts(v) \o own \in names'
    <3>1. v = call.at \/ IsStrictPrefix(v, call.at)
      BY <1>4, <1>6, <2>3 DEF IsTree
    <3>. QED  BY <2>3, <3>1, NamesAfterObject
  <2>. QED  BY <1>1, <1>7, <2>1, <2>2, <2>3 DEF NamesInv
<1>10. ASSUME NEW p \in DOMAIN answer' \ DOMAIN original
       PROVE  MayBeNull(p) /\ ~ Pending(calls', p)
  <2>1. CASE p \in DOMAIN answer
    BY <1>1, <1>2, <1>6, <1>10, <2>1 DEF AddedInv
  <2>2. CASE p \notin DOMAIN answer
    <3>1. PICK s \in Steps : p = Append(call.at, s)
      BY <1>2, <1>10, <2>2, AddedFacts
    <3>2. PICK name \in names' : IsPrefix(Parts(p), Parts(NullsRoot) \o name)
      BY <1>2, <1>10, <2>2, AddedFacts
    <3>3. ~ Pending(calls', p)
      BY <1>2, <1>6, <1>10, <2>2, AddedFacts
    <3>4. CASE name \in FieldNames
      BY <3>2, <3>3, <3>4 DEF MayBeNull
    <3>5. CASE name \notin FieldNames
      <4>1. PICK v \in DOMAIN original :
              /\ v = call.at \/ Past(calls, v)
              /\ HasOwn(v) /\ \E own \in Own(v) : name = Parts(v) \o own
        BY <1>8, <3>2, <3>5
      <4>2. HasOwn(v) /\ v \in Seq(Steps)
        BY <1>4, <4>1 DEF IsTree
      <4>3. NotAfter(v, p)
        <5>1. CASE v = call.at
          BY <1>4, <3>1, <5>1, NotAfterChild
        <5>2. CASE Past(calls, v)
          <6>1. ~ IsPrefix(call.at, v) /\ NotAfter(v, call.at)
            BY <5>2 DEF Past
          <6>. QED  BY <1>4, <3>1, <4>2, <6>1, NotAfterChild
        <5>. QED  BY <4>1, <5>1, <5>2
      <4>4. Parts(NullsRoot) \o name = name
        <5>1. Parts(NullsRoot) = <<>>
          BY <1>2, <4>2, TypedFacts, OnlyResidencesAreTyped
        <5>2. name \in Seq(STRING) /\ <<>> \o name = name
          BY <1>4, ConcatEmpty
        <5>. QED  BY <5>1, <5>2, Zenon
      <4>5. IsPrefix(Parts(p), name)
        BY <3>2, <4>4, Zenon
      <4>. QED  BY <3>3, <4>1, <4>2, <4>3, <4>5 DEF MayBeNull
    <3>. QED  BY <3>4, <3>5
  <2>. QED  BY <2>1, <2>2
<1>11. AddedInv'
  BY <1>1, <1>7, <1>10 DEF AddedInv
<1>12. PromisedInv'
  <2>1. \A p \in DOMAIN answer' \ DOMAIN answer :
          answer'[p].kind = "object" => \E x \in new : IsPrefix(x.at, p)
    BY <1>2, AddedFacts DEF new
  <2>2. /\ \A name \in FieldNames : \A i \in DOMAIN name :
             \A p \in Reached(NullsRoot, SubSeq(name, 1, i - 1)) :
               IsPrefix(call.at, p) =>
                 Field(p, name[i]) \in DOMAIN answer' \/ \E x \in new : IsPrefix(x.at, p)
        /\ \A v \in Visited : HasOwn(v) => \A name \in Own(v) : \A i \in DOMAIN name :
             \A p \in Reached(v, SubSeq(name, 1, i - 1)) :
               IsPrefix(call.at, p) =>
                 Field(p, name[i]) \in DOMAIN answer' \/ \E x \in new : IsPrefix(x.at, p)
    BY ObjectPromises DEF new
  <2>. QED  BY <1>1, <1>2, <1>4, <2>1, <2>2, PromisedStep
<1>. QED  BY <1>3, <1>6, <1>9, <1>11, <1>12 DEF WalkInv

-----------------------------------------------------------------------------
(* _include_nulls of a list *)

LEMMA ItemCallsFacts ==
  ASSUME IInv, StackInv, NEW call \in calls, IncludeNullsInList(call)
  PROVE  LET new == ItemCalls(answer, call)
         IN /\ \A x \in new : /\ x.at \in Children(answer, call.at)
                              /\ IsPrefix(NullsRoot, x.at)
                              /\ Parts(x.at) = Parts(NullsRoot) \o x.under
            /\ \A x \in new, y \in new : x.at = y.at => x = y
            /\ \A p \in DOMAIN answer : answer[p].kind = "object" /\ IsPrefix(call.at, p) =>
                 \E x \in new : IsPrefix(x.at, p)
<1> DEFINE new == ItemCalls(answer, call)
<1>1. /\ pc = "nulls" /\ answer[call.at].kind = "list"
      /\ IsTree(answer) /\ call.at \in DOMAIN answer /\ call.at \in Seq(Steps)
      /\ NullsRoot \in Seq(Steps)
      /\ IsPrefix(NullsRoot, call.at) /\ Parts(call.at) = Parts(NullsRoot) \o call.under
  BY OriginFacts DEF IncludeNullsInList, IInv, DocumentInv, StackInv, IsTree
<1>2. ASSUME NEW x \in new
      PROVE  x.at \in Children(answer, call.at) /\ x = [at |-> x.at, under |-> call.under]
             /\ x.under = call.under
  BY DEF ItemCalls
<1>3. ASSUME NEW p \in Children(answer, call.at), answer[p].kind # "leaf"
      PROVE  \E x \in new : x.at = p
  <2>1. [at |-> p, under |-> call.under] \in new
    BY <1>3 DEF ItemCalls
  <2>. QED  BY <2>1
<1> HIDE DEF new
<1>4. ASSUME NEW x \in new
      PROVE  IsPrefix(NullsRoot, x.at) /\ Parts(x.at) = Parts(NullsRoot) \o x.under
  <2>1. /\ x.at \in DOMAIN answer /\ x.at \in Seq(Steps) /\ x.at # <<>>
        /\ Front(x.at) = call.at
    BY <1>1, <1>2, <1>4 DEF Children, IsTree
  <2>2. PICK s \in Steps : s = Last(x.at) /\ x.at = Append(call.at, s)
    BY <2>1, SplitLast
  <2>3. s[2] # 0
    BY <1>1, <2>1, <2>2 DEF IsTree
  <2>4. Parts(Append(call.at, s)) = Parts(call.at)
    BY <1>1, <2>3, PartsOfAppend
  <2>5. IsPrefix(NullsRoot, Append(call.at, s))
    BY <1>1, <2>1, <2>2, PrefixOfAppend, PrefixOrder DEF IsStrictPrefix
  <2>. QED  BY <1>1, <1>2, <1>4, <2>2, <2>4, <2>5, Zenon
<1>5. ASSUME NEW p \in DOMAIN answer, answer[p].kind = "object", IsPrefix(call.at, p)
      PROVE  \E x \in new : IsPrefix(x.at, p)
  <2>1. IsStrictPrefix(call.at, p) /\ call.at \in Seq(Marks)
    BY <1>1, <1>5, TreePaths DEF IsStrictPrefix
  <2>2. PICK r \in Children(answer, call.at) : IsPrefix(r, p)
    BY <1>1, <2>1, ChildTowards
  <2>3. answer[r].kind # "leaf"
    <3>1. r \in DOMAIN answer
      BY <2>2 DEF Children
    <3>. QED  BY <1>1, <1>5, <2>2, <3>1, LeafHoldsNothing DEF IsStrictPrefix
  <2>. QED  BY <1>3, <2>2, <2>3
<1>. QED  BY <1>2, <1>4, <1>5 DEF new

LEMMA ListWalkStep ==
  ASSUME WalkInv, NEW call \in calls, First(call), IncludeNullsInList(call)
  PROVE  WalkInv'
<1> DEFINE new == ItemCalls(answer, call)
<1>1. /\ pc = "nulls" /\ pc' = pc /\ req' = req /\ original' = original /\ answer' = answer
      /\ names' = names /\ calls' = (calls \ {call}) \cup new /\ answer[call.at].kind = "list"
  BY DEF IncludeNullsInList
<1>2. IInv /\ StackInv /\ NamesInv /\ AddedInv /\ req.volledig
  BY <1>1 DEF WalkInv, IInv, NullCallsInv
<1>3. IInv'
  BY <1>2, IncludeNullsInListStep
<1>4. IsTree(answer') /\ IsTree(original)
  BY <1>2, <1>3, OriginFacts DEF IInv, DocumentInv
<1> HIDE DEF new
<1>5. /\ \A x \in new : /\ x.at \in Children(answer', call.at)
                        /\ IsPrefix(NullsRoot, x.at)
                        /\ Parts(x.at) = Parts(NullsRoot) \o x.under
      /\ \A x \in new, y \in new : x.at = y.at => x = y
      /\ \A p \in DOMAIN answer : answer[p].kind = "object" /\ IsPrefix(call.at, p) =>
           \E x \in new : IsPrefix(x.at, p)
  BY <1>1, <1>2, ItemCallsFacts DEF new
<1>6. /\ StackInv'
      /\ \A v \in Seq(Steps) : Past(calls, v) => Past(calls', v)
      /\ \A v \in Seq(Steps), c \in calls' :
           IsStrictPrefix(v, c.at) => v = call.at \/ IsStrictPrefix(v, call.at)
      /\ \A p \in DOMAIN answer : Pending(calls', p) => Pending(calls, p)
  BY <1>1, <1>2, <1>4, <1>5, StackStep
<1>7. /\ FieldNames' = FieldNames /\ TypeNames' = TypeNames /\ NullsRoot' = NullsRoot
      /\ (\A v : HasOwn(v)' <=> HasOwn(v)) /\ (\A v : Own(v)' = Own(v))
      /\ \A p : MayBeNull(p)' <=> MayBeNull(p)
  BY <1>1, RequestStays
<1>8. NamesInv'
  <2>1. FieldNames \subseteq names'
    BY <1>1, <1>2 DEF NamesInv
  <2>2. ASSUME NEW name \in names', name \notin FieldNames
        PROVE  \E v \in DOMAIN original :
                 HasOwn(v) /\ Past(calls', v) /\ \E own \in Own(v) : name = Parts(v) \o own
    BY <1>1, <1>2, <1>4, <1>6, <2>2 DEF IsTree, NamesInv
  <2>3. ASSUME NEW v \in DOMAIN original, NEW c \in calls',
               IsTyped(TypeNames, original, v), IsStrictPrefix(v, c.at)
        PROVE  HasOwn(v) /\ \A own \in Own(v) : Parts(v) \o own \in names'
    <3>1. v \in Seq(Steps)
      BY <1>4 DEF IsTree
    <3>2. original[v].kind = "object"
      BY <1>2, <2>3, <3>1, TypedCame
    <3>3. v # call.at
      BY <1>1, <1>2, <3>2 DEF IInv, KeptInv
    <3>4. IsStrictPrefix(v, call.at)
      BY <1>6, <2>3, <3>1, <3>3
    <3>. QED  BY <1>1, <1>2, <2>3, <3>4 DEF NamesInv
  <2>. QED  BY <1>1, <1>7, <2>1, <2>2, <2>3 DEF NamesInv
<1>9. AddedInv'
  BY <1>1, <1>2, <1>6, <1>7 DEF AddedInv
<1>10. PromisedInv'
  <2>1. \A from, parts : \A p \in Reached(from, parts) :
          IsPrefix(call.at, p) => \E x \in new : IsPrefix(x.at, p)
    BY <1>5 DEF Reached
  <2>. QED  BY <1>1, <1>2, <1>4, <2>1, PromisedStep
<1>. QED  BY <1>3, <1>6, <1>8, <1>9, <1>10 DEF WalkInv

-----------------------------------------------------------------------------
(* The other steps *)

LEMMA NullsBegin ==
  ASSUME WalkInv, InsertNullValues
  PROVE  WalkInv'
<1>1. /\ pc = "links" /\ pc' = "nulls" /\ names' = FieldNames
      /\ req' = req /\ original' = original /\ answer' = answer
      /\ calls' = {[at |-> NullsRoot, under |-> <<>>]}
  BY DEF InsertNullValues
<1>2. IInv /\ IInv'
  BY InsertNullValuesStep DEF WalkInv
<1>3. IsTree(original) /\ NullsRoot \in Seq(Steps) /\ DOMAIN answer = DOMAIN original
  BY <1>1, <1>2, OriginFacts DEF IInv, DocumentInv, LinkCallsInv, IsTree
<1>4. /\ FieldNames' = FieldNames /\ TypeNames' = TypeNames /\ NullsRoot' = NullsRoot
      /\ \A v : HasOwn(v)' <=> HasOwn(v)
  BY <1>1, RequestStays
<1>5. /\ (\A from, parts : Reached(from, parts)' = Reached(from, parts)) /\ Visited' = Visited
  BY <1>1, ReachedStays
<1>6. IsPrefix(NullsRoot, NullsRoot) /\ Parts(NullsRoot) \in Seq(STRING)
  BY <1>3, PrefixOrder, PartsArePrefix
<1>7. StackInv'
  <2>1. Stack(calls')
    BY <1>1 DEF Stack, Apart
  <2>2. Parts(NullsRoot) = Parts(NullsRoot) \o <<>>
    BY <1>6, ConcatEmpty
  <2>3. \A c \in calls' : c.at = NullsRoot /\ c.under = <<>>
    BY <1>1
  <2>. QED  BY <1>4, <1>6, <2>1, <2>2, <2>3, Zenon DEF StackInv
<1>8. NamesInv'
  <2>1. ASSUME NEW v \in DOMAIN original, IsTyped(TypeNames, original, v),
               IsStrictPrefix(v, NullsRoot)
        PROVE  FALSE
    <3>1. v \in Seq(Steps)
      BY <1>3 DEF IsTree
    <3>2. NullsRoot = <<>>
      BY <2>1, OnlyResidencesAreTyped DEF IsTyped
    <3>3. Len(v) < Len(NullsRoot)
      BY <1>3, <2>1, <3>1, StrictIsShorter
    <3>. QED  BY <3>1, <3>2, <3>3
  <2>2. \A c \in calls' : c.at = NullsRoot
    BY <1>1
  <2>. QED  BY <1>1, <1>4, <2>1, <2>2 DEF NamesInv
<1>9. AddedInv'
  BY <1>1, <1>3 DEF AddedInv
<1>10. PromisedInv'
  <2>1. \A parts : \A p \in Reached(NullsRoot, parts) : \E c \in calls' : IsPrefix(c.at, p)
    BY <1>1 DEF Reached
  <2>2. ASSUME NEW v \in Visited, NEW parts, NEW p \in Reached(v, parts)
        PROVE  \E c \in calls' : IsPrefix(c.at, p)
    <3>1. v \in Seq(Steps) /\ IsPrefix(NullsRoot, v)
      BY <1>2, VisitedFacts
    <3>2. IsPrefix(v, p) /\ p \in Seq(Steps)
      BY <1>3 DEF Reached, IsTree
    <3>3. IsPrefix(NullsRoot, p)
      BY <1>3, <3>1, <3>2, PrefixOrder
    <3>. QED  BY <1>1, <3>3
  <2>3. Promised(NullsRoot, FieldNames)'
    BY <1>1, <1>4, <1>5, <2>1 DEF Promised
  <2>4. ASSUME NEW v \in Visited' PROVE Promised(v, Own(v))'
    BY <1>1, <1>5, <2>2, <2>4 DEF Promised
  <2>. QED  BY <2>3, <2>4 DEF PromisedInv
<1>. QED  BY <1>2, <1>7, <1>8, <1>9, <1>10 DEF WalkInv

\* The walk has not begun or it has ended, and nothing is added.
LEMMA NothingAdded ==
  ASSUME WalkInv, IInv', pc' # "nulls", req' = req, original' = original,
         DOMAIN answer' = DOMAIN answer,
         \A p \in DOMAIN answer : answer'[p].kind = answer[p].kind,
         pc' \in {"seals", "done"} =>
           pc \in {"seals", "done"} \/ (pc = "nulls" /\ calls = {}) \/ ~ req.volledig
  PROVE  WalkInv'
<1>1. StackInv' /\ NamesInv'
  BY DEF StackInv, NamesInv
<1>2. AddedInv'
  BY RequestStays DEF WalkInv, AddedInv
<1>3. /\ FieldNames' = FieldNames /\ NullsRoot' = NullsRoot
      /\ (\A v : HasOwn(v)' <=> HasOwn(v)) /\ (\A v : Own(v)' = Own(v))
      /\ (\A from, parts : Reached(from, parts)' = Reached(from, parts)) /\ Visited' = Visited
  BY RequestStays, ReachedStays
<1>4. ASSUME req.volledig, pc' \in {"seals", "done"} PROVE PromisedInv'
  <2>1. pc \in {"seals", "done"} \/ (pc = "nulls" /\ calls = {})
    BY <1>4
  <2>2. /\ Promised(NullsRoot, FieldNames)
        /\ \A v \in Visited : HasOwn(v) => Promised(v, Own(v))
    BY <1>4, <2>1 DEF WalkInv, PromisedInv
  <2>3. ASSUME NEW name \in FieldNames, NEW i \in DOMAIN name,
               NEW p \in Reached(NullsRoot, SubSeq(name, 1, i - 1))
        PROVE  Field(p, name[i]) \in DOMAIN answer'
    BY <2>1, <2>2, <2>3 DEF Promised
  <2>4. ASSUME NEW v \in Visited, HasOwn(v), NEW name \in Own(v), NEW i \in DOMAIN name,
               NEW p \in Reached(v, SubSeq(name, 1, i - 1))
        PROVE  Field(p, name[i]) \in DOMAIN answer'
    BY <2>1, <2>2, <2>4 DEF Promised
  <2>5. Promised(NullsRoot, FieldNames)'
    BY <1>3, <2>3 DEF Promised
  <2>6. ASSUME NEW v \in Visited', HasOwn(v)' PROVE Promised(v, Own(v))'
    BY <1>3, <2>4, <2>6 DEF Promised
  <2>. QED  BY <2>5, <2>6 DEF PromisedInv
<1>5. PromisedInv'
  BY <1>4 DEF PromisedInv
<1>. QED  BY <1>1, <1>2, <1>5 DEF WalkInv

LEMMA InitWalk == Init => WalkInv
<1> SUFFICES ASSUME Init PROVE WalkInv
  OBVIOUS
<1>1. IInv
  BY InitInv
<1>2. pc = "links" /\ answer = original
  BY DEF Init
<1>. QED  BY <1>1, <1>2 DEF WalkInv, StackInv, NamesInv, AddedInv, PromisedInv

LEMMA NextWalk == WalkInv /\ [Next]_vars => WalkInv'
<1> SUFFICES ASSUME WalkInv, [Next]_vars PROVE WalkInv'
  OBVIOUS
<1>1. IInv /\ IInv' /\ IsTree(answer)
  BY NextInv DEF WalkInv, IInv, DocumentInv
<1>2. ASSUME NEW call \in calls, RewriteLinks(call) PROVE WalkInv'
  <2>1. /\ pc' = "links" /\ req' = req /\ original' = original
        /\ answer' = WithLink(answer, call)
    BY <1>2 DEF RewriteLinks
  <2>2. DOMAIN answer' = DOMAIN answer /\ \A p \in DOMAIN answer : answer'[p].kind = answer[p].kind
    BY <1>1, <2>1, WithLinkChanges
  <2>. QED  BY <1>1, <2>1, <2>2, NothingAdded
<1>3. ASSUME NEW call \in calls, First(call), IncludeNullsInList(call) PROVE WalkInv'
  BY <1>3, ListWalkStep
<1>4. ASSUME NEW call \in calls, First(call), IncludeNulls(call) PROVE WalkInv'
  BY <1>4, ObjectWalkStep
<1>5. ASSUME NEW call \in calls, IncludeNullsFails(call) PROVE WalkInv'
  BY <1>1, <1>5, NothingAdded DEF IncludeNullsFails
<1>6. ASSUME NEW call \in calls, ProcessBsn(call) PROVE WalkInv'
  <2>1. /\ pc = "seals" /\ pc' = pc /\ req' = req /\ original' = original
        /\ answer' = WithSeals(answer, call)
    BY <1>6 DEF ProcessBsn
  <2>2. DOMAIN answer' = DOMAIN answer /\ \A p \in DOMAIN answer : answer'[p].kind = answer[p].kind
    BY <1>1, <2>1, WithSealsChanges
  <2>. QED  BY <1>1, <2>1, <2>2, NothingAdded
<1>7. CASE InsertNullValues
  BY <1>7, NullsBegin
<1>8. CASE EncryptResponse
  BY <1>1, <1>8, NothingAdded DEF EncryptResponse
<1>9. CASE Reply
  BY <1>1, <1>9, NothingAdded DEF Reply
<1>10. CASE UNCHANGED vars
  <2>1. /\ req' = req /\ original' = original /\ answer' = answer /\ pc' = pc
        /\ calls' = calls /\ names' = names
    BY <1>10 DEF vars
  <2>2. /\ FieldNames' = FieldNames /\ TypeNames' = TypeNames /\ NullsRoot' = NullsRoot
        /\ (\A v : HasOwn(v)' <=> HasOwn(v)) /\ (\A v : Own(v)' = Own(v))
        /\ \A p : MayBeNull(p)' <=> MayBeNull(p)
    BY <2>1, RequestStays
  <2>3. (\A from, parts : Reached(from, parts)' = Reached(from, parts)) /\ Visited' = Visited
    BY <2>1, ReachedStays
  <2>4. StackInv' /\ NamesInv' /\ AddedInv'
    BY <2>1, <2>2 DEF WalkInv, StackInv, NamesInv, AddedInv
  <2>5. PromisedInv'
    BY <2>1, <2>2, <2>3 DEF WalkInv, PromisedInv, Promised
  <2>. QED  BY <1>1, <2>4, <2>5 DEF WalkInv
<1>. QED  BY <1>2, <1>3, <1>4, <1>5, <1>6, <1>7, <1>8, <1>9, <1>10 DEF Next

\* _include_nulls: whatever the answer and the tables, the calls of the walk
\* that have not begun are for what comes after the path of the first, the names
\* at hand come from what was passed, and every name that is not yet there has a
\* call on its way to it.
THEOREM WalkInvariant == Spec => []WalkInv
<1>1. Init => WalkInv
  BY InitWalk
<1>2. WalkInv /\ [Next]_vars => WalkInv'
  BY NextWalk
<1>. QED  BY <1>1, <1>2, PTL DEF Spec

\* request_fields.update, for every answer: a null that the proxy puts in is for
\* a name of the view or of the type of the same or an earlier residence, and no
\* null is for the type of a later one.
THEOREM NullsAreNamed == Spec => []AddedIsNamed
<1>1. WalkInv => AddedIsNamed
  BY DEF WalkInv, IInv, KeptInv, AddedIsEmpty, AddedInv, AddedIsNamed
<1>. QED  BY <1>1, WalkInvariant, PTL

\* resultaat-formaat=volledig, for every answer and every set of names: the walk
\* leaves out no name at any depth, in any element of a list, or in what it put
\* in itself, and no residence takes names away from a later one.
THEOREM NoNameMissing == Spec => []EveryNameIsThere
<1>1. WalkInv => EveryNameIsThere
  <2> SUFFICES ASSUME WalkInv, pc = "done", req.volledig
               PROVE  /\ HasEvery(NullsRoot, FieldNames)
                      /\ \A v \in Visited : HasOwn(v) => HasEvery(v, Own(v))
    BY DEF EveryNameIsThere
  <2>1. /\ Promised(NullsRoot, FieldNames)
        /\ \A v \in Visited : HasOwn(v) => Promised(v, Own(v))
    BY DEF WalkInv, PromisedInv
  <2>. QED  BY <2>1 DEF Promised, HasEvery
<1>. QED  BY <1>1, WalkInvariant, PTL

=============================================================================

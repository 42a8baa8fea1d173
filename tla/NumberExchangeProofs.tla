------------------------- MODULE NumberExchangeProofs -------------------------
(***************************************************************************)
(* The keys over any number of deployments, for any keys, numbers and ids: *)
(* those in use are the latest of those introduced, newest first, and one  *)
(* that is no longer in use opens nothing.  And the text: whatever the id, *)
(* cutting what was added to a number leaves the number.                   *)
(***************************************************************************)
EXTENDS NumberExchange, FiniteSetTheorems, TLAPS

\* What was sealed carries the key that was the newest one at the time.
SealedInv ==
  \A h \in held : h.value.key = h.newest

-----------------------------------------------------------------------------
\* The keys in use, one by one.
LEMMA Interval ==
  ASSUME NEW n \in Nat, NEW m \in Nat, n >= 1, n <= m, m <= Len(AllKeys)
  PROVE  Reverse(SubSeq(AllKeys, n, m)) = [i \in 1..(m - n + 1) |-> AllKeys[m + 1 - i]]
<1>1. AllKeys \in Seq(STRING)
  BY ExchangeAssumption
<1>2. Len(SubSeq(AllKeys, n, m)) = m - n + 1
  BY <1>1
<1>3. \A i \in 1..(m - n + 1) :
        SubSeq(AllKeys, n, m)[(m - n + 1 - i) + 1] = AllKeys[m + 1 - i]
  BY <1>1
<1>. QED  BY <1>2, <1>3 DEF Reverse

\* A deployment with the next key in front.
LEMMA IntervalGrows ==
  ASSUME NEW n \in Nat, NEW m \in Nat, n >= 1, n <= m, m < Len(AllKeys)
  PROVE  <<AllKeys[m + 1]>> \o Reverse(SubSeq(AllKeys, n, m)) = Reverse(SubSeq(AllKeys, n, m + 1))
<1> DEFINE s == [i \in 1..(m - n + 1) |-> AllKeys[m + 1 - i]]
<1>1. /\ Reverse(SubSeq(AllKeys, n, m)) = s
      /\ Reverse(SubSeq(AllKeys, n, m + 1)) = [i \in 1..(m - n + 2) |-> AllKeys[m + 2 - i]]
  <2>1. Len(AllKeys) \in Nat
    BY ExchangeAssumption
  <2>2. Reverse(SubSeq(AllKeys, n, m)) = s
    BY <2>1, Interval
  <2>3. Reverse(SubSeq(AllKeys, n, m + 1))
          = [i \in 1..((m + 1) - n + 1) |-> AllKeys[(m + 1) + 1 - i]]
    <3>1. PICK k \in Nat : k = m + 1
      OBVIOUS
    <3>2. n <= k /\ k <= Len(AllKeys)
      BY <2>1, <3>1
    <3>3. Reverse(SubSeq(AllKeys, n, k)) = [i \in 1..(k - n + 1) |-> AllKeys[k + 1 - i]]
      BY <3>2, Interval
    <3>. QED  BY <3>1, <3>3
  <2>4. (m + 1) - n + 1 = m - n + 2 /\ \A i \in 1..(m - n + 2) : (m + 1) + 1 - i = m + 2 - i
    OBVIOUS
  <2>. QED  BY <2>2, <2>3, <2>4
<1>2. s \in Seq(STRING) /\ Len(s) = m - n + 1
  BY ExchangeAssumption
<1>3. AllKeys[m + 1] \in STRING
  BY ExchangeAssumption
<1>4. \A i \in 1..(m - n + 2) : (<<AllKeys[m + 1]>> \o s)[i] = AllKeys[m + 2 - i]
  BY <1>2, <1>3
<1>5. Len(<<AllKeys[m + 1]>> \o s) = m - n + 2 /\ <<AllKeys[m + 1]>> \o s \in Seq(STRING)
  BY <1>2, <1>3
<1>. QED  BY <1>1, <1>4, <1>5

\* ... and one without the oldest.
LEMMA IntervalShrinks ==
  ASSUME NEW n \in Nat, NEW m \in Nat, n >= 1, n < m, m <= Len(AllKeys)
  PROVE  Front(Reverse(SubSeq(AllKeys, n, m))) = Reverse(SubSeq(AllKeys, n + 1, m))
<1> DEFINE s == [i \in 1..(m - n + 1) |-> AllKeys[m + 1 - i]]
<1>1. /\ Reverse(SubSeq(AllKeys, n, m)) = s
      /\ Reverse(SubSeq(AllKeys, n + 1, m)) = [i \in 1..(m - n) |-> AllKeys[m + 1 - i]]
  <2>1. Reverse(SubSeq(AllKeys, n, m)) = s
    BY Interval
  <2>2. Reverse(SubSeq(AllKeys, n + 1, m)) = [i \in 1..(m - (n + 1) + 1) |-> AllKeys[m + 1 - i]]
    BY Interval
  <2>3. m - (n + 1) + 1 = m - n
    OBVIOUS
  <2>. QED  BY <2>1, <2>2, <2>3
<1>2. s \in Seq(STRING) /\ Len(s) = m - n + 1
  BY ExchangeAssumption
<1>3. Front(s) = [i \in 1..(m - n) |-> s[i]]
  BY <1>2 DEF Front
<1>4. \A i \in 1..(m - n) : s[i] = AllKeys[m + 1 - i]
  OBVIOUS
<1>. QED  BY <1>1, <1>3, <1>4

-----------------------------------------------------------------------------
LEMMA TypeStep == ASSUME TypeOK, [Next]_vars PROVE TypeOK'
<1> USE DEF TypeOK
<1>1. ASSUME NEW v \in Values, NEW id \in CorrelationIds, Answer(v, id) PROVE TypeOK'
  BY <1>1 DEF Answer, E!Encrypt, E!Cipher
<1>2. ASSUME NEW h \in held, NEW id \in CorrelationIds, SendBack(h, id) PROVE TypeOK'
  BY <1>2 DEF SendBack
<1>3. CASE Rotate
  <2>1. PICK n \in 1..introduced : keys = Reverse(SubSeq(AllKeys, n, introduced))
    OBVIOUS
  <2>2. n \in Nat /\ introduced \in Nat /\ n >= 1 /\ n <= introduced /\ introduced <= Len(AllKeys)
    BY ExchangeAssumption
  <2>3. keys' = Reverse(SubSeq(AllKeys, n, introduced + 1))
    BY <1>3, <2>1, <2>2, IntervalGrows DEF Rotate
  <2>4. introduced' \in 1..Len(AllKeys) /\ n \in 1..introduced'
    BY <1>3, <2>2, ExchangeAssumption DEF Rotate
  <2>. QED  BY <1>3, <2>3, <2>4 DEF Rotate
<1>4. CASE Retire
  <2>1. PICK n \in 1..introduced : keys = Reverse(SubSeq(AllKeys, n, introduced))
    OBVIOUS
  <2>2. n \in Nat /\ introduced \in Nat /\ n >= 1 /\ n <= introduced /\ introduced <= Len(AllKeys)
    BY ExchangeAssumption
  <2>3. n < introduced
    <3>1. keys = [i \in 1..(introduced - n + 1) |-> AllKeys[introduced + 1 - i]]
      BY <2>1, <2>2, Interval
    <3>2. Len(keys) = introduced - n + 1
      BY <2>2, <3>1
    <3>. QED  BY <1>4, <2>2, <3>2 DEF Retire
  <2>4. keys' = Reverse(SubSeq(AllKeys, n + 1, introduced))
    BY <1>4, <2>1, <2>2, <2>3, IntervalShrinks DEF Retire
  <2>5. n + 1 \in 1..introduced
    BY <2>2, <2>3
  <2>. QED  BY <1>4, <2>4, <2>5 DEF Retire
<1>5. CASE UNCHANGED vars
  BY <1>5 DEF vars
<1>. QED  BY <1>1, <1>2, <1>3, <1>4, <1>5 DEF Next

\* Over any number of deployments the keys in use are the latest ones, in their
\* order, and what a client holds was sealed under an id of its own.
THEOREM TypeCorrect == Spec => []TypeOK
<1>1. Init => TypeOK
  <2>1. 1 <= Len(AllKeys) /\ Len(AllKeys) \in Nat
    BY ExchangeAssumption
  <2>2. Reverse(SubSeq(AllKeys, 1, 1)) = [i \in 1..1 |-> AllKeys[1]]
    <3>1. PICK k \in Nat : k = 1
      OBVIOUS
    <3>2. k >= 1 /\ k <= k /\ k <= Len(AllKeys)
      BY <2>1, <3>1
    <3>3. Reverse(SubSeq(AllKeys, k, k)) = [i \in 1..(k - k + 1) |-> AllKeys[k + 1 - i]]
      BY <3>2, Interval
    <3>4. \A i \in 1..1 : k + 1 - i = 1
      BY <3>1
    <3>. QED  BY <3>1, <3>3, <3>4
  <2>3. Reverse(SubSeq(AllKeys, 1, 1)) = <<AllKeys[1]>>
    BY <2>2
  <2>. QED  BY <2>1, <2>3 DEF Init, TypeOK
<1>2. TypeOK /\ [Next]_vars => TypeOK'
  BY TypeStep
<1>. QED  BY <1>1, <1>2, PTL DEF Spec

\* _get_fernet: a key that is no longer deployed ends the life of the numbers it
\* sealed, whatever the id they are sent back under.
THEOREM Retired == Spec => []RetiredOpensNothing
<1>1. Init => SealedInv
  BY DEF Init, SealedInv
<1>2. SealedInv /\ [Next]_vars => SealedInv'
  BY DEF SealedInv, Next, Answer, SendBack, Rotate, Retire, vars, E!Encrypt, E!Cipher
<1>3. TypeOK /\ SealedInv => RetiredOpensNothing
  <2>1. ASSUME TypeOK, SealedInv, NEW h \in held, ~ Contains(keys, h.newest),
               NEW id \in CorrelationIds
        PROVE  Passed(h.value, id) = {}
    <3>1. DOMAIN keys = 1..Len(keys)
      BY <2>1, Interval, ExchangeAssumption DEF TypeOK
    <3>. QED  BY <2>1, <3>1 DEF SealedInv, Contains, Passed, E!CanDecrypt
  <2>. QED  BY <2>1 DEF RetiredOpensNothing
<1>. QED  BY <1>1, <1>2, <1>3, TypeCorrect, PTL DEF Spec

-----------------------------------------------------------------------------
(* str.replace *)

\* The provers do not see that the separator is a string.
Symbols == STRING \cup {":"}

LEMMA TextsHaveSymbols ==
  ASSUME NEW text \in Numbers \cup CorrelationIds
  PROVE  text \in Seq(Symbols)
<1>1. text \in Seq(STRING)
  BY TextAssumption
<1>. QED  BY <1>1 DEF Symbols

\* Encryption and this module count with the same operator.
LEMMA SameCardinality ==
  ASSUME NEW S
  PROVE  E!Cardinality(S) = Cardinality(S)
BY Zenon DEF E!Cardinality, Cardinality

LEMMA UpToInterval ==
  ASSUME NEW K \in SUBSET Nat, NEW k \in Nat, 1..k \subseteq K, 0 \notin K
  PROVE  Cardinality(E!UpTo(k, K)) = k
<1>1. ASSUME NEW j \in K, j <= k PROVE j \in 1..k
  <2>1. j \in Nat /\ j # 0
    OBVIOUS
  <2>. QED  BY <1>1, <2>1
<1>2. ASSUME NEW j \in 1..k PROVE j \in K /\ j <= k
  OBVIOUS
<1>3. E!UpTo(k, K) = 1..k
  BY <1>1, <1>2 DEF E!UpTo
<1>. QED  BY <1>3, FS_Interval

\* Up to a position behind the first m there are more than m.
LEMMA UpToBehind ==
  ASSUME NEW K \in SUBSET Nat, IsFiniteSet(K), NEW m \in Nat, 1..m \subseteq K,
         NEW k \in K, k > m
  PROVE  Cardinality(E!UpTo(k, K)) > m
<1>1. IsFiniteSet(E!UpTo(k, K)) /\ IsFiniteSet((1..m) \cup {k})
  BY FS_Subset, FS_Interval, FS_AddElement DEF E!UpTo
<1>2. Cardinality((1..m) \cup {k}) = m + 1
  <2>1. IsFiniteSet(1..m) /\ Cardinality(1..m) = m
    BY FS_Interval
  <2>2. k \notin 1..m
    OBVIOUS
  <2>. QED  BY <2>1, <2>2, FS_AddElement
<1>3. (1..m) \cup {k} \subseteq E!UpTo(k, K)
  BY DEF E!UpTo
<1>4. Cardinality((1..m) \cup {k}) <= Cardinality(E!UpTo(k, K))
  BY <1>1, <1>3, FS_Subset
<1>5. Cardinality(E!UpTo(k, K)) \in Nat
  BY <1>1, FS_CardinalityType
<1>. QED  BY <1>2, <1>4, <1>5

\* What is cut comes after the first m symbols, which then stay in their place.
LEMMA WithoutKeepsFront ==
  ASSUME NEW s \in Seq(Symbols), NEW t \in Seq(Symbols), NEW m \in 0..Len(t),
         \A i \in E!Occurrences(s, t) : i > m
  PROVE  LET w == E!Without(s, t)
         IN /\ \E c \in Nat : c >= m /\ w = [n \in 1..c |-> w[n]]
            /\ \A n \in 1..m : w[n] = t[n]
            /\ E!Kept(s, t) = 1..m => w = [n \in 1..m |-> t[n]]
<1> DEFINE K == E!Kept(s, t)
           c == Cardinality(K)
           at(n) == CHOOSE k \in K : Cardinality(E!UpTo(k, K)) = n
<1>1. K \subseteq 1..Len(t)
  BY DEF E!Kept
<1>2. IsFiniteSet(K) /\ c \in Nat /\ K \in SUBSET Nat /\ 0 \notin K
  <2>1. Len(t) \in Nat
    OBVIOUS
  <2>2. IsFiniteSet(1..Len(t))
    BY <2>1, FS_Interval
  <2> HIDE DEF K
  <2>3. IsFiniteSet(K)
    BY <1>1, <2>2, FS_Subset
  <2>. QED  BY <1>1, <2>3, FS_CardinalityType
<1>3. 1..m \subseteq K
  <2>1. \A i \in E!Replaced(s, t) : i \in E!Occurrences(s, t) /\ i \in Int
    BY DEF E!Replaced, E!Occurrences
  <2>2. ASSUME NEW k \in 1..m, NEW i \in E!Replaced(s, t), k \in i..(i + Len(s) - 1)
        PROVE  FALSE
    BY <2>1, <2>2
  <2>. QED  BY <2>2 DEF E!Kept
<1>4. c >= m
  <2>1. Cardinality(1..m) = m
    BY FS_Interval
  <2>. QED  BY <1>2, <1>3, <2>1, FS_Subset
<1>5. E!Without(s, t) = [n \in 1..c |-> t[at(n)]]
  <2>1. E!Cardinality(K) = c
    BY SameCardinality
  <2>2. \A k \in K : E!Cardinality(E!UpTo(k, K)) = Cardinality(E!UpTo(k, K))
    BY SameCardinality
  <2> DEFINE its(n) == CHOOSE k \in K : E!Cardinality(E!UpTo(k, K)) = n
  <2>3. \A n : its(n) = at(n)
    BY <2>2
  <2>4. E!Without(s, t) = [n \in 1..E!Cardinality(K) |-> t[its(n)]]
    BY Zenon DEF E!Without
  <2> HIDE DEF c, its, at
  <2>. QED  BY <2>1, <2>3, <2>4
<1> HIDE DEF K
<1>6. ASSUME NEW n \in 1..m PROVE at(n) = n
  <2>1. n \in Nat /\ n \in K /\ 1..n \subseteq K
    BY <1>3
  <2>2. Cardinality(E!UpTo(n, K)) = n
    BY <1>2, <2>1, UpToInterval
  <2>3. ASSUME NEW k \in K, Cardinality(E!UpTo(k, K)) = n PROVE k = n
    <3>1. CASE k > m
      BY <1>2, <1>3, <2>3, <3>1, UpToBehind
    <3>2. CASE k <= m
      <4>1. k \in Nat /\ 1..k \subseteq K
        BY <1>2, <1>3, <3>2
      <4>. QED  BY <1>2, <2>3, <4>1, UpToInterval
    <3>. QED  BY <1>2, <3>1, <3>2
  <2>. QED  BY <2>1, <2>2, <2>3
<1>7. K = 1..m => c = m
  BY FS_Interval
<1>8. E!Without(s, t) = [n \in 1..c |-> E!Without(s, t)[n]]
  BY <1>5
<1>9. ASSUME NEW n \in 1..m PROVE E!Without(s, t)[n] = t[n]
  <2>1. n \in 1..c
    BY <1>2, <1>4
  <2>. QED  BY <1>5, <1>6, <2>1
<1> HIDE DEF c
<1>. QED  BY <1>2, <1>4, <1>7, <1>8, <1>9 DEF K

\* The salt of a request starts with the separator, which no number holds.
LEMMA SaltBehindNumber ==
  ASSUME NEW n \in Numbers, NEW id \in CorrelationIds, NEW salt \in CorrelationIds
  PROVE  /\ E!Salted(n, id) \in Seq(Symbols)
         /\ Len(n) \in 0..Len(E!Salted(n, id))
         /\ \A i \in 1..Len(n) : E!Salted(n, id)[i] = n[i]
         /\ \A i \in E!Occurrences(<<":">> \o salt, E!Salted(n, id)) : i > Len(n)
<1> DEFINE t == E!Salted(n, id)
           s == <<":">> \o salt
<1>1. n \in Seq(Symbols) /\ id \in Seq(Symbols) /\ salt \in Seq(Symbols)
  BY TextsHaveSymbols
<1>2. t \in Seq(Symbols) /\ s \in Seq(Symbols) /\ s[1] = ":" /\ Len(s) = Len(salt) + 1
  <2>1. <<":">> \in Seq(Symbols)
    BY DEF Symbols
  <2>2. s \in Seq(Symbols) /\ s[1] = ":" /\ Len(s) = Len(salt) + 1
    BY <1>1, <2>1
  <2>3. t \in Seq(Symbols)
    BY <1>1, <2>1 DEF E!Salted
  <2>. QED  BY <2>2, <2>3
<1>3. Len(t) = Len(n) + 1 + Len(id) /\ \A i \in 1..Len(n) : t[i] = n[i]
  BY <1>1 DEF E!Salted
<1>4. ASSUME NEW i \in E!Occurrences(s, t) PROVE i > Len(n)
  <2>1. i \in 1..(Len(t) + 1 - Len(s)) /\ SubSeq(t, i, i + Len(s) - 1) = s
    BY <1>4 DEF E!Occurrences
  <2> HIDE DEF t, s
  <2>2. SubSeq(t, i, i + Len(s) - 1)[1] = t[i]
    BY <1>1, <1>2, <2>1
  <2>3. t[i] = ":"
    BY <1>2, <2>1, <2>2
  <2>4. \A k \in 1..Len(n) : n[k] # ":"
    BY <1>1, TextAssumption
  <2>5. i \notin 1..Len(n)
    BY <1>3, <2>3, <2>4
  <2>. QED  BY <1>1, <2>1, <2>5
<1>. QED  BY <1>1, <1>2, <1>3, <1>4

\* Under its own id what is cut is all that was added, and nothing else.
LEMMA OwnSaltIsCut ==
  ASSUME NEW n \in Numbers, NEW id \in CorrelationIds
  PROVE  E!Kept(<<":">> \o id, E!Salted(n, id)) = 1..Len(n)
<1> DEFINE t == E!Salted(n, id)
           s == <<":">> \o id
           m == Len(n) + 1
           taken(f) == [i \in 1..Len(t) |->
                          /\ i \in E!Occurrences(s, t)
                          /\ \A j \in 1..(i - 1) : f[j] => j + Len(s) <= i]
<1>1. n \in Seq(Symbols) /\ id \in Seq(Symbols)
  BY TextsHaveSymbols
<1>2. Len(s) = Len(id) + 1 /\ Len(t) = Len(n) + 1 + Len(id) /\ Len(n) \in Nat /\ Len(id) \in Nat
  BY <1>1 DEF E!Salted
<1>3. SubSeq(t, m, m + Len(s) - 1) = s
  BY <1>1, <1>2 DEF E!Salted
<1>4. E!Occurrences(s, t) = {m}
  <2>1. E!Occurrences(s, t) \subseteq m..m
    <3>1. \A i \in E!Occurrences(s, t) : i > Len(n) /\ i \in 1..(Len(t) + 1 - Len(s))
      BY SaltBehindNumber DEF E!Occurrences
    <3>. QED  BY <1>2, <3>1
  <2>2. m \in E!Occurrences(s, t)
    BY <1>2, <1>3 DEF E!Occurrences
  <2>. QED  BY <1>2, <2>1, <2>2
<1> HIDE DEF t, s
<1>5. E!Replaced(s, t) = {m}
  <2> DEFINE f == [i \in 1..Len(t) |-> i = m]
             g == CHOOSE g : g = taken(g)
  <2>1. f = taken(f)
    <3>1. ASSUME NEW i \in 1..Len(t)
          PROVE  i = m <=> /\ i \in E!Occurrences(s, t)
                           /\ \A j \in 1..(i - 1) : f[j] => j + Len(s) <= i
      <4>1. \A j \in 1..(i - 1) : j \in 1..Len(t)
        BY <1>2
      <4>2. \A j \in 1..Len(t) : f[j] <=> j = m
        OBVIOUS
      <4>. QED  BY <1>2, <1>4, <4>1, <4>2
    <3> HIDE DEF m
    <3>. QED  BY <3>1
  <2>2. g = taken(g)
    BY <2>1
  <2> HIDE DEF g
  <2>3. \A i \in 1..Len(t) : g[i] => i = m
    BY <1>4, <2>2
  <2>4. g[m]
    BY <1>2, <1>4, <2>2, <2>3
  <2>. QED  BY <1>4, <2>4 DEF E!Replaced, g
<1>6. m..(m + Len(s) - 1) = (Len(n) + 1)..Len(t)
  BY <1>2
<1>7. E!Kept(s, t) = {k \in 1..Len(t) : k \notin m..(m + Len(s) - 1)}
  BY <1>5 DEF E!Kept
<1>8. E!Kept(s, t) = 1..Len(n)
  BY <1>2, <1>6, <1>7
<1>. QED  BY <1>8 DEF s, t

\* A number is read back under the id it was sealed under ...
LEMMA DecryptsOwn ==
  ASSUME NEW n \in Numbers, NEW id \in CorrelationIds, NEW key
  PROVE  /\ E!Occurrences(id, E!Salted(n, id)) # {}
         /\ E!Decrypt(E!Cipher(key, E!Salted(n, id)), id) = E!Plain(n)
<1> DEFINE t == E!Salted(n, id)
<1>1. n \in Seq(Symbols) /\ id \in Seq(Symbols) /\ <<":">> \o id \in Seq(Symbols)
  <2>1. n \in Seq(Symbols) /\ id \in Seq(Symbols)
    BY TextsHaveSymbols
  <2>. QED  BY <2>1 DEF Symbols
<1>2. E!Occurrences(id, t) # {}
  <2>1. SubSeq(t, Len(n) + 2, Len(n) + 2 + Len(id) - 1) = id
    BY <1>1 DEF E!Salted
  <2>2. Len(n) + 2 \in 1..(Len(t) + 1 - Len(id))
    BY <1>1 DEF E!Salted
  <2>. QED  BY <2>1, <2>2 DEF E!Occurrences
<1>3. E!Without(<<":">> \o id, t) = [i \in 1..Len(n) |-> t[i]]
  <2> DEFINE s == <<":">> \o id
  <2>1. /\ t \in Seq(Symbols) /\ s \in Seq(Symbols) /\ Len(n) \in 0..Len(t)
        /\ \A i \in E!Occurrences(s, t) : i > Len(n)
        /\ E!Kept(s, t) = 1..Len(n)
    BY <1>1, SaltBehindNumber, OwnSaltIsCut
  <2> HIDE DEF s, t
  <2>2. E!Without(s, t) = [i \in 1..Len(n) |-> t[i]]
    BY <2>1, WithoutKeepsFront
  <2>. QED  BY <2>2 DEF s
<1>4. [i \in 1..Len(n) |-> t[i]] = n
  BY <1>1, SaltBehindNumber
<1>. QED  BY <1>2, <1>3, <1>4 DEF E!Decrypt, E!Cipher

\* ... and under any other it still comes first.
LEMMA DecryptsPrefix ==
  ASSUME NEW n \in Numbers, NEW id \in CorrelationIds, NEW salt \in CorrelationIds, NEW key
  PROVE  LET v == E!Decrypt(E!Cipher(key, E!Salted(n, id)), salt)
         IN v.form = "plain" /\ IsPrefix(n, v.text)
<1> DEFINE t == E!Salted(n, id)
           w == E!Without(<<":">> \o salt, t)
<1>1. n \in Seq(Symbols) /\ <<":">> \o salt \in Seq(Symbols)
  <2>1. n \in Seq(Symbols) /\ salt \in Seq(Symbols)
    BY TextsHaveSymbols
  <2>. QED  BY <2>1 DEF Symbols
<1>2. /\ \E c \in Nat : c >= Len(n) /\ w = [i \in 1..c |-> w[i]]
      /\ \A i \in 1..Len(n) : w[i] = t[i]
  <2> DEFINE s == <<":">> \o salt
  <2>1. /\ t \in Seq(Symbols) /\ s \in Seq(Symbols) /\ Len(n) \in 0..Len(t)
        /\ \A i \in E!Occurrences(s, t) : i > Len(n)
    BY <1>1, SaltBehindNumber
  <2> HIDE DEF s, t, w
  <2>2. w = E!Without(s, t)
    BY DEF s, w
  <2>. QED  BY <2>1, <2>2, WithoutKeepsFront
<1>3. \A i \in 1..Len(n) : t[i] = n[i]
  BY SaltBehindNumber
<1> HIDE DEF w, t
<1>4. PICK c \in Nat : c >= Len(n) /\ w = [i \in 1..c |-> w[i]]
  BY <1>2
<1>5. w \in Seq({w[i] : i \in 1..c}) /\ Len(w) = c
  BY <1>4
<1>6. SubSeq(w, 1, Len(n)) = SubSeq(n, 1, Len(n))
  <2>1. Len(n) \in Nat /\ Len(n) <= Len(w) /\ 1..Len(n) = DOMAIN n
    BY <1>1, <1>4, <1>5
  <2>2. SubSeq(w, 1, Len(n)) = [i \in 1..Len(n) |-> w[i]]
    BY <1>5, <2>1
  <2>3. SubSeq(n, 1, Len(n)) = [i \in 1..Len(n) |-> n[i]]
    BY <1>1, <2>1
  <2>. QED  BY <1>2, <1>3, <2>2, <2>3
<1>7. IsPrefix(n, w)
  BY <1>1, <1>4, <1>5, <1>6 DEF IsPrefix
<1>. QED  BY <1>7 DEF E!Decrypt, E!Cipher, E!Plain, w, t

-----------------------------------------------------------------------------
(* What the client holds and sends *)

\* What was sealed is the number with its salt, under the newest key of its time.
IsSealed(h) ==
  /\ h.id \in CorrelationIds
  /\ h.number # E!Null =>
       \E n \in Numbers : h.number = E!Plain(n) /\ h.value = E!Cipher(h.newest, E!Salted(n, h.id))

ExchangeInv ==
  /\ \A h \in held : IsSealed(h)
  /\ \A h \in sent.held : IsSealed(h)
  /\ \A h \in sent.held, v \in sent.passed :
       sent.id \in CorrelationIds /\ v = E!Decrypt(h.value, sent.id)

LEMMA ExchangeInvariance == Spec => []ExchangeInv
<1>1. Init => ExchangeInv
  BY DEF Init, ExchangeInv, NothingSent
<1>2. ExchangeInv /\ [Next]_vars => ExchangeInv'
  <2> SUFFICES ASSUME ExchangeInv, [Next]_vars PROVE ExchangeInv'
    OBVIOUS
  <2>1. ASSUME NEW value \in Values, NEW id \in CorrelationIds, Answer(value, id)
        PROVE  ExchangeInv'
    <3> DEFINE h == [value |-> E!Encrypt(value, id), number |-> value, id |-> id,
                     newest |-> keys[1]]
    <3>1. IsSealed(h)
      <4>1. CASE value = E!Null
        BY <4>1 DEF IsSealed
      <4>2. ASSUME NEW n \in Numbers, value = E!Plain(n)
            PROVE  E!Encrypt(value, id) = E!Cipher(keys[1], E!Salted(n, id))
        <5>1. E!Plain(n).form # "null" /\ E!Plain(n).text = n
          BY DEF E!Plain
        <5>. QED  BY <4>2, <5>1 DEF E!Encrypt
      <4>3. value = E!Null \/ \E n \in Numbers : value = E!Plain(n)
        BY DEF Values
      <4>. QED  BY <4>1, <4>2, <4>3 DEF IsSealed
    <3> HIDE DEF h
    <3>2. held' = held \cup {h} /\ sent' = sent
      BY <2>1 DEF Answer, h
    <3>. QED  BY <3>1, <3>2 DEF ExchangeInv, IsSealed
  <2>2. ASSUME NEW h \in held, NEW id \in CorrelationIds, SendBack(h, id) PROVE ExchangeInv'
    BY <2>2 DEF ExchangeInv, IsSealed, SendBack, Passed
  <2>3. CASE Rotate \/ Retire \/ UNCHANGED vars
    BY <2>3 DEF ExchangeInv, IsSealed, Rotate, Retire, vars, NothingSent
  <2>. QED  BY <2>1, <2>2, <2>3 DEF Next
<1>. QED  BY <1>1, <1>2, PTL DEF Spec

\* decrypt, _get_fernet: a number that is sent back under its own id is read
\* back as it was, for as long as the key that sealed it is deployed, whatever
\* keys came before and after it and whatever the id is made of.
THEOREM Readable == Spec => []ReadableWhileDeployed
<1>1. ASSUME ExchangeInv, TypeOK, NEW h \in held, h.number # E!Null, Contains(keys, h.newest)
      PROVE  Passed(h.value, h.id) = {h.number}
  <2>1. PICK n \in Numbers : h.number = E!Plain(n)
                               /\ h.value = E!Cipher(h.newest, E!Salted(n, h.id))
    BY <1>1 DEF ExchangeInv, IsSealed
  <2>2. h.id \in CorrelationIds
    BY <1>1 DEF ExchangeInv, IsSealed
  <2>3. /\ E!Occurrences(h.id, E!Salted(n, h.id)) # {}
        /\ E!Decrypt(h.value, h.id) = h.number
    BY <2>1, <2>2, DecryptsOwn
  <2>4. \E i \in DOMAIN keys : keys[i] = h.newest
    <3>1. DOMAIN keys = 1..Len(keys)
      BY <1>1, Interval, ExchangeAssumption DEF TypeOK
    <3>. QED  BY <1>1, <3>1 DEF Contains
  <2>5. E!CanDecrypt(h.value, h.id)
    BY <2>1, <2>3, <2>4 DEF E!CanDecrypt, E!Cipher
  <2>. QED  BY <2>3, <2>5 DEF Passed
<1>2. ExchangeInv /\ TypeOK => ReadableWhileDeployed
  BY <1>1 DEF ReadableWhileDeployed
<1>. QED  BY <1>2, ExchangeInvariance, TypeCorrect, PTL

\* decrypt: whatever id a number is sent back under, what reaches Haal Centraal
\* starts with the number itself.
THEOREM NumberFirst == Spec => []PassedStartsWithNumber
<1>1. ASSUME ExchangeInv, NEW v \in sent.passed, NEW h \in sent.held
      PROVE  v.form = "plain" /\ (h.number # E!Null => IsPrefix(h.number.text, v.text))
  <2>1. /\ IsSealed(h)
        /\ sent.id \in CorrelationIds
        /\ v = E!Decrypt(h.value, sent.id)
    BY <1>1 DEF ExchangeInv
  <2>2. v.form = "plain"
    BY <2>1 DEF E!Decrypt, E!Plain
  <2>3. ASSUME h.number # E!Null PROVE IsPrefix(h.number.text, v.text)
    <3>1. PICK n \in Numbers : h.number = E!Plain(n)
                                 /\ h.value = E!Cipher(h.newest, E!Salted(n, h.id))
      BY <2>1, <2>3 DEF IsSealed
    <3>2. E!Plain(n).text = n
      BY DEF E!Plain
    <3>3. h.id \in CorrelationIds
      BY <2>1 DEF IsSealed
    <3>. QED  BY <2>1, <3>1, <3>2, <3>3, DecryptsPrefix
  <2>. QED  BY <2>2, <2>3
<1>2. ExchangeInv => PassedStartsWithNumber
  BY <1>1 DEF PassedStartsWithNumber
<1>. QED  BY <1>2, ExchangeInvariance, PTL

=============================================================================

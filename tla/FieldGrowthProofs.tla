--------------------------- MODULE FieldGrowthProofs ---------------------------
(***************************************************************************)
(* What a policy grants a user whose token gains scopes, for every policy, *)
(* every list of values and every token; and what the files of the         *)
(* gegevenssets grant, for any files and known names.                      *)
(***************************************************************************)
EXTENDS FieldGrowth, TLAPS, WellFoundedInduction

-----------------------------------------------------------------------------
(* Any policy: the lemmas on the operators carry the argument, the theorems *)
(* only apply them to the states of a run.                                  *)

\* A value with a key of its own has the rule of that key.
LEMMA ExactKeyFirst ==
  ASSUME NEW p, NEW v \in DOMAIN p.scopesForValues
  PROVE  NeededScopes(p, v) = {p.scopesForValues[v]}
BY DEF NeededScopes

\* What "granted" means, value by value.
LEMMA GrantedMeans ==
  ASSUME NEW p, NEW V, NEW S
  PROVE  Verdict(p, V, S) = "granted" <=>
           \A v \in V : /\ NeededScopes(p, v) # {}
                        /\ \A rule \in NeededScopes(p, v) : Grants(rule, S)
BY DEF Verdict

\* A rule that is satisfied stays satisfied with more scopes.
LEMMA GrantsMonotone ==
  ASSUME NEW rule, NEW S, NEW T, S \subseteq T, Grants(rule, S)
  PROVE  Grants(rule, T)
BY DEF Grants

\* get_allowed_values only lists values that validate_values grants.
LEMMA AllowedAreGranted ==
  ASSUME NEW p, NEW S
  PROVE  Verdict(p, AllowedValues(p, S), S) = "granted"
<1>1. ASSUME NEW v \in AllowedValues(p, S)
      PROVE  /\ NeededScopes(p, v) # {}
             /\ \A rule \in NeededScopes(p, v) : Grants(rule, S)
  <2>1. v \in DOMAIN p.scopesForValues /\ Grants(p.scopesForValues[v], S)
    BY DEF AllowedValues
  <2>2. NeededScopes(p, v) = {p.scopesForValues[v]}
    BY <2>1, ExactKeyFirst
  <2> QED BY <2>1, <2>2
<1> QED BY <1>1, GrantedMeans

\* validate_values returns scopes that justify the access by themselves.
LEMMA UsedScopesSuffice ==
  ASSUME NEW p, NEW V, NEW S, Verdict(p, V, S) = "granted"
  PROVE  /\ ScopesUsed(p, V, S) \subseteq S
         /\ Verdict(p, V, ScopesUsed(p, V, S)) = "granted"
<1> DEFINE U == ScopesUsed(p, V, S)
<1>1. U \subseteq S
  BY DEF ScopesUsed
<1>2. ASSUME NEW v \in V
      PROVE  /\ NeededScopes(p, v) # {}
             /\ \A rule \in NeededScopes(p, v) : Grants(rule, U)
  <2>1. NeededScopes(p, v) # {} /\ \A rule \in NeededScopes(p, v) : Grants(rule, S)
    BY GrantedMeans
  <2>2. ASSUME NEW rule \in NeededScopes(p, v) PROVE Grants(rule, U)
    <3>1. rule.oneOf \cap S \subseteq U
      BY DEF ScopesUsed
    <3> QED BY <2>1, <3>1 DEF Grants
  <2> QED BY <2>1, <2>2
<1>3. Verdict(p, V, U) = "granted"
  BY <1>2, GrantedMeans
<1> QED BY <1>1, <1>3

\* More scopes grant no less, and never make a known value unknown.
LEMMA VerdictMonotone ==
  ASSUME NEW p, NEW V, NEW S, NEW T, S \subseteq T
  PROVE  /\ Verdict(p, V, S) = "granted" => Verdict(p, V, T) = "granted"
         /\ Verdict(p, V, S) = "InvalidValues" <=> Verdict(p, V, T) = "InvalidValues"
<1>1. ASSUME Verdict(p, V, S) = "granted" PROVE Verdict(p, V, T) = "granted"
  BY <1>1, GrantedMeans, GrantsMonotone
<1>2. \A R : Verdict(p, V, R) = "InvalidValues" <=> \E v \in V : NeededScopes(p, v) = {}
  BY DEF Verdict
<1> QED BY <1>1, <1>2

-----------------------------------------------------------------------------
\* get_allowed_values: what the proxy fills in, its user could have asked for.
THEOREM FillingIn == Spec => []FilledInIsGranted
<1>1. FilledInIsGranted
  BY AllowedAreGranted DEF FilledInIsGranted
<1> QED BY <1>1, PTL

\* validate_values: the scopes it reports are held and suffice.
THEOREM Needed == Spec => []NeededSuffice
<1>1. NeededSuffice
  BY UsedScopesSuffice DEF NeededSuffice
<1> QED BY <1>1, PTL

\* An additional scope takes nothing away.
THEOREM Monotone == Spec => MoreScopesGrantMore
<1>1. ASSUME [Next]_vars
      PROVE  /\ Verdict(policy, values, held) = "granted"
                  => Verdict(policy, values, held)' = "granted"
             /\ Verdict(policy, values, held) = "InvalidValues"
                  <=> Verdict(policy, values, held)' = "InvalidValues"
  <2>1. policy' = policy /\ values' = values /\ held \subseteq held'
    BY <1>1 DEF Next, Gain, Complete, vars
  <2>2. Verdict(policy, values, held)' = Verdict(policy, values, held')
    BY <2>1
  <2> QED BY <2>1, <2>2, VerdictMonotone
<1> QED BY <1>1, PTL DEF Spec, MoreScopesGrantMore

-----------------------------------------------------------------------------
(* The policy that files become *)

\* The scopes whose file lists a name that is known.
Listing(files, n) ==
  {scope \in DOMAIN files : n \in ReadConfig(files[scope]) /\ Name(n.path) \in Known}

\* Numbers of patterns have a first.
LEMMA FirstOf ==
  ASSUME NEW T, T \subseteq Nat, T # {}
  PROVE  \E i \in T : \A j \in T : i <= j
<1> DEFINE R == {ss \in Nat \X Nat : ss[1] < ss[2]}
<1>1. IsWellFoundedOn(R, Nat)
  BY NatLessThanWellFounded DEF OpToRel
<1>2. PICK i \in T : \A j \in T : ~ (<<j, i>> \in R)
  BY <1>1, WFMin
<1>3. \A j \in T : i <= j
  <2> TAKE j \in T
  <2>1. i \in Nat /\ j \in Nat
    OBVIOUS
  <2>2. ~ (j < i)
    BY <1>2, <2>1
  <2>. QED  BY <2>1, <2>2
<1>. QED  BY <1>3

\* _read_file: a name that is read stands on a line before its remark.
LEMMA ReadIsListed ==
  ASSUME NEW file, NEW n \in ReadConfig(file)
  PROVE  \E i \in DOMAIN file : \E j \in DOMAIN file[i] :
           /\ \A k \in 1..j : file[i][k] # Remark
           /\ file[i][j] = n
BY DEF ReadConfig, Content

\* The rule of a name is one of the scopes whose file lists it.
LEMMA RuleOfName ==
  ASSUME NEW files, NEW n \in DOMAIN ScopesForFields(files, Known)
  PROVE  /\ Listing(files, n) # {}
         /\ ScopesForFields(files, Known)[n] = OneOf(Listing(files, n))
<1>1. \A m : m \in DOMAIN ScopesForFields(files, Known) <=> Listing(files, m) # {}
  BY DEF ScopesForFields, Listing
<1>2. ScopesForFields(files, Known)[n] = OneOf(Listing(files, n))
  BY DEF ScopesForFields, Listing
<1>. QED  BY <1>1, <1>2

\* A rule that grants a name names a scope that is held.
LEMMA GrantingScope ==
  ASSUME NEW files, NEW n \in DOMAIN ScopesForFields(files, Known), NEW scopes,
         Grants(ScopesForFields(files, Known)[n], scopes)
  PROVE  \E scope \in scopes \cap DOMAIN files :
           n \in ReadConfig(files[scope]) /\ Name(n.path) \in Known
BY RuleOfName DEF Grants, OneOf, Listing

\* The parts of the policy that files become.
LEMMA PolicyOfFiles ==
  ASSUME NEW files, NEW universe, NEW p \in PoliciesFor(files, Known, universe)
  PROVE  /\ p.scopesForValues = ScopesForFields(files, Known)
         /\ p.defaultScope = {}
         /\ DOMAIN p.patterns \subseteq Nat
         /\ \A i \in DOMAIN p.patterns :
              \E w \in DOMAIN ScopesForFields(files, Known) :
                /\ w.wild
                /\ p.patterns[i].matches = {m \in universe : Below(m, w.path)}
                /\ p.patterns[i].rule = ScopesForFields(files, Known)[w]
<1> DEFINE rules == ScopesForFields(files, Known)
           wild == {n \in DOMAIN rules : n.wild}
           pattern(n) == [matches |-> {m \in universe : Below(m, n.path)}, rule |-> rules[n]]
<1>1. PICK order \in SetToSeqs(wild) :
        p = [scopesForValues |-> rules,
             patterns |-> [i \in DOMAIN order |-> pattern(order[i])], defaultScope |-> {}]
  BY DEF PoliciesFor
<1>2. order \in [1..Cardinality(wild) -> wild]
  BY DEF SetToSeqs
<1>. HIDE DEF rules
<1>3. DOMAIN p.patterns = 1..Cardinality(wild)
  BY <1>1, <1>2
<1>4. ASSUME NEW i \in DOMAIN p.patterns
      PROVE  \E w \in DOMAIN rules :
                /\ w.wild
                /\ p.patterns[i].matches = {m \in universe : Below(m, w.path)}
                /\ p.patterns[i].rule = rules[w]
  <2>1. order[i] \in wild
    BY <1>2, <1>3
  <2>2. p.patterns[i] = pattern(order[i])
    BY <1>1
  <2>. QED  BY <2>1, <2>2
<1>. QED  BY <1>1, <1>3, <1>4 DEF rules

\* A name below another begins with it.
LEMMA BelowBegins ==
  ASSUME NEW m, m.path \in Seq(STRING), NEW path \in Seq(STRING) \ {<<>>}, Below(m, path)
  PROVE  \E l \in 1..Len(m.path) : SubSeq(m.path, 1, l) = path
<1>1. Len(path) \in 1..Len(m.path) /\ SubSeq(m.path, 1, Len(path)) = SubSeq(path, 1, Len(path))
  BY DEF Below, IsStrictPrefix, IsPrefix
<1>2. SubSeq(path, 1, Len(path)) = path
  OBVIOUS
<1>. QED  BY <1>1, <1>2

\* read_dataset_fields_files, get_needed_scopes: whatever the files say, a user
\* is only granted names that a file of one of its scopes lists, by themselves or
\* by a wildcard, and that begin with a known name.
THEOREM Listed == Spec => []GrantedIsListed
<1>1. ASSUME NEW files \in FileSets, policy \in PoliciesFor(files, Known, UNION ValueSets),
             NEW n \in UNION ValueSets, Verdict(policy, {n}, held) = "granted"
      PROVE  /\ \E scope \in held \cap DOMAIN files : Lists(files[scope], n)
             /\ \E path \in {SubSeq(n.path, 1, l) : l \in 1..Len(n.path)} : Name(path) \in Known
  <2> DEFINE rules == ScopesForFields(files, Known)
             hits == {i \in DOMAIN policy.patterns : n \in policy.patterns[i].matches}
             first == CHOOSE i \in hits : \A j \in hits : i <= j
  <2>1. NeededScopes(policy, n) # {} /\ \A rule \in NeededScopes(policy, n) : Grants(rule, held)
    BY <1>1 DEF Verdict
  <2>2. /\ policy.scopesForValues = rules /\ policy.defaultScope = {}
        /\ DOMAIN policy.patterns \subseteq Nat
    BY <1>1, PolicyOfFiles
  <2>3. n.path \in Seq(STRING) \ {<<>>}
    BY NamesAssumption
  <2>4. CASE n \in DOMAIN rules
    <3>1. Grants(rules[n], held)
      BY <2>1, <2>2, <2>4 DEF NeededScopes
    <3>2. PICK scope \in held \cap DOMAIN files :
            n \in ReadConfig(files[scope]) /\ Name(n.path) \in Known
      BY <2>4, <3>1, GrantingScope
    <3>3. Lists(files[scope], n)
      BY <3>2, ReadIsListed DEF Lists
    <3>4. Len(n.path) \in 1..Len(n.path) /\ SubSeq(n.path, 1, Len(n.path)) = n.path
      BY <2>3
    <3>. QED  BY <3>2, <3>3, <3>4
  <2>5. CASE n \notin DOMAIN rules
    <3>1. hits # {} /\ NeededScopes(policy, n) = {policy.patterns[first].rule}
      BY <2>1, <2>2, <2>5 DEF NeededScopes
    <3>2. first \in hits
      BY <2>2, <3>1, FirstOf
    <3>3. PICK w \in DOMAIN rules :
            /\ w.wild
            /\ policy.patterns[first].matches = {m \in UNION ValueSets : Below(m, w.path)}
            /\ policy.patterns[first].rule = rules[w]
      <4>1. first \in DOMAIN policy.patterns
        BY <3>2
      <4>. HIDE DEF first
      <4>. QED  BY <1>1, <4>1, PolicyOfFiles
    <3>4. Below(n, w.path) /\ Grants(rules[w], held)
      BY <2>1, <3>1, <3>2, <3>3
    <3>5. PICK scope \in held \cap DOMAIN files :
            w \in ReadConfig(files[scope]) /\ Name(w.path) \in Known
      BY <3>4, GrantingScope
    <3>6. Lists(files[scope], n)
      BY <3>3, <3>4, <3>5, ReadIsListed DEF Lists
    <3>7. w.path \in Seq(STRING) \ {<<>>}
      BY <3>5, NamesAssumption DEF Name
    <3>8. \E l \in 1..Len(n.path) : SubSeq(n.path, 1, l) = w.path
      BY <2>3, <3>4, <3>7, BelowBegins
    <3>. QED  BY <3>5, <3>6, <3>8
  <2>. QED  BY <2>4, <2>5
<1>2. GrantedIsListed
  BY <1>1 DEF GrantedIsListed
<1>. QED  BY <1>2, PTL

=============================================================================

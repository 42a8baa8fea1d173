--------------------------- MODULE ParameterPolicy ---------------------------
(***************************************************************************)
(* Which parameter values a user may send: the ParameterPolicy class and   *)
(* the validate_parameters function of permissions.py.                     *)
(*                                                                         *)
(* A rule is what the code keeps for one value: None (always refused) or a *)
(* set of scopes of which the user needs one, the empty set asking for     *)
(* nothing.  A request body is a function from the parameters that are     *)
(* present to the set of their values; a scalar is a singleton, because    *)
(* validate_values wraps it in a list.  The order of a list changes only   *)
(* the wording of an error, so it is left out.                             *)
(***************************************************************************)
EXTENDS Naturals, Sequences

-----------------------------------------------------------------------------
(* Rules: the value side of scopes_for_values *)

Deny == [denied |-> TRUE, oneOf |-> {}]

OneOf(scopes) == [denied |-> FALSE, oneOf |-> scopes]

AllowValue == OneOf({})

\* Variant: the comparison the wrong way round.
GrantsReversed(rule, userScopes) ==
  /\ ~ rule.denied
  /\ rule.oneOf = {} \/ userScopes \subseteq rule.oneOf

Grants(rule, userScopes) ==
  /\ ~ rule.denied
  /\ rule.oneOf = {} \/ rule.oneOf \cap userScopes # {}

-----------------------------------------------------------------------------
(* Policies.  A default_scope of None is the empty set of rules, any other *)
(* default a singleton.  patterns lists the "prefix*" keys in the order of *)
(* the dictionary, each with the values its expression matches.            *)

ForValues(rules) ==
  [scopesForValues |-> rules, patterns |-> <<>>, defaultScope |-> {}]

ForValuesOrElse(rules, scopes) ==
  [ForValues(rules) EXCEPT !.defaultScope = {OneOf(scopes)}]

ForAllValues(scopes) == ForValuesOrElse([v \in {} |-> Deny], scopes)

AllowAll == ForAllValues({})

\* The rule for a value, or none at all (the ValueError): an exact key first,
\* then the first pattern that matches, then the default.
NeededScopes(policy, value) ==
  LET hits == {i \in DOMAIN policy.patterns : value \in policy.patterns[i].matches}
      first == CHOOSE i \in hits : \A j \in hits : i <= j
  IN IF value \in DOMAIN policy.scopesForValues
       THEN {policy.scopesForValues[value]}
     ELSE IF hits # {} THEN {policy.patterns[first].rule}
     ELSE policy.defaultScope

\* Variant: None is taken for the empty set.
AllowedValuesFalsy(policy, userScopes) ==
  {v \in DOMAIN policy.scopesForValues :
     LET rule == policy.scopesForValues[v]
     IN rule.oneOf = {} \/ rule.oneOf \cap userScopes # {}}

AllowedValues(policy, userScopes) ==
  {v \in DOMAIN policy.scopesForValues : Grants(policy.scopesForValues[v], userScopes)}

\* validate_values: an unknown value is reported before a refused one.
Verdict(policy, values, userScopes) ==
  IF \E v \in values : NeededScopes(policy, v) = {} THEN "InvalidValues"
  ELSE IF \E v \in values : \E rule \in NeededScopes(policy, v) : ~ Grants(rule, userScopes)
    THEN "AccessDenied"
  ELSE "granted"

\* Variant: only values with a single scope are counted.
ScopesUsedSingle(policy, values, userScopes) ==
  UNION {rule.oneOf \cap userScopes :
           rule \in {r \in UNION {NeededScopes(policy, v) : v \in values} :
                       \E s \in r.oneOf : r.oneOf = {s}}}

\* The scopes validate_values returns for an access it grants: of the
\* alternatives, only those the user holds.
ScopesUsed(policy, values, userScopes) ==
  UNION {rule.oneOf \cap userScopes :
           rule \in UNION {NeededScopes(policy, v) : v \in values}}

-----------------------------------------------------------------------------
(* validate_parameters *)

HasType(body) == "type" \in DOMAIN body /\ body["type"] # {""}

Failing(ruleset, body, userScopes) ==
  {p \in DOMAIN body \cap DOMAIN ruleset :
     Verdict(ruleset[p], body[p], userScopes) # "granted"}

\* The parameters are tried in the order of the JSON object, and the first
\* known one that fails ends the loop; unknown names are only reported when
\* none fails.  The client chooses the order, so any failing one may be it.
ValidateParameters(ruleset, body, userScopes) ==
  LET failing == Failing(ruleset, body, userScopes)
  IN IF ~ HasType(body) THEN {[verdict |-> "InvalidParameters", field |-> "type"]}
     ELSE IF failing # {}
       THEN {[verdict |-> Verdict(ruleset[p], body[p], userScopes), field |-> p] : p \in failing}
     ELSE IF \E p \in DOMAIN body : p \notin DOMAIN ruleset
       THEN {[verdict |-> "InvalidParameters", field |-> p] : p \in DOMAIN body \ DOMAIN ruleset}
     ELSE {[verdict |-> "granted", field |-> "type"]}

\* Variant: each parameter overwrites what the one before it needed.
ScopesUsedByLast(ruleset, body, userScopes) ==
  ScopesUsed(ruleset["type"], body["type"], userScopes)

ScopesUsedBy(ruleset, body, userScopes) ==
  UNION {ScopesUsed(ruleset[p], body[p], userScopes) : p \in DOMAIN body \cap DOMAIN ruleset}

=============================================================================

----------------------------- MODULE ScopeGrowth -----------------------------
(***************************************************************************)
(* A user whose token gains scopes, against one policy and one list of     *)
(* values of a parameter: what ParameterPolicy promises about them.        *)
(***************************************************************************)
EXTENDS ParameterPolicy

CONSTANTS
  Policies,    \* the policies considered
  ValueSets,   \* the values a request may give
  Scopes       \* every scope a token may hold

VARIABLES
  policy,      \* the policy of the parameter
  values,      \* what the request asks for
  held         \* the scopes of the token

vars == <<policy, values, held>>

Init ==
  /\ policy \in Policies
  /\ values \in ValueSets
  /\ held = {}

Gain(s) ==
  /\ s \in Scopes \ held
  /\ held' = held \cup {s}
  /\ UNCHANGED <<policy, values>>

Complete == held = Scopes /\ UNCHANGED vars

Next == (\E s \in Scopes : Gain(s)) \/ Complete

Spec == Init /\ [][Next]_vars

-----------------------------------------------------------------------------

\* get_allowed_values and validate_values: the values the proxy fills in for
\* its user are values that user could have asked for.
FilledInIsGranted ==
  Verdict(policy, AllowedValues(policy, held), held) = "granted"

\* validate_values: the scopes it reports as needed are held, and suffice on
\* their own for the access they are reported for.
NeededSuffice ==
  Verdict(policy, values, held) = "granted" =>
    /\ ScopesUsed(policy, values, held) \subseteq held
    /\ Verdict(policy, values, ScopesUsed(policy, values, held)) = "granted"

\* An additional scope never takes away what was granted, nor turns a refusal
\* into an error about the values or the other way round.
MoreScopesGrantMore ==
  [][/\ Verdict(policy, values, held) = "granted" => Verdict(policy, values, held)' = "granted"
     /\ Verdict(policy, values, held) = "InvalidValues"
          <=> Verdict(policy, values, held)' = "InvalidValues"]_vars

=============================================================================

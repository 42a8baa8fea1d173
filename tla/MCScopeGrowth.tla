---------------------------- MODULE MCScopeGrowth ----------------------------
(* Policies over a name and a wildcard with every kind of rule, and those   *)
(* that small directories of files become.                                  *)
EXTENDS FieldGrowth

MCScopes == {"s1", "s2", "s3"}

A == Name(<<"a">>)

C == Name(<<"c">>)
CX == Name(<<"c", "x">>)
CXY == Name(<<"c", "x", "y">>)
Z == Name(<<"z">>)
AllC == Wildcard(<<"c">>)
AllCX == Wildcard(<<"c", "x">>)

Rules == {Deny, AllowValue, OneOf({"s1"}), OneOf({"s2", "s3"})}

MCKnown == {A, C, CX, CXY}

\* s1 and s2 by file; the last line of s2 is a remark, Z is not known.
MCFileSets ==
  {[s \in {"s1", "s2"} |-> IF s = "s1" THEN file ELSE <<other, <<Z>>, <<Remark, A>>>>] :
     file \in {<<<<A>>, <<>>>>, <<<<C, Remark, A>>, <<CX>>>>, <<<<AllC>>, <<A>>>>,
               <<<<CX>>, <<AllCX>>>>},
     other \in {<<CX>>, <<AllC>>, <<AllCX, Remark, C>>, <<CXY>>}}

RulePolicies ==
  {[scopesForValues |-> [v \in {A, AllC} |-> IF v = A THEN r1 ELSE r2],
    patterns |-> IF p THEN <<[matches |-> {CX, CXY, AllC, AllCX}, rule |-> r2]>> ELSE <<>>,
    defaultScope |-> d] :
     r1 \in Rules, r2 \in Rules, p \in BOOLEAN, d \in {{}, {AllowValue}, {OneOf({"s3"})}}}

MCValueSets == SUBSET {A, AllC, CX, Z} \cup {{C}, {CXY}, {AllCX, A}}

MCPolicies == RulePolicies \cup PoliciesFromFiles

=============================================================================

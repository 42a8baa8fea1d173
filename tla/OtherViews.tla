------------------------------ MODULE OtherViews ------------------------------
(***************************************************************************)
(* BrpBewoningenView (views/bewoningen.py) and                             *)
(* BrpVerblijfplaatshistorieView (views/verblijfplaatshistorie.py): their  *)
(* rulesets, and what the first of them adds to an answer.                 *)
(***************************************************************************)
EXTENDS PersonenView

BewoningenScope == "benk-brp-bewoning-api"

VerblijfScope == "benk-brp-verblijfplaatshistorie-api"

PeriodParameters == {"peildatum", "datumTot", "datumVan"}

BewoningenRuleset ==
  [p \in PeriodParameters \cup {"type", "adresseerbaarObjectIdentificatie"} |->
     IF p = "type"
       THEN ForValues([t \in {"BewoningMetPeildatum", "BewoningMetPeriode"} |->
                         OneOf({BewoningenScope})])
     ELSE AllowAll]

VerblijfRuleset ==
  [p \in PeriodParameters \cup {"type", "burgerservicenummer"} |->
     IF p = "type"
       THEN ForValues([t \in {"RaadpleegMetPeildatum", "RaadpleegMetPeriode"} |->
                         OneOf({VerblijfScope})])
     ELSE AllowAll]

\* _insert_null_values completes every occupant with the documented names.
BewonerFields == {"burgerservicenummer"}

TransformBewoners(persons, volledig) ==
  IF volledig THEN {InsertNulls(p, BewonerFields) : p \in persons} ELSE persons

=============================================================================

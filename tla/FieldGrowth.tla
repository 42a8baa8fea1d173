------------------------------ MODULE FieldGrowth ------------------------------
(***************************************************************************)
(* ScopeGrowth with the policies that the configuration files become: what *)
(* the lines of the files mean to a user whose token gains their scopes.   *)
(***************************************************************************)
EXTENDS ScopeGrowth, FieldSets

CONSTANTS
  FileSets,    \* the directories of gegevenssets considered: scope -> file
  Known        \* fields-Persoon.csv

ASSUME FileSetsAssumption ==
  \A files \in FileSets : DOMAIN files \subseteq Scopes

\* A name is its parts and whether it ends in a wildcard.
ASSUME NamesAssumption ==
  LET given == UNION {DOMAIN p.scopesForValues : p \in Policies}
  IN Known \cup given \cup (UNION ValueSets)
       \subseteq [path : Seq(STRING) \ {<<>>}, wild : BOOLEAN]

PoliciesFromFiles ==
  UNION {PoliciesFor(files, Known, UNION ValueSets) : files \in FileSets}

Lists(file, n) ==
  \E i \in DOMAIN file : \E j \in DOMAIN file[i] :
    /\ \A k \in 1..j : file[i][k] # Remark
    /\ file[i][j] = n \/ (file[i][j].wild /\ Below(n, file[i][j].path))

\* read_dataset_fields_files, get_needed_scopes: a user is only granted a name
\* that the file of one of its scopes lists, by itself or by a wildcard, outside
\* of the remarks, and never one that Haal Centraal does not know.
GrantedIsListed ==
  \A files \in FileSets : policy \in PoliciesFor(files, Known, UNION ValueSets) =>
    \A n \in UNION ValueSets : Verdict(policy, {n}, held) = "granted" =>
      /\ \E scope \in held \cap DOMAIN files : Lists(files[scope], n)
      /\ \E path \in {SubSeq(n.path, 1, l) : l \in 1..Len(n.path)} : Name(path) \in Known

=============================================================================

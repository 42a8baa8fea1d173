------------------------------- MODULE FieldSets -------------------------------
(***************************************************************************)
(* fields.py: the configuration files that say which scope grants which    *)
(* names of fields, and the policy they become.                            *)
(*                                                                         *)
(* A name is its parts and whether it ends in ".*".  A line of a file is   *)
(* what stands on it: names and the "#" before a remark.  No file of the   *)
(* repository holds a ".*" today, but reading and policy provide for it.   *)
(***************************************************************************)
EXTENDS ParameterPolicy, SequencesExt

Name(path) == [path |-> path, wild |-> FALSE]

Wildcard(path) == [path |-> path, wild |-> TRUE]

Remark == Name(<<"#">>)

\* Variant: the remark is read as well.
ContentWhole(line) == ToSet(line) \ {Remark}

\* _read_file: what stands before the remark; a line of which nothing is left
\* does not count.
Content(line) ==
  {line[i] : i \in {i \in DOMAIN line : \A j \in 1..i : line[j] # Remark}}

ReadConfig(file) == UNION {Content(file[i]) : i \in DOMAIN file}

\* read_dataset_fields_files: the files by scope, without the names that are
\* not known.
ScopesForFields(files, known) ==
  LET lists(scope) == {n \in ReadConfig(files[scope]) : Name(n.path) \in known}
      listed == UNION {lists(scope) : scope \in DOMAIN files}
  IN [n \in listed |-> OneOf({scope \in DOMAIN files : n \in lists(scope)})]

\* "naam.*" matches what lies below "naam".
Below(n, path) == IsStrictPrefix(path, n.path) \/ (n.wild /\ n.path = path)

\* The policy for "fields", its patterns in an order the files leave open.
PoliciesFor(files, known, universe) ==
  LET rules == ScopesForFields(files, known)
      wild == {n \in DOMAIN rules : n.wild}
      pattern(n) == [matches |-> {m \in universe : Below(m, n.path)}, rule |-> rules[n]]
  IN {[scopesForValues |-> rules, patterns |-> [i \in DOMAIN order |-> pattern(order[i])],
       defaultScope |-> {}] : order \in SetToSeqs(wild)}

=============================================================================

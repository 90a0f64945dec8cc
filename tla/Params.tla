--------------------------------- MODULE Params ---------------------------------
(* ovrd_params.py gives parameters of a design new values in its sources, in *)
(* place; gen_parameter_list.py lists the parameters for the GUI.  The first *)
(* looks in source/<dut> and verif/<dut>, the second in verif/<dut> alone.   *)
(* A line is [kind, name, value], and its kind says which pattern it meets:  *)
(*   "declared"  both: it begins with a declaration, and has a semicolon;    *)
(*   "header"    that of the override alone, which begins at the start of    *)
(*               the line: the value is followed by a comma or by nothing;   *)
(*   "behind"    that of the list alone, which begins anywhere: a declaration*)
(*               commented out, or behind other text, with a semicolon;      *)
(*   "typed"     none of the two, with the word parameter; "other" without.  *)
(* The value is the text between = and the first semicolon.                  *)
EXTENDS Naturals, Sequences, SequencesExt

CONSTANT VerifFiles   \* the files of a design that are in verif/

(* The lines search_and_replace_parameters replaces as a whole, and those    *)
(* parse_parameters lists.                                                   *)
Replaceable == {"declared", "header"}
Listed == {"declared", "behind"}

(* Mutant: the line keeps the parameter's old value when it is in a header.  *)
ReplaceDeclared(line, values) ==
  IF line.kind = "declared" /\ line.name \in DOMAIN values
  THEN [kind |-> "declared", name |-> line.name, value |-> values[line.name]] ELSE line

Replace(line, values) ==
  IF line.kind \in Replaceable /\ line.name \in DOMAIN values
  THEN [kind |-> "declared", name |-> line.name, value |-> values[line.name]] ELSE line

SearchAndReplace(tree, values) ==
  [f \in DOMAIN tree |-> [i \in DOMAIN tree[f] |-> Replace(tree[f][i], values)]]

Found(tree, files, values) ==
  {n \in DOMAIN values : \E f \in files : \E i \in DOMAIN tree[f] :
     tree[f][i].kind \in Replaceable /\ tree[f][i].name = n}

(* The files in verif/ are read one after the other, those without the       *)
(* word parameter left out; equal lines count once.  (A file whose last line *)
(* has no end of line runs into the next one; that hides a row only behind   *)
(* a declaration in such a last line, and no source ends in a declaration.)  *)
ReadFiles(tree) ==
  UNION {Range(tree[f]) : f \in {f \in VerifFiles : \E l \in Range(tree[f]) : l.kind # "other"}}
ParameterList(tree) == {<<l.name, l.value>> : l \in {l \in ReadFiles(tree) : l.kind \in Listed}}
===============================================================================

-------------------------------- MODULE MCBuild --------------------------------
(* Two tests, t and t_1, the second named like the first copy of the first: *)
(* names are sequences of numbers, so that t_1_2 is <<1, 2>>.               *)
EXTENDS Build

MCTests == {<<>>, <<1>>}
MCNames == {<<>>} \cup {<<i>> : i \in 1..MaxBackups} \cup {<<1, i>> : i \in 1..MaxBackups}
MCBackupName == [x \in MCTests \X (1..MaxBackups) |-> Append(x[1], x[2])]

Line(f, l, t, o) == [flags |-> f, lists |-> l, tests |-> t, ovrd |-> o]
MCCommands == {
  Line({"full_run", "pp"}, {"tests"}, <<<<>>, <<1>>>>, None),
  Line({"full_run", "pp", "keep_going", "clean"}, {"regress"}, <<<<>>, <<>>>>, None),
  Line({"hw", "sim"}, {"tests"}, <<<<1>>, <<>>>>, "rv32e"),
  Line({"app", "fpga", "mif", "gui"}, {"tests"}, <<<<>>>>, None),
  Line({"full_run", "pp", "cmd", "gui", "mif", "fpga", "clean"}, {"tests"}, <<<<>>>>, "rv32e"),
  Line({"sim", "no_debug", "gui"}, {"tests"}, <<<<>>>>, None),
  Line({"app", "clean"}, {"tests", "regress"}, <<<<>>>>, None)}
===============================================================================

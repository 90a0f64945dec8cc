----------------------------- MODULE MCGuiCommand ------------------------------
(* Two duts that share no test; the list of one names a parameter twice,    *)
(* the other list is short.                                                  *)
EXTENDS GuiCommand, TLC
CONSTANTS d1, d2, t1, t2
MCTestsOf == d1 :> {t1} @@ d2 :> {t2}
MCWritten == {Command(d2, d1, {t1}, {"p"}, <<[param |-> "p", text |-> "3", normal |-> TRUE]>>, {"app"}, NoBoxes)}
MCParamsOf == d1 :> <<<<"p", "1">>, <<"p", "2">>>> @@ d2 :> <<<<"q", "1">>>>
===============================================================================

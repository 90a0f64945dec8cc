------------------------------ MODULE MCGuiOutput ------------------------------
(* Two commands of two lines each: a window closed, or a command run, while *)
(* the other one is being read.                                             *)
EXTENDS GuiOutput
===============================================================================

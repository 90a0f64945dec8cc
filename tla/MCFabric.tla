-------------------------------- MODULE MCFabric --------------------------------
(***************************************************************************)
(* A mesh small enough to explore.                                         *)
(***************************************************************************)
EXTENDS Fabric

(* 3 x 3, the mesh of the SoC: from corner to corner both ways, with a     *)
(* third flow that joins one of them two hops before its end.              *)
CornerFlows == {<<<<1, 1>>, <<3, 3>>>>, <<<<3, 3>>, <<1, 1>>>>, <<<<2, 1>>, <<3, 3>>>>}
CornerStalls == {<<3, 3>>}
=================================================================================

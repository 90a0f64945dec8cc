CONSTANTS
  d1 = d1
  d2 = d2
  t1 = t1
  t2 = t2
  None = None
  Duts = {d1, d2}
  TestsOf <- MCTestsOf
  ParamsOf <- MCParamsOf
  HasPp = {d1}
  Switches = {"app", "full_run", "pp", "fpga", "regress"}
  Values = {"3"}
  BoxValues = {"level0"}
  Written <- MCWritten
SPECIFICATION Spec
INVARIANTS PanelAgrees DisplayCurrent ParamsOfFrame

------------------------------- MODULE GuiProofs -------------------------------
(* The option panel: one error message settles a contradiction, the text is *)
(* what the boxes say, and no parameter of another dut gets into it.        *)
EXTENDS GuiCommand, TLAPS

(* While the widgets of another dut are made only -pp can have become wrong.*)
OnlyPp == ~TestsAndRegress(tests, flags) /\ ~FullRunAndParts(flags) /\ ~FpgaAndRegress(flags)

IInv ==
  /\ PanelAgrees
  /\ pc # "idle" /\ "dut" \notin by_hand => OnlyPp

Conflicts(d, ts, fs) ==
  TestsAndRegress(ts, fs) \/ FullRunAndParts(fs) \/ PpMissing(d, fs) \/ FpgaAndRegress(fs)

LEMMA TakesBackOnConflict ==
  ASSUME NEW d, NEW ts, NEW fs PROVE TakenBack(d, ts, fs) = {} <=> ~Conflicts(d, ts, fs)
  BY DEF TakenBack, Conflicts

(* If all the contradictions of fs are of one kind, an update ends them.   *)
OneKind(d, ts, fs) ==
  \/ ~FullRunAndParts(fs) /\ ~PpMissing(d, fs) /\ ~FpgaAndRegress(fs)
  \/ ~TestsAndRegress(ts, fs) /\ ~PpMissing(d, fs) /\ ~FpgaAndRegress(fs)
  \/ ~TestsAndRegress(ts, fs) /\ ~FullRunAndParts(fs) /\ ~FpgaAndRegress(fs)
  \/ ~FullRunAndParts(fs) /\ ~PpMissing(d, fs) /\ ~TestsAndRegress(ts, fs)
  \/ "regress" \in fs /\ ~FullRunAndParts(fs) /\ ~PpMissing(d, fs) /\ TestsAndRegress(ts, fs)

LEMMA UpdateSettles ==
  ASSUME NEW fs, Update(fs), OneKind(dut', tests', fs) PROVE TakenBack(dut', tests', flags') = {}
<1>1. flags' = fs \ TakenBack(dut', tests', fs)
  BY DEF Update
<1>2. ~Conflicts(dut', tests', flags')
  BY <1>1 DEF OneKind, Conflicts, TakenBack, TestsAndRegress, FullRunAndParts, PpMissing, FpgaAndRegress
<1> QED
  BY <1>2, TakesBackOnConflict

(* An event that leaves the dut alone: if the panel agreed, it agrees.     *)
LEMMA EventKeeps ==
  ASSUME NEW fs, IInv, Event, dut' = dut, Update(fs),
         "dut" \notin by_hand => OneKind(dut, tests', fs)
  PROVE IInv'
<1>1. "dut" \notin by_hand' => "dut" \notin by_hand \/ TakenBack(dut', tests', fs) = {}
  BY DEF Update
<1>2. CASE "dut" \notin by_hand
  BY <1>2, UpdateSettles DEF IInv, PanelAgrees, Event
<1>3. CASE TakenBack(dut', tests', fs) = {}
  BY <1>3 DEF IInv, PanelAgrees, Event, Update
<1>4. CASE "dut" \in by_hand'
  BY <1>4 DEF IInv, PanelAgrees, Event
<1> QED
  BY <1>1, <1>2, <1>3, <1>4

LEMMA NextKeeps == IInv /\ [Next]_vars => IInv'
<1> SUFFICES ASSUME IInv, [Next]_vars PROVE IInv'
  OBVIOUS
<1>0. pc = "idle" /\ "dut" \notin by_hand => ~Conflicts(dut, tests, flags)
  BY TakesBackOnConflict DEF IInv, PanelAgrees
<1>1. ASSUME NEW f \in Switches, Toggle(f) PROVE IInv'
  <2>1. "dut" \notin by_hand => OneKind(dut, tests', ToggleIn(f, flags))
    BY <1>0, <1>1 DEF Toggle, Event, widgets, OneKind, Conflicts, ToggleIn, TestsAndRegress,
                      FullRunAndParts, PpMissing, FpgaAndRegress
  <2> QED
    BY <1>1, <2>1, EventKeeps DEF Toggle, widgets
<1>2. ASSUME NEW ts, Event, dut' = dut, tests' = ts, Update(flags) PROVE IInv'
  <2>1. "dut" \notin by_hand => OneKind(dut, tests', flags)
    BY <1>0, <1>2 DEF Event, OneKind, Conflicts
  <2> QED
    BY <1>2, <2>1, EventKeeps
<1>3. ASSUME NEW t \in AllTests, ToggleTest(t) PROVE IInv'
  BY <1>2, <1>3 DEF ToggleTest
<1>4. ASSUME NEW i \in DOMAIN entries, ToggleParam(i) PROVE IInv'
  BY <1>2, <1>4 DEF ToggleParam
<1>5. ASSUME NEW i, NEW v, TypeParam(i, v) PROVE IInv'
  BY <1>2, <1>5 DEF TypeParam, EditEntry
<1>6. ASSUME NEW b, NEW v, SelectValue(b, v) PROVE IInv'
  BY <1>2, <1>6 DEF SelectValue, EditBox
<1>7. CASE ToggleTests \/ ToggleParams
  BY <1>2, <1>7 DEF ToggleTests, ToggleParams
<1>8. ASSUME NEW what, ByHand(what), Event, UNCHANGED tests, dut' = dut \/ what = "dut" PROVE IInv'
  BY <1>8 DEF ByHand, IInv, Event, PanelAgrees
<1>9. ASSUME NEW i, NEW v, PasteParam(i, v) \/ TypeValue(i, v) \/ EditCommand(v) \/ TypeDut(v) PROVE IInv'
  BY <1>8, <1>9 DEF PasteParam, EditEntry, TypeValue, EditBox, EditCommand, TypeDut, widgets
<1>10. ASSUME NEW d \in Duts, SelectDut(d) PROVE IInv'
  BY <1>0, <1>10 DEF IInv, SelectDut, PanelAgrees, OnlyPp, Conflicts
<1>11. CASE NextParam
  <2>1. Update(flags) /\ tests' = tests /\ pc' = "params" /\ pc = "params"
    BY <1>11 DEF NextParam
  <2>2. "dut" \notin by_hand' => OnlyPp'
    BY <2>1 DEF IInv, OnlyPp, Update, TakenBack, TestsAndRegress, FullRunAndParts, FpgaAndRegress
  <2> QED
    BY <2>1, <2>2 DEF IInv, PanelAgrees
<1>12. CASE Selected
  <2>1. Update(flags) /\ tests' = tests /\ dut' = dut /\ pc' = "idle" /\ pc = "params"
    BY <1>12 DEF Selected, widgets
  <2>2. CASE "dut" \notin by_hand
    <3>1. OneKind(dut', tests', flags)
      BY <2>1, <2>2 DEF IInv, OnlyPp, OneKind
    <3>2. TakenBack(dut', tests', flags') = {}
      BY <2>1, <3>1, UpdateSettles
    <3> QED
      BY <2>1, <3>2 DEF IInv, PanelAgrees
  <2>3. CASE "dut" \in by_hand
    BY <2>1, <2>3 DEF IInv, PanelAgrees, Update
  <2> QED
    BY <2>2, <2>3
<1>13. CASE UNCHANGED vars
  BY <1>13 DEF IInv, vars, widgets, PanelAgrees, OnlyPp
<1> QED
  BY <1>1, <1>3, <1>4, <1>5, <1>6, <1>7, <1>9, <1>10, <1>11, <1>12, <1>13 DEF Next

LEMMA InitAgrees == Init => IInv
<1> SUFFICES ASSUME Init PROVE IInv
  OBVIOUS
<1>1. TakenBack(dut, tests, flags) = {}
  BY DEF Init, TakenBack, TestsAndRegress, FullRunAndParts, PpMissing, FpgaAndRegress
<1> QED
  BY <1>1 DEF Init, IInv, PanelAgrees

(* For every set of duts, tests, parameters and switches, the boxes agree  *)
(* once an event is over, unless a dut was typed that no update has seen   *)
(* through (update_command_display).                                       *)
THEOREM OneMessageIsEnough == Spec => []PanelAgrees
<1>1. IInv => PanelAgrees
  BY DEF IInv
<1> QED
  BY <1>1, InitAgrees, NextKeeps, PTL DEF Spec
-------------------------------------------------------------------------------
(* The text and the boxes: an update that shows no message shows the boxes.*)
LEMMA UpdateShows ==
  ASSUME NEW fs, Update(fs), ~dialog'
  PROVE cmd_display' = Command(dut', frame', tests', params', entries', flags', boxes')
<1>1. TakenBack(dut', tests', fs) = {} /\ flags' = fs \ TakenBack(dut', tests', fs)
  BY DEF Update
<1>2. flags' = fs
  BY <1>1
<1> QED
  BY <1>1, <1>2 DEF Update

LEMMA NextShows == DisplayCurrent /\ [Next]_vars => DisplayCurrent'
<1> SUFFICES ASSUME DisplayCurrent, [Next]_vars PROVE DisplayCurrent'
  OBVIOUS
<1>1. ASSUME NEW fs, Update(fs) PROVE DisplayCurrent'
  BY <1>1, UpdateShows DEF DisplayCurrent
<1>2. ASSUME NEW f, Toggle(f) \/ ToggleTest(f) \/ ToggleParam(f) PROVE DisplayCurrent'
  BY <1>1, <1>2 DEF Toggle, ToggleTest, ToggleParam
<1>3. ASSUME NEW i, NEW v, TypeParam(i, v) \/ SelectValue(i, v) PROVE DisplayCurrent'
  BY <1>1, <1>3 DEF TypeParam, SelectValue
<1>4. ASSUME NEW what, ByHand(what) PROVE DisplayCurrent'
  BY <1>4 DEF ByHand, DisplayCurrent
<1>5. ASSUME NEW i, NEW v, PasteParam(i, v) \/ TypeValue(i, v) \/ EditCommand(v) \/ TypeDut(v)
      PROVE DisplayCurrent'
  BY <1>4, <1>5 DEF PasteParam, TypeValue, EditCommand, TypeDut
<1>6. ASSUME ToggleTests \/ ToggleParams \/ NextParam \/ Selected PROVE DisplayCurrent'
  BY <1>1, <1>6 DEF ToggleTests, ToggleParams, NextParam, Selected
<1>7. ASSUME NEW d \in Duts, SelectDut(d) PROVE DisplayCurrent'
  BY <1>7 DEF SelectDut, DisplayCurrent
<1>8. CASE UNCHANGED vars
  BY <1>8 DEF vars, widgets, DisplayCurrent
<1> QED
  BY <1>2, <1>3, <1>5, <1>6, <1>7, <1>8 DEF Next

(* For every set of duts, tests, parameters and switches, the command that *)
(* Run executes is what the boxes say, but after an error message and      *)
(* after something typed or pasted that no event is bound to.              *)
THEOREM TextIsCurrent == Spec => []DisplayCurrent
<1>1. Init => DisplayCurrent
  BY DEF Init, DisplayCurrent
<1> QED
  BY <1>1, NextShows, PTL DEF Spec
-------------------------------------------------------------------------------
(* The rows of the parameter frame are a beginning of the list of its dut, *)
(* and that is the dut of the box unless one was typed.                    *)
RowsInv ==
  /\ entries \in Seq(Entries)
  /\ \A i \in DOMAIN entries :
       /\ frame \in Duts /\ i \in DOMAIN ParamsOf[frame]
       /\ entries[i].param = ParamsOf[frame][i][1]
  /\ pc = "params" => frame \in Duts

DutInv == (pc = "params" => dut = frame) /\ (dut # frame => dut_typed)

OwnInv == RowsInv /\ DutInv /\ ParamsOfFrame

Shown == cmd_display = Command(dut, frame, tests, params, entries, flags, boxes)

LEMMA CommandOfRows == RowsInv /\ DutInv /\ Shown => ParamsOfFrame
<1> SUFFICES ASSUME RowsInv, DutInv, Shown PROVE ParamsOfFrame
  OBVIOUS
<1>1. /\ cmd_display.frame = frame /\ cmd_display.dut = dut
      /\ cmd_display.params = {<<entries[i].param, entries[i].text>> : i \in RowsOf(params, entries)}
  BY DEF Shown, Command
<1>2. DOMAIN entries = 1..Len(entries) /\ Len(entries) \in Nat
  BY DEF RowsInv
<1> SUFFICES ASSUME NEW x \in cmd_display.params
             PROVE /\ frame # None
                   /\ \E i \in DOMAIN ParamsOf[frame] : ParamsOf[frame][i][1] = x[1]
                   /\ \A y \in cmd_display.params : y[1] = x[1] => y = x
  BY <1>1 DEF ParamsOfFrame, DutInv
<1>3. PICK i \in RowsOf(params, entries) : x = <<entries[i].param, entries[i].text>>
  BY <1>1
<1>4. i \in DOMAIN entries /\ frame # None /\ i \in DOMAIN ParamsOf[frame] /\ ParamsOf[frame][i][1] = x[1]
  BY <1>3, DutsAssumption DEF RowsOf, RowsInv
<1>5. ASSUME NEW y \in cmd_display.params, y[1] = x[1] PROVE y = x
  <2>1. PICK j \in RowsOf(params, entries) : y = <<entries[j].param, entries[j].text>>
    BY <1>1
  <2>2. entries[i].param = entries[j].param
    BY <1>3, <1>5, <2>1
  <2>3. i = j
    BY <1>2, <2>2 DEF RowsOf
  <2> QED
    BY <1>3, <2>1, <2>3
<1> QED
  BY <1>4, <1>5

(* After an update the command is the new one, or still the old one.       *)
LEMMA UpdateOwns ==
  ASSUME NEW fs, Update(fs), ParamsOfFrame, RowsInv', DutInv', dut_typed => dut_typed' \/ ~dialog'
  PROVE OwnInv'
<1>1. CASE TakenBack(dut', tests', fs) = {}
  <2>1. Shown'
    BY <1>1, UpdateShows DEF Update, Shown
  <2> QED
    BY <2>1, CommandOfRows, PTL DEF OwnInv
<1>2. CASE TakenBack(dut', tests', fs) # {}
  BY <1>2 DEF Update, OwnInv, ParamsOfFrame
<1> QED
  BY <1>1, <1>2

LEMMA RowsKept ==
  ASSUME RowsInv, UNCHANGED <<entries, frame>>, pc' = "params" => pc = "params" PROVE RowsInv'
  BY DEF RowsInv

LEMMA RowForms ==
  ASSUME NEW r \in Entries PROVE
    /\ \A b \in BOOLEAN : [r EXCEPT !.normal = b] \in Entries /\ [r EXCEPT !.normal = b].param = r.param
    /\ \A v \in AllValues : [r EXCEPT !.text = v] \in Entries /\ [r EXCEPT !.text = v].param = r.param
  BY DEF Entries

(* A row whose box or text changes stays the row of its parameter.         *)
LEMMA RowChanges ==
  ASSUME RowsInv, NEW i \in DOMAIN entries, NEW e \in Entries, e.param = entries[i].param,
         entries' = [entries EXCEPT ![i] = e], frame' = frame, pc' # "params"
  PROVE RowsInv'
<1>1. entries' \in Seq(Entries) /\ DOMAIN entries' = DOMAIN entries
  BY DEF RowsInv
<1>2. \A j \in DOMAIN entries : entries'[j].param = entries[j].param
  BY DEF RowsInv
<1> QED
  BY <1>1, <1>2 DEF RowsInv

LEMMA EntryRows ==
  ASSUME RowsInv, NEW i \in DOMAIN entries, NEW v \in AllValues, EditEntry(i, v) PROVE RowsInv'
<1> DEFINE e == [entries[i] EXCEPT !.text = v]
<1>1. entries[i] \in Entries
  BY DEF RowsInv
<1>2. e \in Entries /\ e.param = entries[i].param
  BY <1>1, RowForms
<1>3. entries' = [entries EXCEPT ![i] = e] /\ frame' = frame /\ pc' = "idle"
  BY DEF EditEntry, Event
<1> HIDE DEF e
<1> QED
  BY <1>2, <1>3, RowChanges

LEMMA NextOwns == OwnInv /\ [Next]_vars => OwnInv'
<1> SUFFICES ASSUME OwnInv, [Next]_vars PROVE OwnInv'
  OBVIOUS
<1>0. RowsInv /\ DutInv /\ ParamsOfFrame
  BY DEF OwnInv
<1>1. ASSUME NEW fs, Update(fs), UNCHANGED <<dut, frame, dut_typed>>, RowsInv', Event PROVE OwnInv'
  <2>1. DutInv'
    BY <1>0, <1>1 DEF DutInv, Event
  <2> QED
    BY <1>0, <1>1, <2>1, UpdateOwns
<1>2. ASSUME NEW fs, Update(fs), UNCHANGED <<dut, frame, dut_typed, entries>>, Event PROVE OwnInv'
  BY <1>0, <1>1, <1>2, RowsKept DEF Event
<1>3. ASSUME NEW what, ByHand(what), UNCHANGED <<dut, frame, dut_typed, cmd_display>>, RowsInv', Event
      PROVE OwnInv'
  BY <1>0, <1>3 DEF OwnInv, ByHand, DutInv, ParamsOfFrame, Event
<1>4. ASSUME NEW f, Toggle(f) \/ ToggleTest(f) PROVE OwnInv'
  BY <1>2, <1>4 DEF Toggle, ToggleTest, widgets
<1>5. ASSUME NEW i \in DOMAIN entries, ToggleParam(i) PROVE OwnInv'
  <2> DEFINE e == [entries[i] EXCEPT !.normal = entries[i].param \in params']
  <2>1. entries[i] \in Entries /\ (entries[i].param \in params') \in BOOLEAN
    BY <1>0 DEF RowsInv
  <2>2. e \in Entries /\ e.param = entries[i].param
    BY <2>1, RowForms
  <2>3. entries' = [entries EXCEPT ![i] = e] /\ frame' = frame /\ pc' = "idle"
    BY <1>5 DEF ToggleParam, Event
  <2> HIDE DEF e
  <2>4. RowsInv'
    BY <1>0, <2>2, <2>3, RowChanges
  <2> QED
    BY <1>1, <1>5, <2>4 DEF ToggleParam
<1>6. ASSUME NEW i \in DOMAIN entries, NEW v \in AllValues, TypeParam(i, v) \/ PasteParam(i, v) PROVE OwnInv'
  <2>1. RowsInv'
    BY <1>0, <1>6, EntryRows DEF TypeParam, PasteParam
  <2>2. Event /\ UNCHANGED <<dut, frame, dut_typed>>
    BY <1>6 DEF TypeParam, PasteParam, EditEntry
  <2>3. CASE TypeParam(i, v)
    BY <1>1, <2>1, <2>2, <2>3 DEF TypeParam
  <2>4. CASE PasteParam(i, v)
    <3>1. ByHand("text") /\ UNCHANGED cmd_display
      BY <2>4 DEF PasteParam
    <3> QED
      BY <1>3, <2>1, <2>2, <3>1
  <2> QED
    BY <1>6, <2>3, <2>4
<1>7. ASSUME NEW i \in DOMAIN entries PROVE entries[i].text \in AllValues /\ Values \subseteq AllValues
  <2>1. entries[i] \in Entries
    BY <1>0 DEF RowsInv
  <2> QED
    BY <2>1 DEF Entries, AllValues
<1>8. ASSUME NEW b, NEW v, SelectValue(b, v) PROVE OwnInv'
  BY <1>2, <1>8 DEF SelectValue, EditBox
<1>9. ASSUME NEW b, NEW v, TypeValue(b, v) \/ EditCommand(v) \/ TypeDut(v) PROVE OwnInv'
  <2>1. RowsInv' /\ Event
    BY <1>0, <1>9, RowsKept DEF TypeValue, EditBox, EditCommand, TypeDut, widgets, Event
  <2>2. CASE TypeValue(b, v)
    <3>1. ByHand("text") /\ UNCHANGED <<dut, frame, dut_typed, cmd_display>>
      BY <2>2 DEF TypeValue, EditBox
    <3> QED
      BY <1>3, <2>1, <3>1
  <2>3. CASE EditCommand(v)
    BY <1>0, <2>1, <2>3 DEF EditCommand, widgets, ByHand, OwnInv, DutInv, ParamsOfFrame, Event
  <2>4. CASE TypeDut(v)
    BY <1>0, <2>1, <2>4 DEF TypeDut, ByHand, OwnInv, DutInv, ParamsOfFrame, Event
  <2> QED
    BY <1>9, <2>2, <2>3, <2>4
<1>10. CASE ToggleTests \/ ToggleParams
  BY <1>2, <1>10 DEF ToggleTests, ToggleParams
<1>11. ASSUME NEW d \in Duts, SelectDut(d) PROVE OwnInv'
  BY <1>0, <1>11 DEF SelectDut, OwnInv, RowsInv, DutInv, ParamsOfFrame
<1>12. CASE NextParam
  <2> DEFINE x == ParamsOf[frame][Len(entries) + 1]
  <2>1. /\ frame \in Duts /\ UNCHANGED <<dut, frame, dut_typed>> /\ pc = "params" /\ pc' = "params"
        /\ entries' = Append(entries, NewRow(x)) /\ Len(entries) < Len(ParamsOf[frame])
    BY <1>0, <1>12 DEF NextParam, RowsInv
  <2>2. ParamsOf[frame] \in Seq(Pairs) /\ entries \in Seq(Entries)
    BY <1>0, <2>1, ListsAssumption DEF RowsInv
  <2>3. Len(entries) + 1 \in DOMAIN ParamsOf[frame] /\ x \in Pairs
    BY <2>1, <2>2
  <2>4. NewRow(x) \in Entries /\ NewRow(x).param = x[1]
    BY <2>3 DEF NewRow, Entries, Parameters, AllValues
  <2>5. entries' \in Seq(Entries) /\ DOMAIN entries' = 1..(Len(entries) + 1)
    BY <2>1, <2>2, <2>4
  <2>6. \A i \in DOMAIN entries' : i \in DOMAIN ParamsOf[frame] /\ entries'[i].param = ParamsOf[frame][i][1]
    BY <1>0, <2>1, <2>2, <2>3, <2>4 DEF RowsInv
  <2>7. RowsInv' /\ DutInv'
    BY <1>0, <2>1, <2>5, <2>6 DEF RowsInv, DutInv
  <2> QED
    BY <1>0, <1>12, <2>1, <2>7, UpdateOwns DEF NextParam
<1>13. CASE Selected
  <2>1. /\ pc = "params" /\ pc' = "idle" /\ UNCHANGED <<dut, frame, entries>> /\ Update(flags)
        /\ dut_typed' = (dut_typed /\ dialog')
    BY <1>13 DEF Selected, widgets
  <2>2. RowsInv' /\ DutInv'
    BY <1>0, <2>1, RowsKept DEF DutInv
  <2> QED
    BY <1>0, <2>1, <2>2, UpdateOwns
<1>14. CASE UNCHANGED vars
  BY <1>0, <1>14, RowsKept DEF vars, widgets, OwnInv, DutInv, ParamsOfFrame
<1> QED
  BY <1>4, <1>5, <1>6, <1>7, <1>8, <1>9, <1>10, <1>11, <1>12, <1>13, <1>14 DEF Next

(* For every set of duts and all their lists, a command that was not       *)
(* written by hand gives values only to parameters of the dut that is      *)
(* shown, one to each, and that dut is its -dut unless one was typed       *)
(* (find_param_entry_widget).                                              *)
THEOREM OnlyOwnParams == Spec => []ParamsOfFrame
<1>1. Init => OwnInv
  <2> SUFFICES ASSUME Init PROVE OwnInv
    OBVIOUS
  <2>1. RowsInv /\ DutInv /\ Shown
    BY DEF Init, RowsInv, DutInv, Shown
  <2> QED
    BY <2>1, CommandOfRows DEF OwnInv
<1>2. OwnInv => ParamsOfFrame
  BY DEF OwnInv
<1> QED
  BY <1>1, <1>2, NextOwns, PTL DEF Spec
===============================================================================

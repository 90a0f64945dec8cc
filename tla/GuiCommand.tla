------------------------------ MODULE GuiCommand -------------------------------
(* The option panel of gui_build.py: the widgets from which                 *)
(* update_command_display puts a build command together, and the text of    *)
(* that command, which is what the Run button executes.                     *)
EXTENDS Naturals, Sequences

CONSTANTS
  Duts,      \* directories of verif/
  TestsOf,   \* [Duts -> sets of tests]
  ParamsOf,  \* [Duts -> sequences of <<parameter, value>>]: the generated lists
  HasPp,     \* the duts with a post-process script
  Switches,  \* the check boxes of the panel that are used
  Values,    \* what is typed into the entry of a parameter
  BoxValues, \* what is selected in, or typed into, the box of a check box
  Written,   \* commands somebody writes into the text by hand
  None       \* the empty string

AllTests == UNION {TestsOf[d] : d \in Duts}
Pairs == UNION {{ParamsOf[d][i] : i \in DOMAIN ParamsOf[d]} : d \in Duts}
Parameters == {x[1] : x \in Pairs}
AllValues == Values \cup {x[2] : x \in Pairs}

ASSUME DutsAssumption == HasPp \subseteq Duts /\ None \notin Duts
ASSUME ListsAssumption == \A d \in Duts : ParamsOf[d] \in Seq(Pairs)
ASSUME SwitchesAssumption ==
  Switches \subseteq {"app", "hw", "sim", "full_run", "pp", "fpga", "regress",
                      "gui", "v", "clean", "mif", "keep_going", "cmd", "cfg", "top"}

Boxes == {"cfg", "regress", "top"} \cap Switches
BoxTexts == [Boxes -> BoxValues \cup {None}]
Commands == [dut : Duts \cup {None}, frame : Duts \cup {None}, tests : SUBSET AllTests,
             params : SUBSET (Parameters \X AllValues), flags : SUBSET Switches, boxes : BoxTexts]
ASSUME WrittenAssumption == Written \subseteq Commands

VARIABLES
  dut,          \* text of the dut box
  frame,        \* the dut whose tests and parameters have widgets
  tests,        \* tests_vars that are set, of any dut
  params,       \* params_vars that are set, of any dut
  entries,      \* the rows of the parameter frame: name, text, may it be edited
  enabled,      \* which of the two frames are shown: "tests", "params"
  flags,        \* the check boxes that are set
  boxes,        \* the texts of the boxes of -cfg, -regress and -top
  cmd_display,  \* the command shown, in a text that can be edited
  pc,           \* "idle", or the selection of a dut in progress
  \* history
  dialog,       \* the last update ended with an error message
  by_hand,      \* what was typed or pasted since an update was through, that
                \* no update follows: a "dut", a "text", the "command" itself
  dut_typed     \* a dut was typed, and none was selected since

widgets == <<dut, frame, tests, params, entries, enabled, boxes>>
vars == <<widgets, flags, cmd_display, pc, dialog, by_hand, dut_typed>>

Entries == [param : Parameters, text : AllValues, normal : BOOLEAN]

(* Mutant: every row of a parameter counts.                                *)
RowsOfAll(ps, es) == {i \in DOMAIN es : es[i].param \in ps}

(* Only a parameter with a row in the frame has a value: that of the first *)
(* row when the list names it twice (find_param_entry_widget).             *)
RowsOf(ps, es) ==
  {i \in DOMAIN es : es[i].param \in ps /\ \A j \in 1..(i - 1) : es[j].param # es[i].param}
Command(d, fr, ts, ps, es, fs, bs) ==
  [dut |-> d, frame |-> fr, tests |-> ts, flags |-> fs,
   params |-> {<<es[i].param, es[i].text>> : i \in RowsOf(ps, es)},
   boxes |-> [b \in Boxes |-> IF b \in fs THEN bs[b] ELSE None]]
NoBoxes == [b \in Boxes |-> None]

TypeOK ==
  /\ dut \in Duts \cup {None} /\ frame \in Duts \cup {None}
  /\ tests \subseteq AllTests /\ params \subseteq Parameters
  /\ entries \in Seq(Entries)
  /\ enabled \subseteq {"tests", "params"} /\ flags \subseteq Switches
  /\ boxes \in BoxTexts /\ cmd_display \in Commands
  /\ pc \in {"idle", "params"}
  /\ dialog \in BOOLEAN /\ dut_typed \in BOOLEAN /\ by_hand \subseteq {"dut", "text", "command"}

Init ==
  /\ dut = None /\ frame = None /\ tests = {} /\ params = {} /\ entries = <<>>
  /\ enabled = {} /\ flags = {} /\ boxes = NoBoxes
  /\ cmd_display = Command(None, None, {}, {}, <<>>, {}, NoBoxes)
  /\ pc = "idle" /\ dialog = FALSE /\ by_hand = {} /\ dut_typed = FALSE
-------------------------------------------------------------------------------
TestsAndRegress(ts, fs) == ts # {} /\ "regress" \in fs
FullRunAndParts(fs) == "full_run" \in fs /\ {"app", "hw", "sim"} \cap fs # {}
PpMissing(d, fs) == "pp" \in fs /\ d \notin HasPp
FpgaAndRegress(fs) == {"fpga", "regress"} \subseteq fs

(* The first contradiction takes one option back; {} when there is none.   *)
TakenBack(d, ts, fs) ==
  IF TestsAndRegress(ts, fs) THEN {"regress"}
  ELSE IF FullRunAndParts(fs) THEN {"full_run"}
  ELSE IF PpMissing(d, fs) THEN {"pp"}
  ELSE IF FpgaAndRegress(fs) THEN {"fpga"} ELSE {}

(* Mutant: the option is not taken back.                                   *)
UpdateKeeps(fs) ==
  LET back == TakenBack(dut', tests', fs)
  IN /\ flags' = fs /\ dialog' = (back # {})
     /\ IF back = {}
        THEN /\ cmd_display' = Command(dut', frame', tests', params', entries', fs, boxes')
             /\ by_hand' = {}
        ELSE UNCHANGED <<cmd_display, by_hand>>

(* update_command_display, with the flags as the event left them: after an *)
(* error message it returns before it comes to the text.                   *)
Update(fs) ==
  LET back == TakenBack(dut', tests', fs)
  IN /\ flags' = fs \ back
     /\ dialog' = (back # {})
     /\ IF back = {}
        THEN /\ cmd_display' = Command(dut', frame', tests', params', entries', fs, boxes')
             /\ by_hand' = {}
        ELSE UNCHANGED <<cmd_display, by_hand>>

Event == pc = "idle" /\ pc' = "idle"

ToggleIn(x, set) == IF x \in set THEN set \ {x} ELSE set \cup {x}

(* add_checkbox_option, create_combobox_option_with_checkbox               *)
Toggle(f) == Event /\ UNCHANGED <<widgets, dut_typed>> /\ Update(ToggleIn(f, flags))

ToggleTest(t) ==
  /\ Event /\ "tests" \in enabled /\ frame # None /\ t \in TestsOf[frame]
  /\ tests' = ToggleIn(t, tests)
  /\ UNCHANGED <<dut, frame, params, entries, enabled, boxes, dut_typed>> /\ Update(flags)

ToggleParam(i) ==
  /\ Event /\ "params" \in enabled
  /\ params' = ToggleIn(entries[i].param, params)
  /\ entries' = [entries EXCEPT ![i].normal = entries[i].param \in params']
  /\ UNCHANGED <<dut, frame, tests, enabled, boxes, dut_typed>> /\ Update(flags)

EditEntry(i, v) ==
  /\ Event /\ "params" \in enabled /\ entries[i].normal
  /\ entries' = [entries EXCEPT ![i].text = v]
  /\ UNCHANGED <<dut, frame, tests, params, enabled, boxes, dut_typed>>

(* A key that is released in the entry of a parameter (on_entry_change).   *)
TypeParam(i, v) == EditEntry(i, v) /\ Update(flags)

(* What is changed without a key, or in a box that binds none, is followed *)
(* by nothing until the next event.                                        *)
ByHand(what) == by_hand' = by_hand \cup {what} /\ UNCHANGED <<flags, dialog>>

PasteParam(i, v) == EditEntry(i, v) /\ ByHand("text") /\ UNCHANGED cmd_display

EditBox(b, v) ==
  /\ Event /\ b \in flags /\ boxes' = [boxes EXCEPT ![b] = v]
  /\ UNCHANGED <<dut, frame, tests, params, entries, enabled, dut_typed>>

SelectValue(b, v) == EditBox(b, v) /\ Update(flags)
TypeValue(b, v) == EditBox(b, v) /\ ByHand("text") /\ UNCHANGED cmd_display

(* The text itself, which Run and Print read back.                         *)
EditCommand(c) ==
  /\ Event /\ cmd_display' = c /\ ByHand("command") /\ UNCHANGED <<widgets, dut_typed>>

(* A frame that is hidden unsets its boxes, of every dut.                  *)
Hidden(set, f) == IF f \in enabled' THEN set ELSE {}

(* Mutant: the text is left as it is.                                      *)
ToggleTestsQuiet ==
  /\ Event /\ enabled' = ToggleIn("tests", enabled)
  /\ tests' = Hidden(tests, "tests")
  /\ UNCHANGED <<dut, frame, params, entries, boxes, flags, cmd_display, dialog, by_hand, dut_typed>>

ToggleTests ==
  /\ Event /\ enabled' = ToggleIn("tests", enabled)
  /\ tests' = Hidden(tests, "tests")
  /\ UNCHANGED <<dut, frame, params, entries, boxes, dut_typed>> /\ Update(flags)

ToggleParams ==
  /\ Event /\ enabled' = ToggleIn("params", enabled)
  /\ params' = Hidden(params, "params")
  /\ UNCHANGED <<dut, frame, tests, entries, boxes, dut_typed>> /\ Update(flags)

(* A dut can be typed into its box, which binds no key either.             *)
TypeDut(d) ==
  /\ Event /\ dut' = d /\ dut_typed' = TRUE /\ ByHand("dut")
  /\ UNCHANGED <<frame, tests, params, entries, enabled, boxes, cmd_display>>

(* on_combobox_select: new widgets for the tests, then for each parameter, *)
(* with an update after every one of them, and an update at the end.       *)
SelectDut(d) ==
  /\ pc = "idle" /\ pc' = "params"
  /\ dut' = d /\ frame' = d /\ entries' = <<>>
  /\ UNCHANGED <<tests, params, enabled, boxes, flags, cmd_display, dialog, by_hand, dut_typed>>

NewRow(x) == [param |-> x[1], text |-> x[2], normal |-> x[1] \in params]

NextParam ==
  /\ pc = "params" /\ pc' = "params" /\ Len(entries) < Len(ParamsOf[frame])
  /\ entries' = Append(entries, NewRow(ParamsOf[frame][Len(entries) + 1]))
  /\ UNCHANGED <<dut, frame, tests, params, enabled, boxes, dut_typed>> /\ Update(flags)

Selected ==
  /\ pc = "params" /\ pc' = "idle" /\ Len(entries) = Len(ParamsOf[frame])
  /\ UNCHANGED widgets /\ Update(flags) /\ dut_typed' = (dut_typed /\ dialog')

Next ==
  \/ \E f \in Switches : Toggle(f)
  \/ \E t \in AllTests : ToggleTest(t)
  \/ \E i \in DOMAIN entries :
       \/ ToggleParam(i)
       \/ \E v \in Values \cup {entries[i].text} : TypeParam(i, v)
       \/ \E v \in Values : PasteParam(i, v)
  \/ \E b \in Boxes, v \in BoxValues : SelectValue(b, v) \/ TypeValue(b, v)
  \/ ToggleTests \/ ToggleParams
  \/ \E c \in Written : EditCommand(c)
  \/ \E d \in Duts : TypeDut(d) \/ SelectDut(d)
  \/ NextParam \/ Selected
Spec == Init /\ [][Next]_vars
-------------------------------------------------------------------------------
(* The boxes agree with one another once an event is over: one error       *)
(* message is enough, unless a dut was typed that no update has seen       *)
(* through (update_command_display, which takes one option back).          *)
PanelAgrees == pc = "idle" /\ "dut" \notin by_hand => TakenBack(dut, tests, flags) = {}

(* The command shown, which is the one Run executes, is the one the boxes  *)
(* stand for, but after an error message (update_command_display returns   *)
(* before it comes to the text) and after something typed or pasted that   *)
(* no event is bound to: a dut, a value of -cfg, -regress or -top, a       *)
(* parameter's value without a key, or the command itself.                 *)
DisplayCurrent ==
  pc = "idle" /\ ~dialog /\ by_hand = {} =>
    cmd_display = Command(dut, frame, tests, params, entries, flags, boxes)

(* A command that was not written by hand gives values only to parameters  *)
(* of the dut whose parameters are shown, one value to each, and that dut  *)
(* is the -dut of the command too unless a dut was typed: what was set for *)
(* another dut stays behind (find_param_entry_widget).                     *)
ParamsOfFrame ==
  "command" \notin by_hand =>
    /\ \A x \in cmd_display.params :
         /\ cmd_display.frame # None
         /\ \E i \in DOMAIN ParamsOf[cmd_display.frame] : ParamsOf[cmd_display.frame][i][1] = x[1]
         /\ \A y \in cmd_display.params : y[1] = x[1] => y = x
    /\ cmd_display.dut # cmd_display.frame => dut_typed
===============================================================================

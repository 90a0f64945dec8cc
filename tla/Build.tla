--------------------------------- MODULE Build ---------------------------------
(***************************************************************************)
(* The build script (build.py), invoked again and again on one working     *)
(* tree: it compiles the program and the hardware of each test of a list,  *)
(* simulates it, post-processes the result, loads the FPGA and reports.    *)
(* The files it leaves are the state one invocation hands to the next.     *)
(*                                                                         *)
(* Each stage of a test is an action; the tools it starts (gcc, vlog, vsim,*)
(* quartus, the post-process) succeed or fail as they like.  Sources carry *)
(* version numbers and products the version they were made from.           *)
(***************************************************************************)
EXTENDS Integers, Sequences, FiniteSets

CONSTANTS
  Tests,       \* stems of the test files of the dut
  Names,       \* names of directories in target/<dut>/tests/
  BackupName,  \* [Tests \X Backups -> Names]: the name "<test>_<i>"
  MaxBackups,  \* bound on the number i of a copy
  Commands,    \* the command lines that are typed
  Overrides,   \* the csv files of scripts/ovrd_params/
  MaxBuilds,   \* bound on the number of invocations
  MaxEdits,    \* bound on the number of edits of the sources
  None

Flags == {"app", "hw", "sim", "full_run", "fpga", "mif", "gui", "pp", "no_debug",
          "keep_going", "cmd", "clean"}
Lists == {"all", "regress", "tests"}

(* A command line: its switches, which of the three ways to name tests it  *)
(* uses, the tests these name, and the override file of its -cfg.          *)
Command == [flags : SUBSET Flags, lists : SUBSET Lists, tests : Seq(Names),
            ovrd : Overrides \cup {None}]

Backups == 1..MaxBackups

ASSUME NamesAssumption ==
  /\ Tests \subseteq Names
  /\ None \notin {0} /\ None \notin Names /\ None \notin Overrides
ASSUME BackupAssumption ==
  /\ MaxBackups \in Nat
  /\ BackupName \in [Tests \X Backups -> Names]
ASSUME CommandsAssumption == \A c \in Commands : c \in Command /\ c.tests # <<>>
ASSUME BoundsAssumption == MaxBuilds \in Nat /\ MaxEdits \in Nat

(* What a simulation can end with: the tool does not start, it counts an   *)
(* "Error", the transcript says "ERROR", a tracker differs, or all is well.*)
Started == {"errors", "ERROR", "diff", "clean"}
Outcomes == {"raise"} \cup Started
Runs == [build : 1..MaxBuilds, k : Nat]
Results == [run : Runs, outcome : Started]
Versions == 0..MaxEdits

(* What is compiled: a version of the hardware, and the override file that *)
(* was applied to it last, to all of it or only partly.                    *)
Partly == "partly"
Libraries == [ver : Versions, params : Overrides \cup {None, Partly}]

(* The directory of a test: the memory images in gcc_files, the trackers of*)
(* the last simulation and the transcript.                                 *)
EmptyDir == [inst |-> None, data |-> None, log |-> None, transcript |-> None]
Directories == [inst : Versions \cup {None}, data : Versions \cup {None},
                log : Results \cup {None}, transcript : Results \cup {None}]

(* What a test was simulated with, and how that ended.                     *)
Simulations == [lib : Libraries \cup {None}, inst : Versions \cup {None},
                data : Versions \cup {None}, outcome : Started]

(* The directory of the simulator: its library and the last transcript.    *)
Opened == [work : Libraries \cup {None}, transcript : Results \cup {None}]

ASSUME NoneAssumption ==
  /\ None \notin Commands \cup Directories \cup Simulations \cup Opened
  /\ None \notin Versions /\ None \notin Results

VARIABLES
  \* the sources
  program,     \* [Tests -> version, and whether it has initialised data]
  hw,          \* version of the hardware, and the override file applied to it
  \* target/ and FPGA/
  dir,         \* [Names -> directory or None]
  modelsim,    \* None until made; the library "work" and the last transcript
  mif,         \* the images in FPGA/mif: whose instructions, whose data
  \* the running script
  pc,          \* its stage, or "shell" when none is running
  cmd, tests, k,
  fail_flag,   \* of each test of the list
  app_flag, mif_flag,  \* of the current one
  hw_compilation, run_status,
  \* history
  builds,      \* invocations so far
  edits,
  exit_code,   \* of the last invocation, None while it runs
  fresh,       \* the current test had no directory when it began
  ran,         \* what the current test was simulated with
  quiet,       \* mif_gen.py failed in the current test, which nobody sees
  unseen       \* an override of this run failed, which nobody sees either

sources == <<program, hw>>
files == <<dir, modelsim, mif>>
script == <<cmd, tests, k, fail_flag, app_flag, mif_flag, hw_compilation, run_status>>
history == <<builds, edits, exit_code, fresh, ran, quiet, unseen>>
vars == <<sources, files, pc, script, history>>

Stages == {"backup", "app", "hw", "sim", "fpga", "mif", "gui", "pp", "no_debug", "end"}
test == tests[k]
Asked(f) == f \in cmd.flags
Wants(f) == Asked(f) \/ (f \in {"app", "hw", "sim"} /\ Asked("full_run"))

TypeOK ==
  /\ program \in [Tests -> [ver : Versions, data : BOOLEAN]]
  /\ hw \in Libraries
  /\ dir \in [Names -> Directories \cup {None}]
  /\ modelsim \in Opened \cup {None}
  /\ mif \in [inst : (Tests \X Versions) \cup {None}, data : (Tests \X Versions) \cup {None}]
  /\ pc \in Stages \cup {"shell"}
  /\ cmd \in Commands \cup {None}
  /\ tests \in Seq(Tests) /\ k \in Nat
  /\ fail_flag \in [DOMAIN tests -> BOOLEAN]
  /\ {app_flag, mif_flag, hw_compilation, fresh, quiet, unseen} \subseteq BOOLEAN
  /\ run_status \in {"PASSED", "FAILED"}
  /\ builds \in 0..MaxBuilds /\ edits \in 0..MaxEdits
  /\ exit_code \in {None, 0, 1}
  /\ ran \in Simulations \cup {None}

Init ==
  /\ program \in [Tests -> [ver : {0}, data : BOOLEAN]]
  /\ hw = [ver |-> 0, params |-> None]
  /\ dir = [n \in Names |-> None]
  /\ modelsim = None
  /\ mif = [inst |-> None, data |-> None]
  /\ pc = "shell" /\ cmd = None /\ tests = <<>> /\ k = 1
  /\ fail_flag = <<>> /\ app_flag = FALSE /\ mif_flag = FALSE
  /\ hw_compilation = FALSE /\ run_status = "PASSED"
  /\ builds = 0 /\ edits = 0 /\ exit_code = None /\ fresh = FALSE /\ ran = None
  /\ quiet = FALSE /\ unseen = FALSE
-------------------------------------------------------------------------------
(* Between two invocations somebody works on a program or on the hardware. *)
Edit ==
  /\ pc = "shell" /\ edits < MaxEdits
  /\ edits' = edits + 1
  /\ \/ \E t \in Tests, d \in BOOLEAN :
          program' = [program EXCEPT ![t] = [ver |-> edits + 1, data |-> d]] /\ UNCHANGED hw
     \/ hw' = [hw EXCEPT !.ver = edits + 1] /\ UNCHANGED program
  /\ UNCHANGED <<files, pc, script, builds, exit_code, fresh, ran, quiet, unseen>>

(* The checks of the command line, made after -clean has done its work.    *)
Rejected(c) ==
  \/ Cardinality(c.lists) > 1
  \/ "app" \in c.flags /\ c.lists = {}
  \/ \E i \in DOMAIN c.tests : c.tests[i] \notin Tests

Start(c) ==
  /\ pc = "shell" /\ builds < MaxBuilds
  /\ builds' = builds + 1
  /\ dir' = IF {"clean", "cmd"} \cap c.flags = {"clean"} THEN [n \in Names |-> None] ELSE dir
  /\ cmd' = c /\ k' = 1
  /\ app_flag' = FALSE /\ mif_flag' = FALSE /\ hw_compilation' = FALSE /\ run_status' = "PASSED"
  /\ IF Rejected(c)
     THEN pc' = "shell" /\ tests' = <<>> /\ exit_code' = 1
     ELSE pc' = "backup" /\ tests' = c.tests /\ exit_code' = None
  /\ fail_flag' = [i \in DOMAIN tests' |-> FALSE]
  /\ fresh' = FALSE /\ ran' = None /\ quiet' = FALSE /\ unseen' = FALSE
  /\ UNCHANGED <<sources, modelsim, mif, edits>>
-------------------------------------------------------------------------------
(* The stages of a test.  Do(s, next) leaves stage s for the next one.     *)
Do(s, next) == pc = s /\ pc' = next /\ UNCHANGED <<cmd, tests, k, run_status, builds, edits, exit_code>>
Skip(s, next) == Do(s, next) /\ UNCHANGED <<sources, files, fail_flag, app_flag, mif_flag,
                                            hw_compilation, fresh, ran, quiet, unseen>>
Fail(b) == fail_flag' = [fail_flag EXCEPT ![k] = @ \/ b]

(* ovrd_params.py rewrites the sources in place.  Its exit code is not     *)
(* looked at: it may also have changed nothing, or part of them.  (It is   *)
(* called for big_core; of another design it always changes nothing.)      *)
Applied == IF cmd.ovrd = None \/ Asked("cmd") THEN hw ELSE [hw EXCEPT !.params = cmd.ovrd]
Overridden == {Applied} \cup IF cmd.ovrd = None \/ Asked("cmd") THEN {}
                             ELSE {hw, [hw EXCEPT !.params = Partly]}

(* An exception nobody catches, an override file that does not exist, or   *)
(* Ctrl-C between two tools or in the override: exit code 1.               *)
Die == /\ pc' = "shell" /\ exit_code' = 1
       /\ hw' \in IF pc = "hw" /\ Wants("hw") /\ ~fail_flag[k] THEN Overridden ELSE {hw}
       /\ UNCHANGED <<program, files, script, builds, edits, fresh, ran, quiet, unseen>>

FreeBackups(t) == {i \in Backups : dir[BackupName[t, i]] = None}
(* Mutant: the first backup is written again.                              *)
FirstFreeIsOne(t) == 1

FirstFree(t) == CHOOSE i \in FreeBackups(t) : \A j \in FreeBackups(t) : i <= j

(* The directory an earlier run left is copied, also under -cmd, and loses *)
(* its logs; then a test after a failed one is skipped.                    *)
Backup ==
  /\ Do("backup", IF run_status = "FAILED" /\ ~Asked("keep_going") THEN "end" ELSE "app")
  /\ IF dir[test] = None
     THEN UNCHANGED dir
     ELSE /\ FreeBackups(test) # {}
          /\ dir' = [dir EXCEPT ![BackupName[test, FirstFree(test)]] = dir[test],
                                ![test].log = IF Asked("cmd") THEN @ ELSE None]
  /\ Fail(pc' = "end")
  /\ fresh' = (dir[test] = None) /\ ran' = None /\ quiet' = FALSE
  /\ app_flag' = FALSE /\ mif_flag' = FALSE
  /\ UNCHANGED <<sources, modelsim, mif, hw_compilation, unseen>>

(* _compile_sw: gcc, objdump and objcopy in the test's own directory, then *)
(* the image is split where the data memory begins.  A program without     *)
(* data leaves data_mem.sv as it finds it.                                 *)
SwResults(d) ==
  LET made == IF d = None THEN EmptyDir ELSE d
      new == [made EXCEPT !.inst = program[test].ver,
                          !.data = IF program[test].data THEN program[test].ver ELSE @]
  IN IF Asked("cmd") THEN {[dir |-> made, fail |-> FALSE]}
     ELSE {[dir |-> new, fail |-> FALSE], [dir |-> made, fail |-> TRUE]}

CompileSw ==
  \/ /\ Do("app", "hw") /\ Wants("app") /\ ~fail_flag[k]
     /\ \E r \in SwResults(dir[test]) : dir' = [dir EXCEPT ![test] = r.dir] /\ Fail(r.fail)
     /\ app_flag' = TRUE
     /\ UNCHANGED <<sources, modelsim, mif, mif_flag, hw_compilation, fresh, ran, quiet, unseen>>
  \/ Skip("app", "hw") /\ (~Wants("app") \/ fail_flag[k])

(* Mutant: the override is applied behind the compilation.                 *)
HwResultsBefore(rtl) ==
  LET work == IF modelsim = None THEN None ELSE modelsim.work
  IN IF hw_compilation \/ Asked("cmd") THEN {[work |-> work, done |-> TRUE, fail |-> FALSE]}
     ELSE {[work |-> work, done |-> FALSE, fail |-> TRUE],
           [work |-> work, done |-> TRUE, fail |-> TRUE],
           [work |-> hw, done |-> TRUE, fail |-> FALSE]}

(* _compile_hw: the override is applied for every test, the compiler runs  *)
(* once, and counts as done when it reports errors.                        *)
HwResults(rtl) ==
  LET work == IF modelsim = None THEN None ELSE modelsim.work
  IN IF hw_compilation \/ Asked("cmd") THEN {[work |-> work, done |-> TRUE, fail |-> FALSE]}
     ELSE {[work |-> work, done |-> FALSE, fail |-> TRUE],
           [work |-> work, done |-> TRUE, fail |-> TRUE],
           [work |-> rtl, done |-> TRUE, fail |-> FALSE]}

CompileHw ==
  \/ /\ Do("hw", "sim") /\ Wants("hw") /\ ~fail_flag[k]
     /\ hw' \in Overridden /\ unseen' = (unseen \/ hw' # Applied)
     /\ \E r \in HwResults(hw') :
          /\ modelsim' = [work |-> r.work,
                          transcript |-> IF modelsim = None THEN None ELSE modelsim.transcript]
          /\ hw_compilation' = r.done /\ Fail(r.fail)
     /\ UNCHANGED <<program, dir, mif, app_flag, mif_flag, fresh, ran, quiet>>
  \/ Skip("hw", "sim") /\ (~Wants("hw") \/ fail_flag[k])

(* _start_simulation: the transcript is kept only by a test that has none. *)
SimRun(o) ==
  LET d == IF dir[test] = None THEN EmptyDir ELSE dir[test]
      result == [run |-> [build |-> builds, k |-> k], outcome |-> o]
      new == IF o \in Started THEN result ELSE modelsim.transcript
  IN /\ modelsim' = [modelsim EXCEPT !.transcript = new]
     /\ dir' = [dir EXCEPT ![test] =
          [d EXCEPT !.log = IF o \in Started \ {"errors"} THEN result ELSE @,
                    !.transcript = IF @ = None THEN new ELSE @]]
     /\ ran' = IF o \in Started
               THEN [lib |-> modelsim.work, inst |-> d.inst, data |-> d.data, outcome |-> o]
               ELSE None
     /\ Fail(o \in {"raise", "errors"})

SimOutcomes ==
  IF Asked("cmd") THEN {"printed"}
  ELSE IF modelsim.work = None THEN {"raise", "errors"} ELSE Outcomes

Simulate ==
  \/ /\ Do("sim", "fpga") /\ Wants("sim") /\ ~fail_flag[k] /\ modelsim # None
     /\ \E o \in SimOutcomes : SimRun(o)
     /\ UNCHANGED <<sources, mif, app_flag, mif_flag, hw_compilation, fresh, quiet, unseen>>
  \/ pc = "sim" /\ Wants("sim") /\ ~fail_flag[k] /\ modelsim = None /\ Die
  \/ Skip("sim", "fpga") /\ (~Wants("sim") \/ fail_flag[k])

(* _start_mif: the second image is made from data_mem.sv when there is     *)
(* one, and left alone when there is none.  A mif_gen.py that cannot be    *)
(* started fails the test; the exit code of one that ran is not looked at. *)
Kept == [mif |-> mif, fail |-> FALSE, quiet |-> quiet]
Image(ver, old) == IF ver = None THEN old ELSE <<test, ver>>
Remade(inst, data) ==
  {r \in [mif : [inst : {mif.inst, inst}, data : {mif.data, data}], fail : BOOLEAN, quiet : BOOLEAN] :
     IF r.fail THEN r.mif.data = mif.data /\ r.quiet = quiet
     ELSE r.quiet = (r.mif # [inst |-> inst, data |-> data])}

(* Mutant: data_mem.sv is not found.                                       *)
MifResultsNoData(d) ==
  IF Asked("cmd") THEN {Kept} ELSE Remade(Image(d.inst, mif.inst), mif.data)

MifResults(d) ==
  IF Asked("cmd") THEN {Kept} ELSE Remade(Image(d.inst, mif.inst), Image(d.data, mif.data))

(* Compile the program if this test has not yet, then make the images      *)
(* unless they are made; quartus runs on a test that has not failed.       *)
MakeImages(remake, quartus) ==
  /\ \E sw \in IF app_flag THEN {[dir |-> dir[test], fail |-> FALSE]} ELSE SwResults(dir[test]) :
       \E m \in IF mif_flag /\ ~remake THEN {Kept} ELSE MifResults(sw.dir) :
         \E q \in IF quartus /\ ~Asked("cmd") /\ ~(fail_flag[k] \/ sw.fail \/ m.fail)
                  THEN BOOLEAN ELSE {FALSE} :
           /\ dir' = [dir EXCEPT ![test] = sw.dir] /\ mif' = m.mif /\ quiet' = m.quiet
           /\ Fail(sw.fail \/ m.fail \/ q)
  /\ app_flag' = TRUE /\ mif_flag' = TRUE
  /\ UNCHANGED <<sources, modelsim, hw_compilation, fresh, ran, unseen>>

Fpga ==
  \/ Do("fpga", "mif") /\ Asked("fpga") /\ ~fail_flag[k] /\ MakeImages(FALSE, TRUE)
  \/ Skip("fpga", "mif") /\ (~Asked("fpga") \/ fail_flag[k])

Mif ==
  \/ Do("mif", "gui") /\ Asked("mif") /\ MakeImages(TRUE, FALSE)
  \/ Skip("mif", "gui") /\ ~Asked("mif")

Gui ==
  \/ /\ Do("gui", "pp") /\ Asked("gui") /\ modelsim # None
     /\ \E b \in IF Asked("cmd") THEN {FALSE} ELSE BOOLEAN : Fail(b)
     /\ UNCHANGED <<sources, files, app_flag, mif_flag, hw_compilation, fresh, ran, quiet, unseen>>
  \/ pc = "gui" /\ Asked("gui") /\ modelsim = None /\ Die
  \/ Skip("gui", "pp") /\ ~Asked("gui")

(* Mutant: the post-process looks at the trackers alone.                   *)
PpFailsTrackersOnly(d) == d = None \/ (d # None /\ (d.log = None \/ d.log.outcome = "diff"))

(* The post-process of mem_ss: no trackers, a tracker that differs or an   *)
(* "ERROR" in the test's transcript fail it.  (That of lotr does not look  *)
(* at the transcript, that of big_core compares nothing.)                  *)
PpFails(d) ==
  \/ d = None
  \/ d # None /\ \/ d.log = None \/ d.transcript = None
                 \/ d.log # None /\ d.log.outcome = "diff"
                 \/ d.transcript # None /\ d.transcript.outcome = "ERROR"

(* A post-process that cannot be started ends the script (Interrupt below):*)
(* its return value is unbound.                                            *)
PostProcess ==
  \/ /\ Do("pp", "no_debug") /\ Asked("pp") /\ ~fail_flag[k]
     /\ Fail(~Asked("cmd") /\ PpFails(dir[test]))
     /\ UNCHANGED <<sources, files, app_flag, mif_flag, hw_compilation, fresh, ran, quiet, unseen>>
  \/ Skip("pp", "no_debug") /\ (~Asked("pp") \/ fail_flag[k])

NoDebug ==
  \/ /\ Do("no_debug", "end") /\ Asked("no_debug")
     /\ \/ dir' = [dir EXCEPT ![test] = IF Asked("cmd") THEN @ ELSE None]
        \/ UNCHANGED dir
     /\ UNCHANGED <<sources, modelsim, mif, fail_flag, app_flag, mif_flag,
                    hw_compilation, fresh, ran, quiet, unseen>>
  \/ Skip("no_debug", "end") /\ ~Asked("no_debug")

(* Mutant: each test writes the status, so the last one decides.           *)
StatusOfLast(failed) == IF failed THEN "FAILED" ELSE "PASSED"

(* The end of a test, and of the list: what the script returns.            *)
StatusAfter(failed) == IF failed THEN "FAILED" ELSE run_status

End ==
  /\ pc = "end"
  /\ run_status' = StatusAfter(fail_flag[k])
  /\ IF k < Len(tests)
     THEN pc' = "backup" /\ k' = k + 1 /\ UNCHANGED exit_code
     ELSE pc' = "shell" /\ UNCHANGED k /\ exit_code' = IF run_status' = "FAILED" THEN 1 ELSE 0
  /\ UNCHANGED <<sources, files, cmd, tests, fail_flag, app_flag, mif_flag, hw_compilation,
                 builds, edits, fresh, ran, quiet, unseen>>

(* Ctrl-C outside a tool, or a missing directory; what goes wrong inside a *)
(* tool, Ctrl-C included, its "try" takes for a failure of the tool.       *)
Interrupt == pc \in Stages /\ Die

Stage == Backup \/ CompileSw \/ CompileHw \/ Simulate \/ Fpga \/ Mif \/ Gui \/ PostProcess
         \/ NoDebug \/ End
Next == Edit \/ (\E c \in Commands : Start(c)) \/ Stage \/ Interrupt
Spec == Init /\ [][Next]_vars
-------------------------------------------------------------------------------
(* The status and the exit code report what happened to the tests of the   *)
(* list: a failed test is never forgotten (main, the loop and its end).    *)
StatusHonest ==
  /\ pc \in Stages => (run_status = "FAILED" <=> \E i \in 1..(k - 1) : fail_flag[i])
  /\ exit_code = 0 => \A i \in DOMAIN tests : ~fail_flag[i]

Passed == pc = "end" /\ ~fail_flag[k] /\ ~Asked("cmd")

(* A test that passes was simulated, on the hardware as it is now (unless  *)
(* -keep_going goes on after a compilation with errors, and but for the    *)
(* parameters of an override that failed in this run, whose exit code      *)
(* nobody looks at), with the program as it is now, and with its own data  *)
(* if the run began without a directory (_compile_sw, _compile_hw,         *)
(* _start_simulation).                                                     *)
PassedIsReal ==
  Passed /\ Wants("sim") =>
    /\ ran # None
    /\ Wants("hw") /\ ~Asked("keep_going") => ran.lib.ver = hw.ver /\ (unseen \/ ran.lib = hw)
    /\ Wants("app") => ran.inst = program[test].ver
    /\ Wants("app") /\ fresh =>
         ran.data = IF program[test].data THEN program[test].ver ELSE None

(* A test that passes the post-process of mem_ss had no differing tracker, *)
(* in a first run and in a rerun, and no error either in a directory of    *)
(* its own: in a rerun the transcript that is looked at may be an earlier  *)
(* one (_start_simulation, _post_process).                                 *)
PassedIsClean ==
  Passed /\ Wants("sim") /\ Asked("pp") =>
    /\ ran.outcome # "diff"
    /\ fresh => ran.outcome = "clean"

(* After -fpga or -mif the instructions on the board are those of this     *)
(* test's sources as they are now, and so are the data of a program that   *)
(* has some (the app_flag and mif_flag of a test), unless mif_gen.py       *)
(* failed, which the script does not notice.  Of a program without data    *)
(* nothing is said: its data image is the one the last test left, or is    *)
(* made from the data_mem.sv of an earlier run.                            *)
BoardHasThisProgram ==
  Passed /\ (Asked("fpga") \/ Asked("mif")) /\ ~quiet =>
    LET image == <<test, program[test].ver>>
    IN mif.inst = image /\ (program[test].data => mif.data = image)

(* The trackers of an earlier run stay somewhere under target/ until they  *)
(* are cleaned or the test asks for no debug (main, the numbered copies).  *)
TrackersKept ==
  [][\A n \in Names : dir[n] # None /\ dir[n].log # None =>
       \/ \E m \in Names : dir'[m] # None /\ dir'[m].log = dir[n].log
       \/ cmd' # None /\ {"clean", "no_debug"} \cap cmd'.flags # {}]_vars
===============================================================================

------------------------------ MODULE BuildProofs ------------------------------
(* What the build script returns and what it leaves behind, for every list  *)
(* of tests, every command line and every outcome of the tools: a failed    *)
(* test is never forgotten, the trackers of an earlier run are never lost,  *)
(* and a test that passes was simulated as its sources are now.             *)
EXTENDS Build, WellFoundedInduction, TLAPS

(* The flags of the tests that are behind, and the place in the list.      *)
ListInv ==
  /\ tests \in Seq(Names)
  /\ fail_flag \in [1..Len(tests) -> BOOLEAN]
  /\ pc \in Stages => k \in 1..Len(tests)

StatusInv ==
  /\ run_status \in {"PASSED", "FAILED"}
  /\ pc \in Stages => exit_code = None
  /\ StatusHonest

IInv == ListInv /\ StatusInv

(* The one way a stage touches the flags: the current test's may be set.   *)
OnlyThisTest ==
  fail_flag' = fail_flag \/ \E b \in BOOLEAN : fail_flag' = [fail_flag EXCEPT ![k] = b]

InStage == /\ pc \in Stages /\ pc' \in Stages
           /\ UNCHANGED <<tests, k, run_status, exit_code>>

(* A step within a test keeps the invariant, whatever it does to the files.*)
LEMMA WithinATest == IInv /\ InStage /\ OnlyThisTest => IInv'
<1> SUFFICES ASSUME IInv, InStage, OnlyThisTest PROVE IInv'
  OBVIOUS
<1>1. k \in 1..Len(tests) /\ Len(tests) \in Nat
  BY DEF IInv, ListInv, InStage
<1>2. fail_flag' \in [1..Len(tests) -> BOOLEAN] /\ \A i \in 1..(k - 1) : fail_flag'[i] = fail_flag[i]
  BY <1>1 DEF OnlyThisTest, IInv, ListInv
<1>3. ListInv'
  BY <1>1, <1>2 DEF IInv, ListInv, InStage
<1>4. run_status \in {"PASSED", "FAILED"} /\ exit_code = None
     /\ (run_status = "FAILED" <=> \E i \in 1..(k - 1) : fail_flag[i])
  BY DEF IInv, StatusInv, StatusHonest, InStage
<1>5. (run_status' = "FAILED" <=> \E i \in 1..(k' - 1) : fail_flag'[i]) /\ exit_code' = None
  BY <1>2, <1>4 DEF InStage
<1>6. None # 0
  BY NamesAssumption
<1>7. StatusInv'
  BY <1>4, <1>5, <1>6 DEF StatusInv, StatusHonest, InStage
<1> QED
  BY <1>3, <1>7 DEF IInv

(* Every stage but the last is such a step, or ends the script.            *)
Within == InStage /\ OnlyThisTest

LEMMA FailSetsOne == ASSUME NEW b, IInv, pc \in Stages, Fail(b) PROVE OnlyThisTest
<1>1. (fail_flag[k] \/ b) \in BOOLEAN
  OBVIOUS
<1> QED
  BY <1>1 DEF Fail, OnlyThisTest

LEMMA SkipIsWithin == ASSUME NEW s \in Stages, NEW n \in Stages, Skip(s, n) PROVE Within
  BY DEF Skip, Do, Within, InStage, OnlyThisTest

LEMMA DoIsInStage == ASSUME NEW s \in Stages, NEW n \in Stages, Do(s, n) PROVE InStage
  BY DEF Do, InStage

LEMMA ImagesSetOne ==
  ASSUME NEW r \in BOOLEAN, NEW q \in BOOLEAN, IInv, pc \in Stages, MakeImages(r, q) PROVE OnlyThisTest
<1>1. \E b : Fail(b)
  BY DEF MakeImages
<1>2. PICK b : Fail(b)
  BY <1>1
<1> QED
  BY <1>2, FailSetsOne

LEMMA StagesAreWithin == IInv /\ Stage => Within \/ Die \/ End
<1> SUFFICES ASSUME IInv, Stage PROVE Within \/ Die \/ End
  OBVIOUS
<1> USE DEF Stages
<1>1. CASE Backup
  <2>1. InStage
    BY <1>1, DoIsInStage DEF Backup
  <2>2. OnlyThisTest
    BY <1>1, <2>1, FailSetsOne DEF Backup, InStage
  <2> QED
    BY <2>1, <2>2 DEF Within
<1>2. CASE CompileSw
  BY <1>2, SkipIsWithin, DoIsInStage, FailSetsOne DEF CompileSw, Within, InStage
<1>3. CASE CompileHw
  BY <1>3, SkipIsWithin, DoIsInStage, FailSetsOne DEF CompileHw, Within, InStage
<1>4. CASE Simulate
  BY <1>4, SkipIsWithin, DoIsInStage, FailSetsOne DEF Simulate, SimRun, Within, InStage
<1>5. CASE Fpga
  BY <1>5, SkipIsWithin, DoIsInStage, ImagesSetOne DEF Fpga, Within, InStage
<1>6. CASE Mif
  BY <1>6, SkipIsWithin, DoIsInStage, ImagesSetOne DEF Mif, Within, InStage
<1>7. CASE Gui
  BY <1>7, SkipIsWithin, DoIsInStage, FailSetsOne DEF Gui, Within, InStage
<1>8. CASE PostProcess
  BY <1>8, SkipIsWithin, DoIsInStage, FailSetsOne DEF PostProcess, Within, InStage
<1>9. CASE NoDebug
  BY <1>9, SkipIsWithin, DoIsInStage DEF NoDebug, Within, InStage, OnlyThisTest
<1> QED
  BY <1>1, <1>2, <1>3, <1>4, <1>5, <1>6, <1>7, <1>8, <1>9 DEF Stage

(* Between two tests, and at the end of the list, the status is settled.   *)
LEMMA EndSettles == IInv /\ End => IInv'
<1> SUFFICES ASSUME IInv, End PROVE IInv'
  OBVIOUS
<1>1. /\ pc \in Stages /\ k \in 1..Len(tests) /\ Len(tests) \in Nat
      /\ fail_flag' = fail_flag /\ tests' = tests
  BY DEF End, Stages, IInv, ListInv
<1>2. run_status' = IF fail_flag[k] THEN "FAILED" ELSE run_status
  BY DEF End, StatusAfter
<1>3. run_status \in {"PASSED", "FAILED"} /\ exit_code = None
      /\ (run_status = "FAILED" <=> \E i \in 1..(k - 1) : fail_flag[i])
  BY <1>1 DEF IInv, StatusInv, StatusHonest
<1>4. fail_flag \in [1..Len(tests) -> BOOLEAN] /\ tests \in Seq(Names)
  BY DEF IInv, ListInv
<1>5. run_status' \in {"PASSED", "FAILED"} /\ (run_status' = "FAILED" <=> \E i \in 1..k : fail_flag[i])
  BY <1>1, <1>2, <1>3, <1>4
<1>6. None # 0
  BY NamesAssumption
<1>7. CASE k < Len(tests)
  <2>1. pc' = "backup" /\ k' = k + 1 /\ exit_code' = None
    BY <1>3, <1>7 DEF End
  <2>2. k' \in 1..Len(tests) /\ k' - 1 = k
    BY <1>1, <1>7, <2>1
  <2> QED
    BY <1>1, <1>4, <1>5, <1>6, <2>1, <2>2 DEF IInv, ListInv, StatusInv, StatusHonest
<1>8. CASE ~(k < Len(tests))
  <2>1. pc' = "shell" /\ k' = k /\ exit_code' = IF run_status' = "FAILED" THEN 1 ELSE 0
    BY <1>8 DEF End
  <2>2. k = Len(tests) /\ DOMAIN tests = 1..k
    BY <1>1, <1>4, <1>8
  <2>3. exit_code' = 0 => \A i \in DOMAIN tests' : ~fail_flag'[i]
    BY <1>1, <1>5, <2>1, <2>2
  <2> QED
    BY <1>1, <1>4, <1>5, <2>1, <2>3 DEF IInv, ListInv, StatusInv, StatusHonest, Stages
<1> QED
  BY <1>7, <1>8

LEMMA StartSettles == ASSUME NEW c \in Commands, IInv, Start(c) PROVE IInv'
<1>1. c.tests \in Seq(Names) /\ c.tests # <<>>
  BY CommandsAssumption DEF Command
<1>2. tests' \in Seq(Names) /\ fail_flag' = [i \in 1..Len(tests') |-> FALSE]
      /\ k' = 1 /\ run_status' = "PASSED"
  BY <1>1 DEF Start
<1>3. None # 0
  BY NamesAssumption
<1>4. ListInv'
  BY <1>1, <1>2 DEF Start, ListInv, Stages
<1>5. (pc' \in Stages => exit_code' = None) /\ exit_code' # 0
  BY <1>3 DEF Start, Stages
<1> QED
  BY <1>2, <1>4, <1>5 DEF IInv, StatusInv, StatusHonest

LEMMA InitSettles == Init => IInv
<1> SUFFICES ASSUME Init PROVE IInv
  OBVIOUS
<1>1. None # 0
  BY NamesAssumption
<1>2. tests \in Seq(Names) /\ Len(tests) = 0 /\ fail_flag \in [1..Len(tests) -> BOOLEAN]
  BY DEF Init
<1> QED
  BY <1>1, <1>2 DEF Init, IInv, ListInv, StatusInv, StatusHonest, Stages

LEMMA NextSettles == IInv /\ [Next]_vars => IInv'
<1> SUFFICES ASSUME IInv, [Next]_vars PROVE IInv'
  OBVIOUS
<1> USE DEF IInv, ListInv, StatusInv, StatusHonest
<1>1. CASE Edit
  BY <1>1 DEF Edit, script
<1>2. CASE \E c \in Commands : Start(c)
  BY <1>2, StartSettles
<1>3. CASE Die
  BY <1>3 DEF Die, script, Stages
<1>4. CASE Within
  BY <1>4, WithinATest DEF Within
<1>5. CASE End
  BY <1>5, EndSettles
<1>6. CASE UNCHANGED vars
  BY <1>6 DEF vars, script, history
<1> QED
  BY <1>1, <1>2, <1>3, <1>4, <1>5, <1>6, StagesAreWithin DEF Next, Interrupt

(* A failed test of the list is never forgotten: the final status is       *)
(* FAILED exactly when a test behind has failed, and exit code 0 means     *)
(* that none did (build.py, main).                                         *)
THEOREM NeverForgotten == Spec => []StatusHonest
<1>1. IInv => StatusHonest
  BY DEF IInv, StatusInv
<1> QED
  BY <1>1, InitSettles, NextSettles, PTL DEF Spec

-------------------------------------------------------------------------------
(* The files: what each stage of the script does to them.                   *)

FilesInv ==
  /\ program \in [Tests -> [ver : Versions, data : BOOLEAN]] /\ hw \in Libraries
  /\ edits \in Versions /\ builds \in 0..MaxBuilds
  /\ dir \in [Names -> Directories \cup {None}]
  /\ modelsim \in Opened \cup {None}
  /\ tests \in Seq(Tests)
  /\ pc \in Stages => cmd \in Commands /\ k \in 1..Len(tests) /\ builds > 0

(* Backup has moved the trackers of the current test away.                  *)
LogsMoved ==
  pc \in {"app", "hw", "sim"} /\ ~Asked("cmd") /\ dir[test] # None => dir[test].log = None

(* A directory that has trackers keeps them.                                *)
Keeps ==
  \A n \in Names : dir[n] # None /\ dir[n].log # None => dir'[n] # None /\ dir'[n].log = dir[n].log
-------------------------------------------------------------------------------
(* What CHOOSE finds when it is asked for the least of a set of numbers.    *)
Less == {p \in Nat \X Nat : p[1] < p[2]}

LEMMA HasLeast == ASSUME NEW T \in SUBSET Nat, T # {} PROVE \E i \in T : \A j \in T : i <= j
<1>1. IsWellFoundedOn(Less, Nat)
  BY NatLessThanWellFounded DEF OpToRel, Less
<1>2. PICK i \in T : \A j \in T : <<j, i>> \notin Less
  BY <1>1, WFMin
<1>3. \A j \in T : ~(j < i)
  BY <1>2 DEF Less
<1> QED
  BY <1>3

LEMMA TestType == ASSUME FilesInv, pc \in Stages PROVE test \in Tests /\ test \in Names
  BY NamesAssumption DEF FilesInv, test

LEMMA OneDirectory ==
  ASSUME FilesInv, pc \in Stages, NEW e \in Directories \cup {None}, dir' = [dir EXCEPT ![test] = e]
  PROVE /\ dir' \in [Names -> Directories \cup {None}]
        /\ dir'[test] = e
        /\ (dir[test] # None /\ dir[test].log # None => e # None /\ e.log = dir[test].log) => Keeps
<1>1. test \in Names
  BY TestType
<1>2. dir' \in [Names -> Directories \cup {None}] /\ dir'[test] = e
      /\ \A n \in Names \ {test} : dir'[n] = dir[n]
  BY <1>1 DEF FilesInv
<1> QED
  BY <1>2 DEF Keeps

(* A record of a directory with new images, or a new log and transcript.    *)
LEMMA MadeDirectory ==
  ASSUME NEW d \in Directories, NEW v \in Versions, NEW b \in BOOLEAN
  PROVE LET e == [d EXCEPT !.inst = v, !.data = IF b THEN v ELSE @]
        IN e \in Directories /\ e.log = d.log /\ e.transcript = d.transcript
<1>1. PICK w \in Versions \cup {None} : w = IF b THEN v ELSE d.data
  BY DEF Directories
<1>2. LET e == [d EXCEPT !.inst = v, !.data = w]
      IN e \in Directories /\ e.log = d.log /\ e.transcript = d.transcript
  BY DEF Directories
<1> QED
  BY <1>1, <1>2

LEMMA EmptyIsDirectory == EmptyDir \in Directories /\ EmptyDir.log = None /\ EmptyDir.transcript = None
  BY DEF EmptyDir, Directories

LEMMA SwKeeps ==
  ASSUME FilesInv, pc \in Stages, NEW sw \in SwResults(dir[test])
  PROVE /\ sw.dir \in Directories
        /\ dir[test] # None => sw.dir.log = dir[test].log /\ sw.dir.transcript = dir[test].transcript
        /\ dir[test] = None => sw.dir.log = None /\ sw.dir.transcript = None
<1> DEFINE made == IF dir[test] = None THEN EmptyDir ELSE dir[test]
           new == [made EXCEPT !.inst = program[test].ver,
                               !.data = IF program[test].data THEN program[test].ver ELSE @]
<1>1. made \in Directories
  BY TestType, EmptyIsDirectory DEF FilesInv
<1>2. program[test].ver \in Versions /\ program[test].data \in BOOLEAN
  BY TestType DEF FilesInv
<1>3. sw.dir \in {made, new}
  BY DEF SwResults
<1>4. new \in Directories /\ new.log = made.log /\ new.transcript = made.transcript
  <2> HIDE DEF made
  <2> QED
    BY <1>1, <1>2, MadeDirectory
<1>5. sw.dir \in Directories /\ sw.dir.log = made.log /\ sw.dir.transcript = made.transcript
  BY <1>1, <1>3, <1>4
<1> QED
  BY <1>5, EmptyIsDirectory

(* What a stage that ends in n leaves alone.                                *)
LEMMA StageTypes ==
  ASSUME FilesInv, NEW s \in Stages, NEW n \in Stages, Do(s, n), program' = program, hw' \in Libraries,
         dir' \in [Names -> Directories \cup {None}], modelsim' \in Opened \cup {None}
  PROVE FilesInv'
  BY DEF FilesInv, Do

Moved == \A n \in Names : dir[n] # None /\ dir[n].log # None =>
           \E m \in Names : dir'[m] # None /\ dir'[m].log = dir[n].log

LEMMA KeepsMoves == Keeps => Moved
  BY DEF Keeps, Moved

LEMMA SkipKeeps == ASSUME FilesInv, NEW s \in Stages, NEW n \in Stages, Skip(s, n) PROVE FilesInv' /\ Keeps
<1>1. Do(s, n) /\ UNCHANGED <<program, hw, dir, modelsim>>
  BY DEF Skip, sources, files
<1>2. FilesInv'
  BY <1>1, StageTypes DEF FilesInv
<1> QED
  BY <1>1, <1>2 DEF Keeps

(* _compile_sw and the images: the directory keeps its trackers.            *)
LEMMA CompileSwKeeps == ASSUME FilesInv, LogsMoved, CompileSw PROVE FilesInv' /\ LogsMoved' /\ Keeps
<1> USE DEF Stages
<1>1. pc = "app" /\ pc' = "hw" /\ UNCHANGED <<cmd, tests, k>>
  BY DEF CompileSw, Skip, Do
<1>2. CASE Skip("app", "hw")
  <2>1. FilesInv' /\ Keeps /\ dir' = dir
    BY <1>2, SkipKeeps DEF Skip, files
  <2> QED
    BY <1>1, <2>1 DEF LogsMoved, Asked, test
<1>3. CASE Do("app", "hw") /\ UNCHANGED <<sources, modelsim>>
           /\ \E sw \in SwResults(dir[test]) : dir' = [dir EXCEPT ![test] = sw.dir]
  <2>1. PICK sw \in SwResults(dir[test]) : dir' = [dir EXCEPT ![test] = sw.dir]
    BY <1>3
  <2>2. sw.dir \in Directories /\ (dir[test] # None => sw.dir.log = dir[test].log)
        /\ (dir[test] = None => sw.dir.log = None) /\ sw.dir # None
    BY <1>1, <2>1, SwKeeps, NoneAssumption
  <2>3. dir' \in [Names -> Directories \cup {None}] /\ dir'[test] = sw.dir /\ Keeps
    BY <1>1, <2>1, <2>2, OneDirectory
  <2>4. FilesInv'
    BY <1>3, <2>3, StageTypes DEF FilesInv, sources
  <2>5. LogsMoved'
    BY <1>1, <2>2, <2>3 DEF LogsMoved, Asked, test
  <2> QED
    BY <2>3, <2>4, <2>5
<1> QED
  BY <1>2, <1>3 DEF CompileSw

(* An override, applied or not, leaves sources that can be compiled.        *)
LEMMA OverridesTyped == ASSUME FilesInv, pc \in Stages, NEW h \in Overridden PROVE h \in Libraries
<1>1. cmd.ovrd \in Overrides \cup {None}
  BY CommandsAssumption DEF FilesInv, Command
<1>2. h \in {hw, [hw EXCEPT !.params = cmd.ovrd], [hw EXCEPT !.params = Partly]}
  BY DEF Overridden, Applied
<1> QED
  BY <1>1, <1>2 DEF FilesInv, Libraries

(* Sources that are overridden already stay as they are.                    *)
LEMMA OverrideKeepsVersion ==
  ASSUME FilesInv, pc \in Stages, NEW h \in Overridden
  PROVE /\ h.ver = hw.ver /\ Applied \in Libraries
        /\ hw = Applied /\ h = Applied => h = hw
<1>1. cmd.ovrd \in Overrides \cup {None}
  BY CommandsAssumption DEF FilesInv, Command
<1>2. h \in {hw, [hw EXCEPT !.params = cmd.ovrd], [hw EXCEPT !.params = Partly]}
  BY DEF Overridden, Applied
<1> QED
  BY <1>1, <1>2 DEF FilesInv, Libraries, Applied

(* The compilation of the hardware leaves a library, old or new.            *)
LEMMA HwTypes ==
  ASSUME FilesInv, pc = "hw", NEW h \in Overridden, NEW r \in HwResults(h),
         modelsim' = [work |-> r.work, transcript |-> IF modelsim = None THEN None ELSE modelsim.transcript]
  PROVE h \in Libraries /\ modelsim' \in Opened /\ modelsim' # None
<1>1. h \in Libraries
  BY OverridesTyped DEF Stages
<1>2. r.work \in Libraries \cup {None}
  <2>1. PICK w \in Libraries \cup {None} : w = IF modelsim = None THEN None ELSE modelsim.work
    BY DEF FilesInv, Opened
  <2>2. r.work \in {w, h}
    BY <2>1 DEF HwResults
  <2> QED
    BY <1>1, <2>2
<1>3. PICK x \in Results \cup {None} : x = IF modelsim = None THEN None ELSE modelsim.transcript
  BY DEF FilesInv, Opened
<1>4. modelsim' \in Opened
  BY <1>2, <1>3 DEF Opened
<1> QED
  BY <1>1, <1>4, NoneAssumption

LEMMA CompileHwKeeps == ASSUME FilesInv, LogsMoved, CompileHw PROVE FilesInv' /\ LogsMoved' /\ Keeps
<1> USE DEF Stages
<1>1. pc = "hw" /\ pc' = "sim" /\ UNCHANGED <<cmd, tests, k>> /\ Do("hw", "sim") /\ dir' = dir /\ program' = program
  BY DEF CompileHw, Skip, Do, sources, files
<1>2. LogsMoved' /\ Keeps
  BY <1>1 DEF LogsMoved, Keeps, Asked, test
<1>3. CASE Skip("hw", "sim")
  BY <1>2, <1>3, SkipKeeps
<1>4. CASE hw' \in Overridden /\ \E r \in HwResults(hw') : modelsim' = [work |-> r.work,
             transcript |-> IF modelsim = None THEN None ELSE modelsim.transcript]
  <2>1. hw' \in Libraries /\ modelsim' \in Opened
    BY <1>1, <1>4, HwTypes
  <2>2. FilesInv'
    BY <1>1, <2>1, StageTypes DEF FilesInv
  <2> QED
    BY <1>2, <2>2
<1> QED
  BY <1>3, <1>4 DEF CompileHw

(* What a simulation leaves in the directory of its test.                   *)
LEMMA SimDirectory ==
  ASSUME FilesInv, pc = "sim", modelsim # None, NEW o, SimRun(o)
  PROVE LET d == IF dir[test] = None THEN EmptyDir ELSE dir[test]
            result == [run |-> [build |-> builds, k |-> k], outcome |-> o]
        IN /\ modelsim' \in Opened /\ modelsim' # None /\ modelsim'.work = modelsim.work
           /\ d \in Directories /\ (o \in Started => result \in Results)
           /\ \E e \in Directories :
                /\ dir' = [dir EXCEPT ![test] = e] /\ e.inst = d.inst /\ e.data = d.data
                /\ e.log = IF o \in Started \ {"errors"} THEN result ELSE d.log
                /\ d.transcript = None /\ o \in Started => e.transcript = result
<1> DEFINE d == IF dir[test] = None THEN EmptyDir ELSE dir[test]
           result == [run |-> [build |-> builds, k |-> k], outcome |-> o]
           new == IF o \in Started THEN result ELSE modelsim.transcript
           log == IF o \in Started \ {"errors"} THEN result ELSE d.log
           transcript == IF d.transcript = None THEN new ELSE d.transcript
           e == [d EXCEPT !.log = log, !.transcript = transcript]
<1>1. modelsim \in Opened /\ pc \in Stages
  BY DEF FilesInv, Stages
<1>2. d \in Directories
  BY <1>1, TestType, EmptyIsDirectory DEF FilesInv
<1>3. o \in Started => result \in Results
  BY <1>1, BoundsAssumption DEF FilesInv, Results, Runs
<1>4. new \in Results \cup {None}
  BY <1>1, <1>3 DEF Opened
<1>5. modelsim' = [modelsim EXCEPT !.transcript = new]
      /\ dir' = [dir EXCEPT ![test] = [d EXCEPT !.log = IF o \in Started \ {"errors"} THEN result ELSE @,
                                                !.transcript = IF @ = None THEN new ELSE @]]
  BY DEF SimRun
<1>6. d.transcript = None /\ o \in Started => transcript = result
  OBVIOUS
<1> HIDE DEF d, new, result
<1>7. log \in Results \cup {None} /\ transcript \in Results \cup {None}
  BY <1>2, <1>3, <1>4 DEF Directories
<1>8. [d EXCEPT !.log = IF o \in Started \ {"errors"} THEN result ELSE @,
                !.transcript = IF @ = None THEN new ELSE @] = e
  BY <1>2 DEF Directories
<1>9. modelsim' \in Opened /\ modelsim'.work = modelsim.work /\ modelsim' # None
  <2>1. modelsim' \in Opened /\ modelsim'.work = modelsim.work
    BY <1>1, <1>4, <1>5 DEF Opened
  <2> QED
    BY <2>1, NoneAssumption
<1>10. e \in Directories /\ e.log = log /\ e.transcript = transcript /\ e.inst = d.inst /\ e.data = d.data
  <2> HIDE DEF log, transcript
  <2> QED
    BY <1>2, <1>7 DEF Directories
<1>11. dir' = [dir EXCEPT ![test] = e]
  BY <1>5, <1>8
<1> HIDE DEF e, transcript
<1> QED
  BY <1>2, <1>3, <1>6, <1>9, <1>10, <1>11 DEF d, result

(* A simulation writes trackers where there are none.                       *)
LEMMA SimulateKeeps == ASSUME FilesInv, LogsMoved, Simulate PROVE Die \/ (FilesInv' /\ pc' = "fpga" /\ Keeps)
<1> USE DEF Stages
<1>1. CASE Die
  BY <1>1
<1>2. CASE Skip("sim", "fpga")
  BY <1>2, SkipKeeps DEF Skip, Do
<1>3. CASE Do("sim", "fpga") /\ modelsim # None /\ UNCHANGED sources /\ \E o \in SimOutcomes : SimRun(o)
  <2>1. PICK o \in SimOutcomes : SimRun(o)
    BY <1>3
  <2>2. pc = "sim" /\ pc' = "fpga" /\ UNCHANGED <<program, hw>>
    BY <1>3 DEF Do, sources
  <2>3. PICK e \in Directories :
          /\ dir' = [dir EXCEPT ![test] = e]
          /\ dir[test] # None /\ o \notin Started => e.log = dir[test].log
    BY <1>3, <2>1, <2>2, SimDirectory
  <2>4. dir[test] # None /\ dir[test].log # None => o \notin Started
    <3>1. ASSUME dir[test] # None, dir[test].log # None PROVE o \notin Started
      <4>1. Asked("cmd")
        BY <2>2, <3>1 DEF LogsMoved
      <4> QED
        BY <2>1, <4>1 DEF SimOutcomes, Started
    <3> QED
      BY <3>1
  <2>5. e # None
    BY NoneAssumption
  <2>6. dir' \in [Names -> Directories \cup {None}] /\ Keeps
    BY <2>2, <2>3, <2>4, <2>5, OneDirectory
  <2>7. modelsim' \in Opened
    BY <1>3, <2>1, <2>2, SimDirectory
  <2>8. FilesInv'
    BY <1>3, <2>2, <2>6, <2>7, StageTypes DEF FilesInv
  <2> QED
    BY <2>2, <2>6, <2>8
<1> QED
  BY <1>1, <1>2, <1>3 DEF Simulate

LEMMA ImagesKeep ==
  ASSUME FilesInv, NEW s \in Stages, NEW n \in Stages, Do(s, n), NEW r, NEW q, MakeImages(r, q)
  PROVE FilesInv' /\ Keeps
<1>1. pc \in Stages /\ UNCHANGED <<program, hw, modelsim>>
  BY DEF Do, MakeImages, sources
<1>2. PICK sw \in IF app_flag THEN {[dir |-> dir[test], fail |-> FALSE]} ELSE SwResults(dir[test]) :
        dir' = [dir EXCEPT ![test] = sw.dir]
  BY DEF MakeImages
<1>3. sw.dir \in Directories \cup {None} /\ (dir[test] # None => sw.dir # None /\ sw.dir.log = dir[test].log)
  <2>1. CASE app_flag
    <3>1. sw.dir = dir[test]
      BY <1>2, <2>1
    <3> QED
      BY <1>1, <3>1, TestType DEF FilesInv
  <2>2. CASE ~app_flag
    BY <1>1, <1>2, <2>2, SwKeeps, NoneAssumption
  <2> QED
    BY <2>1, <2>2
<1>4. dir' \in [Names -> Directories \cup {None}] /\ Keeps
  BY <1>1, <1>2, <1>3, OneDirectory
<1>5. FilesInv'
  BY <1>1, <1>4, StageTypes DEF FilesInv
<1> QED
  BY <1>4, <1>5

(* The stages behind the simulation.                                        *)
LEMMA LaterKeeps ==
  ASSUME FilesInv, Fpga \/ Mif \/ Gui \/ PostProcess
  PROVE Die \/ (FilesInv' /\ pc' \in {"mif", "gui", "pp", "no_debug"} /\ Keeps)
<1> USE DEF Stages
<1>1. ASSUME NEW s \in Stages, NEW n \in Stages, Do(s, n), UNCHANGED <<sources, files>>
      PROVE FilesInv' /\ Keeps
  <2>1. UNCHANGED <<program, hw, dir, modelsim>>
    BY <1>1 DEF sources, files
  <2> QED
    BY <1>1, <2>1, StageTypes DEF FilesInv, Keeps
<1>2. CASE Fpga
  BY <1>2, ImagesKeep, SkipKeeps DEF Fpga, Skip, Do
<1>3. CASE Mif
  BY <1>3, ImagesKeep, SkipKeeps DEF Mif, Skip, Do
<1>4. CASE Gui
  BY <1>1, <1>4, SkipKeeps DEF Gui, Skip, Do
<1>5. CASE PostProcess
  BY <1>1, <1>5, SkipKeeps DEF PostProcess, Skip, Do
<1> QED
  BY <1>2, <1>3, <1>4, <1>5

LEMMA NoDebugKeeps ==
  ASSUME FilesInv, NoDebug PROVE FilesInv' /\ pc' = "end" /\ (Keeps \/ (Asked("no_debug") /\ cmd' = cmd))
<1> USE DEF Stages
<1>1. CASE Skip("no_debug", "end")
  BY <1>1, SkipKeeps DEF Skip, Do
<1>2. CASE Do("no_debug", "end") /\ Asked("no_debug") /\ UNCHANGED <<sources, modelsim>>
           /\ (dir' = [dir EXCEPT ![test] = IF Asked("cmd") THEN @ ELSE None] \/ UNCHANGED dir)
  <2>1. pc = "no_debug" /\ pc' = "end" /\ cmd' = cmd /\ UNCHANGED <<program, hw, modelsim>>
    BY <1>2 DEF Do, sources
  <2>2. dir' \in [Names -> Directories \cup {None}]
    BY <1>2, <2>1 DEF FilesInv
  <2> QED
    BY <1>2, <2>1, <2>2, StageTypes DEF FilesInv
<1> QED
  BY <1>1, <1>2 DEF NoDebug

(* The copy takes a name that is free, so it replaces nothing.              *)
LEMMA BackupMoves ==
  ASSUME FilesInv, Backup PROVE FilesInv' /\ LogsMoved' /\ Moved
<1> USE DEF Stages
<1>1. pc = "backup" /\ pc' \in {"app", "end"} /\ UNCHANGED <<cmd, tests, k, program, hw, modelsim>>
      /\ \E n \in Stages : Do("backup", n)
  BY DEF Backup, Do, sources
<1>2. test \in Tests /\ test \in Names
  BY <1>1, TestType
<1>3. dir' \in [Names -> Directories \cup {None}] => FilesInv'
  BY <1>1, StageTypes DEF FilesInv
<1>4. CASE dir[test] = None
  <2>1. dir' = dir
    BY <1>4 DEF Backup
  <2> QED
    BY <1>1, <1>3, <1>4, <2>1, KeepsMoves DEF FilesInv, LogsMoved, Keeps, Asked, test
<1>5. CASE dir[test] # None
  <2> DEFINE i == FirstFree(test)
             b == BackupName[test, i]
             d == dir[test]
             log == IF Asked("cmd") THEN d.log ELSE None
             e == [d EXCEPT !.log = log]
  <2>1. b \in Names /\ dir[b] = None /\ b # test
    <3>1. FreeBackups(test) # {} /\ FreeBackups(test) \subseteq Nat
      <4>1. FreeBackups(test) # {}
        BY <1>5 DEF Backup
      <4>2. Backups \subseteq Nat
        BY BackupAssumption DEF Backups
      <4>3. FreeBackups(test) \subseteq Backups
        BY DEF FreeBackups
      <4> QED
        BY <4>1, <4>2, <4>3
    <3>2. i \in FreeBackups(test)
      <4>1. \E j \in FreeBackups(test) : \A l \in FreeBackups(test) : j <= l
        BY <3>1, HasLeast
      <4> QED
        BY <4>1 DEF FirstFree
    <3>3. i \in Backups /\ dir[b] = None
      BY <3>2 DEF FreeBackups
    <3> QED
      BY <1>2, <1>5, <3>3, BackupAssumption
  <2>2. d \in Directories
    BY <1>2, <1>5 DEF FilesInv
  <2>3. dir' = [dir EXCEPT ![b] = d, ![test].log = IF Asked("cmd") THEN @ ELSE None]
    BY <1>5 DEF Backup
  <2> HIDE DEF i, b
  <2>4. dir'[b] = d /\ dir'[test] = e /\ \A n \in Names \ {b, test} : dir'[n] = dir[n]
    BY <1>2, <2>1, <2>3 DEF FilesInv
  <2>5. e \in Directories /\ e.log = log
    BY <2>2 DEF Directories
  <2>6. dir' \in [Names -> Directories \cup {None}]
    <3>1. dir' \in [Names -> {dir'[n] : n \in Names}]
      BY <2>3 DEF FilesInv
    <3>2. \A n \in Names : dir'[n] \in Directories \cup {None}
      <4> HIDE DEF e, d
      <4> QED
        BY <2>2, <2>4, <2>5 DEF FilesInv
    <3> QED
      BY <3>1, <3>2
  <2>7. LogsMoved'
    BY <1>1, <2>4, <2>5 DEF LogsMoved, Asked, test
  <2>8. Moved
    <3> SUFFICES ASSUME NEW n \in Names, dir[n] # None, dir[n].log # None
                 PROVE \E m \in Names : dir'[m] # None /\ dir'[m].log = dir[n].log
      BY DEF Moved
    <3>1. CASE n = test
      <4>1. dir'[b] = dir[n]
        BY <2>4, <3>1
      <4> QED
        BY <2>1, <4>1
    <3>2. CASE n # test
      <4>1. dir'[n] = dir[n]
        BY <2>1, <2>4, <3>2
      <4> QED
        BY <4>1
    <3> QED
      BY <3>1, <3>2
  <2> QED
    BY <1>3, <2>6, <2>7, <2>8
<1> QED
  BY <1>4, <1>5
-------------------------------------------------------------------------------
LEMMA StartKeeps ==
  ASSUME FilesInv, NEW c \in Commands, Start(c)
  PROVE FilesInv' /\ pc' \in {"shell", "backup"} /\ (Keeps \/ (cmd' \in Commands /\ "clean" \in cmd'.flags))
<1>1. c.tests \in Seq(Names) /\ c.tests # <<>>
  BY CommandsAssumption DEF Command
<1>2. cmd' = c /\ k' = 1 /\ UNCHANGED <<program, hw, modelsim, edits>>
      /\ builds' = builds + 1 /\ builds < MaxBuilds
      /\ ((pc' = "shell" /\ tests' = <<>>) \/ (~Rejected(c) /\ pc' = "backup" /\ tests' = c.tests))
  BY DEF Start, sources
<1>3. dir' \in [Names -> Directories \cup {None}] /\ (Keeps \/ "clean" \in c.flags)
  <2>1. CASE {"clean", "cmd"} \cap c.flags = {"clean"}
    <3>1. dir' = [n \in Names |-> None] /\ "clean" \in c.flags
      BY <2>1 DEF Start
    <3> QED
      BY <3>1
  <2>2. CASE {"clean", "cmd"} \cap c.flags # {"clean"}
    BY <2>2 DEF Start, FilesInv, Keeps
  <2> QED
    BY <2>1, <2>2
<1>4. tests' \in Seq(Tests) /\ (pc' = "backup" => 1 \in 1..Len(tests'))
  <2>1. CASE pc' = "shell" /\ tests' = <<>>
    BY <2>1
  <2>2. CASE ~Rejected(c) /\ pc' = "backup" /\ tests' = c.tests
    <3>1. \A i \in 1..Len(c.tests) : c.tests[i] \in Tests
      BY <1>1, <2>2 DEF Rejected
    <3> QED
      BY <1>1, <2>2, <3>1
  <2> QED
    BY <1>2, <2>1, <2>2
<1> QED
  BY <1>2, <1>3, <1>4, BoundsAssumption DEF FilesInv, Stages

LEMMA OthersKeep ==
  ASSUME FilesInv, LogsMoved, Edit \/ End \/ Die \/ UNCHANGED vars PROVE FilesInv' /\ LogsMoved' /\ Keeps
<1>1. CASE Edit
  <2>1. pc = "shell" /\ pc' = pc /\ edits' = edits + 1 /\ edits + 1 \in Versions
        /\ UNCHANGED <<dir, modelsim, cmd, tests, k, builds>>
    BY <1>1, BoundsAssumption DEF Edit, files, script, FilesInv, Versions
  <2>2. program' \in [Tests -> [ver : Versions, data : BOOLEAN]] /\ hw' \in Libraries
    BY <1>1, <2>1 DEF Edit, FilesInv, Libraries
  <2> QED
    BY <2>1, <2>2 DEF FilesInv, LogsMoved, Keeps, Stages
<1>2. CASE End
  <2>1. pc = "end" /\ pc' \in {"shell", "backup"} /\ UNCHANGED <<sources, dir, modelsim, cmd, tests, builds, edits>>
        /\ (pc' = "backup" => k < Len(tests) /\ k' = k + 1)
    BY <1>2 DEF End, files
  <2> QED
    BY <2>1 DEF FilesInv, LogsMoved, Keeps, Stages, sources
<1>3. CASE Die
  <2>1. hw' \in Libraries
    BY <1>3, OverridesTyped DEF Die, FilesInv, Stages
  <2> QED
    BY <1>3, <2>1 DEF Die, FilesInv, LogsMoved, Keeps, files, script, Stages
<1>4. CASE UNCHANGED vars
  BY <1>4 DEF vars, FilesInv, LogsMoved, Keeps, sources, files, script, history, Asked, test
<1> QED
  BY <1>1, <1>2, <1>3, <1>4

LEMMA InitFiles == Init => FilesInv /\ LogsMoved
  BY BoundsAssumption DEF Init, FilesInv, LogsMoved, Libraries, Versions, Stages

(* What a step leaves of the trackers.                                      *)
Left == Moved \/ (cmd' \in Commands /\ {"clean", "no_debug"} \cap cmd'.flags # {})

LEMMA NextKeeps == FilesInv /\ LogsMoved /\ [Next]_vars => FilesInv' /\ LogsMoved' /\ Left
<1> SUFFICES ASSUME FilesInv, LogsMoved, [Next]_vars PROVE FilesInv' /\ LogsMoved' /\ Left
  OBVIOUS
<1>1. CASE Edit \/ End \/ Interrupt \/ UNCHANGED vars
  BY <1>1, OthersKeep, KeepsMoves DEF Interrupt, Left
<1>2. ASSUME NEW c \in Commands, Start(c) PROVE FilesInv' /\ LogsMoved' /\ Left
  BY <1>2, StartKeeps, KeepsMoves DEF LogsMoved, Left
<1>3. CASE Backup
  BY <1>3, BackupMoves DEF Left
<1>4. CASE CompileSw \/ CompileHw
  BY <1>4, CompileSwKeeps, CompileHwKeeps, KeepsMoves DEF Left
<1>5. CASE Simulate
  BY <1>5, SimulateKeeps, OthersKeep, KeepsMoves DEF Left, LogsMoved
<1>6. CASE Fpga \/ Mif \/ Gui \/ PostProcess
  BY <1>6, LaterKeeps, OthersKeep, KeepsMoves DEF Left, LogsMoved
<1>7. CASE NoDebug
  <2>1. cmd \in Commands
    BY <1>7 DEF NoDebug, Skip, Do, FilesInv, Stages
  <2> QED
    BY <1>7, <2>1, NoDebugKeeps, KeepsMoves DEF Left, LogsMoved, Asked
<1> QED
  BY <1>1, <1>2, <1>3, <1>4, <1>5, <1>6, <1>7 DEF Next, Stage

(* The trackers of an earlier run stay somewhere under target/ until they   *)
(* are cleaned or the test asks for no debug (build.py, main, the numbered  *)
(* copies).                                                                 *)
THEOREM NothingOverwritten == Spec => TrackersKept
<1>1. FilesInv /\ LogsMoved /\ [Next]_vars =>
        [\A n \in Names : dir[n] # None /\ dir[n].log # None =>
           \/ \E m \in Names : dir'[m] # None /\ dir'[m].log = dir[n].log
           \/ cmd' # None /\ {"clean", "no_debug"} \cap cmd'.flags # {}]_vars
  BY NextKeeps, NoneAssumption DEF Left, Moved
<1> QED
  BY <1>1, InitFiles, NextKeeps, PTL DEF Spec, TrackersKept
-------------------------------------------------------------------------------
(* From stage to stage a test that has not failed is what it should be.     *)
Later == {"fpga", "mif", "gui", "pp", "no_debug", "end"}
Good == ~Asked("cmd") /\ ~fail_flag[k]

Skipped == pc \in Stages \ {"backup"} /\ run_status = "FAILED" /\ ~Asked("keep_going") => fail_flag[k]
FreshDir == pc = "app" /\ fresh => dir[test] = None

Data == IF program[test].data THEN program[test].ver ELSE None
Compiled ==
  pc \in {"hw", "sim"} /\ Good /\ Wants("app") =>
    dir[test] # None /\ dir[test].inst = program[test].ver /\ (fresh => dir[test].data = Data)

(* Once the hardware is compiled no later test of the list changes it.      *)
AsNow(lib) == lib.ver = hw.ver /\ (unseen \/ lib = hw)
LibraryOf == modelsim # None /\ AsNow(modelsim.work)
Done ==
  pc \in Stages /\ hw_compilation /\ Good /\ ~Asked("keep_going") /\ run_status = "PASSED" =>
    LibraryOf /\ (unseen \/ hw = Applied)
Library == pc = "sim" /\ Good /\ Wants("hw") /\ ~Asked("keep_going") => LibraryOf

Simulated ==
  pc \in Later /\ Good /\ Wants("sim") =>
    /\ ran # None
    /\ Wants("hw") /\ ~Asked("keep_going") => AsNow(ran.lib)
    /\ Wants("app") => ran.inst = program[test].ver
    /\ Wants("app") /\ fresh => ran.data = Data

RealInv == Skipped /\ FreshDir /\ Compiled /\ Done /\ Library /\ Simulated

LEMMA FailOnly ==
  ASSUME IInv, pc \in Stages, NEW b, Fail(b) PROVE ~fail_flag'[k] => ~fail_flag[k] /\ ~b
<1>1. k \in DOMAIN fail_flag
  BY DEF IInv, ListInv
<1> QED
  BY <1>1 DEF Fail

(* A stage behind the simulation.                                           *)
LEMMA LaterReal ==
  ASSUME RealInv, NEW s \in Later, NEW n \in Later, Do(s, n), ~fail_flag'[k] => ~fail_flag[k],
         UNCHANGED <<program, hw, modelsim, hw_compilation, fresh, ran, unseen>>
  PROVE RealInv'
<1>1. pc \in Later /\ pc' \in Later /\ UNCHANGED <<cmd, tests, k, run_status>>
  BY DEF Do
<1>2. Good' => Good
  BY <1>1 DEF Good, Asked
<1>3. Skipped' /\ FreshDir' /\ Compiled' /\ Library'
  BY <1>1 DEF Skipped, FreshDir, Compiled, Library, Later, Stages, Asked, RealInv
<1>4. Done'
  BY <1>1, <1>2 DEF RealInv, Done, Later, Stages, LibraryOf, AsNow, Applied, Asked
<1>5. Simulated'
  BY <1>1, <1>2 DEF RealInv, Simulated, Asked, Wants, Data, test, AsNow
<1> QED
  BY <1>3, <1>4, <1>5 DEF RealInv

LEMMA BackupReal == ASSUME IInv, RealInv, Backup PROVE RealInv'
<1>1. pc = "backup" /\ UNCHANGED <<cmd, tests, k, run_status, program, hw, modelsim, hw_compilation, unseen>>
      /\ pc' = IF run_status = "FAILED" /\ ~Asked("keep_going") THEN "end" ELSE "app"
  BY DEF Backup, Do, sources
<1>2. ~fail_flag'[k] => ~fail_flag[k] /\ pc' # "end"
  BY <1>1, FailOnly DEF Backup, Stages
<1>3. fresh' => dir'[test] = None
  BY DEF Backup
<1>4. Skipped' /\ FreshDir'
  BY <1>1, <1>2, <1>3 DEF Skipped, FreshDir, Asked, test
<1>5. Compiled' /\ Library' /\ Simulated'
  BY <1>1, <1>2 DEF Compiled, Library, Simulated, Later, Good
<1>6. Done'
  BY <1>1, <1>2 DEF RealInv, Done, Good, Stages, LibraryOf, AsNow, Applied, Asked
<1> QED
  BY <1>4, <1>5, <1>6 DEF RealInv

(* A compilation that succeeds leaves images of the program as it is.       *)
LEMMA SwReal ==
  ASSUME FilesInv, pc \in Stages, ~Asked("cmd"), NEW sw \in SwResults(dir[test]), ~sw.fail
  PROVE /\ sw.dir # None /\ sw.dir.inst = program[test].ver
        /\ dir[test] = None \/ program[test].data => sw.dir.data = Data
<1> DEFINE made == IF dir[test] = None THEN EmptyDir ELSE dir[test]
           data == IF program[test].data THEN program[test].ver ELSE made.data
           new == [made EXCEPT !.inst = program[test].ver, !.data = data]
<1>1. made \in Directories /\ (dir[test] = None => made.data = None)
  BY TestType, EmptyIsDirectory DEF FilesInv, EmptyDir
<1>2. sw.dir = new
  <2> HIDE DEF made
  <2>1. [made EXCEPT !.inst = program[test].ver, !.data = IF program[test].data THEN program[test].ver ELSE @] = new
    BY <1>1 DEF Directories
  <2> QED
    BY <2>1 DEF SwResults, made
<1>3. new.inst = program[test].ver /\ new.data = data
  <2> HIDE DEF made, data
  <2> QED
    BY <1>1 DEF Directories
<1>4. sw.dir # None
  BY SwKeeps, NoneAssumption
<1>5. dir[test] = None \/ program[test].data => data = Data
  BY <1>1 DEF Data
<1> QED
  BY <1>2, <1>3, <1>4, <1>5

LEMMA CompileSwReal == ASSUME IInv, FilesInv, RealInv, CompileSw PROVE RealInv'
<1>1. pc = "app" /\ pc' = "hw"
      /\ UNCHANGED <<cmd, tests, k, run_status, program, hw, modelsim, hw_compilation, fresh, unseen>>
  BY DEF CompileSw, Skip, Do, sources, files
<1>2. ~fail_flag'[k] => ~fail_flag[k]
  BY <1>1, FailOnly DEF CompileSw, Skip, Stages
<1>3. Skipped' /\ FreshDir' /\ Library' /\ Simulated'
  BY <1>1, <1>2 DEF RealInv, Skipped, FreshDir, Library, Simulated, Later, Stages, Asked
<1>4. Done'
  BY <1>1, <1>2 DEF RealInv, Done, Good, Stages, LibraryOf, AsNow, Applied, Asked
<1>5. Compiled'
  <2> SUFFICES ASSUME ~Asked("cmd"), ~fail_flag'[k], Wants("app")
               PROVE dir'[test] # None /\ dir'[test].inst = program[test].ver /\ (fresh => dir'[test].data = Data)
    BY <1>1 DEF Compiled, Good, Asked, Wants, Data, test
  <2>1. PICK sw \in SwResults(dir[test]) : dir' = [dir EXCEPT ![test] = sw.dir] /\ Fail(sw.fail)
    BY <1>2 DEF CompileSw
  <2>2. ~sw.fail
    BY <1>1, <2>1, FailOnly DEF Stages
  <2>3. dir'[test] = sw.dir
    BY <1>1, <2>1, TestType DEF FilesInv, Stages
  <2>4. fresh => dir[test] = None
    BY <1>1 DEF RealInv, FreshDir
  <2> QED
    BY <1>1, <2>1, <2>2, <2>3, <2>4, SwReal DEF Stages
<1> QED
  BY <1>3, <1>4, <1>5 DEF RealInv

LEMMA CompileHwReal == ASSUME IInv, FilesInv, RealInv, CompileHw PROVE RealInv'
<1>1. pc = "hw" /\ pc' = "sim" /\ UNCHANGED <<cmd, tests, k, run_status, program, dir, fresh>>
  BY DEF CompileHw, Skip, Do, sources, files
<1>2. ~fail_flag'[k] => ~fail_flag[k]
  BY <1>1, FailOnly DEF CompileHw, Skip, Stages
<1>3. Skipped' /\ FreshDir' /\ Compiled' /\ Simulated'
  BY <1>1, <1>2 DEF RealInv, Skipped, FreshDir, Compiled, Simulated, Good, Later, Stages, Asked, Wants, Data, test
<1>4. ~fail_flag[k] /\ ~Asked("keep_going") => run_status = "PASSED"
  BY <1>1 DEF RealInv, Skipped, Stages, IInv, StatusInv
<1>5. CASE Skip("hw", "sim") /\ (~Wants("hw") \/ fail_flag[k])
  <2>1. UNCHANGED <<hw, modelsim, hw_compilation, unseen>>
    BY <1>5 DEF Skip, sources, files
  <2>2. Done' /\ Library'
    BY <1>1, <1>2, <1>5, <2>1 DEF RealInv, Done, Library, Good, Stages, LibraryOf, AsNow, Applied, Asked, Wants
  <2> QED
    BY <1>3, <2>2 DEF RealInv
<1>6. CASE /\ Wants("hw") /\ ~fail_flag[k] /\ hw' \in Overridden /\ unseen' = (unseen \/ hw' # Applied)
           /\ \E r \in HwResults(hw') :
             /\ modelsim' = [work |-> r.work, transcript |-> IF modelsim = None THEN None ELSE modelsim.transcript]
             /\ hw_compilation' = r.done /\ Fail(r.fail)
  <2>1. PICK r \in HwResults(hw') :
          /\ modelsim' = [work |-> r.work, transcript |-> IF modelsim = None THEN None ELSE modelsim.transcript]
          /\ hw_compilation' = r.done /\ Fail(r.fail)
    BY <1>6
  <2>2. modelsim' # None /\ modelsim'.work = r.work /\ hw' \in Libraries
    BY <1>1, <1>6, <2>1, HwTypes
  <2>3. unseen' \/ hw' = Applied'
    BY <1>1, <1>6 DEF Applied, Asked, FilesInv, Libraries
  <2>4. ASSUME ~Asked("cmd"), ~fail_flag'[k], ~Asked("keep_going") PROVE AsNow(r.work)'
    <3>1. ~r.fail
      BY <1>1, <2>1, <2>4, FailOnly DEF Stages
    <3>2. CASE hw_compilation
      <4>1. modelsim # None /\ AsNow(modelsim.work) /\ (unseen \/ hw = Applied)
        BY <1>1, <1>2, <1>4, <2>4, <3>2 DEF RealInv, Done, Good, LibraryOf, Stages
      <4>2. r.work = modelsim.work
        BY <3>2, <4>1 DEF HwResults
      <4>3. hw'.ver = hw.ver /\ (hw = Applied /\ hw' = Applied => hw' = hw)
        BY <1>1, <1>6, OverrideKeepsVersion DEF Stages
      <4> QED
        BY <1>6, <4>1, <4>2, <4>3 DEF AsNow
    <3>3. CASE ~hw_compilation
      <4>1. r.work = hw'
        BY <1>6, <2>4, <3>1, <3>3 DEF HwResults
      <4> QED
        BY <4>1 DEF AsNow
    <3> QED
      BY <3>2, <3>3
  <2>5. Done' /\ Library'
    BY <1>1, <2>2, <2>3, <2>4 DEF Done, Library, Good, LibraryOf, Asked
  <2> QED
    BY <1>3, <2>5 DEF RealInv
<1> QED
  BY <1>5, <1>6 DEF CompileHw

LEMMA SimulateReal == ASSUME IInv, FilesInv, RealInv, Simulate PROVE Die \/ RealInv'
<1>1. CASE Die
  BY <1>1
<1>2. CASE ~Die
  <2>1. pc = "sim" /\ pc' = "fpga"
        /\ UNCHANGED <<cmd, tests, k, run_status, program, hw, hw_compilation, fresh, unseen>>
    BY <1>2 DEF Simulate, Skip, Do, sources
  <2>2. ~fail_flag'[k] => ~fail_flag[k]
    BY <1>2, <2>1, FailOnly DEF Simulate, SimRun, Skip, Stages
  <2>3. modelsim' = modelsim \/ (modelsim # None /\ \E o \in SimOutcomes : SimRun(o))
    BY <1>2 DEF Simulate, Skip, files
  <2>4. LibraryOf => LibraryOf'
    BY <2>1, <2>3, SimDirectory DEF LibraryOf, AsNow
  <2>5. Skipped' /\ FreshDir' /\ Compiled' /\ Library'
    BY <2>1, <2>2 DEF RealInv, Skipped, FreshDir, Compiled, Library, Stages, Asked
  <2>6. Done'
    BY <2>1, <2>2, <2>4 DEF RealInv, Done, Good, Stages, AsNow, Applied, Asked
  <2>7. Simulated'
    <3> SUFFICES ASSUME ~Asked("cmd"), ~fail_flag'[k], Wants("sim")
                 PROVE /\ ran' # None
                       /\ Wants("hw") /\ ~Asked("keep_going") => AsNow(ran'.lib)
                       /\ Wants("app") => ran'.inst = program[test].ver
                       /\ Wants("app") /\ fresh => ran'.data = Data
      BY <2>1 DEF Simulated, Good, Asked, Wants, Data, test, AsNow
    <3>1. PICK o \in SimOutcomes : SimRun(o)
      BY <1>2, <2>2 DEF Simulate, Skip
    <3>2. o \in Started
      <4>1. o \notin {"raise", "errors"}
        BY <2>1, <3>1, FailOnly DEF SimRun, Stages
      <4> QED
        BY <3>1, <4>1 DEF SimOutcomes, Outcomes, Started
    <3> DEFINE d == IF dir[test] = None THEN EmptyDir ELSE dir[test]
               run == [lib |-> modelsim.work, inst |-> d.inst, data |-> d.data, outcome |-> o]
    <3>3. ran' = run
      BY <3>1, <3>2 DEF SimRun
    <3>4. run \in Simulations
      <4>1. d \in Directories
        BY <2>1, TestType, EmptyIsDirectory DEF FilesInv, Stages
      <4>2. modelsim \in Opened
        BY <1>2, <2>2 DEF Simulate, Skip, FilesInv
      <4> HIDE DEF d
      <4> QED
        BY <3>2, <4>1, <4>2 DEF Simulations, Directories, Opened
    <3>5. Wants("app") => d.inst = program[test].ver /\ (fresh => d.data = Data)
      BY <2>1, <2>2 DEF RealInv, Compiled, Good
    <3>6. Wants("hw") /\ ~Asked("keep_going") => AsNow(modelsim.work)
      BY <2>1, <2>2 DEF RealInv, Library, Good, LibraryOf
    <3> HIDE DEF d
    <3>7. ran'.lib = modelsim.work /\ ran'.inst = d.inst /\ ran'.data = d.data
      BY <3>3
    <3> QED
      BY <3>3, <3>4, <3>5, <3>6, <3>7, NoneAssumption
  <2> QED
    BY <2>5, <2>6, <2>7 DEF RealInv
<1> QED
  BY <1>1, <1>2

LEMMA LaterStagesReal ==
  ASSUME IInv, RealInv, Fpga \/ Mif \/ Gui \/ PostProcess \/ NoDebug PROVE Die \/ RealInv'
<1> DEFINE Still == UNCHANGED <<program, hw, modelsim, hw_compilation, fresh, ran, unseen>>
<1> USE DEF Later, Stages
<1>1. ASSUME NEW s \in Later, NEW n \in Later, Skip(s, n) PROVE RealInv'
  BY <1>1, LaterReal DEF Skip, sources, files
<1>2. ASSUME NEW s \in Later, NEW n \in Later, Do(s, n), NEW r \in BOOLEAN, NEW q \in BOOLEAN, MakeImages(r, q)
      PROVE RealInv'
  <2>1. Still /\ \E b : Fail(b)
    BY <1>2 DEF MakeImages, sources
  <2> QED
    BY <1>2, <2>1, FailOnly, LaterReal DEF Do
<1>3. ASSUME NEW s \in Later, NEW n \in Later, Do(s, n), Still, NEW b, Fail(b) PROVE RealInv'
  BY <1>3, FailOnly, LaterReal DEF Do
<1>4. CASE Fpga
  BY <1>1, <1>2, <1>4 DEF Fpga
<1>5. CASE Mif
  BY <1>1, <1>2, <1>5 DEF Mif
<1>6. CASE Gui
  BY <1>1, <1>3, <1>6 DEF Gui, sources, files
<1>7. CASE PostProcess
  BY <1>1, <1>3, <1>7 DEF PostProcess, sources, files
<1>8. CASE NoDebug
  BY <1>1, <1>8, LaterReal DEF NoDebug, sources
<1> QED
  BY <1>4, <1>5, <1>6, <1>7, <1>8

LEMMA EndReal == ASSUME IInv, RealInv, End PROVE RealInv'
<1>1. pc = "end" /\ UNCHANGED <<cmd, program, hw, modelsim, hw_compilation, fail_flag, unseen>>
      /\ run_status' = (IF fail_flag[k] THEN "FAILED" ELSE run_status) /\ pc' \in {"backup", "shell"}
  BY DEF End, StatusAfter, sources, files
<1>2. run_status' = "PASSED" => run_status = "PASSED" /\ ~fail_flag[k]
  BY <1>1
<1>3. Done'
  BY <1>1, <1>2 DEF RealInv, Done, Good, Stages, LibraryOf, AsNow, Applied, Asked
<1> QED
  BY <1>1, <1>3 DEF RealInv, Skipped, FreshDir, Compiled, Library, Simulated, Later, Stages

LEMMA StartReal == ASSUME NEW c \in Commands, RealInv, Start(c) PROVE RealInv'
<1>1. pc' \in {"backup", "shell"} /\ ~hw_compilation'
  BY DEF Start
<1> QED
  BY <1>1 DEF RealInv, Skipped, FreshDir, Compiled, Done, Library, Simulated, Later, Stages

LEMMA ShellReal == ASSUME pc' = "shell" PROVE RealInv'
  BY DEF RealInv, Skipped, FreshDir, Compiled, Done, Library, Simulated, Later, Stages

LEMMA NextReal == IInv /\ FilesInv /\ RealInv /\ [Next]_vars => RealInv'
<1> SUFFICES ASSUME IInv, FilesInv, RealInv, [Next]_vars PROVE RealInv'
  OBVIOUS
<1>1. CASE Edit \/ Interrupt \/ Die
  BY <1>1, ShellReal DEF Edit, Interrupt, Die
<1>2. ASSUME NEW c \in Commands, Start(c) PROVE RealInv'
  BY <1>2, StartReal
<1>3. CASE Backup \/ CompileSw \/ CompileHw
  BY <1>3, BackupReal, CompileSwReal, CompileHwReal
<1>4. CASE Simulate
  BY <1>1, <1>4, SimulateReal
<1>5. CASE Fpga \/ Mif \/ Gui \/ PostProcess \/ NoDebug
  BY <1>1, <1>5, LaterStagesReal
<1>6. CASE End
  BY <1>6, EndReal
<1>7. CASE UNCHANGED vars
  BY <1>7 DEF vars, sources, files, script, history, RealInv, Skipped, FreshDir, Compiled, Done, Library,
              Simulated, Good, LibraryOf, AsNow, Applied, Data, Asked, Wants, test
<1> QED
  BY <1>1, <1>2, <1>3, <1>4, <1>5, <1>6, <1>7 DEF Next, Stage

(* A test that passes was simulated, on the hardware as it is now but for   *)
(* an override of this run that failed unseen, with the program as it is    *)
(* now and its own data (build.py, _compile_sw, _compile_hw,                *)
(* _start_simulation).                                                      *)
THEOREM PassMeansSimulated == Spec => []PassedIsReal
<1>1. Init => RealInv
  BY DEF Init, RealInv, Skipped, FreshDir, Compiled, Done, Library, Simulated, Later, Stages
<1>2. FilesInv /\ LogsMoved /\ [Next]_vars => FilesInv' /\ LogsMoved'
  BY NextKeeps
<1>3. RealInv => PassedIsReal
  BY DEF RealInv, Simulated, PassedIsReal, Passed, Good, Later, Data, AsNow
<1> QED
  BY <1>1, <1>2, <1>3, InitFiles, InitSettles, NextSettles, NextReal, PTL DEF Spec
-------------------------------------------------------------------------------
(* The images: in the directory of the test, then on the board.             *)
Early == {"app", "hw", "sim", "fpga"}
HasImages == dir[test] # None /\ dir[test].inst = program[test].ver
             /\ (program[test].data => dir[test].data = program[test].ver)
OnBoard == LET image == <<test, program[test].ver>>
           IN mif.inst = image /\ (program[test].data => mif.data = image)

NoFlags == (pc = "app" => ~app_flag) /\ (pc \in Early => ~mif_flag)
Compiles == pc \in {"hw", "sim", "fpga", "mif"} /\ app_flag /\ Good => HasImages
Converts == pc \in Later /\ mif_flag /\ Good /\ ~quiet => OnBoard
Converted ==
  pc \in Later /\ Good =>
    /\ Asked("fpga") /\ pc # "fpga" => mif_flag
    /\ Asked("mif") /\ pc \notin {"fpga", "mif"} => mif_flag

BoardInv == NoFlags /\ Compiles /\ Converts /\ Converted

(* A stage that leaves the images alone.                                    *)
Passages == {<<"hw", "sim">>, <<"sim", "fpga">>, <<"fpga", "mif">>, <<"mif", "gui">>,
             <<"gui", "pp">>, <<"pp", "no_debug">>, <<"no_debug", "end">>}

LEMMA BoardAlone ==
  ASSUME BoardInv, NEW s, NEW n, <<s, n>> \in Passages, Do(s, n), ~fail_flag'[k] => ~fail_flag[k],
         UNCHANGED <<program, mif, app_flag, mif_flag, quiet>>, s \in {"fpga", "mif"} => ~Asked(s),
         s \in {"hw", "sim", "fpga"} /\ HasImages => HasImages'
  PROVE BoardInv'
<1>1. pc = s /\ pc' = n /\ UNCHANGED <<cmd, tests, k>>
  BY DEF Do
<1> USE DEF Passages
<1>2. Good' => Good
  BY <1>1 DEF Good, Asked
<1>3. NoFlags'
  BY <1>1 DEF BoardInv, NoFlags, Early
<1>4. Compiles'
  BY <1>1, <1>2 DEF BoardInv, Compiles
<1>5. Converts'
  <2>1. OnBoard' = OnBoard
    BY <1>1 DEF OnBoard, test
  <2>2. s \in {"hw", "sim"} => n \in {"sim", "fpga"} /\ (n \in Later => ~mif_flag)
    BY <1>1 DEF BoardInv, NoFlags, Early, Later
  <2> QED
    BY <1>1, <1>2, <2>1, <2>2 DEF BoardInv, Converts, Later
<1>6. Converted'
  BY <1>1, <1>2 DEF BoardInv, Converted, Later, Asked
<1> QED
  BY <1>3, <1>4, <1>5, <1>6 DEF BoardInv

(* _start_mif: what it has made unless it failed, seen or unseen.           *)
LEMMA MifReal ==
  ASSUME ~Asked("cmd"), NEW d, NEW m \in MifResults(d), ~m.fail, ~m.quiet,
         NEW v \in Versions, d.inst = v, program[test].data => d.data = v
  PROVE m.mif.inst = <<test, v>> /\ (program[test].data => m.mif.data = <<test, v>>)
<1>1. m \in Remade(Image(d.inst, mif.inst), Image(d.data, mif.data))
  BY DEF MifResults
<1>2. m.mif = [inst |-> Image(d.inst, mif.inst), data |-> Image(d.data, mif.data)]
  BY <1>1 DEF Remade
<1>3. Image(v, mif.inst) = <<test, v>> /\ Image(v, mif.data) = <<test, v>>
  BY NoneAssumption DEF Image
<1> QED
  BY <1>2, <1>3

LEMMA ImagesReal ==
  ASSUME IInv, FilesInv, BoardInv, NEW r \in BOOLEAN, NEW q, MakeImages(r, q),
         pc = "fpga" \/ (pc = "mif" /\ r), UNCHANGED <<cmd, tests, k>>
  PROVE /\ app_flag' /\ mif_flag' /\ UNCHANGED program
        /\ Good' => HasImages' /\ (~quiet' => OnBoard')
<1>1. app_flag' /\ mif_flag' /\ UNCHANGED program
  BY DEF MakeImages, sources
<1>2. SUFFICES ASSUME ~Asked("cmd"), ~fail_flag'[k] PROVE HasImages' /\ (~quiet' => OnBoard')
  BY <1>1 DEF Good, Asked
<1>3. PICK sw \in IF app_flag THEN {[dir |-> dir[test], fail |-> FALSE]} ELSE SwResults(dir[test]) :
        \E m \in IF mif_flag /\ ~r THEN {Kept} ELSE MifResults(sw.dir) : \E x :
          dir' = [dir EXCEPT ![test] = sw.dir] /\ mif' = m.mif /\ quiet' = m.quiet /\ Fail(sw.fail \/ m.fail \/ x)
  BY DEF MakeImages
<1>12. PICK m \in IF mif_flag /\ ~r THEN {Kept} ELSE MifResults(sw.dir) : \E x :
        dir' = [dir EXCEPT ![test] = sw.dir] /\ mif' = m.mif /\ quiet' = m.quiet /\ Fail(sw.fail \/ m.fail \/ x)
  BY <1>3
<1>11. PICK x :
        dir' = [dir EXCEPT ![test] = sw.dir] /\ mif' = m.mif /\ quiet' = m.quiet /\ Fail(sw.fail \/ m.fail \/ x)
  BY <1>12
<1>4. ~fail_flag[k] /\ ~sw.fail /\ ~m.fail
  BY <1>2, <1>11, FailOnly DEF Stages
<1>5. m \in MifResults(sw.dir)
  BY <1>11 DEF BoardInv, NoFlags, Early
<1>6. sw.dir # None /\ sw.dir.inst = program[test].ver /\ (program[test].data => sw.dir.data = program[test].ver)
  <2>1. CASE app_flag
    <3>1. HasImages
      BY <1>2, <1>4, <2>1 DEF BoardInv, Compiles, Good
    <3>2. sw.dir = dir[test]
      BY <1>3, <2>1
    <3> QED
      BY <3>1, <3>2 DEF HasImages
  <2>2. CASE ~app_flag
    BY <1>2, <1>3, <1>4, <2>2, SwReal DEF Stages, Data
  <2> QED
    BY <2>1, <2>2
<1>7. dir'[test] = sw.dir
  BY <1>3, TestType DEF FilesInv, Stages
<1>8. HasImages'
  BY <1>1, <1>6, <1>7 DEF HasImages, test
<1>9. program[test].ver \in Versions
  BY TestType DEF FilesInv, Stages
<1>10. ~quiet' => mif'.inst = <<test, program[test].ver>> /\ (program[test].data => mif'.data = <<test, program[test].ver>>)
  BY <1>2, <1>4, <1>5, <1>6, <1>9, <1>11, MifReal
<1> QED
  BY <1>1, <1>8, <1>10 DEF OnBoard, test

LEMMA BackupBoard == ASSUME IInv, Backup PROVE BoardInv'
<1>1. pc = "backup" /\ ~app_flag' /\ ~mif_flag' /\ pc' \in {"app", "end"}
  BY DEF Backup, Do
<1>2. pc' = "end" => fail_flag'[k']
  BY <1>1, FailOnly DEF Backup, Do, Stages
<1> QED
  BY <1>1, <1>2 DEF BoardInv, NoFlags, Compiles, Converts, Converted, Good, Later, Early

LEMMA CompileSwBoard == ASSUME IInv, FilesInv, BoardInv, CompileSw PROVE BoardInv'
<1>1. pc = "app" /\ pc' = "hw" /\ UNCHANGED <<cmd, tests, k, program, mif_flag>> /\ ~mif_flag
  BY DEF CompileSw, Skip, Do, sources, BoardInv, NoFlags, Early
<1>2. ASSUME app_flag', Good' PROVE HasImages'
  <2>1. ~Asked("cmd") /\ ~fail_flag'[k]
    BY <1>1, <1>2 DEF Good, Asked
  <2>2. PICK sw \in SwResults(dir[test]) : dir' = [dir EXCEPT ![test] = sw.dir] /\ Fail(sw.fail)
    BY <1>1, <1>2 DEF CompileSw, Skip, BoardInv, NoFlags
  <2>3. ~sw.fail
    BY <1>1, <2>1, <2>2, FailOnly DEF Stages
  <2>4. dir'[test] = sw.dir
    BY <1>1, <2>2, TestType DEF FilesInv, Stages
  <2>5. sw.dir # None /\ sw.dir.inst = program[test].ver /\ (program[test].data => sw.dir.data = program[test].ver)
    BY <1>1, <2>1, <2>2, <2>3, SwReal DEF Data, Stages
  <2> QED
    BY <1>1, <2>4, <2>5 DEF HasImages, test
<1> QED
  BY <1>1, <1>2 DEF BoardInv, NoFlags, Compiles, Converts, Converted, Later, Early

LEMMA CompileHwBoard == ASSUME IInv, BoardInv, CompileHw PROVE BoardInv'
<1>1. Do("hw", "sim") /\ pc = "hw" /\ UNCHANGED <<tests, k, program, dir, mif, app_flag, mif_flag, quiet>>
  BY DEF CompileHw, Skip, Do, sources, files
<1>2. ~fail_flag'[k] => ~fail_flag[k]
  BY <1>1, FailOnly DEF CompileHw, Skip, Stages
<1>3. HasImages => HasImages'
  BY <1>1 DEF HasImages, test
<1>4. <<"hw", "sim">> \in Passages
  BY DEF Passages
<1> QED
  BY <1>1, <1>2, <1>3, <1>4, BoardAlone

LEMMA SimulateBoard == ASSUME IInv, FilesInv, BoardInv, Simulate PROVE Die \/ BoardInv'
<1>1. CASE Die
  BY <1>1
<1>2. CASE ~Die
  <2>1. Do("sim", "fpga") /\ pc = "sim" /\ UNCHANGED <<tests, k, program, mif, app_flag, mif_flag, quiet>>
    BY <1>2 DEF Simulate, Skip, Do, sources, files
  <2>2. ~fail_flag'[k] => ~fail_flag[k]
    BY <1>2, <2>1, FailOnly DEF Simulate, SimRun, Skip, Stages
  <2>3. ASSUME HasImages PROVE HasImages'
    <3>1. CASE dir' = dir
      BY <2>1, <2>3, <3>1 DEF HasImages, test
    <3>2. ASSUME NEW o, SimRun(o), modelsim # None PROVE HasImages'
      <4>1. PICK e \in Directories : dir' = [dir EXCEPT ![test] = e] /\ e.inst = dir[test].inst /\ e.data = dir[test].data
        BY <2>1, <2>3, <3>2, SimDirectory DEF HasImages
      <4>2. dir'[test] = e /\ e # None
        BY <2>1, <4>1, TestType, NoneAssumption DEF FilesInv, Stages
      <4> QED
        BY <2>1, <2>3, <4>1, <4>2 DEF HasImages, test
    <3> QED
      BY <1>2, <3>1, <3>2 DEF Simulate, Skip, files
  <2>4. <<"sim", "fpga">> \in Passages
    BY DEF Passages
  <2> QED
    BY <2>1, <2>2, <2>3, <2>4, BoardAlone
<1> QED
  BY <1>1, <1>2

LEMMA ConvertBoard == ASSUME IInv, FilesInv, BoardInv, Fpga \/ Mif PROVE BoardInv'
<1>1. ASSUME NEW s \in {"fpga", "mif"}, NEW n \in {"mif", "gui"}, <<s, n>> \in Passages, Skip(s, n),
             ~Asked(s) \/ fail_flag[k]
      PROVE BoardInv'
  <2>1. Do(s, n) /\ pc = s /\ pc' = n
        /\ UNCHANGED <<cmd, tests, k, program, dir, mif, app_flag, mif_flag, quiet, fail_flag>>
    BY <1>1 DEF Skip, Do, sources, files
  <2>2. CASE ~Asked(s)
    <3>1. HasImages => HasImages'
      BY <2>1 DEF HasImages, test
    <3> QED
      BY <1>1, <2>1, <2>2, <3>1, BoardAlone
  <2>3. CASE fail_flag[k]
    BY <2>1, <2>3 DEF BoardInv, NoFlags, Compiles, Converts, Converted, Good, Early, Passages
  <2> QED
    BY <1>1, <2>2, <2>3
<1>2. ASSUME NEW s \in {"fpga", "mif"}, NEW n \in {"mif", "gui"}, <<s, n>> \in Passages, Do(s, n),
             NEW r \in BOOLEAN, r = (s = "mif"), NEW q, MakeImages(r, q)
      PROVE BoardInv'
  <2>1. pc = s /\ pc' = n /\ UNCHANGED <<cmd, tests, k>>
    BY <1>2 DEF Do
  <2>2. app_flag' /\ mif_flag' /\ (Good' => HasImages' /\ (~quiet' => OnBoard'))
    BY <1>2, <2>1, ImagesReal
  <2> QED
    BY <1>2, <2>1, <2>2 DEF BoardInv, NoFlags, Compiles, Converts, Converted, Early, Later, Passages
<1>3. <<"fpga", "mif">> \in Passages /\ <<"mif", "gui">> \in Passages
  BY DEF Passages
<1>4. CASE Fpga
  BY <1>1, <1>2, <1>3, <1>4 DEF Fpga
<1>5. CASE Mif
  BY <1>1, <1>2, <1>3, <1>5 DEF Mif
<1> QED
  BY <1>4, <1>5

LEMMA RestBoard == ASSUME IInv, BoardInv, Gui \/ PostProcess \/ NoDebug PROVE Die \/ BoardInv'
<1> DEFINE Still == UNCHANGED <<program, mif, app_flag, mif_flag, quiet>>
<1>1. ASSUME NEW s \in {"gui", "pp", "no_debug"}, NEW n, <<s, n>> \in Passages, Do(s, n), Still,
             fail_flag' = fail_flag \/ \E b : Fail(b)
      PROVE BoardInv'
  <2>1. ~fail_flag'[k] => ~fail_flag[k]
    BY <1>1, FailOnly DEF Do, Stages
  <2> QED
    BY <1>1, <2>1, BoardAlone
<1>2. <<"gui", "pp">> \in Passages /\ <<"pp", "no_debug">> \in Passages /\ <<"no_debug", "end">> \in Passages
  BY DEF Passages
<1>3. CASE Gui
  BY <1>1, <1>2, <1>3 DEF Gui, Skip, sources, files
<1>4. CASE PostProcess
  BY <1>1, <1>2, <1>4 DEF PostProcess, Skip, sources, files
<1>5. CASE NoDebug
  BY <1>1, <1>2, <1>5 DEF NoDebug, Skip, sources, files
<1> QED
  BY <1>3, <1>4, <1>5

LEMMA NextBoard == IInv /\ FilesInv /\ BoardInv /\ [Next]_vars => BoardInv'
<1> SUFFICES ASSUME IInv, FilesInv, BoardInv, [Next]_vars PROVE BoardInv'
  OBVIOUS
<1>1. pc' \in {"shell", "backup"} => BoardInv'
  BY DEF BoardInv, NoFlags, Compiles, Converts, Converted, Early, Later
<1>2. CASE Edit \/ Interrupt \/ Die \/ End \/ \E c \in Commands : Start(c)
  BY <1>1, <1>2 DEF Edit, Interrupt, Die, End, Start
<1>3. CASE Backup \/ CompileSw \/ CompileHw \/ Fpga \/ Mif
  BY <1>3, BackupBoard, CompileSwBoard, CompileHwBoard, ConvertBoard
<1>4. CASE Simulate \/ Gui \/ PostProcess \/ NoDebug
  BY <1>2, <1>4, SimulateBoard, RestBoard
<1>5. CASE UNCHANGED vars
  BY <1>5 DEF vars, sources, files, script, history, BoardInv, NoFlags, Compiles, Converts, Converted,
              Good, HasImages, OnBoard, Asked, test
<1> QED
  BY <1>2, <1>3, <1>4, <1>5 DEF Next, Stage

(* After -fpga or -mif the instructions on the board are those of this test *)
(* as its sources are now, and so are the data of a program that has some,  *)
(* unless mif_gen.py failed unseen (build.py, app_flag, mif_flag,           *)
(* _start_fpga, _start_mif).  The data image of a program without data is   *)
(* whatever the tests before it left.                                       *)
THEOREM BoardIsCurrent == Spec => []BoardHasThisProgram
<1>1. Init => BoardInv
  BY DEF Init, BoardInv, NoFlags, Compiles, Converts, Converted, Early, Later
<1>2. FilesInv /\ LogsMoved /\ [Next]_vars => FilesInv' /\ LogsMoved'
  BY NextKeeps
<1>3. BoardInv => BoardHasThisProgram
  <2> SUFFICES ASSUME BoardInv, Passed, Asked("fpga") \/ Asked("mif"), ~quiet PROVE OnBoard
    BY DEF BoardHasThisProgram, OnBoard
  <2>1. pc = "end" /\ Good
    BY DEF Passed, Good
  <2>2. mif_flag
    BY <2>1 DEF BoardInv, Converted, Later
  <2> QED
    BY <2>1, <2>2 DEF BoardInv, Converts, Later
<1> QED
  BY <1>1, <1>2, <1>3, InitFiles, InitSettles, NextSettles, NextBoard, PTL DEF Spec
-------------------------------------------------------------------------------
(* The results: written where there were none, then judged.                 *)
NoTranscript ==
  pc \in {"app", "hw", "sim"} /\ fresh => dir[test] = None \/ dir[test].transcript = None

AreOf(o) ==
  /\ dir[test] # None /\ dir[test].log # None /\ dir[test].log.outcome = o
  /\ fresh => dir[test].transcript # None /\ dir[test].transcript.outcome = o

Written ==
  pc \in {"fpga", "mif", "gui", "pp"} /\ Good /\ Wants("sim") =>
    AreOf(ran.outcome) /\ ran.outcome \in Started \ {"errors"}
Judged ==
  pc \in {"no_debug", "end"} /\ Good /\ Wants("sim") /\ Asked("pp") =>
    ran.outcome # "diff" /\ (fresh => ran.outcome = "clean")

CleanInv == NoTranscript /\ Written /\ Judged

LEMMA CompilesClean == ASSUME FilesInv, CleanInv, CompileSw \/ CompileHw PROVE CleanInv'
<1>1. pc \in {"app", "hw"} /\ pc' \in {"hw", "sim"} /\ UNCHANGED <<cmd, tests, k, fresh>>
  BY DEF CompileSw, CompileHw, Skip, Do
<1>2. CASE dir' = dir
  BY <1>1, <1>2 DEF CleanInv, NoTranscript, Written, Judged, test
<1>3. ASSUME NEW sw \in SwResults(dir[test]), dir' = [dir EXCEPT ![test] = sw.dir] PROVE CleanInv'
  <2>1. fresh => sw.dir.transcript = None
    BY <1>1, <1>3, SwKeeps DEF CleanInv, NoTranscript, Stages
  <2>2. dir'[test] = sw.dir
    BY <1>1, <1>3, TestType DEF FilesInv, Stages
  <2> QED
    BY <1>1, <2>1, <2>2 DEF CleanInv, NoTranscript, Written, Judged, test
<1> QED
  BY <1>2, <1>3 DEF CompileSw, CompileHw, Skip, files

LEMMA SimulateClean == ASSUME IInv, FilesInv, CleanInv, Simulate PROVE Die \/ CleanInv'
<1>1. CASE Die
  BY <1>1
<1>2. CASE ~Die
  <2>1. pc = "sim" /\ pc' = "fpga" /\ UNCHANGED <<cmd, tests, k, fresh>>
    BY <1>2 DEF Simulate, Skip, Do
  <2>2. ASSUME Good', Wants("sim") PROVE AreOf(ran.outcome)' /\ ran'.outcome \in Started \ {"errors"}
    <3>1. ~Asked("cmd") /\ ~fail_flag'[k]
      BY <2>1, <2>2 DEF Good, Asked
    <3>2. PICK o \in SimOutcomes : SimRun(o) /\ modelsim # None
      BY <1>2, <2>1, <2>2, <3>1 DEF Simulate, Skip
    <3>3. o \in Started \ {"errors"}
      <4>1. o \notin {"raise", "errors"}
        BY <2>1, <3>1, <3>2, FailOnly DEF SimRun, Stages
      <4> QED
        BY <3>1, <3>2, <4>1 DEF SimOutcomes, Outcomes, Started
    <3> DEFINE d == IF dir[test] = None THEN EmptyDir ELSE dir[test]
               result == [run |-> [build |-> builds, k |-> k], outcome |-> o]
    <3>4. fresh => d.transcript = None
      BY <2>1, <2>2, EmptyIsDirectory DEF CleanInv, NoTranscript
    <3>5. PICK e \in Directories : dir' = [dir EXCEPT ![test] = e] /\ e.log = result /\ (fresh => e.transcript = result)
      BY <2>1, <3>2, <3>3, <3>4, SimDirectory
    <3>6. result \in Results
      BY <2>1, <3>2, <3>3, SimDirectory
    <3>7. dir'[test] = e /\ e # None /\ result # None
      BY <2>1, <3>5, <3>6, TestType, NoneAssumption DEF FilesInv, Stages
    <3>8. ran'.outcome = o
      <4>1. PICK lib, inst, data : ran' = [lib |-> lib, inst |-> inst, data |-> data, outcome |-> o]
        BY <3>2, <3>3 DEF SimRun
      <4> QED
        BY <4>1
    <3>9. result.outcome = o
      OBVIOUS
    <3> HIDE DEF result
    <3> QED
      BY <2>1, <3>3, <3>5, <3>7, <3>8, <3>9 DEF AreOf, test
  <2> QED
    BY <2>1, <2>2 DEF CleanInv, NoTranscript, Written, Judged, Asked, Wants
<1> QED
  BY <1>1, <1>2

(* Neither the images nor the viewer touch the results.                     *)
LEMMA BetweenClean == ASSUME IInv, FilesInv, CleanInv, Fpga \/ Mif \/ Gui PROVE Die \/ CleanInv'
<1>1. CASE Die
  BY <1>1
<1>2. CASE ~Die
  <2>1. pc \in {"fpga", "mif", "gui"} /\ pc' \in {"mif", "gui", "pp"} /\ UNCHANGED <<cmd, tests, k, fresh, ran>>
    BY <1>2 DEF Fpga, Mif, Gui, MakeImages, Skip, Do
  <2>2. ~fail_flag'[k] => ~fail_flag[k]
    BY <1>2, <2>1, FailOnly DEF Fpga, Mif, Gui, MakeImages, Skip, Stages
  <2>3. ASSUME NEW o, AreOf(o) PROVE AreOf(o)'
    <3>1. CASE dir' = dir
      BY <2>1, <2>3, <3>1 DEF AreOf, test
    <3>2. ASSUME NEW r, NEW q, MakeImages(r, q) PROVE AreOf(o)'
      <4>1. PICK sw \in IF app_flag THEN {[dir |-> dir[test], fail |-> FALSE]} ELSE SwResults(dir[test]) :
              dir' = [dir EXCEPT ![test] = sw.dir]
        BY <3>2 DEF MakeImages
      <4>2. dir'[test] = sw.dir
        BY <2>1, <4>1, TestType DEF FilesInv, Stages
      <4>3. sw.dir # None /\ sw.dir.log = dir[test].log /\ sw.dir.transcript = dir[test].transcript
        <5>1. CASE app_flag
          <6>1. sw.dir = dir[test]
            BY <4>1, <5>1
          <6> QED
            BY <2>3, <6>1 DEF AreOf
        <5>2. CASE ~app_flag
          BY <2>1, <2>3, <4>1, <5>2, SwKeeps, NoneAssumption DEF AreOf, Stages
        <5> QED
          BY <5>1, <5>2
      <4> QED
        BY <2>1, <2>3, <4>2, <4>3 DEF AreOf, test
    <3> QED
      BY <1>2, <3>1, <3>2 DEF Fpga, Mif, Gui, Skip, files
  <2>4. Written'
    <3>1. ASSUME Good', Wants("sim") PROVE AreOf(ran.outcome) /\ ran.outcome \in Started \ {"errors"}
      BY <2>1, <2>2, <3>1 DEF CleanInv, Written, Good, Asked
    <3>2. PICK o : o = ran.outcome
      OBVIOUS
    <3>3. AreOf(o) => AreOf(ran.outcome)'
      BY <2>1, <2>3, <3>2 DEF AreOf
    <3> QED
      BY <2>1, <3>1, <3>2, <3>3 DEF Written, Asked, Wants
  <2> QED
    BY <2>1, <2>4 DEF CleanInv, NoTranscript, Judged
<1> QED
  BY <1>1, <1>2

(* The post-process fails what the simulation did not end well.             *)
LEMMA JudgeClean == ASSUME IInv, CleanInv, PostProcess \/ NoDebug PROVE CleanInv'
<1>1. pc \in {"pp", "no_debug"} /\ pc' \in {"no_debug", "end"} /\ UNCHANGED <<cmd, tests, k, fresh, ran>>
  BY DEF PostProcess, NoDebug, Skip, Do
<1>2. ~fail_flag'[k] => ~fail_flag[k]
  BY <1>1, FailOnly DEF PostProcess, NoDebug, Skip, Stages
<1>3. ASSUME Good', Wants("sim"), Asked("pp") PROVE ran.outcome # "diff" /\ (fresh => ran.outcome = "clean")
  <2>1. ~Asked("cmd") /\ ~fail_flag'[k] /\ Good
    BY <1>1, <1>2, <1>3 DEF Good, Asked
  <2>2. CASE NoDebug
    BY <1>3, <2>1, <2>2 DEF CleanInv, Judged, NoDebug, Skip, Do
  <2>3. CASE PostProcess
    <3>1. Fail(~Asked("cmd") /\ PpFails(dir[test])) /\ pc = "pp"
      BY <1>3, <2>1, <2>3 DEF PostProcess, Skip, Do, Good
    <3>2. ~PpFails(dir[test])
      BY <2>1, <3>1, FailOnly DEF Stages
    <3>3. AreOf(ran.outcome) /\ ran.outcome \in Started \ {"errors"}
      BY <1>3, <2>1, <3>1 DEF CleanInv, Written
    <3> QED
      BY <3>2, <3>3 DEF PpFails, AreOf, Started
  <2> QED
    BY <2>2, <2>3
<1> QED
  BY <1>1, <1>3 DEF CleanInv, NoTranscript, Written, Judged, Asked, Wants

LEMMA NextClean == IInv /\ FilesInv /\ CleanInv /\ [Next]_vars => CleanInv'
<1> SUFFICES ASSUME IInv, FilesInv, CleanInv, [Next]_vars PROVE CleanInv'
  OBVIOUS
<1>1. CASE Edit \/ Interrupt \/ Die \/ End \/ \E c \in Commands : Start(c)
  <2>1. pc' \in {"shell", "backup"}
    BY <1>1 DEF Edit, Interrupt, Die, End, Start
  <2> QED
    BY <2>1 DEF CleanInv, NoTranscript, Written, Judged
<1>2. CASE Backup
  <2>1. pc = "backup" /\ pc' \in {"app", "end"} /\ UNCHANGED <<tests, k>> /\ (fresh' => dir'[test] = None)
    BY <1>2 DEF Backup, Do
  <2>2. pc' = "end" => fail_flag'[k']
    BY <1>2, <2>1, FailOnly DEF Backup, Stages
  <2> QED
    BY <2>1, <2>2 DEF CleanInv, NoTranscript, Written, Judged, Good, test
<1>3. CASE CompileSw \/ CompileHw \/ PostProcess \/ NoDebug
  BY <1>3, CompilesClean, JudgeClean
<1>4. CASE Simulate \/ Fpga \/ Mif \/ Gui
  BY <1>1, <1>4, SimulateClean, BetweenClean
<1>5. CASE UNCHANGED vars
  BY <1>5 DEF vars, sources, files, script, history, CleanInv, NoTranscript, Written, Judged, AreOf,
              Good, Wants, Asked, test
<1> QED
  BY <1>1, <1>2, <1>3, <1>4, <1>5 DEF Next, Stage

(* A test that passes the post-process of mem_ss had no differing tracker,  *)
(* in a first run and in a rerun, and no error in a directory of its own    *)
(* (build.py, _start_simulation, _post_process).                            *)
THEOREM PassMeansClean == Spec => []PassedIsClean
<1>1. Init => CleanInv
  BY DEF Init, CleanInv, NoTranscript, Written, Judged
<1>2. FilesInv /\ LogsMoved /\ [Next]_vars => FilesInv' /\ LogsMoved'
  BY NextKeeps
<1>3. CleanInv => PassedIsClean
  BY DEF CleanInv, Judged, PassedIsClean, Passed, Good
<1> QED
  BY <1>1, <1>2, <1>3, InitFiles, InitSettles, NextSettles, NextClean, PTL DEF Spec
===============================================================================

------------------------------- MODULE GuiOutput -------------------------------
(* The output side of gui_build.py: a command runs in a process of its own, *)
(* a thread per command reads what it prints into a queue, and the main     *)
(* thread polls the queue and fills the output window, which may be closed. *)
EXTENDS Naturals, Sequences, FiniteSets

CONSTANTS
  MaxRuns,   \* bound on the commands that are run
  MaxLines,  \* bound on the lines a command prints
  None

ASSUME BoundsAssumption == MaxRuns \in Nat /\ MaxLines \in Nat

Runs == 1..MaxRuns
Lines == Runs \X (0..MaxLines)   \* line 0 is "Running command..."

ASSUME NoneAssumption == None \notin Lines /\ None \notin Seq(Lines)

VARIABLES
  runs,      \* commands run so far; self.output_queue was made by the last one
  printed,   \* [Runs -> lines its process has written]
  alive,     \* the processes that have not terminated
  read,      \* [Runs -> lines its thread has read]
  reader,    \* [Runs -> where its thread is]
  holds,     \* [Runs -> whose queue its thread has loaded, 0 when none]
  queue,     \* what is in self.output_queue
  window,    \* the lines in the output window, None when there is none
  pollers,   \* calls of check_for_output that are scheduled
  after_id,  \* the last of them that was noted: "none", "scheduled", "cancelled"
  app,       \* "open" or "destroyed"
  \* history
  cut        \* the runs that lost lines: a queue replaced, a window closed

threads == <<printed, alive, read, reader, holds>>
main == <<runs, window, pollers, after_id, app, cut>>
vars == <<threads, main, queue>>

TypeOK ==
  /\ runs \in 0..MaxRuns
  /\ printed \in [Runs -> 0..MaxLines] /\ read \in [Runs -> 0..MaxLines]
  /\ alive \subseteq Runs
  /\ reader \in [Runs -> {"none", "readline", "line", "error", "poll", "end", "done"}]
  /\ holds \in [Runs -> 0..MaxRuns]
  /\ queue \in Seq(Lines \cup {None})
  /\ window \in Seq(Lines) \cup {None}
  /\ pollers \in 0..MaxRuns
  /\ after_id \in {"none", "scheduled", "cancelled"}
  /\ app \in {"open", "destroyed"} /\ cut \subseteq Runs

Init ==
  /\ runs = 0 /\ printed = [r \in Runs |-> 0] /\ read = printed /\ alive = {}
  /\ reader = [r \in Runs |-> "none"] /\ holds = printed
  /\ queue = <<>> /\ window = None /\ pollers = 0 /\ after_id = "none"
  /\ app = "open" /\ cut = {}
-------------------------------------------------------------------------------
(* The process of run r prints and, when it likes, terminates.             *)
PrintLine(r) ==
  /\ r \in alive /\ printed[r] < MaxLines
  /\ printed' = [printed EXCEPT ![r] = @ + 1]
  /\ UNCHANGED <<alive, read, reader, holds, main, queue>>

Exit(r) ==
  /\ r \in alive /\ alive' = alive \ {r}
  /\ UNCHANGED <<printed, read, reader, holds, main, queue>>

(* run_command_in_thread: readline waits for a line or for the end of the  *)
(* output; poll() is asked after every line.  An exception, as for a line  *)
(* that cannot be decoded, ends the loop though the process may live: a    *)
(* message takes the place of that line and of the rest.                   *)
ReadLine(r) ==
  /\ reader[r] = "readline"
  /\ \/ /\ read[r] < printed[r] /\ read' = [read EXCEPT ![r] = @ + 1]
        /\ \E s \in {"line", "error"} : reader' = [reader EXCEPT ![r] = s]
     \/ read[r] = printed[r] /\ r \notin alive /\ reader' = [reader EXCEPT ![r] = "poll"] /\ UNCHANGED read
  /\ UNCHANGED <<printed, alive, holds, main, queue>>

(* Mutant: the thread goes on for as long as the process has printed.      *)
PollReadsOn(r) ==
  /\ reader[r] = "poll" /\ reader' = [reader EXCEPT ![r] = "readline"]
  /\ UNCHANGED <<printed, alive, read, holds, main, queue>>

Poll(r) ==
  /\ reader[r] = "poll"
  /\ reader' = [reader EXCEPT ![r] = IF r \in alive THEN "readline" ELSE "end"]
  /\ UNCHANGED <<printed, alive, read, holds, main, queue>>

(* self.output_queue.put(x) loads the queue, then puts: a queue that was   *)
(* replaced in between takes x with it.                                    *)
LoadQueue(r) ==
  /\ reader[r] \in {"line", "error", "end"} /\ holds[r] = 0
  /\ holds' = [holds EXCEPT ![r] = runs]
  /\ UNCHANGED <<printed, alive, read, reader, main, queue>>

PutAt(r, at, x, next) ==
  /\ reader[r] = at /\ reader' = [reader EXCEPT ![r] = next]
  /\ holds[r] # 0 /\ holds' = [holds EXCEPT ![r] = 0]
  /\ queue' = IF holds[r] = runs THEN Append(queue, x) ELSE queue
  /\ UNCHANGED <<printed, alive, read, main>>

Put(r) == PutAt(r, "line", <<r, read[r]>>, "poll") \/ PutAt(r, "error", <<r, read[r]>>, "end")
PutSentinel(r) == PutAt(r, "end", None, "done")

Thread(r) == ReadLine(r) \/ Poll(r) \/ LoadQueue(r) \/ Put(r) \/ PutSentinel(r)
-------------------------------------------------------------------------------
(* The lines up to the first sentinel, and what stays in the queue.        *)
Sentinels == {i \in DOMAIN queue : queue[i] = None}
FirstSentinel == CHOOSE i \in Sentinels : \A j \in Sentinels : i <= j
Taken == IF Sentinels = {} THEN queue ELSE SubSeq(queue, 1, FirstSentinel - 1)

(* Mutant: the poll drops what is behind the sentinel.                     *)
RestDropped == <<>>

Rest == IF Sentinels = {} THEN <<>> ELSE SubSeq(queue, FirstSentinel + 1, Len(queue))

Shown(w, lines) == IF lines = <<>> THEN w ELSE IF w = None THEN lines ELSE w \o lines

(* Lines that a new queue loses: those in the old one, and the ones whose  *)
(* thread has loaded the old one and not put them yet.                     *)
Lost == {queue[i][1] : i \in DOMAIN queue \ Sentinels} \cup
        {r \in Runs : holds[r] # 0 /\ reader[r] # "end"}

(* execute_command: the window is there at once, the new queue replaces the*)
(* old one, whatever is in it, and a new series of polls begins.           *)
Execute ==
  /\ app = "open" /\ runs < MaxRuns
  /\ runs' = runs + 1
  /\ window' = Shown(window, <<<<runs', 0>>>>)
  /\ queue' = <<>> /\ cut' = cut \cup Lost
  /\ alive' = alive \cup {runs'} /\ reader' = [reader EXCEPT ![runs'] = "readline"]
  /\ pollers' = pollers + 1
  /\ UNCHANGED <<printed, read, holds, after_id, app>>

(* Mutants: the queue is not emptied; the polls stop at the sentinel.      *)
CheckForOutputPeeks ==
  /\ app = "open" /\ pollers > 0
  /\ window' = Shown(window, Taken)
  /\ after_id' = "scheduled"
  /\ UNCHANGED <<threads, runs, pollers, app, cut, queue>>
CheckForOutputOnce ==
  /\ app = "open" /\ pollers > 0
  /\ window' = Shown(window, Taken) /\ queue' = Rest
  /\ after_id' = "cancelled" /\ pollers' = pollers - 1
  /\ UNCHANGED <<threads, runs, app, cut>>

(* check_for_output always schedules its next call, which it notes.        *)
CheckForOutput ==
  /\ app = "open" /\ pollers > 0
  /\ window' = Shown(window, Taken) /\ queue' = Rest
  /\ after_id' = "scheduled"
  /\ UNCHANGED <<threads, runs, pollers, app, cut>>

(* on_close cancels the last scheduled call, if one was ever noted.        *)
OnClose ==
  /\ app = "open" /\ window # None /\ window' = None
  /\ pollers' = IF after_id = "scheduled" THEN pollers - 1 ELSE pollers
  /\ after_id' = IF after_id = "scheduled" THEN "cancelled" ELSE after_id
  /\ cut' = cut \cup 1..runs
  /\ UNCHANGED <<threads, runs, app, queue>>

(* close_app waits a second for the last thread, then the windows go; the  *)
(* threads run on.                                                         *)
CloseApp ==
  /\ app = "open" /\ app' = "destroyed"
  /\ window' = None /\ pollers' = 0 /\ cut' = cut \cup 1..runs
  /\ UNCHANGED <<threads, runs, after_id, queue>>

Next ==
  \/ Execute \/ CheckForOutput \/ OnClose \/ CloseApp
  \/ \E r \in Runs : PrintLine(r) \/ Exit(r) \/ Thread(r)

(* The threads are scheduled and the main loop of the windows turns; the   *)
(* user does what he likes, and a process may run for ever.                *)
Spec == Init /\ [][Next]_vars
FairSpec == Spec /\ WF_vars(CheckForOutput) /\ \A r \in Runs : WF_vars(Thread(r))
-------------------------------------------------------------------------------
(* The lines of a command come in the order in which it printed them, and  *)
(* none comes twice, even when a later command's queue takes them          *)
(* (run_command_in_thread, check_for_output).                              *)
ShownInOrder ==
  window # None =>
    \A i, j \in DOMAIN window : i < j /\ window[i][1] = window[j][1] => window[i][2] < window[j][2]

(* Of a command that lost no line to a closed window or a replaced queue,  *)
(* no line is missing between two that are shown.                          *)
ShownWithoutGap ==
  window # None =>
    \A i \in DOMAIN window : window[i][1] \notin cut /\ window[i][2] > 1 => \E j \in 1..(i - 1) :
      window[j] = <<window[i][1], window[i][2] - 1>>

(* Every command adds a series of polls, and only closing its window ends  *)
(* one: the number is positive while a window shows a command (on_close,   *)
(* after_id).                                                              *)
WindowIsServed == app = "open" /\ window # None => pollers > 0

(* What a thread has read is shown, or its window was closed or a later    *)
(* command threw it away (check_for_output, every 100 ms).                 *)
ReadIsShown ==
  \A r \in Runs, n \in 1..MaxLines :
    read[r] = n ~> r \in cut \/ (window # None /\ \E i \in DOMAIN window : window[i] = <<r, n>>)

(* A thread whose process has terminated comes to its end.                 *)
ThreadsEnd == \A r \in Runs : reader[r] # "none" /\ r \notin alive ~> reader[r] = "done"
===============================================================================

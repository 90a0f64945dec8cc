----------------------------- MODULE OutputProofs ------------------------------
(* The output window of gui_build.py, for any number of commands and lines: *)
(* what it shows is in order and has no gap, and something fills it.        *)
EXTENDS GuiOutput, Integers, SequenceTheorems, WellFoundedInduction, TLAPS

Readers == {"none", "readline", "line", "error", "poll", "end", "done"}

Types ==
  /\ runs \in 0..MaxRuns /\ pollers \in Int
  /\ printed \in [Runs -> 0..MaxLines] /\ read \in [Runs -> 0..MaxLines]
  /\ reader \in [Runs -> Readers] /\ holds \in [Runs -> 0..MaxRuns]
  /\ queue \in Seq(Lines \cup {None})
  /\ window \in Seq(Lines) \cup {None}

Win == IF window = None THEN <<>> ELSE window

(* The last line of a run that has left its thread.                        *)
Out(r) == IF reader[r] \in {"line", "error"} THEN read[r] - 1 ELSE read[r]

Precedes(l, m) == l[1] = m[1] => l[2] < m[2]

(* Lines are in order within the window, within the queue, and from the    *)
(* one to the other, and none is ahead of its thread.                      *)
WinOrder == \A i, j \in DOMAIN Win : i < j => Precedes(Win[i], Win[j])
QueueOrder ==
  \A i, j \in DOMAIN queue : i < j /\ queue[i] # None /\ queue[j] # None => Precedes(queue[i], queue[j])
CrossOrder == \A i \in DOMAIN Win, j \in DOMAIN queue : queue[j] # None => Precedes(Win[i], queue[j])
NotAhead(l) == l[1] <= runs /\ l[2] <= Out(l[1])
NoneAhead ==
  /\ \A i \in DOMAIN Win : NotAhead(Win[i])
  /\ \A i \in DOMAIN queue : queue[i] # None => NotAhead(queue[i])
Unstarted == \A r \in Runs : r > runs => reader[r] = "none" /\ read[r] = 0

Order == WinOrder /\ QueueOrder /\ CrossOrder /\ NoneAhead /\ Unstarted

(* What has left the thread is in the window or in the queue.              *)
Shows(l) == \E i \in DOMAIN Win : Win[i] = l
Queues(l) == \E i \in DOMAIN queue : queue[i] = l
HeldKept == \A r \in Runs : holds[r] # 0 /\ reader[r] # "end" => holds[r] = runs \/ r \in cut
NothingLost == \A r \in Runs \ cut : \A n \in 1..Out(r) : Shows(<<r, n>>) \/ Queues(<<r, n>>)
-------------------------------------------------------------------------------
(* A set of line numbers has a least one.                                   *)
Less == {p \in Nat \X Nat : p[1] < p[2]}

LEMMA HasLeast == ASSUME NEW T \in SUBSET Nat, T # {} PROVE \E i \in T : \A j \in T : i <= j
<1>1. IsWellFoundedOn(Less, Nat)
  BY NatLessThanWellFounded DEF OpToRel, Less
<1>2. PICK i \in T : \A j \in T : <<j, i>> \notin Less
  BY <1>1, WFMin
<1>3. \A j \in T : ~(j < i)
  BY <1>2 DEF Less
<1> QED
  BY <1>3

LEMMA WinType == Types => /\ Win \in Seq(Lines) /\ (window # None => Win = window)
  BY DEF Types, Win

LEMMA OutType == ASSUME Types, NEW r \in Runs PROVE Out(r) \in Int
  BY DEF Types, Out, Readers

(* The lines a poll takes come before those it leaves.                     *)
LEMMA PollSplits ==
  ASSUME Types
  PROVE /\ Taken \in Seq(Lines) /\ Rest \in Seq(Lines \cup {None})
        /\ \A i \in DOMAIN Taken : i \in DOMAIN queue /\ Taken[i] = queue[i]
        /\ \E d \in Nat :
             /\ \A i \in DOMAIN Rest : i + d \in DOMAIN queue /\ Rest[i] = queue[i + d]
             /\ \A i \in DOMAIN Taken : i <= d
             /\ \A i \in DOMAIN queue : \/ i \in DOMAIN Taken
                                        \/ queue[i] = None
                                        \/ i > d /\ i - d \in DOMAIN Rest
<1>1. queue \in Seq(Lines \cup {None}) /\ Len(queue) \in Nat /\ DOMAIN queue = 1..Len(queue)
  BY DEF Types
<1>2. CASE Sentinels = {}
  <2>1. Taken = queue /\ Rest = <<>>
    BY <1>2 DEF Taken, Rest
  <2>2. \A i \in DOMAIN queue : queue[i] \in Lines
    BY <1>1, <1>2 DEF Sentinels
  <2>3. queue \in Seq(Lines)
    BY <1>1, <2>2
  <2> QED
    BY <1>1, <2>1, <2>3
<1>3. CASE Sentinels # {}
  <2> DEFINE d == FirstSentinel
  <2>1. d \in Sentinels /\ \A j \in Sentinels : d <= j
    <3>1. Sentinels \subseteq Nat
      BY <1>1 DEF Sentinels
    <3>2. \E i \in Sentinels : \A j \in Sentinels : i <= j
      BY <1>3, <3>1, HasLeast
    <3> QED
      BY <3>2 DEF FirstSentinel
  <2>2. d \in 1..Len(queue) /\ queue[d] = None /\ \A i \in 1..(d - 1) : queue[i] \in Lines
    BY <1>1, <2>1 DEF Sentinels
  <2>3. Taken = SubSeq(queue, 1, d - 1) /\ Rest = SubSeq(queue, d + 1, Len(queue))
    BY <1>3 DEF Taken, Rest
  <2> HIDE DEF d
  <2>4. Taken \in Seq(Lines) /\ Len(Taken) = d - 1 /\ \A i \in 1..(d - 1) : Taken[i] = queue[i]
    BY <1>1, <2>2, <2>3
  <2>5. /\ Rest \in Seq(Lines \cup {None}) /\ Len(Rest) = Len(queue) - d
        /\ \A i \in 1..(Len(queue) - d) : Rest[i] = queue[i + d]
    <3>1. d + 1 \in Int /\ Len(queue) \in Int
      BY <1>1, <2>2
    <3>2. \A i \in (d + 1)..Len(queue) : queue[i] \in Lines \cup {None}
      BY <1>1, <2>2
    <3>3. /\ Rest \in Seq(Lines \cup {None})
          /\ Len(Rest) = IF d + 1 <= Len(queue) THEN Len(queue) - (d + 1) + 1 ELSE 0
          /\ \A i \in 1..(Len(queue) - (d + 1) + 1) : Rest[i] = queue[(d + 1) + i - 1]
      BY <2>3, <3>1, <3>2, SubSeqProperties
    <3>4. \A i \in 1..(Len(queue) - d) : (d + 1) + i - 1 = i + d
      BY <2>2
    <3>5. Len(queue) - (d + 1) + 1 = Len(queue) - d /\ Len(Rest) = Len(queue) - d
      <4>1. d \in Int /\ Len(queue) \in Int /\ d <= Len(queue)
        BY <1>1, <2>2
      <4>2. Len(Rest) = IF d + 1 <= Len(queue) THEN Len(queue) - (d + 1) + 1 ELSE 0
        BY <3>3
      <4> QED
        BY <4>1, <4>2
    <3> QED
      BY <3>3, <3>4, <3>5
  <2>6. DOMAIN Taken = 1..(d - 1) /\ DOMAIN Rest = 1..(Len(queue) - d)
    BY <2>4, <2>5
  <2>7. /\ \A i \in DOMAIN Rest : i + d \in DOMAIN queue /\ Rest[i] = queue[i + d]
        /\ \A i \in DOMAIN Taken : i <= d
        /\ \A i \in DOMAIN queue : i \in DOMAIN Taken \/ queue[i] = None \/ (i > d /\ i - d \in DOMAIN Rest)
    BY <1>1, <2>2, <2>5, <2>6
  <2>8. \A i \in DOMAIN Taken : i \in DOMAIN queue /\ Taken[i] = queue[i]
    BY <1>1, <2>2, <2>4, <2>6
  <2>9. d \in Nat
    BY <2>2
  <2> QED
    BY <2>4, <2>5, <2>7, <2>8, <2>9
<1> QED
  BY <1>2, <1>3
-------------------------------------------------------------------------------
LEMMA WinShown ==
  ASSUME Types, NEW lines \in Seq(Lines), window' = Shown(window, lines)
  PROVE Win' = Win \o lines /\ window' \in Seq(Lines) \cup {None}
<1>1. Win \in Seq(Lines) /\ (window # None => Win = window)
  BY WinType
<1>2. CASE lines = <<>>
  <2>1. window' = window /\ Win' = Win
    BY <1>2 DEF Shown, Win
  <2> QED
    BY <1>1, <1>2, <2>1 DEF Types
<1>3. CASE lines # <<>> /\ window = None
  <2>1. window' = lines /\ Win = <<>>
    BY <1>3 DEF Shown, Win
  <2>2. lines # None
    BY NoneAssumption DEF Lines
  <2>3. Win' = lines
    BY <2>1, <2>2 DEF Win
  <2> QED
    BY <2>1, <2>3
<1>4. CASE lines # <<>> /\ window # None
  <2>1. window' = window \o lines /\ Win = window
    BY <1>1, <1>4 DEF Shown
  <2>2. window' \in Seq(Lines)
    BY <1>1, <2>1
  <2>3. window' # None
    BY <2>2, NoneAssumption
  <2>4. Win' = window'
    BY <2>3 DEF Win
  <2> QED
    BY <2>1, <2>2, <2>4
<1> QED
  BY <1>2, <1>3, <1>4

LEMMA TypesKept == Types /\ [Next]_vars => Types'
<1> SUFFICES ASSUME Types, [Next]_vars PROVE Types'
  OBVIOUS
<1> USE BoundsAssumption
<1>1. CASE Execute
  <2>1. runs + 1 \in Runs /\ <<<<runs + 1, 0>>>> \in Seq(Lines)
    BY <1>1 DEF Execute, Types, Runs, Lines
  <2>2. window' \in Seq(Lines) \cup {None}
    BY <1>1, <2>1, WinShown DEF Execute
  <2> QED
    BY <1>1, <2>1, <2>2 DEF Execute, Types, Readers
<1>2. CASE CheckForOutput
  <2>1. window' \in Seq(Lines) \cup {None}
    BY <1>2, PollSplits, WinShown DEF CheckForOutput
  <2> QED
    BY <1>2, <2>1, PollSplits DEF CheckForOutput, Types, threads
<1>3. CASE OnClose \/ CloseApp
  BY <1>3 DEF OnClose, CloseApp, Types, threads
<1>4. ASSUME NEW r \in Runs, PrintLine(r) \/ Exit(r) PROVE Types'
  <2>1. UNCHANGED <<runs, window, pollers, queue, read, reader, holds>>
    BY <1>4 DEF PrintLine, Exit, main
  <2>2. printed' \in [Runs -> 0..MaxLines]
    <3>1. CASE printed[r] < MaxLines /\ printed' = [printed EXCEPT ![r] = @ + 1]
      <4>1. printed[r] + 1 \in 0..MaxLines
        BY <3>1 DEF Types
      <4> QED
        BY <3>1, <4>1 DEF Types
    <3> QED
      BY <1>4, <3>1 DEF PrintLine, Exit, Types
  <2> QED
    BY <2>1, <2>2 DEF Types
<1>5. ASSUME NEW r \in Runs, ReadLine(r) PROVE Types'
  <2>1. UNCHANGED <<runs, window, pollers, queue, printed, holds>>
    BY <1>5 DEF ReadLine, main
  <2>2. read' \in [Runs -> 0..MaxLines]
    <3>1. CASE read[r] < printed[r] /\ read' = [read EXCEPT ![r] = @ + 1]
      <4>1. read[r] + 1 \in 0..MaxLines
        BY <3>1 DEF Types
      <4> QED
        BY <3>1, <4>1 DEF Types
    <3> QED
      BY <1>5, <3>1 DEF ReadLine, Types
  <2>3. reader' \in [Runs -> Readers]
    BY <1>5 DEF ReadLine, Types, Readers
  <2> QED
    BY <2>1, <2>2, <2>3 DEF Types
<1>6. ASSUME NEW r \in Runs, Put(r) \/ PutSentinel(r) PROVE Types'
  <2>1. UNCHANGED <<runs, window, pollers, printed, read>>
    BY <1>6 DEF Put, PutSentinel, PutAt, main
  <2>2. PICK x \in Lines \cup {None}, s \in Readers :
          /\ reader' = [reader EXCEPT ![r] = s] /\ holds' = [holds EXCEPT ![r] = 0]
          /\ queue' = queue \/ queue' = Append(queue, x)
    <3>1. <<r, read[r]>> \in Lines
      BY DEF Types, Lines
    <3>2. CASE PutAt(r, "line", <<r, read[r]>>, "poll")
      BY <3>1, <3>2 DEF PutAt, Readers
    <3>3. CASE PutAt(r, "error", <<r, read[r]>>, "end")
      BY <3>1, <3>3 DEF PutAt, Readers
    <3>4. CASE PutAt(r, "end", None, "done")
      BY <3>4 DEF PutAt, Readers
    <3> QED
      BY <1>6, <3>2, <3>3, <3>4 DEF Put, PutSentinel
  <2>3. queue' \in Seq(Lines \cup {None})
    <3>1. queue \in Seq(Lines \cup {None})
      BY DEF Types
    <3>2. Append(queue, x) \in Seq(Lines \cup {None})
      BY <3>1, AppendProperties
    <3> QED
      BY <2>2, <3>1, <3>2
  <2> QED
    BY <2>1, <2>2, <2>3 DEF Types
<1>7. ASSUME NEW r \in Runs, Poll(r) \/ LoadQueue(r) PROVE Types'
  <2>1. UNCHANGED <<runs, window, pollers, printed, read, queue>>
    BY <1>7 DEF Poll, LoadQueue, main
  <2>2. CASE Poll(r)
    <3>1. PICK s \in Readers : reader' = [reader EXCEPT ![r] = s]
      <4>1. CASE r \in alive
        BY <2>2, <4>1 DEF Poll, Readers
      <4>2. CASE r \notin alive
        BY <2>2, <4>2 DEF Poll, Readers
      <4> QED
        BY <4>1, <4>2
    <3> QED
      BY <2>1, <2>2, <3>1 DEF Poll, Types
  <2>3. CASE LoadQueue(r)
    BY <2>1, <2>3 DEF LoadQueue, Types
  <2> QED
    BY <1>7, <2>2, <2>3
<1>8. CASE UNCHANGED vars
  BY <1>8 DEF vars, threads, main, Types
<1> QED
  BY <1>1, <1>2, <1>3, <1>4, <1>5, <1>6, <1>7, <1>8 DEF Next, Thread

LEMMA InitTypes == Init => Types
  BY BoundsAssumption DEF Init, Types, Readers

(* While a window shows a command a poll is scheduled (execute_command,     *)
(* on_close, after_id).                                                     *)
THEOREM SomethingPolls == Spec => []WindowIsServed
<1> DEFINE Served == pollers >= 0 /\ WindowIsServed
<1>1. Init => Types /\ Served
  BY InitTypes DEF Init, WindowIsServed
<1>2. Types /\ Served /\ [Next]_vars => Types' /\ Served'
  <2> SUFFICES ASSUME Types, Served, [Next]_vars PROVE Served'
    BY TypesKept
  <2>1. CASE Execute
    BY <2>1 DEF Execute, Types, WindowIsServed
  <2>2. CASE CheckForOutput
    BY <2>2 DEF CheckForOutput, Types, WindowIsServed
  <2>3. CASE OnClose \/ CloseApp
    BY <2>3 DEF OnClose, CloseApp, Types, WindowIsServed
  <2>4. CASE (\E r \in Runs : PrintLine(r) \/ Exit(r) \/ Thread(r)) \/ UNCHANGED vars
    BY <2>4 DEF Thread, PrintLine, Exit, ReadLine, Put, LoadQueue, PutAt, Poll, PutSentinel, main, vars, WindowIsServed
  <2> QED
    BY <2>1, <2>2, <2>3, <2>4 DEF Next
<1>3. Served => WindowIsServed
  OBVIOUS
<1> QED
  BY <1>1, <1>2, <1>3, PTL DEF Spec
-------------------------------------------------------------------------------
(* A thread's step: its last line may leave it, and nothing else moves.     *)
LEMMA OrderOfSame ==
  ASSUME Types, Order, Types', Unstarted', runs' = runs, Win' = Win, queue' = queue,
         \A r \in Runs : r <= runs => Out(r) <= Out(r)'
  PROVE Order'
<1>1. WinOrder' /\ QueueOrder' /\ CrossOrder'
  BY DEF Order, WinOrder, QueueOrder, CrossOrder, Precedes
<1>2. NoneAhead'
  <2>1. \A i \in DOMAIN Win : Win[i] \in Lines
    BY WinType
  <2>2. \A i \in DOMAIN queue : queue[i] # None => queue[i] \in Lines
    BY DEF Types
  <2>3. ASSUME NEW l \in Lines, NotAhead(l) PROVE NotAhead(l)'
    <3>1. l[1] \in Runs /\ l[2] \in Nat
      BY DEF Lines
    <3>2. Out(l[1]) \in Int /\ Out(l[1])' \in Int
      BY <3>1, OutType DEF Types, Out
    <3> QED
      BY <2>3, <3>1, <3>2 DEF NotAhead
  <2>4. \A i \in DOMAIN Win : \E l \in Lines : Win'[i] = l /\ NotAhead(l)'
    BY <2>1, <2>3 DEF Order, NoneAhead
  <2>5. \A i \in DOMAIN queue : queue[i] # None => \E l \in Lines : queue'[i] = l /\ NotAhead(l)'
    BY <2>2, <2>3 DEF Order, NoneAhead
  <2> QED
    BY <2>4, <2>5 DEF NoneAhead, NotAhead
<1> QED
  BY <1>1, <1>2 DEF Order

(* A thread puts a line that none of its run's is after, or a sentinel.     *)
LEMMA OrderOfAppend ==
  ASSUME Types, Order, Types', Unstarted', runs' = runs, Win' = Win,
         NEW x \in Lines \cup {None}, queue' = Append(queue, x),
         \A r \in Runs : r <= runs => Out(r) <= Out(r)',
         x # None => Out(x[1]) < x[2] /\ NotAhead(x)'
  PROVE Order'
<1>1. /\ queue \in Seq(Lines \cup {None}) /\ Len(queue) \in Nat /\ DOMAIN queue = 1..Len(queue)
      /\ DOMAIN queue' = 1..(Len(queue) + 1)
      /\ \A i \in 1..Len(queue) : queue'[i] = queue[i]
      /\ queue'[Len(queue) + 1] = x
  BY DEF Types
<1>2. \A i \in DOMAIN Win : Win[i] \in Lines
  BY WinType
<1>3. \A i \in DOMAIN queue : queue[i] # None => queue[i] \in Lines
  BY <1>1
<1>4. \A r \in Runs : Out(r) \in Int /\ Out(r)' \in Int
  BY OutType DEF Types, Out
<1>5. ASSUME NEW l \in Lines, NotAhead(l)
      PROVE NotAhead(l)' /\ (x # None => Precedes(l, x))
  <2>1. l[1] \in Runs /\ l[2] \in Nat /\ (x # None => x[1] \in Runs /\ x[2] \in Nat)
    BY DEF Lines
  <2> QED
    BY <1>4, <1>5, <2>1 DEF Precedes, NotAhead
<1>6. QueueOrder'
  BY <1>1, <1>3, <1>5 DEF Order, QueueOrder, NoneAhead
<1>7. CrossOrder'
  BY <1>1, <1>2, <1>5 DEF Order, CrossOrder, NoneAhead
<1>8. NoneAhead'
  <2>1. \A i \in DOMAIN Win : \E l \in Lines : Win'[i] = l /\ NotAhead(l)'
    BY <1>2, <1>5 DEF Order, NoneAhead
  <2>2. \A i \in DOMAIN queue' : queue'[i] # None => \E l \in Lines : queue'[i] = l /\ NotAhead(l)'
    BY <1>1, <1>3, <1>5 DEF Order, NoneAhead
  <2> QED
    BY <2>1, <2>2 DEF NoneAhead, NotAhead
<1> QED
  BY <1>6, <1>7, <1>8 DEF Order, WinOrder

LEMMA OrderOfExecute == ASSUME Types, Order, Types', Execute PROVE Order'
<1>0. PICK n \in Runs : n = runs + 1
  BY BoundsAssumption DEF Execute, Types, Runs
<1> DEFINE l == <<n, 0>>
<1>1. runs < n /\ l \in Lines /\ runs' = n /\ queue' = <<>> /\ read' = read
      /\ reader' = [reader EXCEPT ![n] = "readline"] /\ window' = Shown(window, <<l>>)
  BY <1>0, BoundsAssumption DEF Execute, Types, Lines
<1>2. Win' = Win \o <<l>>
  <2>1. <<l>> \in Seq(Lines)
    BY <1>1
  <2> QED
    BY <1>1, <2>1, WinShown
<1>3. Win \in Seq(Lines) /\ DOMAIN Win = 1..Len(Win) /\ Len(Win) \in Nat
      /\ \A i \in DOMAIN Win : Win[i] \in Lines
  BY WinType
<1>4. DOMAIN Win' = 1..(Len(Win) + 1) /\ Win'[Len(Win) + 1] = l
      /\ \A i \in 1..Len(Win) : Win'[i] = Win[i]
  BY <1>2, <1>3
<1>5. \A r \in Runs \ {n} : Out(r)' = Out(r)
  BY <1>1 DEF Out, Types
<1>6. Out(n)' = 0
  <2>1. read[n] = 0
    BY <1>1 DEF Order, Unstarted
  <2>2. reader'[n] = "readline"
    BY <1>1 DEF Types
  <2> QED
    BY <1>1, <2>1, <2>2 DEF Out
<1>7. ASSUME NEW i \in 1..Len(Win) PROVE NotAhead(Win[i]) /\ Win[i][1] # n
  <2>1. NotAhead(Win[i])
    BY <1>3 DEF Order, NoneAhead
  <2>2. Win[i][1] \in Nat
    BY <1>3 DEF Lines, Runs
  <2> QED
    BY <1>1, <2>1, <2>2 DEF NotAhead, Types
<1>8. WinOrder'
  <2>1. \A i \in 1..Len(Win) : Precedes(Win[i], l)
    BY <1>7 DEF Precedes
  <2> QED
    BY <1>3, <1>4, <2>1 DEF Order, WinOrder
<1>9. NoneAhead'
  <2>1. ASSUME NEW m \in Lines, NotAhead(m), m[1] # n PROVE NotAhead(m)'
    BY <1>1, <1>5, <2>1 DEF NotAhead, Lines, Runs, Types
  <2>2. NotAhead(l)'
    BY <1>1, <1>6 DEF NotAhead, Types, Runs
  <2>3. \A i \in DOMAIN Win' : \E m \in Lines : Win'[i] = m /\ NotAhead(m)'
    <3> HIDE DEF l
    <3> QED
      BY <1>1, <1>3, <1>4, <1>7, <2>1, <2>2
  <2> QED
    BY <1>1, <2>3 DEF NoneAhead, NotAhead
<1>10. Unstarted'
  BY <1>1 DEF Order, Unstarted, Types, Runs
<1> QED
  BY <1>1, <1>8, <1>9, <1>10 DEF Order, QueueOrder, CrossOrder

LEMMA OrderOfPoll == ASSUME Types, Order, Types', CheckForOutput PROVE Order'
<1>1. queue' = Rest /\ UNCHANGED <<runs, read, reader>> /\ Win' = Win \o Taken
  BY PollSplits, WinShown DEF CheckForOutput, threads
<1>2. Win \in Seq(Lines) /\ Taken \in Seq(Lines) /\ \A i \in DOMAIN Taken : Taken[i] \in Lines
  BY WinType, PollSplits
<1>3. /\ DOMAIN Win' = 1..(Len(Win) + Len(Taken))
      /\ \A i \in 1..Len(Win) : Win'[i] = Win[i]
      /\ \A i \in DOMAIN Win' : i > Len(Win) => i - Len(Win) \in DOMAIN Taken /\ Win'[i] = Taken[i - Len(Win)]
  BY <1>1, <1>2
<1>4. PICK d \in Nat :
        /\ \A i \in DOMAIN Rest : i + d \in DOMAIN queue /\ Rest[i] = queue[i + d]
        /\ \A i \in DOMAIN Taken : i <= d
  BY PollSplits
<1>5. \A i \in DOMAIN Taken : i \in DOMAIN queue /\ Taken[i] = queue[i] /\ queue[i] # None
  BY <1>2, PollSplits, NoneAssumption
<1>6. DOMAIN Rest \subseteq Nat \ {0} /\ DOMAIN Taken \subseteq Nat /\ DOMAIN queue \subseteq Nat /\ Len(Win) \in Nat
      /\ DOMAIN Win' \subseteq Nat
  BY <1>2, <1>3, PollSplits DEF Types
<1>11. ASSUME NEW i \in DOMAIN Win', i > Len(Win)
       PROVE i - Len(Win) \in DOMAIN Taken /\ Win'[i] = queue[i - Len(Win)]
  <2>1. i - Len(Win) \in DOMAIN Taken /\ Win'[i] = Taken[i - Len(Win)]
    <3>1. DOMAIN Taken = 1..Len(Taken) /\ Len(Taken) \in Nat /\ Len(Win) \in Nat
      BY <1>2
    <3>2. i \in (Len(Win) + 1)..(Len(Win) + Len(Taken))
      BY <1>3, <1>11, <3>1
    <3> QED
      BY <1>1, <1>2, <3>1, <3>2
  <2>2. \A k \in DOMAIN Taken : Taken[k] = queue[k]
    BY <1>5
  <2> QED
    BY <2>1, <2>2
<1>7. WinOrder'
  <2> SUFFICES ASSUME NEW i \in DOMAIN Win', NEW j \in DOMAIN Win', i < j PROVE Precedes(Win'[i], Win'[j])
    BY DEF WinOrder, Precedes
  <2>1. CASE j <= Len(Win)
    BY <1>2, <1>3, <2>1 DEF Order, WinOrder
  <2>2. CASE i <= Len(Win) /\ j > Len(Win)
    BY <1>2, <1>3, <1>5, <2>2 DEF Order, CrossOrder
  <2>3. CASE i > Len(Win)
    <3>1. i - Len(Win) < j - Len(Win) /\ j > Len(Win)
      BY <1>3, <1>6, <2>3
    <3>2. Win'[i] = queue[i - Len(Win)] /\ Win'[j] = queue[j - Len(Win)]
          /\ i - Len(Win) \in DOMAIN Taken /\ j - Len(Win) \in DOMAIN Taken
      BY <1>11, <2>3, <3>1
    <3> QED
      BY <1>5, <3>1, <3>2 DEF Order, QueueOrder
  <2> QED
    BY <1>3, <1>6, <2>1, <2>2, <2>3
<1>8. QueueOrder'
  <2> SUFFICES ASSUME NEW i \in DOMAIN Rest, NEW j \in DOMAIN Rest, i < j, Rest[i] # None, Rest[j] # None
               PROVE Precedes(Rest[i], Rest[j])
    BY <1>1 DEF QueueOrder, Precedes
  <2>1. i + d < j + d
    BY <1>6
  <2> QED
    BY <1>4, <2>1 DEF Order, QueueOrder
<1>9. CrossOrder'
  <2> SUFFICES ASSUME NEW i \in DOMAIN Win', NEW j \in DOMAIN Rest, Rest[j] # None PROVE Precedes(Win'[i], Rest[j])
    BY <1>1 DEF CrossOrder, Precedes
  <2>1. CASE i <= Len(Win)
    BY <1>2, <1>3, <1>4, <2>1 DEF Order, CrossOrder
  <2>2. CASE i > Len(Win)
    <3>1. i - Len(Win) < j + d
      BY <1>3, <1>4, <1>6, <2>2
    <3>2. Win'[i] = queue[i - Len(Win)] /\ i - Len(Win) \in DOMAIN Taken
      BY <1>11, <2>2
    <3> QED
      BY <1>4, <1>5, <3>1, <3>2 DEF Order, QueueOrder
  <2> QED
    BY <1>3, <1>6, <2>1, <2>2
<1>10. NoneAhead'
  <2>1. \A l \in Lines : NotAhead(l) => NotAhead(l)'
    BY <1>1 DEF Out, NotAhead
  <2>2. ASSUME NEW i \in DOMAIN Win' PROVE Win'[i] \in Lines /\ NotAhead(Win'[i])
    <3>1. CASE i <= Len(Win)
      BY <1>2, <1>3, <3>1 DEF Order, NoneAhead
    <3>2. CASE i > Len(Win)
      <4>1. Win'[i] = queue[i - Len(Win)] /\ i - Len(Win) \in DOMAIN Taken
        BY <1>11, <3>2
      <4> QED
        BY <1>2, <1>5, <4>1 DEF Order, NoneAhead
    <3> QED
      BY <1>3, <1>6, <3>1, <3>2
  <2>3. \A i \in DOMAIN Rest : Rest[i] # None => Rest[i] \in Lines /\ NotAhead(Rest[i])
    BY <1>4, PollSplits DEF Order, NoneAhead
  <2>4. \A i \in DOMAIN Win' : \E l \in Lines : Win'[i] = l /\ NotAhead(l)'
    BY <2>1, <2>2
  <2>5. \A i \in DOMAIN queue' : queue'[i] # None => \E l \in Lines : queue'[i] = l /\ NotAhead(l)'
    BY <1>1, <2>1, <2>3
  <2> QED
    BY <2>4, <2>5 DEF NoneAhead, NotAhead
<1> QED
  BY <1>1, <1>7, <1>8, <1>9, <1>10 DEF Order, Unstarted

(* What a thread puts: its line, into the queue or into one nobody reads.   *)
LEMMA PutForms ==
  ASSUME Types, NEW r \in Runs, Put(r)
  PROVE /\ reader[r] \in {"line", "error"} /\ reader'[r] \in {"poll", "end"} /\ read' = read
        /\ holds[r] # 0 /\ holds'[r] = 0 /\ UNCHANGED main
        /\ queue' = IF holds[r] = runs THEN Append(queue, <<r, read[r]>>) ELSE queue
        /\ \A s \in Runs \ {r} : reader'[s] = reader[s] /\ holds'[s] = holds[s]
        /\ Out(r) = read[r] - 1 /\ Out(r)' = read[r]
<1>1. PICK at \in {"line", "error"}, next \in {"poll", "end"} : PutAt(r, at, <<r, read[r]>>, next)
  BY DEF Put
<1>2. reader[r] = at /\ reader'[r] = next /\ read' = read
  BY <1>1 DEF PutAt, Types
<1> QED
  BY <1>1, <1>2 DEF PutAt, Types, Out

LEMMA ThreadForms ==
  ASSUME Types, NEW r \in Runs, Thread(r)
  PROVE /\ UNCHANGED main
        /\ \A s \in Runs \ {r} : reader'[s] = reader[s] /\ read'[s] = read[s] /\ holds'[s] = holds[s]
        /\ reader[r] # "none"
  BY DEF Thread, ReadLine, Put, LoadQueue, PutAt, Poll, PutSentinel, Types

(* The other steps of a thread let no line out.                             *)
LEMMA QuietForms ==
  ASSUME Types, NEW r \in Runs, ReadLine(r) \/ Poll(r) \/ LoadQueue(r) \/ PutSentinel(r)
  PROVE Out(r)' = Out(r) /\ (queue' = queue \/ queue' = Append(queue, None))
<1>1. CASE ReadLine(r)
  <2>1. reader[r] = "readline" /\ reader'[r] \in {"line", "error", "poll"}
        /\ read'[r] = IF reader'[r] = "poll" THEN read[r] ELSE read[r] + 1
    BY <1>1 DEF ReadLine, Types
  <2>2. read[r] \in Int /\ queue' = queue
    BY <1>1 DEF Types, ReadLine
  <2> QED
    BY <2>1, <2>2 DEF Out
<1>2. CASE Poll(r) \/ PutSentinel(r)
  BY <1>2 DEF Poll, PutSentinel, PutAt, Types, Out
<1>3. CASE LoadQueue(r)
  BY <1>3 DEF LoadQueue, Out
<1> QED
  BY <1>1, <1>2, <1>3

LEMMA OrderOfThread == ASSUME Types, Order, Types', NEW r \in Runs, Thread(r) PROVE Order'
<1>1. UNCHANGED <<runs, window>> /\ Win' = Win
  BY ThreadForms DEF main, Win
<1>2. r <= runs
  BY ThreadForms DEF Order, Unstarted, Types, Runs
<1>3. \A s \in Runs \ {r} : reader'[s] = reader[s] /\ read'[s] = read[s]
  BY ThreadForms
<1>4. Unstarted'
  BY <1>1, <1>2, <1>3 DEF Order, Unstarted, Types, Runs
<1>5. \A s \in Runs \ {r} : Out(s)' = Out(s)
  BY <1>3 DEF Out
<1>6. CASE Put(r)
  <2>1. PICK x \in Lines : x = <<r, read[r]>>
    BY DEF Types, Lines
  <2>2. queue' = queue \/ queue' = Append(queue, x)
    BY <1>6, <2>1, PutForms
  <2>3. read[r] \in Int /\ Out(r) = read[r] - 1 /\ Out(r)' = read[r]
    BY <1>6, PutForms DEF Types
  <2>4. \A s \in Runs : Out(s) <= Out(s)'
    BY <1>5, <2>3, OutType
  <2>5. x[1] = r /\ x[2] = read[r]
    BY <2>1
  <2>6. Out(x[1]) < x[2] /\ NotAhead(x)'
    BY <1>1, <1>2, <2>3, <2>5 DEF NotAhead
  <2> QED
    BY <1>1, <1>4, <2>2, <2>4, <2>6, OrderOfSame, OrderOfAppend
<1>7. CASE ReadLine(r) \/ Poll(r) \/ LoadQueue(r) \/ PutSentinel(r)
  <2>1. Out(r)' = Out(r) /\ (queue' = queue \/ queue' = Append(queue, None))
    BY <1>7, QuietForms
  <2>2. \A s \in Runs : Out(s) <= Out(s)'
    BY <1>5, <2>1, OutType
  <2> QED
    BY <1>1, <1>4, <2>1, <2>2, OrderOfSame, OrderOfAppend
<1> QED
  BY <1>6, <1>7 DEF Thread

LEMMA OrderKept == Types /\ Order /\ [Next]_vars => Order'
<1> SUFFICES ASSUME Types, Order, [Next]_vars PROVE Order'
  OBVIOUS
<1>1. Types'
  BY TypesKept
<1>2. CASE OnClose \/ CloseApp
  <2>1. window' = None /\ UNCHANGED <<runs, read, reader, queue>>
    BY <1>2 DEF OnClose, CloseApp, threads
  <2>2. Win' = <<>>
    BY <2>1 DEF Win
  <2>3. \A l : NotAhead(l) => NotAhead(l)'
    BY <2>1 DEF NotAhead, Out
  <2>4. QueueOrder' /\ Unstarted'
    BY <2>1 DEF Order, QueueOrder, Precedes, Unstarted
  <2>5. NoneAhead'
    BY <2>1, <2>2, <2>3 DEF Order, NoneAhead
  <2> QED
    BY <2>2, <2>4, <2>5 DEF Order, WinOrder, CrossOrder
<1>3. CASE (\E r \in Runs : PrintLine(r) \/ Exit(r)) \/ UNCHANGED vars
  <2>1. UNCHANGED <<runs, read, reader, queue, window>>
    BY <1>3 DEF PrintLine, Exit, main, vars, threads
  <2>2. Win' = Win /\ Unstarted' /\ \A r \in Runs : Out(r)' = Out(r)
    BY <2>1 DEF Win, Order, Unstarted, Out
  <2> QED
    BY <1>1, <2>1, <2>2, OrderOfSame, OutType
<1> QED
  BY <1>1, <1>2, <1>3, OrderOfExecute, OrderOfPoll, OrderOfThread DEF Next

LEMMA InitOrder == Init => Order
  BY DEF Init, Order, WinOrder, QueueOrder, CrossOrder, NoneAhead, Unstarted, Win

(* The lines of a command come in order and none comes twice, even when a   *)
(* later command's queue takes them (run_command_in_thread,                 *)
(* check_for_output).                                                       *)
THEOREM LinesInOrder == Spec => []ShownInOrder
<1>1. Init => Types /\ Order
  BY InitTypes, InitOrder
<1>2. Types /\ Order /\ [Next]_vars => Types' /\ Order'
  BY TypesKept, OrderKept
<1>3. Types /\ Order => ShownInOrder
  BY WinType DEF Order, WinOrder, Precedes, ShownInOrder
<1> QED
  BY <1>1, <1>2, <1>3, PTL DEF Spec
-------------------------------------------------------------------------------
(* Only the thread that puts a line adds one that has left it.              *)
LEMMA LostByThread ==
  ASSUME Types, Order, Types', NothingLost, HeldKept, NEW r \in Runs, Thread(r) PROVE NothingLost'
<1>1. cut' = cut /\ Win' = Win
  BY ThreadForms DEF main, Win
<1>2. \A s \in Runs \ {r} : Out(s)' = Out(s)
  BY ThreadForms DEF Out
<1>3. \A l : Shows(l) => Shows(l)'
  BY <1>1 DEF Shows
<1>4. ASSUME NEW x \in Lines \cup {None}, queue' = queue \/ queue' = Append(queue, x)
      PROVE \A l : Queues(l) => Queues(l)'
  <2>1. \A i \in DOMAIN queue : i \in DOMAIN queue' /\ queue'[i] = queue[i]
    <3>1. queue \in Seq(Lines \cup {None})
      BY DEF Types
    <3> QED
      BY <1>4, <3>1, AppendProperties
  <2> QED
    BY <2>1 DEF Queues
<1>5. CASE Put(r)
  <2>1. PICK x \in Lines : x = <<r, read[r]>>
    BY DEF Types, Lines
  <2>2. queue' = (IF holds[r] = runs THEN Append(queue, x) ELSE queue) /\ read[r] \in Int
        /\ Out(r) = read[r] - 1 /\ Out(r)' = read[r]
    BY <1>5, <2>1, PutForms DEF Types
  <2>3. \A l : Queues(l) => Queues(l)'
    BY <1>4, <2>2
  <2>4. r \notin cut => Queues(x)'
    <3>1. r \notin cut => holds[r] = runs
      BY <1>5, PutForms DEF HeldKept
    <3>2. ASSUME r \notin cut PROVE Queues(x)'
      <4>1. queue' = Append(queue, x) /\ queue \in Seq(Lines \cup {None})
        BY <2>2, <3>1, <3>2 DEF Types
      <4>2. Len(queue) + 1 \in DOMAIN queue' /\ queue'[Len(queue) + 1] = x
        BY <4>1
      <4> QED
        BY <4>2 DEF Queues
    <3> QED
      BY <3>2
  <2>5. ASSUME NEW s \in Runs \ cut, NEW n \in 1..(Out(s)') PROVE Shows(<<s, n>>)' \/ Queues(<<s, n>>)'
    <3>1. CASE n \in 1..Out(s)
      BY <1>3, <2>3, <3>1 DEF NothingLost
    <3>2. CASE s = r /\ n = read[r]
      BY <2>1, <2>4, <3>2
    <3> QED
      BY <1>2, <2>2, <3>1, <3>2
  <2> QED
    BY <1>1, <2>5 DEF NothingLost
<1>6. CASE ReadLine(r) \/ Poll(r) \/ LoadQueue(r) \/ PutSentinel(r)
  <2>1. Out(r)' = Out(r) /\ (queue' = queue \/ queue' = Append(queue, None))
    BY <1>6, QuietForms
  <2>2. \A l : Queues(l) => Queues(l)'
    BY <1>4, <2>1
  <2> QED
    BY <1>1, <1>2, <1>3, <2>1, <2>2 DEF NothingLost
<1> QED
  BY <1>5, <1>6 DEF Thread

LEMMA LostByPoll == ASSUME Types, NothingLost, CheckForOutput PROVE NothingLost'
<1>1. queue' = Rest /\ UNCHANGED <<cut, read, reader>> /\ Win' = Win \o Taken
  BY PollSplits, WinShown DEF CheckForOutput, threads
<1>2. Win \in Seq(Lines) /\ Taken \in Seq(Lines)
  BY WinType, PollSplits
<1>3. /\ \A i \in DOMAIN Win : i \in DOMAIN Win' /\ Win'[i] = Win[i]
      /\ \A i \in DOMAIN Taken : Len(Win) + i \in DOMAIN Win' /\ Win'[Len(Win) + i] = Taken[i]
  BY <1>1, <1>2
<1>4. \A l : Shows(l) => Shows(l)'
  BY <1>3 DEF Shows
<1>5. ASSUME NEW l \in Lines, Queues(l) PROVE Shows(l)' \/ Queues(l)'
  <2>1. PICK i \in DOMAIN queue : queue[i] = l
    BY <1>5 DEF Queues
  <2>2. l # None
    BY NoneAssumption
  <2>3. CASE i \in DOMAIN Taken
    <3>1. Taken[i] = l
      BY <2>1, <2>3, PollSplits
    <3> QED
      BY <1>3, <2>3, <3>1 DEF Shows
  <2>4. CASE i \notin DOMAIN Taken
    <3>1. \E k \in DOMAIN Rest : Rest[k] = queue[i]
      <4>1. PICK d \in Nat :
              /\ \A k \in DOMAIN Rest : k + d \in DOMAIN queue /\ Rest[k] = queue[k + d]
              /\ \A k \in DOMAIN queue : k \in DOMAIN Taken \/ queue[k] = None
                   \/ (k > d /\ k - d \in DOMAIN Rest)
        BY PollSplits
      <4>2. i - d \in DOMAIN Rest
        BY <2>1, <2>2, <2>4, <4>1
      <4>3. (i - d) + d = i
        <5>1. i \in Nat
          BY <2>1 DEF Types
        <5> QED
          BY <5>1
      <4> QED
        BY <4>1, <4>2, <4>3
    <3> QED
      BY <1>1, <2>1, <3>1 DEF Queues
  <2> QED
    BY <2>3, <2>4
<1>6. \A r \in Runs : Out(r)' = Out(r) /\ Out(r) \in Int /\ Out(r) <= MaxLines
  <2>1. \A r \in Runs : Out(r)' = Out(r)
    BY <1>1 DEF Out
  <2>2. \A r \in Runs : Out(r) \in Int /\ Out(r) <= MaxLines
    BY BoundsAssumption DEF Out, Types
  <2> QED
    BY <2>1, <2>2
<1>7. ASSUME NEW r \in Runs \ cut, NEW n \in 1..Out(r) PROVE Shows(<<r, n>>)' \/ Queues(<<r, n>>)'
  <2>1. <<r, n>> \in Lines
    BY <1>6, BoundsAssumption DEF Lines
  <2> QED
    BY <1>4, <1>5, <1>7, <2>1 DEF NothingLost
<1> QED
  BY <1>1, <1>6, <1>7 DEF NothingLost

(* A new command throws away the lines that are still in the queue.         *)
LEMMA LostByExecute == ASSUME Types, Order, NothingLost, Execute PROVE NothingLost'
<1>1. PICK e \in Runs : e = runs + 1
  BY BoundsAssumption DEF Execute, Types, Runs
<1>2. read' = read /\ reader' = [reader EXCEPT ![e] = "readline"] /\ window' = Shown(window, <<<<e, 0>>>>)
      /\ {queue[i][1] : i \in DOMAIN queue \ Sentinels} \subseteq cut'
      /\ cut \subseteq cut'
  BY <1>1 DEF Execute, Lost
<1>3. Win' = Win \o <<<<e, 0>>>> /\ Win \in Seq(Lines)
  <2>1. <<<<e, 0>>>> \in Seq(Lines)
    BY BoundsAssumption DEF Lines
  <2> QED
    BY <1>2, <2>1, WinShown, WinType
<1>4. \A l : Shows(l) => Shows(l)'
  <2>1. \A i \in DOMAIN Win : i \in DOMAIN Win' /\ Win'[i] = Win[i]
    BY <1>3
  <2> QED
    BY <2>1 DEF Shows
<1>5. Out(e)' = 0
  <2>1. read[e] = 0
    BY <1>1 DEF Order, Unstarted, Types
  <2>2. reader'[e] = "readline"
    BY <1>2 DEF Types
  <2> QED
    BY <1>2, <2>1, <2>2 DEF Out
<1>6. ASSUME NEW r \in Runs \ cut', NEW n \in 1..(Out(r)') PROVE Shows(<<r, n>>)'
  <2>1. r # e
    BY <1>5
  <2>2. Out(r)' = Out(r)
    BY <1>2, <2>1 DEF Out, Types
  <2>3. ~Queues(<<r, n>>)
    <3>1. ASSUME NEW i \in DOMAIN queue, queue[i] = <<r, n>> PROVE FALSE
      <4>1. queue[i] # None
        <5>1. Out(r) \in Int /\ Out(r) <= MaxLines
          BY BoundsAssumption DEF Out, Types
        <5>2. <<r, n>> \in Lines
          BY <2>2, <5>1, BoundsAssumption DEF Lines
        <5> QED
          BY <3>1, <5>2, NoneAssumption
      <4>2. queue[i][1] \in cut'
        BY <1>2, <4>1 DEF Sentinels
      <4> QED
        BY <3>1, <4>2
    <3> QED
      BY <3>1 DEF Queues
  <2> QED
    BY <1>2, <1>4, <2>2, <2>3 DEF NothingLost
<1> QED
  BY <1>6 DEF NothingLost

(* A thread that holds a queue holds the one there is, or lost its line.    *)
LEMMA HeldStays == Types /\ Order /\ HeldKept /\ [Next]_vars => HeldKept'
<1> SUFFICES ASSUME Types, Order, HeldKept, [Next]_vars PROVE HeldKept'
  OBVIOUS
<1>1. CASE Execute
  <2>0. PICK e \in Runs : e = runs + 1
    BY <1>1, BoundsAssumption DEF Execute, Types, Runs
  <2>1. e = runs + 1 /\ reader' = [reader EXCEPT ![e] = "readline"] /\ holds' = holds
    BY <1>1, <2>0 DEF Execute
  <2>2. {r \in Runs : holds[r] # 0 /\ reader[r] # "end"} \subseteq cut'
    BY <1>1 DEF Execute, Lost
  <2>3. reader[e] = "none"
    BY <2>1 DEF Order, Unstarted, Types
  <2>4. \A r \in Runs : reader'[r] # "end" => reader[r] # "end"
    BY <2>1, <2>3 DEF Types
  <2> QED
    BY <2>1, <2>2, <2>4 DEF HeldKept
<1>2. CASE CheckForOutput \/ OnClose \/ CloseApp
  BY <1>2 DEF CheckForOutput, OnClose, CloseApp, threads, HeldKept
<1>3. CASE (\E r \in Runs : PrintLine(r) \/ Exit(r)) \/ UNCHANGED vars
  BY <1>3 DEF PrintLine, Exit, main, vars, threads, HeldKept
<1>4. ASSUME NEW r \in Runs, Thread(r) PROVE HeldKept'
  <2>1. UNCHANGED <<runs, cut>> /\ \A s \in Runs \ {r} : reader'[s] = reader[s] /\ holds'[s] = holds[s]
    BY <1>4, ThreadForms DEF main
  <2>2. CASE LoadQueue(r)
    <3>1. holds'[r] = runs
      BY <2>2 DEF LoadQueue, Types
    <3> QED
      BY <2>1, <3>1 DEF HeldKept
  <2>3. CASE Put(r) \/ PutSentinel(r)
    <3>1. holds'[r] = 0
      BY <2>3 DEF Put, PutSentinel, PutAt, Types
    <3> QED
      BY <2>1, <3>1 DEF HeldKept
  <2>4. CASE ReadLine(r) \/ Poll(r)
    <3>1. holds' = holds /\ reader[r] # "end"
      BY <2>4 DEF ReadLine, Poll
    <3> QED
      BY <2>1, <3>1 DEF HeldKept
  <2> QED
    BY <1>4, <2>2, <2>3, <2>4 DEF Thread
<1> QED
  BY <1>1, <1>2, <1>3, <1>4 DEF Next

LEMMA LostKept == Types /\ Order /\ HeldKept /\ NothingLost /\ [Next]_vars => NothingLost'
<1> SUFFICES ASSUME Types, Order, HeldKept, NothingLost, [Next]_vars PROVE NothingLost'
  OBVIOUS
<1>1. CASE OnClose \/ CloseApp
  <2>1. cut' = cut \cup 1..runs /\ UNCHANGED <<read, reader>>
    BY <1>1 DEF OnClose, CloseApp, threads
  <2>2. \A r \in Runs \ cut' : Out(r)' = 0
    BY <2>1 DEF Order, Unstarted, Out, Types, Runs
  <2>3. \A r \in Runs \ cut' : 1..(Out(r)') = {}
    BY <2>2
  <2> QED
    BY <2>3 DEF NothingLost
<1>2. CASE (\E r \in Runs : PrintLine(r) \/ Exit(r)) \/ UNCHANGED vars
  <2>1. UNCHANGED <<read, reader, queue, window, cut>>
    BY <1>2 DEF PrintLine, Exit, main, vars, threads
  <2> QED
    BY <2>1 DEF NothingLost, Out, Shows, Queues, Win
<1> QED
  BY <1>1, <1>2, TypesKept, LostByThread, LostByPoll, LostByExecute DEF Next

(* Of a command that lost no line to a closed window or a replaced queue,   *)
(* no line is missing between two that are shown (run_command_in_thread,    *)
(* check_for_output).                                                       *)
THEOREM LinesWithoutGap == Spec => []ShownWithoutGap
<1>1. Init => Types /\ Order /\ HeldKept /\ NothingLost
  <2>1. Init => NothingLost /\ HeldKept
    BY DEF Init, NothingLost, HeldKept, Out
  <2> QED
    BY <2>1, InitTypes, InitOrder
<1>2. Types /\ Order /\ HeldKept /\ NothingLost /\ [Next]_vars => Types' /\ Order' /\ HeldKept' /\ NothingLost'
  BY TypesKept, OrderKept, HeldStays, LostKept
<1>3. Types /\ Order /\ NothingLost => ShownWithoutGap
  <2> SUFFICES ASSUME Types, Order, NothingLost, window # None, NEW i \in DOMAIN window,
                      window[i][1] \notin cut, window[i][2] > 1
               PROVE \E j \in 1..(i - 1) : window[j] = <<window[i][1], window[i][2] - 1>>
    BY DEF ShownWithoutGap
  <2>1. window = Win /\ Win \in Seq(Lines)
    BY WinType
  <2>2. PICK r \in Runs, n \in 0..MaxLines : Win[i] = <<r, n>>
    BY <2>1 DEF Lines
  <2>3. n > 1 /\ r \notin cut /\ n <= Out(r) /\ Out(r) \in Int
    BY <2>1, <2>2, OutType DEF Order, NoneAhead, NotAhead
  <2>4. ~Queues(<<r, n - 1>>)
    <3>1. ASSUME NEW j \in DOMAIN queue, queue[j] = <<r, n - 1>> PROVE FALSE
      <4>1. queue[j] # None
        BY <2>3, <3>1, NoneAssumption, BoundsAssumption DEF Lines
      <4>2. Precedes(Win[i], queue[j])
        BY <2>1, <4>1 DEF Order, CrossOrder
      <4> QED
        BY <2>2, <3>1, <4>2 DEF Precedes
    <3> QED
      BY <3>1 DEF Queues
  <2>5. PICK j \in DOMAIN Win : Win[j] = <<r, n - 1>>
    BY <2>3, <2>4 DEF NothingLost, Shows
  <2>6. j < i
    <3>1. i \in Nat /\ j \in Nat /\ i # j
      BY <2>1, <2>2, <2>5
    <3>2. ~(i < j)
      BY <2>1, <2>2, <2>5 DEF Order, WinOrder, Precedes
    <3> QED
      BY <3>1, <3>2
  <2> QED
    BY <2>1, <2>2, <2>5, <2>6
<1> QED
  BY <1>1, <1>2, <1>3, PTL DEF Spec
===============================================================================

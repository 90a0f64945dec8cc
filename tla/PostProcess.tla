------------------------------ MODULE PostProcess ------------------------------
(* mem_ss_pp.py: the tracker of a test and its golden one are put in order,  *)
(* each in its place on disk, and compared.                                  *)
EXTENDS Naturals, Sequences, SequencesExt

CONSTANTS
  Lines,        \* lines of a tracker: <<event, the rest of the line>>
  Trackers,     \* the trackers a simulation may write
  HeaderLines,  \* lines of other events that come first: 5 in the code
  None

ASSUME TrackersAssumption == Trackers \subseteq Seq(Lines) /\ None \notin Seq(Lines)
ASSUME HeaderAssumption == HeaderLines \in Nat

VARIABLES
  trk, gold,    \* the two files, None when there is none
  transcript,   \* "error" when it holds the word ERROR, else "clean"
  output,       \* target/mem_ss/output.log
  stage,        \* where the script is
  verdict,      \* its exit: "none" before the first one
  \* history
  simulated,    \* the trackers as the simulation wrote them
  interrupted   \* a post-process of these trackers was interrupted

files == <<trk, gold, transcript, output>>
ppvars == <<files, stage, verdict, simulated, interrupted>>

(* A line is a request of a read, the response of a read, or another event. *)
Kind(line) ==
  IF line[1] = "CORE_RD_REQ" THEN "req" ELSE IF line[1] = "CACHE_RD_RSP" THEN "rsp" ELSE "other"

OfKind(t, kind) ==
  LET of[i \in 0..Len(t)] ==
        IF i = 0 THEN <<>> ELSE IF Kind(t[i]) = kind THEN Append(of[i - 1], t[i]) ELSE of[i - 1]
  IN of[Len(t)]

Reqs(t) == OfKind(t, "req")
Rsps(t) == OfKind(t, "rsp")
Others(t) == OfKind(t, "other")

(* zip stops with the shorter list: a request without response is dropped.  *)
Answered(t) == IF Len(Reqs(t)) < Len(Rsps(t)) THEN Len(Reqs(t)) ELSE Len(Rsps(t))
Pairs(t) == [i \in 1..(2 * Answered(t)) |-> IF i % 2 = 1 THEN Reqs(t)[(i + 1) \div 2] ELSE Rsps(t)[i \div 2]]

(* Mutant: the lines stay as they come.                                     *)
Unordered(t) == t

(* orderer_func.                                                            *)
Ordered(t) ==
  LET h == IF Len(Others(t)) < HeaderLines THEN Len(Others(t)) ELSE HeaderLines
  IN SubSeq(Others(t), 1, h) \o Pairs(t) \o SubSeq(Others(t), h + 1, Len(Others(t)))

(* The simulation has written what it got to.                               *)
PPInit ==
  /\ trk \in Trackers \cup {None} /\ gold \in Trackers \cup {None}
  /\ transcript \in {"clean", "error", None} /\ output = None
  /\ stage = "idle" /\ verdict = "none" /\ simulated = <<trk, gold>> /\ interrupted = FALSE

PPStart ==
  /\ stage = "idle"
  /\ IF None \in {trk, gold, transcript} THEN verdict' = "fail" /\ UNCHANGED stage
     ELSE stage' = "write_trk" /\ verdict' = "none"
  /\ UNCHANGED <<files, simulated, interrupted>>

(* The ordered tracker goes to output.log, the tracker is removed, and      *)
(* output.log takes its name.                                               *)
OrderTrk ==
  /\ \/ stage = "write_trk" /\ output' = Ordered(trk) /\ UNCHANGED trk /\ stage' = "remove_trk"
     \/ stage = "remove_trk" /\ trk' = None /\ UNCHANGED output /\ stage' = "rename_trk"
     \/ stage = "rename_trk" /\ trk' = output /\ output' = None /\ stage' = "write_gold"
  /\ UNCHANGED <<gold, transcript, verdict, simulated, interrupted>>

OrderGold ==
  /\ \/ stage = "write_gold" /\ output' = Ordered(gold) /\ UNCHANGED gold /\ stage' = "remove_gold"
     \/ stage = "remove_gold" /\ gold' = None /\ UNCHANGED output /\ stage' = "rename_gold"
     \/ stage = "rename_gold" /\ gold' = output /\ output' = None /\ stage' = "compare"
  /\ UNCHANGED <<trk, transcript, verdict, simulated, interrupted>>

(* Mutant: the transcript is not looked at.                                 *)
CompareOnly ==
  /\ stage = "compare" /\ stage' = "idle"
  /\ verdict' = IF trk = gold THEN "pass" ELSE "fail"
  /\ UNCHANGED <<files, simulated, interrupted>>

Compare ==
  /\ stage = "compare" /\ stage' = "idle"
  /\ verdict' = IF transcript = "clean" /\ trk = gold THEN "pass" ELSE "fail"
  /\ UNCHANGED <<files, simulated, interrupted>>

(* The user stops the build, at any line of the script.                     *)
PPInterrupt ==
  /\ stage # "idle" /\ stage' = "idle" /\ verdict' = "fail" /\ interrupted' = TRUE
  /\ UNCHANGED <<files, simulated>>

PPNext == PPStart \/ OrderTrk \/ OrderGold \/ Compare \/ PPInterrupt
-------------------------------------------------------------------------------
(* What the verdict is about: the answered reads, in order, each with its   *)
(* response, and the other events, in order; how the two kinds interleave   *)
(* does not matter.                                                         *)
Agree(t, g) ==
  /\ Others(t) = Others(g) /\ Answered(t) = Answered(g)
  /\ \A i \in 1..Answered(t) : Reqs(t)[i] = Reqs(g)[i] /\ Rsps(t)[i] = Rsps(g)[i]

(* A test passes only when its simulation agreed with the golden one and    *)
(* printed no error, however often the post-process ran over its own output *)
(* or was stopped between removing and renaming a file.                     *)
PassIsHonest ==
  verdict = "pass" => transcript = "clean" /\ None \notin Range(simulated) /\ Agree(simulated[1], simulated[2])

(* A test whose simulation agreed and was clean passes, each time it is     *)
(* post-processed, unless one of those times was interrupted.               *)
FailIsDeserved ==
  verdict = "fail" /\ ~interrupted =>
    \/ None \in Range(simulated) \/ transcript \in {None, "error"}
    \/ ~Agree(simulated[1], simulated[2])
===============================================================================

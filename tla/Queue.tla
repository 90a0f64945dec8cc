-------------------------------- MODULE Queue --------------------------------
(***************************************************************************)
(* What a hardware FIFO promises: a bounded sequence of words.  In every   *)
(* clock cycle the environment may push one word, pop the oldest one, or   *)
(* do both; a push needs room, or a simultaneous pop that makes room.      *)
(***************************************************************************)
EXTENDS Naturals, Sequences

CONSTANTS
  FIFO_DEPTH, \* number of words the queue can hold
  Data        \* the words

VARIABLE q

Init == q = << >>

(* One clock cycle: the word leaving and the word entering, if any.        *)
Cycle(push, pop, d) ==
  /\ pop => q # << >>
  /\ push => (Len(q) < FIFO_DEPTH \/ pop)
  /\ q' = (IF pop THEN Tail(q) ELSE q) \o (IF push THEN <<d>> ELSE << >>)

Next == \E push, pop \in BOOLEAN, d \in Data : Cycle(push, pop, d)

Spec == Init /\ [][Next]_q
==============================================================================

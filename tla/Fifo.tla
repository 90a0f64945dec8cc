--------------------------------- MODULE Fifo ---------------------------------
(***************************************************************************)
(* The FIFO every block of the SoC buffers its requests in                 *)
(* (source/common/fifo.sv): a register array with a read and a write       *)
(* pointer, and an occupancy counter from which the flags are decoded.     *)
(* One step of the specification is one rising clock edge after reset.     *)
(***************************************************************************)
EXTENDS Naturals

CONSTANTS
  FIFO_DEPTH, \* the parameter of the module
  Data        \* the words stored, push_data and pop_data

ASSUME DepthAssumption == FIFO_DEPTH \in Nat \ {0}

(* $clog2(FIFO_DEPTH): the least k with 2^k >= FIFO_DEPTH.                 *)
MSB_PTR == CHOOSE k \in 0 .. FIFO_DEPTH :
              /\ 2^k >= FIFO_DEPTH
              /\ \A j \in 0 .. k - 1 : 2^j < FIFO_DEPTH

(* Pointers and counter are registers [MSB_PTR:0]: they count modulo Wrap. *)
Wrap == 2^(MSB_PTR + 1)

(* A register of MSB_PTR+1 bits can hold the number FIFO_DEPTH itself.     *)
ASSUME WidthAssumption == Wrap \in Nat /\ Wrap > FIFO_DEPTH

VARIABLES fifo_array, rd_ptr, wr_ptr, count

vars == <<fifo_array, rd_ptr, wr_ptr, count>>

Slots == 0 .. FIFO_DEPTH - 1

(* Reset clears the pointers and the counter; the array is not reset.      *)
Init ==
  /\ fifo_array \in [Slots -> Data]
  /\ rd_ptr = 0
  /\ wr_ptr = 0
  /\ count = 0

empty == count = 0
full == count = FIFO_DEPTH
almost_full == count = FIFO_DEPTH - 1
pop_data == fifo_array[rd_ptr]

NextPtr(ptr) == IF ptr # FIFO_DEPTH - 1 THEN (ptr + 1) % Wrap ELSE 0

(* Mutant: a push hides a pop of the same cycle from the counter.          *)
NextCountPushFirst(push, pop) ==
  IF push THEN (count + 1) % Wrap ELSE IF pop THEN (count + Wrap - 1) % Wrap ELSE count

NextCount(push, pop) ==
  IF push /\ ~pop THEN (count + 1) % Wrap
  ELSE IF pop /\ ~push THEN (count + Wrap - 1) % Wrap
  ELSE count

(* Mutant: the word is written where the write pointer is going.           *)
ClockWriteAhead(push, pop, d) ==
  /\ fifo_array' = IF push THEN [fifo_array EXCEPT ![NextPtr(wr_ptr)] = d] ELSE fifo_array
  /\ wr_ptr' = IF push THEN NextPtr(wr_ptr) ELSE wr_ptr
  /\ rd_ptr' = IF pop THEN NextPtr(rd_ptr) ELSE rd_ptr
  /\ count' = NextCount(push, pop)

(* A clock edge with the inputs push, pop and push_data = d.               *)
Clock(push, pop, d) ==
  /\ fifo_array' = IF push THEN [fifo_array EXCEPT ![wr_ptr] = d] ELSE fifo_array
  /\ wr_ptr' = IF push THEN NextPtr(wr_ptr) ELSE wr_ptr
  /\ rd_ptr' = IF pop THEN NextPtr(rd_ptr) ELSE rd_ptr
  /\ count' = NextCount(push, pop)

(* The inputs the two assertions of the module allow a user to drive,      *)
(* except that a full FIFO may take a word in the cycle it gives one out.  *)
Legal(push, pop) == (push => ~full \/ pop) /\ (pop => ~empty)

Next == \E push, pop \in BOOLEAN, d \in Data : Legal(push, pop) /\ Clock(push, pop, d)

Spec == Init /\ [][Next]_vars
-------------------------------------------------------------------------------
(* Types: pointers address the array and the counter never leaves 0 ..     *)
(* FIFO_DEPTH, so it never wraps.                                          *)
TypeOK ==
  /\ fifo_array \in [Slots -> Data]
  /\ rd_ptr \in Slots
  /\ wr_ptr \in Slots
  /\ count \in 0 .. FIFO_DEPTH

(* The k-th slot after ptr, going round the array.                         *)
SlotAfter(ptr, k) == IF ptr + k < FIFO_DEPTH THEN ptr + k ELSE ptr + k - FIFO_DEPTH

(* The counter agrees with the distance between the two pointers: the      *)
(* flags decoded from the counter describe what is between them.           *)
CountMatchesPointers == wr_ptr = SlotAfter(rd_ptr, count)

(* The words held, oldest first: the refinement mapping to Queue.          *)
Contents == [k \in 1 .. count |-> fifo_array[SlotAfter(rd_ptr, k - 1)]]

Abstract == INSTANCE Queue WITH q <- Contents

(* The circuit is a bounded first-in first-out queue: whatever the words   *)
(* and the interleaving of pushes and pops, wrap-around included.          *)
ImplementsQueue == Abstract!Spec
===============================================================================

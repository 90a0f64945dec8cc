-------------------------------- MODULE Arbiter --------------------------------
(***************************************************************************)
(* The combinational part of source/common/arbiter.sv: which of the valid  *)
(* candidates wins, given the encoded index of the last winner.  Clients   *)
(* are numbered from 0; a one-hot vector is a set of at most one client.   *)
(***************************************************************************)
EXTENDS Naturals

(* The macro MAFIA_FIND_FIRST: the lowest bit set, as a one-hot vector.    *)
FindFirst(S) == {i \in S : \A j \in S : i <= j}

(* The candidates not masked out: those above the last winner.             *)
MaskCandidate(candidates, last) == {i \in candidates : i > last}

(* Mutant: fixed priority.                                                 *)
WinnerFixed(candidates, last) == FindFirst(candidates)

(* winner_dec_id: the first unmasked candidate, else the first one.        *)
Winner(candidates, last) ==
  LET top == MaskCandidate(candidates, last)
  IN  IF top # {} THEN FindFirst(top) ELSE FindFirst(candidates)

(* next_enc_last_winner: a cycle without a winner falls in the default     *)
(* branch of the case and sets the register to 0.                          *)
NextLastWinner(winner) == IF winner = {} THEN 0 ELSE CHOOSE i \in winner : TRUE
================================================================================

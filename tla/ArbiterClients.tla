---------------------------- MODULE ArbiterClients ----------------------------
(***************************************************************************)
(* The arbiter in the two places it is used for clients that share one     *)
(* target: the local port of a router (fifo_arb.sv, whose four FIFOs all   *)
(* wait for the core of the tile) and the way out of a tile                *)
(* (mini_mem_wrap.sv, whose two FIFOs wait for the router).  A client      *)
(* requests while its FIFO is not empty; requests become candidates in the *)
(* cycles in which the target is ready.  One step is one clock cycle.      *)
(***************************************************************************)
EXTENDS Arbiter, FiniteSets

CONSTANT NUM_CLIENTS

ASSUME ClientsAssumption == NUM_CLIENTS \in 1 .. 4

Clients == 0 .. NUM_CLIENTS - 1

VARIABLES
  requests,        \* the clients whose FIFO is not empty
  ready,           \* the target takes a transaction in this cycle
  enc_last_winner, \* the register of the arbiter
  overtaken        \* history: grants to others since client i became a
                   \* candidate, in cycles that all had a candidate

arbiter_vars == <<requests, ready, enc_last_winner, overtaken>>

ArbiterInit ==
  /\ requests = {}
  /\ ready \in BOOLEAN
  /\ enc_last_winner = 0
  /\ overtaken = [i \in Clients |-> 0]

(* valid_candidate of fifo_arb.sv and mini_mem_wrap.sv.                    *)
ValidCandidate == IF ready THEN requests ELSE {}

winner == Winner(ValidCandidate, enc_last_winner)

(* One cycle: the winner's word leaves its FIFO, and words are found in    *)
(* other FIFOs and, behind it, in this one.                                *)
Cycle ==
  /\ \E found \in SUBSET (Clients \ (requests \ winner)) :
        requests' = (requests \ winner) \cup found
  /\ ready' \in BOOLEAN
  /\ enc_last_winner' = NextLastWinner(winner)
  /\ overtaken' = [i \in Clients |->
                     IF winner = {} \/ i \in winner \/ i \notin requests
                     THEN 0 ELSE overtaken[i] + 1]

ArbiterSpec == ArbiterInit /\ [][Cycle]_arbiter_vars
-------------------------------------------------------------------------------
ArbiterTypeOK ==
  /\ requests \subseteq Clients
  /\ ready \in BOOLEAN
  /\ enc_last_winner \in Clients
  /\ overtaken \in [Clients -> 0 .. NUM_CLIENTS]

(* In a stretch of cycles that all have a winner, a requesting client is   *)
(* overtaken by every other client at most once: the rotation is fair as   *)
(* long as the arbiter is never idle.                                      *)
BoundedOvertaking == \A i \in Clients : overtaken[i] <= NUM_CLIENTS - 1

(* Why: the requests granted ahead of i so far are those between the last  *)
(* winner and i, going round.                                              *)
Distance(i) == IF i > enc_last_winner THEN i - enc_last_winner - 1
                                      ELSE i + NUM_CLIENTS - enc_last_winner - 1
OvertakingBudget ==
  \A i \in Clients : overtaken[i] > 0 => overtaken[i] + Distance(i) <= NUM_CLIENTS - 1
===============================================================================

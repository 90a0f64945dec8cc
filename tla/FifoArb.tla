-------------------------------- MODULE FifoArb --------------------------------
(***************************************************************************)
(* A local port of a router (fabric/router/fifo_arb.sv): the arbiter with  *)
(* the FIFO of client 0 in all its registers, and the FIFOs of the other   *)
(* clients as ArbiterClients has them, empty or not.  A word leaves FIFO 0 *)
(* when the arbiter says so and at no other time.                          *)
(***************************************************************************)
EXTENDS Fifo, ArbiterClients

FifoArbInit == Init /\ ArbiterInit

(* A clock edge with the input valid_alloc_req0 = push, alloc_req0 = d.    *)
Edge(push, d) ==
  /\ Legal(push, 0 \in winner)
  /\ Clock(push, 0 \in winner, d)
  /\ Cycle
  /\ 0 \in requests' <=> count' > 0

FifoArbNext == \E push \in BOOLEAN, d \in Data : Edge(push, d)

FifoArbSpec == FifoArbInit /\ [][FifoArbNext]_<<vars, arbiter_vars>>
================================================================================

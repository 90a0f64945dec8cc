-------------------------------- MODULE Channels --------------------------------
(***************************************************************************)
(* What the network on chip promises: each flow, a pair of a source and a  *)
(* destination tile, is a reliable ordered channel.  Transactions of a     *)
(* flow are numbered 1, 2, ... by their source and are handed to the       *)
(* destination in that order, each exactly once.  In a clock cycle a tile  *)
(* sends at most one transaction and is handed at most one.                *)
(***************************************************************************)
EXTENDS Naturals, Sequences

CONSTANT Flows \* a set of pairs <<source, destination>>

VARIABLES
  sent,     \* number of transactions each flow has sent
  received  \* the numbers handed over, in the order in which they were

Init ==
  /\ sent = [f \in Flows |-> 0]
  /\ received = [f \in Flows |-> << >>]

OnePerTile(S, end) == \A f, g \in S : f[end] = g[end] => f = g

(* One clock cycle: the flows that send, and those handed a transaction.   *)
Senders == {f \in Flows : sent'[f] # sent[f]}
Receivers == {f \in Flows : received'[f] # received[f]}

Next ==
  /\ OnePerTile(Senders, 1)
  /\ OnePerTile(Receivers, 2)
  /\ sent' = [f \in Flows |-> IF f \in Senders THEN sent[f] + 1 ELSE sent[f]]
  /\ received' = [f \in Flows |->
                    IF f \in Receivers THEN Append(received[f], Len(received[f]) + 1)
                                       ELSE received[f]]
  /\ \A f \in Receivers : Len(received[f]) < sent[f]

Spec == Init /\ [][Next]_<<sent, received>>
================================================================================

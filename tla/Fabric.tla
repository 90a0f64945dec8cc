--------------------------------- MODULE Fabric ---------------------------------
(***************************************************************************)
(* The network on chip (source/fabric): a mesh of tiles, each with a       *)
(* router of five ports (router.sv).  Every port has a fifo_arb: four      *)
(* FIFOs, one per side a transaction can come from, and an arbiter that    *)
(* picks one transaction per cycle for the next tile, or for the core of   *)
(* the tile.  All tiles share one clock: a step is one clock cycle of the  *)
(* whole mesh.  The cores are abstract here: in any cycle they may send a  *)
(* transaction, and may or may not be ready to take one.                   *)
(***************************************************************************)
EXTENDS Routing, Arbiter, Sequences, FiniteSets

CONSTANTS
  DEPTH,         \* FIFO_ARB_FIFO_DEPTH
  Flows,         \* the pairs <<source tile, destination tile>> in use
  MaxSent,       \* bound: transactions a flow may send
  StallingTiles  \* the tiles whose core may be not ready

ASSUME DepthAssumption == DEPTH \in Nat \ {0}
ASSUME FlowsAssumption ==
  /\ Flows \subseteq Tiles \X Tiles
  /\ \A f \in Flows : f[1] # f[2] \* a core serves its own addresses itself
ASSUME MaxSentAssumption == MaxSent \in Nat

VARIABLES
  fifo,             \* the FIFO of port c in tile t filled from side s
  enc_last_winner,  \* the register of the arbiter of port c in tile t
  core_ready,       \* mini_core_ready of each tile
  sent, received    \* per flow: number sent, numbers handed over (history)

vars == <<fifo, enc_last_winner, core_ready, sent, received>>

Ports == Tiles \X Cardinals
Fifos == Tiles \X Cardinals \X Cardinals

(* A transaction: whose it is, and next_tile_fifo_arb_id.                  *)
Transactions == [flow : Flows, num : Nat, next : Cardinals]

Init ==
  /\ fifo = [x \in Fifos |-> << >>]
  /\ enc_last_winner = [p \in Ports |-> 0]
  /\ core_ready = [t \in Tiles |-> TRUE]
  /\ sent = [f \in Flows |-> 0]
  /\ received = [f \in Flows |-> << >>]

(* Mutant: a port that does not look at its FIFO.                          *)
ReadyAlways(t, c, side) == t \in Tiles /\ c # side

(* out_<side>_ready.<c>_arb of tile t, false off the mesh; a port is never *)
(* ready for its own side.                                                 *)
Ready(t, c, side) ==
  /\ t \in Tiles
  /\ c # side
  /\ Len(fifo[<<t, c, side>>]) < DEPTH

(* Mutant: wait for all the ports of the next tile, as the cores do.       *)
InReadyAll(t, c, next) ==
  IF c = "LOCAL" THEN core_ready[t]
  ELSE \A n \in Cardinals : Ready(NextTile(t, c), n, Opposite(c))

(* The readiness the arbiter of port c in tile t sees for a transaction    *)
(* that will need port next.                                               *)
InReady(t, c, next) ==
  IF c = "LOCAL" THEN core_ready[t] ELSE Ready(NextTile(t, c), next, Opposite(c))

(* valid_candidate of the fifo_arb of port c in tile t.                    *)
ValidCandidate(t, c) ==
  {i \in 0 .. 3 :
     LET q == fifo[<<t, c, ClientSide(c, i)>>]
     IN  q # << >> /\ InReady(t, c, Head(q).next)}

(* The clients of port c of tile t that win in this cycle: at most one.    *)
WinnerOf(t, c) == Winner(ValidCandidate(t, c), enc_last_winner[<<t, c>>])
(* Mutant: any winner of the port pops every FIFO of it.                   *)
PopsOnAnyWinner(t, c, side) == fifo[<<t, c, side>>] # << >> /\ WinnerOf(t, c) # {}

PopsFrom(t, c, side) ==
  fifo[<<t, c, side>>] # << >> /\ \E i \in WinnerOf(t, c) : ClientSide(c, i) = side

(* The transaction tile t puts out at port c: at most one.                 *)
WinnerReq(t, c) == {Head(fifo[<<t, c, ClientSide(c, i)>>]) : i \in WinnerOf(t, c)}

(* out_local_ready seen by the core of tile t, which waits for all of it.  *)
FabReady(t) == \A c \in Directions : Ready(t, c, "LOCAL")

(* What arrives in tile t on a side: from the neighbour, or from the core  *)
(* (S is the set of flows that send), which the tile looks a port up for.  *)
Arriving(t, side, S) ==
  IF side = "LOCAL"
  THEN {[flow |-> f, num |-> sent[f] + 1, next |-> PortAt(t, f[2])] :
          f \in {g \in S : g[1] = t}}
  ELSE IF NextTile(t, side) \in Tiles
       THEN WinnerReq(NextTile(t, side), Opposite(side)) ELSE {}

(* Mutants: every port takes what arrives; the lookup is not refreshed.    *)
AllocatedEverywhere(t, c, side, S) ==
  IF c = side THEN {} ELSE Arriving(t, side, S)
AllocatedAsIs(t, c, side, S) ==
  IF c = side THEN {} ELSE {m \in Arriving(t, side, S) : m.next = c}

(* The transactions allocated in the FIFO of port c filled from side:      *)
(* their next_tile_fifo_arb_id is overridden, except at the local port.    *)
Allocated(t, c, side, S) ==
  IF c = side THEN {}
  ELSE {[m EXCEPT !.next = IF c = "LOCAL" THEN m.next
                           ELSE NextTileFifoArb(t, c, m.flow[2])] :
          m \in {a \in Arriving(t, side, S) : a.next = c}}

AppendAll(q, M) == IF M = {} THEN q ELSE Append(q, CHOOSE m \in M : TRUE)

(* The cores send at most one transaction each, if the fabric is ready.    *)
MaySend(S) ==
  \A f \in S :
    /\ FabReady(f[1])
    /\ sent[f] < MaxSent
    /\ \A g \in S : g[1] = f[1] => g = f

(* One clock cycle in which the flows S send.                              *)
Clock(S) ==
  /\ sent' = [f \in Flows |-> IF f \in S THEN sent[f] + 1 ELSE sent[f]]
  /\ received' = [f \in Flows |->
                    LET D == {m \in WinnerReq(f[2], "LOCAL") : m.flow = f}
                    IN  IF D = {} THEN received[f]
                        ELSE Append(received[f], (CHOOSE m \in D : TRUE).num)]
  /\ enc_last_winner' = [p \in Ports |-> NextLastWinner(WinnerOf(p[1], p[2]))]
  /\ fifo' = [x \in Fifos |->
                AppendAll(IF PopsFrom(x[1], x[2], x[3]) THEN Tail(fifo[x]) ELSE fifo[x],
                          Allocated(x[1], x[2], x[3], S))]

Next ==
  /\ \E S \in SUBSET Flows : MaySend(S) /\ Clock(S)
  /\ core_ready' \in [Tiles -> BOOLEAN]
  /\ \A t \in Tiles \ StallingTiles : core_ready'[t]

Spec == Init /\ [][Next]_vars
-------------------------------------------------------------------------------
(* Types.  A FIFO never holds more than DEPTH transactions: the producer   *)
(* of each FIFO looks at a readiness computed before this cycle's pushes,  *)
(* so this is what keeps the assertion "Push when full" of fifo.sv silent. *)
TypeOK ==
  /\ fifo \in [Fifos -> Seq(Transactions)]
  /\ enc_last_winner \in [Ports -> 0 .. 3]
  /\ core_ready \in [Tiles -> BOOLEAN]
  /\ sent \in [Flows -> Nat]
  /\ received \in [Flows -> Seq(Nat)]

NoOverflow == \A x \in Fifos : Len(fifo[x]) <= DEPTH

(* The transactions waiting in a FIFO.                                     *)
Waiting(x) == {fifo[x][k] : k \in 1 .. Len(fifo[x])}

(* Every waiting transaction is at the port its destination asks for, and  *)
(* carries the port it will need next: although the lookup is made one     *)
(* tile ahead of time, no transaction is ever misrouted, none heads for    *)
(* the edge of the mesh, and the port NULL_CARDINAL is never needed.       *)
RoutedRight ==
  \A x \in Fifos : \A m \in Waiting(x) :
    /\ x[2] = PortAt(x[1], m.flow[2])
    /\ NextTile(x[1], x[2]) \in Tiles
    /\ m.next = IF x[2] = "LOCAL" THEN "LOCAL"
                ELSE NextTileFifoArb(x[1], x[2], m.flow[2])

(* The assertion of next_tile_fifo_arb.sv, "a request is targeting the     *)
(* same tile it came from", stays silent: no transaction needs, in the     *)
(* next tile, the port that leads back.                                    *)
NeverGoesBack ==
  \A x \in Fifos : \A m \in Waiting(x) :
    x[2] # "LOCAL" => m.next # Opposite(x[2])

(* Nothing is lost or duplicated on the way: the transactions of a flow in *)
(* the mesh are those sent and not yet received, each in one place.        *)
Places(f, n) ==
  UNION {{<<x, k>> : k \in {j \in 1 .. Len(fifo[x]) : fifo[x][j].flow = f /\ fifo[x][j].num = n}} :
         x \in Fifos}
Conservation ==
  \A f \in Flows : \A n \in 1 .. MaxSent :
    Cardinality(Places(f, n)) = IF n \in Len(received[f]) + 1 .. sent[f] THEN 1 ELSE 0

(* The mesh cannot lock up: routing rows first leaves no cycle of FIFOs    *)
(* waiting for one another, so while the cores take what is handed to them *)
(* some transaction moves in every cycle.                                  *)
NoLockup ==
  (\A t \in Tiles : core_ready[t]) /\ (\E x \in Fifos : fifo[x] # << >>)
    => \E p \in Ports : WinnerOf(p[1], p[2]) # {}

(* Each flow is a reliable ordered channel, whatever the other flows do.   *)
Abstract == INSTANCE Channels
ImplementsChannels == Abstract!Spec
===============================================================================

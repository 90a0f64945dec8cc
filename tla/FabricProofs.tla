----------------------------- MODULE FabricProofs -----------------------------
(***************************************************************************)
(* The network on chip, for every size of mesh, depth of FIFO and set of   *)
(* flows: no FIFO of a router overflows, no transaction is misrouted,      *)
(* leaves the mesh or turns back, the mesh never locks up, nothing is lost *)
(* or duplicated, and each flow is a reliable ordered channel.             *)
(***************************************************************************)
EXTENDS Fabric, SequenceTheorems, FiniteSetTheorems, WellFoundedInduction, TLAPS

-------------------------------------------------------------------------------
(* Geometry.                                                               *)

LEMMA TileCoordinates ==
  ASSUME NEW t \in Tiles
  PROVE  /\ Col(t) \in 1 .. COLS /\ Row(t) \in 1 .. ROWS
         /\ t = <<Col(t), Row(t)>>
BY DEF Tiles, Col, Row

(* Leaving by a port and coming back by the opposite one is no move.       *)
LEMMA ThereAndBack ==
  ASSUME NEW t \in Tiles, NEW c \in Directions
  PROVE  /\ NextTile(NextTile(t, c), Opposite(c)) = t
         /\ Opposite(Opposite(c)) = c
         /\ Opposite(c) \in Directions
<1>1. Col(t) \in Int /\ Row(t) \in Int /\ t = <<Col(t), Row(t)>>
  BY TileCoordinates, MeshAssumption
<1>. QED BY <1>1 DEF NextTile, Opposite, Directions, Col, Row

LEMMA PortAtIsCardinal ==
  ASSUME NEW t, NEW dst
  PROVE  PortAt(t, dst) \in Cardinals
BY DEF PortAt, Cardinals, Directions

(* The port towards a tile of the mesh never leads off the mesh.           *)
LEMMA PortAtStaysInMesh ==
  ASSUME NEW t \in Tiles, NEW dst \in Tiles
  PROVE  NextTile(t, PortAt(t, dst)) \in Tiles
<1>1. /\ Col(t) \in 1 .. COLS /\ Row(t) \in 1 .. ROWS
      /\ Col(dst) \in 1 .. COLS /\ Row(dst) \in 1 .. ROWS
      /\ COLS \in Nat /\ ROWS \in Nat
  BY TileCoordinates, MeshAssumption
<1>2. CASE Row(dst) < Row(t)
  <2>1. NextTile(t, PortAt(t, dst)) = <<Col(t), Row(t) - 1>>
    BY <1>2 DEF PortAt, NextTile
  <2>. QED BY <1>1, <1>2, <2>1 DEF Tiles
<1>3. CASE Row(dst) > Row(t)
  <2>1. NextTile(t, PortAt(t, dst)) = <<Col(t), Row(t) + 1>>
    BY <1>1, <1>3 DEF PortAt, NextTile
  <2>. QED BY <1>1, <1>3, <2>1 DEF Tiles
<1>4. CASE Row(dst) = Row(t) /\ Col(dst) < Col(t)
  <2>1. NextTile(t, PortAt(t, dst)) = <<Col(t) - 1, Row(t)>>
    BY <1>1, <1>4 DEF PortAt, NextTile
  <2>. QED BY <1>1, <1>4, <2>1 DEF Tiles
<1>5. CASE Row(dst) = Row(t) /\ Col(dst) > Col(t)
  <2>1. NextTile(t, PortAt(t, dst)) = <<Col(t) + 1, Row(t)>>
    BY <1>1, <1>5 DEF PortAt, NextTile
  <2>. QED BY <1>1, <1>5, <2>1 DEF Tiles
<1>6. CASE Row(dst) = Row(t) /\ Col(dst) = Col(t)
  <2>1. NextTile(t, PortAt(t, dst)) = t
    BY <1>1, <1>6 DEF PortAt, NextTile
  <2>. QED BY <2>1
<1>. QED BY <1>1, <1>2, <1>3, <1>4, <1>5, <1>6

(* Going one step towards a tile, the next step does not lead back.        *)
LEMMA PortAtNeverBack ==
  ASSUME NEW t \in Tiles, NEW dst \in Tiles, PortAt(t, dst) # "LOCAL"
  PROVE  NextTileFifoArb(t, PortAt(t, dst), dst) # Opposite(PortAt(t, dst))
<1>1. /\ Col(t) \in Int /\ Row(t) \in Int /\ Col(dst) \in Int /\ Row(dst) \in Int
  BY TileCoordinates, MeshAssumption
<1>2. ASSUME NEW a \in Int, NEW b \in Int PROVE Col(<<a, b>>) = a /\ Row(<<a, b>>) = b
  BY DEF Col, Row
<1>3. CASE Row(dst) < Row(t)
  <2>1. PortAt(t, dst) = "NORTH" /\ NextTile(t, "NORTH") = <<Col(t), Row(t) - 1>>
    BY <1>3 DEF PortAt, NextTile
  <2>2. ~(Row(dst) > Row(t) - 1)
    BY <1>1, <1>3
  <2>3. Col(<<Col(t), Row(t) - 1>>) = Col(t) /\ Row(<<Col(t), Row(t) - 1>>) = Row(t) - 1
    BY <1>1, <1>2
  <2>. QED BY <2>1, <2>2, <2>3 DEF NextTileFifoArb, PortAt, Opposite
<1>4. CASE Row(dst) > Row(t)
  <2>1. PortAt(t, dst) = "SOUTH" /\ NextTile(t, "SOUTH") = <<Col(t), Row(t) + 1>>
    BY <1>1, <1>4 DEF PortAt, NextTile
  <2>2. ~(Row(dst) < Row(t) + 1)
    BY <1>1, <1>4
  <2>3. Col(<<Col(t), Row(t) + 1>>) = Col(t) /\ Row(<<Col(t), Row(t) + 1>>) = Row(t) + 1
    BY <1>1, <1>2
  <2>. QED BY <2>1, <2>2, <2>3 DEF NextTileFifoArb, PortAt, Opposite
<1>5. CASE Row(dst) = Row(t) /\ Col(dst) < Col(t)
  <2>1. PortAt(t, dst) = "WEST" /\ NextTile(t, "WEST") = <<Col(t) - 1, Row(t)>>
    BY <1>1, <1>5 DEF PortAt, NextTile
  <2>2. ~(Col(dst) > Col(t) - 1)
    BY <1>1, <1>5
  <2>3. Col(<<Col(t) - 1, Row(t)>>) = Col(t) - 1 /\ Row(<<Col(t) - 1, Row(t)>>) = Row(t)
    BY <1>1, <1>2
  <2>. QED BY <1>5, <2>1, <2>2, <2>3 DEF NextTileFifoArb, PortAt, Opposite
<1>6. CASE Row(dst) = Row(t) /\ Col(dst) > Col(t)
  <2>1. PortAt(t, dst) = "EAST" /\ NextTile(t, "EAST") = <<Col(t) + 1, Row(t)>>
    BY <1>1, <1>6 DEF PortAt, NextTile
  <2>2. ~(Col(dst) < Col(t) + 1)
    BY <1>1, <1>6
  <2>3. Col(<<Col(t) + 1, Row(t)>>) = Col(t) + 1 /\ Row(<<Col(t) + 1, Row(t)>>) = Row(t)
    BY <1>1, <1>2
  <2>. QED BY <1>6, <2>1, <2>2, <2>3 DEF NextTileFifoArb, PortAt, Opposite
<1>7. CASE Row(dst) = Row(t) /\ Col(dst) = Col(t)
  BY <1>1, <1>7 DEF PortAt
<1>. QED BY <1>1, <1>3, <1>4, <1>5, <1>6, <1>7

-------------------------------------------------------------------------------
(* One cycle.                                                              *)

LEMMA CardinalsFacts ==
  /\ \A c \in Cardinals : c \in Directions \/ c = "LOCAL"
  /\ Directions \subseteq Cardinals
  /\ "LOCAL" \in Cardinals /\ "LOCAL" \notin Directions
  /\ \A c \in Cardinals : \A i \in 0 .. 3 : ClientSide(c, i) \in Cardinals
BY DEF Cardinals, Directions, ClientSide

(* The arbiter grants candidates only.                                     *)
LEMMA WinnerIsCandidate ==
  ASSUME NEW S, NEW last
  PROVE  Winner(S, last) \subseteq S
BY DEF Winner, FindFirst, MaskCandidate

LEMMA FirstWinner ==
  ASSUME NEW S \in SUBSET (0 .. 3), NEW last
  PROVE  NextLastWinner(Winner(S, last)) \in 0 .. 3
<1> DEFINE W == Winner(S, last)
<1>1. W \subseteq 0 .. 3
  BY WinnerIsCandidate
<1> SUFFICES NextLastWinner(W) \in 0 .. 3
  OBVIOUS
<1> HIDE DEF W
<1>2. CASE W = {}
  BY <1>2 DEF NextLastWinner
<1>3. CASE W # {}
  <2>1. (CHOOSE i \in W : TRUE) \in W
    BY <1>3
  <2>. QED BY <1>1, <1>3, <2>1 DEF NextLastWinner
<1>. QED BY <1>2, <1>3

(* A FIFO gains at most one transaction in a cycle, at its tail.           *)
LEMMA AppendAllFacts ==
  ASSUME NEW T, NEW q \in Seq(T), NEW M \in SUBSET T
  PROVE  /\ AppendAll(q, M) \in Seq(T)
         /\ M = {} => AppendAll(q, M) = q
         /\ Len(AppendAll(q, M)) <= Len(q) + 1
         /\ \A k \in 1 .. Len(AppendAll(q, M)) :
              \/ k \in 1 .. Len(q) /\ AppendAll(q, M)[k] = q[k]
              \/ AppendAll(q, M)[k] \in M
<1>1. CASE M = {}
  BY <1>1 DEF AppendAll
<1>2. CASE M # {}
  <2>1. PICK m \in M : AppendAll(q, M) = Append(q, m)
    BY <1>2 DEF AppendAll
  <2>2. m \in T
    OBVIOUS
  <2>3. Append(q, m) \in Seq(T) /\ Len(Append(q, m)) = Len(q) + 1 /\ Len(q) \in Nat
    BY <2>2
  <2>4. ASSUME NEW k \in 1 .. Len(q) + 1
        PROVE  \/ k \in 1 .. Len(q) /\ Append(q, m)[k] = q[k]
               \/ Append(q, m)[k] = m
    BY <2>2, <2>3
  <2>. QED BY <1>2, <2>1, <2>3, <2>4
<1>. QED BY <1>1, <1>2

(* What a port puts out is the head of one of its FIFOs, and the place it  *)
(* goes to is ready for it.                                                *)
LEMMA WinnerReqFacts ==
  ASSUME NEW t \in Tiles, NEW c \in Cardinals, NEW m \in WinnerReq(t, c)
  PROVE  \E side \in Cardinals :
           /\ fifo[<<t, c, side>>] # << >>
           /\ m = Head(fifo[<<t, c, side>>])
           /\ InReady(t, c, m.next)
<1>1. PICK i \in WinnerOf(t, c) : m = Head(fifo[<<t, c, ClientSide(c, i)>>])
  BY DEF WinnerReq
<1>2. i \in ValidCandidate(t, c)
  BY WinnerIsCandidate DEF WinnerOf
<1>. QED BY <1>1, <1>2, CardinalsFacts DEF ValidCandidate

LEMMA WinnerReqTyped ==
  ASSUME TypeOK, NEW t \in Tiles, NEW c \in Cardinals
  PROVE  WinnerReq(t, c) \subseteq Transactions
<1> SUFFICES ASSUME NEW m \in WinnerReq(t, c) PROVE m \in Transactions
  OBVIOUS
<1>1. PICK side \in Cardinals : /\ fifo[<<t, c, side>>] # << >>
                                /\ m = Head(fifo[<<t, c, side>>])
  BY WinnerReqFacts
<1>2. fifo[<<t, c, side>>] \in Seq(Transactions)
  BY DEF TypeOK, Fifos
<1>. QED BY <1>1, <1>2, HeadTailProperties

LEMMA ArrivingTyped ==
  ASSUME TypeOK, NEW t \in Tiles, NEW side \in Cardinals, NEW S \in SUBSET Flows
  PROVE  Arriving(t, side, S) \subseteq Transactions
<1>1. CASE side = "LOCAL"
  <2>1. ASSUME NEW f \in Flows
        PROVE  [flow |-> f, num |-> sent[f] + 1, next |-> PortAt(t, f[2])] \in Transactions
    BY PortAtIsCardinal DEF Transactions, TypeOK
  <2>. QED BY <1>1, <2>1 DEF Arriving
<1>2. CASE side \in Directions
  BY <1>2, ThereAndBack, CardinalsFacts, WinnerReqTyped DEF Arriving
<1>. QED BY <1>1, <1>2, CardinalsFacts

LEMMA AllocatedTyped ==
  ASSUME TypeOK, NEW x \in Fifos, NEW S \in SUBSET Flows
  PROVE  Allocated(x[1], x[2], x[3], S) \subseteq Transactions
<1>1. x[1] \in Tiles /\ x[2] \in Cardinals /\ x[3] \in Cardinals
  BY DEF Fifos
<1>2. ASSUME NEW a \in Transactions
      PROVE  [a EXCEPT !.next = IF x[2] = "LOCAL" THEN a.next
                                ELSE NextTileFifoArb(x[1], x[2], a.flow[2])] \in Transactions
  BY PortAtIsCardinal DEF Transactions, NextTileFifoArb
<1>. QED BY <1>1, <1>2, ArrivingTyped DEF Allocated

(* A transaction is allocated only in a FIFO that has room.                *)
LEMMA AllocatedHasRoom ==
  ASSUME NEW x \in Fifos, NEW S \in SUBSET Flows, MaySend(S),
         Allocated(x[1], x[2], x[3], S) # {}
  PROVE  Len(fifo[x]) < DEPTH
<1> DEFINE t == x[1]
           c == x[2]
           side == x[3]
<1>1. t \in Tiles /\ c \in Cardinals /\ side \in Cardinals /\ x = <<t, c, side>>
  BY DEF Fifos
<1> HIDE DEF t, c, side
<1>2. Allocated(t, c, side, S) # {}
  BY DEF t, c, side
<1>3. PICK a \in Arriving(t, side, S) : a.next = c /\ c # side
  BY <1>2 DEF Allocated
<1>4. CASE side = "LOCAL"
  <2>1. PICK f \in S : f[1] = t
    BY <1>3, <1>4 DEF Arriving
  <2>2. FabReady(t) /\ c \in Directions
    BY <1>1, <1>3, <1>4, <2>1, CardinalsFacts DEF MaySend
  <2>. QED BY <1>1, <1>4, <2>2 DEF FabReady, Ready
<1>5. CASE side \in Directions
  <2>1. NextTile(t, side) \in Tiles /\ a \in WinnerReq(NextTile(t, side), Opposite(side))
    BY <1>3, <1>5, CardinalsFacts DEF Arriving
  <2>2. InReady(NextTile(t, side), Opposite(side), c)
    BY <1>1, <1>3, <1>5, <2>1, ThereAndBack, CardinalsFacts, WinnerReqFacts
  <2>3. Ready(t, c, side)
    BY <1>1, <1>5, <2>2, ThereAndBack, CardinalsFacts DEF InReady
  <2>. QED BY <1>1, <2>3 DEF Ready
<1>. QED BY <1>1, <1>4, <1>5, CardinalsFacts

(* The contents of a FIFO after a cycle.                                   *)
LEMMA FifoAfterClock ==
  ASSUME TypeOK, NEW x \in Fifos, NEW S \in SUBSET Flows, Clock(S)
  PROVE  LET M == Allocated(x[1], x[2], x[3], S) IN
         /\ fifo'[x] \in Seq(Transactions)
         /\ M = {} => Len(fifo'[x]) <= Len(fifo[x])
         /\ Len(fifo'[x]) <= Len(fifo[x]) + 1
         /\ \A m \in Waiting(x)' : m \in Waiting(x) \/ m \in M
<1> DEFINE M == Allocated(x[1], x[2], x[3], S)
           q == IF PopsFrom(x[1], x[2], x[3]) THEN Tail(fifo[x]) ELSE fifo[x]
<1>1. x = <<x[1], x[2], x[3]>>
  BY DEF Fifos
<1>2. fifo[x] \in Seq(Transactions)
  BY DEF TypeOK
<1>3. PopsFrom(x[1], x[2], x[3]) => fifo[x] # << >>
  BY <1>1 DEF PopsFrom
<1>4. /\ q \in Seq(Transactions)
      /\ Len(q) \in Nat /\ Len(q) <= Len(fifo[x])
      /\ \A k \in 1 .. Len(q) : \E j \in 1 .. Len(fifo[x]) : q[k] = fifo[x][j]
  <2>1. CASE PopsFrom(x[1], x[2], x[3])
    <3>1. /\ Tail(fifo[x]) \in Seq(Transactions)
          /\ Len(Tail(fifo[x])) = Len(fifo[x]) - 1
          /\ \A k \in 1 .. Len(Tail(fifo[x])) : Tail(fifo[x])[k] = fifo[x][k + 1]
      BY <1>2, <1>3, <2>1, HeadTailProperties
    <3>2. \A k \in 1 .. Len(fifo[x]) - 1 : k + 1 \in 1 .. Len(fifo[x])
      BY <1>2
    <3>. QED BY <1>2, <2>1, <3>1, <3>2
  <2>2. CASE ~PopsFrom(x[1], x[2], x[3])
    BY <1>2, <2>2
  <2>. QED BY <2>1, <2>2
<1>5. fifo'[x] = AppendAll(q, M)
  BY DEF Clock
<1>6. M \subseteq Transactions
  BY AllocatedTyped
<1> HIDE DEF M, q
<1>7. /\ AppendAll(q, M) \in Seq(Transactions)
      /\ M = {} => AppendAll(q, M) = q
      /\ Len(AppendAll(q, M)) <= Len(q) + 1
      /\ \A k \in 1 .. Len(AppendAll(q, M)) :
           \/ k \in 1 .. Len(q) /\ AppendAll(q, M)[k] = q[k]
           \/ AppendAll(q, M)[k] \in M
  BY <1>4, <1>6, AppendAllFacts
<1>8. fifo'[x] \in Seq(Transactions)
  BY <1>5, <1>7
<1>9. (M = {} => Len(fifo'[x]) <= Len(fifo[x])) /\ Len(fifo'[x]) <= Len(fifo[x]) + 1
  <2>1. Len(AppendAll(q, M)) \in Nat /\ Len(fifo[x]) \in Nat
    BY <1>2, <1>7
  <2>. QED BY <1>4, <1>5, <1>7, <2>1
<1>10. ASSUME NEW m \in Waiting(x)' PROVE m \in Waiting(x) \/ m \in M
  <2>1. PICK k \in 1 .. Len(fifo'[x]) : m = fifo'[x][k]
    BY DEF Waiting
  <2>. QED BY <1>4, <1>5, <1>7, <2>1 DEF Waiting
<1>. QED BY <1>8, <1>9, <1>10 DEF M

(* A transaction newly allocated is where it has to be.                    *)
LEMMA AllocatedRoutedRight ==
  ASSUME TypeOK, RoutedRight, NEW x \in Fifos, NEW S \in SUBSET Flows,
         NEW m \in Allocated(x[1], x[2], x[3], S)
  PROVE  /\ x[2] = PortAt(x[1], m.flow[2])
         /\ NextTile(x[1], x[2]) \in Tiles
         /\ m.next = IF x[2] = "LOCAL" THEN "LOCAL"
                     ELSE NextTileFifoArb(x[1], x[2], m.flow[2])
<1> DEFINE t == x[1]
           c == x[2]
           side == x[3]
<1>1. t \in Tiles /\ c \in Cardinals /\ side \in Cardinals
  BY DEF Fifos
<1>2. PICK a \in Arriving(t, side, S) :
        /\ a.next = c
        /\ m = [a EXCEPT !.next = IF c = "LOCAL" THEN a.next
                                  ELSE NextTileFifoArb(t, c, a.flow[2])]
  BY DEF Allocated
<1> HIDE DEF t, c, side
<1>3. a \in Transactions
  BY <1>1, ArrivingTyped
<1>4. m.flow = a.flow /\ a.flow \in Flows
  BY <1>2, <1>3 DEF Transactions
<1>5. m.next = IF c = "LOCAL" THEN "LOCAL" ELSE NextTileFifoArb(t, c, m.flow[2])
  BY <1>2, <1>3, <1>4 DEF Transactions
<1>6. c = PortAt(t, a.flow[2])
  <2>1. CASE side = "LOCAL"
    BY <1>2, <2>1 DEF Arriving
  <2>2. CASE side \in Directions
    <3> DEFINE n == NextTile(t, side)
               o == Opposite(side)
    <3>1. n \in Tiles /\ a \in WinnerReq(n, o)
      BY <1>2, <2>2, CardinalsFacts DEF Arriving
    <3>2. o \in Cardinals /\ o # "LOCAL" /\ NextTile(n, o) = t
      BY <1>1, <2>2, ThereAndBack, CardinalsFacts
    <3> HIDE DEF n, o
    <3>3. PICK s \in Cardinals : fifo[<<n, o, s>>] # << >> /\ a = Head(fifo[<<n, o, s>>])
      BY <3>1, <3>2, WinnerReqFacts
    <3>4. <<n, o, s>> \in Fifos /\ fifo[<<n, o, s>>] \in Seq(Transactions)
      BY <3>1, <3>2 DEF Fifos, TypeOK
    <3>5. a \in Waiting(<<n, o, s>>)
      <4>1. Len(fifo[<<n, o, s>>]) >= 1 /\ Len(fifo[<<n, o, s>>]) \in Nat
        BY <3>3, <3>4
      <4>2. a = fifo[<<n, o, s>>][1]
        BY <3>3, <3>4
      <4>. QED BY <4>1, <4>2 DEF Waiting
    <3>6. a.next = NextTileFifoArb(n, o, a.flow[2])
      BY <3>2, <3>4, <3>5 DEF RoutedRight
    <3>. QED BY <1>2, <3>2, <3>6 DEF NextTileFifoArb
  <2>. QED BY <1>1, <2>1, <2>2, CardinalsFacts
<1>7. NextTile(t, c) \in Tiles
  <2>1. a.flow[2] \in Tiles
    BY <1>4, FlowsAssumption
  <2>. QED BY <1>1, <1>6, <2>1, PortAtStaysInMesh
<1>. QED BY <1>4, <1>5, <1>6, <1>7 DEF t, c

-------------------------------------------------------------------------------
(* The inductive invariant.                                                *)

(* No port is filled from its own side: a transaction does not turn back.  *)
OwnSideEmpty == \A x \in Fifos : x[2] = x[3] => fifo[x] = << >>

IInv == TypeOK /\ NoOverflow /\ RoutedRight /\ OwnSideEmpty

LEMMA InitInv == Init => IInv
<1> SUFFICES ASSUME Init PROVE IInv
  OBVIOUS
<1>1. TypeOK
  BY DEF Init, TypeOK
<1>2. NoOverflow
  BY DepthAssumption DEF Init, NoOverflow
<1>3. RoutedRight
  BY DEF Init, RoutedRight, Waiting
<1>4. OwnSideEmpty
  BY DEF Init, OwnSideEmpty
<1>. QED BY <1>1, <1>2, <1>3, <1>4 DEF IInv

LEMMA StepInv == IInv /\ [Next]_vars => IInv'
<1> SUFFICES ASSUME IInv, [Next]_vars PROVE IInv'
  OBVIOUS
<1> USE DEF IInv
<1>1. CASE UNCHANGED vars
  BY <1>1 DEF vars, TypeOK, NoOverflow, RoutedRight, OwnSideEmpty, Waiting
<1>2. CASE Next
  <2>1. PICK S \in SUBSET Flows : MaySend(S) /\ Clock(S)
    BY <1>2 DEF Next
  <2>2. TypeOK'
    <3>1. fifo' \in [Fifos -> Seq(Transactions)]
      <4>1. ASSUME NEW x \in Fifos PROVE fifo'[x] \in Seq(Transactions)
        BY <2>1, FifoAfterClock
      <4>2. DOMAIN fifo' = Fifos /\ fifo' = [x \in Fifos |-> fifo'[x]]
        BY <2>1 DEF Clock
      <4>. QED BY <4>1, <4>2
    <3>2. enc_last_winner' \in [Ports -> 0 .. 3]
      <4>1. ASSUME NEW p \in Ports
            PROVE  NextLastWinner(WinnerOf(p[1], p[2])) \in 0 .. 3
        <5>1. ValidCandidate(p[1], p[2]) \in SUBSET (0 .. 3)
          BY DEF ValidCandidate
        <5>. QED BY <5>1, FirstWinner DEF WinnerOf
      <4>. QED BY <2>1, <4>1 DEF Clock
    <3>3. core_ready' \in [Tiles -> BOOLEAN]
      BY <1>2 DEF Next
    <3>4. sent' \in [Flows -> Nat]
      BY <2>1 DEF Clock, TypeOK
    <3>5. received' \in [Flows -> Seq(Nat)]
      <4>1. ASSUME NEW f \in Flows
            PROVE  LET D == {m \in WinnerReq(f[2], "LOCAL") : m.flow = f}
                   IN  (IF D = {} THEN received[f]
                        ELSE Append(received[f], (CHOOSE m \in D : TRUE).num)) \in Seq(Nat)
        <5> DEFINE D == {m \in WinnerReq(f[2], "LOCAL") : m.flow = f}
        <5>1. f[2] \in Tiles
          BY FlowsAssumption
        <5>2. D \subseteq Transactions
          BY <5>1, WinnerReqTyped, CardinalsFacts
        <5> HIDE DEF D
        <5>3. received[f] \in Seq(Nat)
          BY DEF TypeOK
        <5>4. D # {} => (CHOOSE m \in D : TRUE).num \in Nat
          BY <5>2 DEF Transactions
        <5>5. D # {} => Append(received[f], (CHOOSE m \in D : TRUE).num) \in Seq(Nat)
          BY <5>3, <5>4
        <5>. QED BY <5>3, <5>5 DEF D
      <4>. QED BY <2>1, <4>1 DEF Clock
    <3>. QED BY <3>1, <3>2, <3>3, <3>4, <3>5 DEF TypeOK
  <2>3. NoOverflow'
    <3> SUFFICES ASSUME NEW x \in Fifos PROVE Len(fifo'[x]) <= DEPTH
      BY DEF NoOverflow
    <3>1. Len(fifo[x]) \in Nat /\ Len(fifo'[x]) \in Nat /\ Len(fifo[x]) <= DEPTH
      BY <2>1, FifoAfterClock DEF TypeOK, NoOverflow
    <3>2. CASE Allocated(x[1], x[2], x[3], S) = {}
      BY <2>1, <3>1, <3>2, FifoAfterClock, DepthAssumption
    <3>3. CASE Allocated(x[1], x[2], x[3], S) # {}
      <4>1. Len(fifo[x]) < DEPTH
        BY <2>1, <3>3, AllocatedHasRoom
      <4>2. Len(fifo'[x]) <= Len(fifo[x]) + 1
        BY <2>1, FifoAfterClock
      <4>. QED BY <3>1, <4>1, <4>2, DepthAssumption
    <3>. QED BY <3>2, <3>3
  <2>4. RoutedRight'
    <3> SUFFICES ASSUME NEW x \in Fifos, NEW m \in Waiting(x)'
                 PROVE  /\ x[2] = PortAt(x[1], m.flow[2])
                        /\ NextTile(x[1], x[2]) \in Tiles
                        /\ m.next = IF x[2] = "LOCAL" THEN "LOCAL"
                                    ELSE NextTileFifoArb(x[1], x[2], m.flow[2])
      BY DEF RoutedRight
    <3>1. m \in Waiting(x) \/ m \in Allocated(x[1], x[2], x[3], S)
      BY <2>1, FifoAfterClock
    <3>2. CASE m \in Waiting(x)
      BY <3>2 DEF RoutedRight
    <3>3. CASE m \in Allocated(x[1], x[2], x[3], S)
      BY <3>3, AllocatedRoutedRight
    <3>. QED BY <3>1, <3>2, <3>3
  <2>5. OwnSideEmpty'
    <3> SUFFICES ASSUME NEW x \in Fifos, x[2] = x[3] PROVE fifo'[x] = << >>
      BY DEF OwnSideEmpty
    <3>1. fifo[x] = << >> /\ Allocated(x[1], x[2], x[3], S) = {}
      BY DEF OwnSideEmpty, Allocated
    <3>2. fifo'[x] \in Seq(Transactions) /\ Len(fifo'[x]) <= Len(fifo[x])
      BY <2>1, <3>1, FifoAfterClock
    <3>. QED BY <3>1, <3>2, EmptySeq
  <2>. QED BY <2>2, <2>3, <2>4, <2>5
<1>. QED BY <1>1, <1>2

THEOREM Invariance == Spec => []IInv
BY InitInv, StepInv, PTL DEF Spec

(* No FIFO of a router ever holds more than DEPTH transactions.            *)
THEOREM RoutersNeverOverflow == Spec => [](TypeOK /\ NoOverflow)
<1>1. IInv => TypeOK /\ NoOverflow
  BY DEF IInv
<1>. QED BY <1>1, Invariance, PTL

(* Every transaction is always at the port its destination asks for.       *)
THEOREM NeverMisrouted == Spec => []RoutedRight
<1>1. IInv => RoutedRight
  BY DEF IInv
<1>. QED BY <1>1, Invariance, PTL

(* The assertion of next_tile_fifo_arb.sv holds in every mesh.             *)
THEOREM NeverBack == Spec => []NeverGoesBack
<1>1. IInv => NeverGoesBack
  <2> SUFFICES ASSUME IInv, NEW x \in Fifos, NEW m \in Waiting(x), x[2] # "LOCAL"
               PROVE  m.next # Opposite(x[2])
    BY DEF NeverGoesBack
  <2>1. x[2] = PortAt(x[1], m.flow[2]) /\ m.next = NextTileFifoArb(x[1], x[2], m.flow[2])
    BY DEF IInv, RoutedRight
  <2>2. x[1] \in Tiles /\ m.flow[2] \in Tiles
    <3>1. fifo[x] \in Seq(Transactions) /\ x[1] \in Tiles
      BY DEF IInv, TypeOK, Fifos
    <3>2. m \in Transactions
      BY <3>1 DEF Waiting
    <3>. QED BY <3>1, <3>2, FlowsAssumption DEF Transactions
  <2>. QED BY <2>1, <2>2, PortAtNeverBack
<1>. QED BY <1>1, Invariance, PTL

-------------------------------------------------------------------------------
(* The mesh cannot lock up.                                                *)

(* The tile a transaction reaches next, in coordinates.                    *)
LEMMA StepTowards ==
  ASSUME NEW t \in Tiles, NEW dst \in Tiles, NEW c, c = PortAt(t, dst), c # "LOCAL",
         NEW n, n = NextTile(t, c)
  PROVE  /\ n \in Tiles
         /\ \/ /\ c = "NORTH" /\ Row(dst) < Row(t)
               /\ Col(n) = Col(t) /\ Row(n) = Row(t) - 1
            \/ /\ c = "SOUTH" /\ Row(dst) > Row(t)
               /\ Col(n) = Col(t) /\ Row(n) = Row(t) + 1
            \/ /\ c = "WEST" /\ Row(dst) = Row(t) /\ Col(dst) < Col(t)
               /\ Col(n) = Col(t) - 1 /\ Row(n) = Row(t)
            \/ /\ c = "EAST" /\ Row(dst) = Row(t) /\ Col(dst) > Col(t)
               /\ Col(n) = Col(t) + 1 /\ Row(n) = Row(t)
<1>1. /\ Col(t) \in Int /\ Row(t) \in Int /\ Col(dst) \in Int /\ Row(dst) \in Int
  BY TileCoordinates, MeshAssumption
<1>2. ASSUME NEW a, NEW b PROVE Col(<<a, b>>) = a /\ Row(<<a, b>>) = b
  BY DEF Col, Row
<1>3. n \in Tiles
  BY PortAtStaysInMesh
<1>4. CASE Row(dst) < Row(t)
  <2>1. c = "NORTH" /\ n = <<Col(t), Row(t) - 1>>
    BY <1>4 DEF PortAt, NextTile
  <2>. QED BY <1>2, <1>3, <1>4, <2>1
<1>5. CASE Row(dst) > Row(t)
  <2>1. c = "SOUTH" /\ n = <<Col(t), Row(t) + 1>>
    BY <1>1, <1>5 DEF PortAt, NextTile
  <2>. QED BY <1>2, <1>3, <1>5, <2>1
<1>6. CASE Row(dst) = Row(t) /\ Col(dst) < Col(t)
  <2>1. c = "WEST" /\ n = <<Col(t) - 1, Row(t)>>
    BY <1>1, <1>6 DEF PortAt, NextTile
  <2>. QED BY <1>2, <1>3, <1>6, <2>1
<1>7. CASE Row(dst) = Row(t) /\ Col(dst) > Col(t)
  <2>1. c = "EAST" /\ n = <<Col(t) + 1, Row(t)>>
    BY <1>1, <1>7 DEF PortAt, NextTile
  <2>. QED BY <1>2, <1>3, <1>7, <2>1
<1>8. CASE Row(dst) = Row(t) /\ Col(dst) = Col(t)
  BY <1>1, <1>8 DEF PortAt
<1>. QED BY <1>1, <1>4, <1>5, <1>6, <1>7, <1>8

(* A measure of the ports that falls along every route: the local port     *)
(* below the ports along a row, these below the ports along a column.      *)
Rank(t, c) ==
  IF c = "LOCAL" THEN 0
  ELSE IF c = "EAST" THEN 1 + COLS - Col(t)
  ELSE IF c = "WEST" THEN Col(t)
  ELSE IF c = "NORTH" THEN COLS + Row(t)
  ELSE 1 + COLS + ROWS - Row(t)

LEMMA RankIsNat ==
  ASSUME NEW t \in Tiles, NEW c
  PROVE  Rank(t, c) \in Nat
<1>1. /\ Col(t) \in 1 .. COLS /\ Row(t) \in 1 .. ROWS
      /\ COLS \in Nat /\ ROWS \in Nat
  BY TileCoordinates, MeshAssumption
<1>. QED BY <1>1 DEF Rank

LEMMA RankFalls ==
  ASSUME NEW t \in Tiles, NEW dst \in Tiles, NEW c, c = PortAt(t, dst), c # "LOCAL",
         NEW n, n = NextTile(t, c)
  PROVE  Rank(n, PortAt(n, dst)) < Rank(t, c)
<1>1. n \in Tiles
  BY StepTowards
<1>2. /\ Col(t) \in 1 .. COLS /\ Row(t) \in 1 .. ROWS
      /\ Col(dst) \in 1 .. COLS /\ Row(dst) \in 1 .. ROWS
      /\ Col(n) \in 1 .. COLS /\ Row(n) \in 1 .. ROWS
      /\ COLS \in Nat /\ ROWS \in Nat
  BY <1>1, TileCoordinates, MeshAssumption
<1> DEFINE d == PortAt(n, dst)
<1>3. CASE c = "NORTH" /\ Row(dst) < Row(t) /\ Col(n) = Col(t) /\ Row(n) = Row(t) - 1
  <2>1. d # "SOUTH"
    BY <1>2, <1>3 DEF PortAt
  <2>2. d \in {"LOCAL", "EAST", "WEST", "NORTH"}
    BY <2>1, PortAtIsCardinal DEF Cardinals, Directions
  <2>. QED BY <1>2, <1>3, <2>2 DEF Rank
<1>4. CASE c = "SOUTH" /\ Row(dst) > Row(t) /\ Col(n) = Col(t) /\ Row(n) = Row(t) + 1
  <2>1. d # "NORTH"
    BY <1>2, <1>4 DEF PortAt
  <2>2. d \in {"LOCAL", "EAST", "WEST", "SOUTH"}
    BY <2>1, PortAtIsCardinal DEF Cardinals, Directions
  <2>. QED BY <1>2, <1>4, <2>2 DEF Rank
<1>5. CASE /\ c = "WEST" /\ Row(dst) = Row(t) /\ Col(dst) < Col(t)
           /\ Col(n) = Col(t) - 1 /\ Row(n) = Row(t)
  <2>1. d \in {"LOCAL", "WEST"}
    BY <1>2, <1>5 DEF PortAt
  <2>. QED BY <1>2, <1>5, <2>1 DEF Rank
<1>6. CASE /\ c = "EAST" /\ Row(dst) = Row(t) /\ Col(dst) > Col(t)
           /\ Col(n) = Col(t) + 1 /\ Row(n) = Row(t)
  <2>1. d \in {"LOCAL", "EAST"}
    BY <1>2, <1>6 DEF PortAt
  <2>. QED BY <1>2, <1>6, <2>1 DEF Rank
<1>. QED BY <1>3, <1>4, <1>5, <1>6, StepTowards

(* The order of the natural numbers, for the least element of a set.       *)
Below == {p \in Nat \X Nat : p[1] < p[2]}

LEMMA LeastOf == ASSUME NEW T \in SUBSET Nat, T # {} PROVE \E i \in T : \A j \in T : i <= j
<1>1. IsWellFoundedOn(Below, Nat)
  BY NatLessThanWellFounded DEF OpToRel, Below
<1>2. PICK i \in T : \A j \in T : <<j, i>> \notin Below
  BY <1>1, WFMin
<1>3. \A j \in T : ~(j < i)
  BY <1>2 DEF Below
<1>. QED BY <1>3

(* An arbiter with a candidate has a winner.                               *)
LEMMA SomeWinner ==
  ASSUME NEW S \in SUBSET (0 .. 3), S # {}, NEW last
  PROVE  Winner(S, last) # {}
<1>1. ASSUME NEW T \in SUBSET (0 .. 3), T # {} PROVE FindFirst(T) # {}
  <2>1. T \in SUBSET Nat
    OBVIOUS
  <2>2. PICK i \in T : \A j \in T : i <= j
    BY <1>1, <2>1, LeastOf
  <2>. QED BY <2>2 DEF FindFirst
<1>2. MaskCandidate(S, last) \in SUBSET (0 .. 3)
  BY DEF MaskCandidate
<1>. QED BY <1>1, <1>2 DEF Winner

(* Each FIFO of a port is one of the clients of its arbiter.               *)
LEMMA SideHasClient ==
  ASSUME NEW c \in Cardinals, NEW side \in Cardinals, side # c
  PROVE  \E i \in 0 .. 3 : ClientSide(c, i) = side
<1>1. /\ 0 \in 0 .. 3 /\ 1 \in 0 .. 3 /\ 2 \in 0 .. 3 /\ 3 \in 0 .. 3
      /\ 0 + 1 = 1 /\ 1 + 1 = 2 /\ 2 + 1 = 3 /\ 3 + 1 = 4
  OBVIOUS
<1>2. \/ ClientSide(c, 0) = side \/ ClientSide(c, 1) = side
      \/ ClientSide(c, 2) = side \/ ClientSide(c, 3) = side
  BY <1>1 DEF ClientSide, Cardinals, Directions
<1>. QED BY <1>1, <1>2

(* When every core is ready, some port of the mesh has a winner as long as *)
(* a transaction is waiting.  Of the FIFOs that hold one, the one at the   *)
(* port of least rank is never held up by another.                         *)
THEOREM NeverLocksUp == Spec => []NoLockup
<1>1. IInv => NoLockup
  <2> SUFFICES ASSUME IInv, \A t \in Tiles : core_ready[t],
                      \E x \in Fifos : fifo[x] # << >>
               PROVE  \E p \in Ports : WinnerOf(p[1], p[2]) # {}
    BY DEF NoLockup
  <2> DEFINE Busy == {x \in Fifos : fifo[x] # << >>}
             Ranks == {Rank(x[1], x[2]) : x \in Busy}
  <2>1. ASSUME NEW x \in Fifos
        PROVE  /\ x[1] \in Tiles /\ x[2] \in Cardinals /\ x[3] \in Cardinals
               /\ x = <<x[1], x[2], x[3]>>
    BY DEF Fifos
  <2>2. Ranks \in SUBSET Nat /\ Ranks # {}
    BY <2>1, RankIsNat
  <2>3. PICK r \in Ranks : \A j \in Ranks : r <= j
    <3> HIDE DEF Ranks
    <3>. QED BY <2>2, LeastOf
  <2>4. PICK x \in Busy : r = Rank(x[1], x[2])
    BY <2>3
  <2>5. \A y \in Busy : Rank(x[1], x[2]) <= Rank(y[1], y[2])
    BY <2>3, <2>4
  <2> DEFINE t == x[1]
             c == x[2]
             m == Head(fifo[x])
             n == NextTile(t, c)
             y == <<n, m.next, Opposite(c)>>
  <2>6. /\ t \in Tiles /\ c \in Cardinals /\ x \in Fifos /\ fifo[x] # << >>
        /\ x = <<t, c, x[3]>> /\ x[3] \in Cardinals
    BY <2>1
  <2>7. m \in Waiting(x) /\ m \in Transactions
    <3>1. fifo[x] \in Seq(Transactions)
      BY <2>6 DEF IInv, TypeOK
    <3>2. Len(fifo[x]) \in Nat \ {0} /\ m = fifo[x][1]
      BY <2>6, <3>1, EmptySeq
    <3>. QED BY <3>1, <3>2, ElementOfSeq DEF Waiting
  <2>8. m.flow[2] \in Tiles /\ m.next \in Cardinals
    BY <2>7, FlowsAssumption DEF Transactions
  <2>9. /\ c = PortAt(t, m.flow[2])
        /\ m.next = IF c = "LOCAL" THEN "LOCAL" ELSE PortAt(n, m.flow[2])
    BY <2>6, <2>7 DEF IInv, RoutedRight, NextTileFifoArb
  <2>10. InReady(t, c, m.next)
    <3>1. CASE c = "LOCAL"
      BY <2>6, <3>1 DEF InReady
    <3>2. CASE c # "LOCAL"
      <4>1. c \in Directions
        BY <2>6, <3>2, CardinalsFacts
      <4>2. n \in Tiles /\ Opposite(c) \in Cardinals
        BY <2>6, <2>8, <2>9, <3>2, <4>1, StepTowards, ThereAndBack, CardinalsFacts
      <4>3. m.next # Opposite(c)
        <5>1. NextTileFifoArb(t, c, m.flow[2]) # Opposite(c)
          BY <2>6, <2>8, <2>9, <3>2, PortAtNeverBack
        <5>. QED BY <2>9, <3>2, <5>1 DEF NextTileFifoArb
      <4>4. y \in Fifos
        BY <2>8, <4>2 DEF Fifos
      <4>5. Rank(n, m.next) < Rank(t, c)
        BY <2>6, <2>8, <2>9, <3>2, RankFalls
      <4>6. y \notin Busy
        <5>1. Rank(n, m.next) \in Nat /\ Rank(t, c) \in Nat
          BY <2>6, <4>2, RankIsNat
        <5>2. y \in Busy => Rank(t, c) <= Rank(y[1], y[2])
          BY <2>5
        <5>. QED BY <4>5, <5>1, <5>2
      <4>7. Len(fifo[y]) = 0
        BY <4>4, <4>6
      <4>8. Ready(n, m.next, Opposite(c))
        BY <4>2, <4>3, <4>7, DepthAssumption DEF Ready
      <4>. QED BY <3>2, <4>8 DEF InReady
    <3>. QED BY <3>1, <3>2
  <2>11. x[2] # x[3]
    BY <2>6 DEF IInv, OwnSideEmpty
  <2>12. PICK i \in 0 .. 3 : ClientSide(c, i) = x[3]
    BY <2>6, <2>11, SideHasClient
  <2>13. i \in ValidCandidate(t, c)
    BY <2>6, <2>10, <2>12 DEF ValidCandidate
  <2>14. WinnerOf(t, c) # {}
    <3>1. ValidCandidate(t, c) \in SUBSET (0 .. 3)
      BY DEF ValidCandidate
    <3>. QED BY <2>13, <3>1, SomeWinner DEF WinnerOf
  <2>15. <<t, c>> \in Ports
    BY <2>6 DEF Ports
  <2>. QED BY <2>14, <2>15
<1>. QED BY <1>1, Invariance, PTL

-------------------------------------------------------------------------------
(* The route of a flow: along the column of its source to the row of its   *)
(* destination, then along that row.  All transactions of a flow that are  *)
(* in a tile are in one FIFO of it.                                        *)

Gap(a, b) == IF a < b THEN b - a ELSE a - b

(* The hops a transaction for tile u still has to make from tile t.        *)
Hops(t, u) == Gap(Col(t), Col(u)) + Gap(Row(t), Row(u))

Within(a, b, c) == (b <= a /\ a <= c) \/ (c <= a /\ a <= b)

OnRoute(t, f) ==
  \/ Col(t) = Col(f[1]) /\ Within(Row(t), Row(f[1]), Row(f[2]))
  \/ Row(t) = Row(f[2]) /\ Within(Col(t), Col(f[1]), Col(f[2]))

(* The side of tile t on which the transactions of flow f enter it.        *)
EntrySide(t, f) ==
  IF t = f[1] THEN "LOCAL"
  ELSE IF Col(t) > Col(f[1]) THEN "WEST"
  ELSE IF Col(t) < Col(f[1]) THEN "EAST"
  ELSE IF Row(t) > Row(f[1]) THEN "NORTH" ELSE "SOUTH"

LEMMA FlowEnds ==
  ASSUME NEW f \in Flows
  PROVE  f[1] \in Tiles /\ f[2] \in Tiles /\ f[1] # f[2] /\ f = <<f[1], f[2]>>
BY FlowsAssumption

LEMMA Coordinates ==
  ASSUME NEW t \in Tiles
  PROVE  Col(t) \in Int /\ Row(t) \in Int
BY TileCoordinates, MeshAssumption

LEMMA SameTile ==
  ASSUME NEW t \in Tiles, NEW u \in Tiles, Col(t) = Col(u), Row(t) = Row(u)
  PROVE  t = u
BY DEF Tiles, Col, Row

LEMMA HopsIsNat ==
  ASSUME NEW t \in Tiles, NEW u \in Tiles
  PROVE  Hops(t, u) \in Nat
<1>1. ASSUME NEW a \in Int, NEW b \in Int PROVE Gap(a, b) \in Nat
  BY DEF Gap
<1>2. Gap(Col(t), Col(u)) \in Nat /\ Gap(Row(t), Row(u)) \in Nat
  BY <1>1, Coordinates
<1>. QED BY <1>2 DEF Hops

(* A transaction asks for the local port at its destination only.          *)
LEMMA LocalAtDestination ==
  ASSUME NEW t \in Tiles, NEW u \in Tiles
  PROVE  /\ PortAt(t, u) = "LOCAL" <=> t = u
         /\ PortAt(t, u) = "LOCAL" => Hops(t, u) = 0
<1>1. Col(t) \in Int /\ Row(t) \in Int /\ Col(u) \in Int /\ Row(u) \in Int
  BY Coordinates
<1>2. PortAt(t, u) = "LOCAL" => Col(t) = Col(u) /\ Row(t) = Row(u)
  BY <1>1 DEF PortAt
<1>3. Col(t) = Col(u) /\ Row(t) = Row(u) => PortAt(t, u) = "LOCAL" /\ Hops(t, u) = 0
  BY <1>1 DEF PortAt, Hops, Gap
<1>. QED BY <1>2, <1>3, SameTile

LEMMA RouteStart ==
  ASSUME NEW f \in Flows
  PROVE  OnRoute(f[1], f) /\ EntrySide(f[1], f) = "LOCAL"
<1>1. /\ Col(f[1]) \in Int /\ Row(f[1]) \in Int
      /\ Col(f[2]) \in Int /\ Row(f[2]) \in Int
  BY FlowEnds, Coordinates
<1>. QED BY <1>1 DEF OnRoute, EntrySide, Within

(* One hop along the route.                                                *)
LEMMA RouteStep ==
  ASSUME NEW t \in Tiles, NEW f \in Flows, OnRoute(t, f),
         NEW c, c = PortAt(t, f[2]), c # "LOCAL", NEW n, n = NextTile(t, c)
  PROVE  /\ n \in Tiles /\ OnRoute(n, f)
         /\ EntrySide(n, f) = Opposite(c)
         /\ Hops(t, f[2]) = Hops(n, f[2]) + 1
<1>1. f[1] \in Tiles /\ f[2] \in Tiles
  BY FlowEnds
<1>2. n \in Tiles
  BY <1>1, StepTowards
<1>3. /\ Col(t) \in Int /\ Row(t) \in Int /\ Col(n) \in Int /\ Row(n) \in Int
      /\ Col(f[1]) \in Int /\ Row(f[1]) \in Int
      /\ Col(f[2]) \in Int /\ Row(f[2]) \in Int
  BY <1>1, <1>2, Coordinates
<1>4. CASE /\ c = "NORTH" /\ Row(f[2]) < Row(t)
           /\ Col(n) = Col(t) /\ Row(n) = Row(t) - 1
  <2>1. Col(t) = Col(f[1]) /\ Row(t) <= Row(f[1])
    BY <1>3, <1>4 DEF OnRoute, Within
  <2>2. n # f[1]
    BY <1>3, <1>4, <2>1
  <2>. QED BY <1>2, <1>3, <1>4, <2>1, <2>2 DEF OnRoute, Within, EntrySide, Opposite, Hops, Gap
<1>5. CASE /\ c = "SOUTH" /\ Row(f[2]) > Row(t)
           /\ Col(n) = Col(t) /\ Row(n) = Row(t) + 1
  <2>1. Col(t) = Col(f[1]) /\ Row(t) >= Row(f[1])
    BY <1>3, <1>5 DEF OnRoute, Within
  <2>2. n # f[1]
    BY <1>3, <1>5, <2>1
  <2>. QED BY <1>2, <1>3, <1>5, <2>1, <2>2 DEF OnRoute, Within, EntrySide, Opposite, Hops, Gap
<1>6. CASE /\ c = "WEST" /\ Row(f[2]) = Row(t) /\ Col(f[2]) < Col(t)
           /\ Col(n) = Col(t) - 1 /\ Row(n) = Row(t)
  <2>1. Col(t) <= Col(f[1]) /\ Col(f[2]) <= Col(f[1])
    BY <1>3, <1>6 DEF OnRoute, Within
  <2>2. n # f[1]
    BY <1>3, <1>6, <2>1
  <2>. QED BY <1>2, <1>3, <1>6, <2>1, <2>2 DEF OnRoute, Within, EntrySide, Opposite, Hops, Gap
<1>7. CASE /\ c = "EAST" /\ Row(f[2]) = Row(t) /\ Col(f[2]) > Col(t)
           /\ Col(n) = Col(t) + 1 /\ Row(n) = Row(t)
  <2>1. Col(t) >= Col(f[1]) /\ Col(f[2]) >= Col(f[1])
    BY <1>3, <1>7 DEF OnRoute, Within
  <2>2. n # f[1]
    BY <1>3, <1>7, <2>1
  <2>. QED BY <1>2, <1>3, <1>7, <2>1, <2>2 DEF OnRoute, Within, EntrySide, Opposite, Hops, Gap
<1>. QED BY <1>1, <1>4, <1>5, <1>6, <1>7, StepTowards

(* A route visits one tile at each distance from its end.                  *)
LEMMA OneTilePerHop ==
  ASSUME NEW f \in Flows, NEW t \in Tiles, NEW u \in Tiles,
         OnRoute(t, f), OnRoute(u, f), Hops(t, f[2]) = Hops(u, f[2])
  PROVE  t = u
<1>1. /\ Col(t) \in Int /\ Row(t) \in Int /\ Col(u) \in Int /\ Row(u) \in Int
      /\ Col(f[1]) \in Int /\ Row(f[1]) \in Int
      /\ Col(f[2]) \in Int /\ Row(f[2]) \in Int
  BY FlowEnds, Coordinates
<1>2. Col(t) = Col(u) /\ Row(t) = Row(u)
  BY <1>1 DEF OnRoute, Within, Hops, Gap
<1>. QED BY <1>2, SameTile

(* The source is the tile of the route farthest from its end.              *)
LEMMA SourceIsFarthest ==
  ASSUME NEW f \in Flows, NEW t \in Tiles, OnRoute(t, f)
  PROVE  Hops(t, f[2]) <= Hops(f[1], f[2])
<1>1. /\ Col(t) \in Int /\ Row(t) \in Int
      /\ Col(f[1]) \in Int /\ Row(f[1]) \in Int
      /\ Col(f[2]) \in Int /\ Row(f[2]) \in Int
  BY FlowEnds, Coordinates
<1>. QED BY <1>1 DEF OnRoute, Within, Hops, Gap

-------------------------------------------------------------------------------
(* Where what is in a FIFO after a cycle was before it.                    *)

(* An arbiter grants one client, so a port puts out one transaction.       *)
LEMMA OneWinner ==
  ASSUME NEW S \in SUBSET (0 .. 3), NEW last, NEW i \in Winner(S, last), NEW j \in Winner(S, last)
  PROVE  i = j
<1>1. ASSUME NEW T \in SUBSET (0 .. 3), NEW a \in FindFirst(T), NEW b \in FindFirst(T)
      PROVE  a = b
  <2>1. a <= b /\ b <= a /\ a \in Int /\ b \in Int
    BY DEF FindFirst
  <2>. QED BY <2>1
<1>2. MaskCandidate(S, last) \in SUBSET (0 .. 3)
  BY DEF MaskCandidate
<1>. QED BY <1>1, <1>2 DEF Winner

LEMMA OneReq ==
  ASSUME NEW t \in Tiles, NEW c \in Cardinals,
         NEW m \in WinnerReq(t, c), NEW n \in WinnerReq(t, c)
  PROVE  m = n
<1>1. \A i, j \in WinnerOf(t, c) : i = j
  <2>1. ValidCandidate(t, c) \in SUBSET (0 .. 3)
    BY DEF ValidCandidate
  <2>. QED BY <2>1, OneWinner DEF WinnerOf
<1>. QED BY <1>1 DEF WinnerReq

(* How many transactions leave FIFO x in this cycle.                       *)
Popped(x) == IF PopsFrom(x[1], x[2], x[3]) THEN 1 ELSE 0

(* What a port puts out is what one of its FIFOs gives up, and conversely. *)
LEMMA ReqIsPopped ==
  ASSUME TypeOK, NEW t \in Tiles, NEW c \in Cardinals, NEW m \in WinnerReq(t, c)
  PROVE  \E y \in Fifos :
           /\ y[1] = t /\ y[2] = c
           /\ Popped(y) = 1 /\ 1 \in 1 .. Len(fifo[y]) /\ m = fifo[y][1]
<1>1. PICK i \in WinnerOf(t, c) : m = Head(fifo[<<t, c, ClientSide(c, i)>>])
  BY DEF WinnerReq
<1>2. i \in ValidCandidate(t, c) /\ i \in 0 .. 3
  BY WinnerIsCandidate DEF WinnerOf, ValidCandidate
<1> DEFINE y == <<t, c, ClientSide(c, i)>>
<1>3. y \in Fifos /\ y[1] = t /\ y[2] = c /\ y[3] = ClientSide(c, i)
  BY <1>2, CardinalsFacts DEF Fifos
<1>4. fifo[y] # << >> /\ m = Head(fifo[y])
  BY <1>1, <1>2 DEF ValidCandidate
<1>5. PopsFrom(y[1], y[2], y[3])
  BY <1>3, <1>4 DEF PopsFrom
<1>6. fifo[y] \in Seq(Transactions)
  BY <1>3 DEF TypeOK
<1>7. 1 \in 1 .. Len(fifo[y]) /\ m = fifo[y][1]
  BY <1>4, <1>6, EmptySeq
<1>. QED BY <1>3, <1>5, <1>7 DEF Popped

LEMMA PoppedIsReq ==
  ASSUME TypeOK, NEW y \in Fifos, Popped(y) = 1
  PROVE  1 \in 1 .. Len(fifo[y]) /\ fifo[y][1] \in WinnerReq(y[1], y[2])
<1>1. y = <<y[1], y[2], y[3]>> /\ fifo[y] \in Seq(Transactions)
  BY DEF Fifos, TypeOK
<1>2. PICK i \in WinnerOf(y[1], y[2]) : ClientSide(y[2], i) = y[3]
  BY DEF Popped, PopsFrom
<1>3. fifo[y] # << >>
  BY <1>1 DEF Popped, PopsFrom
<1>4. Head(fifo[y]) \in WinnerReq(y[1], y[2])
  BY <1>1, <1>2 DEF WinnerReq
<1>5. 1 \in 1 .. Len(fifo[y]) /\ Head(fifo[y]) = fifo[y][1]
  BY <1>1, <1>3, EmptySeq
<1>. QED BY <1>4, <1>5

(* The contents of a FIFO after a cycle, place by place.                   *)
LEMMA PlacesAfterClock ==
  ASSUME TypeOK, NEW x \in Fifos, NEW S \in SUBSET Flows, Clock(S),
         NEW M, M = Allocated(x[1], x[2], x[3], S)
  PROVE  /\ Popped(x) \in 0 .. Len(fifo[x]) /\ Len(fifo[x]) \in Nat
         /\ fifo'[x] \in Seq(Transactions)
         /\ M = {} => Len(fifo'[x]) = Len(fifo[x]) - Popped(x)
         /\ M # {} => /\ Len(fifo'[x]) = Len(fifo[x]) - Popped(x) + 1
                      /\ fifo'[x][Len(fifo'[x])] \in M
         /\ \A k \in 1 .. Len(fifo[x]) - Popped(x) :
              /\ k + Popped(x) \in 1 .. Len(fifo[x])
              /\ fifo'[x][k] = fifo[x][k + Popped(x)]
<1> DEFINE q == IF PopsFrom(x[1], x[2], x[3]) THEN Tail(fifo[x]) ELSE fifo[x]
<1>1. x = <<x[1], x[2], x[3]>> /\ fifo[x] \in Seq(Transactions) /\ Len(fifo[x]) \in Nat
  BY DEF Fifos, TypeOK
<1>2. fifo'[x] = AppendAll(q, M)
  BY DEF Clock
<1>3. M \subseteq Transactions
  BY AllocatedTyped
<1>4. /\ q \in Seq(Transactions) /\ Popped(x) \in 0 .. Len(fifo[x])
      /\ Len(q) = Len(fifo[x]) - Popped(x)
      /\ \A k \in 1 .. Len(q) : k + Popped(x) \in 1 .. Len(fifo[x]) /\ q[k] = fifo[x][k + Popped(x)]
  <2>1. CASE PopsFrom(x[1], x[2], x[3])
    <3>1. fifo[x] # << >> /\ Popped(x) = 1 /\ q = Tail(fifo[x])
      BY <1>1, <2>1 DEF PopsFrom, Popped
    <3>2. /\ Tail(fifo[x]) \in Seq(Transactions)
          /\ Len(Tail(fifo[x])) = Len(fifo[x]) - 1
          /\ \A k \in 1 .. Len(Tail(fifo[x])) : Tail(fifo[x])[k] = fifo[x][k + 1]
      BY <1>1, <3>1, HeadTailProperties
    <3>3. Len(fifo[x]) # 0
      BY <1>1, <3>1, EmptySeq
    <3>4. 1 \in 0 .. Len(fifo[x]) /\ \A k \in 1 .. Len(fifo[x]) - 1 : k + 1 \in 1 .. Len(fifo[x])
      BY <1>1, <3>3
    <3> HIDE DEF q
    <3>. QED BY <3>1, <3>2, <3>4
  <2>2. CASE ~PopsFrom(x[1], x[2], x[3])
    BY <1>1, <2>2 DEF Popped
  <2>. QED BY <2>1, <2>2
<1> HIDE DEF q
<1>5. CASE M = {}
  BY <1>1, <1>2, <1>4, <1>5 DEF AppendAll
<1>6. CASE M # {}
  <2>1. PICK m \in M : fifo'[x] = Append(q, m)
    BY <1>2, <1>6 DEF AppendAll
  <2>2. m \in Transactions /\ Len(q) \in Nat
    BY <1>3, <1>4
  <2>3. /\ Append(q, m) \in Seq(Transactions)
        /\ Len(Append(q, m)) = Len(q) + 1
        /\ Append(q, m)[Len(q) + 1] = m
        /\ \A k \in 1 .. Len(q) : Append(q, m)[k] = q[k]
    BY <1>4, <2>2, AppendProperties
  <2>. QED BY <1>1, <1>4, <1>6, <2>1, <2>2, <2>3
<1>. QED BY <1>5, <1>6

(* The transaction at place k of FIFO x after the cycle was there before,  *)
(* or comes from the head of FIFO y of another tile, or was just sent.     *)
Stays(x, k) ==
  /\ k + Popped(x) \in 1 .. Len(fifo[x])
  /\ fifo'[x][k] = fifo[x][k + Popped(x)]

Comes(x, k, y) ==
  /\ k = Len(fifo'[x])
  /\ Popped(y) = 1 /\ 1 \in 1 .. Len(fifo[y]) /\ y[2] # "LOCAL"
  /\ x[1] = NextTile(y[1], y[2]) /\ x[3] = Opposite(y[2])
  /\ fifo'[x][k].flow = fifo[y][1].flow
  /\ fifo'[x][k].num = fifo[y][1].num

Starts(x, k, S) ==
  /\ k = Len(fifo'[x])
  /\ x[3] = "LOCAL" /\ fifo'[x][k].flow \in S /\ x[1] = fifo'[x][k].flow[1]
  /\ fifo'[x][k].num = sent[fifo'[x][k].flow] + 1

LEMMA Origin ==
  ASSUME TypeOK, NEW x \in Fifos, NEW S \in SUBSET Flows, Clock(S),
         NEW k \in 1 .. Len(fifo'[x])
  PROVE  \/ Stays(x, k)
         \/ \E y \in Fifos : Comes(x, k, y)
         \/ Starts(x, k, S)
<1> DEFINE t == x[1]
           c == x[2]
           side == x[3]
           M == Allocated(t, c, side, S)
           m == fifo'[x][k]
<1>1. t \in Tiles /\ c \in Cardinals /\ side \in Cardinals
  BY DEF Fifos
<1>2. /\ Popped(x) \in 0 .. Len(fifo[x]) /\ Len(fifo[x]) \in Nat
      /\ M = {} => Len(fifo'[x]) = Len(fifo[x]) - Popped(x)
      /\ M # {} => /\ Len(fifo'[x]) = Len(fifo[x]) - Popped(x) + 1
                   /\ fifo'[x][Len(fifo'[x])] \in M
      /\ \A j \in 1 .. Len(fifo[x]) - Popped(x) :
           /\ j + Popped(x) \in 1 .. Len(fifo[x])
           /\ fifo'[x][j] = fifo[x][j + Popped(x)]
  BY PlacesAfterClock
<1>3. CASE k \in 1 .. Len(fifo[x]) - Popped(x)
  BY <1>2, <1>3 DEF Stays
<1>4. CASE k \notin 1 .. Len(fifo[x]) - Popped(x)
  <2>1. M # {} /\ k = Len(fifo'[x]) /\ m \in M
    <3> HIDE DEF M
    <3>. QED BY <1>2, <1>4
  <2>2. PICK a \in Arriving(t, side, S) :
          m = [a EXCEPT !.next = IF c = "LOCAL" THEN a.next
                                 ELSE NextTileFifoArb(t, c, a.flow[2])]
    BY <2>1 DEF Allocated
  <2>3. a \in Transactions
    BY <1>1, ArrivingTyped
  <2>4. m.flow = a.flow /\ m.num = a.num
    <3> HIDE DEF m
    <3>. QED BY <2>2, <2>3 DEF Transactions
  <2>5. CASE side = "LOCAL"
    <3>1. PICK f \in S : f[1] = t /\ a = [flow |-> f, num |-> sent[f] + 1, next |-> PortAt(t, f[2])]
      BY <2>5 DEF Arriving
    <3>2. a.flow = f /\ a.num = sent[f] + 1
      BY <3>1
    <3>. QED BY <2>1, <2>4, <2>5, <3>1, <3>2 DEF Starts
  <2>6. CASE side \in Directions
    <3>1. /\ NextTile(t, side) \in Tiles
          /\ a \in WinnerReq(NextTile(t, side), Opposite(side))
      BY <2>6, CardinalsFacts DEF Arriving
    <3>2. /\ Opposite(side) \in Cardinals /\ Opposite(side) # "LOCAL"
          /\ NextTile(NextTile(t, side), Opposite(side)) = t
          /\ Opposite(Opposite(side)) = side
      BY <1>1, <2>6, ThereAndBack, CardinalsFacts
    <3>3. PICK y \in Fifos :
            /\ y[1] = NextTile(t, side) /\ y[2] = Opposite(side)
            /\ Popped(y) = 1 /\ 1 \in 1 .. Len(fifo[y]) /\ a = fifo[y][1]
      BY <3>1, <3>2, ReqIsPopped
    <3>4. Comes(x, k, y)
      BY <2>1, <2>4, <3>2, <3>3 DEF Comes
    <3>. QED BY <3>4
  <2>. QED BY <1>1, <2>5, <2>6, CardinalsFacts
<1>. QED BY <1>3, <1>4

-------------------------------------------------------------------------------
(* Each flow is a queue laid out along its route.                          *)

(* A waiting transaction is on the route of its flow, in the FIFO of the   *)
(* side on which the route enters the tile.                                *)
KeepsRoute ==
  \A x \in Fifos : \A k \in 1 .. Len(fifo[x]) :
    LET f == fifo[x][k].flow IN OnRoute(x[1], f) /\ x[3] = EntrySide(x[1], f)

(* What waits was sent and is not received yet.                            *)
NoneInvented ==
  /\ \A f \in Flows : Len(received[f]) <= sent[f]
  /\ \A x \in Fifos : \A k \in 1 .. Len(fifo[x]) :
       LET f == fifo[x][k].flow IN fifo[x][k].num \in Len(received[f]) + 1 .. sent[f]

(* Place k of FIFO x is closer to tile dst than place j of FIFO y.         *)
Ahead(x, k, y, j, dst) ==
  Hops(x[1], dst) < Hops(y[1], dst) \/ (x = y /\ k < j)

(* The transactions of a flow follow one another in the order of sending.  *)
InOrder ==
  \A x, y \in Fifos : \A k \in 1 .. Len(fifo[x]) : \A j \in 1 .. Len(fifo[y]) :
    /\ fifo[x][k].flow = fifo[y][j].flow
    /\ Ahead(x, k, y, j, fifo[x][k].flow[2])
    => fifo[x][k].num < fifo[y][j].num

(* What was sent and is not received yet is waiting somewhere.             *)
NoneLost ==
  \A f \in Flows : \A n \in Len(received[f]) + 1 .. sent[f] :
    \E x \in Fifos : \E k \in 1 .. Len(fifo[x]) :
      fifo[x][k].flow = f /\ fifo[x][k].num = n

FlowInv == IInv /\ KeepsRoute /\ NoneInvented /\ InOrder /\ NoneLost

LEMMA WaitingTyped ==
  ASSUME TypeOK, NEW x \in Fifos, NEW k \in 1 .. Len(fifo[x])
  PROVE  /\ fifo[x][k] \in Transactions /\ fifo[x][k] \in Waiting(x)
         /\ fifo[x][k].flow \in Flows
         /\ fifo[x][k].num \in Nat /\ sent[fifo[x][k].flow] \in Nat
         /\ x[1] \in Tiles /\ x[2] \in Cardinals /\ x[3] \in Cardinals
         /\ x = <<x[1], x[2], x[3]>>
<1>1. fifo[x] \in Seq(Transactions)
  BY DEF TypeOK
<1>2. fifo[x][k] \in Transactions
  BY <1>1, ElementOfSeq
<1>3. fifo[x][k].flow \in Flows /\ fifo[x][k].num \in Nat
  BY <1>2 DEF Transactions
<1>. QED BY <1>2, <1>3 DEF Waiting, Fifos, TypeOK

LEMMA WaitingRouted ==
  ASSUME IInv, NEW x \in Fifos, NEW k \in 1 .. Len(fifo[x])
  PROVE  /\ x[2] = PortAt(x[1], fifo[x][k].flow[2])
         /\ fifo[x][k].next = IF x[2] = "LOCAL" THEN "LOCAL"
                              ELSE NextTileFifoArb(x[1], x[2], fifo[x][k].flow[2])
BY WaitingTyped DEF IInv, RoutedRight

(* A transaction that came from another tile made one hop of its route.    *)
LEMMA OneHop ==
  ASSUME IInv, KeepsRoute, NEW x \in Fifos, NEW k, NEW y \in Fifos, Comes(x, k, y),
         NEW f, f = fifo[y][1].flow
  PROVE  /\ f \in Flows /\ OnRoute(x[1], f) /\ x[3] = EntrySide(x[1], f)
         /\ Hops(y[1], f[2]) = Hops(x[1], f[2]) + 1
<1>1. /\ 1 \in 1 .. Len(fifo[y]) /\ y[2] # "LOCAL"
      /\ x[1] = NextTile(y[1], y[2]) /\ x[3] = Opposite(y[2])
  BY DEF Comes
<1>2. f \in Flows /\ y[1] \in Tiles
  BY <1>1, WaitingTyped DEF IInv
<1>3. OnRoute(y[1], f) /\ y[2] = PortAt(y[1], f[2])
  BY <1>1, WaitingRouted DEF KeepsRoute
<1>. QED BY <1>1, <1>2, <1>3, RouteStep

(* The transactions of a flow at the same distance are in the same FIFO.   *)
LEMMA OneFifoPerHop ==
  ASSUME IInv, KeepsRoute, NEW x \in Fifos, NEW y \in Fifos,
         NEW k \in 1 .. Len(fifo[x]), NEW j \in 1 .. Len(fifo[y]),
         NEW f, f = fifo[x][k].flow, f = fifo[y][j].flow,
         Hops(x[1], f[2]) = Hops(y[1], f[2])
  PROVE  x = y
<1>1. /\ f \in Flows /\ x[1] \in Tiles /\ y[1] \in Tiles
      /\ x = <<x[1], x[2], x[3]>> /\ y = <<y[1], y[2], y[3]>>
  BY WaitingTyped DEF IInv
<1>2. /\ OnRoute(x[1], f) /\ x[3] = EntrySide(x[1], f)
      /\ OnRoute(y[1], f) /\ y[3] = EntrySide(y[1], f)
  BY DEF KeepsRoute
<1>3. x[2] = PortAt(x[1], f[2]) /\ y[2] = PortAt(y[1], f[2])
  BY WaitingRouted
<1>4. x[1] = y[1]
  BY <1>1, <1>2, OneTilePerHop
<1>. QED BY <1>1, <1>2, <1>3, <1>4

(* A transaction at the head of a FIFO of the local port is the first of   *)
(* its flow, and its number is the next one to receive.                    *)
LEMMA HeadIsNext ==
  ASSUME FlowInv, NEW y \in Fifos, y[2] = "LOCAL", 1 \in 1 .. Len(fifo[y]),
         NEW f, f = fifo[y][1].flow
  PROVE  /\ y[1] = f[2]
         /\ fifo[y][1].num = Len(received[f]) + 1 /\ Len(received[f]) < sent[f]
         /\ \A x \in Fifos : \A k \in 1 .. Len(fifo[x]) :
              fifo[x][k].flow = f /\ ~(x = y /\ k = 1)
                => fifo[x][k].num > fifo[y][1].num
<1> USE DEF FlowInv
<1>1. f \in Flows /\ y[1] \in Tiles /\ fifo[y][1].num \in Nat /\ sent[f] \in Nat
  BY WaitingTyped DEF IInv
<1>2. PortAt(y[1], f[2]) = "LOCAL"
  BY WaitingRouted
<1>3. y[1] = f[2] /\ Hops(y[1], f[2]) = 0
  BY <1>1, <1>2, FlowEnds, LocalAtDestination
<1>4. ASSUME NEW x \in Fifos, NEW k \in 1 .. Len(fifo[x]),
             fifo[x][k].flow = f, ~(x = y /\ k = 1)
      PROVE  fifo[y][1].num < fifo[x][k].num
  <2>1. Hops(x[1], f[2]) \in Nat
    BY <1>1, FlowEnds, HopsIsNat, WaitingTyped DEF IInv
  <2>2. CASE Hops(x[1], f[2]) = 0
    <3>1. x = y
      BY <1>3, <1>4, <2>2, OneFifoPerHop
    <3>2. 1 < k
      BY <1>4, <3>1
    <3>. QED BY <1>4, <3>1, <3>2 DEF InOrder, Ahead
  <2>3. CASE Hops(x[1], f[2]) # 0
    <3>1. Hops(y[1], f[2]) < Hops(x[1], f[2])
      BY <1>3, <2>1, <2>3
    <3>. QED BY <1>4, <3>1 DEF InOrder, Ahead
  <2>. QED BY <2>2, <2>3
<1>5. Len(received[f]) \in Nat
  BY <1>1 DEF IInv, TypeOK
<1>6. fifo[y][1].num \in Len(received[f]) + 1 .. sent[f]
  BY DEF NoneInvented
<1>7. PICK x \in Fifos :
        \E k \in 1 .. Len(fifo[x]) :
          fifo[x][k].flow = f /\ fifo[x][k].num = Len(received[f]) + 1
  <2>1. Len(received[f]) + 1 \in Len(received[f]) + 1 .. sent[f]
    BY <1>1, <1>5, <1>6
  <2>. QED BY <1>1, <2>1 DEF NoneLost
<1>8. fifo[y][1].num = Len(received[f]) + 1
  <2> PICK k \in 1 .. Len(fifo[x]) :
        fifo[x][k].flow = f /\ fifo[x][k].num = Len(received[f]) + 1
    BY <1>7
  <2>1. CASE x = y /\ k = 1
    BY <1>7, <2>1
  <2>2. CASE ~(x = y /\ k = 1)
    BY <1>1, <1>4, <1>5, <1>6, <1>7, <2>2
  <2>. QED BY <2>1, <2>2
<1>9. Len(received[f]) < sent[f]
  BY <1>1, <1>5, <1>6
<1>. QED BY <1>3, <1>4, <1>8, <1>9

(* What a flow receives in a cycle.                                        *)
Handed(f) == {m \in WinnerReq(f[2], "LOCAL") : m.flow = f}

LEMMA ReceivedAfterClock ==
  ASSUME FlowInv, NEW f \in Flows, NEW S \in SUBSET Flows, Clock(S)
  PROVE  /\ Handed(f) = {} => received'[f] = received[f]
         /\ Handed(f) # {} =>
              /\ received'[f] = Append(received[f], Len(received[f]) + 1)
              /\ Len(received[f]) < sent[f]
              /\ \E y \in Fifos : /\ y[2] = "LOCAL" /\ Popped(y) = 1
                                  /\ 1 \in 1 .. Len(fifo[y]) /\ fifo[y][1].flow = f
<1>1. received'[f] = IF Handed(f) = {} THEN received[f]
                     ELSE Append(received[f], (CHOOSE m \in Handed(f) : TRUE).num)
  BY DEF Clock, Handed
<1>2. ASSUME Handed(f) # {}
      PROVE  /\ received'[f] = Append(received[f], Len(received[f]) + 1)
             /\ Len(received[f]) < sent[f]
             /\ \E y \in Fifos : /\ y[2] = "LOCAL" /\ Popped(y) = 1
                                 /\ 1 \in 1 .. Len(fifo[y]) /\ fifo[y][1].flow = f
  <2>1. PICK m \in Handed(f) : received'[f] = Append(received[f], m.num)
    BY <1>1, <1>2
  <2>2. m \in WinnerReq(f[2], "LOCAL") /\ m.flow = f
    BY DEF Handed
  <2>3. PICK y \in Fifos : /\ y[1] = f[2] /\ y[2] = "LOCAL" /\ Popped(y) = 1
                           /\ 1 \in 1 .. Len(fifo[y]) /\ m = fifo[y][1]
    BY <2>2, FlowEnds, CardinalsFacts, ReqIsPopped DEF FlowInv, IInv
  <2>4. m.num = Len(received[f]) + 1 /\ Len(received[f]) < sent[f]
    BY <2>2, <2>3, HeadIsNext
  <2>. QED BY <2>1, <2>2, <2>3, <2>4
<1>. QED BY <1>1, <1>2

LEMMA LenReceivedAfterClock ==
  ASSUME FlowInv, NEW f \in Flows, NEW S \in SUBSET Flows, Clock(S)
  PROVE  /\ Len(received[f]) \in Nat /\ sent[f] \in Nat
         /\ sent'[f] = IF f \in S THEN sent[f] + 1 ELSE sent[f]
         /\ Len(received[f]) <= sent[f]
         /\ Handed(f) = {} => Len(received'[f]) = Len(received[f])
         /\ Handed(f) # {} => /\ Len(received'[f]) = Len(received[f]) + 1
                             /\ Len(received[f]) < sent[f]
<1>1. received[f] \in Seq(Nat) /\ sent[f] \in Nat
  BY DEF FlowInv, IInv, TypeOK
<1>2. Len(received[f]) \in Nat /\ Len(received[f]) + 1 \in Nat
  BY <1>1
<1>3. Len(Append(received[f], Len(received[f]) + 1)) = Len(received[f]) + 1
  BY <1>1, <1>2, AppendProperties
<1>4. sent'[f] = IF f \in S THEN sent[f] + 1 ELSE sent[f]
  BY DEF Clock
<1>5. Len(received[f]) <= sent[f]
  BY DEF FlowInv, NoneInvented
<1>. QED BY <1>1, <1>2, <1>3, <1>4, <1>5, ReceivedAfterClock

LEMMA StepKeepsRoute ==
  ASSUME FlowInv, NEW S \in SUBSET Flows, Clock(S)
  PROVE  KeepsRoute'
<1> SUFFICES ASSUME NEW x \in Fifos, NEW k \in 1 .. Len(fifo'[x])
             PROVE  LET f == fifo'[x][k].flow IN OnRoute(x[1], f) /\ x[3] = EntrySide(x[1], f)
  BY DEF KeepsRoute
<1>1. CASE Stays(x, k)
  BY <1>1 DEF Stays, FlowInv, KeepsRoute
<1>2. ASSUME NEW y \in Fifos, Comes(x, k, y)
      PROVE  LET f == fifo'[x][k].flow IN OnRoute(x[1], f) /\ x[3] = EntrySide(x[1], f)
  <2>1. fifo'[x][k].flow = fifo[y][1].flow
    BY <1>2 DEF Comes
  <2>. QED BY <1>2, <2>1, OneHop DEF FlowInv
<1>3. CASE Starts(x, k, S)
  BY <1>3, RouteStart DEF Starts
<1>. QED BY <1>1, <1>2, <1>3, Origin DEF FlowInv, IInv

LEMMA StepNoneInvented ==
  ASSUME FlowInv, NEW S \in SUBSET Flows, Clock(S)
  PROVE  NoneInvented'
<1>1. ASSUME NEW f \in Flows PROVE Len(received'[f]) <= sent'[f]
  BY LenReceivedAfterClock
<1>2. ASSUME NEW x \in Fifos, NEW k \in 1 .. Len(fifo'[x])
      PROVE  LET f == fifo'[x][k].flow
             IN  fifo'[x][k].num \in Len(received'[f]) + 1 .. sent'[f]
  <2> DEFINE f == fifo'[x][k].flow
             n == fifo'[x][k].num
  <2>1. ASSUME NEW z \in Fifos, NEW i \in 1 .. Len(fifo[z]), ~(z[2] = "LOCAL" /\ Popped(z) = 1 /\ i = 1),
               f = fifo[z][i].flow, n = fifo[z][i].num
        PROVE  n \in Len(received'[f]) + 1 .. sent'[f]
    <3> HIDE DEF f, n
    <3>1. f \in Flows /\ n \in Nat
      BY <2>1, WaitingTyped DEF FlowInv, IInv
    <3>2. n \in Len(received[f]) + 1 .. sent[f]
      BY <2>1 DEF FlowInv, NoneInvented
    <3>3. /\ Len(received[f]) \in Nat /\ sent[f] \in Nat
          /\ sent'[f] = IF f \in S THEN sent[f] + 1 ELSE sent[f]
          /\ Handed(f) = {} => Len(received'[f]) = Len(received[f])
          /\ Handed(f) # {} => Len(received'[f]) = Len(received[f]) + 1
      BY <3>1, LenReceivedAfterClock
    <3>4. CASE Handed(f) = {}
      BY <3>1, <3>2, <3>3, <3>4
    <3>5. CASE Handed(f) # {}
      <4>1. PICK y \in Fifos : /\ y[2] = "LOCAL" /\ Popped(y) = 1
                               /\ 1 \in 1 .. Len(fifo[y]) /\ fifo[y][1].flow = f
        BY <3>1, <3>5, ReceivedAfterClock
      <4>2. fifo[y][1].num = Len(received[f]) + 1 /\ n > fifo[y][1].num
        BY <2>1, <4>1, HeadIsNext
      <4>. QED BY <3>1, <3>2, <3>3, <3>5, <4>2
    <3>. QED BY <3>4, <3>5
  <2>2. CASE Stays(x, k)
    <3>1. k + Popped(x) \in 1 .. Len(fifo[x]) /\ ~(Popped(x) = 1 /\ k + Popped(x) = 1)
      BY <2>2 DEF Stays
    <3>. QED BY <2>1, <2>2, <3>1 DEF Stays
  <2>3. ASSUME NEW y \in Fifos, Comes(x, k, y)
        PROVE  n \in Len(received'[f]) + 1 .. sent'[f]
    BY <2>1, <2>3 DEF Comes
  <2>4. CASE Starts(x, k, S)
    <3>1. f \in S /\ n = sent[f] + 1
      BY <2>4 DEF Starts
    <3> HIDE DEF f, n
    <3>2. /\ Len(received[f]) \in Nat /\ sent[f] \in Nat /\ sent'[f] = sent[f] + 1
          /\ Len(received[f]) <= sent[f]
          /\ Handed(f) = {} => Len(received'[f]) = Len(received[f])
          /\ Handed(f) # {} => /\ Len(received'[f]) = Len(received[f]) + 1
                              /\ Len(received[f]) < sent[f]
      BY <3>1, LenReceivedAfterClock
    <3>3. Len(received'[f]) \in Nat /\ Len(received'[f]) <= sent[f]
      BY <3>2
    <3>4. sent[f] + 1 \in Len(received'[f]) + 1 .. sent[f] + 1
      BY <3>2, <3>3
    <3>5. n \in Len(received'[f]) + 1 .. sent'[f]
      BY <3>1, <3>2, <3>4
    <3>. QED BY <3>5 DEF f, n
  <2>. QED BY <2>2, <2>3, <2>4, Origin DEF FlowInv, IInv
<1>. QED BY <1>1, <1>2 DEF NoneInvented

LEMMA StepInOrder ==
  ASSUME FlowInv, NEW S \in SUBSET Flows, Clock(S)
  PROVE  InOrder'
<1> SUFFICES ASSUME NEW x \in Fifos, NEW y \in Fifos,
                    NEW k \in 1 .. Len(fifo'[x]), NEW j \in 1 .. Len(fifo'[y]),
                    NEW f, f = fifo'[x][k].flow, f = fifo'[y][j].flow,
                    Ahead(x, k, y, j, f[2])
             PROVE  fifo'[x][k].num < fifo'[y][j].num
  BY DEF InOrder, Ahead
<1> USE DEF FlowInv
<1>1. TypeOK /\ IInv /\ KeepsRoute
  BY DEF IInv
<1>2. OnRoute(x[1], f) /\ OnRoute(y[1], f) /\ x[1] \in Tiles /\ y[1] \in Tiles
  BY StepKeepsRoute DEF KeepsRoute, Fifos
<1>3. f \in Flows
  <2>1. ASSUME NEW i, Stays(x, i), f = fifo'[x][i].flow PROVE f \in Flows
    BY <1>1, <2>1, WaitingTyped DEF Stays
  <2>2. ASSUME NEW z \in Fifos, Comes(x, k, z) PROVE f \in Flows
    BY <1>1, <2>2, OneHop DEF Comes
  <2>3. CASE Starts(x, k, S)
    BY <2>3 DEF Starts
  <2>. QED BY <1>1, <2>1, <2>2, <2>3, Origin
<1>4. Hops(x[1], f[2]) \in Nat /\ Hops(y[1], f[2]) \in Nat /\ Hops(f[1], f[2]) \in Nat
  BY <1>2, <1>3, FlowEnds, HopsIsNat
<1>5. Hops(x[1], f[2]) <= Hops(f[1], f[2]) /\ Hops(y[1], f[2]) <= Hops(f[1], f[2])
  BY <1>2, <1>3, SourceIsFarthest
<1>6. k \in Int /\ j \in Int /\ Len(fifo'[y]) \in Int /\ k >= 1 /\ j >= 1 /\ j <= Len(fifo'[y])
  <2>1. Len(fifo'[y]) \in Nat
    BY <1>1, PlacesAfterClock
  <2>. QED BY <2>1
(* A transaction that has just entered x at its tail is ahead of y only by *)
(* the distance.                                                           *)
<1>7. ASSUME k = Len(fifo'[x]) PROVE Hops(x[1], f[2]) < Hops(y[1], f[2])
  BY <1>6, <1>7 DEF Ahead
<1>8. CASE Starts(x, k, S)
  <2>1. x[1] = f[1] /\ k = Len(fifo'[x])
    BY <1>8 DEF Starts
  <2>. QED BY <1>4, <1>5, <1>7, <2>1
<1>9. ASSUME NEW z \in Fifos, NEW i \in 1 .. Len(fifo[z]),
             fifo'[x][k].num = fifo[z][i].num, fifo[z][i].flow = f,
             NEW d \in 0 .. 1, d = Popped(z),
             \/ z = x /\ i = k + d
             \/ k = Len(fifo'[x]) /\ i = 1 /\ d = 1 /\ Hops(z[1], f[2]) = Hops(x[1], f[2]) + 1
      PROVE  fifo'[x][k].num < fifo'[y][j].num
  <2>1. fifo[z][i].num \in Nat /\ i \in Int
    BY <1>1, WaitingTyped
  <2>2. Hops(z[1], f[2]) \in Nat
    BY <1>3, FlowEnds, HopsIsNat DEF Fifos
  <2>3. CASE Stays(y, j)
    <3> DEFINE jj == j + Popped(y)
    <3>1. jj \in 1 .. Len(fifo[y]) /\ fifo'[y][j] = fifo[y][jj]
      BY <2>3 DEF Stays
    <3>2. fifo[y][jj].flow = f
      BY <3>1
    <3>3. Ahead(z, i, y, jj, f[2])
      <4>1. CASE z = x /\ i = k + d
        BY <1>6, <1>9, <4>1 DEF Ahead
      <4>2. CASE k = Len(fifo'[x]) /\ i = 1 /\ d = 1 /\ Hops(z[1], f[2]) = Hops(x[1], f[2]) + 1
        <5>1. Hops(x[1], f[2]) < Hops(y[1], f[2])
          BY <1>7, <4>2
        <5>2. CASE Hops(z[1], f[2]) < Hops(y[1], f[2])
          BY <5>2 DEF Ahead
        <5>3. CASE Hops(z[1], f[2]) = Hops(y[1], f[2])
          <6>1. z = y
            BY <1>1, <1>9, <3>1, <3>2, <5>3, OneFifoPerHop
          <6>2. Popped(y) = 1
            BY <1>9, <4>2, <6>1
          <6>3. 1 < jj
            BY <1>6, <6>2
          <6>. QED BY <4>2, <6>1, <6>3 DEF Ahead
        <5>. QED BY <1>4, <2>2, <4>2, <5>1, <5>2, <5>3
      <4>. QED BY <1>9, <4>1, <4>2
    <3> HIDE DEF jj
    <3>4. fifo[z][i].num < fifo[y][jj].num
      BY <1>9, <3>1, <3>2, <3>3 DEF InOrder
    <3>. QED BY <1>9, <3>1, <3>4
  <2>4. ASSUME NEW w \in Fifos, Comes(y, j, w)
        PROVE  fifo'[x][k].num < fifo'[y][j].num
    <3>1. /\ 1 \in 1 .. Len(fifo[w]) /\ fifo[w][1].flow = f
          /\ fifo'[y][j].num = fifo[w][1].num
      BY <2>4 DEF Comes
    <3>2. Hops(w[1], f[2]) = Hops(y[1], f[2]) + 1
      BY <1>1, <2>4, <3>1, OneHop
    <3>3. Hops(z[1], f[2]) < Hops(w[1], f[2])
      <4>1. Hops(x[1], f[2]) <= Hops(y[1], f[2])
        BY <1>4 DEF Ahead
      <4>2. CASE z = x
        BY <1>4, <3>2, <4>1, <4>2
      <4>3. CASE k = Len(fifo'[x]) /\ Hops(z[1], f[2]) = Hops(x[1], f[2]) + 1
        BY <1>4, <1>7, <3>2, <4>3
      <4>. QED BY <1>9, <4>2, <4>3
    <3>4. fifo[z][i].num < fifo[w][1].num
      BY <1>9, <3>1, <3>3 DEF InOrder, Ahead
    <3>. QED BY <1>9, <3>1, <3>4
  <2>5. CASE Starts(y, j, S)
    <3>1. fifo'[y][j].num = sent[f] + 1
      BY <2>5 DEF Starts
    <3>2. fifo[z][i].num \in Len(received[f]) + 1 .. sent[f] /\ sent[f] \in Nat
      BY <1>3, <1>9 DEF NoneInvented, IInv, TypeOK
    <3>3. fifo[z][i].num < sent[f] + 1
      BY <2>1, <3>2
    <3>. QED BY <1>9, <3>1, <3>3
  <2>. QED BY <1>1, <2>3, <2>4, <2>5, Origin
<1>10. CASE Stays(x, k)
  <2>1. /\ k + Popped(x) \in 1 .. Len(fifo[x])
        /\ fifo'[x][k] = fifo[x][k + Popped(x)] /\ Popped(x) \in 0 .. 1
    BY <1>10 DEF Stays, Popped
  <2>. QED BY <1>9, <2>1
<1>11. ASSUME NEW z \in Fifos, Comes(x, k, z)
       PROVE  fifo'[x][k].num < fifo'[y][j].num
  <2>1. /\ 1 \in 1 .. Len(fifo[z]) /\ fifo[z][1].flow = f
        /\ fifo'[x][k].num = fifo[z][1].num /\ Popped(z) = 1 /\ k = Len(fifo'[x])
    BY <1>11 DEF Comes
  <2>2. Hops(z[1], f[2]) = Hops(x[1], f[2]) + 1
    BY <1>1, <1>11, <2>1, OneHop
  <2>. QED BY <1>9, <2>1, <2>2
<1>. QED BY <1>1, <1>8, <1>10, <1>11, Origin

(* What is pushed into a FIFO, its lookup refreshed, is what arrived.      *)
LEMMA PushedArrived ==
  ASSUME TypeOK, NEW z \in Fifos, NEW S \in SUBSET Flows, Clock(S), z[2] # z[3],
         NEW a \in Arriving(z[1], z[3], S), a.next = z[2]
  PROVE  \E b \in Arriving(z[1], z[3], S) :
           /\ Len(fifo'[z]) \in 1 .. Len(fifo'[z])
           /\ fifo'[z][Len(fifo'[z])].flow = b.flow
           /\ fifo'[z][Len(fifo'[z])].num = b.num
<1> DEFINE M == Allocated(z[1], z[2], z[3], S)
           Refreshed(m) == [m EXCEPT !.next = IF z[2] = "LOCAL" THEN m.next
                                              ELSE NextTileFifoArb(z[1], z[2], m.flow[2])]
<1>1. M = {Refreshed(m) : m \in {e \in Arriving(z[1], z[3], S) : e.next = z[2]}}
  BY DEF Allocated
<1>2. Refreshed(a) \in M
  BY <1>1
<1>3. Len(fifo'[z]) \in 1 .. Len(fifo'[z]) /\ fifo'[z][Len(fifo'[z])] \in M
  <2>1. M # {}
    BY <1>2
  <2> HIDE DEF M
  <2>2. /\ Popped(z) \in 0 .. Len(fifo[z]) /\ Len(fifo[z]) \in Nat
        /\ M # {} => /\ Len(fifo'[z]) = Len(fifo[z]) - Popped(z) + 1
                     /\ fifo'[z][Len(fifo'[z])] \in M
    BY PlacesAfterClock DEF M
  <2>. QED BY <2>1, <2>2
<1>4. PICK b \in Arriving(z[1], z[3], S) : fifo'[z][Len(fifo'[z])] = Refreshed(b)
  BY <1>1, <1>3
<1>5. b \in Transactions
  BY ArrivingTyped DEF Fifos
<1>6. Refreshed(b).flow = b.flow /\ Refreshed(b).num = b.num
  BY <1>5 DEF Transactions
<1>. QED BY <1>3, <1>4, <1>6

(* A transaction that leaves a FIFO for another tile is in one there.      *)
LEMMA GoesOn ==
  ASSUME IInv, NEW x \in Fifos, NEW S \in SUBSET Flows, Clock(S),
         Popped(x) = 1, x[2] # "LOCAL"
  PROVE  \E z \in Fifos : \E j \in 1 .. Len(fifo'[z]) :
           /\ fifo'[z][j].flow = fifo[x][1].flow
           /\ fifo'[z][j].num = fifo[x][1].num
<1> DEFINE h == fifo[x][1]
           n == NextTile(x[1], x[2])
           side == Opposite(x[2])
           z == <<n, h.next, side>>
<1>1. TypeOK
  BY DEF IInv
<1>2. 1 \in 1 .. Len(fifo[x]) /\ h \in WinnerReq(x[1], x[2])
  BY <1>1, PoppedIsReq
<1>3. /\ h \in Transactions /\ h.flow \in Flows /\ h.flow[2] \in Tiles
      /\ x[1] \in Tiles /\ x[2] \in Directions
  BY <1>1, <1>2, WaitingTyped, FlowEnds, CardinalsFacts
<1>4. x[2] = PortAt(x[1], h.flow[2]) /\ h.next = NextTileFifoArb(x[1], x[2], h.flow[2])
  BY <1>2, WaitingRouted
<1>5. n \in Tiles /\ NextTile(n, side) = x[1] /\ Opposite(side) = x[2] /\ side \in Directions
  BY <1>3, <1>4, StepTowards, ThereAndBack
<1>6. h.next # side
  BY <1>3, <1>4, PortAtNeverBack
<1>7. h.next \in Cardinals
  BY <1>3 DEF Transactions
<1>8. Arriving(n, side, S) = WinnerReq(x[1], x[2])
  BY <1>3, <1>5, CardinalsFacts DEF Arriving
<1> HIDE DEF h, n, side
<1>9. z \in Fifos /\ z[1] = n /\ z[2] = h.next /\ z[3] = side
  BY <1>5, <1>7, CardinalsFacts DEF Fifos
<1> HIDE DEF z
<1>10. PICK b \in Arriving(n, side, S) :
         /\ Len(fifo'[z]) \in 1 .. Len(fifo'[z])
         /\ fifo'[z][Len(fifo'[z])].flow = b.flow
         /\ fifo'[z][Len(fifo'[z])].num = b.num
  BY <1>1, <1>2, <1>6, <1>8, <1>9, PushedArrived
<1>11. b = h
  BY <1>2, <1>3, <1>8, <1>10, OneReq, CardinalsFacts
<1>. QED BY <1>9, <1>10, <1>11 DEF h

(* A transaction sent in a cycle is in a FIFO of the tile of its source.   *)
LEMMA SetsOut ==
  ASSUME IInv, NEW S \in SUBSET Flows, MaySend(S), Clock(S), NEW f \in S
  PROVE  \E z \in Fifos : \E j \in 1 .. Len(fifo'[z]) :
           fifo'[z][j].flow = f /\ fifo'[z][j].num = sent[f] + 1
<1> DEFINE c == PortAt(f[1], f[2])
           a == [flow |-> f, num |-> sent[f] + 1, next |-> c]
           z == <<f[1], c, "LOCAL">>
<1>1. TypeOK
  BY DEF IInv
<1>2. f[1] \in Tiles /\ c \in Cardinals /\ c # "LOCAL"
  BY FlowEnds, PortAtIsCardinal, LocalAtDestination
<1>3. Arriving(f[1], "LOCAL", S) = {[flow |-> g, num |-> sent[g] + 1, next |-> PortAt(f[1], g[2])] :
                                      g \in {e \in S : e[1] = f[1]}}
  BY DEF Arriving
<1>4. a \in Arriving(f[1], "LOCAL", S) /\ a.next = c
  BY <1>3
<1>5. ASSUME NEW b \in Arriving(f[1], "LOCAL", S)
      PROVE  b.flow = f /\ b.num = sent[f] + 1
  <2>1. PICK g \in S : g[1] = f[1] /\ b = [flow |-> g, num |-> sent[g] + 1, next |-> PortAt(f[1], g[2])]
    BY <1>3
  <2>2. g = f
    BY <2>1 DEF MaySend
  <2>. QED BY <2>1, <2>2
<1> HIDE DEF c, a
<1>6. z \in Fifos /\ z[1] = f[1] /\ z[2] = c /\ z[3] = "LOCAL"
  BY <1>2, CardinalsFacts DEF Fifos
<1> HIDE DEF z
<1>7. PICK b \in Arriving(f[1], "LOCAL", S) :
        /\ Len(fifo'[z]) \in 1 .. Len(fifo'[z])
        /\ fifo'[z][Len(fifo'[z])].flow = b.flow
        /\ fifo'[z][Len(fifo'[z])].num = b.num
  BY <1>1, <1>2, <1>4, <1>6, PushedArrived
<1>. QED BY <1>5, <1>6, <1>7

LEMMA StepNoneLost ==
  ASSUME FlowInv, NEW S \in SUBSET Flows, MaySend(S), Clock(S)
  PROVE  NoneLost'
<1> SUFFICES ASSUME NEW f \in Flows, NEW n \in Len(received'[f]) + 1 .. sent'[f]
             PROVE  \E x \in Fifos : \E k \in 1 .. Len(fifo'[x]) :
                      fifo'[x][k].flow = f /\ fifo'[x][k].num = n
  BY DEF NoneLost
<1>1. TypeOK /\ IInv
  BY DEF FlowInv, IInv
<1>2. /\ Len(received[f]) \in Nat /\ sent[f] \in Nat
      /\ sent'[f] = IF f \in S THEN sent[f] + 1 ELSE sent[f]
      /\ Handed(f) = {} => Len(received'[f]) = Len(received[f])
      /\ Handed(f) # {} => Len(received'[f]) = Len(received[f]) + 1
  BY LenReceivedAfterClock
<1>3. n \in Int /\ Len(received'[f]) < n /\ n <= sent'[f]
  BY <1>2
<1>4. CASE n > sent[f]
  <2>1. f \in S /\ n = sent[f] + 1
    BY <1>2, <1>3, <1>4
  <2>. QED BY <1>1, <2>1, SetsOut
<1>5. CASE ~(n > sent[f])
  <2>1. n \in Len(received[f]) + 1 .. sent[f]
    BY <1>2, <1>3, <1>5
  <2>2. PICK x \in Fifos : \E k \in 1 .. Len(fifo[x]) : fifo[x][k].flow = f /\ fifo[x][k].num = n
    BY <2>1 DEF FlowInv, NoneLost
  <2>3. PICK k \in 1 .. Len(fifo[x]) : fifo[x][k].flow = f /\ fifo[x][k].num = n
    BY <2>2
  <2>4. Len(fifo[x]) \in Nat /\ Popped(x) \in 0 .. 1 /\ Len(fifo'[x]) \in Nat
    <3>1. fifo'[x] \in Seq(Transactions) /\ Len(fifo[x]) \in Nat
      BY <1>1, PlacesAfterClock
    <3>. QED BY <3>1 DEF Popped
  <2>5. CASE k > Popped(x)
    <3> DEFINE j == k - Popped(x)
    <3>1. j \in 1 .. Len(fifo[x]) - Popped(x) /\ j + Popped(x) = k
      BY <2>4, <2>5
    <3>2. Len(fifo'[x]) >= Len(fifo[x]) - Popped(x)
      <4> DEFINE M == Allocated(x[1], x[2], x[3], S)
      <4>1. /\ M = {} => Len(fifo'[x]) = Len(fifo[x]) - Popped(x)
            /\ M # {} => Len(fifo'[x]) = Len(fifo[x]) - Popped(x) + 1
        BY <1>1, PlacesAfterClock
      <4> HIDE DEF M
      <4>. QED BY <2>4, <4>1
    <3>3. fifo'[x][j] = fifo[x][j + Popped(x)]
      BY <1>1, <3>1, PlacesAfterClock
    <3>4. j \in 1 .. Len(fifo'[x])
      BY <2>4, <3>1, <3>2
    <3> HIDE DEF j
    <3>. QED BY <2>3, <3>1, <3>3, <3>4
  <2>6. CASE ~(k > Popped(x))
    <3>1. k = 1 /\ Popped(x) = 1
      BY <2>4, <2>6
    <3>2. CASE x[2] = "LOCAL"
      <4>1. x[1] = f[2] /\ n = Len(received[f]) + 1
        BY <2>3, <3>1, <3>2, HeadIsNext
      <4>2. fifo[x][1] \in Handed(f)
        BY <1>1, <2>3, <3>1, <3>2, <4>1, PoppedIsReq DEF Handed
      <4>3. Len(received'[f]) = Len(received[f]) + 1
        BY <1>2, <4>2
      <4>. QED BY <1>2, <1>3, <4>1, <4>3
    <3>3. CASE x[2] # "LOCAL"
      BY <1>1, <2>3, <3>1, <3>3, GoesOn
    <3>. QED BY <3>2, <3>3
  <2>. QED BY <2>5, <2>6
<1>. QED BY <1>4, <1>5

LEMMA InitFlowInv == Init => FlowInv
<1> SUFFICES ASSUME Init PROVE FlowInv
  OBVIOUS
<1>1. IInv
  BY InitInv
<1>2. \A x \in Fifos : Len(fifo[x]) = 0
  BY DEF Init
<1>3. \A f \in Flows : Len(received[f]) = 0 /\ sent[f] = 0
  BY DEF Init
<1>4. KeepsRoute /\ NoneInvented /\ InOrder /\ NoneLost
  BY <1>2, <1>3 DEF KeepsRoute, NoneInvented, InOrder, NoneLost
<1>. QED BY <1>1, <1>4 DEF FlowInv

LEMMA StepFlowInv == FlowInv /\ [Next]_vars => FlowInv'
<1> SUFFICES ASSUME FlowInv, [Next]_vars PROVE FlowInv'
  OBVIOUS
<1>1. IInv'
  BY StepInv DEF FlowInv
<1>2. CASE UNCHANGED vars
  <2>1. fifo' = fifo /\ sent' = sent /\ received' = received
    BY <1>2 DEF vars
  <2>2. KeepsRoute' /\ NoneInvented'
    BY <2>1 DEF FlowInv, KeepsRoute, NoneInvented
  <2>3. InOrder'
    BY <2>1 DEF FlowInv, InOrder, Ahead
  <2>4. NoneLost'
    BY <2>1 DEF FlowInv, NoneLost
  <2>. QED BY <1>1, <2>2, <2>3, <2>4 DEF FlowInv
<1>3. CASE Next
  <2>1. PICK S \in SUBSET Flows : MaySend(S) /\ Clock(S)
    BY <1>3 DEF Next
  <2>. QED BY <1>1, <2>1, StepKeepsRoute, StepNoneInvented, StepInOrder, StepNoneLost DEF FlowInv
<1>. QED BY <1>2, <1>3

THEOREM FlowInvariance == Spec => []FlowInv
BY InitFlowInv, StepFlowInv, PTL DEF Spec

(* A transaction that was sent and not yet received is in one place of the *)
(* mesh, any other in none: nothing is lost and nothing is duplicated.     *)
THEOREM NothingLostOrDuplicated == Spec => []Conservation
<1>1. FlowInv => Conservation
  <2> SUFFICES ASSUME FlowInv, NEW f \in Flows, NEW n \in 1 .. MaxSent
               PROVE  Cardinality(Places(f, n)) =
                        IF n \in Len(received[f]) + 1 .. sent[f] THEN 1 ELSE 0
    BY DEF Conservation
  <2>1. ASSUME NEW p
        PROVE  p \in Places(f, n) <=>
                 \E x \in Fifos : \E k \in 1 .. Len(fifo[x]) :
                   p = <<x, k>> /\ fifo[x][k].flow = f /\ fifo[x][k].num = n
    BY DEF Places
  <2>2. CASE n \in Len(received[f]) + 1 .. sent[f]
    <3>1. PICK x \in Fifos : \E k \in 1 .. Len(fifo[x]) : fifo[x][k].flow = f /\ fifo[x][k].num = n
      BY <2>2 DEF FlowInv, NoneLost
    <3>2. PICK k \in 1 .. Len(fifo[x]) : fifo[x][k].flow = f /\ fifo[x][k].num = n
      BY <3>1
    <3>3. ASSUME NEW y \in Fifos, NEW j \in 1 .. Len(fifo[y]),
                 fifo[y][j].flow = f, fifo[y][j].num = n
          PROVE  y = x /\ j = k
      <4>1. ~Ahead(x, k, y, j, f[2]) /\ ~Ahead(y, j, x, k, f[2])
        BY <3>2, <3>3 DEF FlowInv, InOrder
      <4>2. Hops(x[1], f[2]) = Hops(y[1], f[2])
        <5>1. Hops(x[1], f[2]) \in Nat /\ Hops(y[1], f[2]) \in Nat
          BY FlowEnds, HopsIsNat DEF Fifos
        <5>. QED BY <4>1, <5>1 DEF Ahead
      <4>3. x = y
        BY <3>2, <3>3, <4>2, OneFifoPerHop DEF FlowInv
      <4>4. j = k
        BY <4>1, <4>3 DEF Ahead
      <4>. QED BY <4>3, <4>4
    <3>4. Places(f, n) = {<<x, k>>}
      BY <2>1, <3>2, <3>3
    <3>. QED BY <2>2, <3>4, FS_Singleton
  <2>3. CASE n \notin Len(received[f]) + 1 .. sent[f]
    <3>1. Places(f, n) = {}
      BY <2>1, <2>3 DEF FlowInv, NoneInvented
    <3>. QED BY <2>3, <3>1, FS_EmptySet
  <2>. QED BY <2>2, <2>3
<1>. QED BY <1>1, FlowInvariance, PTL

(* The mesh implements one reliable ordered channel per flow: whatever the *)
(* other flows do, the destination of a flow is handed its transactions    *)
(* 1, 2, ... in the order of sending, each once.                           *)
THEOREM FlowsAreChannels == Spec => ImplementsChannels
<1>1. Init => Abstract!Init
  BY DEF Init, Abstract!Init
<1>2. FlowInv /\ [Next]_vars => [Abstract!Next]_<<sent, received>>
  <2> SUFFICES ASSUME FlowInv, Next PROVE Abstract!Next
    BY DEF vars
  <2>1. PICK S \in SUBSET Flows : MaySend(S) /\ Clock(S)
    BY DEF Next
  <2>2. \A f \in Flows : sent'[f] # sent[f] <=> f \in S
    BY <2>1, LenReceivedAfterClock
  <2>3. Abstract!Senders = S
    BY <2>2 DEF Abstract!Senders
  <2>4. ASSUME NEW f \in Flows
        PROVE  received'[f] # received[f] <=> Handed(f) # {}
    <3>1. Len(received[f]) # Len(received[f]) + 1
      BY <2>1, LenReceivedAfterClock
    <3>. QED BY <2>1, <3>1, ReceivedAfterClock, LenReceivedAfterClock
  <2>5. Abstract!Receivers = {f \in Flows : Handed(f) # {}}
    BY <2>4 DEF Abstract!Receivers
  <2>6. Abstract!OnePerTile(Abstract!Senders, 1)
    BY <2>1, <2>3 DEF Abstract!OnePerTile, MaySend
  <2>7. Abstract!OnePerTile(Abstract!Receivers, 2)
    <3> SUFFICES ASSUME NEW f \in Flows, NEW g \in Flows, Handed(f) # {}, Handed(g) # {},
                        f[2] = g[2]
                 PROVE  f = g
      BY <2>5 DEF Abstract!OnePerTile
    <3>1. PICK m \in Handed(f) : TRUE
      OBVIOUS
    <3>2. PICK n \in Handed(g) : TRUE
      OBVIOUS
    <3>3. m = n
      BY FlowEnds, CardinalsFacts, OneReq DEF Handed
    <3>. QED BY <3>3 DEF Handed
  <2>8. sent' = [f \in Flows |-> IF f \in Abstract!Senders THEN sent[f] + 1 ELSE sent[f]]
    BY <2>1, <2>3 DEF Clock
  <2>9. received' = [f \in Flows |->
                       IF f \in Abstract!Receivers
                       THEN Append(received[f], Len(received[f]) + 1) ELSE received[f]]
    <3>1. received' = [f \in Flows |-> received'[f]]
      BY <2>1 DEF Clock
    <3>2. ASSUME NEW f \in Flows
          PROVE  received'[f] = IF f \in Abstract!Receivers
                                THEN Append(received[f], Len(received[f]) + 1) ELSE received[f]
      BY <2>1, <2>5, ReceivedAfterClock
    <3>. QED BY <3>1, <3>2
  <2>10. \A f \in Abstract!Receivers : Len(received[f]) < sent[f]
    BY <2>1, <2>5, ReceivedAfterClock
  <2>. QED BY <2>6, <2>7, <2>8, <2>9, <2>10 DEF Abstract!Next
<1>. QED BY <1>1, <1>2, FlowInvariance, PTL DEF Spec, ImplementsChannels, Abstract!Spec
===============================================================================

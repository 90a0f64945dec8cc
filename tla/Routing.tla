-------------------------------- MODULE Routing --------------------------------
(***************************************************************************)
(* Where a transaction goes in the mesh of tiles (source/fabric/router/    *)
(* next_tile_fifo_arb.sv and the wiring of source/fabric/fabric.sv).       *)
(* Columns and rows are numbered from 1; row 1 is the northern edge.       *)
(***************************************************************************)
EXTENDS Naturals

CONSTANTS COLS, ROWS

(* A nibble of the tile id holds a column or a row.                        *)
ASSUME MeshAssumption == COLS \in 1 .. 14 /\ ROWS \in 1 .. 14

Tiles == (1 .. COLS) \X (1 .. ROWS)
Col(t) == t[1]
Row(t) == t[2]

Directions == {"NORTH", "EAST", "SOUTH", "WEST"}
Cardinals == Directions \cup {"LOCAL"}

(* A transaction leaving in a direction enters the next tile on this side. *)
Opposite(c) ==
  IF c = "NORTH" THEN "SOUTH" ELSE IF c = "SOUTH" THEN "NORTH"
  ELSE IF c = "EAST" THEN "WEST" ELSE IF c = "WEST" THEN "EAST" ELSE "LOCAL"

(* next_tile_id, and the wires between tiles; it may lie off the mesh.     *)
NextTile(t, c) ==
  IF c = "NORTH" THEN <<Col(t), Row(t) - 1>>
  ELSE IF c = "SOUTH" THEN <<Col(t), Row(t) + 1>>
  ELSE IF c = "EAST" THEN <<Col(t) + 1, Row(t)>>
  ELSE IF c = "WEST" THEN <<Col(t) - 1, Row(t)>>
  ELSE t

(* The port by which tile t forwards a transaction for tile dst: first to  *)
(* the row, then to the column.                                            *)
PortAt(t, dst) ==
  IF Row(dst) < Row(t) THEN "NORTH"
  ELSE IF Row(dst) > Row(t) THEN "SOUTH"
  ELSE IF Col(dst) < Col(t) THEN "WEST"
  ELSE IF Col(dst) > Col(t) THEN "EAST"
  ELSE "LOCAL"

(* Mutant: the lookup is made for the tile after the next one.             *)
NextTileFifoArbTwoAhead(t, c, dst) == PortAt(NextTile(NextTile(t, c), c), dst)

(* next_tile_fifo_arb: the port the transaction will need in the tile it   *)
(* reaches when it leaves t by port c.                                     *)
NextTileFifoArb(t, c, dst) == PortAt(NextTile(t, c), dst)

(* The four FIFOs of the arbiter of port c are filled from these sides, in *)
(* the order in which router.sv connects them.                             *)
ClientSide(c, i) ==
  IF c = "NORTH" THEN <<"SOUTH", "EAST", "WEST", "LOCAL">>[i + 1]
  ELSE IF c = "EAST" THEN <<"NORTH", "SOUTH", "WEST", "LOCAL">>[i + 1]
  ELSE IF c = "SOUTH" THEN <<"NORTH", "EAST", "WEST", "LOCAL">>[i + 1]
  ELSE IF c = "WEST" THEN <<"NORTH", "EAST", "SOUTH", "LOCAL">>[i + 1]
  ELSE <<"NORTH", "EAST", "SOUTH", "WEST">>[i + 1]
================================================================================

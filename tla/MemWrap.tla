-------------------------------- MODULE MemWrap --------------------------------
(***************************************************************************)
(* The end point of the network in a tile (source/mini_core/               *)
(* mini_mem_wrap.sv) and the two last stages of the core it stalls         *)
(* (mini_core_ctrl.sv, mini_core_wb.sv).  The core reads and writes its    *)
(* own data memory, and other tiles through c2f_req_fifo; other tiles read *)
(* and write the data memory, their answers leaving through f2c_rsp_fifo.  *)
(* An arbiter lets one of the two FIFOs send per cycle.  One step is one   *)
(* rising clock edge.                                                      *)
(***************************************************************************)
EXTENDS Arbiter, FiniteSets

CONSTANTS
  Local,       \* addresses of words of the data memory of this tile
  BaseWord,    \* the address D_MEM_REGION_FLOOR_MINI, its first word
  Remote,      \* addresses of words of other tiles
  Program,     \* the memory operations the program of the core may contain
  StoreBurst,  \* bound: remote stores it may issue without a remote load
  Requestors,  \* the tiles that read this tile's memory
  ReadsAtOnce, \* bound: reads of this memory under way at the same time
  Accesses     \* what other tiles do to this tile's memory

(* An instruction as its last stages see it; NOP is one that leaves the    *)
(* memory alone, though its result is on the address wires.                *)
Operations == [kind : {"NOP", "LOAD", "STORE", "WHOAMI"}, addr : Local \cup Remote]

ASSUME AddressAssumption == Local \cap Remote = {} /\ Local # {}
ASSUME ProgramAssumption == Program # {} /\ Program \subseteq Operations
ASSUME BurstAssumption == StoreBurst \in Nat
ASSUME ReadersAssumption == IsFiniteSet(Requestors) /\ ReadsAtOnce \in Nat
ASSUME AccessAssumption == Accesses \subseteq [opcode : {"RD", "WR"}, addr : Local]

(* Words are named after where they come from: the data memory holds what  *)
(* the core or another tile wrote, a word of another tile is its address.  *)
Stored == {"core", "fabric"}
TileId == "tile id"
Zero == "zero"
Nothing == "nothing"
Words == Stored \cup Remote \cup {TileId, Zero}

NoTrans == [opcode |-> "NONE"]
Requests == [opcode : {"RD", "WR"}, addr : Remote]
Responses == [opcode : {"RD_RSP"}, to : Requestors, word : Stored \cup {Zero}]

VARIABLES
  OpQ103H, OpQ104H,           \* the operations in the two stages
  OutstandingReadReq,
  FabricDataRspQ504H,         \* FabricDataRspValid/DataQ504H: a word, or NoTrans
  WhoAmIReqQ104H,
  PreShiftDMemRdDataQ104H,    \* q_a, the core's read port of the memory
  d_mem,
  F2C_OutFabricQ504H,         \* the response read in the last cycle, or NoTrans
  f2c_array, f2c_rd, f2c_wr, f2c_count,  \* f2c_rsp_fifo
  c2f_array, c2f_rd, c2f_wr, c2f_count,  \* c2f_req_fifo
  enc_last_winner,
  fab_ready,                  \* all the ports of the router are ready
  pending,  \* the network: how many reads of each word it has to answer
  owed,     \* history: what to answer to each requestor, or Nothing
  due,      \* history: the word the load in stage 104 is to get
  burst     \* remote stores issued since the last remote load

f2c_rsp_fifo == INSTANCE Fifo WITH FIFO_DEPTH <- 2, Data <- Responses \cup {NoTrans},
  fifo_array <- f2c_array, rd_ptr <- f2c_rd, wr_ptr <- f2c_wr, count <- f2c_count
c2f_req_fifo == INSTANCE Fifo WITH FIFO_DEPTH <- 2, Data <- Requests \cup {NoTrans},
  fifo_array <- c2f_array, rd_ptr <- c2f_rd, wr_ptr <- c2f_wr, count <- c2f_count

core == <<OpQ103H, OpQ104H, OutstandingReadReq, FabricDataRspQ504H,
          WhoAmIReqQ104H, PreShiftDMemRdDataQ104H>>
f2c == <<F2C_OutFabricQ504H, f2c_array, f2c_rd, f2c_wr, f2c_count>>
c2f == <<c2f_array, c2f_rd, c2f_wr, c2f_count>>
vars == <<core, d_mem, f2c, c2f, enc_last_winner, fab_ready, pending,
          owed, due, burst>>
-------------------------------------------------------------------------------
(* The combinational signals.                                              *)
NonLocalDMemReqQ103H == OpQ103H.kind \in {"LOAD", "STORE"} /\ OpQ103H.addr \in Remote
SetOutstandingReadReqQ103H == OpQ103H.kind = "LOAD" /\ OpQ103H.addr \in Remote
LocalDMemWrEnQ103H == OpQ103H.kind = "STORE" /\ OpQ103H.addr \in Local
DMemReady == ~OutstandingReadReq /\ ~c2f_req_fifo!full

(* Mutant: requests are pushed while a read is outstanding.                *)
C2F_ReqValidUngated == NonLocalDMemReqQ103H

C2F_ReqValidQ103H == NonLocalDMemReqQ103H /\ ~OutstandingReadReq
C2F_ReqQ103H == [opcode |-> IF OpQ103H.kind = "STORE" THEN "WR" ELSE "RD",
                 addr |-> OpQ103H.addr]

(* Which FIFO sends in this cycle: 0 is f2c_rsp_fifo, 1 is c2f_req_fifo.   *)
valid_candidate ==
  IF fab_ready THEN {i \in {0, 1} : IF i = 0 THEN ~f2c_rsp_fifo!empty
                                    ELSE ~c2f_req_fifo!empty}
  ELSE {}
winner_dec_id == Winner(valid_candidate, enc_last_winner)

mini_core_ready == ~f2c_rsp_fifo!almost_full

(* Mutant: the special case goes before the answer of the fabric.          *)
DMemRdRspWhoAmIFirst ==
  IF WhoAmIReqQ104H THEN TileId
  ELSE IF FabricDataRspQ504H # NoTrans THEN FabricDataRspQ504H.word
  ELSE PreShiftDMemRdDataQ104H

(* The read response mux, in front of the register file.                   *)
DMemRdRspQ104H ==
  IF FabricDataRspQ504H # NoTrans THEN FabricDataRspQ504H.word
  ELSE IF WhoAmIReqQ104H THEN TileId
  ELSE PreShiftDMemRdDataQ104H

(* The region comparisons of the fabric side leave out the first word.     *)
F2C_DMemHit(a) == a # BaseWord

(* What the router hands over in this cycle.  Another tile has one read on *)
(* its way (OneReadInFlight of its own end point).                         *)
Waiting == {q \in Requestors : owed[q] # Nothing}
MayRead == IF Cardinality(Waiting) < ReadsAtOnce THEN Requestors \ Waiting ELSE {}
InFabric ==
  {NoTrans} \cup
  IF ~mini_core_ready THEN {}
  ELSE [opcode : {"RD_RSP"}, word : {r \in Remote : pending[r] > 0}]
       \cup [opcode : {"RD"}, addr : {a.addr : a \in {b \in Accesses : b.opcode = "RD"}},
             requestor_id : MayRead]
       \cup {a \in Accesses : a.opcode = "WR"}
-------------------------------------------------------------------------------
Init ==
  /\ OpQ103H \in {op \in Program : op.kind = "NOP"}
  /\ OpQ104H = OpQ103H
  /\ OutstandingReadReq = FALSE
  /\ FabricDataRspQ504H = NoTrans
  /\ WhoAmIReqQ104H = FALSE
  /\ d_mem \in [Local -> Stored]
  /\ PreShiftDMemRdDataQ104H \in Stored
  /\ F2C_OutFabricQ504H = NoTrans
  /\ f2c_rsp_fifo!Init /\ f2c_array = [k \in 0 .. 1 |-> NoTrans]
  /\ c2f_req_fifo!Init /\ c2f_array = [k \in 0 .. 1 |-> NoTrans]
  /\ enc_last_winner = 0
  /\ fab_ready \in BOOLEAN
  /\ pending = [r \in Remote |-> 0]
  /\ owed = [q \in Requestors |-> Nothing]
  /\ due = Zero
  /\ burst = 0

(* The core.  All its stages wait for DMemReady; what the wires of stage   *)
(* 103 ask of the memory is asked in every cycle, waiting or not.  The     *)
(* word read for an operation without a local address is an arbitrary one. *)
CoreStep(op) ==
  /\ IF DMemReady
     THEN /\ OpQ104H' = OpQ103H
          /\ OpQ103H' = op
     ELSE UNCHANGED <<OpQ103H, OpQ104H>>
  /\ WhoAmIReqQ104H' = (OpQ103H.kind = "WHOAMI")
  /\ PreShiftDMemRdDataQ104H' \in
       {d_mem[a] : a \in IF OpQ103H.kind \in {"LOAD", "STORE"} /\ OpQ103H.addr \in Local
                         THEN {OpQ103H.addr} ELSE Local}

(* Mutant: the set of OutstandingReadReq wins over its reset.              *)
ReadStepSetWins(in) ==
  LET answered == OutstandingReadReq /\ in.opcode = "RD_RSP"
  IN  /\ OutstandingReadReq' = (SetOutstandingReadReqQ103H \/ (OutstandingReadReq /\ ~answered))
      /\ FabricDataRspQ504H' = IF answered THEN in ELSE NoTrans

(* OutstandingReadReq is reset by the response, which wins over its set.   *)
ReadStep(in) ==
  LET answered == OutstandingReadReq /\ in.opcode = "RD_RSP"
  IN  /\ OutstandingReadReq' = (~answered /\ (SetOutstandingReadReqQ103H \/ OutstandingReadReq))
      /\ FabricDataRspQ504H' = IF answered THEN in ELSE NoTrans

(* The data memory: port b, of the fabric, wins over port a, of the core.  *)
MemoryStep(in) ==
  d_mem' = [a \in Local |->
              IF in.opcode = "WR" /\ in.addr = a /\ F2C_DMemHit(a) THEN "fabric"
              ELSE IF LocalDMemWrEnQ103H /\ OpQ103H.addr = a THEN "core"
              ELSE d_mem[a]]

Answer(in, word) == [opcode |-> "RD_RSP", to |-> in.requestor_id, word |-> word]
PushResponse(push) ==
  f2c_rsp_fifo!Clock(push, 0 \in winner_dec_id, F2C_OutFabricQ504H)

(* Mutants: the valid bit of the 504 register is not cleared; the memory   *)
(* gives the word being written.                                           *)
ResponseStepSticky(in) ==
  /\ F2C_OutFabricQ504H' = IF in.opcode = "RD" THEN Answer(in, d_mem[in.addr])
                           ELSE F2C_OutFabricQ504H
  /\ PushResponse(F2C_OutFabricQ504H # NoTrans)
ResponseStepWriteFirst(in) ==
  /\ F2C_OutFabricQ504H' = IF in.opcode = "RD" THEN Answer(in, d_mem'[in.addr]) ELSE NoTrans
  /\ PushResponse(F2C_OutFabricQ504H # NoTrans)

(* A read of another tile: the memory is read in the cycle it arrives, the *)
(* response is pushed in the next one.                                     *)
ResponseStep(in) ==
  /\ F2C_OutFabricQ504H' =
       IF in.opcode = "RD"
       THEN Answer(in, IF F2C_DMemHit(in.addr) THEN d_mem[in.addr] ELSE Zero)
       ELSE NoTrans
  /\ PushResponse(F2C_OutFabricQ504H # NoTrans)

RequestStep == c2f_req_fifo!Clock(C2F_ReqValidQ103H, 1 \in winner_dec_id, C2F_ReqQ103H)

(* The network answers, in any order, the reads that have been sent.       *)
Sends(r) == 1 \in winner_dec_id /\ c2f_req_fifo!pop_data = [opcode |-> "RD", addr |-> r]
NetworkStep(in) ==
  pending' = [r \in Remote |->
                pending[r] + (IF Sends(r) THEN 1 ELSE 0)
                           - (IF in = [opcode |-> "RD_RSP", word |-> r] THEN 1 ELSE 0)]

HistoryStep(in, op) ==
  /\ owed' = [q \in Requestors |->
                IF in.opcode = "RD" /\ in.requestor_id = q
                THEN IF in.addr = BaseWord THEN Zero ELSE d_mem[in.addr]
                ELSE IF 0 \in winner_dec_id /\ f2c_rsp_fifo!pop_data.to = q THEN Nothing
                ELSE owed[q]]
  /\ due' = IF ~DMemReady THEN due
            ELSE IF OpQ103H.kind = "WHOAMI" THEN TileId
            ELSE IF OpQ103H.kind # "LOAD" THEN Zero
            ELSE IF OpQ103H.addr \in Remote THEN OpQ103H.addr
            ELSE d_mem[OpQ103H.addr]
  /\ burst' = IF ~DMemReady \/ op.addr \in Local THEN burst
              ELSE IF op.kind = "STORE" THEN burst + 1
              ELSE IF op.kind = "LOAD" THEN 0
              ELSE burst

(* The next operation fetched: a program whose bursts of remote stores are *)
(* short enough.                                                           *)
Fetches(op) == op.kind = "STORE" /\ op.addr \in Remote => burst < StoreBurst

Cycle(in, op) ==
  /\ CoreStep(op)
  /\ ReadStep(in)
  /\ MemoryStep(in)
  /\ ResponseStep(in)
  /\ RequestStep
  /\ NetworkStep(in)
  /\ HistoryStep(in, op)
  /\ enc_last_winner' = NextLastWinner(winner_dec_id)
  /\ fab_ready' \in BOOLEAN

Next == \E in \in InFabric, op \in {o \in Program : Fetches(o)} : Cycle(in, op)

Spec == Init /\ [][Next]_vars

(* The clock ticks, and the router has room again and again.               *)
FairSpec == Spec /\ WF_vars(Next) /\ []<>fab_ready
-------------------------------------------------------------------------------
TypeOK ==
  /\ OpQ103H \in Program /\ OpQ104H \in Program
  /\ OutstandingReadReq \in BOOLEAN
  /\ FabricDataRspQ504H \in [opcode : {"RD_RSP"}, word : Remote] \cup {NoTrans}
  /\ WhoAmIReqQ104H \in BOOLEAN
  /\ PreShiftDMemRdDataQ104H \in Stored
  /\ d_mem \in [Local -> Stored]
  /\ F2C_OutFabricQ504H \in Responses \cup {NoTrans}
  /\ f2c_rsp_fifo!TypeOK
  /\ c2f_req_fifo!TypeOK
  /\ enc_last_winner \in {0, 1}
  /\ fab_ready \in BOOLEAN
  /\ pending \in [Remote -> Nat]
  /\ owed \in [Requestors -> Stored \cup {Zero, Nothing}]
  /\ due \in Words
  /\ burst \in 0 .. StoreBurst

(* The assertion "Push when full" of fifo.sv, in f2c_rsp_fifo: readiness   *)
(* is withdrawn early enough for the responses that are on their way.      *)
RspFifoHasRoom == F2C_OutFabricQ504H # NoTrans => ~f2c_rsp_fifo!full

(* The same in c2f_req_fifo: a full FIFO stalls the core before it pushes. *)
ReqFifoHasRoom == C2F_ReqValidQ103H => ~c2f_req_fifo!full

(* The reads of this core on their way: queued, sent or being answered.    *)
QueuedReads == {k \in 1 .. c2f_count : c2f_req_fifo!Contents[k].opcode = "RD"}
Pending(r) == pending[r] > 0

(* At most one read is on its way, and OutstandingReadReq says so: it is   *)
(* the one the load in stage 104 waits for.  (A response carries no tag:   *)
(* the core takes any response for the answer to the load it holds.)       *)
OneReadInFlight ==
  /\ Cardinality(QueuedReads) + Cardinality({r \in Remote : Pending(r)}) =
       IF OutstandingReadReq THEN 1 ELSE 0
  /\ \A r \in Remote : pending[r] <= 1
  /\ OutstandingReadReq => /\ OpQ104H.kind = "LOAD"
                           /\ \A r \in Remote : Pending(r) => OpQ104H.addr = r
                           /\ \A k \in QueuedReads : c2f_req_fifo!Contents[k].addr = OpQ104H.addr

(* When a load leaves stage 104 the register file gets the word the load   *)
(* asked for, though the read port of the memory, the response register    *)
(* and WhoAmIReqQ104H go on changing while the core is stalled.            *)
LoadGetsItsWord == DMemReady /\ due # Zero => DMemRdRspQ104H = due

(* A requestor gets the word its read found in the memory, whatever is     *)
(* written, read and sent before the answer leaves.  (A read of the first  *)
(* word, which the region comparisons leave out, gets zero.)               *)
RepliesRight ==
  0 \in winner_dec_id => f2c_rsp_fifo!pop_data.word = owed[f2c_rsp_fifo!pop_data.to]

(* Every read of this tile's memory is answered: what a round robin        *)
(* between the two FIFOs, which is what the comment in front of u_arbiter  *)
(* says it is, would give a router that has room again and again.          *)
ReadersServed == \A q \in Requestors : owed[q] # Nothing ~> owed[q] = Nothing
===============================================================================

----------------------------- MODULE MemWrapProofs -----------------------------
(* What an end point of the network promises its core and the other tiles, *)
(* for all sets of addresses, programs and accesses: of a core that issues *)
(* no two remote stores without a remote load between them, and for any    *)
(* number of tiles that read its memory, no more than two at once.         *)
EXTENDS MemWrap, Integers, FiniteSetTheorems, TLAPS

ShortBursts == StoreBurst <= 1
FewReads == ReadsAtOnce <= 2

(* A FIFO of two words, by its registers.                                  *)
TwoSlots(rd, wr, count) ==
  /\ rd \in {0, 1} /\ wr \in {0, 1} /\ count \in {0, 1, 2}
  /\ wr = IF count = 1 THEN 1 - rd ELSE rd

(* What a clock edge does to it, when it is not pushed full or popped      *)
(* empty.                                                                  *)
Moved(array, rd, count, array1, rd1, count1, push, pop, d) ==
  /\ count1 = count + (IF push THEN 1 ELSE 0) - (IF pop THEN 1 ELSE 0)
  /\ ~pop /\ count > 0 => array1[rd1] = array[rd]
  /\ pop /\ ~push => array1[rd1] = array[1 - rd]
  /\ push /\ count = (IF pop THEN 1 ELSE 0) => array1[rd1] = d
  /\ push /\ ~pop /\ count = 1 => array1[1 - rd1] = d
  /\ ~push /\ ~pop => array1[1 - rd1] = array[1 - rd]

LEMMA Widths == c2f_req_fifo!Wrap = 4 /\ f2c_rsp_fifo!Wrap = 4
<1> DEFINE P(k) == 2^k >= 2 /\ \A j \in 0 .. k - 1 : 2^j < 2
<1>1. 2^0 = 1 /\ 2^1 = 2 /\ 2^2 = 4
  OBVIOUS
<1>2. P(1) /\ ~P(0) /\ ~P(2)
  BY <1>1
<1>3. \A k \in 0 .. 2 : P(k) <=> k = 1
  <2> HIDE DEF P
  <2>1. \A k \in 0 .. 2 : k = 0 \/ k = 1 \/ k = 2
    OBVIOUS
  <2> QED
    BY <1>2, <2>1
<1>4. (CHOOSE k \in 0 .. 2 : P(k)) = 1
  <2> HIDE DEF P
  <2> QED
    BY <1>3
<1>5. c2f_req_fifo!MSB_PTR = 1 /\ f2c_rsp_fifo!MSB_PTR = 1
  BY <1>4, Zenon DEF c2f_req_fifo!MSB_PTR, f2c_rsp_fifo!MSB_PTR
<1> QED
  BY <1>1, <1>5 DEF c2f_req_fifo!Wrap, f2c_rsp_fifo!Wrap

LEMMA ReqClock ==
  ASSUME TwoSlots(c2f_rd, c2f_wr, c2f_count), NEW V, NEW d, c2f_array \in [{0, 1} -> V],
         NEW push \in BOOLEAN, NEW pop \in BOOLEAN, push => d \in V /\ c2f_count < 2, pop => c2f_count > 0,
         c2f_req_fifo!Clock(push, pop, d)
  PROVE  /\ TwoSlots(c2f_rd', c2f_wr', c2f_count') /\ c2f_array' \in [{0, 1} -> V]
         /\ Moved(c2f_array, c2f_rd, c2f_count, c2f_array', c2f_rd', c2f_count', push, pop, d)
<1>1. \A p \in {0, 1} : c2f_req_fifo!NextPtr(p) = 1 - p
  BY Widths DEF c2f_req_fifo!NextPtr
<1>2. c2f_count' = c2f_count + (IF push THEN 1 ELSE 0) - (IF pop THEN 1 ELSE 0)
  BY Widths DEF c2f_req_fifo!Clock, c2f_req_fifo!NextCount, TwoSlots
<1>3. /\ c2f_rd' = IF pop THEN 1 - c2f_rd ELSE c2f_rd
      /\ c2f_wr' = IF push THEN 1 - c2f_wr ELSE c2f_wr
      /\ c2f_array' = IF push THEN [c2f_array EXCEPT ![c2f_wr] = d] ELSE c2f_array
  BY <1>1 DEF c2f_req_fifo!Clock, TwoSlots
<1> QED
  BY <1>2, <1>3 DEF TwoSlots, Moved

LEMMA RspClock ==
  ASSUME TwoSlots(f2c_rd, f2c_wr, f2c_count), NEW V, NEW d, f2c_array \in [{0, 1} -> V],
         NEW push \in BOOLEAN, NEW pop \in BOOLEAN, push => d \in V /\ f2c_count < 2, pop => f2c_count > 0,
         f2c_rsp_fifo!Clock(push, pop, d)
  PROVE  /\ TwoSlots(f2c_rd', f2c_wr', f2c_count') /\ f2c_array' \in [{0, 1} -> V]
         /\ Moved(f2c_array, f2c_rd, f2c_count, f2c_array', f2c_rd', f2c_count', push, pop, d)
<1>1. \A p \in {0, 1} : f2c_rsp_fifo!NextPtr(p) = 1 - p
  BY Widths DEF f2c_rsp_fifo!NextPtr
<1>2. f2c_count' = f2c_count + (IF push THEN 1 ELSE 0) - (IF pop THEN 1 ELSE 0)
  BY Widths DEF f2c_rsp_fifo!Clock, f2c_rsp_fifo!NextCount, TwoSlots
<1>3. /\ f2c_rd' = IF pop THEN 1 - f2c_rd ELSE f2c_rd
      /\ f2c_wr' = IF push THEN 1 - f2c_wr ELSE f2c_wr
      /\ f2c_array' = IF push THEN [f2c_array EXCEPT ![f2c_wr] = d] ELSE f2c_array
  BY <1>1 DEF f2c_rsp_fifo!Clock, TwoSlots
<1> QED
  BY <1>2, <1>3 DEF TwoSlots, Moved

(* A FIFO that sends has a word.                                           *)
LEMMA SenderHolds ==
  /\ 0 \in winner_dec_id => f2c_count # 0
  /\ 1 \in winner_dec_id => c2f_count # 0
<1>1. winner_dec_id \subseteq valid_candidate
  BY DEF winner_dec_id, Winner, MaskCandidate, FindFirst
<1> QED
  BY <1>1 DEF valid_candidate, f2c_rsp_fifo!empty, c2f_req_fifo!empty
-------------------------------------------------------------------------------
(* The core side.                                                          *)
Oldest == c2f_array[c2f_rd]
Second == c2f_array[1 - c2f_rd]
Unsent(r) == [opcode |-> "RD", addr |-> r]
RemoteStore == NonLocalDMemReqQ103H /\ OpQ103H.kind = "STORE"

CoreTypes ==
  /\ OpQ103H \in Operations /\ OpQ104H \in Operations /\ OutstandingReadReq \in BOOLEAN
  /\ TwoSlots(c2f_rd, c2f_wr, c2f_count) /\ c2f_array \in [{0, 1} -> Requests \cup {NoTrans}]
  /\ pending \in [Remote -> Nat] /\ burst \in Nat

(* A request in stage 103 that no read holds back finds room: a load after *)
(* at most one store, a store after none.                                  *)
Room ==
  /\ ~OutstandingReadReq =>
       IF SetOutstandingReadReqQ103H THEN c2f_count <= 1
       ELSE c2f_count <= burst /\ (RemoteStore => c2f_count < burst)
  /\ RemoteStore => burst = 1
  /\ burst <= 1

(* Where the read is: nowhere, the last request queued, or in the network  *)
(* with the queue empty.                                                   *)
NoRead ==
  /\ pending = [r \in Remote |-> 0]
  /\ c2f_count > 0 => Oldest.opcode = "WR"
  /\ c2f_count = 2 => Second.opcode = "WR"
QueuedRead ==
  /\ pending = [r \in Remote |-> 0]
  /\ \/ c2f_count = 1 /\ Oldest = Unsent(OpQ104H.addr)
     \/ c2f_count = 2 /\ Oldest.opcode = "WR" /\ Second = Unsent(OpQ104H.addr)
SentRead ==
  /\ c2f_count = 0
  /\ pending = [r \in Remote |-> IF r = OpQ104H.addr THEN 1 ELSE 0]
Reads ==
  IF OutstandingReadReq
  THEN /\ OpQ104H.kind = "LOAD" /\ OpQ104H.addr \in Remote /\ due = OpQ104H.addr
       /\ QueuedRead \/ SentRead
  ELSE NoRead

(* What the load in stage 104 gets when no read is outstanding.            *)
Gets == ~OutstandingReadReq => due = Zero \/ DMemRdRspQ104H = due

CoreInv == CoreTypes /\ Room /\ Reads /\ Gets

LEMMA AnswerIsPending ==
  ASSUME NEW in \in InFabric, in.opcode = "RD_RSP"
  PROVE  in.word \in Remote /\ pending[in.word] > 0 /\ in = [opcode |-> "RD_RSP", word |-> in.word]
  BY AccessAssumption DEF InFabric, NoTrans

LEMMA CoreIsReady == CoreTypes /\ Room => (DMemReady <=> ~OutstandingReadReq)
  BY DEF CoreTypes, Room, DMemReady, c2f_req_fifo!full, TwoSlots, SetOutstandingReadReqQ103H, RemoteStore

LEMMA InitCore == Init => CoreInv
<1> SUFFICES ASSUME Init PROVE CoreInv
  OBVIOUS
<1>1. OpQ103H.kind = "NOP" /\ OpQ103H \in Operations
  BY ProgramAssumption DEF Init
<1>2. c2f_array = [k \in {0, 1} |-> NoTrans] /\ pending = [r \in Remote |-> 0]
  <2>1. 0 .. 1 = {0, 1}
    OBVIOUS
  <2> QED
    BY <2>1 DEF Init
<1>3. CoreTypes
  <2>1. TwoSlots(c2f_rd, c2f_wr, c2f_count)
    BY DEF Init, c2f_req_fifo!Init, TwoSlots
  <2>2. c2f_array \in [{0, 1} -> Requests \cup {NoTrans}] /\ pending \in [Remote -> Nat]
    BY <1>2
  <2> QED
    BY <1>1, <2>1, <2>2 DEF Init, CoreTypes
<1> QED
  BY <1>1, <1>3 DEF Init, CoreInv, Room, Reads, NoRead, Gets, c2f_req_fifo!Init,
     SetOutstandingReadReqQ103H, RemoteStore, TwoSlots

(* One cycle, with what the core side sees of it.                          *)
LEMMA CoreCycle ==
  ASSUME ShortBursts, CoreInv, NEW in \in InFabric, NEW op \in Program, Fetches(op), Cycle(in, op)
  PROVE  CoreInv'
<1> DEFINE pop == 1 \in winner_dec_id
           answered == OutstandingReadReq /\ in.opcode = "RD_RSP"
<1>1. /\ op \in Operations /\ OpQ103H \in Operations /\ OpQ104H \in Operations
      /\ DMemReady <=> ~OutstandingReadReq
  BY ProgramAssumption, CoreIsReady DEF CoreInv, CoreTypes
<1>2. /\ C2F_ReqValidQ103H \in BOOLEAN /\ pop \in BOOLEAN
      /\ C2F_ReqValidQ103H => c2f_count < 2
      /\ pop => c2f_count > 0
  BY ShortBursts, <1>1, SenderHolds DEF CoreInv, CoreTypes, Room, C2F_ReqValidQ103H, NonLocalDMemReqQ103H,
     SetOutstandingReadReqQ103H, RemoteStore, Operations, TwoSlots
<1>3. C2F_ReqValidQ103H => C2F_ReqQ103H \in Requests
  BY <1>1 DEF C2F_ReqValidQ103H, NonLocalDMemReqQ103H, C2F_ReqQ103H, Requests, Operations
<1>4. /\ TwoSlots(c2f_rd', c2f_wr', c2f_count') /\ c2f_array' \in [{0, 1} -> Requests \cup {NoTrans}]
      /\ Moved(c2f_array, c2f_rd, c2f_count, c2f_array', c2f_rd', c2f_count', C2F_ReqValidQ103H, pop, C2F_ReqQ103H)
  <2>1. c2f_req_fifo!Clock(C2F_ReqValidQ103H, pop, C2F_ReqQ103H)
    BY DEF Cycle, RequestStep
  <2>2. C2F_ReqValidQ103H => C2F_ReqQ103H \in Requests \cup {NoTrans} /\ c2f_count < 2
    BY <1>2, <1>3
  <2>3. TwoSlots(c2f_rd, c2f_wr, c2f_count) /\ c2f_array \in [{0, 1} -> Requests \cup {NoTrans}]
    BY DEF CoreInv, CoreTypes
  <2> HIDE DEF pop
  <2> QED
    BY <1>2, <2>1, <2>2, <2>3, ReqClock
<1>5. /\ OpQ104H' = IF OutstandingReadReq THEN OpQ104H ELSE OpQ103H
      /\ OpQ103H' = IF OutstandingReadReq THEN OpQ103H ELSE op
      /\ OutstandingReadReq' = (~answered /\ (SetOutstandingReadReqQ103H \/ OutstandingReadReq))
  BY <1>1 DEF Cycle, CoreStep, ReadStep
<1>6. /\ OutstandingReadReq => due' = due /\ burst' = burst
      /\ ~OutstandingReadReq /\ SetOutstandingReadReqQ103H => due' = OpQ103H.addr
      /\ ~OutstandingReadReq =>
           burst' = IF op.addr \in Local THEN burst ELSE IF op.kind = "STORE" THEN burst + 1
                    ELSE IF op.kind = "LOAD" THEN 0 ELSE burst
  BY <1>1 DEF Cycle, HistoryStep, SetOutstandingReadReqQ103H
<1>7. \A r \in Remote : Sends(r) <=> pop /\ Oldest = Unsent(r)
  BY DEF Sends, Oldest, Unsent, c2f_req_fifo!pop_data
<1>8. pending' = [r \in Remote |-> pending[r] + (IF pop /\ Oldest = Unsent(r) THEN 1 ELSE 0)
                                 - (IF in = [opcode |-> "RD_RSP", word |-> r] THEN 1 ELSE 0)]
  <2> HIDE DEF pop
  <2> QED
    BY <1>7 DEF Cycle, NetworkStep
<1> HIDE DEF pop
<1>13. c2f_count \in {0, 1, 2} /\ c2f_count' \in {0, 1, 2}
  BY <1>4 DEF CoreInv, CoreTypes, TwoSlots
<1>14. /\ ~C2F_ReqValidQ103H /\ ~pop =>
            c2f_count' = c2f_count /\ Second' = Second /\ (c2f_count > 0 => Oldest' = Oldest)
       /\ ~C2F_ReqValidQ103H /\ pop => c2f_count' = c2f_count - 1 /\ Oldest' = Second
       /\ C2F_ReqValidQ103H /\ ~pop =>
            /\ c2f_count' = c2f_count + 1
            /\ c2f_count = 0 => Oldest' = C2F_ReqQ103H
            /\ c2f_count = 1 => Oldest' = Oldest /\ Second' = C2F_ReqQ103H
       /\ C2F_ReqValidQ103H /\ pop => c2f_count = 1 /\ c2f_count' = 1 /\ Oldest' = C2F_ReqQ103H
  BY <1>2, <1>4, <1>13 DEF Moved, Oldest, Second
<1>9. Reads'
  <2>1. CASE ~OutstandingReadReq
    <3>1. in.opcode # "RD_RSP" /\ NoRead
      BY <2>1, AnswerIsPending DEF CoreInv, Reads, NoRead
    <3>2. \A r \in Remote : ~(pop /\ Oldest = Unsent(r)) /\ in # [opcode |-> "RD_RSP", word |-> r]
      BY <1>2, <3>1 DEF NoRead, Unsent, CoreInv, CoreTypes, TwoSlots
    <3>3. pending' = [r \in Remote |-> 0]
      BY <1>8, <3>1, <3>2 DEF NoRead
    <3>4. C2F_ReqValidQ103H => C2F_ReqQ103H = IF SetOutstandingReadReqQ103H THEN Unsent(OpQ103H.addr)
                                               ELSE [opcode |-> "WR", addr |-> OpQ103H.addr]
      BY <1>1 DEF C2F_ReqValidQ103H, NonLocalDMemReqQ103H, SetOutstandingReadReqQ103H, C2F_ReqQ103H, Unsent
    <3>5. CASE SetOutstandingReadReqQ103H
      <4>1. C2F_ReqValidQ103H /\ C2F_ReqQ103H = Unsent(OpQ103H.addr)
        BY <2>1, <3>4, <3>5 DEF C2F_ReqValidQ103H, NonLocalDMemReqQ103H, SetOutstandingReadReqQ103H
      <4>2. OutstandingReadReq' /\ OpQ104H' = OpQ103H /\ due' = OpQ104H'.addr
        BY <2>1, <3>5, <1>5, <1>6
      <4>3. QueuedRead'
        BY <1>2, <1>13, <1>14, <3>1, <3>3, <4>1, <4>2 DEF NoRead, QueuedRead, Unsent
      <4> QED
        BY <3>5, <4>2, <4>3 DEF Reads, SetOutstandingReadReqQ103H
    <3>6. CASE ~SetOutstandingReadReqQ103H
      <4>1. ~OutstandingReadReq'
        BY <2>1, <3>6, <1>5
      <4>2. NoRead'
        BY <1>2, <1>13, <1>14, <3>1, <3>3, <3>4, <3>6 DEF NoRead
      <4> QED
        BY <4>1, <4>2 DEF Reads
    <3> QED
      BY <3>5, <3>6
  <2>2. ASSUME OutstandingReadReq
        PROVE  /\ ~C2F_ReqValidQ103H /\ OpQ104H' = OpQ104H /\ due' = due
               /\ OpQ104H.kind = "LOAD" /\ OpQ104H.addr \in Remote /\ due = OpQ104H.addr
               /\ QueuedRead \/ SentRead
               /\ QueuedRead => in.opcode # "RD_RSP"
    BY <2>2, <1>5, <1>6, AnswerIsPending DEF C2F_ReqValidQ103H, CoreInv, Reads, QueuedRead
  <2>3. CASE OutstandingReadReq /\ ~answered /\ QueuedRead
    <3>1. \A r \in Remote : in # [opcode |-> "RD_RSP", word |-> r]
      BY <2>2, <2>3
    <3>2. CASE pop /\ c2f_count = 1
      <4>1. c2f_count' = 0
        BY <1>4, <2>2, <2>3, <3>2 DEF Moved
      <4>2. \A r \in Remote : Oldest = Unsent(r) <=> r = OpQ104H.addr
        BY <2>3, <3>2 DEF QueuedRead, Unsent
      <4>3. pending' = [r \in Remote |-> IF r = OpQ104H.addr THEN 1 ELSE 0]
        BY <1>8, <2>3, <3>1, <3>2, <4>2 DEF QueuedRead
      <4> QED
        BY <1>5, <2>2, <2>3, <4>1, <4>3 DEF Reads, SentRead
    <3>3. CASE ~(pop /\ c2f_count = 1)
      <4>1. \A r \in Remote : ~(pop /\ Oldest = Unsent(r))
        BY <2>3, <3>3 DEF QueuedRead, Unsent
      <4>2. pending' = [r \in Remote |-> 0]
        BY <1>8, <2>3, <3>1, <4>1 DEF QueuedRead
      <4>3. QueuedRead'
        BY <1>2, <1>13, <1>14, <1>5, <2>2, <2>3, <3>3, <4>2 DEF QueuedRead, Unsent
      <4> QED
        BY <1>5, <2>2, <2>3, <4>3 DEF Reads
    <3> QED
      BY <3>2, <3>3
  <2>4. CASE OutstandingReadReq /\ SentRead
    <3>1. c2f_count' = 0 /\ ~pop
      BY <1>2, <1>4, <2>2, <2>4 DEF Moved, SentRead
    <3>2. CASE answered
      <4>1. in = [opcode |-> "RD_RSP", word |-> OpQ104H.addr]
        BY <2>4, <3>2, AnswerIsPending DEF SentRead
      <4>2. pending' = [r \in Remote |-> 0]
        BY <1>8, <2>4, <3>1, <4>1 DEF SentRead
      <4>3. NoRead'
        BY <3>1, <4>2 DEF NoRead
      <4> QED
        BY <1>5, <3>2, <4>3 DEF Reads
    <3>3. CASE ~answered
      <4>1. pending' = pending
        BY <1>8, <2>4, <3>1, <3>3 DEF SentRead
      <4> QED
        BY <1>5, <2>2, <2>4, <3>1, <3>3, <4>1 DEF Reads, SentRead
    <3> QED
      BY <3>2, <3>3
  <2> QED
    BY <2>1, <2>2, <2>3, <2>4
<1>10. Room'
  <2>1. CASE ~OutstandingReadReq
    <3>1. burst \in Nat /\ burst <= 1 /\ Room
      BY <2>1 DEF CoreInv, CoreTypes, Room
    <3>2. op.kind = "STORE" /\ op.addr \in Remote => burst = 0
      BY <3>1, ShortBursts, BurstAssumption DEF Fetches, ShortBursts
    <3>3. /\ OpQ103H' = op /\ op.addr \in Local \cup Remote
          /\ op.addr \in Remote => op.addr \notin Local
      BY <1>1, <1>5, <2>1, AddressAssumption DEF Operations
    <3>4. /\ RemoteStore' => burst' = 1
          /\ burst' \in Nat /\ burst' <= 1
          /\ ~SetOutstandingReadReqQ103H' => burst <= burst' /\ (RemoteStore' => burst < burst')
      BY <1>6, <2>1, <3>1, <3>2, <3>3 DEF RemoteStore, NonLocalDMemReqQ103H, SetOutstandingReadReqQ103H
    <3>5. CASE SetOutstandingReadReqQ103H
      BY <1>5, <2>1, <3>4, <3>5 DEF Room
    <3>6. CASE ~SetOutstandingReadReqQ103H
      <4>1. C2F_ReqValidQ103H <=> RemoteStore
        BY <1>1, <2>1, <3>6 DEF C2F_ReqValidQ103H, RemoteStore, NonLocalDMemReqQ103H, SetOutstandingReadReqQ103H
      <4>2. c2f_count' <= burst
        BY <1>13, <1>14, <2>1, <3>1, <3>6, <4>1 DEF Room
      <4>3. c2f_count' \in Nat /\ burst \in Nat
        BY <1>13, <3>1
      <4>4. c2f_count' <= 1
        BY <3>1, <4>2, <4>3
      <4>5. ~SetOutstandingReadReqQ103H' => c2f_count' <= burst' /\ (RemoteStore' => c2f_count' < burst')
        BY <3>4, <4>2, <4>3
      <4> QED
        BY <3>4, <4>4, <4>5 DEF Room
    <3> QED
      BY <3>5, <3>6
  <2>2. CASE OutstandingReadReq
    <3>1. UNCHANGED <<OpQ103H, burst>> /\ burst \in Nat
      BY <1>5, <1>6, <2>2 DEF CoreInv, CoreTypes
    <3>2. (RemoteStore' <=> RemoteStore) /\ Room
      BY <3>1 DEF RemoteStore, NonLocalDMemReqQ103H, CoreInv
    <3>3. CASE OutstandingReadReq'
      BY <3>1, <3>2, <3>3 DEF Room
    <3>4. CASE ~OutstandingReadReq'
      <4>1. in.word \in Remote /\ pending[in.word] > 0
        BY <1>5, <2>2, <3>4, AnswerIsPending
      <4>3. SentRead
        BY <2>2, <4>1 DEF CoreInv, Reads, QueuedRead
      <4>2. c2f_count' = 0
        BY <1>2, <1>14, <2>2, <4>3 DEF SentRead, C2F_ReqValidQ103H
      <4> QED
        BY <3>1, <3>2, <4>2 DEF Room
    <3> QED
      BY <3>3, <3>4
  <2> QED
    BY <2>1, <2>2
<1>11. Gets'
  <2>1. CASE ~OutstandingReadReq /\ ~OutstandingReadReq'
    <3>1. FabricDataRspQ504H' = NoTrans /\ WhoAmIReqQ104H' = (OpQ103H.kind = "WHOAMI")
      BY <2>1 DEF Cycle, ReadStep, CoreStep
    <3>2. due' = IF OpQ103H.kind = "WHOAMI" THEN TileId ELSE IF OpQ103H.kind # "LOAD" THEN Zero
                 ELSE IF OpQ103H.addr \in Remote THEN OpQ103H.addr ELSE d_mem[OpQ103H.addr]
      BY <1>1, <2>1 DEF Cycle, HistoryStep
    <3>3. CASE OpQ103H.kind = "LOAD"
      <4>1. OpQ103H.addr \in Local /\ OpQ103H.addr \notin Remote
        BY <1>1, <1>5, <2>1, <3>3, AddressAssumption DEF Operations, SetOutstandingReadReqQ103H
      <4>2. PreShiftDMemRdDataQ104H' = d_mem[OpQ103H.addr]
        BY <3>3, <4>1 DEF Cycle, CoreStep
      <4> QED
        BY <3>1, <3>2, <3>3, <4>1, <4>2 DEF Gets, DMemRdRspQ104H
    <3>4. CASE OpQ103H.kind # "LOAD"
      BY <3>1, <3>2, <3>4 DEF Gets, DMemRdRspQ104H
    <3> QED
      BY <3>3, <3>4
  <2>2. CASE answered
    <3>1. FabricDataRspQ504H' = in /\ due' = due
      BY <1>6, <2>2 DEF Cycle, ReadStep
    <3>2. in.word = due /\ in # NoTrans
      BY <2>2, AnswerIsPending DEF CoreInv, Reads, QueuedRead, SentRead, NoTrans
    <3> QED
      BY <3>1, <3>2 DEF Gets, DMemRdRspQ104H
  <2>3. CASE OutstandingReadReq'
    BY <2>3 DEF Gets
  <2> QED
    BY <1>5, <2>1, <2>2, <2>3
<1>12. CoreTypes'
  <2>1. pending' \in [Remote -> Nat]
    BY <1>9 DEF Reads, NoRead, QueuedRead, SentRead
  <2>2. burst' \in Nat
    BY <1>6 DEF CoreInv, CoreTypes
  <2>3. OutstandingReadReq' \in BOOLEAN /\ OpQ103H' \in Operations /\ OpQ104H' \in Operations
    BY <1>1, <1>5
  <2> QED
    BY <1>4, <2>1, <2>2, <2>3 DEF CoreTypes
<1> QED
  BY <1>9, <1>10, <1>11, <1>12 DEF CoreInv

LEMMA CoreStays == ShortBursts /\ CoreInv /\ [Next]_vars => CoreInv'
<1>1. ASSUME ShortBursts, CoreInv, Next PROVE CoreInv'
  BY <1>1, CoreCycle DEF Next
<1>2. ASSUME CoreInv, UNCHANGED vars PROVE CoreInv'
  BY <1>2 DEF vars, core, c2f, CoreInv, CoreTypes, Room, Reads, NoRead, QueuedRead, SentRead, Gets,
     NonLocalDMemReqQ103H, SetOutstandingReadReqQ103H, RemoteStore, Oldest, Second, DMemRdRspQ104H
<1> QED
  BY <1>1, <1>2

(* No request is pushed into a full c2f_req_fifo, whatever the router and  *)
(* the other tiles do (mini_mem_wrap.sv, the assertion of fifo.sv).        *)
THEOREM RequestsFit == ShortBursts => (Spec => []ReqFifoHasRoom)
<1> SUFFICES ASSUME ShortBursts PROVE Spec => []ReqFifoHasRoom
  OBVIOUS
<1>1. CoreInv /\ [Next]_vars => CoreInv'
  BY CoreStays
<1>2. CoreInv => ReqFifoHasRoom
  BY ShortBursts DEF CoreInv, CoreTypes, Room, TwoSlots, ReqFifoHasRoom, C2F_ReqValidQ103H,
     SetOutstandingReadReqQ103H, RemoteStore, NonLocalDMemReqQ103H, c2f_req_fifo!full, Operations
<1> QED
  BY <1>1, <1>2, InitCore, PTL DEF Spec

LEMMA ReadsAreOne == CoreInv => OneReadInFlight
<1> SUFFICES ASSUME CoreInv PROVE OneReadInFlight
  OBVIOUS
<1> DEFINE queued == QueuedReads
           sent == {r \in Remote : Pending(r)}
<1>1. /\ c2f_count >= 1 => c2f_req_fifo!Contents[1] = Oldest
      /\ c2f_count = 2 => c2f_req_fifo!Contents[2] = Second
  BY DEF c2f_req_fifo!Contents, c2f_req_fifo!SlotAfter, Oldest, Second, CoreInv, CoreTypes, TwoSlots
<1>2. Cardinality({}) = 0 /\ \A x : Cardinality({x}) = 1
  BY FS_EmptySet, FS_Singleton
<1>3. CASE ~OutstandingReadReq
  <2>1. NoRead
    BY <1>3 DEF CoreInv, Reads
  <2>2. queued = {}
    BY <1>1, <2>1 DEF QueuedReads, NoRead, CoreInv, CoreTypes, TwoSlots
  <2>3. sent = {} /\ \A r \in Remote : pending[r] <= 1
    BY <2>1 DEF NoRead, Pending
  <2> QED
    BY <1>2, <1>3, <2>2, <2>3 DEF OneReadInFlight
<1>4. CASE OutstandingReadReq /\ QueuedRead
  <2>1. queued = {c2f_count} /\ c2f_req_fifo!Contents[c2f_count] = Unsent(OpQ104H.addr)
    BY <1>1, <1>4 DEF QueuedReads, QueuedRead, Unsent
  <2>2. sent = {} /\ \A r \in Remote : pending[r] <= 1 /\ ~Pending(r)
    BY <1>4 DEF QueuedRead, Pending
  <2>3. OpQ104H.kind = "LOAD" /\ \A k \in QueuedReads : c2f_req_fifo!Contents[k].addr = OpQ104H.addr
    BY <1>4, <2>1 DEF CoreInv, Reads, Unsent
  <2>4. Cardinality(queued) + Cardinality(sent) = 1
    <3> HIDE DEF queued, sent
    <3> QED
      BY <1>2, <2>1, <2>2
  <2> QED
    BY <1>4, <2>2, <2>3, <2>4 DEF OneReadInFlight
<1>5. CASE OutstandingReadReq /\ SentRead
  <2>1. queued = {}
    BY <1>5 DEF QueuedReads, SentRead
  <2>2. OpQ104H.kind = "LOAD" /\ OpQ104H.addr \in Remote
    BY <1>5 DEF CoreInv, Reads
  <2>3. sent = {OpQ104H.addr} /\ \A r \in Remote : pending[r] <= 1 /\ (Pending(r) => OpQ104H.addr = r)
    BY <1>5, <2>2 DEF SentRead, Pending
  <2>4. Cardinality(queued) + Cardinality(sent) = 1
    <3> HIDE DEF queued, sent
    <3>1. queued = {} /\ sent = {OpQ104H.addr}
      BY <2>1, <2>3
    <3>2. Cardinality(queued) = 0 /\ Cardinality(sent) = 1
      BY <1>2, <3>1
    <3> QED
      BY <3>2
  <2> QED
    BY <1>5, <2>1, <2>2, <2>3, <2>4 DEF OneReadInFlight
<1> QED
  BY <1>3, <1>4, <1>5 DEF CoreInv, Reads

(* At most one read of the core is queued, sent or being answered, and it  *)
(* is the one of the load in stage 104 (OutstandingReadReq).               *)
THEOREM OneRead == ShortBursts => (Spec => []OneReadInFlight)
<1> SUFFICES ASSUME ShortBursts PROVE Spec => []OneReadInFlight
  OBVIOUS
<1>1. CoreInv /\ [Next]_vars => CoreInv'
  BY CoreStays
<1> QED
  BY <1>1, InitCore, ReadsAreOne, PTL DEF Spec

(* A load gets the word it asked for: its own, not what the read port, the *)
(* response register or WhoAmIReqQ104H hold for another operation.         *)
THEOREM LoadsGetTheirWord == ShortBursts => (Spec => []LoadGetsItsWord)
<1> SUFFICES ASSUME ShortBursts PROVE Spec => []LoadGetsItsWord
  OBVIOUS
<1>1. CoreInv /\ [Next]_vars => CoreInv'
  BY CoreStays
<1>2. CoreInv => LoadGetsItsWord
  BY DEF CoreInv, Gets, LoadGetsItsWord, DMemReady
<1> QED
  BY <1>1, <1>2, InitCore, PTL DEF Spec
-------------------------------------------------------------------------------
(* The side of the fabric.                                                 *)
OldestRsp == f2c_array[f2c_rd]
SecondRsp == f2c_array[1 - f2c_rd]

ServeTypes ==
  /\ d_mem \in [Local -> Stored] /\ owed \in [Requestors -> Stored \cup {Zero, Nothing}]
  /\ TwoSlots(f2c_rd, f2c_wr, f2c_count) /\ f2c_array \in [{0, 1} -> Responses \cup {NoTrans}]
  /\ F2C_OutFabricQ504H \in Responses \cup {NoTrans}

(* A response on its way is the one its requestor waits for.               *)
Owes(rsp) == rsp \in Responses /\ rsp.word = owed[rsp.to] /\ owed[rsp.to] # Nothing
Held ==
  /\ f2c_count > 0 => Owes(OldestRsp)
  /\ f2c_count = 2 => Owes(SecondRsp) /\ SecondRsp.to # OldestRsp.to
  /\ F2C_OutFabricQ504H # NoTrans =>
       Owes(F2C_OutFabricQ504H) /\ (f2c_count > 0 => F2C_OutFabricQ504H.to # OldestRsp.to)

ServeInv == ServeTypes /\ Held /\ RspFifoHasRoom

LEMMA InitServe == Init => ServeInv
<1> SUFFICES ASSUME Init PROVE ServeInv
  OBVIOUS
<1>1. f2c_array = [k \in {0, 1} |-> NoTrans]
  <2>1. 0 .. 1 = {0, 1}
    OBVIOUS
  <2> QED
    BY <2>1 DEF Init
<1>2. f2c_array \in [{0, 1} -> Responses \cup {NoTrans}] /\ owed \in [Requestors -> Stored \cup {Zero, Nothing}]
  BY <1>1 DEF Init
<1>3. TwoSlots(f2c_rd, f2c_wr, f2c_count) /\ f2c_count = 0
  BY DEF Init, f2c_rsp_fifo!Init, TwoSlots
<1> QED
  BY <1>2, <1>3 DEF Init, ServeInv, ServeTypes, Held, RspFifoHasRoom

LEMMA ReadArrives ==
  ASSUME NEW in \in InFabric, in.opcode = "RD"
  PROVE  /\ in.requestor_id \in Requestors /\ owed[in.requestor_id] = Nothing /\ in.addr \in Local
         /\ Cardinality(Waiting) < ReadsAtOnce /\ mini_core_ready
  BY AccessAssumption DEF InFabric, NoTrans, MayRead, Waiting

(* Two responses on their way are all that two readers wait for.           *)
LEMMA TwoWait ==
  ASSUME NEW p \in Waiting, NEW q \in Waiting, p # q
  PROVE  Cardinality(Waiting) \in Nat /\ Cardinality(Waiting) >= 2
<1>1. IsFiniteSet(Waiting) /\ {p, q} \subseteq Waiting
  BY ReadersAssumption, FS_Subset DEF Waiting
<1>2. IsFiniteSet({p, q}) /\ Cardinality({p, q}) = 2
  <2>1. IsFiniteSet({p}) /\ Cardinality({p}) = 1
    BY FS_Singleton
  <2>2. {p, q} = {p} \cup {q}
    OBVIOUS
  <2> QED
    BY <2>1, <2>2, FS_AddElement
<1> QED
  BY <1>1, <1>2, FS_Subset, FS_CardinalityType

LEMMA ServeCycle ==
  ASSUME FewReads, ServeInv, NEW in \in InFabric, NEW op, Cycle(in, op)
  PROVE  ServeInv'
<1> DEFINE out == F2C_OutFabricQ504H
           push == out # NoTrans
           pop == 0 \in winner_dec_id
           arrives == in.opcode = "RD"
           found == IF in.addr = BaseWord THEN Zero ELSE d_mem[in.addr]
<1>1. /\ push \in BOOLEAN /\ pop \in BOOLEAN
      /\ push => out \in Responses \cup {NoTrans} /\ f2c_count < 2
      /\ pop => f2c_count > 0
  BY SenderHolds DEF ServeInv, ServeTypes, RspFifoHasRoom, f2c_rsp_fifo!full, TwoSlots
<1>2. /\ TwoSlots(f2c_rd', f2c_wr', f2c_count') /\ f2c_array' \in [{0, 1} -> Responses \cup {NoTrans}]
      /\ Moved(f2c_array, f2c_rd, f2c_count, f2c_array', f2c_rd', f2c_count', push, pop, out)
  <2>1. f2c_rsp_fifo!Clock(push, pop, out)
    BY DEF Cycle, ResponseStep, PushResponse
  <2>2. TwoSlots(f2c_rd, f2c_wr, f2c_count) /\ f2c_array \in [{0, 1} -> Responses \cup {NoTrans}]
    BY DEF ServeInv, ServeTypes
  <2> HIDE DEF push, pop, out
  <2> QED
    BY <1>1, <2>1, <2>2, RspClock
<1>3. f2c_count \in {0, 1, 2} /\ f2c_count' \in {0, 1, 2}
  BY <1>2 DEF ServeInv, ServeTypes, TwoSlots
<1>4. /\ ~push /\ ~pop =>
           f2c_count' = f2c_count /\ SecondRsp' = SecondRsp /\ (f2c_count > 0 => OldestRsp' = OldestRsp)
      /\ ~push /\ pop => f2c_count' = f2c_count - 1 /\ OldestRsp' = SecondRsp
      /\ push /\ ~pop =>
           /\ f2c_count' = f2c_count + 1
           /\ f2c_count = 0 => OldestRsp' = out
           /\ f2c_count = 1 => OldestRsp' = OldestRsp /\ SecondRsp' = out
      /\ push /\ pop => f2c_count = 1 /\ f2c_count' = 1 /\ OldestRsp' = out
  <2> HIDE DEF push, pop, out
  <2> QED
    BY <1>1, <1>2, <1>3 DEF Moved, OldestRsp, SecondRsp
<1>5. /\ owed' = [q \in Requestors |-> IF arrives /\ in.requestor_id = q THEN found
                                       ELSE IF pop /\ OldestRsp.to = q THEN Nothing ELSE owed[q]]
      /\ out' = IF arrives THEN Answer(in, found) ELSE NoTrans
  BY DEF Cycle, HistoryStep, ResponseStep, f2c_rsp_fifo!pop_data, OldestRsp, F2C_DMemHit
<1>6. arrives => /\ in.requestor_id \in Requestors /\ owed[in.requestor_id] = Nothing
                 /\ Cardinality(Waiting) < ReadsAtOnce
                 /\ found \in Stored \cup {Zero} /\ f2c_count # 1
                 /\ out' = [opcode |-> "RD_RSP", to |-> in.requestor_id, word |-> found]
  BY <1>5, ReadArrives DEF ServeInv, ServeTypes, Answer, mini_core_ready, f2c_rsp_fifo!almost_full
<1>7. ServeTypes'
  <2>1. d_mem' \in [Local -> Stored]
    BY DEF Cycle, MemoryStep, ServeInv, ServeTypes, Stored
  <2>2. owed' \in [Requestors -> Stored \cup {Zero, Nothing}]
    BY <1>5, <1>6 DEF ServeInv, ServeTypes
  <2>3. out' \in Responses \cup {NoTrans}
    BY <1>5, <1>6 DEF Responses
  <2> QED
    BY <1>2, <2>1, <2>2, <2>3 DEF ServeTypes
<1> HIDE DEF pop
<1>8. ASSUME NEW rsp, Owes(rsp), pop => OldestRsp.to # rsp.to
      PROVE  rsp \in Responses /\ rsp.word = owed'[rsp.to] /\ owed'[rsp.to] # Nothing
  BY <1>5, <1>6, <1>8 DEF Owes, Responses
<1>9. arrives => Owes(out)' /\ out' # NoTrans
  BY <1>5, <1>6, <1>7 DEF Owes, ServeTypes, Stored, Zero, Nothing, NoTrans, Responses
<1>10. Held'
  <2>1. f2c_count > 0 => Owes(OldestRsp)
    BY DEF ServeInv, Held
  <2>2. f2c_count = 2 => Owes(SecondRsp) /\ SecondRsp.to # OldestRsp.to
    BY DEF ServeInv, Held
  <2>3. push => Owes(out) /\ (f2c_count > 0 => out.to # OldestRsp.to)
    BY DEF ServeInv, Held
  <2>4. f2c_count' > 0 => Owes(OldestRsp)'
    <3>1. CASE f2c_count' > 0 /\ OldestRsp' = OldestRsp /\ f2c_count > 0 /\ ~pop
      BY <1>8, <2>1, <3>1 DEF Owes
    <3>2. CASE f2c_count' > 0 /\ OldestRsp' = SecondRsp /\ f2c_count = 2 /\ pop
      BY <1>8, <2>2, <3>2 DEF Owes
    <3>3. CASE f2c_count' > 0 /\ OldestRsp' = out /\ push /\ (pop => f2c_count > 0)
      BY <1>8, <2>3, <3>3 DEF Owes
    <3> QED
      BY <1>1, <1>3, <1>4, <3>1, <3>2, <3>3
  <2>5. f2c_count' = 2 => Owes(SecondRsp)' /\ SecondRsp'.to # OldestRsp'.to
    <3>1. CASE f2c_count' = 2 /\ OldestRsp' = OldestRsp /\ SecondRsp' = SecondRsp /\ f2c_count = 2 /\ ~pop
      BY <1>8, <2>2, <3>1 DEF Owes
    <3>2. CASE f2c_count' = 2 /\ OldestRsp' = OldestRsp /\ SecondRsp' = out /\ push /\ f2c_count = 1 /\ ~pop
      BY <1>8, <2>3, <3>2 DEF Owes
    <3> QED
      BY <1>1, <1>3, <1>4, <3>1, <3>2
  <2>6. out' # NoTrans /\ f2c_count' > 0 => out'.to # OldestRsp'.to
    <3> SUFFICES ASSUME arrives, f2c_count' > 0 PROVE out'.to # OldestRsp'.to
      BY <1>5
    <3>1. \A rsp : Owes(rsp) => out'.to # rsp.to
      BY <1>6 DEF Owes
    <3>2. \/ OldestRsp' = OldestRsp /\ f2c_count > 0
          \/ OldestRsp' = SecondRsp /\ f2c_count = 2
          \/ OldestRsp' = out /\ push
      BY <1>1, <1>3, <1>4
    <3> QED
      BY <2>1, <2>2, <2>3, <3>1, <3>2
  <2>7. out' # NoTrans => arrives
    BY <1>5
  <2> QED
    BY <1>9, <2>4, <2>5, <2>6, <2>7 DEF Held
<1>11. RspFifoHasRoom'
  <2> SUFFICES ASSUME out' # NoTrans, f2c_count' = 2 PROVE FALSE
    BY DEF RspFifoHasRoom, f2c_rsp_fifo!full
  <2>1. arrives /\ ~push /\ f2c_count = 2
    BY <1>1, <1>3, <1>4, <1>5, <1>6
  <2>2. /\ OldestRsp.to \in Requestors /\ SecondRsp.to \in Requestors /\ SecondRsp.to # OldestRsp.to
        /\ owed[OldestRsp.to] # Nothing /\ owed[SecondRsp.to] # Nothing
    BY <2>1 DEF ServeInv, Held, Owes, Responses
  <2>3. Cardinality(Waiting) \in Nat /\ Cardinality(Waiting) >= 2
    BY <2>2, TwoWait DEF Waiting
  <2> QED
    BY <1>6, <2>1, <2>3, ReadersAssumption DEF FewReads
<1> QED
  BY <1>7, <1>10, <1>11 DEF ServeInv

LEMMA ServeStays == FewReads /\ ServeInv /\ [Next]_vars => ServeInv'
<1>1. ASSUME FewReads, ServeInv, Next PROVE ServeInv'
  BY <1>1, ServeCycle DEF Next
<1>2. ASSUME ServeInv, UNCHANGED vars PROVE ServeInv'
  BY <1>2 DEF vars, f2c, ServeInv, ServeTypes, Held, Owes, OldestRsp, SecondRsp, RspFifoHasRoom, f2c_rsp_fifo!full
<1> QED
  BY <1>1, <1>2

(* The readiness of the end point is withdrawn early enough: a response    *)
(* finds room in f2c_rsp_fifo (mini_mem_wrap.sv, mini_core_ready).         *)
THEOREM ResponsesFit == FewReads => (Spec => []RspFifoHasRoom)
<1> SUFFICES ASSUME FewReads PROVE Spec => []RspFifoHasRoom
  OBVIOUS
<1>1. ServeInv /\ [Next]_vars => ServeInv'
  BY ServeStays
<1>2. ServeInv => RspFifoHasRoom
  BY DEF ServeInv
<1> QED
  BY <1>1, <1>2, InitServe, PTL DEF Spec

(* A requestor gets the word its read found, with writes of other tiles    *)
(* and stores of the core before and after it (F2C_OutFabricQ504H).        *)
THEOREM RepliesAreRight == FewReads => (Spec => []RepliesRight)
<1> SUFFICES ASSUME FewReads PROVE Spec => []RepliesRight
  OBVIOUS
<1>1. ServeInv /\ [Next]_vars => ServeInv'
  BY ServeStays
<1>2. ServeInv => RepliesRight
  BY SenderHolds DEF ServeInv, ServeTypes, TwoSlots, Held, Owes, RepliesRight, f2c_rsp_fifo!pop_data, OldestRsp
<1> QED
  BY <1>1, <1>2, InitServe, PTL DEF Spec
===============================================================================

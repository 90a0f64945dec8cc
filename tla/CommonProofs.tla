----------------------------- MODULE CommonProofs -----------------------------
(***************************************************************************)
(* The two blocks of source/common.  The FIFO is correct for every depth   *)
(* and every set of words: its counter is the distance of its pointers and *)
(* it implements a queue.  While the arbiter is never idle, a request is   *)
(* overtaken at most once by every other client, for every number of       *)
(* clients the circuit supports.                                           *)
(***************************************************************************)
EXTENDS Fifo, ArbiterClients, SequenceTheorems, TLAPS

IInv == TypeOK /\ CountMatchesPointers

(* One slot round the array is what next_rd_ptr and next_wr_ptr compute.   *)
LEMMA NextPtrIsNextSlot ==
  ASSUME NEW p \in Slots
  PROVE  NextPtr(p) = SlotAfter(p, 1) /\ NextPtr(p) \in Slots
<1>1. p \in Nat /\ p + 1 <= FIFO_DEPTH
  BY DepthAssumption DEF Slots
<1>2. CASE p = FIFO_DEPTH - 1
  BY <1>2, DepthAssumption DEF NextPtr, SlotAfter, Slots
<1>3. CASE p # FIFO_DEPTH - 1
  <2>1. p + 1 < Wrap
    BY <1>1, WidthAssumption, DepthAssumption
  <2>2. (p + 1) % Wrap = p + 1
    BY <1>1, <2>1, WidthAssumption
  <2>. QED BY <1>1, <1>3, <2>2, DepthAssumption DEF NextPtr, SlotAfter, Slots
<1>. QED BY <1>2, <1>3

(* Stepping k slots and then one is stepping k + 1 slots.                  *)
LEMMA SlotAfterStep ==
  ASSUME NEW p \in Slots, NEW k \in 0 .. FIFO_DEPTH
  PROVE  /\ k < FIFO_DEPTH => SlotAfter(SlotAfter(p, 1), k) = SlotAfter(p, k + 1)
         /\ k < FIFO_DEPTH => SlotAfter(SlotAfter(p, k), 1) = SlotAfter(p, k + 1)
         /\ SlotAfter(p, k) \in Slots
         /\ SlotAfter(p, FIFO_DEPTH) = p
BY DepthAssumption DEF SlotAfter, Slots

(* Different offsets below the depth reach different slots.                *)
LEMMA SlotAfterInjective ==
  ASSUME NEW p \in Slots, NEW j \in 0 .. FIFO_DEPTH - 1, NEW k \in 0 .. FIFO_DEPTH - 1,
         SlotAfter(p, j) = SlotAfter(p, k)
  PROVE  j = k
BY DepthAssumption DEF SlotAfter, Slots

(* Within its range the counter does not wrap.                             *)
LEMMA NextCountExact ==
  ASSUME count \in 0 .. FIFO_DEPTH, NEW push \in BOOLEAN, NEW pop \in BOOLEAN,
         Legal(push, pop)
  PROVE  /\ push /\ ~pop => NextCount(push, pop) = count + 1
         /\ pop /\ ~push => NextCount(push, pop) = count - 1
         /\ push <=> pop => NextCount(push, pop) = count
         /\ NextCount(push, pop) \in 0 .. FIFO_DEPTH
<1>1. CASE push /\ ~pop
  <2>1. count < FIFO_DEPTH
    BY <1>1, DepthAssumption DEF Legal, full
  <2>2. (count + 1) % Wrap = count + 1
    BY <2>1, WidthAssumption, DepthAssumption
  <2>. QED BY <1>1, <2>1, <2>2, DepthAssumption DEF NextCount
<1>2. CASE pop /\ ~push
  <2>1. count > 0
    BY <1>2, DepthAssumption DEF Legal, empty
  <2>2. (count + Wrap - 1) % Wrap = count - 1
    BY <2>1, WidthAssumption, DepthAssumption
  <2>. QED BY <1>2, <2>1, <2>2, DepthAssumption DEF NextCount
<1>3. CASE push <=> pop
  BY <1>3 DEF NextCount
<1>. QED BY <1>1, <1>2, <1>3

LEMMA InitInv == Init => IInv
BY DepthAssumption DEF Init, IInv, TypeOK, CountMatchesPointers, SlotAfter, Slots

LEMMA StepInv == IInv /\ [Next]_vars => IInv'
<1> SUFFICES ASSUME IInv, [Next]_vars PROVE IInv'
  OBVIOUS
<1> USE DEF IInv, TypeOK
<1>1. ASSUME NEW push \in BOOLEAN, NEW pop \in BOOLEAN, NEW d \in Data,
             Legal(push, pop), Clock(push, pop, d)
      PROVE  IInv'
  <2>1. fifo_array' \in [Slots -> Data]
    BY <1>1 DEF Clock
  <2>2. rd_ptr' \in Slots /\ wr_ptr' \in Slots
    BY <1>1, NextPtrIsNextSlot DEF Clock
  <2>3. count' \in 0 .. FIFO_DEPTH
    BY <1>1, NextCountExact DEF Clock
  <2>4. CountMatchesPointers'
    <3>1. CASE push /\ ~pop
      <4>1. rd_ptr' = rd_ptr /\ wr_ptr' = SlotAfter(wr_ptr, 1) /\ count' = count + 1
        BY <1>1, <3>1, NextCountExact, NextPtrIsNextSlot DEF Clock
      <4>2. count < FIFO_DEPTH
        BY <1>1, <3>1, DepthAssumption DEF Legal, full
      <4>. QED BY <4>1, <4>2, SlotAfterStep DEF CountMatchesPointers
    <3>2. CASE pop /\ ~push
      <4>1. rd_ptr' = SlotAfter(rd_ptr, 1) /\ wr_ptr' = wr_ptr /\ count' = count - 1
        BY <1>1, <3>2, NextCountExact, NextPtrIsNextSlot DEF Clock
      <4>2. count - 1 \in 0 .. FIFO_DEPTH /\ count - 1 < FIFO_DEPTH
        BY <1>1, <3>2, DepthAssumption DEF Legal, empty
      <4>3. SlotAfter(SlotAfter(rd_ptr, 1), count - 1) = SlotAfter(rd_ptr, count)
        BY <4>2, SlotAfterStep
      <4>. QED BY <4>1, <4>3 DEF CountMatchesPointers
    <3>3. CASE push /\ pop
      <4>1. /\ rd_ptr' = SlotAfter(rd_ptr, 1)
            /\ wr_ptr' = SlotAfter(wr_ptr, 1)
            /\ count' = count
        BY <1>1, <3>3, NextCountExact, NextPtrIsNextSlot DEF Clock
      <4>. QED BY <4>1, DepthAssumption DEF CountMatchesPointers, SlotAfter, Slots
    <3>4. CASE ~push /\ ~pop
      BY <1>1, <3>4, NextCountExact DEF Clock, CountMatchesPointers
    <3>. QED BY <3>1, <3>2, <3>3, <3>4
  <2>. QED BY <2>1, <2>2, <2>3, <2>4
<1>2. CASE UNCHANGED vars
  BY <1>2 DEF vars, CountMatchesPointers, SlotAfter
<1>. QED BY <1>1, <1>2 DEF Next

(* The pointers stay in the array, the counter stays in 0 .. FIFO_DEPTH    *)
(* and always equals the distance from the read to the write pointer.      *)
THEOREM Invariance == Spec => [](TypeOK /\ CountMatchesPointers)
<1>1. Spec => []IInv
  BY InitInv, StepInv, PTL DEF Spec
<1>. QED BY <1>1, PTL DEF IInv

(* The words held are a sequence, as long as the counter says.             *)
ContentsIsWords ==
  /\ Contents \in Seq(Data)
  /\ Len(Contents) = count
  /\ \A k \in 1 .. count : Contents[k] = fifo_array[SlotAfter(rd_ptr, k - 1)]

LEMMA ContentsIsSeq == IInv => ContentsIsWords
<1> SUFFICES ASSUME IInv PROVE ContentsIsWords
  OBVIOUS
<1>1. ASSUME NEW k \in 1 .. count
      PROVE  fifo_array[SlotAfter(rd_ptr, k - 1)] \in Data
  <2>1. k - 1 \in 0 .. FIFO_DEPTH
    BY DepthAssumption DEF IInv, TypeOK
  <2>. QED BY <2>1, SlotAfterStep DEF IInv, TypeOK
<1>2. count \in Nat
  BY DepthAssumption DEF IInv, TypeOK
<1>. QED BY <1>1, <1>2 DEF Contents, ContentsIsWords

(* What one clock edge does to the k-th word held.                         *)
LEMMA WordAfterClock ==
  ASSUME IInv, NEW push \in BOOLEAN, NEW pop \in BOOLEAN, NEW d \in Data,
         Legal(push, pop), Clock(push, pop, d), IInv',
         NEW k \in 1 .. count'
  PROVE  fifo_array'[SlotAfter(rd_ptr', k - 1)] =
           LET j == IF pop THEN k + 1 ELSE k
           IN  IF j <= count THEN fifo_array[SlotAfter(rd_ptr, j - 1)] ELSE d
<1> DEFINE j == IF pop THEN k + 1 ELSE k
<1> USE DepthAssumption DEF IInv, TypeOK
<1>1. /\ count' = IF push /\ ~pop THEN count + 1 ELSE IF pop /\ ~push THEN count - 1 ELSE count
      /\ j \in 1 .. count + 1
      /\ j = count + 1 => push
      /\ pop => count > 0
  <2>1. pop => count > 0
    BY DEF Legal, empty
  <2>2. count' = IF push /\ ~pop THEN count + 1 ELSE IF pop /\ ~push THEN count - 1 ELSE count
    BY NextCountExact DEF Clock
  <2>. QED BY <2>1, <2>2
<1>2. SlotAfter(rd_ptr', k - 1) = SlotAfter(rd_ptr, j - 1)
  <2>1. CASE pop
    <3>1. rd_ptr' = SlotAfter(rd_ptr, 1)
      BY <2>1, NextPtrIsNextSlot DEF Clock
    <3>2. k - 1 \in 0 .. FIFO_DEPTH /\ k - 1 < FIFO_DEPTH /\ (k - 1) + 1 = j - 1
      BY <1>1, <2>1
    <3>. QED BY <3>1, <3>2, SlotAfterStep
  <2>2. CASE ~pop
    BY <2>2 DEF Clock
  <2>. QED BY <2>1, <2>2
<1>3. CASE j <= count
  <2>1. push => SlotAfter(rd_ptr, j - 1) # wr_ptr
    <3>1. SUFFICES ASSUME push PROVE SlotAfter(rd_ptr, j - 1) # SlotAfter(rd_ptr, count)
      BY DEF CountMatchesPointers
    <3>2. CASE count < FIFO_DEPTH
      <4>1. j - 1 \in 0 .. FIFO_DEPTH - 1 /\ count \in 0 .. FIFO_DEPTH - 1 /\ j - 1 # count
        BY <1>1, <1>3, <3>2
      <4>. QED BY <4>1, SlotAfterInjective
    <3>3. CASE count = FIFO_DEPTH
      <4>1. pop /\ j >= 2
        BY <3>1, <3>3 DEF Legal, full
      <4>2. SlotAfter(rd_ptr, count) = SlotAfter(rd_ptr, 0)
        BY <3>3 DEF SlotAfter, Slots
      <4>3. j - 1 \in 0 .. FIFO_DEPTH - 1 /\ j - 1 # 0 /\ 0 \in 0 .. FIFO_DEPTH - 1
        BY <1>1, <1>3, <4>1
      <4>4. SlotAfter(rd_ptr, j - 1) # SlotAfter(rd_ptr, 0)
        BY <4>3, SlotAfterInjective
      <4>. QED BY <4>2, <4>4
    <3>. QED BY <3>2, <3>3
  <2>. QED BY <1>2, <1>3, <2>1 DEF Clock
<1>4. CASE ~(j <= count)
  <2>1. j - 1 = count /\ push
    BY <1>1, <1>4
  <2>2. SlotAfter(rd_ptr, j - 1) = wr_ptr
    BY <2>1 DEF CountMatchesPointers
  <2>. QED BY <1>2, <1>4, <2>1, <2>2 DEF Clock
<1>. QED BY <1>3, <1>4

(* The words of a concatenation, those of the first part then the second.  *)
LEMMA ConcatWords ==
  ASSUME NEW S, NEW s \in Seq(S), NEW t \in Seq(S)
  PROVE  /\ s \o t \in Seq(S)
         /\ Len(s \o t) = Len(s) + Len(t)
         /\ \A k \in 1 .. Len(s) : (s \o t)[k] = s[k]
         /\ \A k \in 1 .. Len(t) : (s \o t)[Len(s) + k] = t[k]
<1>1. Len(s) \in Nat /\ Len(t) \in Nat
  OBVIOUS
<1>2. ASSUME NEW k \in 1 .. Len(t) PROVE (s \o t)[Len(s) + k] = t[k]
  <2>1. Len(s) + k \in 1 .. Len(s) + Len(t) /\ ~(Len(s) + k <= Len(s)) /\ (Len(s) + k) - Len(s) = k
    BY <1>1
  <2>. QED BY <2>1, ConcatProperties
<1>3. ASSUME NEW k \in 1 .. Len(s) PROVE (s \o t)[k] = s[k]
  BY <1>1, ConcatProperties
<1>. QED BY <1>2, <1>3, ConcatProperties

(* Every clock edge is a step of the abstract queue.                       *)
LEMMA ClockIsCycle ==
  ASSUME IInv, NEW push \in BOOLEAN, NEW pop \in BOOLEAN, NEW d \in Data,
         Legal(push, pop), Clock(push, pop, d), IInv'
  PROVE  Abstract!Cycle(push, pop, d)
<1> USE DepthAssumption
<1>1. /\ Contents \in Seq(Data) /\ Len(Contents) = count /\ count \in 0 .. FIFO_DEPTH
      /\ \A k \in 1 .. count : Contents[k] = fifo_array[SlotAfter(rd_ptr, k - 1)]
  BY ContentsIsSeq DEF IInv, TypeOK, ContentsIsWords
<1>2. /\ Contents' \in Seq(Data) /\ Len(Contents') = count'
      /\ \A k \in 1 .. count' : Contents'[k] = fifo_array'[SlotAfter(rd_ptr', k - 1)]
  <2>1. IInv' => ContentsIsWords'
    BY ContentsIsSeq, PTL
  <2>. QED BY <2>1 DEF ContentsIsWords
<1>3. pop => count > 0
  BY <1>1 DEF Legal, empty
<1>4. push => count < FIFO_DEPTH \/ pop
  BY <1>1 DEF Legal, full
<1>5. count' = IF push /\ ~pop THEN count + 1 ELSE IF pop /\ ~push THEN count - 1 ELSE count
  BY <1>1, NextCountExact DEF Clock
<1> DEFINE rest == IF pop THEN Tail(Contents) ELSE Contents
           added == IF push THEN <<d>> ELSE << >>
           new == rest \o added
<1>6. /\ rest \in Seq(Data)
      /\ Len(rest) = IF pop THEN count - 1 ELSE count
      /\ \A k \in 1 .. Len(rest) : rest[k] = Contents[IF pop THEN k + 1 ELSE k]
  <2>1. CASE pop
    <3>1. Contents # << >>
      BY <1>1, <1>3, <2>1
    <3>. QED BY <1>1, <1>3, <2>1, <3>1, HeadTailProperties
  <2>2. CASE ~pop
    BY <1>1, <2>2
  <2>. QED BY <2>1, <2>2
<1>7. /\ added \in Seq(Data)
      /\ Len(added) = IF push THEN 1 ELSE 0
      /\ push => added[1] = d
  BY SMT
<1> HIDE DEF rest, added
<1>8. /\ new \in Seq(Data)
      /\ Len(new) = Len(rest) + Len(added)
      /\ \A k \in 1 .. Len(rest) : new[k] = rest[k]
      /\ \A k \in 1 .. Len(added) : new[Len(rest) + k] = added[k]
  BY <1>6, <1>7, ConcatWords
<1> HIDE DEF new
<1>9. Contents' = new
  <2>1. Len(new) = count'
    BY <1>1, <1>3, <1>5, <1>6, <1>7, <1>8
  <2>2. ASSUME NEW k \in 1 .. count' PROVE Contents'[k] = new[k]
    <3>1. Contents'[k] = LET j == IF pop THEN k + 1 ELSE k
                         IN  IF j <= count THEN fifo_array[SlotAfter(rd_ptr, j - 1)] ELSE d
      BY <1>2, WordAfterClock
    <3>2. CASE k <= Len(rest)
      <4>1. k \in 1 .. Len(rest)
        BY <1>1, <1>3, <1>6, <3>2
      <4>2. new[k] = Contents[IF pop THEN k + 1 ELSE k]
        BY <1>6, <1>8, <4>1
      <4>. QED BY <1>1, <1>3, <1>6, <3>1, <4>1, <4>2
    <3>3. CASE k > Len(rest)
      <4>1. push /\ k = Len(rest) + 1
        BY <1>1, <1>3, <1>5, <1>6, <3>3
      <4>2. new[k] = d
        BY <1>1, <1>3, <1>6, <1>7, <1>8, <4>1
      <4>. QED BY <1>1, <1>3, <1>6, <3>1, <3>3, <4>2
    <3>. QED BY <1>1, <1>3, <1>6, <3>2, <3>3
  <2>. QED BY <1>2, <1>8, <2>1, <2>2, SeqEqual
<1>. QED BY <1>1, <1>3, <1>4, <1>9 DEF Abstract!Cycle, rest, added, new

(* For every depth and every set of words the circuit implements a bounded *)
(* first-in first-out queue: nothing is lost, duplicated or reordered.     *)
THEOREM Refinement == Spec => ImplementsQueue
<1>1. Init => Abstract!Init
  <2> SUFFICES ASSUME Init PROVE Contents = << >>
    BY DEF Abstract!Init
  <2>1. IInv /\ count = 0
    BY InitInv DEF Init
  <2>2. Contents \in Seq(Data) /\ Len(Contents) = 0
    BY <2>1, ContentsIsSeq DEF ContentsIsWords
  <2>. QED BY <2>2
<1>2. IInv /\ IInv' /\ [Next]_vars => [Abstract!Next]_Contents
  <2> SUFFICES ASSUME IInv, IInv', [Next]_vars PROVE [Abstract!Next]_Contents
    OBVIOUS
  <2>1. ASSUME NEW push \in BOOLEAN, NEW pop \in BOOLEAN, NEW d \in Data,
               Legal(push, pop), Clock(push, pop, d)
        PROVE  Abstract!Next
    BY <2>1, ClockIsCycle DEF Abstract!Next
  <2>2. CASE UNCHANGED vars
    BY <2>2 DEF vars, Contents, SlotAfter
  <2>. QED BY <2>1, <2>2 DEF Next
<1>3. Spec => []IInv
  BY InitInv, StepInv, PTL DEF Spec
<1>. QED BY <1>1, <1>2, <1>3, PTL DEF Spec, Abstract!Spec, ImplementsQueue
-------------------------------------------------------------------------------
Rotation(last, i) == IF i > last THEN i - last - 1 ELSE i + NUM_CLIENTS - last - 1

(* The arbiter grants at most one client, a candidate, and the nearest one *)
(* after the last winner, going round.                                     *)
LEMMA WinnerIsNearest ==
  ASSUME NEW S \in SUBSET Clients, NEW last \in Clients, NEW w \in Winner(S, last)
  PROVE  /\ w \in S
         /\ Winner(S, last) = {w}
         /\ \A i \in S : i # w => Rotation(last, w) < Rotation(last, i)
<1> USE ClientsAssumption DEF Clients
<1>1. CASE MaskCandidate(S, last) # {}
  <2>1. w \in S /\ w > last /\ (\A j \in S : j > last => w <= j)
    BY <1>1 DEF Winner, FindFirst, MaskCandidate
  <2>2. ASSUME NEW v \in Winner(S, last) PROVE v = w
    <3>1. v \in S /\ v > last /\ (\A j \in S : j > last => v <= j)
      BY <1>1 DEF Winner, FindFirst, MaskCandidate
    <3>. QED BY <2>1, <3>1
  <2>3. \A i \in S : i # w => Rotation(last, w) < Rotation(last, i)
    BY <2>1 DEF Rotation
  <2>. QED BY <2>1, <2>2, <2>3
<1>2. CASE MaskCandidate(S, last) = {}
  <2>1. w \in S /\ (\A j \in S : w <= j) /\ (\A j \in S : ~(j > last))
    BY <1>2 DEF Winner, FindFirst, MaskCandidate
  <2>2. ASSUME NEW v \in Winner(S, last) PROVE v = w
    <3>1. v \in S /\ (\A j \in S : v <= j)
      BY <1>2 DEF Winner, FindFirst, MaskCandidate
    <3>. QED BY <2>1, <3>1
  <2>3. \A i \in S : i # w => Rotation(last, w) < Rotation(last, i)
    BY <2>1 DEF Rotation
  <2>. QED BY <2>1, <2>2, <2>3
<1>. QED BY <1>1, <1>2

OvertakingInv == ArbiterTypeOK /\ OvertakingBudget

LEMMA OvertakingInit == ArbiterInit => OvertakingInv
BY ClientsAssumption DEF ArbiterInit, OvertakingInv, ArbiterTypeOK, OvertakingBudget, Clients

LEMMA BudgetBounds == OvertakingInv => BoundedOvertaking
<1> SUFFICES ASSUME OvertakingInv, NEW i \in Clients PROVE overtaken[i] <= NUM_CLIENTS - 1
  BY DEF BoundedOvertaking
<1>1. Distance(i) \in Nat /\ overtaken[i] \in 0 .. NUM_CLIENTS
  BY ClientsAssumption DEF OvertakingInv, ArbiterTypeOK, Distance, Clients
<1>. QED BY <1>1, ClientsAssumption DEF OvertakingInv, OvertakingBudget

LEMMA OvertakingStep == OvertakingInv /\ [Cycle]_arbiter_vars => OvertakingInv'
<1> SUFFICES ASSUME OvertakingInv, [Cycle]_arbiter_vars PROVE OvertakingInv'
  OBVIOUS
<1> USE ClientsAssumption DEF OvertakingInv, ArbiterTypeOK
<1>1. CASE UNCHANGED arbiter_vars
  BY <1>1 DEF arbiter_vars, OvertakingBudget, Distance
<1>2. CASE Cycle
  <2>1. ValidCandidate \in SUBSET Clients
    BY DEF ValidCandidate
  <2>2. winner \subseteq requests
    <3>1. ASSUME NEW w \in winner PROVE w \in requests
      BY <2>1, WinnerIsNearest DEF winner, ValidCandidate
    <3>. QED BY <3>1
  <2>3. requests' \subseteq Clients /\ ready' \in BOOLEAN
    BY <1>2 DEF Cycle
  <2>4. CASE winner = {}
    <3>1. enc_last_winner' = 0 /\ overtaken' = [i \in Clients |-> 0]
      BY <1>2, <2>4 DEF Cycle, NextLastWinner
    <3>. QED BY <2>3, <3>1 DEF OvertakingBudget, Clients
  <2>5. CASE winner # {}
    <3>1. PICK w \in winner : TRUE
      BY <2>5
    <3>2. /\ winner = {w} /\ w \in ValidCandidate /\ w \in Clients
          /\ \A i \in ValidCandidate : i # w => Rotation(enc_last_winner, w) < Rotation(enc_last_winner, i)
      BY <2>1, <3>1, WinnerIsNearest DEF winner
    <3>3. ValidCandidate = requests
      BY <3>2 DEF ValidCandidate
    <3>4. enc_last_winner' = w
      BY <1>2, <3>2 DEF Cycle, NextLastWinner
    <3>5. ASSUME NEW i \in Clients
          PROVE  /\ overtaken'[i] = IF i = w \/ i \notin requests THEN 0 ELSE overtaken[i] + 1
                 /\ overtaken'[i] > 0 => overtaken'[i] + Rotation(w, i) <= NUM_CLIENTS - 1
      <4>1. overtaken'[i] = IF i = w \/ i \notin requests THEN 0 ELSE overtaken[i] + 1
        BY <1>2, <2>5, <3>2 DEF Cycle
      <4>2. CASE i # w /\ i \in requests
        <5>1. Rotation(enc_last_winner, w) < Rotation(enc_last_winner, i)
          BY <3>2, <3>3, <4>2
        <5>2. overtaken[i] > 0 => overtaken[i] + Rotation(enc_last_winner, i) <= NUM_CLIENTS - 1
          BY DEF OvertakingBudget, Distance, Rotation
        <5>. QED BY <3>2, <4>1, <4>2, <5>1, <5>2 DEF Rotation, Clients
      <4>. QED BY <4>1, <4>2
    <3>6. ASSUME NEW i \in Clients PROVE overtaken'[i] \in 0 .. NUM_CLIENTS
      <4>1. Rotation(w, i) \in Nat
        BY <3>2 DEF Rotation, Clients
      <4>. QED BY <3>5, <4>1
    <3>7. overtaken' \in [Clients -> 0 .. NUM_CLIENTS]
      BY <1>2, <3>6 DEF Cycle
    <3>8. OvertakingBudget'
      BY <3>4, <3>5 DEF OvertakingBudget, Distance, Rotation
    <3>. QED BY <2>3, <3>2, <3>4, <3>7, <3>8
  <2>. QED BY <2>4, <2>5
<1>. QED BY <1>1, <1>2

(* No client waits for more than one grant to each of the others, in a     *)
(* stretch of cycles in which the target takes a transaction every time.   *)
THEOREM FairWhileBusy == ArbiterSpec => [](ArbiterTypeOK /\ OvertakingBudget /\ BoundedOvertaking)
<1>1. ArbiterSpec => []OvertakingInv
  BY OvertakingInit, OvertakingStep, PTL DEF ArbiterSpec
<1>2. OvertakingInv => ArbiterTypeOK /\ OvertakingBudget /\ BoundedOvertaking
  BY BudgetBounds DEF OvertakingInv
<1>. QED BY <1>1, <1>2, PTL
===============================================================================

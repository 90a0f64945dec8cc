-------------------------------- MODULE Terminal --------------------------------
(* The terminal of the PC (uart_term.py, file_parser.py), the serial line   *)
(* with its losses, and the gateway that plays its transfers on the chip    *)
(* (transfer_handler_engine.sv, as the PC sees it).  A number is sent as    *)
(* WordBytes bytes, most significant first; addresses and sizes wrap at     *)
(* Space.                                                                   *)
EXTENDS Integers, Sequences, SequencesExt

CONSTANTS
  WordBytes,     \* bytes of a word: 4 in the code
  Space,         \* size of the address space, in bytes: 2^32 in the code
  Mapped,        \* words of memory that answer
  Data,          \* bytes a user writes
  Addresses,     \* addresses a user types, all below Space
  Sizes,         \* sizes a user types for a read burst
  Files,         \* files a user names
  NotSv,         \* the file whose extension is not .sv
  LineRoom,      \* bytes the input buffer of the port holds
  MaxTransfers,  \* bound on the transfers a user asks for
  MaxLosses      \* bound on the bytes the line loses

Opcode == [W |-> 87, R |-> 82, WB |-> 74, RB |-> 77]
Ack == 55
Byte == 0..255
Words == 0..(Space \div WordBytes - 1)
Word == [1..WordBytes -> Byte]

(* What a byte counts for, the k-th from the right.                         *)
Weight[k \in Nat] == IF k = 0 THEN 1 ELSE 256 * Weight[k - 1]

Number(bytes) ==
  LET value[i \in 0..Len(bytes)] == IF i = 0 THEN 0 ELSE (value[i - 1] * 256 + bytes[i]) % Space
  IN value[Len(bytes)]
AsBytes(n) == [i \in 1..WordBytes |-> (n \div Weight[WordBytes - i]) % 256]
WordAt(address) == (address % Space) \div WordBytes

ASSUME WordAssumption ==
  /\ WordBytes \in Nat \ {0} /\ Space \in Nat \ {0}
  /\ Space % WordBytes = 0 /\ Space <= Weight[WordBytes]
ASSUME RoomAssumption == LineRoom \in Nat /\ LineRoom > WordBytes
ASSUME InputAssumption ==
  /\ Mapped \subseteq Words /\ Data \subseteq Byte
  /\ Addresses \subseteq 0..(Space - 1) /\ Sizes \subseteq 0..(Space - 1)
  /\ Files \ {NotSv} \subseteq Seq(({"@"} \X Nat) \cup ({"bytes"} \X Seq(Byte)))

VARIABLES
  phase,      \* what the terminal waits for
  transfer,   \* the transfer it is at
  sections,   \* sections of the file that are still to be sent
  left,       \* words of a burst that are still to be read
  printed,    \* words it has printed for the transfer
  tx, rx,     \* bytes on the way to the chip, and in the port's input buffer
  gate,       \* the gateway: its state, the kind of transfer, and its buffers
  mem,        \* the memory of the chip
  asked, lost,
  \* history
  wanted,     \* the memory as the transfer should leave it
  sound,      \* the transfer found line and gateway at rest, and met no fault
  well        \* so did the whole session

terminal == <<phase, transfer, sections, left, printed>>
history == <<wanted, sound, well>>
vars == <<terminal, tx, rx, gate, mem, asked, lost, history>>
-------------------------------------------------------------------------------
(* file_parser.parse_sv_file.  A line is <<"@", address>> or <<"bytes", b>> *)
(* and a file is a sequence of lines; the words of a line are its groups of *)
(* WordBytes bytes, each one reversed, the last one perhaps short.          *)
Groups(b) == [i \in 1..((Len(b) + WordBytes - 1) \div WordBytes) |->
                Reverse(SubSeq(b, (i - 1) * WordBytes + 1, IF i * WordBytes < Len(b) THEN i * WordBytes ELSE Len(b)))]

(* Mutant: the size counts words.                                          *)
SectionInWords(address, words) == [address |-> address, size |-> Len(words), words |-> words]
Section(address, words) == [address |-> address, size |-> Len(words) * WordBytes, words |-> words]

ParseLine(p, line) ==
  IF line[1] = "@"
  THEN [done |-> IF p.words = <<>> THEN p.done ELSE Append(p.done, Section(p.address, p.words)),
        address |-> line[2], words |-> <<>>]
  ELSE [p EXCEPT !.words = @ \o Groups(line[2])]

ParseLines(file) ==
  LET parsed[i \in 0..Len(file)] ==
        IF i = 0 THEN [done |-> <<>>, address |-> -1, words |-> <<>>] ELSE ParseLine(parsed[i - 1], file[i])
  IN parsed[Len(file)]

(* Mutant: the section under way is lost at the end of the file.           *)
ParseDropsLast(file) == ParseLines(file).done
Parse(file) == LET end == ParseLines(file) IN Append(end.done, Section(end.address, end.words))

(* The parser stops on a line of data before the first address and on a    *)
(* line that is empty; no section has an address in an empty file, and      *)
(* without the .sv extension there are no sections at all.                  *)
Unreadable(file) ==
  \/ file = NotSv \/ file = <<>>
  \/ \E i \in DOMAIN file : file[i] = <<"bytes", <<>>>>
  \/ file[1][1] # "@"

(* What a file asks for: the bytes behind an address, in memory order.     *)
PlaceLine(q, line, base) ==
  IF line[1] = "@" THEN [q EXCEPT !.next = base + line[2]]
  ELSE [next |-> q.next + Len(line[2]), bytes |-> q.bytes \cup {<<q.next + k - 1, line[2][k]>> : k \in DOMAIN line[2]}]
Placed(file, base) ==
  LET placed[i \in 0..Len(file)] ==
        IF i = 0 THEN [next |-> base, bytes |-> {}] ELSE PlaceLine(placed[i - 1], file[i], base)
  IN placed[Len(file)].bytes

(* A file that can be played as it stands: sections begin at words, do not  *)
(* contradict one another and end within the address space.                 *)
Tidy(file, base) ==
  /\ \A i \in DOMAIN file : file[i][1] = "@" => (base + file[i][2]) % WordBytes = 0
  /\ \A p, q \in Placed(file, base) : p[1] = q[1] => p[2] = q[2]
  /\ \A p \in Placed(file, base) : p[1] < Space

(* A word is printed most significant byte first, and memory is little     *)
(* endian: the byte at the lowest address is the last one of the word.      *)
Loaded(m, file, base) ==
  [w \in Words |-> IF w \notin Mapped THEN m[w] ELSE [i \in 1..WordBytes |->
    LET here == {p \in Placed(file, base) : p[1] = w * WordBytes + (WordBytes - i)}
    IN IF here = {} THEN m[w][i] ELSE (CHOOSE p \in here : TRUE)[2]]]
-------------------------------------------------------------------------------
Transfers ==
  [op : {"W"}, address : Addresses, word : [1..WordBytes -> Data]] \cup
  [op : {"R"}, address : Addresses] \cup
  [op : {"WB"}, address : Addresses, file : Files] \cup
  [op : {"RB"}, address : Addresses, size : Sizes]

Resting == gate.st = "IDLE" /\ tx = <<>>
Whole(section) ==
  section.size \in 1..(Space - 1) /\ \A i \in DOMAIN section.words : Len(section.words[i]) = WordBytes

(* Bytes are bytes, the size of a section is that of its words, the port    *)
(* holds no more than its buffer and the counter of a burst is a multiple   *)
(* of the word (parse_sv_file, address_counter).                            *)
TypeOK ==
  /\ phase \in {"prompt", "sections", "ack", "data", "closed", "crashed"}
  /\ transfer = <<>> \/ transfer \in Transfers
  /\ \A i \in DOMAIN sections : sections[i].size = Len(sections[i].words) * WordBytes
  /\ left \in Nat /\ \A i \in DOMAIN printed : Len(printed[i]) \in 1..WordBytes
  /\ tx \in Seq(Byte) /\ rx \in Seq(Byte) /\ Len(rx) <= LineRoom
  /\ gate.st \in {"IDLE", "ADDRESS_PHASE", "SIZE_PHASE", "DATA_PHASE", "ACK_RESP",
                  "WRITE_TO_RC", "READ_FROM_RC", "WRITE_TO_UART"}
  /\ gate.kind \in DOMAIN Opcode \cup {"INVALID"} /\ gate.buf \in Seq(Byte) /\ Len(gate.buf) <= WordBytes
  /\ gate.count \in {n \in 0..(Space - 1) : n % WordBytes = 0}
  /\ gate.rdata \in Word /\ mem \in [Words -> Word]

Init ==
  /\ phase = "prompt" /\ transfer = <<>> /\ sections = <<>> /\ left = 0 /\ printed = <<>>
  /\ tx = <<>> /\ rx = <<>> /\ asked = 0 /\ lost = 0
  /\ gate = [st |-> "IDLE", kind |-> "INVALID", buf |-> <<>>, address |-> 0, size |-> 0,
             word |-> AsBytes(0), rdata |-> AsBytes(0), count |-> 0]
  /\ mem = [w \in Words |-> [i \in 1..WordBytes |-> (w * WordBytes + i) % 256]]   \* all bytes differ
  /\ wanted = mem /\ sound = TRUE /\ well = TRUE
-------------------------------------------------------------------------------
(* The user asks for a transfer.  Only a read empties the input buffer.     *)
Send(t) ==
  IF t.op = "WB" THEN tx ELSE tx \o <<Opcode[t.op]>> \o AsBytes(t.address) \o
    (IF t.op = "W" THEN t.word ELSE IF t.op = "RB" THEN AsBytes(t.size) ELSE <<>>)

(* Mutant: a read leaves what is in the input buffer.                       *)
InputKept(t) == rx
Input(t) == IF t.op = "R" THEN <<>> ELSE rx

(* A read burst is of whole words, and all of its answer fits in the input  *)
(* buffer, since nothing says how slow the terminal may be.                 *)
WholeSize(t) == t.op = "RB" => t.size \in 1..(LineRoom - 1) /\ t.size % WordBytes = 0
Outcome(t) ==
  IF t.op = "WB" THEN Loaded(mem, t.file, t.address)
  ELSE IF t.op = "W" /\ WordAt(t.address) \in Mapped THEN [mem EXCEPT ![WordAt(t.address)] = t.word]
  ELSE mem

Ask(t) ==
  /\ phase = "prompt" /\ asked < MaxTransfers /\ asked' = asked + 1
  /\ transfer' = t /\ printed' = <<>> /\ tx' = Send(t) /\ rx' = Input(t)
  /\ left' = IF t.op = "R" THEN 1 ELSE IF t.op = "RB" THEN t.size \div WordBytes ELSE 0
  /\ IF t.op = "WB" THEN IF Unreadable(t.file) THEN phase' = "crashed" /\ sections' = <<>>
                         ELSE phase' = "sections" /\ sections' = Parse(t.file)
                    ELSE phase' = "ack" /\ sections' = <<>>
  /\ wanted' = (IF t.op = "WB" /\ Unreadable(t.file) THEN mem ELSE Outcome(t))
  /\ sound' = (Resting /\ (t.op = "R" \/ rx = <<>>) /\ WholeSize(t))
  /\ well' = (well /\ WholeSize(t))
  /\ UNCHANGED <<gate, mem, lost>>

(* Each section goes out as a burst of its own.  An address beyond 32 bits  *)
(* stops the program when the opcode is already on its way.                 *)
SendSection ==
  /\ phase = "sections" /\ sections # <<>>
  /\ LET s == Head(sections)
         address == transfer.address + s.address
     IN IF address >= Space
        THEN /\ phase' = "crashed" /\ tx' = Append(tx, Opcode["WB"])
             /\ sound' = FALSE /\ well' = FALSE
        ELSE /\ phase' = "ack"
             /\ tx' = tx \o <<Opcode["WB"]>> \o AsBytes(address) \o AsBytes(s.size) \o FlattenSeq(s.words)
             /\ sound' = (sound /\ Resting /\ rx = <<>> /\ Whole(s))
             /\ well' = (well /\ Whole(s))
  /\ sections' = Tail(sections)
  /\ UNCHANGED <<transfer, left, printed, rx, gate, mem, asked, lost, wanted>>

EndOfFile ==
  /\ phase = "sections" /\ sections = <<>> /\ phase' = "prompt"
  /\ UNCHANGED <<transfer, sections, left, printed, tx, rx, gate, mem, asked, lost, history>>

(* What follows an acknowledge; a write that got none goes on as if it had. *)
Onward(acknowledged) ==
  phase' = IF transfer.op \in {"R", "RB"} THEN (IF acknowledged /\ left > 0 THEN "data" ELSE "prompt")
           ELSE IF transfer.op = "WB" THEN "sections" ELSE "prompt"

(* Nothing comes any more: the gateway waits for a byte that was not sent.  *)
(* A reply takes far less than the 5 seconds a read of the port waits.      *)
Silent == tx = <<>> /\ gate.st \in {"IDLE", "ADDRESS_PHASE", "SIZE_PHASE", "DATA_PHASE"}

(* Mutant: the port has no timeout.                                         *)
ReadAckForever ==
  /\ phase = "ack" /\ rx # <<>> /\ rx' = Tail(rx)
  /\ IF Head(rx) > 127 THEN phase' = "crashed" ELSE Onward(TRUE)
  /\ UNCHANGED <<transfer, sections, left, printed, tx, gate, mem, asked, lost, history>>

(* Any byte is taken for the acknowledge, unless it is no UTF-8.            *)
ReadAck ==
  /\ phase = "ack"
  /\ \/ rx # <<>> /\ rx' = Tail(rx) /\ (IF Head(rx) > 127 THEN phase' = "crashed" ELSE Onward(TRUE))
     \/ rx = <<>> /\ Silent /\ Onward(FALSE) /\ UNCHANGED rx
  /\ UNCHANGED <<transfer, sections, left, printed, tx, gate, mem, asked, lost, history>>

(* A word may come short: the port returns what came within the timeout.   *)
ReadWord ==
  /\ phase = "data"
  /\ LET n == IF Len(rx) < WordBytes THEN Len(rx) ELSE WordBytes IN
     /\ n = WordBytes \/ Silent
     /\ rx' = SubSeq(rx, n + 1, Len(rx))
     /\ printed' = IF n = 0 THEN printed ELSE Append(printed, SubSeq(rx, 1, n))
     /\ left' = left - 1
     /\ phase' = IF n = 0 \/ left = 1 THEN "prompt" ELSE "data"
  /\ UNCHANGED <<transfer, sections, tx, gate, mem, asked, lost, history>>

Quit ==
  /\ phase = "prompt" /\ phase' = "closed"
  /\ UNCHANGED <<transfer, sections, left, printed, tx, rx, gate, mem, asked, lost, history>>
-------------------------------------------------------------------------------
(* The line loses a byte in one of its directions.                          *)
Lose ==
  /\ lost < MaxLosses /\ lost' = lost + 1
  /\ \/ tx # <<>> /\ tx' = Tail(tx) /\ UNCHANGED rx
     \/ rx # <<>> /\ rx' = Front(rx) /\ UNCHANGED tx
  /\ sound' = FALSE /\ well' = FALSE
  /\ UNCHANGED <<terminal, gate, mem, asked, wanted>>

Receive(b) == IF Len(rx) < LineRoom THEN Append(rx, b) ELSE rx

Decode ==
  /\ gate.st = "IDLE" /\ tx # <<>> /\ tx' = Tail(tx)
  /\ \/ \E op \in DOMAIN Opcode : Opcode[op] = Head(tx) /\ gate' = [gate EXCEPT !.st = "ADDRESS_PHASE", !.kind = op, !.buf = <<>>]
     \/ Head(tx) \notin Range(Opcode) /\ gate' = [gate EXCEPT !.kind = "INVALID"]
  /\ UNCHANGED <<rx, mem>>

AfterAddress == [W |-> "DATA_PHASE", R |-> "ACK_RESP", WB |-> "SIZE_PHASE", RB |-> "SIZE_PHASE"]

TakeByte ==
  /\ gate.st \in {"ADDRESS_PHASE", "SIZE_PHASE", "DATA_PHASE"} /\ tx # <<>> /\ tx' = Tail(tx)
  /\ LET buf == Append(gate.buf, Head(tx)) IN
     gate' = IF Len(buf) < WordBytes THEN [gate EXCEPT !.buf = buf]
             ELSE IF gate.st = "ADDRESS_PHASE"
             THEN [gate EXCEPT !.buf = <<>>, !.address = Number(buf), !.st = AfterAddress[gate.kind]]
             ELSE IF gate.st = "SIZE_PHASE"
             THEN [gate EXCEPT !.buf = <<>>, !.size = Number(buf), !.st = IF gate.kind = "WB" THEN "DATA_PHASE" ELSE "ACK_RESP"]
             ELSE [gate EXCEPT !.buf = <<>>, !.word = buf, !.st = "WRITE_TO_RC"]
  /\ UNCHANGED <<rx, mem>>

Here == WordAt(gate.address + gate.count)
(* Mutant: the burst goes one word too far.                                 *)
AtLastPlusOne == gate.count = gate.size % Space
AtLast == gate.count = (gate.size - WordBytes) % Space
Step == (gate.count + WordBytes) % Space

StoreWord ==
  /\ gate.st = "WRITE_TO_RC"
  /\ mem' = IF Here \in Mapped THEN [mem EXCEPT ![Here] = gate.word] ELSE mem
  /\ gate' = IF gate.kind = "W" THEN [gate EXCEPT !.st = "ACK_RESP"]
             ELSE IF AtLast THEN [gate EXCEPT !.st = "ACK_RESP", !.count = 0]
             ELSE [gate EXCEPT !.st = "DATA_PHASE", !.count = Step]
  /\ UNCHANGED <<tx, rx>>

SendAck ==
  /\ gate.st = "ACK_RESP" /\ rx' = Receive(Ack)
  /\ gate' = [gate EXCEPT !.st = IF gate.kind \in {"R", "RB"} THEN "READ_FROM_RC" ELSE "IDLE"]
  /\ UNCHANGED <<tx, mem>>

(* When nothing answers, the word of the read before is sent.               *)
LoadWord ==
  /\ gate.st = "READ_FROM_RC"
  /\ LET word == IF Here \in Mapped THEN mem[Here] ELSE gate.rdata IN
     gate' = [gate EXCEPT !.st = "WRITE_TO_UART", !.rdata = word, !.buf = word]
  /\ UNCHANGED <<tx, rx, mem>>

SendByte ==
  /\ gate.st = "WRITE_TO_UART" /\ rx' = Receive(Head(gate.buf))
  /\ gate' = IF Len(gate.buf) > 1 THEN [gate EXCEPT !.buf = Tail(@)]
             ELSE IF gate.kind = "R" THEN [gate EXCEPT !.buf = <<>>, !.st = "IDLE"]
             ELSE IF AtLast THEN [gate EXCEPT !.buf = <<>>, !.st = "IDLE", !.count = 0]
             ELSE [gate EXCEPT !.buf = <<>>, !.st = "READ_FROM_RC", !.count = Step]
  /\ UNCHANGED <<tx, mem>>

(* A byte that comes while the gateway answers is thrown away.              *)
DropByte ==
  /\ gate.st \in {"ACK_RESP", "READ_FROM_RC", "WRITE_TO_UART"} /\ tx # <<>> /\ tx' = Tail(tx)
  /\ UNCHANGED <<rx, gate, mem>>

Gateway ==
  /\ Decode \/ TakeByte \/ StoreWord \/ SendAck \/ LoadWord \/ SendByte \/ DropByte
  /\ UNCHANGED <<terminal, asked, lost, history>>

Serve == SendSection \/ EndOfFile \/ ReadAck \/ ReadWord
Next == (\E t \in Transfers : Ask(t)) \/ Serve \/ Quit \/ Lose \/ Gateway

(* Terminal and gateway run on; the user asks when he likes, and the line   *)
(* need lose nothing.                                                       *)
Spec == Init /\ [][Next]_vars /\ WF_vars(Serve) /\ WF_vars(Gateway)
-------------------------------------------------------------------------------
(* A write, or the image of a tidy file, that met no fault is in the memory *)
(* of the chip when the terminal asks for the next transfer, each byte at   *)
(* its place, and no other byte has changed (serial_port_write,             *)
(* handle_write_transfer_in_burst_mode, parse_sv_file).                     *)
MemoryAsAsked ==
  phase = "prompt" /\ sound /\ (transfer # <<>> /\ transfer.op = "WB" => Tidy(transfer.file, transfer.address))
  => mem = wanted

(* A read that met no fault prints the words of memory it was asked for: a  *)
(* read of a word whatever a transfer before it left in the input buffer, a *)
(* burst, which does not empty it, when nothing was left there              *)
(* (serial_port_read, serial_port_read_burst).                              *)
ReadIsTrue ==
  phase = "prompt" /\ sound /\ transfer # <<>> /\ transfer.op \in {"R", "RB"} =>
    /\ Len(printed) = IF transfer.op = "R" THEN 1 ELSE transfer.size \div WordBytes
    /\ \A i \in DOMAIN printed : LET w == WordAt(transfer.address + (i - 1) * WordBytes) IN
         w \in Mapped => printed[i] = mem[w]

(* In a session without a fault terminal and gateway never get out of step: *)
(* at the prompt the gateway waits for an opcode and the line is empty, so  *)
(* that the next acknowledge is the next transfer's own.                    *)
NeverOutOfStep == phase = "prompt" /\ well => Resting /\ rx = <<>>

(* The user gets the prompt back, whatever the line loses, or the program   *)
(* stops (port.timeout).                                                    *)
TerminalReturns == phase \in {"sections", "ack", "data"} ~> phase \in {"prompt", "crashed"}
===============================================================================

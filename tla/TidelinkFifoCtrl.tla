-------------------------- MODULE TidelinkFifoCtrl --------------------------
(***************************************************************************)
(* The receive FIFO controller of TideLink (tidelink_fifo_ctrl.sv) and the *)
(* SRAM behind it (tidelink_fifo_mem.sv).                                  *)
(*                                                                         *)
(* One step is one hclk edge.  A cycle's inputs are the FC direct write    *)
(* (fc), the accepted AHB address phase (ahb), the AHB write data (hw) and *)
(* flush.  The two ports are independent: both may be used in one cycle.   *)
(*                                                                         *)
(* Abstractions.  Byte addresses are word offsets (haddr >> 2).  A word is *)
(* its length field (bits [31:20]), the only bits the controller looks at. *)
(* The target address registers always hold length + 1 while their side is *)
(* active, so WriteTarget and ReadTarget are derived.  An AHB read finds   *)
(* the word it addressed on rdata one cycle later (TidelinkFifoMem models  *)
(* the port arbitration that makes that so); the controller looks at rdata *)
(* only after a read of offset 0, so raddr follows those reads only.       *)
(***************************************************************************)
EXTENDS Integers

CONSTANTS
    MAX_CREDITS,       \* SRAM words, 2^(RAM_ADDR_W-2): the credit of an empty FIFO
    MaxWord,           \* the largest value of a word's length field
    Lengths,           \* payload lengths the link's sender uses
    Payloads,          \* words the sender uses after a header
    ENABLE_AHB_WRITE   \* build parameter: the CPU may write packets into the FIFO

ASSUME CreditsAssumption == MAX_CREDITS \in Nat /\ MAX_CREDITS >= 2
ASSUME WordAssumption == MaxWord \in Nat
ASSUME LengthsAssumption == Lengths \subseteq 0 .. MaxWord /\ Lengths \subseteq 0 .. MAX_CREDITS - 2
ASSUME PayloadsAssumption == Payloads \subseteq 0 .. MaxWord
ASSUME EnableAssumption == ENABLE_AHB_WRITE \in BOOLEAN

Offset == 0 .. MAX_CREDITS - 1
Word == 0 .. MaxWord
PacketLength == 0 .. MAX_CREDITS - 2

VARIABLES
    mem,        \* the SRAM
    rptr,       \* read_ptr_r
    wptr,       \* write_ptr_r
    wact,       \* write_packet_active_r
    wlen,       \* write_packet_word_length_r
    ract,       \* read_packet_active_r
    rlen,       \* read_packet_word_length_r
    chk,        \* check_addr_r
    cap,        \* capture_write_length_r
    credit,     \* credit_count_r
    irq,        \* packet_committed_irq_r
    overrun,    \* overrun_r
    underrun,   \* underrun_r
    fault,      \* ahb_inject_fault_r
    arm,        \* swi_ahb_inject_arm, CTRL[3]
    raddr,      \* SRAM address of the last AHB read of offset 0: rdata is mem[raddr]
    buf,        \* cmsdk_ahb_to_sram: an AHB write is in its data phase ...
    bufAddr,    \* ... for this SRAM address
    txNext,     \* the sender: offset of the next word it will send (0: a header)
    txLen       \* the sender: payload length of the packet it is sending

ctrlVars == <<rptr, wptr, wact, wlen, ract, rlen, chk, cap, credit, irq,
              overrun, underrun, fault>>
sramVars == <<mem, raddr, buf, bufAddr>>
senderVars == <<txNext, txLen>>
vars == <<mem, rptr, wptr, wact, wlen, ract, rlen, chk, cap, credit, irq, overrun,
          underrun, fault, arm, raddr, buf, bufAddr, txNext, txLen>>

-----------------------------------------------------------------------------
(* Inputs of a cycle. *)

NoFc == [valid |-> FALSE, addr |-> 0, word |-> 0]
FcWrite(a, w) == [valid |-> TRUE, addr |-> a, word |-> w]
NoAhb == [sel |-> FALSE, write |-> FALSE, addr |-> 0]
AhbRead(a) == [sel |-> TRUE, write |-> FALSE, addr |-> a]
AhbWrite(a) == [sel |-> TRUE, write |-> TRUE, addr |-> a]

(* A pointer sum in RAM_ADDR_W bits.  No sum exceeds 2 * MAX_CREDITS - 1.    *)
Wrap(a) == IF a >= MAX_CREDITS THEN a - MAX_CREDITS ELSE a

ClampLength(raw) == IF raw > MAX_CREDITS - 2 THEN MAX_CREDITS - 2 ELSE raw

(* Mutants: the target forgets the second header word; a packet is popped as *)
(* if it had one header word.                                                *)
TargetOneHeaderWord == wlen
DeltaOneHeaderWord == rlen + 1

WriteTarget == wlen + 1
ReadTarget == rlen + 1
WriteDelta == wlen + 2
ReadDelta == rlen + 2
RxFifoEmpty == credit = MAX_CREDITS

AhbWriteEn == ENABLE_AHB_WRITE /\ arm
IsRead(ahb) == ahb.sel /\ ~ahb.write
IsWrite(ahb) == ahb.sel /\ ahb.write

(* Mutant: the target is compared although no packet is being written. *)
WriteCompleteInactive(fc, ahb) ==
    \/ fc.valid /\ fc.addr = WriteTarget
    \/ AhbWriteEn /\ IsWrite(ahb) /\ ahb.addr = WriteTarget

WriteComplete(fc, ahb) ==
    /\ wact
    /\ \/ fc.valid /\ fc.addr = WriteTarget
       \/ AhbWriteEn /\ IsWrite(ahb) /\ ahb.addr = WriteTarget

ReadComplete(ahb) == ract /\ IsRead(ahb) /\ ahb.addr = ReadTarget

(* The credit once this cycle's write has been charged, saturating at zero. *)
CreditAfterWrite(wc) ==
    IF ~wc THEN credit
    ELSE IF credit >= WriteDelta THEN credit - WriteDelta ELSE 0

(* A completed read that would return more credit than the buffer has.      *)
ReadWouldOvermint(wc) == CreditAfterWrite(wc) + ReadDelta > MAX_CREDITS

-----------------------------------------------------------------------------
(* Next values of the registers, one operator per always block.             *)

Pointers(wc, rc) ==
    /\ wptr' = IF wc THEN Wrap(wptr + WriteDelta) ELSE wptr
    /\ rptr' = IF rc /\ ~ReadWouldOvermint(wc) THEN Wrap(rptr + ReadDelta) ELSE rptr

FcWriteAddr0(fc) == fc.valid /\ fc.addr = 0 /\ ~wact
AhbWriteAddr0(ahb) == IsWrite(ahb) /\ ahb.addr = 0
AhbPktStartOk(ahb) == AhbWriteAddr0(ahb) /\ ~wact /\ credit >= 2

CaptureWriteLength(ahb) ==
    cap' = /\ AhbWriteEn
           /\ AhbPktStartOk(ahb) \/ (cap /\ AhbWriteAddr0(ahb))

WriteSide(fc, hw, wc) ==
    \/ /\ wc
       /\ wlen' = 0 /\ wact' = FALSE
    \/ /\ ~wc /\ FcWriteAddr0(fc)
       /\ wlen' = ClampLength(fc.word) /\ wact' = TRUE
    \/ /\ ~wc /\ ~FcWriteAddr0(fc) /\ cap
       /\ wlen' = ClampLength(hw) /\ wact' = TRUE
    \/ /\ ~wc /\ ~FcWriteAddr0(fc) /\ ~cap
       /\ UNCHANGED <<wlen, wact>>

ReadAddr0(ahb) == IsRead(ahb) /\ ahb.addr = 0

(* Mutant: a read of offset 0 starts a drain even when nothing is committed. *)
ReadSideUnguarded(ahb, rc) ==
    \/ /\ rc
       /\ rlen' = 0 /\ ract' = FALSE /\ chk' = FALSE
    \/ /\ ~rc /\ ReadAddr0(ahb)
       /\ chk' = TRUE
       /\ UNCHANGED <<rlen, ract>>
    \/ /\ ~rc /\ ~ReadAddr0(ahb) /\ chk
       /\ rlen' = ClampLength(mem[raddr]) /\ ract' = TRUE /\ chk' = FALSE
    \/ /\ ~rc /\ ~ReadAddr0(ahb) /\ ~chk
       /\ UNCHANGED <<rlen, ract, chk>>

ReadSide(ahb, rc) ==
    \/ /\ rc
       /\ rlen' = 0 /\ ract' = FALSE /\ chk' = FALSE
    \/ /\ ~rc /\ ReadAddr0(ahb) /\ ~RxFifoEmpty
       /\ chk' = TRUE
       /\ UNCHANGED <<rlen, ract>>
    \/ /\ ~rc /\ ~(ReadAddr0(ahb) /\ ~RxFifoEmpty) /\ chk
       /\ rlen' = ClampLength(mem[raddr]) /\ ract' = TRUE /\ chk' = FALSE
    \/ /\ ~rc /\ ~(ReadAddr0(ahb) /\ ~RxFifoEmpty) /\ ~chk
       /\ UNCHANGED <<rlen, ract, chk>>

(* Mutant: a read that completes with a write hides the write's charge. *)
CreditReadWins(wc, rc) ==
    credit' = IF rc THEN credit + ReadDelta ELSE CreditAfterWrite(wc)

CreditCounter(wc, rc) ==
    credit' = IF ~rc THEN CreditAfterWrite(wc)
              ELSE IF ReadWouldOvermint(wc) THEN MAX_CREDITS
              ELSE CreditAfterWrite(wc) + ReadDelta

(* Mutant: reading the header does not clear the interrupt. *)
IrqNotCleared(ahb, wc) == irq' = (wc \/ irq)

PacketCommittedIrq(ahb, wc) ==
    irq' = (wc \/ (irq /\ ~ReadAddr0(ahb)))

OverrunEvent(fc, ahb) == (fc.valid \/ IsWrite(ahb)) /\ credit = 0
UnderrunEvent(ahb) == IsRead(ahb) /\ RxFifoEmpty

StickyFlags(fc, ahb) ==
    /\ overrun' = (overrun \/ OverrunEvent(fc, ahb))
    /\ underrun' = (underrun \/ UnderrunEvent(ahb))
    /\ fault' = (fault \/ (AhbWriteAddr0(ahb) /\ ~AhbWriteEn))

(* The SRAM.  An FC write lands at write_ptr + offset in its own cycle and  *)
(* owns the port; an AHB write lands one cycle after its address phase at   *)
(* the address translated then, and is lost if FC owns the port.            *)
Sram(fc, ahb, hw) ==
    /\ mem' = IF fc.valid THEN [mem EXCEPT ![Wrap(wptr + fc.addr)] = fc.word]
              ELSE IF buf THEN [mem EXCEPT ![bufAddr] = hw]
              ELSE mem
    /\ buf' = IsWrite(ahb)
    /\ bufAddr' = IF IsWrite(ahb) THEN Wrap(wptr + ahb.addr) ELSE bufAddr
    /\ raddr' = IF ReadAddr0(ahb) THEN rptr ELSE raddr

ResetRegisters ==
    /\ rptr' = 0 /\ wptr' = 0
    /\ wact' = FALSE /\ wlen' = 0
    /\ ract' = FALSE /\ rlen' = 0
    /\ chk' = FALSE /\ cap' = FALSE
    /\ credit' = MAX_CREDITS
    /\ irq' = FALSE
    /\ overrun' = FALSE /\ underrun' = FALSE /\ fault' = FALSE

Clock(fc, ahb, hw) ==
    LET wc == WriteComplete(fc, ahb)
        rc == ReadComplete(ahb)
    IN  /\ Pointers(wc, rc)
        /\ CaptureWriteLength(ahb)
        /\ WriteSide(fc, hw, wc)
        /\ ReadSide(ahb, rc)
        /\ CreditCounter(wc, rc)
        /\ PacketCommittedIrq(ahb, wc)
        /\ StickyFlags(fc, ahb)
        /\ Sram(fc, ahb, hw)

FlushClock(fc, ahb, hw) == ResetRegisters /\ Sram(fc, ahb, hw)

(* A cycle with FC input fc, an AHB access out of ports and AHB write data  *)
(* out of data, flushed or not.                                             *)
Cycle(fc, ports, data) ==
    /\ \E ahb \in ports, hw \in data : Clock(fc, ahb, hw) \/ FlushClock(fc, ahb, hw)
    /\ UNCHANGED arm

-----------------------------------------------------------------------------
(* The FC writes of a peer that sends whole packets it has credit for, one  *)
(* word per cycle with any gaps, each packet at offsets 0 .. length + 1.    *)

NoWord(ports, data) == Cycle(NoFc, ports, data) /\ UNCHANGED senderVars

StartPacket(l, ports, data) ==
    /\ txNext = 0
    /\ Cycle(FcWrite(0, l), ports, data)
    /\ txNext' = 1 /\ txLen' = l

(* Mutant: the sender reserves no room for the two header words. *)
SendHeaderPayloadOnly(l, ports, data) == credit >= l /\ StartPacket(l, ports, data)

SendHeader(l, ports, data) == credit >= l + 2 /\ StartPacket(l, ports, data)

SendWord(w, ports, data) ==
    /\ txNext > 0
    /\ Cycle(FcWrite(txNext, w), ports, data)
    /\ txNext' = IF txNext = txLen + 1 THEN 0 ELSE txNext + 1
    /\ UNCHANGED txLen

Link(ports, data) ==
    \/ NoWord(ports, data)
    \/ \E l \in Lengths : SendHeader(l, ports, data)
    \/ \E w \in Payloads : SendWord(w, ports, data)

Idle == {NoAhb}
Reads == {AhbRead(a) : a \in Offset}
Writes == {AhbWrite(a) : a \in Offset}

Init ==
    /\ mem \in [Offset -> {0}]
    /\ rptr = 0 /\ wptr = 0
    /\ wact = FALSE /\ wlen = 0
    /\ ract = FALSE /\ rlen = 0
    /\ chk = FALSE /\ cap = FALSE
    /\ credit = MAX_CREDITS
    /\ irq = FALSE
    /\ overrun = FALSE /\ underrun = FALSE /\ fault = FALSE
    /\ arm = FALSE
    /\ raddr = 0 /\ buf = FALSE /\ bufAddr = 0
    /\ txNext = 0 /\ txLen = 0

(* The receive path as the drivers use it: the link writes, the CPU reads.  *)
Next == Link(Idle \cup Reads, {0})

Spec == Init /\ [][Next]_vars

-----------------------------------------------------------------------------
(* The same FIFO under inputs the receive path does not exclude.            *)

(* TX_STALL_TIMEOUT or a link error: the peer gives up the packet it sends. *)
Truncate == txNext > 0 /\ txNext' = 0 /\ UNCHANGED <<txLen, arm, ctrlVars, sramVars>>

(* Software arms or disarms AHB injection (CTRL[3]).                        *)
SetArm(b) == arm # b /\ arm' = b /\ UNCHANGED <<ctrlVars, sramVars, senderVars>>

(* AHB injection by software: an armed CPU writes a packet's words one at a *)
(* time, the address phase first and the data in the next cycle, and reads  *)
(* between writes.  No packet arrives from the link meanwhile.              *)
InjectAddress(l) ==
    /\ AhbWriteEn /\ ~buf
    /\ txNext = 0 => credit >= l + 2
    /\ txLen' = IF txNext = 0 THEN l ELSE txLen
    /\ Cycle(NoFc, {AhbWrite(txNext)}, {0})
    /\ UNCHANGED txNext

InjectData(w) ==
    /\ buf
    /\ Cycle(NoFc, Idle, {IF txNext = 0 THEN txLen ELSE w})
    /\ txNext' = IF txNext = txLen + 1 THEN 0 ELSE txNext + 1
    /\ UNCHANGED txLen

InjectRead == ~buf /\ NoWord(Idle \cup Reads, {0})

(* A sender that may give up in mid-packet. *)
TruncatedNext == Next \/ Truncate

(* CPU writes into the aperture at any time the port is free of FC writes   *)
(* (an FC write holds hready low), disarmed or not.                         *)
CpuWriteNext ==
    \/ NoWord(Idle \cup Reads \cup Writes, Payloads)
    \/ \E l \in Lengths : SendHeader(l, Idle, Payloads)
    \/ \E w \in Payloads : SendWord(w, Idle, Payloads)
    \/ \E b \in BOOLEAN : SetArm(b)

(* Armed software injects packets while none arrives from the link. *)
InjectNext ==
    \/ \E b \in BOOLEAN : ~buf /\ txNext = 0 /\ SetArm(b)
    \/ \E l \in Lengths : InjectAddress(l)
    \/ \E w \in Payloads : InjectData(w)
    \/ InjectRead

TruncatedSpec == Init /\ [][TruncatedNext]_vars
CpuWriteSpec == Init /\ [][CpuWriteNext]_vars

-----------------------------------------------------------------------------
(* Properties. *)

(* Types of the registers, the SRAM and the sender. *)
TypeOK ==
    /\ mem \in [Offset -> Word]
    /\ rptr \in Offset /\ wptr \in Offset
    /\ wact \in BOOLEAN /\ wlen \in PacketLength
    /\ ract \in BOOLEAN /\ rlen \in PacketLength
    /\ chk \in BOOLEAN /\ cap \in BOOLEAN
    /\ credit \in 0 .. MAX_CREDITS
    /\ irq \in BOOLEAN /\ overrun \in BOOLEAN /\ underrun \in BOOLEAN /\ fault \in BOOLEAN
    /\ arm \in BOOLEAN
    /\ raddr \in Offset /\ buf \in BOOLEAN /\ bufAddr \in Offset
    /\ txNext \in Offset /\ txLen \in PacketLength

(* SRAM words that are committed and not yet drained, by the credit count.   *)
Used == MAX_CREDITS - credit

(* How far address a lies ahead of address r in the SRAM, seen as a ring.    *)
Dist(r, a) == Wrap(a + MAX_CREDITS - r)

PacketSize(m, a) == ClampLength(m[a]) + 2

(* The credit counter and the two pointers, kept by separate logic, always   *)
(* agree: the pointers are exactly the consumed credit apart.                *)
CreditIsSpace == wptr = Wrap(rptr + Used)

(* S is the set of addresses of the headers of the packets in the n words of *)
(* SRAM m from r on: laid end to end, they fill these words exactly.         *)
Tiling(m, r, n, S) ==
    /\ n > 0 => r \in S
    /\ \A s \in S :
          /\ Dist(r, s) + PacketSize(m, s) <= n
          /\ Dist(r, s) + PacketSize(m, s) < n => Wrap(s + PacketSize(m, s)) \in S
    /\ \A s, t \in S : Dist(r, s) < Dist(r, t) => Dist(r, s) + PacketSize(m, s) <= Dist(r, t)

(* The headers in the SRAM, followed from the read pointer, frame the used   *)
(* words exactly, so the reader never takes a payload word for a header.     *)
PacketsTile == \E S \in SUBSET Offset : Tiling(mem, rptr, Used, S)

(* The packet that is arriving keeps the length its sender announced, its    *)
(* header in the SRAM and the room it was admitted for until it commits; one *)
(* whose header was flushed away arrives into an empty FIFO.                 *)
ArrivalReserved ==
    /\ wact => txNext > 0 /\ wlen = txLen /\ mem[wptr] = wlen /\ credit >= wlen + 2
    /\ txNext > 0 => txNext <= txLen + 1 /\ (wact \/ RxFifoEmpty)

(* While a packet is being drained, the read side holds the length of the    *)
(* oldest committed packet, whatever arrives meanwhile (RX-FIFO TWIN 3).     *)
DrainsHead ==
    /\ ract => Used > 0 /\ rlen + 2 = PacketSize(mem, rptr)
    /\ chk => Used > 0 /\ raddr = rptr

(* The saturation of the credit counter at MAX_CREDITS is inert on the       *)
(* healthy path: no read in progress can mint credit above the maximum.      *)
OvermintInert == ract => credit + rlen + 2 <= MAX_CREDITS

(* A raised packet interrupt means that a packet is waiting: draining never  *)
(* leaves the interrupt up for an empty FIFO.                                *)
IrqMeansPacket == irq => ~RxFifoEmpty

(* Writes admitted by credit never raise OVERRUN, however the reader drains  *)
(* and whenever software flushes.                                            *)
NoOverrun == ~overrun

(* No cycle changes an SRAM word of a committed packet that stays committed. *)
CommittedWordsStable ==
    [][\A a \in Offset :
          Dist(rptr, a) < Used /\ Dist(rptr', a) < Used' => mem'[a] = mem[a]]_vars

(* An empty FIFO has equal pointers, so the next packet is read where it is  *)
(* written.                                                                  *)
EmptyIsAligned == RxFifoEmpty => rptr = wptr
=============================================================================

----------------------- MODULE TidelinkFifoCtrlProofs -----------------------
(***************************************************************************)
(* Proofs about the receive FIFO controller, for every SRAM size, every    *)
(* length field width and every set of packet lengths.                     *)
(***************************************************************************)
EXTENDS MCFifoCtrl, TLAPS

(* The inputs a cycle can have. *)
FcInput == [valid : BOOLEAN, addr : Offset, word : Word]
AhbInput == [sel : BOOLEAN, write : BOOLEAN, addr : Offset]

(* A pointer sum of two offsets is again an offset. *)
LEMMA WrapInOffset ==
    ASSUME NEW a \in Offset, NEW n \in 0 .. MAX_CREDITS
    PROVE  Wrap(a + n) \in Offset
BY CreditsAssumption DEF Wrap, Offset

(* Both pointers moved: as far apart as before, plus what was written, less  *)
(* what was read.                                                           *)
LEMMA PointersMoved ==
    ASSUME NEW r \in Offset, NEW u \in 0 .. MAX_CREDITS,
           NEW w \in 0 .. MAX_CREDITS, NEW d \in 0 .. MAX_CREDITS,
           d <= u, u + w - d \in 0 .. MAX_CREDITS, u + w <= MAX_CREDITS
    PROVE  Wrap(Wrap(r + u) + w) = Wrap(Wrap(r + d) + (u + w - d))
BY CreditsAssumption DEF Wrap, Offset

(* A clamped length field is the length of a packet that fits the SRAM. *)
LEMMA ClampInRange ==
    ASSUME NEW w \in Word
    PROVE  ClampLength(w) \in PacketLength
BY CreditsAssumption, WordAssumption DEF ClampLength, Word, PacketLength

(* A sender's packet length is a length field and fits the SRAM. *)
LEMMA LengthsFit ==
    ASSUME NEW l \in Lengths
    PROVE  l \in PacketLength /\ l \in Word
BY LengthsAssumption DEF PacketLength, Word

(* What the environments of the specifications put on the ports. *)
LEMMA Inputs ==
    /\ NoFc \in FcInput
    /\ \A a \in Offset, w \in Word : FcWrite(a, w) \in FcInput
    /\ Idle \subseteq AhbInput
    /\ Reads \subseteq AhbInput
    /\ Writes \subseteq AhbInput
<1>1. 0 \in Offset /\ 0 \in Word
  BY CreditsAssumption, WordAssumption DEF Offset, Word
<1>2. NoFc \in FcInput /\ NoAhb \in AhbInput
  BY <1>1 DEF FcInput, AhbInput, NoFc, NoAhb
<1>3. \A a \in Offset, w \in Word : FcWrite(a, w) \in FcInput
  BY DEF FcInput, FcWrite
<1>4. \A a \in Offset : AhbRead(a) \in AhbInput /\ AhbWrite(a) \in AhbInput
  BY DEF AhbInput, AhbRead, AhbWrite
<1>5. QED
  BY <1>2, <1>3, <1>4 DEF Idle, Reads, Writes

(* The controller's and the SRAM's part of the type invariant. *)
ClockTypeOK ==
    /\ mem \in [Offset -> Word]
    /\ rptr \in Offset /\ wptr \in Offset
    /\ wact \in BOOLEAN /\ wlen \in PacketLength
    /\ ract \in BOOLEAN /\ rlen \in PacketLength
    /\ chk \in BOOLEAN /\ cap \in BOOLEAN
    /\ credit \in 0 .. MAX_CREDITS
    /\ irq \in BOOLEAN /\ overrun \in BOOLEAN /\ underrun \in BOOLEAN /\ fault \in BOOLEAN
    /\ raddr \in Offset /\ buf \in BOOLEAN /\ bufAddr \in Offset

(* No input, legal or not, takes a register out of its range: in particular *)
(* the credit count stays between 0 and MAX_CREDITS in every cycle.         *)
LEMMA ClockType ==
    ASSUME ClockTypeOK, arm \in BOOLEAN,
           NEW fc \in FcInput, NEW ahb \in AhbInput, NEW hw \in Word,
           Clock(fc, ahb, hw) \/ FlushClock(fc, ahb, hw)
    PROVE  ClockTypeOK'
<1>1. /\ fc.valid \in BOOLEAN /\ fc.addr \in Offset /\ fc.word \in Word
      /\ ahb.sel \in BOOLEAN /\ ahb.write \in BOOLEAN /\ ahb.addr \in Offset
  BY DEF FcInput, AhbInput
<1>2. Sram(fc, ahb, hw)
  BY DEF Clock, FlushClock
<1>3. mem' \in [Offset -> Word]
  BY <1>1, <1>2, WrapInOffset DEF Sram, ClockTypeOK, Offset
<1>4. raddr' \in Offset /\ buf' \in BOOLEAN
  BY <1>1, <1>2 DEF Sram, ClockTypeOK, IsWrite
<1>5. bufAddr' \in Offset
  BY <1>1, <1>2, CreditsAssumption DEF Sram, ClockTypeOK, Wrap, Offset
<1>6. CASE FlushClock(fc, ahb, hw)
  <2>1. ResetRegisters
    BY <1>6 DEF FlushClock
  <2>2. 0 \in Offset /\ 0 \in PacketLength /\ MAX_CREDITS \in 0 .. MAX_CREDITS
    BY CreditsAssumption DEF Offset, PacketLength
  <2>3. QED
    BY <1>3, <1>4, <1>5, <2>1, <2>2, Zenon DEF ResetRegisters, ClockTypeOK
<1>7. CASE Clock(fc, ahb, hw)
  <2> DEFINE wc == WriteComplete(fc, ahb)
             rc == ReadComplete(ahb)
  <2>0. wc \in BOOLEAN /\ rc \in BOOLEAN
    BY <1>1, EnableAssumption DEF WriteComplete, ReadComplete, ClockTypeOK, IsRead, IsWrite, AhbWriteEn
  <2>1. /\ Pointers(wc, rc) /\ CaptureWriteLength(ahb) /\ WriteSide(fc, hw, wc)
        /\ ReadSide(ahb, rc) /\ CreditCounter(wc, rc) /\ PacketCommittedIrq(ahb, wc)
        /\ StickyFlags(fc, ahb)
    BY <1>7 DEF Clock
  <2> HIDE DEF wc, rc
  <2>2. CreditAfterWrite(wc) \in 0 .. MAX_CREDITS
    BY CreditsAssumption DEF CreditAfterWrite, ClockTypeOK, WriteDelta, PacketLength
  <2>3. credit' \in 0 .. MAX_CREDITS
    BY <2>1, <2>2, CreditsAssumption
       DEF CreditCounter, ReadWouldOvermint, ReadDelta, ClockTypeOK, PacketLength
  <2>4. wptr' \in Offset /\ rptr' \in Offset
    <3>1. wlen + 2 \in 0 .. MAX_CREDITS /\ rlen + 2 \in 0 .. MAX_CREDITS
      BY CreditsAssumption DEF ClockTypeOK, PacketLength
    <3>2. QED
      BY <2>1, <3>1, WrapInOffset DEF Pointers, ClockTypeOK, WriteDelta, ReadDelta
  <2>5. 0 \in PacketLength
    BY CreditsAssumption DEF PacketLength
  <2>6. wact' \in BOOLEAN /\ wlen' \in PacketLength
    BY <1>1, <2>1, <2>5, ClampInRange, Zenon DEF WriteSide, ClockTypeOK
  <2>10. mem[raddr] \in Word
    BY DEF ClockTypeOK
  <2>11. ract' \in BOOLEAN /\ rlen' \in PacketLength /\ chk' \in BOOLEAN
    BY <2>1, <2>5, <2>10, ClampInRange, Zenon DEF ReadSide, ClockTypeOK
  <2>7. cap' \in BOOLEAN /\ irq' \in BOOLEAN
    BY <2>0, <2>1 DEF CaptureWriteLength, PacketCommittedIrq, ClockTypeOK
  <2>8. overrun' \in BOOLEAN /\ underrun' \in BOOLEAN /\ fault' \in BOOLEAN
    BY <2>1 DEF StickyFlags, ClockTypeOK
  <2>9. QED
    BY <1>3, <1>4, <1>5, <2>3, <2>4, <2>6, <2>7, <2>8, <2>11 DEF ClockTypeOK
<1>8. QED
  BY <1>6, <1>7

-----------------------------------------------------------------------------
(* Tilings of the ring of SRAM words.                                       *)

(* Ring arithmetic: a step forward of n from an address at distance d lies  *)
(* at distance d + n, and moving the origin by n shortens distances by n.   *)
LEMMA RingStep ==
    ASSUME NEW r \in Offset, NEW a \in Offset, NEW n \in 0 .. MAX_CREDITS
    PROVE  /\ Dist(r, a) \in Offset
           /\ Wrap(r + Dist(r, a)) = a
           /\ Dist(r, r) = 0
           /\ Dist(r, a) + n < MAX_CREDITS => Dist(r, Wrap(a + n)) = Dist(r, a) + n
           /\ Dist(r, a) >= n => Dist(Wrap(r + n), a) = Dist(r, a) - n
           /\ \A b \in Offset : Dist(r, a) = Dist(r, b) => a = b
BY CreditsAssumption DEF Dist, Wrap, Offset

(* The ring's distances, and the step of length zero. *)
LEMMA RingDist ==
    ASSUME NEW r \in Offset, NEW a \in Offset
    PROVE  /\ Dist(r, a) \in Offset
           /\ Dist(r, r) = 0
           /\ Dist(r, a) = 0 => a = r
BY CreditsAssumption DEF Dist, Wrap, Offset

(* An address x words into the free part lies x words beyond the used part, *)
(* and a step of at least one word and less than the ring goes elsewhere.   *)
LEMMA RingFree ==
    ASSUME NEW r \in Offset, NEW u \in 0 .. MAX_CREDITS, NEW x \in Offset
    PROVE  /\ u + x < MAX_CREDITS => Dist(r, Wrap(Wrap(r + u) + x)) = u + x
           /\ x > 0 => Wrap(r + x) # r
           /\ Wrap(r + x) \in Offset
BY CreditsAssumption DEF Dist, Wrap, Offset

(* A packet's size fits the SRAM. *)
LEMMA SizeInRange ==
    ASSUME NEW m \in [Offset -> Word], NEW a \in Offset
    PROVE  PacketSize(m, a) \in 2 .. MAX_CREDITS
BY ClampInRange, CreditsAssumption DEF PacketSize, PacketLength

(* Writes outside the tiled words leave a tiling as it is. *)
LEMMA TilingFrame ==
    ASSUME NEW m \in [Offset -> Word], NEW m2 \in [Offset -> Word],
           NEW r \in Offset, NEW n \in 0 .. MAX_CREDITS, NEW S \in SUBSET Offset,
           Tiling(m, r, n, S),
           \A a \in Offset : Dist(r, a) < n => m2[a] = m[a]
    PROVE  Tiling(m2, r, n, S)
<1>1. \A s \in S : Dist(r, s) < n
  <2> SUFFICES ASSUME NEW s \in S PROVE Dist(r, s) < n
    OBVIOUS
  <2>1. Dist(r, s) \in Offset /\ PacketSize(m, s) \in 2 .. MAX_CREDITS
    BY RingDist, SizeInRange
  <2>2. Dist(r, s) + PacketSize(m, s) <= n
    BY DEF Tiling
  <2>3. QED
    BY <2>1, <2>2, CreditsAssumption DEF Offset
<1>2. \A s \in S : PacketSize(m2, s) = PacketSize(m, s)
  BY <1>1 DEF PacketSize
<1>3. QED
  BY <1>2 DEF Tiling

(* A packet written right after the tiled words extends the tiling. *)
LEMMA TilingAppend ==
    ASSUME NEW m \in [Offset -> Word], NEW r \in Offset, NEW n \in 0 .. MAX_CREDITS,
           NEW S \in SUBSET Offset, NEW w \in Offset,
           Tiling(m, r, n, S), w = Wrap(r + n),
           n + PacketSize(m, w) <= MAX_CREDITS
    PROVE  Tiling(m, r, n + PacketSize(m, w), S \cup {w})
<1> DEFINE k == PacketSize(m, w)
<1>1. k \in 2 .. MAX_CREDITS
  BY SizeInRange
<1>2. Dist(r, w) = n
  BY <1>1, CreditsAssumption DEF Dist, Wrap, Offset
<1>3. \A s \in S : PacketSize(m, s) \in 2 .. MAX_CREDITS /\ Dist(r, s) \in Offset
  BY SizeInRange, RingDist, CreditsAssumption
<1>4. n = 0 => w = r
  BY CreditsAssumption DEF Wrap, Offset
<1>5. \A s \in S : Dist(r, s) + PacketSize(m, s) = n => Wrap(s + PacketSize(m, s)) = w
  <2> SUFFICES ASSUME NEW s \in S, Dist(r, s) + PacketSize(m, s) = n
               PROVE  Wrap(s + PacketSize(m, s)) = w
    OBVIOUS
  <2>1. PacketSize(m, s) \in 2 .. MAX_CREDITS /\ s \in Offset
    BY <1>3
  <2> HIDE DEF k
  <2>2. QED
    BY <2>1, <1>1, <1>2, CreditsAssumption DEF Wrap, Dist, Offset
<1>6. \A s \in S : Dist(r, s) + PacketSize(m, s) <= n
  BY DEF Tiling
<1> HIDE DEF k
<1>7. n + k > 0 => r \in S \cup {w}
  BY <1>4, <1>1, CreditsAssumption DEF Tiling
<1>8. k = PacketSize(m, w)
  BY DEF k
<1>9. \A s \in S \cup {w} :
        /\ Dist(r, s) + PacketSize(m, s) <= n + k
        /\ Dist(r, s) + PacketSize(m, s) < n + k => Wrap(s + PacketSize(m, s)) \in S \cup {w}
  <2> SUFFICES ASSUME NEW s \in S
               PROVE  /\ Dist(r, s) + PacketSize(m, s) <= n + k
                      /\ Wrap(s + PacketSize(m, s)) \in S \cup {w}
    BY <1>2, <1>8, <1>1
  <2>2. Dist(r, s) + PacketSize(m, s) <= n /\ Dist(r, s) \in Offset /\ PacketSize(m, s) \in 2 .. MAX_CREDITS
    BY <1>3, <1>6
  <2>3. Dist(r, s) + PacketSize(m, s) < n => Wrap(s + PacketSize(m, s)) \in S
    BY DEF Tiling
  <2>4. QED
    BY <2>2, <2>3, <1>5, <1>1, CreditsAssumption DEF Offset
<1>10. \A s, t \in S \cup {w} :
         Dist(r, s) < Dist(r, t) => Dist(r, s) + PacketSize(m, s) <= Dist(r, t)
  <2>1. \A s, t \in S : Dist(r, s) < Dist(r, t) => Dist(r, s) + PacketSize(m, s) <= Dist(r, t)
    BY DEF Tiling
  <2>2. \A t \in S : ~(Dist(r, w) < Dist(r, t))
    BY <1>2, <1>3, <1>6, CreditsAssumption DEF Offset
  <2>3. \A s \in S : Dist(r, s) + PacketSize(m, s) <= Dist(r, w)
    BY <1>2, <1>6
  <2>4. QED
    BY <2>1, <2>2, <2>3, <1>2
<1>11. QED
  BY <1>7, <1>8, <1>9, <1>10 DEF Tiling

(* Taking the first packet off leaves a tiling of the remaining words. *)
LEMMA TilingPop ==
    ASSUME NEW m \in [Offset -> Word], NEW r \in Offset, NEW n \in 1 .. MAX_CREDITS,
           NEW S \in SUBSET Offset, Tiling(m, r, n, S)
    PROVE  /\ PacketSize(m, r) \in 2 .. n
           /\ Tiling(m, Wrap(r + PacketSize(m, r)), n - PacketSize(m, r), S \ {r})
<1> DEFINE k == PacketSize(m, r)
           q == Wrap(r + k)
<1>1. r \in S /\ k \in 2 .. MAX_CREDITS /\ Dist(r, r) = 0
  BY SizeInRange, RingDist, CreditsAssumption DEF Tiling
<1>2. k \in 2 .. n
  BY <1>1, CreditsAssumption DEF Tiling
<1>3. ASSUME NEW s \in S, s # r
      PROVE  Dist(r, s) >= k /\ Dist(q, s) = Dist(r, s) - k /\ Dist(r, s) \in Offset
             /\ PacketSize(m, s) \in 2 .. MAX_CREDITS
  <2>1. Dist(r, s) \in Offset /\ Dist(r, s) # 0
    BY <1>1, <1>3, RingDist
  <2>2. Dist(r, s) >= k
    BY <2>1, <1>1, CreditsAssumption DEF Tiling, Offset
  <2>3. Dist(q, s) = Dist(r, s) - k
    BY <2>2, <1>1, RingStep
  <2>4. QED
    BY <2>1, <2>2, <2>3, SizeInRange
<1> HIDE DEF k
<1>4. n - k > 0 => q \in S \ {r}
  <2>1. n - k > 0 => q \in S
    BY <1>1, <1>2, CreditsAssumption DEF Tiling, k
  <2>2. n - k > 0 => q # r
    BY <1>2, CreditsAssumption DEF Wrap, Offset
  <2>3. QED
    BY <2>1, <2>2
<1> HIDE DEF q
<1>5. \A s \in S \ {r} :
        /\ Dist(q, s) + PacketSize(m, s) <= n - k
        /\ Dist(q, s) + PacketSize(m, s) < n - k => Wrap(s + PacketSize(m, s)) \in S \ {r}
  <2> SUFFICES ASSUME NEW s \in S, s # r
               PROVE  /\ Dist(q, s) + PacketSize(m, s) <= n - k
                      /\ Dist(q, s) + PacketSize(m, s) < n - k => Wrap(s + PacketSize(m, s)) \in S \ {r}
    OBVIOUS
  <2>1. /\ Dist(r, s) >= k /\ Dist(q, s) = Dist(r, s) - k /\ Dist(r, s) \in Offset
        /\ PacketSize(m, s) \in 2 .. MAX_CREDITS
    BY <1>3
  <2>2. /\ Dist(r, s) + PacketSize(m, s) <= n
        /\ Dist(r, s) + PacketSize(m, s) < n => Wrap(s + PacketSize(m, s)) \in S
    BY DEF Tiling
  <2>3. Dist(r, s) + PacketSize(m, s) < n => Wrap(s + PacketSize(m, s)) # r
    BY <2>1, CreditsAssumption DEF Dist, Wrap, Offset
  <2>4. QED
    BY <2>1, <2>2, <2>3, <1>2, CreditsAssumption DEF Offset
<1>6. \A s, t \in S \ {r} :
         Dist(q, s) < Dist(q, t) => Dist(q, s) + PacketSize(m, s) <= Dist(q, t)
  <2> SUFFICES ASSUME NEW s \in S, s # r, NEW t \in S, t # r, Dist(q, s) < Dist(q, t)
               PROVE  Dist(q, s) + PacketSize(m, s) <= Dist(q, t)
    OBVIOUS
  <2>1. /\ Dist(q, s) = Dist(r, s) - k /\ Dist(q, t) = Dist(r, t) - k
        /\ Dist(r, s) \in Offset /\ Dist(r, t) \in Offset /\ PacketSize(m, s) \in 2 .. MAX_CREDITS
    BY <1>3
  <2>2. Dist(r, s) < Dist(r, t) => Dist(r, s) + PacketSize(m, s) <= Dist(r, t)
    BY DEF Tiling
  <2>3. QED
    BY <2>1, <2>2, <1>2, CreditsAssumption DEF Offset
<1>7. QED
  BY <1>2, <1>4, <1>5, <1>6 DEF Tiling, k, q

-----------------------------------------------------------------------------
(* The inductive invariant of the receive path.                             *)

(* CPU writes are not part of the receive path. *)
NoCpuWrite == ~cap /\ ~buf

IInv ==
    /\ TypeOK
    /\ CreditIsSpace
    /\ PacketsTile
    /\ ArrivalReserved
    /\ DrainsHead
    /\ NoCpuWrite

(* What the link's sender does in a cycle in which it puts fc on the port.  *)
Sends(fc) ==
    \/ ~fc.valid /\ UNCHANGED senderVars
    \/ /\ txNext = 0 /\ fc.valid /\ fc.addr = 0
       /\ fc.word \in Lengths /\ fc.word + 2 <= credit
       /\ txNext' = 1 /\ txLen' = fc.word
    \/ /\ txNext > 0 /\ fc.valid /\ fc.addr = txNext
       /\ txNext' = IF txNext = txLen + 1 THEN 0 ELSE txNext + 1
       /\ txLen' = txLen

(* Every step is a cycle, flushed or not, with the sender's word on the FC  *)
(* port and at most a read on the AHB port.                                 *)
LEMMA NextIsCycle ==
    ASSUME TypeOK, Next
    PROVE  \E fc \in FcInput, ahb \in Idle \cup Reads :
              /\ Sends(fc) /\ UNCHANGED arm
              /\ Clock(fc, ahb, 0) \/ FlushClock(fc, ahb, 0)
<1> DEFINE P == Idle \cup Reads
<1>1. CASE NoWord(P, {0})
  <2>1. NoFc \in FcInput /\ ~NoFc.valid
    BY Inputs DEF NoFc
  <2>2. QED
    BY <1>1, <2>1 DEF NoWord, Cycle, Sends
<1>2. ASSUME NEW l \in Lengths, SendHeader(l, P, {0})
      PROVE  \E fc \in FcInput, ahb \in P :
                /\ Sends(fc) /\ UNCHANGED arm
                /\ Clock(fc, ahb, 0) \/ FlushClock(fc, ahb, 0)
  <2> DEFINE fc == FcWrite(0, l)
  <2>1. l \in Word /\ 0 \in Offset /\ l + 2 <= credit
    BY <1>2, LengthsAssumption, CreditsAssumption, WordAssumption DEF Word, Offset, SendHeader, TypeOK
  <2>2. fc \in FcInput /\ fc.valid /\ fc.addr = 0 /\ fc.word = l
    BY <2>1, Inputs DEF FcWrite
  <2>3. Sends(fc)
    BY <1>2, <2>1, <2>2 DEF SendHeader, StartPacket, Sends
  <2>4. PICK ahb \in P : (Clock(fc, ahb, 0) \/ FlushClock(fc, ahb, 0)) /\ UNCHANGED arm
    BY <1>2 DEF SendHeader, StartPacket, Cycle
  <2>5. QED
    BY <2>2, <2>3, <2>4
<1>3. ASSUME NEW w \in Payloads, SendWord(w, P, {0})
      PROVE  \E fc \in FcInput, ahb \in P :
                /\ Sends(fc) /\ UNCHANGED arm
                /\ Clock(fc, ahb, 0) \/ FlushClock(fc, ahb, 0)
  <2> DEFINE fc == FcWrite(txNext, w)
  <2>1. w \in Word /\ txNext \in Offset
    BY PayloadsAssumption DEF Word, TypeOK
  <2>2. fc \in FcInput /\ fc.valid /\ fc.addr = txNext
    BY <2>1, Inputs DEF FcWrite
  <2>3. Sends(fc)
    BY <1>3, <2>2 DEF SendWord, Sends
  <2>4. PICK ahb \in P : (Clock(fc, ahb, 0) \/ FlushClock(fc, ahb, 0)) /\ UNCHANGED arm
    BY <1>3 DEF SendWord, Cycle
  <2>5. QED
    BY <2>2, <2>3, <2>4
<1>4. QED
  BY <1>1, <1>2, <1>3 DEF Next, Link

(* The sender's position stays within the packet it announced. *)
LEMMA SenderStep ==
    ASSUME txNext \in Offset, txLen \in PacketLength, txNext > 0 => txNext <= txLen + 1,
           NEW fc \in FcInput, Sends(fc)
    PROVE  /\ txNext' \in Offset /\ txLen' \in PacketLength
           /\ txNext' > 0 => txNext' <= txLen' + 1
<1>1. CASE UNCHANGED senderVars
  BY <1>1 DEF senderVars
<1>2. CASE fc.word \in Lengths /\ txNext' = 1 /\ txLen' = fc.word
  <2>1. txLen' \in PacketLength
    BY <1>2, LengthsFit
  <2>2. QED
    BY <1>2, <2>1, CreditsAssumption DEF Offset, PacketLength
<1>3. CASE txNext > 0 /\ txNext' = (IF txNext = txLen + 1 THEN 0 ELSE txNext + 1) /\ txLen' = txLen
  BY <1>3, CreditsAssumption DEF Offset, PacketLength
<1>4. QED
  BY <1>1, <1>2, <1>3 DEF Sends

(* The type invariant survives every cycle. *)
LEMMA TypeStep ==
    ASSUME TypeOK, NEW fc \in FcInput, NEW ahb \in AhbInput, NEW hw \in Word,
           Sends(fc), UNCHANGED arm, txNext > 0 => txNext <= txLen + 1,
           Clock(fc, ahb, hw) \/ FlushClock(fc, ahb, hw)
    PROVE  TypeOK'
<1>1. ClockTypeOK'
  BY ClockType DEF TypeOK, ClockTypeOK
<1>2. txNext' \in Offset /\ txLen' \in PacketLength
  BY SenderStep DEF TypeOK
<1>3. QED
  BY <1>1, <1>2 DEF TypeOK, ClockTypeOK

(* A flushed cycle empties the FIFO; what is left of a packet that was      *)
(* arriving will arrive into an empty FIFO and never commit.                *)
LEMMA FlushStep ==
    ASSUME IInv, TypeOK', NEW fc \in FcInput, NEW ahb \in Idle \cup Reads,
           Sends(fc), FlushClock(fc, ahb, 0)
    PROVE  IInv'
<1>1. /\ rptr' = 0 /\ wptr' = 0 /\ credit' = MAX_CREDITS
      /\ wact' = FALSE /\ ract' = FALSE /\ chk' = FALSE /\ cap' = FALSE
  BY DEF FlushClock, ResetRegisters
<1>2. CreditIsSpace'
  BY <1>1, CreditsAssumption DEF CreditIsSpace, Used, Wrap
<1>3. PacketsTile'
  <2>1. Tiling(mem', rptr', Used', {})
    BY <1>1, CreditsAssumption DEF Tiling, Used
  <2>2. QED
    BY <2>1 DEF PacketsTile
<1>4. ArrivalReserved'
  BY <1>1, SenderStep DEF ArrivalReserved, IInv, RxFifoEmpty, TypeOK
<1>5. DrainsHead'
  BY <1>1 DEF DrainsHead
<1>6. ~IsWrite(ahb)
  BY DEF IsWrite, Idle, Reads, NoAhb, AhbRead
<1>7. NoCpuWrite'
  BY <1>1, <1>6 DEF NoCpuWrite, FlushClock, Sram
<1>8. QED
  BY <1>2, <1>3, <1>4, <1>5, <1>7 DEF IInv

(* In a cycle that is not flushed the FC word lands beyond the used words,  *)
(* credit pays for a committed packet in full, and a drained packet's       *)
(* credit fits below MAX_CREDITS.                                           *)
LEMMA CycleEffect ==
    ASSUME IInv, NEW fc \in FcInput, NEW ahb \in Idle \cup Reads,
           Sends(fc), Clock(fc, ahb, 0),
           NEW S \in SUBSET Offset, Tiling(mem, rptr, Used, S)
    PROVE  LET wc == wact /\ fc.valid /\ fc.addr = wlen + 1
               rc == ReadComplete(ahb)
               dw == IF wc THEN wlen + 2 ELSE 0
               dr == IF rc THEN rlen + 2 ELSE 0
           IN  /\ WriteComplete(fc, ahb) = wc
               /\ credit >= dw /\ Used >= dr
               /\ credit' = credit - dw + dr
               /\ wptr' = Wrap(wptr + dw)
               /\ rptr' = Wrap(rptr + dr)
               /\ fc.valid => fc.addr < credit
               /\ mem' = IF fc.valid THEN [mem EXCEPT ![Wrap(wptr + fc.addr)] = fc.word] ELSE mem
<1> DEFINE wc == wact /\ fc.valid /\ fc.addr = wlen + 1
           rc == ReadComplete(ahb)
<1>1. ~IsWrite(ahb)
  BY DEF IsWrite, Idle, Reads, NoAhb, AhbRead
<1>2. WriteComplete(fc, ahb) = wc
  BY <1>1 DEF WriteComplete, WriteTarget
<1>3. wc => credit >= wlen + 2
  BY DEF IInv, ArrivalReserved
<1>4. rc => Used >= rlen + 2
  <2>1. rc => Used \in 1 .. MAX_CREDITS /\ rlen + 2 = PacketSize(mem, rptr)
    BY CreditsAssumption DEF ReadComplete, IInv, DrainsHead, TypeOK, Used
  <2>2. rc => PacketSize(mem, rptr) \in 2 .. Used
    BY <2>1, TilingPop DEF IInv, TypeOK
  <2>3. QED
    BY <2>1, <2>2, CreditsAssumption DEF IInv, TypeOK, Used
<1>5. fc.valid => fc.addr < credit
  <2>1. ASSUME fc.valid, txNext = 0, fc.addr = 0, fc.word \in Lengths, fc.word + 2 <= credit
        PROVE  fc.addr < credit
    <3>1. fc.word \in PacketLength
      BY <2>1, LengthsFit
    <3>2. QED
      BY <2>1, <3>1, CreditsAssumption DEF IInv, TypeOK, PacketLength
  <2>2. ASSUME fc.valid, txNext > 0, fc.addr = txNext
        PROVE  fc.addr < credit
    BY <2>2, CreditsAssumption
       DEF IInv, TypeOK, ArrivalReserved, RxFifoEmpty, Offset, PacketLength
  <2>3. QED
    BY <2>1, <2>2 DEF Sends
<1>6. mem' = IF fc.valid THEN [mem EXCEPT ![Wrap(wptr + fc.addr)] = fc.word] ELSE mem
  BY DEF Clock, Sram, IInv, NoCpuWrite
<1> HIDE DEF wc, rc
<1>7. Pointers(wc, rc) /\ CreditCounter(wc, rc)
  BY <1>2 DEF Clock, rc
<1>8. CreditAfterWrite(wc) = credit - (IF wc THEN wlen + 2 ELSE 0)
  BY <1>3, CreditsAssumption DEF CreditAfterWrite, WriteDelta, IInv, TypeOK, PacketLength
<1>9. rc => ~ReadWouldOvermint(wc)
  BY <1>4, <1>8, CreditsAssumption
     DEF ReadWouldOvermint, ReadDelta, Used, IInv, TypeOK, PacketLength
<1>10. /\ credit' = credit - (IF wc THEN wlen + 2 ELSE 0) + (IF rc THEN rlen + 2 ELSE 0)
       /\ wptr' = Wrap(wptr + (IF wc THEN wlen + 2 ELSE 0))
       /\ rptr' = Wrap(rptr + (IF rc THEN rlen + 2 ELSE 0))
  BY <1>7, <1>8, <1>9, CreditsAssumption
     DEF Pointers, CreditCounter, ReadDelta, WriteDelta, Wrap, IInv, TypeOK, Offset, PacketLength
<1>11. QED
  BY <1>2, <1>3, <1>4, <1>5, <1>6, <1>10, CreditsAssumption DEF wc, rc, IInv, TypeOK, Used

(* A flush aside, a cycle writes no SRAM word that was in use. *)
LEMMA UsedWordsKept ==
    ASSUME IInv, NEW fc \in FcInput, NEW ahb \in Idle \cup Reads, Sends(fc), Clock(fc, ahb, 0)
    PROVE  /\ fc.valid => credit > 0
           /\ \A a \in Offset : Dist(rptr, a) < Used => mem'[a] = mem[a]
<1>0. TypeOK /\ fc.valid \in BOOLEAN /\ fc.addr \in Offset
  BY DEF IInv, FcInput
<1>1. PICK S \in SUBSET Offset : Tiling(mem, rptr, Used, S)
  BY DEF IInv, PacketsTile
<1>2. /\ fc.valid => fc.addr < credit
      /\ mem' = IF fc.valid THEN [mem EXCEPT ![Wrap(wptr + fc.addr)] = fc.word] ELSE mem
  BY <1>1, CycleEffect
<1>3. Used \in 0 .. MAX_CREDITS /\ (fc.valid => credit > 0 /\ Used + fc.addr < MAX_CREDITS)
  <2>1. credit \in 0 .. MAX_CREDITS
    BY <1>0 DEF TypeOK
  <2>2. QED
    BY <1>0, <1>2, <2>1, CreditsAssumption DEF Offset, Used
<1>4. wptr = Wrap(rptr + Used)
  BY DEF IInv, CreditIsSpace
<1>5. fc.valid => Dist(rptr, Wrap(wptr + fc.addr)) = Used + fc.addr
  BY <1>0, <1>3, <1>4, RingFree DEF TypeOK
<1>6. ASSUME NEW a \in Offset, Dist(rptr, a) < Used, fc.valid
      PROVE  Wrap(wptr + fc.addr) # a
  <2>1. Dist(rptr, a) \in Offset
    BY <1>0, RingDist DEF TypeOK
  <2>2. Dist(rptr, a) # Used + fc.addr
    BY <1>0, <1>3, <1>6, <2>1, CreditsAssumption DEF Offset
  <2>3. QED
    BY <1>5, <1>6, <2>2
<1>7. \A a \in Offset : Dist(rptr, a) < Used => mem'[a] = mem[a]
  BY <1>0, <1>2, <1>6 DEF TypeOK
<1>8. QED
  BY <1>3, <1>7

(* A cycle that is not flushed preserves the inductive invariant. *)
LEMMA ClockStep ==
    ASSUME IInv, TypeOK', NEW fc \in FcInput, NEW ahb \in Idle \cup Reads,
           Sends(fc), Clock(fc, ahb, 0)
    PROVE  IInv'
<1> DEFINE wc == wact /\ fc.valid /\ fc.addr = wlen + 1
           rc == ReadComplete(ahb)
           dw == IF wc THEN wlen + 2 ELSE 0
           dr == IF rc THEN rlen + 2 ELSE 0
<1>0. TypeOK /\ fc.valid \in BOOLEAN /\ fc.addr \in Offset /\ fc.word \in Word
  BY DEF IInv, FcInput
<1>1. PICK S \in SUBSET Offset : Tiling(mem, rptr, Used, S)
  BY DEF IInv, PacketsTile
<1>2. /\ WriteComplete(fc, ahb) = wc
      /\ credit >= dw /\ Used >= dr
      /\ credit' = credit - dw + dr
      /\ wptr' = Wrap(wptr + dw)
      /\ rptr' = Wrap(rptr + dr)
      /\ fc.valid => fc.addr < credit
      /\ mem' = IF fc.valid THEN [mem EXCEPT ![Wrap(wptr + fc.addr)] = fc.word] ELSE mem
  BY <1>1, CycleEffect
<1>3. dw \in 0 .. MAX_CREDITS /\ dr \in 0 .. MAX_CREDITS /\ Used \in 0 .. MAX_CREDITS
      /\ Used' = Used + dw - dr
  BY <1>0, <1>2, CreditsAssumption DEF TypeOK, PacketLength, Used
<1>4. ~IsWrite(ahb)
  BY DEF IsWrite, Idle, Reads, NoAhb, AhbRead
<1>5. CreditIsSpace'
  <2> HIDE DEF dw, dr
  <2>1. /\ dr <= Used /\ Used + dw - dr \in 0 .. MAX_CREDITS /\ Used + dw <= MAX_CREDITS
        /\ rptr \in Offset
    BY <1>0, <1>2, <1>3, CreditsAssumption DEF TypeOK, Used
  <2>2. Wrap(Wrap(rptr + Used) + dw) = Wrap(Wrap(rptr + dr) + (Used + dw - dr))
    BY <1>3, <2>1, PointersMoved
  <2>3. QED
    BY <1>2, <1>3, <2>2 DEF IInv, CreditIsSpace
<1>6. \A a \in Offset : Dist(rptr, a) < Used => mem'[a] = mem[a]
  BY UsedWordsKept
<1>7. wc => mem'[wptr] = mem[wptr]
  <2>1. wc => Wrap(wptr + fc.addr) # wptr
    <3>1. wlen + 1 > 0 /\ 0 \in 0 .. MAX_CREDITS
      BY <1>0, CreditsAssumption DEF TypeOK, PacketLength
    <3>2. QED
      BY <1>0, <3>1, RingFree DEF TypeOK
  <2>2. QED
    BY <1>0, <1>2, <2>1 DEF TypeOK
<1>8. wc => PacketSize(mem', wptr) = wlen + 2
  BY <1>0, <1>7, CreditsAssumption DEF PacketSize, ClampLength, IInv, ArrivalReserved, TypeOK, PacketLength
<1>9. Used > 0 => PacketSize(mem', rptr) = PacketSize(mem, rptr)
  BY <1>0, <1>6, RingDist DEF PacketSize, TypeOK
<1>10. PacketsTile'
  <2>1. Tiling(mem', rptr, Used, S)
    BY <1>0, <1>1, <1>3, <1>6, TilingFrame DEF TypeOK
  <2>2. PICK T \in SUBSET Offset : Tiling(mem', rptr, Used + dw, T)
    <3>1. CASE wc
      <4>1. Used + PacketSize(mem', wptr) <= MAX_CREDITS
        BY <1>0, <1>2, <1>8, <3>1, CreditsAssumption DEF Used, TypeOK, PacketLength
      <4>2. Tiling(mem', rptr, Used + PacketSize(mem', wptr), S \cup {wptr})
        BY <1>0, <1>3, <2>1, <4>1, TilingAppend DEF IInv, CreditIsSpace, TypeOK
      <4>3. S \cup {wptr} \in SUBSET Offset /\ Used + dw = Used + PacketSize(mem', wptr)
        BY <1>0, <1>8, <3>1 DEF TypeOK
      <4>4. QED
        BY <4>2, <4>3
    <3>2. CASE ~wc
      BY <1>3, <2>1, <3>2
    <3>3. QED
      BY <3>1, <3>2
  <2>3. CASE rc
    <3>1. Used > 0 /\ PacketSize(mem', rptr) = dr
      BY <1>0, <1>9, <2>3 DEF ReadComplete, IInv, DrainsHead
    <3>2. Used + dw \in 1 .. MAX_CREDITS
      BY <1>0, <1>2, <1>3, <3>1, CreditsAssumption DEF Used, TypeOK
    <3>3. Tiling(mem', Wrap(rptr + dr), (Used + dw) - dr, T \ {rptr})
      <4> DEFINE n == Used + dw
      <4>1. mem' \in [Offset -> Word] /\ rptr \in Offset
        BY <1>0 DEF TypeOK
      <4>2. n \in 1 .. MAX_CREDITS /\ Tiling(mem', rptr, n, T)
        BY <2>2, <3>2
      <4> HIDE DEF n, dw, dr
      <4>3. Tiling(mem', Wrap(rptr + PacketSize(mem', rptr)), n - PacketSize(mem', rptr), T \ {rptr})
        BY <4>1, <4>2, TilingPop
      <4>4. QED
        BY <3>1, <4>3 DEF n
    <3>5. Tiling(mem', rptr', Used', T \ {rptr})
      <4>1. Used' = (Used + dw) - dr
        BY <1>3
      <4>2. QED
        BY <1>2, <3>3, <4>1
    <3>4. QED
      BY <3>5 DEF PacketsTile
  <2>4. CASE ~rc
    <3>1. rptr' = rptr /\ Used' = Used + dw
      <4>1. dr = 0
        BY <2>4
      <4> HIDE DEF wc, rc, dw, dr
      <4>2. rptr' = rptr
        BY <1>0, <1>2, <4>1, CreditsAssumption DEF Wrap, TypeOK, Offset
      <4>3. Used' = Used + dw
        BY <1>3, <4>1, CreditsAssumption
      <4>4. QED
        BY <4>2, <4>3
    <3>2. QED
      BY <2>2, <3>1 DEF PacketsTile
  <2>5. QED
    BY <2>3, <2>4
<1>11. WriteSide(fc, 0, wc) /\ ReadSide(ahb, rc) /\ Sram(fc, ahb, 0) /\ CaptureWriteLength(ahb)
  BY <1>2 DEF Clock
<1>12. ArrivalReserved'
  <2>1. txNext' > 0 => txNext' <= txLen' + 1
    BY <1>0, SenderStep DEF IInv, ArrivalReserved, TypeOK
  <2>2. ~wc => wptr' = wptr /\ credit' >= credit
    BY <1>0, <1>2, <1>3, CreditsAssumption DEF Wrap, TypeOK, Offset
  <2>3. CASE ~fc.valid /\ UNCHANGED senderVars
    <3>1. ~wc /\ ~FcWriteAddr0(fc) /\ ~cap
      BY <2>3 DEF FcWriteAddr0, IInv, NoCpuWrite
    <3>2. UNCHANGED <<wlen, wact, mem, txNext, txLen>>
      BY <1>2, <1>11, <2>3, <3>1 DEF WriteSide, senderVars
    <3>3. ~wact => credit' = credit \/ ~RxFifoEmpty
      BY <1>2, <1>3, <3>1, <1>0, CreditsAssumption DEF RxFifoEmpty, ReadComplete, IInv, DrainsHead, Used, TypeOK
    <3>4. QED
      BY <1>0, <2>1, <2>2, <3>1, <3>2, <3>3, CreditsAssumption
         DEF IInv, ArrivalReserved, RxFifoEmpty, TypeOK, PacketLength
  <2>4. CASE /\ txNext = 0 /\ fc.valid /\ fc.addr = 0
             /\ fc.word \in Lengths /\ fc.word + 2 <= credit
             /\ txNext' = 1 /\ txLen' = fc.word
    <3>1. ~wact
      BY <2>4 DEF IInv, ArrivalReserved
    <3>2. ~wc /\ FcWriteAddr0(fc)
      BY <2>4, <3>1 DEF FcWriteAddr0
    <3>3. fc.word \in PacketLength /\ ClampLength(fc.word) = fc.word
      BY <2>4, LengthsFit, CreditsAssumption DEF ClampLength, PacketLength
    <3>4. wact' = TRUE /\ wlen' = fc.word
      BY <1>11, <3>2, <3>3 DEF WriteSide
    <3>5. Wrap(wptr + fc.addr) = wptr
      BY <1>0, <2>4, CreditsAssumption DEF Wrap, TypeOK, Offset
    <3>6. mem'[wptr] = fc.word
      BY <1>0, <1>2, <2>4, <3>5 DEF TypeOK
    <3>7. QED
      BY <1>0, <2>1, <2>2, <2>4, <3>2, <3>3, <3>4, <3>6, CreditsAssumption
         DEF ArrivalReserved, TypeOK, PacketLength
  <2>5. CASE /\ txNext > 0 /\ fc.valid /\ fc.addr = txNext
             /\ txNext' = IF txNext = txLen + 1 THEN 0 ELSE txNext + 1
             /\ txLen' = txLen
    <3>1. ~FcWriteAddr0(fc) /\ ~cap
      BY <1>0, <2>5 DEF FcWriteAddr0, IInv, NoCpuWrite
    <3>2. CASE wc
      <4>1. wact' = FALSE
        BY <1>11, <3>2 DEF WriteSide
      <4>2. txNext' = 0
        BY <2>5, <3>2 DEF IInv, ArrivalReserved
      <4>3. QED
        BY <4>1, <4>2 DEF ArrivalReserved
    <3>3. CASE ~wc
      <4>1. UNCHANGED <<wlen, wact>>
        BY <1>11, <3>1, <3>3 DEF WriteSide
      <4>2. CASE wact
        <5>1. Wrap(wptr + fc.addr) # wptr
          BY <1>0, <2>5, CreditsAssumption DEF Wrap, TypeOK, Offset
        <5>2. mem'[wptr] = mem[wptr]
          BY <1>0, <1>2, <5>1 DEF TypeOK
        <5>3. txNext' > 0
          BY <1>0, <2>5, <3>3, <4>2, CreditsAssumption DEF IInv, ArrivalReserved, TypeOK, Offset
        <5>4. QED
          BY <1>0, <2>1, <2>2, <2>5, <3>3, <4>1, <4>2, <5>2, <5>3, CreditsAssumption
             DEF IInv, ArrivalReserved, TypeOK, PacketLength
      <4>3. CASE ~wact
        <5>1. RxFifoEmpty /\ ~rc
          BY <1>0, <2>5, <4>3, CreditsAssumption
             DEF IInv, ArrivalReserved, RxFifoEmpty, ReadComplete, DrainsHead, Used, TypeOK
        <5>2. credit' = credit
          BY <1>0, <1>2, <3>3, <5>1, CreditsAssumption DEF TypeOK
        <5>3. QED
          BY <2>1, <4>1, <4>3, <5>1, <5>2 DEF ArrivalReserved, RxFifoEmpty
      <4>4. QED
        BY <4>2, <4>3
    <3>4. QED
      BY <3>2, <3>3
  <2>6. QED
    BY <2>3, <2>4, <2>5 DEF Sends
<1>13. DrainsHead'
  <2>1. CASE rc
    BY <1>11, <2>1 DEF ReadSide, DrainsHead
  <2>2. CASE ~rc
    <3>1. rptr' = rptr /\ (Used > 0 => Used' > 0)
      <4>1. dr = 0
        BY <2>2
      <4> HIDE DEF wc, rc, dw, dr
      <4>2. rptr' = rptr
        BY <1>0, <1>2, <4>1, CreditsAssumption DEF Wrap, TypeOK, Offset
      <4>3. Used > 0 => Used' > 0
        BY <1>3, <4>1, CreditsAssumption
      <4>4. QED
        BY <4>2, <4>3
    <3>2. CASE ReadAddr0(ahb) /\ ~RxFifoEmpty
      <4>1. Used > 0
        BY <1>0, <3>2, CreditsAssumption DEF RxFifoEmpty, Used, TypeOK
      <4>2. raddr' = rptr /\ rlen' = rlen /\ ract' = ract
        BY <1>11, <2>2, <3>2 DEF Sram, ReadSide
      <4>3. QED
        BY <1>9, <3>1, <4>1, <4>2 DEF IInv, DrainsHead
    <3>3. CASE ~(ReadAddr0(ahb) /\ ~RxFifoEmpty) /\ chk
      <4>1. rlen' = ClampLength(mem[raddr]) /\ chk' = FALSE
        BY <1>11, <2>2, <3>3 DEF ReadSide
      <4>2. Used > 0 /\ raddr = rptr
        BY <3>3 DEF IInv, DrainsHead
      <4>3. rlen' + 2 = PacketSize(mem, rptr)
        BY <4>1, <4>2 DEF PacketSize
      <4>4. QED
        BY <1>9, <3>1, <4>1, <4>2, <4>3 DEF DrainsHead
    <3>4. CASE ~(ReadAddr0(ahb) /\ ~RxFifoEmpty) /\ ~chk
      <4>1. UNCHANGED <<rlen, ract, chk>>
        BY <1>11, <2>2, <3>4 DEF ReadSide
      <4>2. QED
        BY <1>9, <3>1, <3>4, <4>1 DEF IInv, DrainsHead
    <3>5. QED
      BY <3>2, <3>3, <3>4
  <2>3. QED
    BY <2>1, <2>2
<1>14. NoCpuWrite'
  BY <1>4, <1>11 DEF NoCpuWrite, IInv, CaptureWriteLength, Sram, AhbPktStartOk, AhbWriteAddr0
<1>15. QED
  BY <1>5, <1>10, <1>12, <1>13, <1>14 DEF IInv

(* Every step of the receive path preserves the inductive invariant. *)
LEMMA IInvStep ==
    ASSUME IInv, [Next]_vars
    PROVE  IInv'
<1>1. CASE Next
  <2>1. PICK fc \in FcInput, ahb \in Idle \cup Reads :
          /\ Sends(fc) /\ UNCHANGED arm
          /\ Clock(fc, ahb, 0) \/ FlushClock(fc, ahb, 0)
    BY <1>1, NextIsCycle DEF IInv
  <2>2. ahb \in AhbInput /\ 0 \in Word
    BY Inputs, WordAssumption DEF Word
  <2>3. TypeOK'
    BY <2>1, <2>2, TypeStep DEF IInv, ArrivalReserved
  <2>4. QED
    BY <2>1, <2>3, ClockStep, FlushStep
<1>2. CASE UNCHANGED vars
  <2>1. /\ TypeOK' = TypeOK /\ CreditIsSpace' = CreditIsSpace
        /\ ArrivalReserved' = ArrivalReserved /\ DrainsHead' = DrainsHead
        /\ NoCpuWrite' = NoCpuWrite /\ mem' = mem /\ rptr' = rptr /\ Used' = Used
    BY <1>2 DEF vars, TypeOK, CreditIsSpace, ArrivalReserved, DrainsHead, NoCpuWrite, Used, RxFifoEmpty
  <2>2. PacketsTile'
    BY <2>1 DEF IInv, PacketsTile
  <2>3. QED
    BY <2>1, <2>2 DEF IInv
<1>3. QED
  BY <1>1, <1>2

(* The reset state satisfies the inductive invariant. *)
LEMMA IInvInit ==
    ASSUME Init
    PROVE  IInv
<1>1. 0 \in Offset /\ 0 \in Word /\ 0 \in PacketLength /\ MAX_CREDITS \in 0 .. MAX_CREDITS
  BY CreditsAssumption, WordAssumption DEF Offset, Word, PacketLength
<1>2. mem \in [Offset -> Word]
  BY <1>1 DEF Init
<1>3. TypeOK
  BY <1>1, <1>2, Zenon DEF Init, TypeOK
<1>4. CreditIsSpace
  BY CreditsAssumption DEF Init, CreditIsSpace, Used, Wrap
<1>5. PacketsTile
  <2>1. Tiling(mem, rptr, Used, {})
    BY CreditsAssumption DEF Init, Tiling, Used
  <2>2. QED
    BY <2>1 DEF PacketsTile
<1>6. ArrivalReserved /\ DrainsHead /\ NoCpuWrite
  BY DEF Init, ArrivalReserved, DrainsHead, NoCpuWrite
<1>7. QED
  BY <1>3, <1>4, <1>5, <1>6 DEF IInv

(* The receive path keeps its inductive invariant: types, credit and        *)
(* pointers in agreement, packets laid end to end, the arriving packet's    *)
(* room reserved and the drained packet the oldest one.                     *)
THEOREM ReceivePathInvariant == Spec => []IInv
<1>1. Init => IInv
  BY IInvInit
<1>2. IInv /\ [Next]_vars => IInv'
  BY IInvStep
<1>3. QED
  BY <1>1, <1>2, PTL DEF Spec

(* Type correctness of the receive path; in particular the credit count     *)
(* never leaves 0 .. MAX_CREDITS and the pointers never leave the SRAM.     *)
THEOREM TypeCorrect == Spec => []TypeOK
<1>1. IInv => TypeOK
  BY DEF IInv
<1>2. QED
  BY <1>1, ReceivePathInvariant, PTL

(* The credit counter and the pointer logic always agree. *)
THEOREM CreditIsSpaceAlways == Spec => []CreditIsSpace
<1>1. IInv => CreditIsSpace
  BY DEF IInv
<1>2. QED
  BY <1>1, ReceivePathInvariant, PTL

(* The reader's walk from header to header meets exactly the committed      *)
(* packets.                                                                 *)
THEOREM PacketsTileAlways == Spec => []PacketsTile
<1>1. IInv => PacketsTile
  BY DEF IInv
<1>2. QED
  BY <1>1, ReceivePathInvariant, PTL

(* A drain in progress always has the length of the oldest packet, however  *)
(* arriving packets interleave with it.                                     *)
THEOREM DrainsHeadAlways == Spec => []DrainsHead
<1>1. IInv => DrainsHead
  BY DEF IInv
<1>2. QED
  BY <1>1, ReceivePathInvariant, PTL

(* The clamp of the credit counter at MAX_CREDITS never acts on the receive *)
(* path.                                                                    *)
THEOREM OvermintInertAlways == Spec => []OvermintInert
<1>1. ASSUME IInv PROVE OvermintInert
  <2>1. PICK S \in SUBSET Offset : Tiling(mem, rptr, Used, S)
    BY <1>1 DEF IInv, PacketsTile
  <2>2. ract => Used \in 1 .. MAX_CREDITS /\ rlen + 2 = PacketSize(mem, rptr)
    BY <1>1, CreditsAssumption DEF IInv, DrainsHead, TypeOK, Used
  <2>3. ract => PacketSize(mem, rptr) \in 2 .. Used
    BY <1>1, <2>1, <2>2, TilingPop DEF IInv, TypeOK
  <2>4. QED
    BY <1>1, <2>2, <2>3, CreditsAssumption DEF OvermintInert, IInv, TypeOK, Used, PacketLength
<1>2. QED
  BY <1>1, ReceivePathInvariant, PTL

(* No step of the receive path changes a word of a packet that stays        *)
(* committed: what the reader reads is what arrived.                        *)
THEOREM CommittedWordsStableAlways == Spec => CommittedWordsStable
<1> DEFINE Kept == \A a \in Offset :
                Dist(rptr, a) < Used /\ Dist(rptr', a) < Used' => mem'[a] = mem[a]
<1>1. ASSUME IInv, Next PROVE Kept
  <2>1. PICK fc \in FcInput, ahb \in Idle \cup Reads :
          /\ Sends(fc) /\ UNCHANGED arm
          /\ Clock(fc, ahb, 0) \/ FlushClock(fc, ahb, 0)
    BY <1>1, NextIsCycle DEF IInv
  <2>2. CASE Clock(fc, ahb, 0)
    BY <1>1, <2>1, <2>2, UsedWordsKept
  <2>3. CASE FlushClock(fc, ahb, 0)
    <3>1. Used' = 0 /\ rptr' = 0
      BY <2>3, CreditsAssumption DEF FlushClock, ResetRegisters, Used
    <3>2. \A a \in Offset : Dist(rptr', a) \in Offset
      BY <3>1, RingDist, CreditsAssumption DEF Offset
    <3>3. QED
      BY <3>1, <3>2, CreditsAssumption DEF Offset
  <2>4. QED
    BY <2>1, <2>2, <2>3
<1>2. IInv /\ [Next]_vars => [Kept]_vars
  BY <1>1
<1>3. QED
  BY <1>2, ReceivePathInvariant, PTL DEF Spec, CommittedWordsStable

(* Credit-admitted writes never raise OVERRUN. *)
THEOREM NoOverrunAlways == Spec => []NoOverrun
<1>1. Init => NoOverrun
  BY DEF Init, NoOverrun
<1>2. ASSUME IInv, NoOverrun, [Next]_vars PROVE NoOverrun'
  <2>1. CASE Next
    <3>1. PICK fc \in FcInput, ahb \in Idle \cup Reads :
            /\ Sends(fc) /\ UNCHANGED arm
            /\ Clock(fc, ahb, 0) \/ FlushClock(fc, ahb, 0)
      BY <1>2, <2>1, NextIsCycle DEF IInv
    <3>2. CASE Clock(fc, ahb, 0)
      <4>1. ~IsWrite(ahb)
        BY <3>1 DEF IsWrite, Idle, Reads, NoAhb, AhbRead
      <4>2. fc.valid => credit # 0
        BY <1>2, <3>1, <3>2, UsedWordsKept DEF IInv, TypeOK
      <4>3. QED
        BY <1>2, <3>2, <4>1, <4>2 DEF Clock, StickyFlags, OverrunEvent, NoOverrun
    <3>3. CASE FlushClock(fc, ahb, 0)
      BY <3>3 DEF FlushClock, ResetRegisters, NoOverrun
    <3>4. QED
      BY <3>1, <3>2, <3>3
  <2>2. CASE UNCHANGED vars
    BY <1>2, <2>2 DEF vars, NoOverrun
  <2>3. QED
    BY <1>2, <2>1, <2>2
<1>3. QED
  BY <1>1, <1>2, ReceivePathInvariant, PTL DEF Spec
-----------------------------------------------------------------------------
(* The packet interrupt.  Reading a header clears it, and only a later      *)
(* commit raises it again: while it is up, the drain in progress, or the    *)
(* one whose header is on its way, is not of the last committed packet.     *)
IrqLeavesPacket ==
    irq => /\ Used > 0
           /\ chk => Used > PacketSize(mem, rptr)
           /\ ract => Used > rlen + 2

(* A cycle that is not flushed leaves a packet behind a raised interrupt. *)
LEMMA IrqClockStep ==
    ASSUME IInv, IrqLeavesPacket, TypeOK', NEW fc \in FcInput, NEW ahb \in Idle \cup Reads,
           Sends(fc), Clock(fc, ahb, 0)
    PROVE  IrqLeavesPacket'
<1> DEFINE wc == wact /\ fc.valid /\ fc.addr = wlen + 1
           rc == ReadComplete(ahb)
           dw == IF wc THEN wlen + 2 ELSE 0
           dr == IF rc THEN rlen + 2 ELSE 0
           size == PacketSize(mem, rptr)
<1>0. TypeOK
  BY DEF IInv
<1>1. PICK S \in SUBSET Offset : Tiling(mem, rptr, Used, S)
  BY DEF IInv, PacketsTile
<1>2. /\ WriteComplete(fc, ahb) = wc
      /\ credit >= dw /\ Used >= dr
      /\ credit' = credit - dw + dr
      /\ rptr' = Wrap(rptr + dr)
  BY <1>1, CycleEffect
<1>3. dw \in 0 .. MAX_CREDITS /\ dr \in 0 .. MAX_CREDITS /\ Used \in 0 .. MAX_CREDITS
      /\ Used' = Used + dw - dr
  BY <1>0, <1>2, CreditsAssumption DEF TypeOK, PacketLength, Used
<1>4. ReadSide(ahb, rc) /\ PacketCommittedIrq(ahb, wc)
  BY <1>2 DEF Clock
<1>5. Used > 0 => size \in 2 .. Used
  <2>1. Used > 0 => Used \in 1 .. MAX_CREDITS
    BY <1>3, CreditsAssumption
  <2>2. QED
    BY <1>0, <1>1, <2>1, TilingPop DEF TypeOK
<1>6. Used > 0 => PacketSize(mem', rptr) = size
  <2>1. \A a \in Offset : Dist(rptr, a) < Used => mem'[a] = mem[a]
    BY UsedWordsKept
  <2>2. QED
    BY <1>0, <2>1, RingDist DEF PacketSize, TypeOK
<1>7. /\ ract => Used > 0 /\ rlen + 2 = size
      /\ chk => Used > 0 /\ ClampLength(mem[raddr]) + 2 = size
  BY DEF IInv, DrainsHead, PacketSize
<1>8. wc => dw >= 2
  BY <1>0 DEF TypeOK, PacketLength
<1>9. CASE rc
  <2>1. ~chk' /\ ~ract'
    BY <1>4, <1>9 DEF ReadSide
  <2>2. ract /\ dr = size /\ dr = rlen + 2 /\ ~ReadAddr0(ahb)
    BY <1>0, <1>7, <1>9, CreditsAssumption DEF ReadComplete, ReadTarget, ReadAddr0, TypeOK, PacketLength
  <2>3. irq' => wc \/ irq
    BY <1>4 DEF PacketCommittedIrq
  <2> HIDE DEF wc, rc, dw, dr, size
  <2>4. irq' => Used' > 0
    BY <1>2, <1>3, <1>8, <2>2, <2>3 DEF IrqLeavesPacket
  <2>5. QED
    BY <2>1, <2>4 DEF IrqLeavesPacket
<1>10. CASE ~rc
  <2>1. rptr' = rptr /\ Used' = Used + dw
    <3>1. dr = 0
      BY <1>10
    <3> HIDE DEF wc, rc, dw, dr
    <3>2. rptr' = rptr
      BY <1>0, <1>2, <3>1, CreditsAssumption DEF Wrap, TypeOK, Offset
    <3>3. Used' = Used + dw
      BY <1>3, <3>1, CreditsAssumption
    <3>4. QED
      BY <3>2, <3>3
  <2>2. /\ chk' => Used > 0 /\ ReadAddr0(ahb)
        /\ ract' => \/ ract /\ rlen' = rlen
                    \/ chk /\ rlen' + 2 = size
    BY <1>0, <1>3, <1>4, <1>7, <1>10, CreditsAssumption
       DEF ReadSide, RxFifoEmpty, Used, TypeOK
  <2>3. irq' => wc \/ (irq /\ ~ReadAddr0(ahb))
    BY <1>4 DEF PacketCommittedIrq
  <2>4. ~wc => dw = 0
    OBVIOUS
  <2> HIDE DEF wc, rc, dw, dr, size
  <2>5. irq' => Used' > 0
    BY <1>3, <1>8, <2>1, <2>3, <2>4 DEF IrqLeavesPacket
  <2>6. irq' /\ chk' => Used' > PacketSize(mem', rptr')
    BY <1>3, <1>5, <1>6, <1>8, <2>1, <2>2, <2>3
  <2>7. ASSUME irq', ract' PROVE Used' > rlen' + 2
    <3>1. Used > 0 /\ rlen' + 2 = size
      BY <1>7, <2>2, <2>7
    <3>2. CASE wc
      BY <1>3, <1>5, <1>8, <2>1, <3>1, <3>2
    <3>3. CASE ~wc
      <4>1. irq /\ (ract \/ chk)
        BY <2>2, <2>3, <2>7, <3>3
      <4>2. Used > size
        BY <1>7, <4>1 DEF IrqLeavesPacket, size
      <4>3. QED
        BY <1>3, <2>1, <2>4, <3>1, <3>3, <4>2
    <3>4. QED
      BY <3>2, <3>3
  <2>8. QED
    BY <2>5, <2>6, <2>7 DEF IrqLeavesPacket
<1>11. QED
  BY <1>9, <1>10

(* A raised packet interrupt always means that a packet is waiting.         *)
THEOREM IrqMeansPacketAlways == Spec => []IrqMeansPacket
<1>1. Init => IrqLeavesPacket
  BY DEF Init, IrqLeavesPacket
<1>2. ASSUME IInv, IInv', IrqLeavesPacket, [Next]_vars PROVE IrqLeavesPacket'
  <2>1. CASE Next
    <3>1. PICK fc \in FcInput, ahb \in Idle \cup Reads :
            /\ Sends(fc) /\ UNCHANGED arm
            /\ Clock(fc, ahb, 0) \/ FlushClock(fc, ahb, 0)
      BY <1>2, <2>1, NextIsCycle DEF IInv
    <3>2. CASE Clock(fc, ahb, 0)
      BY <1>2, <3>1, <3>2, IrqClockStep DEF IInv
    <3>3. CASE FlushClock(fc, ahb, 0)
      BY <3>3 DEF FlushClock, ResetRegisters, IrqLeavesPacket
    <3>4. QED
      BY <3>1, <3>2, <3>3
  <2>2. CASE UNCHANGED vars
    BY <1>2, <2>2 DEF vars, IrqLeavesPacket, Used, PacketSize
  <2>3. QED
    BY <1>2, <2>1, <2>2
<1>3. IInv /\ IrqLeavesPacket => IrqMeansPacket
  BY CreditsAssumption DEF IInv, TypeOK, IrqLeavesPacket, IrqMeansPacket, RxFifoEmpty, Used
<1>4. QED
  BY <1>1, <1>2, <1>3, ReceivePathInvariant, PTL DEF Spec

(* Whether the packets come from the link or from the CPU is decided before *)
(* the first one and stays so; on the link every step is one of Next, so    *)
(* the inductive invariant holds there, and with it the reservation of the  *)
(* packet that is arriving.                                                 *)
THEOREM LinkReservedAlways == AnySource => []LinkReserved
<1> DEFINE OnLink == source = "link" => IInv
<1>1. SourceInit => OnLink
  BY IInvInit DEF SourceInit
<1>2. OnLink /\ [SourceNext]_<<vars, source>> => OnLink'
  <2> SUFFICES ASSUME OnLink, [SourceNext]_<<vars, source>>, source' = "link"
               PROVE  IInv'
    OBVIOUS
  <2>1. source = "link" /\ [Next]_vars
    BY DEF SourceNext
  <2>2. QED
    BY <2>1, IInvStep
<1>3. OnLink => LinkReserved
  BY DEF LinkReserved, IInv
<1>4. QED
  BY <1>1, <1>2, <1>3, PTL DEF AnySource
=============================================================================

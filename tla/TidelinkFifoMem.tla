--------------------------- MODULE TidelinkFifoMem ---------------------------
(***************************************************************************)
(* The single SRAM port of the receive FIFO and who gets it in each cycle: *)
(* tidelink_fifo_mem.sv, the SRAM wrapper, and the PUF read handler of     *)
(* tidelink_fc_adapter.sv.  A link word always wins; an AHB read whose     *)
(* address was displaced is held and its address presented again; a PUF    *)
(* read takes what is left.                                                *)
(*                                                                         *)
(* What a read returns depends only on the address the SRAM registered in  *)
(* the cycle before, so the model follows addresses and keeps no data.     *)
(* Addresses are those of the SRAM, after the translation that             *)
(* TidelinkFifoCtrl models.  One step is one hclk edge.                    *)
(***************************************************************************)
EXTENDS Integers, TLAPS

CONSTANTS
    Addr,      \* SRAM word addresses
    Credit     \* words the link may deliver before the reader makes room

ASSUME CreditAssumption == Credit \in Nat

None == [kind |-> "none"]
Read(a) == [kind |-> "read", addr |-> a]
Write(a) == [kind |-> "write", addr |-> a]

Reads == {Read(a) : a \in Addr}
Writes == {Write(a) : a \in Addr}

VARIABLES
    active,      \* read_active_r
    cleanPrev,   \* addr_clean_prev_r
    pend,        \* read_addr_pending_r
    addrQ, csQ,  \* the SRAM's registered address and chip select
    bufEn,       \* cmsdk_ahb_to_sram: a write's data arrives in this cycle
    bufPend,     \* cmsdk_ahb_to_sram: a write's data waits in the buffer
    bufAddr,     \* cmsdk_ahb_to_sram: its address
    phase,       \* the master's view: the transfer in its data phase
    stored,      \* history: where the last buffered write went, and where it should
    pufState,    \* puf_state_r (puf_req is high in PUF_READ)
    pufAddr,     \* puf_addr
    pufAck,      \* puf_ack
    pufFrom,     \* the address whose word puf_rdata_r holds
    credit       \* words the link may still deliver

vars == <<active, cleanPrev, pend, addrQ, csQ, bufEn, bufPend, bufAddr, phase, stored,
          pufState, pufAddr, pufAck, pufFrom, credit>>

-----------------------------------------------------------------------------
(* The arbiter.  fc is the link's write (or None), a the address phase the  *)
(* master presents, hready what it is told.                                 *)

FcActive(fc) == fc # None

(* Mutant: a disturbed read waits for the link write alone. *)
NoRecovery == FALSE

ReadRecoveryStall == active /\ ~cleanPrev
Hold(fc) == FcActive(fc) \/ ReadRecoveryStall
Hreadyout(fc) == ~Hold(fc)

Gated(fc, hready) == hready /\ ~Hold(fc)
AhbRead(fc, a, hready) == a.kind = "read" /\ Gated(fc, hready)
AhbWrite(fc, a, hready) == a.kind = "write" /\ Gated(fc, hready)

(* cmsdk_ahb_to_sram writes its buffer when no read needs the port.          *)
RamWrite(fc, a, hready) == (bufEn \/ bufPend) /\ ~AhbRead(fc, a, hready)
AhbSramCs(fc, a, hready) == AhbRead(fc, a, hready) \/ RamWrite(fc, a, hready)
AhbSramAddr(fc, a, hready) == IF AhbRead(fc, a, hready) THEN a.addr ELSE bufAddr

PufCanRead(fc, a, hready) ==
    pufState = "READ" /\ ~FcActive(fc) /\ ~AhbSramCs(fc, a, hready) /\ ~active

SramAddr(fc, a, hready) ==
    CASE FcActive(fc) -> fc.addr
      [] PufCanRead(fc, a, hready) -> pufAddr
      [] active /\ ~FcActive(fc) /\ ~PufCanRead(fc, a, hready) -> pend
      [] OTHER -> AhbSramAddr(fc, a, hready)

SramCs(fc, a, hready) ==
    FcActive(fc) \/ AhbSramCs(fc, a, hready) \/ PufCanRead(fc, a, hready) \/ active

(* Mutant: presenting the address again counts as a disturbance. *)
ReadTrackerDirty(fc, a, hready) ==
    /\ cleanPrev' = (~FcActive(fc) /\ ~active)
    /\ active' = (AhbRead(fc, a, hready) \/ (active /\ Hold(fc)))
    /\ pend' = IF AhbRead(fc, a, hready) THEN a.addr ELSE pend

ReadTracker(fc, a, hready) ==
    /\ cleanPrev' = ~FcActive(fc)
    /\ active' = (AhbRead(fc, a, hready) \/ (active /\ Hold(fc)))
    /\ pend' = IF AhbRead(fc, a, hready) THEN a.addr ELSE pend

Sram(fc, a, hready) ==
    /\ addrQ' = SramAddr(fc, a, hready)
    /\ csQ' = SramCs(fc, a, hready)

WriteBuffer(fc, a, hready) ==
    /\ bufEn' = AhbWrite(fc, a, hready)
    /\ bufPend' = ((bufEn \/ bufPend) /\ AhbRead(fc, a, hready))
    /\ bufAddr' = IF AhbWrite(fc, a, hready) THEN a.addr ELSE bufAddr
    /\ stored' = IF ~RamWrite(fc, a, hready) THEN stored
                 ELSE [want |-> bufAddr, at |-> SramAddr(fc, a, hready), lost |-> FcActive(fc)]

-----------------------------------------------------------------------------
(* The PUF read handler: p is the address of a request on the TideChart     *)
(* stream or None, taken whether the response is taken.                     *)

(* Mutant: the request itself is taken for its acknowledgement. *)
PufHandlerEager(fc, a, hready, p, taken) ==
    /\ pufState' = CASE pufState = "IDLE" /\ p # None -> "READ"
                     [] pufState = "READ" -> "RESPOND"
                     [] pufState = "RESPOND" /\ taken -> "IDLE"
                     [] OTHER -> pufState
    /\ pufAddr' = IF pufState = "IDLE" /\ p # None THEN p.addr ELSE pufAddr
    /\ pufFrom' = IF pufState = "READ" THEN addrQ ELSE pufFrom
    /\ pufAck' = PufCanRead(fc, a, hready)

PufHandler(fc, a, hready, p, taken) ==
    /\ pufState' = CASE pufState = "IDLE" /\ p # None -> "READ"
                     [] pufState = "READ" /\ pufAck -> "RESPOND"
                     [] pufState = "RESPOND" /\ taken -> "IDLE"
                     [] OTHER -> pufState
    /\ pufAddr' = IF pufState = "IDLE" /\ p # None THEN p.addr ELSE pufAddr
    /\ pufFrom' = IF pufState = "READ" /\ pufAck THEN addrQ ELSE pufFrom
    /\ pufAck' = PufCanRead(fc, a, hready)

-----------------------------------------------------------------------------
(* A cycle.  The master's data phase ends, and its next begins, when hready *)
(* is high.  Room for the link is made only by reads that complete.         *)

Hclk(fc, a, hready, p, taken) ==
    /\ FcActive(fc) => credit > 0
    /\ ReadTracker(fc, a, hready)
    /\ Sram(fc, a, hready)
    /\ WriteBuffer(fc, a, hready)
    /\ PufHandler(fc, a, hready, p, taken)
    /\ phase' = IF hready THEN a ELSE phase
    /\ credit' = IF FcActive(fc) THEN credit - 1
                 ELSE IF hready /\ phase.kind = "read" THEN Credit ELSE credit

LinkWords == {None} \cup Writes
Cycle(fc, a, hready) ==
    \E p \in {None} \cup Reads, taken \in BOOLEAN : Hclk(fc, a, hready, p, taken)

(* The FPGA wrapper's bus: the port's hreadyout is its master's hready.  The *)
(* bridge on it idles until its transfer is complete.                        *)
Looped(fc, a) == (phase # None => a = None) /\ Cycle(fc, a, Hreadyout(fc))

(* Software injects words over AHB while no packet arrives, so no link word  *)
(* meets the data of an injected one.                                        *)
LinkAndRead ==
    \E fc \in LinkWords, a \in {None} \cup Reads :
        /\ FcActive(fc) => ~bufEn /\ ~bufPend
        /\ Looped(fc, a)
Inject == \E a \in Writes : Looped(None, a)

Next == LinkAndRead \/ Inject

(* The master overlaps a transfer's address phase with the data phase of the *)
(* one before, as AHB masters do.                                            *)
PipelinedNext ==
    \E fc \in LinkWords, a \in {None} \cup Reads : Cycle(fc, a, Hreadyout(fc))

Init ==
    /\ active = FALSE /\ cleanPrev = FALSE /\ pend \in Addr
    /\ addrQ \in Addr /\ csQ = FALSE
    /\ bufEn = FALSE /\ bufPend = FALSE /\ bufAddr \in Addr
    /\ phase = None /\ stored = None
    /\ pufState = "IDLE" /\ pufAddr \in Addr /\ pufAck = FALSE /\ pufFrom \in Addr
    /\ credit = Credit

Spec == Init /\ [][Next]_vars
PipelinedSpec == Init /\ [][PipelinedNext]_vars

(* The clock runs. *)
FairSpec == Spec /\ WF_vars(Next)

-----------------------------------------------------------------------------
(* Properties. *)

(* Types of the registers. *)
TypeOK ==
    /\ active \in BOOLEAN /\ cleanPrev \in BOOLEAN /\ pend \in Addr
    /\ addrQ \in Addr /\ csQ \in BOOLEAN
    /\ bufEn \in BOOLEAN /\ bufPend \in BOOLEAN /\ bufAddr \in Addr
    /\ phase \in {None} \cup Reads \cup Writes
    /\ pufState \in {"IDLE", "READ", "RESPOND"} /\ pufAddr \in Addr
    /\ pufAck \in BOOLEAN /\ pufFrom \in Addr
    /\ credit \in 0 .. Credit

(* A read that is told it is complete gets the word it addressed: whenever    *)
(* the arbiter would let its data phase end, the SRAM has registered its      *)
(* address, however link words and PUF reads fell before.                     *)
ReadReturnsAddressed ==
    phase.kind = "read" /\ ~ReadRecoveryStall => csQ /\ addrQ = phase.addr

(* A write that the master was told is complete reaches the SRAM, at the      *)
(* address it was for.                                                        *)
CpuWriteLands == stored # None => ~stored.lost /\ stored.at = stored.want

(* A PUF response carries the word that was asked for.                        *)
PufReturnsRequested == pufState = "RESPOND" => pufFrom = pufAddr

(* A read that is held completes: link words that keep displacing it use up   *)
(* the sender's credit, and only a completed read gives credit back.          *)
ReadCompletes == phase.kind = "read" ~> phase.kind # "read"

-----------------------------------------------------------------------------
(***************************************************************************)
(* Proofs, for every address space and every amount of credit.             *)
(*                                                                         *)
(* That a read which may complete finds its address registered is not      *)
(* inductive: the invariant adds that the captured address is the one the  *)
(* master waits for, and that a single clean cycle is enough to register   *)
(* it, because a read alone is accepted only while no other is active.     *)
(***************************************************************************)

Tracking ==
    /\ phase.kind = "read" <=> active
    /\ active => phase = Read(pend)
    /\ active /\ cleanPrev => csQ /\ addrQ = pend

Buffering == ~bufPend /\ (bufEn => phase.kind = "write")

PufTracking ==
    /\ pufAck => addrQ = pufAddr /\ pufState # "IDLE"
    /\ PufReturnsRequested

PortInv == TypeOK /\ Tracking /\ Buffering /\ PufTracking

-----------------------------------------------------------------------------

(* What a transfer can be. *)
LEMMA Kinds ==
  ASSUME NEW t \in {None} \cup Reads \cup Writes
  PROVE  /\ t.kind = "none" <=> t = None
         /\ t.kind = "read" <=> t \in Reads
         /\ t.kind = "write" <=> t \in Writes
         /\ t \in Reads => t.addr \in Addr /\ t = Read(t.addr)
         /\ t \in Writes => t.addr \in Addr /\ t = Write(t.addr)
  BY DEF None, Reads, Writes, Read, Write

(* After reset no transfer is in progress. *)
LEMMA PortInvInit == Init => PortInv
  <1> SUFFICES ASSUME Init PROVE PortInv
    OBVIOUS
  <1>1. TypeOK
    <2>1. credit \in 0 .. Credit
      BY CreditAssumption DEF Init
    <2> QED
      BY <2>1, Zenon DEF Init, TypeOK
  <1>2. phase.kind # "read"
    BY DEF Init, None
  <1>3. Tracking /\ Buffering /\ PufTracking
    BY <1>2 DEF Init, Tracking, Buffering, PufTracking, PufReturnsRequested
  <1> QED
    BY <1>1, <1>3 DEF PortInv

(* A cycle of the looped bus, whatever the link, the master and the PUF      *)
(* handler do in it.                                                         *)
LEMMA PortStep ==
  ASSUME PortInv, NEW fc \in LinkWords, NEW a \in {None} \cup Reads \cup Writes,
         NEW p \in {None} \cup Reads, NEW taken \in BOOLEAN,
         phase # None => a = None, Hclk(fc, a, Hreadyout(fc), p, taken)
  PROVE  PortInv'
  <1> DEFINE hr == Hreadyout(fc)
  <1> USE DEF PortInv
  <1>1. fc = None \/ (FcActive(fc) /\ fc.addr \in Addr)
    BY Kinds DEF LinkWords, FcActive
  <1>2. AhbRead(fc, a, hr) => a \in Reads /\ a.addr \in Addr /\ a = Read(a.addr) /\ phase = None /\ ~FcActive(fc)
    BY Kinds, a # None \/ a = None DEF AhbRead, Gated, Hold, None
  <1>3. AhbWrite(fc, a, hr) => a \in Writes /\ a.addr \in Addr /\ phase = None
    BY Kinds DEF AhbWrite, None
  <1>4. AhbRead(fc, a, hr) => ~active /\ ~bufEn
    BY <1>2, Kinds DEF Tracking, Buffering, None
  <1>5. SramAddr(fc, a, hr) \in Addr
    <2>1. pufAddr \in Addr /\ pend \in Addr /\ AhbSramAddr(fc, a, hr) \in Addr
      BY <1>2 DEF AhbSramAddr, TypeOK
    <2>2. CASE FcActive(fc)
      BY <1>1, <2>2 DEF SramAddr, FcActive, PufCanRead
    <2>3. CASE ~FcActive(fc) /\ PufCanRead(fc, a, hr)
      BY <2>1, <2>3 DEF SramAddr
    <2>4. CASE ~FcActive(fc) /\ ~PufCanRead(fc, a, hr)
      BY <2>1, <2>4 DEF SramAddr
    <2> QED
      BY <2>2, <2>3, <2>4
  <1>6. TypeOK'
    <2>1. pend' \in Addr /\ bufAddr' \in Addr /\ addrQ' \in Addr
      BY <1>2, <1>3, <1>5 DEF Hclk, ReadTracker, WriteBuffer, Sram, TypeOK
    <2>2. pufAddr' \in Addr /\ pufFrom' \in Addr /\ pufState' \in {"IDLE", "READ", "RESPOND"}
      BY Kinds DEF Hclk, PufHandler, TypeOK
    <2>3. credit' \in 0 .. Credit
      BY CreditAssumption DEF Hclk, TypeOK
    <2>4. phase' \in {None} \cup Reads \cup Writes
      BY DEF Hclk, TypeOK
    <2>5. /\ active' \in BOOLEAN /\ cleanPrev' \in BOOLEAN /\ csQ' \in BOOLEAN
          /\ bufEn' \in BOOLEAN /\ bufPend' \in BOOLEAN /\ pufAck' \in BOOLEAN
      BY Zenon DEF Hclk, ReadTracker, WriteBuffer, Sram, PufHandler, FcActive, AhbRead, AhbWrite,
         Gated, Hold, SramCs, AhbSramCs, PufCanRead, TypeOK
    <2> QED
      BY <2>1, <2>2, <2>3, <2>4, <2>5 DEF TypeOK
  <1>7. Tracking'
    <2>1. CASE AhbRead(fc, a, hr)
      <3>1. phase' = a /\ active' /\ pend' = a.addr
        BY <2>1 DEF Hclk, ReadTracker, AhbRead, Gated
      <3>2. ~PufCanRead(fc, a, hr) /\ SramCs(fc, a, hr)
        BY <2>1 DEF PufCanRead, AhbSramCs, SramCs
      <3>3. SramAddr(fc, a, hr) = a.addr
        BY <1>2, <1>4, <2>1, <3>2 DEF SramAddr, AhbSramAddr
      <3>4. csQ' /\ addrQ' = a.addr
        BY <3>2, <3>3 DEF Hclk, Sram
      <3> QED
        BY <1>2, <2>1, <3>1, <3>4, Kinds DEF Tracking
    <2>2. CASE ~AhbRead(fc, a, hr) /\ active /\ Hold(fc)
      <3>1. phase' = phase /\ active' /\ pend' = pend
        BY <2>2 DEF Hclk, ReadTracker, Hreadyout
      <3>2. ~FcActive(fc) => SramAddr(fc, a, hr) = pend
        BY <2>2 DEF SramAddr, PufCanRead
      <3>3. cleanPrev' => csQ' /\ addrQ' = pend
        BY <2>2, <3>2 DEF Hclk, ReadTracker, Sram, SramCs
      <3> QED
        BY <2>2, <3>1, <3>3 DEF Tracking
    <2>3. CASE ~AhbRead(fc, a, hr) /\ ~(active /\ Hold(fc))
      <3>1. ~active'
        BY <2>3 DEF Hclk, ReadTracker
      <3>2. phase'.kind # "read"
        <4>1. CASE Hold(fc)
          BY <2>3, <4>1 DEF Hclk, Hreadyout, Tracking
        <4>2. CASE ~Hold(fc)
          BY <2>3, <4>2 DEF Hclk, Hreadyout, AhbRead, Gated
        <4> QED
          BY <4>1, <4>2
      <3> QED
        BY <3>1, <3>2 DEF Tracking
    <2> QED
      BY <2>1, <2>2, <2>3
  <1>8. Buffering'
    <2>1. ~bufPend'
      BY <1>4 DEF Hclk, WriteBuffer, Buffering
    <2>2. bufEn' => phase'.kind = "write"
      BY DEF Hclk, WriteBuffer, AhbWrite, Gated
    <2> QED
      BY <2>1, <2>2 DEF Buffering
  <1>9. PufTracking'
    <2>1. pufAck' => addrQ' = pufAddr /\ pufState = "READ"
      BY DEF Hclk, PufHandler, Sram, SramAddr, PufCanRead
    <2>2. pufState = "READ" => pufAddr' = pufAddr /\ pufState' # "IDLE"
      BY DEF Hclk, PufHandler
    <2>3. PufReturnsRequested'
      BY DEF Hclk, PufHandler, PufTracking, PufReturnsRequested, TypeOK
    <2> QED
      BY <2>1, <2>2, <2>3 DEF PufTracking
  <1> QED
    BY <1>6, <1>7, <1>8, <1>9

(* Link words, CPU reads and CPU writes in any mixture: more than Next, in    *)
(* which no link word meets the data of an injected one.                      *)
AnyMix == \E fc \in LinkWords, a \in {None} \cup Reads \cup Writes : Looped(fc, a)

(* Any mixture of link words, CPU reads and CPU writes keeps the invariant.  *)
LEMMA PortInvStep == PortInv /\ [AnyMix]_vars => PortInv'
  <1> SUFFICES ASSUME PortInv, [AnyMix]_vars PROVE PortInv'
    OBVIOUS
  <1>1. CASE AnyMix
    BY <1>1, PortStep DEF AnyMix, Looped, Cycle
  <1>2. CASE UNCHANGED vars
    BY <1>2 DEF vars, PortInv, TypeOK, Tracking, Buffering, PufTracking, PufReturnsRequested,
       ReadRecoveryStall
  <1> QED
    BY <1>1, <1>2

(* The SRAM port's bookkeeping is right in every reachable state of the      *)
(* looped bus, with CPU writes mixed in.                                     *)
THEOREM PortInvariant == Init /\ [][AnyMix]_vars => []PortInv
  BY PortInvInit, PortInvStep, PTL

(* Software that injects only while no packet arrives is one such mixture.   *)
LEMMA NextIsAnyMix == [Next]_vars => [AnyMix]_vars
  BY DEF Next, LinkAndRead, Inject, AnyMix, LinkWords

(* Registers keep their types. *)
THEOREM PortTypeCorrect == Spec => []TypeOK
  <1>1. PortInv => TypeOK
    BY DEF PortInv
  <1> QED
    BY PortInvInit, PortInvStep, NextIsAnyMix, <1>1, PTL DEF Spec

(* Every read gets the word it addressed, whatever the link and PUF reads do *)
(* with the SRAM port meanwhile.                                             *)
THEOREM ReadReturnsAddressedAlways == Spec => []ReadReturnsAddressed
  <1>1. PortInv => ReadReturnsAddressed
    BY DEF PortInv, Tracking, ReadReturnsAddressed, ReadRecoveryStall, Read
  <1> QED
    BY PortInvInit, PortInvStep, NextIsAnyMix, <1>1, PTL DEF Spec

(* Every PUF response carries the word that was asked for.                   *)
THEOREM PufReturnsRequestedAlways == Spec => []PufReturnsRequested
  <1>1. PortInv => PufReturnsRequested
    BY DEF PortInv, PufTracking
  <1> QED
    BY PortInvInit, PortInvStep, NextIsAnyMix, <1>1, PTL DEF Spec

(* Words injected while no packet arrives land where they were addressed.    *)
THEOREM CpuWriteLandsAlways == Spec => []CpuWriteLands
  <1>1. Init => CpuWriteLands
    BY DEF Init, CpuWriteLands
  <1>2. PortInv /\ CpuWriteLands /\ [Next]_vars => CpuWriteLands'
    <2> SUFFICES ASSUME PortInv, CpuWriteLands, [Next]_vars PROVE CpuWriteLands'
      OBVIOUS
    <2>1. CASE UNCHANGED vars
      BY <2>1 DEF vars, CpuWriteLands
    <2>2. CASE Next
      <3>1. PICK fc \in LinkWords, a \in {None} \cup Reads \cup Writes,
                 p \in {None} \cup Reads, taken \in BOOLEAN :
               /\ FcActive(fc) => ~bufEn /\ ~bufPend
               /\ Hclk(fc, a, Hreadyout(fc), p, taken)
        BY <2>2 DEF Next, LinkAndRead, Inject, Looped, Cycle, LinkWords, FcActive
      <3> DEFINE hr == Hreadyout(fc)
      <3>2. RamWrite(fc, a, hr) => ~FcActive(fc) /\ SramAddr(fc, a, hr) = bufAddr
        <4> SUFFICES ASSUME RamWrite(fc, a, hr)
                     PROVE  ~FcActive(fc) /\ SramAddr(fc, a, hr) = bufAddr
          OBVIOUS
        <4>1. ~AhbRead(fc, a, hr) /\ ~active
          BY DEF RamWrite, PortInv, Buffering, Tracking
        <4>2. ~PufCanRead(fc, a, hr) /\ ~FcActive(fc)
          BY <3>1 DEF PufCanRead, AhbSramCs, RamWrite
        <4> QED
          BY <4>1, <4>2 DEF SramAddr, AhbSramAddr
      <3> QED
        BY <3>1, <3>2 DEF Hclk, WriteBuffer, CpuWriteLands
    <2> QED
      BY <2>1, <2>2
  <1> QED
    BY PortInvInit, PortInvStep, NextIsAnyMix, <1>1, <1>2, PTL DEF Spec
=============================================================================

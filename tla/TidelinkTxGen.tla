---------------------------- MODULE TidelinkTxGen ----------------------------
(***************************************************************************)
(* The transmit generator tidelink_tx_gen.sv, the pair credit counter of   *)
(* tidelink_apb_regs.sv that gates it, and the mux of tidelink_top.sv that *)
(* gives it the adapter's transmit port.  One step is one hclk edge.       *)
(*                                                                         *)
(* A cycle's inputs are the adapter's hreadyout and hresp (fc), whether    *)
(* the external master drives an address (ext), and at most one APB write: *)
(* the generator's registers, the peer's credit return and the counter's   *)
(* registers share one bus.  Payload words, the destination, the status    *)
(* flags and the statistics counters are left out: nothing here reads them *)
(* back, and a word is the beat that issues it.                            *)
(***************************************************************************)
EXTENDS Integers, TLAPS

CONSTANTS
    MAX_CREDITS,     \* words of the peer's receive FIFO
    Lengths,         \* payload lengths written to PKT (after its clamp)
    Gaps,            \* values of GAP.IPG_CYCLES
    Margins,         \* values of GAP.CREDIT_MARGIN
    Budgets,         \* values of BUDGET
    Returns          \* credits the peer returns in one write

ASSUME CreditsAssumption == MAX_CREDITS \in Nat /\ MAX_CREDITS >= 2
ASSUME LengthsAssumption == Lengths \subseteq 0 .. MAX_CREDITS - 2
ASSUME GapsAssumption == Gaps \subseteq Nat
ASSUME MarginsAssumption == Margins \subseteq Nat
ASSUME BudgetsAssumption == Budgets \subseteq Nat
ASSUME ReturnsAssumption == Returns \subseteq Nat

VARIABLES
    en, forever, running,              \* en_r, forever_r, running_r
    pktLen, ipg, margin, budget,       \* pkt_len_r, ipg_r, margin_r, budget_r
    state,                             \* state_r
    beat, total,                       \* beat_r, total_beats_r
    gap,                               \* gap_r
    dataPend,                          \* data_pend_r
    hdr,                               \* the length in the header word last issued
    extPend,                           \* ext_data_pend_r
    phase,                             \* the adapter: whose address is in its data phase
    counter,                           \* pair_credit_counter; its enable is 1, as after reset
    incR, decR, updR,                  \* pair_credit_inc_r, pair_credit_dec_r, pair_credit_update_r
    room                               \* history: room the peer granted, less what was admitted

vars == <<en, forever, running, pktLen, ipg, margin, budget, state, beat, total,
          gap, dataPend, hdr, extPend, phase, counter, incR, decR, updR, room>>

-----------------------------------------------------------------------------
(* One APB write, or none. *)

NoWrite == [kind |-> "none"]
WriteCtrl(e, start, stop, f) ==
    [kind |-> "CTRL", en |-> e, start |-> start, stop |-> stop, forever |-> f]
WritePkt(l) == [kind |-> "PKT", len |-> l]
WriteGap(g, m) == [kind |-> "GAP", ipg |-> g, margin |-> m]
WriteBudget(b) == [kind |-> "BUDGET", budget |-> b]
PeerReturn(r) == [kind |-> "RETURN", val |-> r]          \* 0x020, by the peer's returner
SoftConsume(v) == [kind |-> "CONSUME", val |-> v]        \* 0x02C

CtrlWrites == {WriteCtrl(e, start, stop, f) : e, start, stop, f \in BOOLEAN}

-----------------------------------------------------------------------------
(* The generator. *)

(* Mutant: one header word is forgotten. *)
NeedWordsOneHeader == pktLen + 1

NeedWords == pktLen + 2
(* Mutant: the gate forgets the two header words. *)
NeedTotalPayload == pktLen + margin

NeedTotal == NeedWords + margin

(* Mutant: the gate wants one credit too many. *)
CreditOkStrict == counter > NeedTotal

(* tidelink_top.sv ties pair_credit_en to 1. *)
CreditOk == counter >= NeedTotal

GenOwns == state = "SEND"

ExtIdle(ext) == ~ext /\ ~extPend
CanTake(ext) == en /\ running /\ ExtIdle(ext) /\ CreditOk
OutOfBudget == ~forever /\ budget = 0

(* The cycle admits a packet: its credit is consumed before its first beat. *)
Consume(ext) == state = "ARMED" /\ CanTake(ext) /\ ~OutOfBudget

(* Mutant: the last word's address is never issued. *)
SendingAddrShort == GenOwns /\ beat < total - 1

SendingAddr == GenOwns /\ beat < total

(* Register fields that only software writes. *)
Config(w) ==
    /\ en' = IF w.kind = "CTRL" THEN w.en ELSE en
    /\ forever' = IF w.kind = "CTRL" THEN w.forever ELSE forever
    /\ pktLen' = IF w.kind = "PKT" THEN w.len ELSE pktLen
    /\ ipg' = IF w.kind = "GAP" THEN w.ipg ELSE ipg
    /\ margin' = IF w.kind = "GAP" THEN w.margin ELSE margin

(* The adapter's ERROR ends a packet, its last data phase completes one. *)
Fails(fc) == GenOwns /\ fc.hresp
Completes(fc) == GenOwns /\ ~fc.hresp /\ fc.hready /\ ~SendingAddr
Issues(fc) == GenOwns /\ ~fc.hresp /\ fc.hready /\ SendingAddr
Finishes == state = "ARMED" /\ running /\ OutOfBudget

Stops(w) == w.kind = "CTRL" /\ w.stop
Starts(w) == w.kind = "CTRL" /\ w.start /\ ~w.stop /\ en

RunControl(fc, w) ==
    running' = (~Fails(fc) /\ ~Finishes /\ ~Stops(w) /\ (Starts(w) \/ running))

Budget(fc, w) ==
    budget' = IF Completes(fc) /\ ~forever THEN (IF budget > total THEN budget - total ELSE 0)
              ELSE IF w.kind = "BUDGET" THEN w.budget ELSE budget

Sequencer(fc, ext) ==
    /\ state' = CASE state = "IDLE" -> IF running THEN "ARMED" ELSE "IDLE"
                  [] state = "ARMED" -> IF ~running \/ OutOfBudget THEN "IDLE"
                                        ELSE IF CanTake(ext) THEN "SEND" ELSE "ARMED"
                  [] state = "SEND" -> IF fc.hresp THEN "IDLE"
                                       ELSE IF ~Completes(fc) THEN "SEND"
                                       ELSE IF ipg = 0 THEN "ARMED" ELSE "GAP"
                  [] state = "GAP" -> IF gap # 0 THEN "GAP"
                                      ELSE IF running THEN "ARMED" ELSE "IDLE"
    /\ total' = IF Consume(ext) THEN NeedWords ELSE total
    /\ beat' = IF Consume(ext) THEN 0 ELSE IF Issues(fc) THEN beat + 1 ELSE beat
    /\ dataPend' = IF Consume(ext) \/ Fails(fc) \/ Completes(fc) THEN FALSE
                   ELSE Issues(fc) \/ dataPend
    /\ hdr' = IF Issues(fc) /\ beat = 0 THEN pktLen ELSE hdr
    /\ gap' = IF Completes(fc) THEN ipg
              ELSE IF state = "GAP" /\ gap # 0 THEN gap - 1 ELSE gap

(* The tracker of the external master's data phase.                         *)
ExtTracker(fc, ext) ==
    extPend' = IF GenOwns THEN extPend
               ELSE IF ext /\ fc.hready THEN TRUE
               ELSE extPend /\ ~fc.hready

(* The adapter accepts the address of the master the mux selects.           *)
Adapter(fc, ext) ==
    phase' = IF ~fc.hready THEN (IF fc.hresp THEN "none" ELSE phase)
             ELSE IF SendingAddr THEN "gen"
             ELSE IF ~GenOwns /\ ext THEN "ext"
             ELSE "none"

(* The pair credit counter: addends are registered, then applied together.  *)
PairCredit(ext, w) ==
    LET inc == IF w.kind = "RETURN" THEN w.val ELSE 0
        dec == (IF w.kind = "CONSUME" THEN w.val ELSE 0) + (IF Consume(ext) THEN NeedWords ELSE 0)
    IN  /\ incR' = inc /\ decR' = dec
        /\ updR' = (w.kind \in {"RETURN", "CONSUME"} \/ Consume(ext))
        /\ counter' = IF ~updR THEN counter
                      ELSE IF counter + incR >= decR THEN (counter + incR) - decR ELSE 0
        /\ room' = (room + inc) - dec

Hclk(fc, ext, w) ==
    /\ Config(w)
    /\ RunControl(fc, w)
    /\ Budget(fc, w)
    /\ Sequencer(fc, ext)
    /\ ExtTracker(fc, ext)
    /\ Adapter(fc, ext)
    /\ PairCredit(ext, w)

(* The adapter holds hreadyout low only over a data phase.  An ERROR begins *)
(* with such a cycle, in which the generator gives up the port; the second, *)
(* with hreadyout high, finds no data phase left.                           *)
Responses ==
    {fc \in [hready : BOOLEAN, hresp : BOOLEAN] :
        /\ ~fc.hready => phase # "none"
        /\ fc.hready /\ fc.hresp => phase = "none" /\ ~GenOwns}
Cycle(w) == \E fc \in Responses, ext \in BOOLEAN : Hclk(fc, ext, w)

-----------------------------------------------------------------------------
(* One action per kind of APB write.  The peer returns what it has freed,   *)
(* never more than its FIFO holds.                                          *)

Quiet == Cycle(NoWrite)
Control == \E w \in CtrlWrites : Cycle(w)
Program == (\E g \in Gaps, m \in Margins : Cycle(WriteGap(g, m))) \/ (\E b \in Budgets : Cycle(WriteBudget(b)))
SetPacket == \E l \in Lengths : Cycle(WritePkt(l))
SetPacketStopped == ~running /\ SetPacket
Return == \E r \in Returns : room + r <= MAX_CREDITS /\ Cycle(PeerReturn(r))

(* Software that sends a packet of its own looks at the counter, when no    *)
(* run is on, and takes what it needs.                                      *)
SoftwareSend ==
    /\ ~running /\ state = "IDLE" /\ ~updR
    /\ \E l \in Lengths : l + 2 <= counter /\ Cycle(SoftConsume(l + 2))

(* Software programs the packet length when STATUS says that the run has    *)
(* stopped; a packet admitted before that may still be on the port.         *)
Next ==
    \/ Quiet
    \/ Control
    \/ Program
    \/ SetPacketStopped
    \/ Return
    \/ SoftwareSend

(* Reset leaves pkt_len_r at 4; Lengths holds that value or, in a small      *)
(* instance, the one software wrote before it enabled the generator.         *)
Init ==
    /\ en = FALSE /\ forever = FALSE /\ running = FALSE
    /\ pktLen \in Lengths /\ ipg = 0 /\ margin = 0 /\ budget = 0
    /\ state = "IDLE" /\ beat = 0 /\ total = 0 /\ gap = 0
    /\ dataPend = FALSE /\ hdr = 0 /\ extPend = FALSE /\ phase = "none"
    /\ counter = 0 /\ incR = 0 /\ decR = 0 /\ updR = FALSE
    /\ room = 0

Spec == Init /\ [][Next]_vars

(* The clock runs, the adapter completes transfers and other traffic leaves *)
(* gaps: again and again a cycle has hreadyout high, no error, no external  *)
(* address and no register write.                                           *)
Calm == Hclk([hready |-> TRUE, hresp |-> FALSE], FALSE, NoWrite)
FairSpec == Spec /\ WF_vars(Calm)

-----------------------------------------------------------------------------
(* Properties. *)

(* Types of the registers. *)
TypeOK ==
    /\ en \in BOOLEAN /\ forever \in BOOLEAN /\ running \in BOOLEAN
    /\ pktLen \in Lengths /\ ipg \in Nat /\ margin \in Nat /\ budget \in Nat
    /\ state \in {"IDLE", "ARMED", "SEND", "GAP"}
    /\ total \in 0 .. MAX_CREDITS /\ beat \in 0 .. total /\ gap \in Nat
    /\ dataPend \in BOOLEAN /\ hdr \in 0 .. MAX_CREDITS
    /\ extPend \in BOOLEAN /\ phase \in {"none", "gen", "ext"}
    /\ counter \in Nat
    /\ incR \in Nat /\ decR \in Nat /\ updR \in BOOLEAN
    /\ room \in Int

(* The generator never admits a packet the peer has not granted room for,    *)
(* although the counter it looks at lags behind by one cycle.                *)
Solvent == room >= 0

(* The counter with its pending update is exactly the granted room: no       *)
(* return is lost when it lands with a consume, no consume is counted twice. *)
CounterExact == room = IF updR THEN (counter + incR) - decR ELSE counter

(* The packet on the port has the length its header announces, and that is   *)
(* the length credit was reserved for, although STOP can come with the       *)
(* admission and a new PKT right behind it: the first beat is faster.        *)
HeaderMatchesReservation == state = "SEND" /\ beat > 0 => hdr + 2 = total

(* Write data on the port comes from the master whose address the adapter    *)
(* holds: ownership never changes during a data phase (audit finding A4).    *)
DataFromAddressOwner ==
    /\ phase = "ext" => ~GenOwns
    /\ phase = "gen" => GenOwns

(* A packet that was admitted is sent whole: the generator goes on to the    *)
(* next only after the last data phase, whatever STOP and EN = 0 do          *)
(* meanwhile; only an ERROR of the adapter sends it to IDLE from there.      *)
PacketsAtomic ==
    [][state = "SEND" /\ state' \in {"ARMED", "GAP"} => beat = total /\ phase = "gen"]_vars

(* The port is given back; and a run that waits for credit resumes by itself *)
(* once the peer has returned enough, unless the external master keeps the   *)
(* port busy.                                                                *)
Waiting == state = "ARMED" /\ running /\ en /\ counter >= NeedTotal
Resumes ==
    /\ state = "SEND" ~> state # "SEND"
    /\ <>[](~extPend) => (Waiting ~> ~Waiting)

-----------------------------------------------------------------------------
(* The generator proved, for every buffer size and every set of lengths,   *)
(* gaps, margins, budgets and returns.                                     *)
(*                                                                         *)
(* Solvent is not inductive: the counter the gate reads lags one cycle     *)
(* behind a consume.  Settled is what saves it: while a consume is still   *)
(* pending the generator is on the first beat of that packet, or at rest   *)
(* if software consumed, so it cannot be at the gate.                      *)

Settled == updR /\ decR > 0 => state # "ARMED"

Addends == ~updR => incR = 0 /\ decR = 0

Framing ==
    /\ state = "SEND" => total >= 2
    /\ state = "SEND" /\ beat = 0 => total = pktLen + 2 /\ phase = "none"
    /\ state = "SEND" /\ beat > 0 => total = hdr + 2 /\ phase = "gen"

Ownership ==
    /\ phase = "ext" => extPend
    /\ GenOwns => ~extPend
    /\ phase = "gen" => GenOwns

GenInv == TypeOK /\ Settled /\ Addends /\ CounterExact /\ Solvent /\ Framing /\ Ownership

(* The writes software and the peer make in Spec.                            *)
SpecWrite(w) ==
    \/ w = NoWrite
    \/ w \in CtrlWrites
    \/ \E g \in Gaps, m \in Margins : w = WriteGap(g, m)
    \/ \E b \in Budgets : w = WriteBudget(b)
    \/ \E l \in Lengths : w = WritePkt(l) /\ ~running
    \/ \E r \in Returns : w = PeerReturn(r)
    \/ \E l \in Lengths :
          w = SoftConsume(l + 2) /\ ~running /\ state = "IDLE" /\ ~updR /\ l + 2 <= counter

(* After reset the generator is idle and the counter is empty. *)
LEMMA GenInvInit == Init => GenInv
  <1> SUFFICES ASSUME Init PROVE GenInv
    OBVIOUS
  <1> USE CreditsAssumption, LengthsAssumption DEF Init
  <1>1. TypeOK
    <2>1. /\ ipg \in Nat /\ margin \in Nat /\ budget \in Nat /\ gap \in Nat /\ room \in Int
          /\ total \in 0 .. MAX_CREDITS /\ beat \in 0 .. total /\ hdr \in 0 .. MAX_CREDITS
          /\ counter \in Nat /\ incR \in Nat /\ decR \in Nat
      OBVIOUS
    <2> QED
      BY <2>1, Zenon DEF TypeOK
  <1>2. Settled /\ Addends /\ CounterExact /\ Solvent /\ Framing /\ Ownership
    BY DEF Settled, Addends, CounterExact, Solvent, Framing, Ownership, GenOwns
  <1> QED
    BY <1>1, <1>2 DEF GenInv

(* Every step is a clock edge with one of those writes.                      *)
LEMMA NextIsEdge ==
  ASSUME Next
  PROVE  \E w : \E fc \in Responses, ext \in BOOLEAN : SpecWrite(w) /\ Hclk(fc, ext, w)
  <1>1. CASE Quiet
    BY <1>1, Zenon DEF Quiet, Cycle, SpecWrite
  <1>2. CASE Control
    BY <1>2, Zenon DEF Control, Cycle, SpecWrite
  <1>3. CASE Program
    BY <1>3, Zenon DEF Program, Cycle, SpecWrite
  <1>4. CASE SetPacketStopped
    BY <1>4, Zenon DEF SetPacketStopped, SetPacket, Cycle, SpecWrite
  <1>5. CASE Return
    BY <1>5, Zenon DEF Return, Cycle, SpecWrite
  <1>6. CASE SoftwareSend
    BY <1>6, Zenon DEF SoftwareSend, Cycle, SpecWrite
  <1> QED
    BY <1>1, <1>2, <1>3, <1>4, <1>5, <1>6 DEF Next

(* The fields of a write, by its kind.                                       *)
LEMMA WriteFields ==
  ASSUME NEW w, SpecWrite(w)
  PROVE  /\ w.kind \in {"none", "CTRL", "GAP", "BUDGET", "PKT", "RETURN", "CONSUME"}
         /\ w.kind = "CTRL" => w.en \in BOOLEAN /\ w.start \in BOOLEAN /\ w.stop \in BOOLEAN
                                /\ w.forever \in BOOLEAN
         /\ w.kind = "GAP" => w.ipg \in Nat /\ w.margin \in Nat
         /\ w.kind = "BUDGET" => w.budget \in Nat
         /\ w.kind = "PKT" => w.len \in Lengths /\ ~running
         /\ w.kind = "RETURN" => w.val \in Nat
         /\ w.kind = "CONSUME" => /\ w.val \in Nat /\ w.val <= counter
                                  /\ ~running /\ state = "IDLE" /\ ~updR
  <1>1. CASE w = NoWrite
    BY <1>1 DEF NoWrite
  <1>2. CASE w \in CtrlWrites
    BY <1>2 DEF CtrlWrites, WriteCtrl
  <1>3. CASE \E g \in Gaps, m \in Margins : w = WriteGap(g, m)
    BY <1>3, GapsAssumption, MarginsAssumption DEF WriteGap
  <1>4. CASE \E b \in Budgets : w = WriteBudget(b)
    BY <1>4, BudgetsAssumption DEF WriteBudget
  <1>5. CASE \E l \in Lengths : w = WritePkt(l) /\ ~running
    BY <1>5 DEF WritePkt
  <1>6. CASE \E r \in Returns : w = PeerReturn(r)
    BY <1>6, ReturnsAssumption DEF PeerReturn
  <1>7. CASE \E l \in Lengths :
               w = SoftConsume(l + 2) /\ ~running /\ state = "IDLE" /\ ~updR /\ l + 2 <= counter
    BY <1>7, LengthsAssumption DEF SoftConsume
  <1> QED
    BY <1>1, <1>2, <1>3, <1>4, <1>5, <1>6, <1>7 DEF SpecWrite

-----------------------------------------------------------------------------
(* One edge. *)

(* A cycle keeps the registers in their types. *)
LEMMA TypeStep ==
  ASSUME TypeOK, Framing, NEW w, SpecWrite(w),
         NEW fc \in Responses, NEW ext \in BOOLEAN, Hclk(fc, ext, w)
  PROVE  TypeOK'
  <1> USE DEF TypeOK
  <1>1. fc.hready \in BOOLEAN /\ fc.hresp \in BOOLEAN
    BY DEF Responses
  <1>2. en' \in BOOLEAN /\ forever' \in BOOLEAN
    BY WriteFields, Zenon DEF Hclk, Config
  <1>3. pktLen' \in Lengths
    BY WriteFields, Zenon DEF Hclk, Config
  <1>4. ipg' \in Nat /\ margin' \in Nat
    BY WriteFields, Zenon DEF Hclk, Config
  <1>5. running' \in BOOLEAN
    BY Zenon DEF Hclk, RunControl
  <1>6. budget' \in Nat
    BY WriteFields DEF Hclk, Budget
  <1>7. state' \in {"IDLE", "ARMED", "SEND", "GAP"}
    BY DEF Hclk, Sequencer
  <1>8. pktLen \in Nat /\ pktLen + 2 <= MAX_CREDITS
    BY LengthsAssumption, CreditsAssumption
  <1>9. total' \in 0 .. MAX_CREDITS /\ beat' \in 0 .. total'
    <2>1. CASE Consume(ext)
      BY <1>8, <2>1 DEF Hclk, Sequencer, NeedWords
    <2>2. CASE ~Consume(ext) /\ Issues(fc)
      BY <2>2 DEF Hclk, Sequencer, Issues, SendingAddr
    <2>3. CASE ~Consume(ext) /\ ~Issues(fc)
      BY <2>3 DEF Hclk, Sequencer
    <2> QED BY <2>1, <2>2, <2>3
  <1>10. hdr' \in 0 .. MAX_CREDITS
    BY <1>8, CreditsAssumption DEF Hclk, Sequencer
  <1>11. gap' \in Nat
    BY DEF Hclk, Sequencer
  <1>12. dataPend' \in BOOLEAN
    BY Zenon DEF Hclk, Sequencer, Issues
  <1>13. extPend' \in BOOLEAN
    BY Zenon DEF Hclk, ExtTracker
  <1>14. phase' \in {"none", "gen", "ext"}
    BY Zenon DEF Hclk, Adapter
  <1>15. counter' \in Nat /\ incR' \in Nat /\ decR' \in Nat /\ room' \in Int
    BY <1>8, WriteFields DEF Hclk, PairCredit, NeedWords
  <1>16. updR' \in BOOLEAN
    BY WriteFields, Zenon DEF Hclk, PairCredit
  <1> QED
    BY <1>2, <1>3, <1>4, <1>5, <1>6, <1>7, <1>9, <1>10, <1>11, <1>12, <1>13, <1>14, <1>15, <1>16

(* A packet is admitted only when no consume is pending, and then the        *)
(* counter is no more than the room granted.                                 *)
LEMMA GateSeesRoom ==
  ASSUME TypeOK, Settled, CounterExact, NEW ext, Consume(ext)
  PROVE  room >= NeedWords
  <1> USE DEF TypeOK
  <1>1. state = "ARMED" /\ counter >= NeedWords
    BY LengthsAssumption DEF Consume, CanTake, CreditOk, NeedTotal, NeedWords
  <1>2. updR => decR = 0
    BY <1>1 DEF Settled
  <1>3. NeedWords \in Nat
    BY LengthsAssumption DEF NeedWords
  <1> QED
    BY <1>1, <1>2, <1>3 DEF CounterExact

(* A register with no addend keeps its value. *)
LEMMA NoAddend == \A c \in Int : (c + 0) - 0 = c
  OBVIOUS

(* A cycle keeps the counter in step with the room granted. *)
LEMMA CreditStep ==
  ASSUME TypeOK, Settled, Addends, CounterExact, Solvent, NEW w, SpecWrite(w),
         NEW fc \in Responses, NEW ext \in BOOLEAN, Hclk(fc, ext, w)
  PROVE  Addends' /\ CounterExact' /\ Solvent'
  <1> USE DEF TypeOK
  <1> DEFINE inc == IF w.kind = "RETURN" THEN w.val ELSE 0
             taken == IF w.kind = "CONSUME" THEN w.val ELSE 0
             sent == IF Consume(ext) THEN NeedWords ELSE 0
             dec == taken + sent
  <1>1. inc \in Nat /\ taken \in Nat /\ sent \in Nat /\ dec \in Nat
    BY WriteFields, LengthsAssumption DEF NeedWords
  <1>2. incR' = inc /\ decR' = dec /\ room' = (room + inc) - dec
    BY DEF Hclk, PairCredit
  <1>3. updR' = (w.kind \in {"RETURN", "CONSUME"} \/ Consume(ext))
    BY Zenon DEF Hclk, PairCredit
  <1>4. ~updR' => inc = 0 /\ taken = 0 /\ sent = 0
    BY <1>3
  <1>5. ~updR' => inc = 0 /\ dec = 0
    BY <1>4
  <1>7. dec <= room
    <2>1. Consume(ext) => state = "ARMED" /\ NeedWords <= room
      BY GateSeesRoom, LengthsAssumption DEF Consume, CanTake, NeedWords
    <2>2. w.kind = "CONSUME" => state = "IDLE" /\ w.val <= room
      BY WriteFields DEF CounterExact
    <2> QED
      BY <1>1, <2>1, <2>2 DEF Solvent
  <1>8. counter' = IF updR THEN (counter + incR) - decR ELSE counter
    BY DEF Hclk, PairCredit, CounterExact, Solvent
  <1> HIDE DEF inc, taken, sent, dec
  <1>9. room' = (counter' + inc) - dec
    BY <1>1, <1>2, <1>8 DEF CounterExact
  <1>10. counter' \in Int
    BY <1>8
  <1>11. Addends'
    BY <1>2, <1>5, Zenon DEF Addends
  <1>12. CounterExact'
    <2>1. CASE updR'
      <3>1. room' = (counter' + incR') - decR'
        BY <1>2, <1>9
      <3> QED
        BY <2>1, <3>1, Zenon DEF CounterExact
    <2>2. CASE ~updR'
      <3>1. inc = 0 /\ dec = 0
        BY <1>5, <2>2, Zenon
      <3>2. room' = (counter' + 0) - 0
        BY <1>9, <3>1, Zenon
      <3>3. (counter' + 0) - 0 = counter'
        BY <1>10, NoAddend, Zenon
      <3> QED
        BY <2>2, <3>2, <3>3, Zenon DEF CounterExact
    <2> QED
      BY <2>1, <2>2
  <1>13. Solvent'
    BY <1>1, <1>2, <1>7 DEF Solvent
  <1> QED
    BY <1>11, <1>12, <1>13

(* A consume is registered while the generator is already sending, or, if    *)
(* software made it, still at rest.                                          *)
LEMMA SettledStep ==
  ASSUME TypeOK, Settled, Addends, NEW w, SpecWrite(w),
         NEW fc \in Responses, NEW ext \in BOOLEAN, Hclk(fc, ext, w)
  PROVE  Settled'
  <1>1. decR' > 0 => Consume(ext) \/ w.kind = "CONSUME"
    BY WriteFields DEF Hclk, PairCredit
  <1>2. Consume(ext) => state' = "SEND"
    BY DEF Hclk, Sequencer, Consume, CanTake
  <1>3. w.kind = "CONSUME" => state' # "ARMED"
    BY WriteFields DEF Hclk, Sequencer, Consume, CanTake, Completes
  <1> QED
    BY <1>1, <1>2, <1>3 DEF Settled

(* A cycle keeps the packet on the port as long as its reservation: PKT is  *)
(* not written in the cycle that admits it, and the next one issues beat 0. *)
LEMMA FramingStep ==
  ASSUME TypeOK, Framing, Ownership, NEW w, SpecWrite(w),
         NEW fc \in Responses, NEW ext \in BOOLEAN, Hclk(fc, ext, w)
  PROVE  Framing'
  <1> USE DEF TypeOK
  <1>1. running => pktLen' = pktLen
    BY WriteFields DEF Hclk, Config
  <1>2. CASE state' # "SEND"
    BY <1>2 DEF Framing
  <1>3. CASE state' = "SEND" /\ state # "SEND"
    <2>1. Consume(ext) /\ state = "ARMED" /\ running /\ ~ext /\ ~extPend
      BY <1>3 DEF Hclk, Sequencer, Consume, CanTake, ExtIdle
    <2>2. total' = NeedWords /\ beat' = 0
      BY <2>1 DEF Hclk, Sequencer
    <2>3. phase = "none"
      BY <2>1 DEF Ownership, GenOwns
    <2>4. phase' = "none"
      BY <2>1, <2>3 DEF Hclk, Adapter, Responses, SendingAddr, GenOwns
    <2> QED
      BY <1>1, <2>1, <2>2, <2>4, LengthsAssumption DEF Framing, NeedWords
  <1>4. CASE state' = "SEND" /\ state = "SEND"
    <2>1. ~fc.hresp /\ ~Completes(fc) /\ ~Consume(ext) /\ total' = total
      BY <1>4 DEF Hclk, Sequencer, Consume
    <2>2. CASE Issues(fc)
      <3>1. phase' = "gen" /\ beat' = beat + 1
        BY <2>1, <2>2 DEF Hclk, Adapter, Issues, Sequencer
      <3>2. beat = 0 => hdr' = pktLen
        BY <2>2 DEF Hclk, Sequencer
      <3>3. beat # 0 => hdr' = hdr
        BY DEF Hclk, Sequencer
      <3> QED
        BY <1>4, <2>1, <3>1, <3>2, <3>3, LengthsAssumption DEF Framing
    <2>3. CASE ~Issues(fc)
      <3>1. beat' = beat /\ hdr' = hdr
        BY <2>1, <2>3 DEF Hclk, Sequencer
      <3>2. phase' = phase /\ phase # "none"
        BY <1>4, <2>1, <2>3 DEF Hclk, Adapter, Issues, Completes, GenOwns, Responses
      <3> QED
        BY <1>4, <2>1, <3>1, <3>2 DEF Framing
    <2> QED
      BY <2>2, <2>3
  <1> QED
    BY <1>2, <1>3, <1>4

(* A cycle hands the port over only between data phases. *)
LEMMA OwnershipStep ==
  ASSUME TypeOK, Ownership, NEW w, SpecWrite(w),
         NEW fc \in Responses, NEW ext \in BOOLEAN, Hclk(fc, ext, w)
  PROVE  Ownership'
  <1> USE DEF TypeOK
  <1>1. /\ extPend' = IF GenOwns THEN extPend
                       ELSE IF ext /\ fc.hready THEN TRUE ELSE extPend /\ ~fc.hready
        /\ phase' = IF ~fc.hready THEN (IF fc.hresp THEN "none" ELSE phase)
                     ELSE IF SendingAddr THEN "gen"
                     ELSE IF ~GenOwns /\ ext THEN "ext"
                     ELSE "none"
    BY DEF Hclk, ExtTracker, Adapter
  <1>2. GenOwns' => (GenOwns /\ ~fc.hresp) \/ (~ext /\ ~extPend)
    BY DEF Hclk, Sequencer, CanTake, ExtIdle, GenOwns
  <1>3. GenOwns /\ ~GenOwns' => fc.hresp \/ (fc.hready /\ ~SendingAddr)
    BY DEF Hclk, Sequencer, GenOwns, Completes
  <1>4. GenOwns /\ fc.hresp => ~fc.hready
    BY DEF Responses
  <1>5. SendingAddr => GenOwns
    BY DEF SendingAddr
  <1>6. phase' = "ext" => extPend'
    BY <1>1, <1>5 DEF Ownership
  <1>7. GenOwns' => ~extPend'
    BY <1>1, <1>2 DEF Ownership
  <1>8. phase' = "gen" => GenOwns'
    BY <1>1, <1>3, <1>4, <1>5 DEF Ownership
  <1> QED
    BY <1>6, <1>7, <1>8 DEF Ownership

(* Every step keeps the invariant. *)
LEMMA GenInvStep == GenInv /\ [Next]_vars => GenInv'
  <1> SUFFICES ASSUME GenInv, [Next]_vars PROVE GenInv'
    OBVIOUS
  <1>1. CASE Next
    <2>1. PICK w : \E fc \in Responses, ext \in BOOLEAN : SpecWrite(w) /\ Hclk(fc, ext, w)
      BY <1>1, NextIsEdge
    <2>2. PICK fc \in Responses, ext \in BOOLEAN : SpecWrite(w) /\ Hclk(fc, ext, w)
      BY <2>1
    <2> USE DEF GenInv
    <2>3. TypeOK'
      BY <2>2, TypeStep
    <2>4. Settled'
      BY <2>2, SettledStep
    <2>5. Addends' /\ CounterExact' /\ Solvent'
      BY <2>2, CreditStep
    <2>6. Framing' /\ Ownership'
      BY <2>2, FramingStep, OwnershipStep
    <2> QED
      BY <2>3, <2>4, <2>5, <2>6
  <1>2. CASE UNCHANGED vars
    BY <1>2 DEF vars, GenInv, TypeOK, Settled, Addends, CounterExact, Solvent, Framing,
          Ownership, GenOwns
  <1> QED
    BY <1>1, <1>2

-----------------------------------------------------------------------------
(* The theorems. *)

(* The inductive invariant of the transmit generator.                        *)
THEOREM GeneratorInvariant == Spec => []GenInv
  BY GenInvInit, GenInvStep, PTL DEF Spec

(* Every register of the generator and of the pair credit counter keeps its  *)
(* type.                                                                     *)
THEOREM GeneratorTypeCorrect == Spec => []TypeOK
  <1>1. GenInv => TypeOK
    BY DEF GenInv
  <1> QED
    BY <1>1, GeneratorInvariant, PTL

(* The generator never admits a packet without granted room.                 *)
THEOREM SolventAlways == Spec => []Solvent
  <1>1. GenInv => Solvent
    BY DEF GenInv
  <1> QED
    BY <1>1, GeneratorInvariant, PTL

(* The pair credit counter, pending update included, is the granted room.    *)
THEOREM CounterExactAlways == Spec => []CounterExact
  <1>1. GenInv => CounterExact
    BY DEF GenInv
  <1> QED
    BY <1>1, GeneratorInvariant, PTL

(* A packet's header announces the length that was reserved and is sent.     *)
THEOREM HeaderMatchesAlways == Spec => []HeaderMatchesReservation
  <1>1. GenInv => HeaderMatchesReservation
    BY DEF GenInv, Framing, HeaderMatchesReservation
  <1> QED
    BY <1>1, GeneratorInvariant, PTL

(* Address and data of a beat come from the same master.                     *)
THEOREM DataFromOwnerAlways == Spec => []DataFromAddressOwner
  <1>1. GenInv => DataFromAddressOwner
    BY DEF GenInv, Ownership, DataFromAddressOwner
  <1> QED
    BY <1>1, GeneratorInvariant, PTL

(* The generator completes every packet it does not abandon on an ERROR.     *)
THEOREM PacketsAtomicAlways == Spec => PacketsAtomic
  <1> DEFINE Atomic == state = "SEND" /\ state' \in {"ARMED", "GAP"} => beat = total /\ phase = "gen"
  <1>1. GenInv /\ [Next]_vars => [Atomic]_vars
    <2> SUFFICES ASSUME GenInv, Next, state = "SEND", state' \in {"ARMED", "GAP"}
                 PROVE  beat = total /\ phase = "gen"
      BY DEF vars
    <2>1. PICK w : \E fc \in Responses, ext \in BOOLEAN : SpecWrite(w) /\ Hclk(fc, ext, w)
      BY NextIsEdge
    <2>2. PICK fc \in Responses, ext \in BOOLEAN : Hclk(fc, ext, w)
      BY <2>1
    <2>3. ~SendingAddr
      BY <2>2 DEF Hclk, Sequencer, Completes
    <2>4. beat = total
      BY <2>3 DEF SendingAddr, GenOwns, GenInv, TypeOK
    <2>5. total > 0
      BY LengthsAssumption DEF GenInv, TypeOK, Framing
    <2> QED
      BY <2>4, <2>5 DEF GenInv, Framing
  <1> QED
    BY <1>1, GeneratorInvariant, PTL DEF Spec, PacketsAtomic
=============================================================================

------------------------ MODULE TidelinkCreditReturn ------------------------
(***************************************************************************)
(* How the receive side gives credit back to its pair: the release         *)
(* threshold accumulator of tidelink_apb_regs.sv, the trigger delay of     *)
(* tidelink_fifo.sv and the three-channel AHB master tidelink_returner.sv. *)
(* One step is one hclk edge; the bus answers (hready, hresp), the reads   *)
(* of the receive FIFO and software's register writes are its inputs.      *)
(*                                                                         *)
(* A returner write is abstracted to its channel and its data.  The read   *)
(* side of tidelink_fifo_ctrl.sv is kept to what spaces its completions: a *)
(* packet's header is read, its length is captured in the next cycle, and  *)
(* only then can its last word be read.                                    *)
(***************************************************************************)
EXTENDS Integers, TLAPS

CONSTANTS
    MAX_CREDITS,     \* SRAM words
    Deltas,          \* sizes (payload length + 2) of the packets that are drained
    Thresholds,      \* values software writes into RELEASE_THRESHOLD
    RETRY_COUNT      \* retries of a returner write after an ERROR response

ASSUME CreditsAssumption == MAX_CREDITS \in Nat
ASSUME DeltasAssumption == Deltas \subseteq Nat \ {0, 1}
ASSUME ThresholdsAssumption == Thresholds \subseteq Nat
ASSUME RetryAssumption == RETRY_COUNT \in Nat

ReturnerState == {"IDLE", "ADDR", "DATA"}
Channel == 0 .. 2
DEBOUNCED == 5     \* debounce_count_r saturates here

VARIABLES
    ract,        \* read_packet_active_r of tidelink_fifo_ctrl.sv
    chk,         \* check_addr_r of tidelink_fifo_ctrl.sv: the length is captured now
    threshold,   \* release_threshold
    lock,        \* ctrl_lock_r
    pipe,        \* read_complete_pipe
    pipeDelta,   \* credit_delta_data_r
    d1,          \* read_complete_d1
    d1Acc,       \* effective_acc_d1
    acc,         \* release_acc
    delta,       \* credit_delta_data: released, not yet captured by the returner
    trigD,       \* release_credits_trigger_d
    doorbell,    \* doorbell_trigger
    debounce,    \* debounce_count_r (-1 until reset_n_d1 is high)
    stable,      \* debounce_stable_r: the reset_deassert_pulse
    prev,        \* interrupt_0_r .. interrupt_2_r
    pending,     \* pending_0 .. pending_2
    state,       \* state_r
    chan,        \* channel of write_addr_r
    data,        \* write_data_r
    retry,       \* retry_count_r
    error,       \* master_error_r
    owed,        \* history: credits freed by reads and not yet written to the pair
    dropped      \* history: a flush or an abandoned write has dropped credit

vars == <<ract, chk, threshold, lock, pipe, pipeDelta, d1, d1Acc, acc, delta, trigD, doorbell,
          debounce, stable, prev, pending, state, chan, data, retry, error, owed, dropped>>

-----------------------------------------------------------------------------
(* Release threshold accumulator. *)

EffectiveAcc == IF pipe THEN acc + pipeDelta ELSE acc

ReleaseTrigger == d1 /\ (threshold = 0 \/ d1Acc >= threshold)

Capture0 == state = "IDLE" /\ pending[0]

(* Mutants: the release overwrites credit that has not been captured; the    *)
(* capture does not clear it.                                                *)
ReleaseOverwrites(n, flush) ==
    /\ pipe' = (n > 0) /\ pipeDelta' = n
    /\ d1' = pipe /\ d1Acc' = EffectiveAcc
    /\ acc' = IF flush \/ ReleaseTrigger THEN 0 ELSE EffectiveAcc
    /\ delta' = IF ReleaseTrigger THEN d1Acc ELSE IF Capture0 THEN 0 ELSE delta
    /\ trigD' = ReleaseTrigger

CaptureKeepsDelta(n, flush) ==
    /\ pipe' = (n > 0) /\ pipeDelta' = n
    /\ d1' = pipe /\ d1Acc' = EffectiveAcc
    /\ acc' = IF flush \/ ReleaseTrigger THEN 0 ELSE EffectiveAcc
    /\ delta' = delta + (IF ReleaseTrigger THEN d1Acc ELSE 0)
    /\ trigD' = ReleaseTrigger

(* n is the size of the packet whose last word is read in this cycle, or 0. *)
ReleasePipeline(n, flush) ==
    /\ pipe' = (n > 0) /\ pipeDelta' = n
    /\ d1' = pipe /\ d1Acc' = EffectiveAcc
    /\ acc' = IF flush \/ ReleaseTrigger THEN 0 ELSE EffectiveAcc
    /\ delta' = (IF Capture0 THEN 0 ELSE delta) + (IF ReleaseTrigger THEN d1Acc ELSE 0)
    /\ trigD' = ReleaseTrigger

-----------------------------------------------------------------------------
(* The returner. *)

Interrupt == [c \in Channel |-> CASE c = 0 -> trigD [] c = 1 -> doorbell [] c = 2 -> stable]
Rising(c) == Interrupt[c] /\ ~prev[c]
AnyPending == \E c \in Channel : pending[c]
(* Mutant: doorbells go before credit. *)
ServedDoorbellFirst == IF pending[1] THEN 1 ELSE IF pending[0] THEN 0 ELSE 2

Served == IF pending[0] THEN 0 ELSE IF pending[1] THEN 1 ELSE 2
Dispatch == state = "IDLE" /\ AnyPending

(* What the channel's producer offers: the released credit, or a word whose *)
(* value does not matter here (free credits, or 1 to ring the bell).        *)
WriteData(c) == IF c = 0 THEN delta ELSE 0

(* Mutant: serving one request clears all. *)
PendingClearAll ==
    pending' = [c \in Channel |-> Rising(c) \/ (pending[c] /\ ~Dispatch)]

PendingNext ==
    pending' = [c \in Channel |-> Rising(c) \/ (pending[c] /\ ~(Dispatch /\ c = Served))]

ErrorEvent(hready, hresp) == state = "DATA" /\ hready /\ hresp
WriteDone(hready, hresp) == state = "DATA" /\ hready /\ ~hresp
Abandon(hready, hresp) == ErrorEvent(hready, hresp) /\ retry >= RETRY_COUNT

StateNext(hready, hresp) ==
    state' = CASE Dispatch -> "ADDR"
               [] state = "ADDR" /\ hready -> "DATA"
               [] ErrorEvent(hready, hresp) /\ retry < RETRY_COUNT -> "ADDR"
               [] WriteDone(hready, hresp) \/ Abandon(hready, hresp) -> "IDLE"
               [] OTHER -> state

RetryNext(hready, hresp, flush) ==
    /\ retry' = IF flush \/ Dispatch THEN 0
                ELSE IF ErrorEvent(hready, hresp) /\ retry < RETRY_COUNT THEN retry + 1
                ELSE retry
    /\ error' = (~flush /\ (error \/ Abandon(hready, hresp)))

Returner(hready, hresp, flush) ==
    /\ prev' = Interrupt
    /\ PendingNext
    /\ StateNext(hready, hresp)
    /\ chan' = IF Dispatch THEN Served ELSE chan
    /\ data' = IF Dispatch THEN WriteData(Served) ELSE data
    /\ RetryNext(hready, hresp, flush)

-----------------------------------------------------------------------------

(* The reset debouncer: one pulse, after the synchroniser has been high for *)
(* four more cycles.                                                        *)
Debouncer ==
    /\ debounce' = IF debounce < DEBOUNCED THEN debounce + 1 ELSE debounce
    /\ stable' = (debounce = DEBOUNCED - 1)

(* Software: a write to DOORBELL, RELEASE_THRESHOLD or CTRL.LOCK, or none.  *)
NoRegisterWrite == doorbell' = FALSE /\ UNCHANGED <<threshold, lock>>
WriteDoorbell == ~doorbell /\ doorbell' = TRUE /\ UNCHANGED <<threshold, lock>>
WriteThreshold(t) ==
    /\ threshold' = IF lock THEN threshold ELSE t
    /\ doorbell' = FALSE /\ UNCHANGED lock
WriteLock == lock' = TRUE /\ doorbell' = FALSE /\ UNCHANGED threshold

RegisterWrite ==
    \/ NoRegisterWrite
    \/ WriteDoorbell
    \/ \E t \in Thresholds : WriteThreshold(t)
    \/ WriteLock

(* The part of a cycle that is common to all: n credits freed, the bus's    *)
(* answer, and whether CTRL.FLUSH is high.                                  *)
Hclk(n, hready, hresp, flush) ==
    /\ ReleasePipeline(n, flush)
    /\ Returner(hready, hresp, flush)
    /\ Debouncer
    /\ owed' = (owed + n) - (IF WriteDone(hready, hresp) /\ chan = 0 THEN data ELSE 0)
    /\ dropped' = (dropped \/ flush \/ (Abandon(hready, hresp) /\ chan = 0))

Cycle(n, flush) == \E hready, hresp \in BOOLEAN : Hclk(n, hready, hresp, flush)

-----------------------------------------------------------------------------
(* A cycle in which the read side does nothing, reads a header, captures    *)
(* the length, reads the last word of a packet of n words, or is flushed.   *)

Quiet ==
    /\ ~chk
    /\ Cycle(0, FALSE) /\ RegisterWrite
    /\ UNCHANGED <<ract, chk>>

ReadHeader ==
    /\ Cycle(0, FALSE) /\ RegisterWrite
    /\ chk' = TRUE /\ UNCHANGED ract

CaptureLength ==
    /\ chk
    /\ Cycle(0, FALSE) /\ RegisterWrite
    /\ ract' = TRUE /\ chk' = FALSE

ReadLast(n) ==
    /\ ract
    /\ owed + n <= MAX_CREDITS     \* the peer fills no more than it has credit for
    /\ Cycle(n, FALSE) /\ RegisterWrite
    /\ ract' = FALSE /\ chk' = FALSE

(* The flush does not mask a read of the last word in its own cycle.        *)
Flush ==
    /\ \/ Cycle(0, TRUE)
       \/ ract /\ \E n \in Deltas : owed + n <= MAX_CREDITS /\ Cycle(n, TRUE)
    /\ NoRegisterWrite
    /\ ract' = FALSE /\ chk' = FALSE

Next ==
    \/ Quiet
    \/ ReadHeader
    \/ CaptureLength
    \/ \E n \in Deltas : ReadLast(n)
    \/ Flush

(* Reset leaves release_threshold at 20; Thresholds holds that value or, in  *)
(* a small instance, the one software wrote before the first packet arrived. *)
Init ==
    /\ ract = FALSE /\ chk = FALSE
    /\ threshold \in Thresholds /\ lock = FALSE
    /\ pipe = FALSE /\ pipeDelta = 0 /\ d1 = FALSE /\ d1Acc = 0
    /\ acc = 0 /\ delta = 0 /\ trigD = FALSE
    /\ doorbell = FALSE /\ debounce = -1 /\ stable = FALSE
    /\ prev = [c \in Channel |-> FALSE] /\ pending = [c \in Channel |-> FALSE]
    /\ state = "IDLE" /\ chan = 0 /\ data = 0 /\ retry = 0 /\ error = FALSE
    /\ owed = 0 /\ dropped = FALSE

Spec == Init /\ [][Next]_vars

(* The clock runs and the bus answers: no slave extends a transfer for ever. *)
(* An answer, OKAY or ERROR, moves a returner that is not idle.              *)
Answered == Next /\ (state # "IDLE" => state' # state)
FairSpec == Spec /\ WF_vars(Answered)

-----------------------------------------------------------------------------
(* Properties. *)

(* Types of the registers and of the history variables. *)
TypeOK ==
    /\ ract \in BOOLEAN /\ chk \in BOOLEAN
    /\ threshold \in Nat /\ lock \in BOOLEAN
    /\ pipe \in BOOLEAN /\ pipeDelta \in Nat
    /\ d1 \in BOOLEAN /\ d1Acc \in Nat
    /\ acc \in Nat /\ delta \in Nat
    /\ trigD \in BOOLEAN /\ doorbell \in BOOLEAN
    /\ debounce \in -1 .. DEBOUNCED /\ stable \in BOOLEAN
    /\ prev \in [Channel -> BOOLEAN] /\ pending \in [Channel -> BOOLEAN]
    /\ state \in ReturnerState /\ chan \in Channel /\ data \in Nat
    /\ retry \in 0 .. RETRY_COUNT /\ error \in BOOLEAN
    /\ owed \in 0 .. MAX_CREDITS /\ dropped \in BOOLEAN

(* Freed credit on its way to the peer: just read, below the threshold or    *)
(* being released, waiting for the returner, and in the returner's write.    *)
Sending == IF state # "IDLE" /\ chan = 0 THEN data ELSE 0
Held == (IF pipe THEN pipeDelta ELSE 0) + (IF ReleaseTrigger THEN d1Acc ELSE acc) + delta + Sending

(* No credit is returned twice: what is on its way never exceeds what reads  *)
(* have freed, so the peer is never told of room that does not exist.        *)
NoMint == Held <= owed

(* No credit is lost (the credit-leak fixes of 2026-06-12): unless a flush   *)
(* or an abandoned write dropped some, every freed credit is on its way.     *)
NoLeak == ~dropped => Held = owed

(* Released credit never waits without a request to return it, however       *)
(* triggers, captures and busy cycles of the returner fall together.         *)
NoStrandedCredit == delta > 0 => trigD \/ pending[0]

(* A flush clears retry_count_r, so errors and flushes that alternate for    *)
(* ever keep one write on the bus for ever.  Software does not do that.      *)
FlushesStop == <>[][~Flush]_vars

(* Released credit gets its turn on the bus, in spite of doorbells, retries  *)
(* and abandoned writes.                                                     *)
CreditServed == FlushesStop => (delta > 0 ~> (state = "ADDR" /\ chan = 0))

(* A doorbell is answered unless releases of credit keep coming: channel 0   *)
(* has strict priority.  The peer's is rung after reset, unless either keeps *)
(* the returner from it for ever.                                            *)
DoorbellServed ==
    /\ FlushesStop /\ <>[](~pending[0])
         => (pending[1] ~> (state = "ADDR" /\ chan = 1))
    /\ FlushesStop /\ <>[](~pending[0] /\ ~pending[1])
         => <>(state = "ADDR" /\ chan = 2)

-----------------------------------------------------------------------------
(***************************************************************************)
(* Proofs: credit is conserved on its way back, for every buffer size,     *)
(* every set of packet sizes and thresholds and every number of retries.   *)
(*                                                                         *)
(* NoMint and NoLeak are not inductive: a drain that completed one cycle   *)
(* after another would be counted in release_acc and in effective_acc_d1.  *)
(* Spacing says why that cannot happen (a header read and a length capture *)
(* lie between two completions), Ledger counts the credit in both places.  *)
(***************************************************************************)

Spacing ==
    /\ pipe => ~ract /\ ~chk
    /\ d1 => ~ract /\ ~pipe
    /\ trigD => ~d1
    /\ prev[0] => ~trigD

OnTheWay == (IF pipe THEN pipeDelta ELSE 0) + delta + Sending

Ledger ==
    /\ OnTheWay + acc <= owed
    /\ d1 => OnTheWay + d1Acc <= owed
    /\ ~dropped => OnTheWay + acc = owed
    /\ ~dropped /\ d1 => d1Acc = acc

CreditInv == TypeOK /\ Spacing /\ Ledger /\ NoStrandedCredit

-----------------------------------------------------------------------------
(* The initial state. *)

(* After reset nothing is owed and nothing is on its way. *)
LEMMA CreditInvInit == Init => CreditInv
  <1> SUFFICES ASSUME Init PROVE CreditInv
    OBVIOUS
  <1> USE DEF Init
  <1>1. TypeOK
    <2>1. prev \in [Channel -> BOOLEAN] /\ pending \in [Channel -> BOOLEAN]
      BY DEF Channel
    <2>2. threshold \in Nat /\ debounce \in -1 .. DEBOUNCED /\ retry \in 0 .. RETRY_COUNT
          /\ owed \in 0 .. MAX_CREDITS /\ chan \in Channel
      BY CreditsAssumption, ThresholdsAssumption, RetryAssumption DEF DEBOUNCED, Channel
    <2> QED
      BY <2>1, <2>2, Zenon DEF TypeOK, ReturnerState
  <1>2. Spacing
    BY DEF Spacing, Channel
  <1>3. Ledger
    BY DEF Ledger, OnTheWay, Sending
  <1>4. NoStrandedCredit
    BY DEF NoStrandedCredit
  <1> QED
    BY <1>1, <1>2, <1>3, <1>4 DEF CreditInv

-----------------------------------------------------------------------------
(* What every clock edge does to the ledger, whoever caused it.             *)

(* Some channel is always selected. *)
LEMMA ServedType == TypeOK => Served \in Channel
  BY DEF TypeOK, Served, Channel

(* The credit in the accumulators and the returner after a clock edge.      *)
LEMMA LedgerStep ==
  ASSUME TypeOK, Spacing, Ledger,
         NEW n \in Nat, n > 0 => ract,
         NEW hready \in BOOLEAN, NEW hresp \in BOOLEAN, NEW flush \in BOOLEAN,
         Hclk(n, hready, hresp, flush)
  PROVE  Ledger' /\ owed' \in Nat /\ owed' <= owed + n
  <1> USE DEF TypeOK
  <1>1. /\ pipe' = (n > 0) /\ pipeDelta' = n
        /\ d1' = pipe
        /\ d1Acc' = EffectiveAcc
        /\ acc' = IF flush \/ ReleaseTrigger THEN 0 ELSE EffectiveAcc
        /\ delta' = (IF Capture0 THEN 0 ELSE delta) + (IF ReleaseTrigger THEN d1Acc ELSE 0)
        /\ owed' = (owed + n) - (IF WriteDone(hready, hresp) /\ chan = 0 THEN data ELSE 0)
        /\ dropped' = (dropped \/ flush \/ (Abandon(hready, hresp) /\ chan = 0))
    BY DEF Hclk, ReleasePipeline
  <1>2. n > 0 => ~pipe /\ ~d1
    BY DEF Spacing
  <1>3. ReleaseTrigger => d1 /\ ~pipe
    BY DEF ReleaseTrigger, Spacing
  <1> DEFINE Gone == IF WriteDone(hready, hresp) /\ chan = 0 THEN data ELSE 0
             Lost == IF Abandon(hready, hresp) /\ chan = 0 THEN data ELSE 0
             Taken == IF Capture0 THEN delta ELSE 0
  <1>4. Sending' = ((Sending + Taken) - Gone) - Lost
    <2>1. CASE state = "IDLE"
      <3>1. CASE pending[0]
        BY <2>1, <3>1 DEF Hclk, Returner, StateNext, Dispatch, AnyPending, Served, WriteData,
              Sending, Capture0, WriteDone, Abandon, ErrorEvent, Channel
      <3>2. CASE ~pending[0] /\ AnyPending
        BY <2>1, <3>2 DEF Hclk, Returner, StateNext, Dispatch, Served, WriteData,
              Sending, Capture0, WriteDone, Abandon, ErrorEvent, Channel
      <3>3. CASE ~AnyPending
        BY <2>1, <3>3 DEF Hclk, Returner, StateNext, Dispatch, AnyPending, Sending, Capture0,
              WriteDone, Abandon, ErrorEvent, Channel
      <3> QED BY <3>1, <3>2, <3>3
    <2>2. CASE state = "ADDR"
      BY <2>2 DEF Hclk, Returner, StateNext, Dispatch, Sending, Capture0, WriteDone, Abandon,
            ErrorEvent, Channel
    <2>3. CASE state = "DATA"
      BY <2>3, RetryAssumption DEF Hclk, Returner, StateNext, Dispatch, Sending, Capture0,
            WriteDone, Abandon, ErrorEvent, Channel
    <2> QED BY <2>1, <2>2, <2>3 DEF ReturnerState
  <1>5. Gone \in Nat /\ Lost \in Nat /\ Taken \in Nat /\ Sending \in Nat
    BY DEF Sending
  <1>6. Gone + Lost <= Sending /\ Taken <= delta
    BY DEF Sending, WriteDone, Abandon, ErrorEvent
  <1>7. Lost > 0 => dropped'
    <2>1. Lost > 0 => Abandon(hready, hresp) /\ chan = 0
      OBVIOUS
    <2> QED
      BY <1>1, <2>1, Zenon
  <1> HIDE DEF Gone, Lost, Taken
  <1>8. owed' = (owed + n) - Gone
    BY <1>1 DEF Gone
  <1>9. delta' = (delta - Taken) + (IF ReleaseTrigger THEN d1Acc ELSE 0)
    BY <1>1 DEF Taken
  <1>10. dropped' <=> (dropped \/ flush \/ (Abandon(hready, hresp) /\ chan = 0))
    BY <1>1
  <1>11. CASE ReleaseTrigger
    <2>1. /\ OnTheWay' = (((n + delta) - Taken) + d1Acc) + (((Sending + Taken) - Gone) - Lost)
          /\ acc' = 0 /\ d1' = FALSE
      BY <1>1, <1>3, <1>4, <1>5, <1>9, <1>11 DEF OnTheWay
    <2>2. OnTheWay = delta + Sending /\ OnTheWay + d1Acc <= owed
      BY <1>3, <1>5, <1>11 DEF OnTheWay, Ledger
    <2>3. ~dropped => delta + Sending + d1Acc = owed
      BY <1>3, <1>5, <1>11, <2>2 DEF Ledger
    <2>4. ~dropped' => ~dropped /\ Lost = 0
      BY <1>1, <1>5, <1>7
    <2> QED
      BY <1>5, <1>6, <1>8, <2>1, <2>2, <2>3, <2>4 DEF Ledger
  <1>12. CASE ~ReleaseTrigger
    <2>1. EffectiveAcc = acc + (IF pipe THEN pipeDelta ELSE 0) /\ EffectiveAcc \in Nat
      BY DEF EffectiveAcc
    <2>2. OnTheWay' = ((n + delta) - Taken) + (((Sending + Taken) - Gone) - Lost)
      BY <1>1, <1>4, <1>5, <1>9, <1>12 DEF OnTheWay
    <2>3. OnTheWay + acc = EffectiveAcc + delta + Sending
      BY <1>5, <2>1 DEF OnTheWay
    <2>4. EffectiveAcc + delta + Sending <= owed
      BY <2>3 DEF Ledger
    <2>5. ~dropped => EffectiveAcc + delta + Sending = owed
      BY <2>3 DEF Ledger
    <2>6. acc' = IF flush THEN 0 ELSE EffectiveAcc
      BY <1>1, <1>12
    <2>7. ~dropped' => ~dropped /\ Lost = 0 /\ ~flush
      BY <1>1, <1>5, <1>7
    <2>8. d1Acc' = EffectiveAcc
      BY <1>1
    <2> QED
      BY <1>5, <1>6, <1>8, <2>1, <2>2, <2>4, <2>5, <2>6, <2>7, <2>8 DEF Ledger
  <1> QED
    BY <1>11, <1>12

(* Every step is a clock edge that frees n credits, n # 0 only at the end of *)
(* a drain, and never more than the peer had been given.                     *)
LEMMA NextIsEdge ==
  ASSUME TypeOK, Next
  PROVE  \E n \in Nat, hready, hresp, flush \in BOOLEAN :
            /\ n > 0 => ract
            /\ owed + n <= MAX_CREDITS
            /\ Hclk(n, hready, hresp, flush)
  <1>1. owed + 0 <= MAX_CREDITS /\ 0 \in Nat /\ ~(0 > 0)
    BY CreditsAssumption DEF TypeOK
  <1>2. ASSUME NEW flush \in BOOLEAN, Cycle(0, flush)
        PROVE  \E hready, hresp \in BOOLEAN : Hclk(0, hready, hresp, flush)
    BY <1>2 DEF Cycle
  <1>3. CASE Quiet \/ ReadHeader \/ CaptureLength
    <2>1. PICK hready, hresp \in BOOLEAN : Hclk(0, hready, hresp, FALSE)
      BY <1>2, <1>3 DEF Quiet, ReadHeader, CaptureLength
    <2>2. (0 > 0 => ract) /\ owed + 0 <= MAX_CREDITS /\ Hclk(0, hready, hresp, FALSE)
      BY <1>1, <2>1, Zenon
    <2> QED
      BY <1>1, <2>2, Zenon
  <1>4. CASE Flush
    <2>1. CASE Cycle(0, TRUE)
      <3>1. PICK hready, hresp \in BOOLEAN : Hclk(0, hready, hresp, TRUE)
        BY <1>2, <2>1
      <3>2. (0 > 0 => ract) /\ owed + 0 <= MAX_CREDITS /\ Hclk(0, hready, hresp, TRUE)
        BY <1>1, <3>1, Zenon
      <3> QED
        BY <1>1, <3>2, Zenon
    <2>2. CASE ract /\ \E n \in Deltas : owed + n <= MAX_CREDITS /\ Cycle(n, TRUE)
      <3>1. PICK n \in Deltas : owed + n <= MAX_CREDITS /\ Cycle(n, TRUE)
        BY <2>2
      <3>2. PICK hready, hresp \in BOOLEAN : Hclk(n, hready, hresp, TRUE)
        BY <3>1 DEF Cycle
      <3>3. n \in Nat
        BY DeltasAssumption
      <3> QED
        BY <2>2, <3>1, <3>2, <3>3, Zenon
    <2> QED
      BY <1>4, <2>1, <2>2 DEF Flush
  <1>5. CASE \E n \in Deltas : ReadLast(n)
    <2>1. PICK n \in Deltas : ReadLast(n)
      BY <1>5
    <2>2. PICK hready, hresp \in BOOLEAN : Hclk(n, hready, hresp, FALSE)
      BY <2>1 DEF ReadLast, Cycle
    <2>3. n \in Nat /\ ract /\ owed + n <= MAX_CREDITS
      BY <2>1, DeltasAssumption DEF ReadLast
    <2> QED
      BY <2>2, <2>3, Zenon
  <1> QED
    BY <1>3, <1>4, <1>5 DEF Next

(* Completions stay apart: after one, a header must be read and its length   *)
(* captured before the next.                                                 *)
LEMMA SpacingStep ==
  ASSUME TypeOK, Spacing, Next
  PROVE  Spacing'
  <1>1. PICK n \in Nat, hready, hresp, flush \in BOOLEAN :
           (n > 0 => ract) /\ Hclk(n, hready, hresp, flush)
    BY NextIsEdge
  <1>2. trigD' = ReleaseTrigger /\ d1' = pipe /\ pipe' = (n > 0) /\ prev' = Interrupt
    BY <1>1 DEF Hclk, ReleasePipeline, Returner
  <1>3. prev'[0] = trigD
    BY <1>2 DEF Interrupt, Channel
  <1>4. (trigD' => ~d1') /\ (prev'[0] => ~trigD')
    BY <1>2, <1>3 DEF Spacing, ReleaseTrigger
  <1>5. d1' => ~pipe'
    BY <1>1, <1>2 DEF Spacing
  <1>6. ASSUME NEW fl \in BOOLEAN, Cycle(0, fl)
        PROVE  ~pipe'
    <2>1. pipe' = (0 > 0)
      BY <1>6, Zenon DEF Cycle, Hclk, ReleasePipeline
    <2>2. ~(0 > 0)
      OBVIOUS
    <2> QED
      BY <2>1, <2>2, Zenon
  <1>7. (pipe' => ~ract' /\ ~chk') /\ (d1' => ~ract')
    <2>1. CASE Quiet
      BY <1>2, <1>6, <2>1, Zenon DEF Quiet, Spacing
    <2>2. CASE ReadHeader
      BY <1>2, <1>6, <2>2, Zenon DEF ReadHeader, Spacing
    <2>3. CASE CaptureLength
      BY <1>2, <1>6, <2>3, Zenon DEF CaptureLength, Spacing
    <2>4. CASE Flush
      BY <2>4, Zenon DEF Flush
    <2>5. CASE \E m \in Deltas : ReadLast(m)
      BY <2>5, Zenon DEF ReadLast
    <2> QED
      BY <2>1, <2>2, <2>3, <2>4, <2>5 DEF Next
  <1> QED
    BY <1>4, <1>5, <1>7, Zenon DEF Spacing

(* A cycle keeps the registers in their types. *)
LEMMA TypeStep ==
  ASSUME TypeOK, Next, owed' \in 0 .. MAX_CREDITS
  PROVE  TypeOK'
  <1> USE DEF TypeOK
  <1>1. PICK n \in Nat, hready, hresp, flush \in BOOLEAN : Hclk(n, hready, hresp, flush)
    BY NextIsEdge
  <1>2. ract' \in BOOLEAN /\ chk' \in BOOLEAN
    BY Zenon DEF Next, Quiet, ReadHeader, CaptureLength, ReadLast, Flush
  <1>3. threshold' \in Nat /\ lock' \in BOOLEAN /\ doorbell' \in BOOLEAN
    <2>1. RegisterWrite
      BY DEF Next, Quiet, ReadHeader, CaptureLength, ReadLast, Flush, RegisterWrite
    <2>2. threshold' \in Nat
      BY <2>1, ThresholdsAssumption
      DEF RegisterWrite, NoRegisterWrite, WriteDoorbell, WriteThreshold, WriteLock
    <2>3. lock' \in BOOLEAN /\ doorbell' \in BOOLEAN
      BY <2>1, Zenon DEF RegisterWrite, NoRegisterWrite, WriteDoorbell, WriteThreshold, WriteLock
    <2> QED BY <2>2, <2>3
  <1>4. /\ pipe' \in BOOLEAN /\ pipeDelta' \in Nat /\ d1' \in BOOLEAN /\ d1Acc' \in Nat
        /\ acc' \in Nat /\ delta' \in Nat /\ trigD' \in BOOLEAN
    BY <1>1 DEF Hclk, ReleasePipeline, EffectiveAcc, ReleaseTrigger
  <1>5. debounce' \in -1 .. DEBOUNCED /\ stable' \in BOOLEAN
    BY <1>1 DEF Hclk, Debouncer, DEBOUNCED
  <1>6. prev' \in [Channel -> BOOLEAN] /\ pending' \in [Channel -> BOOLEAN]
    BY <1>1 DEF Hclk, Returner, PendingNext, Interrupt, Rising, Channel
  <1>7. state' \in ReturnerState
    BY <1>1 DEF Hclk, Returner, StateNext, ReturnerState
  <1>8. chan' \in Channel /\ data' \in Nat
    BY <1>1, ServedType DEF Hclk, Returner, WriteData
  <1>9. retry' \in 0 .. RETRY_COUNT
    BY <1>1, RetryAssumption DEF Hclk, Returner, RetryNext
  <1>10. error' \in BOOLEAN /\ dropped' \in BOOLEAN
    BY <1>1, Zenon DEF Hclk, Returner, RetryNext
  <1> QED
    BY <1>2, <1>3, <1>4, <1>5, <1>6, <1>7, <1>8, <1>9, <1>10

(* Credit that is released, now or earlier, keeps a request to return it.    *)
LEMMA StrandedStep ==
  ASSUME TypeOK, Spacing, NoStrandedCredit, Next
  PROVE  NoStrandedCredit'
  <1> USE DEF TypeOK
  <1>1. PICK n \in Nat, hready, hresp, flush \in BOOLEAN : Hclk(n, hready, hresp, flush)
    BY NextIsEdge
  <1>2. /\ delta' = (IF Capture0 THEN 0 ELSE delta) + (IF ReleaseTrigger THEN d1Acc ELSE 0)
        /\ trigD' = ReleaseTrigger
    BY <1>1 DEF Hclk, ReleasePipeline
  <1>3. /\ trigD => pending'[0]
        /\ pending[0] /\ ~Capture0 => pending'[0]
    BY <1>1 DEF Hclk, Returner, PendingNext, Rising, Interrupt, Spacing, Channel, Dispatch,
          Capture0, Served, AnyPending
  <1>4. CASE ReleaseTrigger
    BY <1>2, <1>4 DEF NoStrandedCredit
  <1>5. CASE ~ReleaseTrigger /\ Capture0
    BY <1>2, <1>5 DEF NoStrandedCredit
  <1>6. CASE ~ReleaseTrigger /\ ~Capture0
    BY <1>2, <1>3, <1>6 DEF NoStrandedCredit
  <1> QED
    BY <1>4, <1>5, <1>6

(* Every step keeps the invariant. *)
LEMMA CreditInvStep == CreditInv /\ [Next]_vars => CreditInv'
  <1> SUFFICES ASSUME CreditInv, [Next]_vars PROVE CreditInv'
    OBVIOUS
  <1>1. CASE Next
    <2>1. PICK n \in Nat, hready, hresp, flush \in BOOLEAN :
             /\ n > 0 => ract
             /\ owed + n <= MAX_CREDITS
             /\ Hclk(n, hready, hresp, flush)
      BY <1>1, NextIsEdge DEF CreditInv
    <2>2. Ledger' /\ owed' \in Nat /\ owed' <= owed + n
      BY <2>1, LedgerStep DEF CreditInv
    <2>3. owed' \in 0 .. MAX_CREDITS
      BY <2>1, <2>2, CreditsAssumption DEF CreditInv, TypeOK
    <2>4. TypeOK'
      BY <1>1, <2>3, TypeStep DEF CreditInv
    <2> QED
      BY <1>1, <2>2, <2>4, SpacingStep, StrandedStep DEF CreditInv
  <1>2. CASE UNCHANGED vars
    BY <1>2 DEF vars, CreditInv, TypeOK, Spacing, Ledger, OnTheWay, Sending, NoStrandedCredit
  <1> QED
    BY <1>1, <1>2

-----------------------------------------------------------------------------
(* The theorems. *)

(* The credit return path (release accumulator, trigger delay, returner)     *)
(* keeps its ledger exact in every reachable state.                          *)
THEOREM CreditReturnInvariant == Spec => []CreditInv
  BY CreditInvInit, CreditInvStep, PTL DEF Spec

(* Every register of the credit return path keeps its type.                  *)
THEOREM ReturnTypeCorrect == Spec => []TypeOK
  <1>1. CreditInv => TypeOK
    BY DEF CreditInv
  <1> QED
    BY <1>1, CreditReturnInvariant, PTL

(* The path never returns a credit twice.                                    *)
THEOREM NoMintAlways == Spec => []NoMint
  <1>1. CreditInv => NoMint
    <2> SUFFICES ASSUME CreditInv PROVE NoMint
      OBVIOUS
    <2> USE DEF CreditInv, TypeOK
    <2>1. Sending \in Nat
      BY DEF Sending
    <2>2. ReleaseTrigger => d1
      BY DEF ReleaseTrigger
    <2> QED
      BY <2>1, <2>2 DEF NoMint, Held, Ledger, OnTheWay
  <1> QED
    BY <1>1, CreditReturnInvariant, PTL

(* The path loses no credit except by a flush or an abandoned write.         *)
THEOREM NoLeakAlways == Spec => []NoLeak
  <1>1. CreditInv => NoLeak
    <2> SUFFICES ASSUME CreditInv PROVE NoLeak
      OBVIOUS
    <2> USE DEF CreditInv, TypeOK
    <2>1. Sending \in Nat
      BY DEF Sending
    <2>2. ReleaseTrigger => d1
      BY DEF ReleaseTrigger
    <2> QED
      BY <2>1, <2>2 DEF NoLeak, Held, Ledger, OnTheWay
  <1> QED
    BY <1>1, CreditReturnInvariant, PTL

(* Released credit always has a request for the returner.                    *)
THEOREM NoStrandedCreditAlways == Spec => []NoStrandedCredit
  <1>1. CreditInv => NoStrandedCredit
    BY DEF CreditInv
  <1> QED
    BY <1>1, CreditReturnInvariant, PTL
=============================================================================

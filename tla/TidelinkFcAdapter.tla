-------------------------- MODULE TidelinkFcAdapter --------------------------
(***************************************************************************)
(* The transmit half of tidelink_fc_adapter.sv: the transfer lock of the   *)
(* AHB aperture, its data phase with the stall timeout, the returner's     *)
(* intercepted writes, and the arbiter that feeds one skid register from   *)
(* the aperture, the returner, the PTP servo and TideChart.                *)
(*                                                                         *)
(* A word is its source and, for the aperture, its address.  One step is   *)
(* one hclk edge.  The aperture's master is any that keeps to what the     *)
(* lock assumes: a beat that repeats the address of the one before without *)
(* a gap is the same store.  It only writes.  The count of abandoned beats *)
(* (tx_dropped_cnt_r, read by nobody here) and the local PUF reads are     *)
(* left out.                                                               *)
(***************************************************************************)
EXTENDS Integers

CONSTANTS
    Addr,                 \* aperture addresses
    TX_IDLE_GAP,          \* idle beats that end a store (3)
    TX_STALL_TIMEOUT,     \* stalled cycles before an ERROR response
    MAX_SIDEBAND_BURST    \* sideband words before the aperture gets its turn (4)

ASSUME AddrAssumption == Addr \subseteq Nat
ASSUME GapAssumption == TX_IDLE_GAP \in 1 .. 6
ASSUME TimeoutAssumption == TX_STALL_TIMEOUT \in Nat
ASSUME BurstAssumption == MAX_SIDEBAND_BURST \in Nat \ {0}

NoAddr == -1
IDLE_MAX == 7                       \* tx_idle_cnt_r has three bits
LONG_GAP == TX_IDLE_GAP + 1

VARIABLES
    lock, lockAddr, idleCnt,  \* tx_xfer_lock_r, tx_lock_addr_r, tx_idle_cnt_r
    dp, addr,                 \* tx_data_phase_r, tx_addr_r
    stall,                    \* tx_stall_ctr_r
    err1, err2,               \* tx_err1_r, tx_err2_r
    rtn,                      \* rtn_pending_r
    burst,                    \* sideband_burst_r
    skid,                     \* skid_valid_r
    servo, ext,               \* servo_fc_valid; a remote word on tc_axis_tx
    wait,                     \* master: a transfer is in its data phase
    want,                     \* master: address of a transfer not yet taken, or NoAddr
    maddr,                    \* master: address of the last transfer taken
    gap,                      \* master: idle beats since it last presented an address
    sent, acked,              \* history: the word the skid took, and the word whose
                              \*          source was told it is taken, in the last cycle
    waited,                   \* history: cycles the transfer in its data phase has waited
    refused,                  \* history: cycles in which the skid had no room for it
    txPassed, rtnPassed       \* history: words that went before the one the aperture, or
                              \*          the returner, is waiting to send

txVars == <<lock, lockAddr, idleCnt, dp, addr, stall, err1, err2>>
masterVars == <<wait, want, maddr, gap>>
vars == <<txVars, rtn, burst, skid, servo, ext, masterVars, sent, acked, waited, refused, txPassed, rtnPassed>>

-----------------------------------------------------------------------------
(* The arbiter and the skid register. *)

SkidCanAccept(ready) == ~skid \/ ready

Starving == burst >= MAX_SIDEBAND_BURST /\ dp

RtnSelected == rtn /\ ~Starving
ServoSelected == servo /\ ~rtn /\ ~Starving
ExtGrant(qos) == ext /\ ~Starving /\ (qos \/ ~dp)
ExtSelected(qos) == ExtGrant(qos) /\ ~rtn /\ ~servo
SidebandGrant(qos) == RtnSelected \/ ServoSelected \/ ExtSelected(qos)
ArbValid == dp \/ rtn \/ servo \/ ext

TxWord(a) == [source |-> "tx", addr |-> a]
Sideband(s) == [source |-> s]

ArbData(qos) ==
    CASE RtnSelected -> Sideband("rtn")
      [] ServoSelected -> Sideband("servo")
      [] ExtSelected(qos) -> Sideband("ext")
      [] OTHER -> TxWord(addr)

Load(qos, ready) == IF ArbValid /\ SkidCanAccept(ready) THEN {ArbData(qos)} ELSE {}

SidebandBurst(qos, ready) ==
    burst' = IF Load(qos, ready) = {} THEN burst
             ELSE IF ~SidebandGrant(qos) THEN 0
             ELSE IF burst < MAX_SIDEBAND_BURST THEN burst + 1 ELSE burst

Skid(qos, ready) == skid' = (ArbValid \/ (skid /\ ~ready))

(* What each sideband source is told. *)
RtnReady(ready) == RtnSelected /\ SkidCanAccept(ready)
ServoReady(ready) == ServoSelected /\ SkidCanAccept(ready)
ExtReady(qos, ready) == ExtSelected(qos) /\ SkidCanAccept(ready)

(* Sources hold their word until it is taken, then may offer another.  The   *)
(* returner's next address phase comes after its data phase.                 *)
Sources(qos, ready, newRtn, newServo, newExt) ==
    /\ rtn' = IF rtn THEN ~RtnReady(ready) ELSE newRtn
    /\ servo' = IF servo /\ ~ServoReady(ready) THEN TRUE ELSE newServo
    /\ ext' = IF ext /\ ~ExtReady(qos, ready) THEN TRUE ELSE newExt

-----------------------------------------------------------------------------
(* The aperture.  b is the beat on the bus: whether the port is selected,   *)
(* whether it carries an address phase, and the address.                    *)

TxTakes(qos, ready) == SkidCanAccept(ready) /\ ~SidebandGrant(qos)
Stalled(qos, ready) == dp /\ ~TxTakes(qos, ready)
StallExpired == stall = TX_STALL_TIMEOUT

Hreadyout(qos, ready) == ~err1 /\ (err2 \/ (dp => TxTakes(qos, ready)))

LockHit(b) == lock /\ b.addr = lockAddr
Accept(b, hready) == b.sel /\ b.trans /\ hready /\ ~LockHit(b)

(* Mutant: any idle beat ends the store. *)
TransferLockAnyIdle(b, hready) ==
    \/ /\ Accept(b, hready)
       /\ lock' = TRUE /\ lockAddr' = b.addr /\ idleCnt' = 0
    \/ /\ ~Accept(b, hready)
       /\ lock' = (lock /\ b.trans /\ b.addr = lockAddr)
       /\ UNCHANGED <<lockAddr, idleCnt>>

TransferLock(b, hready) ==
    \/ /\ Accept(b, hready)
       /\ lock' = TRUE /\ lockAddr' = b.addr /\ idleCnt' = 0
    \/ /\ ~Accept(b, hready)
       /\ idleCnt' = IF b.sel /\ b.trans THEN 0 ELSE IF idleCnt # IDLE_MAX THEN idleCnt + 1 ELSE idleCnt
       /\ lock' = (lock /\ ~(\/ ~b.sel
                             \/ b.sel /\ b.trans /\ b.addr # lockAddr
                             \/ idleCnt >= TX_IDLE_GAP))
       /\ UNCHANGED lockAddr

(* Mutants: a stall never expires; a store inherits the stall count of the   *)
(* one before.                                                               *)
DataPhaseNoTimeout(b, hready, qos, ready) ==
    /\ err2' = err1 /\ err1' = FALSE
    /\ addr' = IF Accept(b, hready) THEN b.addr ELSE addr
    /\ dp' = (Accept(b, hready) \/ Stalled(qos, ready))
    /\ stall' = 0
DataPhaseStallKept(b, hready, qos, ready) ==
    /\ err2' = err1
    /\ err1' = (~Accept(b, hready) /\ Stalled(qos, ready) /\ StallExpired)
    /\ addr' = IF Accept(b, hready) THEN b.addr ELSE addr
    /\ dp' = (Accept(b, hready) \/ (Stalled(qos, ready) /\ ~StallExpired))
    /\ stall' = IF ~Stalled(qos, ready) THEN stall ELSE IF StallExpired THEN 0 ELSE stall + 1

DataPhase(b, hready, qos, ready) ==
    /\ err2' = err1
    /\ err1' = (~Accept(b, hready) /\ Stalled(qos, ready) /\ StallExpired)
    /\ addr' = IF Accept(b, hready) THEN b.addr ELSE addr
    /\ dp' = (Accept(b, hready) \/ (Stalled(qos, ready) /\ ~StallExpired))
    /\ stall' = IF ~Accept(b, hready) /\ Stalled(qos, ready) /\ ~StallExpired THEN stall + 1
                ELSE IF Accept(b, hready) \/ dp THEN 0 ELSE stall

-----------------------------------------------------------------------------
(* The aperture's master.  It starts a store at another address at once, at *)
(* the same one only after a gap; it may go on holding the address of the   *)
(* store it has started, with shorter gaps in between, as the AXI bridge    *)
(* does; and it may withdraw an address when it is told of an ERROR.        *)

Beat(trans, a) == [sel |-> TRUE, trans |-> trans, addr |-> a]
Deselect == [sel |-> FALSE, trans |-> FALSE, addr |-> maddr]

Idle(b, hready) ==
    /\ want = NoAddr \/ err2
    /\ b \in {Beat(FALSE, maddr), Deselect}
    /\ wait' = (wait /\ ~hready)
    /\ want' = NoAddr
    /\ gap' = IF ~b.sel \/ want # NoAddr \/ gap = LONG_GAP THEN LONG_GAP ELSE gap + 1
    /\ UNCHANGED maddr

Hold(b, hready) ==
    /\ want = NoAddr /\ gap < TX_IDLE_GAP
    /\ b = Beat(TRUE, maddr)
    /\ wait' = (wait /\ ~hready)
    /\ gap' = 0
    /\ UNCHANGED <<want, maddr>>

Store(b, hready, a) ==
    /\ want \in {NoAddr, a}
    /\ want = NoAddr => a # maddr \/ gap = LONG_GAP
    /\ b = Beat(TRUE, a)
    /\ wait' = (wait \/ hready)
    /\ want' = IF hready THEN NoAddr ELSE a
    /\ maddr' = IF hready THEN a ELSE maddr
    /\ gap' = 0

Beats == [sel : {TRUE}, trans : BOOLEAN, addr : Addr] \cup {Deselect}
Master(b, hready) ==
    \/ Idle(b, hready)
    \/ Hold(b, hready)
    \/ \E a \in Addr : Store(b, hready, a)

(* The words whose sources are told in this cycle that they are taken. *)
Acknowledged(hready, qos, ready) ==
    (IF wait /\ hready /\ ~err1 /\ ~err2 THEN {TxWord(maddr)} ELSE {})
    \cup (IF RtnReady(ready) THEN {Sideband("rtn")} ELSE {})
    \cup (IF ServoReady(ready) THEN {Sideband("servo")} ELSE {})
    \cup (IF ExtReady(qos, ready) THEN {Sideband("ext")} ELSE {})

(* What the properties look at. *)
History(hready, qos, ready) ==
    LET load == Load(qos, ready)
    IN  /\ sent' = load
        /\ acked' = Acknowledged(hready, qos, ready)
        /\ waited' = IF wait /\ ~hready THEN waited + 1 ELSE 0
        /\ refused' = IF ~Stalled(qos, ready) THEN 0
                      ELSE IF SkidCanAccept(ready) THEN refused ELSE refused + 1
        /\ txPassed' = IF ~dp \/ TxWord(addr) \in load THEN 0
                       ELSE IF load = {} THEN txPassed ELSE txPassed + 1
        /\ rtnPassed' = IF ~rtn \/ Sideband("rtn") \in load THEN 0
                        ELSE IF load = {} THEN rtnPassed ELSE rtnPassed + 1

-----------------------------------------------------------------------------
(* A cycle: ready is tl_fc_a2l_ready, qos whether TideChart's priority hint *)
(* is not zero.  hready is looped back from hreadyout.                      *)

Hclk(b, ready, qos, newRtn, newServo, newExt) ==
    LET hready == Hreadyout(qos, ready)
    IN  /\ Master(b, hready)
        /\ TransferLock(b, hready)
        /\ DataPhase(b, hready, qos, ready)
        /\ SidebandBurst(qos, ready)
        /\ Skid(qos, ready)
        /\ Sources(qos, ready, newRtn, newServo, newExt)
        /\ History(hready, qos, ready)

Cycle(ready) ==
    \E b \in Beats, qos, newRtn, newServo, newExt \in BOOLEAN :
        Hclk(b, ready, qos, newRtn, newServo, newExt)

LinkReady == Cycle(TRUE)
LinkBusy == Cycle(FALSE)

Next == LinkReady \/ LinkBusy

Init ==
    /\ lock = FALSE /\ lockAddr \in Addr /\ idleCnt = 0
    /\ dp = FALSE /\ addr \in Addr /\ stall = 0 /\ err1 = FALSE /\ err2 = FALSE
    /\ rtn = FALSE /\ burst = 0 /\ skid = FALSE
    /\ servo = FALSE /\ ext = FALSE
    /\ wait = FALSE /\ want = NoAddr /\ maddr \in Addr /\ gap = LONG_GAP
    /\ sent = {} /\ acked = {} /\ waited = 0 /\ refused = 0 /\ txPassed = 0 /\ rtnPassed = 0

Spec == Init /\ [][Next]_vars

-----------------------------------------------------------------------------
(* Properties. *)

(* Types of the registers. *)
TypeOK ==
    /\ lock \in BOOLEAN /\ lockAddr \in Addr /\ idleCnt \in 0 .. IDLE_MAX
    /\ dp \in BOOLEAN /\ addr \in Addr /\ stall \in 0 .. TX_STALL_TIMEOUT
    /\ err1 \in BOOLEAN /\ err2 \in BOOLEAN
    /\ rtn \in BOOLEAN /\ burst \in 0 .. MAX_SIDEBAND_BURST /\ skid \in BOOLEAN
    /\ servo \in BOOLEAN /\ ext \in BOOLEAN
    /\ wait \in BOOLEAN /\ want \in Addr \cup {NoAddr} /\ maddr \in Addr
    /\ gap \in 0 .. LONG_GAP
    /\ waited \in Nat /\ refused \in Nat /\ txPassed \in Nat /\ rtnPassed \in Nat

(* A word is sent in the very cycle in which its source is told it is taken, *)
(* and at no other time: no store is lost behind an OKAY, none is sent twice *)
(* while the bridge holds its address, none is sent after an ERROR, and no   *)
(* sideband word is dropped or doubled when sources compete.                 *)
SentIffAcked == sent = acked

(* The aperture's word is overtaken by at most MAX_SIDEBAND_BURST others, so *)
(* a stream of credit, timestamps and claims cannot starve it.               *)
TxOvertakenBounded == txPassed <= MAX_SIDEBAND_BURST

(* Credit and doorbells wait for at most one word, however the aperture      *)
(* streams and TideChart claims the link: the turn that the aperture gets is *)
(* a single one.                                                             *)
RtnOvertakenOnce == rtnPassed <= 1

(* The aperture's master is answered in bounded time even if the link is     *)
(* dead: a stall of TX_STALL_TIMEOUT cycles becomes a two-cycle ERROR.       *)
AnsweredInTime == waited <= TX_STALL_TIMEOUT + 2

(* A store fails only because the link stalled: of the cycles it has waited, *)
(* all but MAX_SIDEBAND_BURST are cycles in which the link took no word.     *)
(* Sideband traffic alone, or an earlier store's wait, never costs a store.  *)
TimeoutMeansLinkStalled == err1 => refused >= TX_STALL_TIMEOUT + 1 - MAX_SIDEBAND_BURST
=============================================================================

----------------------- MODULE TidelinkFcAdapterProofs -----------------------
(***************************************************************************)
(* The transmit half of the FC adapter, for every set of addresses, every  *)
(* timeout, every burst limit and every idle gap the counter can count.    *)
(*                                                                         *)
(* That words are sent exactly when their sources are told so rests on two *)
(* agreements.  The master waits exactly while the adapter has its data    *)
(* phase or answers with an ERROR (Phases); and the lock is set, on the    *)
(* master's address, exactly while the store it has started may go on      *)
(* (Locked), so that a held beat is never accepted and a new store always  *)
(* is.  The counts of the other properties are tied to the adapter's own   *)
(* counters: Waiting to the stall counter, Turns to the burst counter, and *)
(* Stalls to both.                                                         *)
(***************************************************************************)
EXTENDS TidelinkFcAdapter, TLAPS

Phases ==
    /\ wait <=> dp \/ err1 \/ err2
    /\ dp => ~err1 /\ ~err2
    /\ ~(err1 /\ err2)
    /\ dp => addr = maddr

Locked ==
    IF want = NoAddr /\ gap < LONG_GAP
    THEN lock /\ lockAddr = maddr /\ idleCnt = gap
    ELSE ~lock

Waiting ==
    /\ dp => waited <= stall
    /\ err1 => waited <= TX_STALL_TIMEOUT + 1
    /\ err2 => waited <= TX_STALL_TIMEOUT + 2
    /\ ~wait => waited = 0

Turns ==
    /\ txPassed <= burst
    /\ rtnPassed = 0 \/ (rtnPassed = 1 /\ burst = 0)

Stalls ==
    /\ dp => stall = txPassed + refused
    /\ TimeoutMeansLinkStalled

AdapterInv == TypeOK /\ Phases /\ Locked /\ Waiting /\ Turns /\ Stalls /\ SentIffAcked

-----------------------------------------------------------------------------

(* NoAddr is not an address. *)
LEMMA NoAddrFresh == NoAddr \notin Addr
  BY AddrAssumption DEF NoAddr

(* After reset nothing is in progress. *)
LEMMA AdapterInvInit == Init => AdapterInv
  <1> SUFFICES ASSUME Init PROVE AdapterInv
    OBVIOUS
  <1> USE GapAssumption, TimeoutAssumption, BurstAssumption DEF Init
  <1>1. TypeOK
    <2>1. /\ idleCnt \in 0 .. IDLE_MAX /\ stall \in 0 .. TX_STALL_TIMEOUT
          /\ burst \in 0 .. MAX_SIDEBAND_BURST /\ gap \in 0 .. LONG_GAP
          /\ waited \in Nat /\ refused \in Nat /\ txPassed \in Nat /\ rtnPassed \in Nat
      BY DEF IDLE_MAX, LONG_GAP
    <2>2. want \in Addr \cup {NoAddr}
      OBVIOUS
    <2> QED
      BY <2>1, <2>2, Zenon DEF TypeOK
  <1>2. Phases /\ Waiting /\ Turns /\ Stalls /\ SentIffAcked
    BY DEF Phases, Waiting, Turns, Stalls, TimeoutMeansLinkStalled, SentIffAcked
  <1>3. Locked
    BY DEF Locked, LONG_GAP
  <1> QED
    BY <1>1, <1>2, <1>3 DEF AdapterInv

-----------------------------------------------------------------------------
(* One edge. *)

(* If no sideband word is selected and some word is offered, it is the       *)
(* aperture's.                                                               *)
LEMMA OtherwiseTx ==
  ASSUME TypeOK, NEW qos \in BOOLEAN, ArbValid, ~SidebandGrant(qos)
  PROVE  dp
  BY Zenon DEF ArbValid, SidebandGrant, RtnSelected, ServoSelected, ExtSelected, ExtGrant, Starving

(* A word goes to the skid iff its source is told so. *)
LEMMA LoadIsAcknowledged ==
  ASSUME TypeOK, Phases, NEW qos \in BOOLEAN, NEW ready \in BOOLEAN
  PROVE  Load(qos, ready) = Acknowledged(Hreadyout(qos, ready), qos, ready)
  <1> DEFINE hready == Hreadyout(qos, ready)
             ack == Acknowledged(hready, qos, ready)
             txAck == wait /\ hready /\ ~err1 /\ ~err2
  <1>1. ack = (IF txAck THEN {TxWord(maddr)} ELSE {})
              \cup (IF RtnReady(ready) THEN {Sideband("rtn")} ELSE {})
              \cup (IF ServoReady(ready) THEN {Sideband("servo")} ELSE {})
              \cup (IF ExtReady(qos, ready) THEN {Sideband("ext")} ELSE {})
    BY DEF Acknowledged
  <1>2. txAck <=> dp /\ TxTakes(qos, ready)
    BY DEF Phases, Hreadyout
  <1>3. CASE ~SkidCanAccept(ready) \/ ~ArbValid
    <2>1. ~txAck /\ ~RtnReady(ready) /\ ~ServoReady(ready) /\ ~ExtReady(qos, ready)
      BY <1>2, <1>3 DEF TxTakes, RtnReady, ServoReady, ExtReady, RtnSelected, ServoSelected,
         ExtSelected, ExtGrant, ArbValid
    <2> QED
      BY <1>1, <1>3, <2>1 DEF Load
  <1>4. CASE SkidCanAccept(ready) /\ ArbValid /\ SidebandGrant(qos)
    <2>1. ~txAck
      BY <1>2, <1>4 DEF TxTakes
    <2>2. CASE RtnSelected
      <3>1. RtnReady(ready) /\ ~ServoReady(ready) /\ ~ExtReady(qos, ready)
        BY <1>4, <2>2 DEF RtnReady, ServoReady, ExtReady, RtnSelected, ServoSelected, ExtSelected
      <3>2. Load(qos, ready) = {Sideband("rtn")}
        BY <1>4, <2>2 DEF Load, ArbData, RtnSelected, ServoSelected, ExtSelected
      <3> QED
        BY <1>1, <2>1, <3>1, <3>2
    <2>3. CASE ServoSelected
      <3>1. ~RtnReady(ready) /\ ServoReady(ready) /\ ~ExtReady(qos, ready)
        BY <1>4, <2>3 DEF RtnReady, ServoReady, ExtReady, RtnSelected, ServoSelected, ExtSelected
      <3>2. Load(qos, ready) = {Sideband("servo")}
        BY <1>4, <2>3 DEF Load, ArbData, RtnSelected, ServoSelected, ExtSelected
      <3> QED
        BY <1>1, <2>1, <3>1, <3>2
    <2>4. CASE ExtSelected(qos)
      <3>1. ~RtnReady(ready) /\ ~ServoReady(ready) /\ ExtReady(qos, ready)
        BY <1>4, <2>4 DEF RtnReady, ServoReady, ExtReady, RtnSelected, ServoSelected, ExtSelected
      <3>2. Load(qos, ready) = {Sideband("ext")}
        BY <1>4, <2>4 DEF Load, ArbData, RtnSelected, ServoSelected, ExtSelected
      <3> QED
        BY <1>1, <2>1, <3>1, <3>2
    <2> QED
      BY <1>4, <2>2, <2>3, <2>4 DEF SidebandGrant
  <1>5. CASE SkidCanAccept(ready) /\ ArbValid /\ ~SidebandGrant(qos)
    <2>1. dp /\ addr = maddr
      BY <1>5, OtherwiseTx DEF Phases
    <2>2. txAck /\ ~RtnReady(ready) /\ ~ServoReady(ready) /\ ~ExtReady(qos, ready)
      BY <1>2, <1>5, <2>1 DEF TxTakes, RtnReady, ServoReady, ExtReady, SidebandGrant
    <2>3. Load(qos, ready) = {TxWord(maddr)}
      BY <1>5, <2>1 DEF Load, ArbData, SidebandGrant
    <2> QED
      BY <1>1, <2>2, <2>3
  <1> QED
    BY <1>3, <1>4, <1>5

(* What a beat is to the master is what it is to the adapter: only a new     *)
(* store is accepted, and it is accepted when hready is high.                *)
LEMMA AcceptIsStore ==
  ASSUME TypeOK, Locked, NEW b, NEW hready \in BOOLEAN
  PROVE  /\ Idle(b, hready) => ~Accept(b, hready)
         /\ Hold(b, hready) => ~Accept(b, hready)
         /\ \A a \in Addr : Store(b, hready, a) => (Accept(b, hready) <=> hready) /\ b.addr = a
  <1> USE GapAssumption DEF TypeOK, LONG_GAP
  <1>1. Idle(b, hready) => ~Accept(b, hready)
    BY DEF Idle, Beat, Deselect, Accept
  <1>2. Hold(b, hready) => ~Accept(b, hready)
    BY DEF Hold, Beat, Accept, LockHit, Locked
  <1>3. ASSUME NEW a \in Addr, Store(b, hready, a)
        PROVE  (Accept(b, hready) <=> hready) /\ b.addr = a
    <2>1. b.sel /\ b.trans /\ b.addr = a
      BY <1>3 DEF Store, Beat
    <2>2. ~LockHit(b)
      <3>1. \/ want = NoAddr /\ (a # maddr \/ gap = LONG_GAP)
            \/ want = a /\ want # NoAddr
        BY <1>3, NoAddrFresh, Zenon DEF Store
      <3>2. gap = LONG_GAP => ~(gap < LONG_GAP)
        OBVIOUS
      <3> QED
        BY <2>1, <3>1, <3>2 DEF LockHit, Locked
    <2> QED
      BY <2>1, <2>2 DEF Accept
  <1> QED
    BY <1>1, <1>2, <1>3

(* The three kinds of beat, and what the adapter makes of them. *)
LEMMA MasterAgrees ==
  ASSUME TypeOK, Locked, NEW b, NEW hready \in BOOLEAN, Master(b, hready)
  PROVE  \/ (Idle(b, hready) \/ Hold(b, hready)) /\ ~Accept(b, hready)
         \/ \E a \in Addr : Store(b, hready, a) /\ b.addr = a /\ (Accept(b, hready) <=> hready)
  BY AcceptIsStore, Zenon DEF Master

(* The registers keep their types. *)
LEMMA TypeStep ==
  ASSUME AdapterInv, NEW b, NEW ready \in BOOLEAN, NEW qos \in BOOLEAN,
         NEW newRtn \in BOOLEAN, NEW newServo \in BOOLEAN, NEW newExt \in BOOLEAN,
         Hclk(b, ready, qos, newRtn, newServo, newExt)
  PROVE  TypeOK'
  <1> DEFINE hready == Hreadyout(qos, ready)
  <1>t. TypeOK /\ Locked
    BY DEF AdapterInv
  <1>h. hready \in BOOLEAN
    BY Zenon DEF Hreadyout
  <1>s. /\ Master(b, hready) /\ TransferLock(b, hready) /\ DataPhase(b, hready, qos, ready)
        /\ SidebandBurst(qos, ready) /\ Skid(qos, ready)
        /\ Sources(qos, ready, newRtn, newServo, newExt) /\ History(hready, qos, ready)
    BY Zenon DEF Hclk
  <1> HIDE DEF hready
  <1>1. /\ wait' \in BOOLEAN /\ want' \in Addr \cup {NoAddr} /\ maddr' \in Addr
        /\ Accept(b, hready) => b.addr \in Addr
    <2>1. CASE (Idle(b, hready) \/ Hold(b, hready)) /\ ~Accept(b, hready)
      BY <1>t, <2>1, Zenon DEF TypeOK, Idle, Hold
    <2>2. CASE \E a \in Addr : Store(b, hready, a) /\ b.addr = a /\ (Accept(b, hready) <=> hready)
      BY <1>t, <2>2, Zenon DEF TypeOK, Store
    <2> QED
      BY <1>t, <1>h, <1>s, <2>1, <2>2, MasterAgrees
  <1>2. gap' \in 0 .. LONG_GAP
    <2>1. gap \in 0 .. LONG_GAP /\ LONG_GAP \in Nat
      BY <1>t, GapAssumption DEF TypeOK, LONG_GAP
    <2>2. gap' = 0 \/ gap' = LONG_GAP \/ (gap # LONG_GAP /\ gap' = gap + 1)
      BY <1>s, Zenon DEF Master, Idle, Hold, Store
    <2> QED
      BY <2>1, <2>2
  <1>3. lock' \in BOOLEAN /\ lockAddr' \in Addr /\ idleCnt' \in 0 .. IDLE_MAX
    <2>1. lock' \in BOOLEAN /\ lockAddr' \in Addr
      BY <1>t, <1>s, <1>1, Zenon DEF TypeOK, TransferLock
    <2>2. idleCnt' = 0 \/ idleCnt' = idleCnt \/ (idleCnt # IDLE_MAX /\ idleCnt' = idleCnt + 1)
      BY <1>s, Zenon DEF TransferLock
    <2>3. idleCnt' \in 0 .. IDLE_MAX
      BY <1>t, <2>2 DEF TypeOK, IDLE_MAX
    <2> QED
      BY <2>1, <2>3
  <1>4. dp' \in BOOLEAN /\ addr' \in Addr /\ err1' \in BOOLEAN /\ err2' \in BOOLEAN
    BY <1>t, <1>s, <1>1, Zenon DEF TypeOK, DataPhase
  <1>5. stall' \in 0 .. TX_STALL_TIMEOUT
    <2>1. stall' = 0 \/ stall' = stall \/ (stall # TX_STALL_TIMEOUT /\ stall' = stall + 1)
      BY <1>s, Zenon DEF DataPhase, StallExpired
    <2> QED
      BY <1>t, <2>1, TimeoutAssumption DEF TypeOK
  <1>6. burst' \in 0 .. MAX_SIDEBAND_BURST
    <2>1. burst' = 0 \/ burst' = burst \/ (burst < MAX_SIDEBAND_BURST /\ burst' = burst + 1)
      BY <1>s, Zenon DEF SidebandBurst
    <2> QED
      BY <1>t, <2>1, BurstAssumption DEF TypeOK
  <1>7. rtn' \in BOOLEAN /\ skid' \in BOOLEAN /\ servo' \in BOOLEAN /\ ext' \in BOOLEAN
    BY <1>t, <1>s, Zenon DEF TypeOK, Sources, Skid
  <1>8. waited' \in Nat /\ refused' \in Nat /\ txPassed' \in Nat /\ rtnPassed' \in Nat
    <2>1. waited' \in {0, waited + 1} /\ refused' \in {0, refused, refused + 1}
          /\ txPassed' \in {0, txPassed, txPassed + 1}
          /\ rtnPassed' \in {0, rtnPassed, rtnPassed + 1}
      BY <1>s, Zenon DEF History
    <2> QED
      BY <1>t, <2>1 DEF TypeOK
  <1> QED
    BY <1>1, <1>2, <1>3, <1>4, <1>5, <1>6, <1>7, <1>8, Zenon DEF TypeOK, IDLE_MAX, LONG_GAP, NoAddr

(* The master's data phase and the adapter's begin and end together. *)
LEMMA PhasesStep ==
  ASSUME AdapterInv, NEW b, NEW ready \in BOOLEAN, NEW qos \in BOOLEAN,
         NEW newRtn \in BOOLEAN, NEW newServo \in BOOLEAN, NEW newExt \in BOOLEAN,
         Hclk(b, ready, qos, newRtn, newServo, newExt)
  PROVE  Phases'
  <1> DEFINE hready == Hreadyout(qos, ready)
             acc == Accept(b, hready)
             takes == TxTakes(qos, ready)
  <1>t. TypeOK /\ Locked /\ Phases
    BY DEF AdapterInv
  <1>h. hready \in BOOLEAN /\ (hready <=> ~err1 /\ (err2 \/ (dp => takes)))
    BY Zenon DEF Hreadyout
  <1>s. Master(b, hready)
    BY Zenon DEF Hclk
  <1>d. /\ err2' = err1
        /\ err1' = (~acc /\ dp /\ ~takes /\ StallExpired)
        /\ addr' = IF acc THEN b.addr ELSE addr
        /\ dp' = (acc \/ (dp /\ ~takes /\ ~StallExpired))
    BY Zenon DEF Hclk, DataPhase, Stalled
  <1>1. \/ wait' = (wait /\ ~hready) /\ maddr' = maddr /\ ~acc
        \/ wait' = (wait \/ hready) /\ maddr' = (IF hready THEN b.addr ELSE maddr) /\ (acc <=> hready)
    <2>1. CASE (Idle(b, hready) \/ Hold(b, hready)) /\ ~acc
      BY <2>1, Zenon DEF Idle, Hold
    <2>2. CASE \E a \in Addr : Store(b, hready, a) /\ b.addr = a /\ (acc <=> hready)
      BY <2>2, Zenon DEF Store
    <2> QED
      BY <1>t, <1>h, <1>s, <2>1, <2>2, MasterAgrees
  <1> HIDE DEF hready, acc, takes
  <1> QED
    BY <1>t, <1>h, <1>d, <1>1 DEF Phases, TypeOK

(* The lock follows the master's store. *)
LEMMA LockedStep ==
  ASSUME AdapterInv, NEW b, NEW ready \in BOOLEAN, NEW qos \in BOOLEAN,
         NEW newRtn \in BOOLEAN, NEW newServo \in BOOLEAN, NEW newExt \in BOOLEAN,
         Hclk(b, ready, qos, newRtn, newServo, newExt)
  PROVE  Locked'
  <1> DEFINE hready == Hreadyout(qos, ready)
             acc == Accept(b, hready)
  <1>t. TypeOK /\ Locked
    BY DEF AdapterInv
  <1>n. /\ gap \in 0 .. LONG_GAP /\ LONG_GAP = TX_IDLE_GAP + 1 /\ TX_IDLE_GAP \in 1 .. 6
        /\ IDLE_MAX = 7 /\ idleCnt \in 0 .. 7
    BY <1>t, GapAssumption DEF TypeOK, LONG_GAP, IDLE_MAX
  <1>h. hready \in BOOLEAN
    BY Zenon DEF Hreadyout
  <1>s. Master(b, hready) /\ TransferLock(b, hready)
    BY Zenon DEF Hclk
  <1> HIDE DEF hready
  <1>k. ~acc => /\ idleCnt' = IF b.sel /\ b.trans THEN 0
                             ELSE IF idleCnt # IDLE_MAX THEN idleCnt + 1 ELSE idleCnt
                /\ lock' <=> /\ lock /\ b.sel /\ ~(idleCnt >= TX_IDLE_GAP)
                             /\ ~(b.trans /\ b.addr # lockAddr)
                /\ lockAddr' = lockAddr
    BY <1>s, Zenon DEF TransferLock
  <1>1. CASE Idle(b, hready) /\ ~acc
    <2>1. want' = NoAddr /\ maddr' = maddr /\ ~b.trans
      BY <1>1 DEF Idle, Beat, Deselect
    <2>2. CASE ~b.sel \/ want # NoAddr \/ gap = LONG_GAP
      <3>1. gap' = LONG_GAP
        BY <1>1, <2>2 DEF Idle
      <3>2. ~lock'
        BY <1>t, <1>n, <1>1, <1>k, <2>2 DEF Locked
      <3> QED
        BY <1>n, <3>1, <3>2 DEF Locked, LONG_GAP
    <2>3. CASE b.sel /\ want = NoAddr /\ gap # LONG_GAP
      <3>1. gap' = gap + 1 /\ lock /\ lockAddr = maddr /\ idleCnt = gap
        BY <1>t, <1>n, <1>1, <2>3 DEF Idle, Locked
      <3>2. idleCnt' = gap' /\ lockAddr' = maddr' /\ (lock' <=> gap' < LONG_GAP)
        BY <1>n, <1>1, <1>k, <2>1, <2>3, <3>1
      <3> QED
        BY <2>1, <3>2 DEF Locked, LONG_GAP, NoAddr
    <2> QED
      BY <2>2, <2>3
  <1>2. CASE Hold(b, hready) /\ ~acc
    <2>1. want = NoAddr /\ gap < TX_IDLE_GAP /\ gap' = 0 /\ want' = want /\ maddr' = maddr
      BY <1>2 DEF Hold
    <2>2. b.sel /\ b.trans /\ b.addr = maddr
      BY <1>2 DEF Hold, Beat
    <2>3. lock /\ lockAddr = maddr /\ idleCnt = gap
      BY <1>t, <1>n, <2>1 DEF Locked
    <2>4. lock' /\ lockAddr' = maddr' /\ idleCnt' = gap'
      BY <1>n, <1>2, <1>k, <2>1, <2>2, <2>3
    <2> QED
      BY <1>n, <2>1, <2>4 DEF Locked, LONG_GAP, NoAddr
  <1>3. ASSUME NEW a \in Addr, Store(b, hready, a), b.addr = a, acc <=> hready
        PROVE  Locked'
    <2>1. CASE hready
      <3>1. want' = NoAddr /\ maddr' = a /\ gap' = 0
        BY <1>3, <2>1 DEF Store
      <3>2. lock' /\ lockAddr' = a /\ idleCnt' = 0
        BY <1>3, <1>s, <2>1 DEF TransferLock
      <3> QED
        BY <1>n, <3>1, <3>2 DEF Locked, LONG_GAP, NoAddr
    <2>2. CASE ~hready
      <3>1. want' = a /\ a # NoAddr
        BY <1>3, <2>2, NoAddrFresh DEF Store
      <3>2. b.sel /\ b.trans
        BY <1>3 DEF Store, Beat
      <3>3. lock => lockAddr # a
        <4>1. \/ want = NoAddr /\ (a # maddr \/ gap = LONG_GAP)
              \/ want = a
          BY <1>3, Zenon DEF Store
        <4> QED
          BY <1>t, <1>n, <3>1, <4>1 DEF Locked
      <3>4. ~lock'
        BY <1>3, <1>k, <2>2, <3>2, <3>3
      <3> QED
        BY <3>1, <3>4 DEF Locked, NoAddr
    <2> QED
      BY <2>1, <2>2
  <1> QED
    BY <1>t, <1>h, <1>s, <1>1, <1>2, <1>3, MasterAgrees

(* A transfer's wait is counted by the stall counter, then by the two cycles *)
(* of the ERROR response.                                                    *)
LEMMA WaitingStep ==
  ASSUME AdapterInv, NEW b, NEW ready \in BOOLEAN, NEW qos \in BOOLEAN,
         NEW newRtn \in BOOLEAN, NEW newServo \in BOOLEAN, NEW newExt \in BOOLEAN,
         Hclk(b, ready, qos, newRtn, newServo, newExt)
  PROVE  Waiting'
  <1> DEFINE hready == Hreadyout(qos, ready)
             acc == Accept(b, hready)
             takes == TxTakes(qos, ready)
  <1>t. TypeOK /\ Locked /\ Phases /\ Waiting
    BY DEF AdapterInv
  <1>h. hready \in BOOLEAN /\ (hready <=> ~err1 /\ (err2 \/ (dp => takes)))
    BY Zenon DEF Hreadyout
  <1>s. Master(b, hready)
    BY Zenon DEF Hclk
  <1>d. /\ err2' <=> err1
        /\ err1' <=> (~acc /\ dp /\ ~takes /\ StallExpired)
        /\ dp' <=> (acc \/ (dp /\ ~takes /\ ~StallExpired))
        /\ stall' = IF ~acc /\ dp /\ ~takes /\ ~StallExpired THEN stall + 1
                    ELSE IF acc \/ dp THEN 0 ELSE stall
    BY Zenon DEF Hclk, DataPhase, Stalled
  <1>w. waited' = IF wait /\ ~hready THEN waited + 1 ELSE 0
    BY Zenon DEF Hclk, History
  <1>1. acc => hready
    BY Zenon DEF Accept
  <1>2. ~wait' => ~(wait /\ ~hready)
    BY <1>s, Zenon DEF Master, Idle, Hold, Store
  <1> HIDE DEF hready, acc, takes
  <1>3. waited \in Nat /\ stall \in Nat /\ TX_STALL_TIMEOUT \in Nat
    BY <1>t, TimeoutAssumption DEF TypeOK
  <1>4. dp' => waited' <= stall'
    BY <1>t, <1>h, <1>d, <1>w, <1>1, <1>3 DEF Phases, Waiting
  <1>5. err1' => waited' <= TX_STALL_TIMEOUT + 1
    BY <1>t, <1>d, <1>w, <1>3 DEF Waiting, StallExpired
  <1>6. err2' => waited' <= TX_STALL_TIMEOUT + 2
    BY <1>t, <1>d, <1>w, <1>3 DEF Waiting
  <1>7. ~wait' => waited' = 0
    BY <1>2, <1>w
  <1> QED
    BY <1>4, <1>5, <1>6, <1>7 DEF Waiting

(* Sideband words that pass the aperture's are counted by the burst counter; *)
(* the aperture passes the returner only when that counter is full, which    *)
(* empties it.                                                               *)
LEMMA TurnsStep ==
  ASSUME AdapterInv, NEW b, NEW ready \in BOOLEAN, NEW qos \in BOOLEAN,
         NEW newRtn \in BOOLEAN, NEW newServo \in BOOLEAN, NEW newExt \in BOOLEAN,
         Hclk(b, ready, qos, newRtn, newServo, newExt)
  PROVE  Turns'
  <1> DEFINE load == Load(qos, ready)
             grant == SidebandGrant(qos)
  <1>t. TypeOK /\ Turns
    BY DEF AdapterInv
  <1>n. /\ burst \in Nat /\ burst <= MAX_SIDEBAND_BURST /\ MAX_SIDEBAND_BURST \in Nat \ {0}
        /\ txPassed \in Nat /\ rtnPassed \in Nat
    BY <1>t, BurstAssumption DEF TypeOK
  <1>b. burst' = IF load = {} THEN burst ELSE IF ~grant THEN 0
                 ELSE IF burst < MAX_SIDEBAND_BURST THEN burst + 1 ELSE burst
    BY Zenon DEF Hclk, SidebandBurst
  <1>p. /\ txPassed' = IF ~dp \/ TxWord(addr) \in load THEN 0
                       ELSE IF load = {} THEN txPassed ELSE txPassed + 1
        /\ rtnPassed' = IF ~rtn \/ Sideband("rtn") \in load THEN 0
                        ELSE IF load = {} THEN rtnPassed ELSE rtnPassed + 1
    BY Zenon DEF Hclk, History
  <1>1. load # {} /\ ~grant => TxWord(addr) \in load
    BY DEF Load, ArbData, SidebandGrant
  <1>2. load # {} /\ RtnSelected => Sideband("rtn") \in load
    BY DEF Load, ArbData, ServoSelected, ExtSelected, RtnSelected
  <1>3. grant => ~Starving
    BY DEF SidebandGrant, RtnSelected, ServoSelected, ExtSelected, ExtGrant
  <1>4. rtn /\ ~RtnSelected => Starving
    BY DEF RtnSelected
  <1>5. Starving <=> burst >= MAX_SIDEBAND_BURST /\ dp
    BY DEF Starving
  <1> HIDE DEF load, grant
  <1>6. txPassed' <= burst'
    BY <1>t, <1>n, <1>b, <1>p, <1>1, <1>3, <1>5 DEF Turns
  <1>7. rtnPassed' = 0 \/ (rtnPassed' = 1 /\ burst' = 0)
    BY <1>t, <1>n, <1>b, <1>p, <1>2, <1>3, <1>4, <1>5 DEF Turns
  <1> QED
    BY <1>6, <1>7 DEF Turns

(* A stalled cycle is one in which a sideband word passes, or one in which   *)
(* the skid has no room; and only MAX_SIDEBAND_BURST words pass.             *)
LEMMA StallsStep ==
  ASSUME AdapterInv, NEW b, NEW ready \in BOOLEAN, NEW qos \in BOOLEAN,
         NEW newRtn \in BOOLEAN, NEW newServo \in BOOLEAN, NEW newExt \in BOOLEAN,
         Hclk(b, ready, qos, newRtn, newServo, newExt)
  PROVE  Stalls'
  <1> DEFINE load == Load(qos, ready)
             grant == SidebandGrant(qos)
             room == SkidCanAccept(ready)
             acc == Accept(b, Hreadyout(qos, ready))
  <1>t. TypeOK /\ Phases /\ Turns /\ Stalls
    BY DEF AdapterInv
  <1>n. /\ burst \in Nat /\ burst <= MAX_SIDEBAND_BURST /\ MAX_SIDEBAND_BURST \in Nat
        /\ TX_STALL_TIMEOUT \in Nat /\ txPassed \in Nat /\ refused \in Nat /\ stall \in Nat
    BY <1>t, BurstAssumption, TimeoutAssumption DEF TypeOK
  <1>d. /\ err1' <=> (~acc /\ dp /\ ~(room /\ ~grant) /\ stall = TX_STALL_TIMEOUT)
        /\ dp' <=> (acc \/ (dp /\ ~(room /\ ~grant) /\ stall # TX_STALL_TIMEOUT))
        /\ stall' = IF ~acc /\ dp /\ ~(room /\ ~grant) /\ stall # TX_STALL_TIMEOUT THEN stall + 1
                    ELSE IF acc \/ dp THEN 0 ELSE stall
    BY Zenon DEF Hclk, DataPhase, Stalled, TxTakes, StallExpired
  <1>p. /\ refused' = IF ~(dp /\ ~(room /\ ~grant)) THEN 0 ELSE IF room THEN refused ELSE refused + 1
        /\ txPassed' = IF ~dp \/ TxWord(addr) \in load THEN 0
                       ELSE IF load = {} THEN txPassed ELSE txPassed + 1
    BY Zenon DEF Hclk, History, Stalled, TxTakes
  <1>1. acc => ~(dp /\ ~(room /\ ~grant))
    BY <1>t, Zenon DEF Accept, Hreadyout, TxTakes, Phases
  <1>2. ~room => load = {}
    BY Zenon DEF Load
  <1>3. room /\ dp /\ grant => load # {} /\ TxWord(addr) \notin load
    BY DEF Load, ArbValid, ArbData, SidebandGrant, TxWord, Sideband
  <1>4. room /\ dp /\ ~grant => TxWord(addr) \in load
    BY DEF Load, ArbValid, ArbData, SidebandGrant
  <1> HIDE DEF load, grant, room, acc
  <1>5. dp' => stall' = txPassed' + refused'
    BY <1>t, <1>n, <1>d, <1>p, <1>1, <1>2, <1>3, <1>4 DEF Stalls
  <1>6. err1' => refused' >= TX_STALL_TIMEOUT + 1 - MAX_SIDEBAND_BURST
    <2> SUFFICES ASSUME err1' PROVE refused' >= TX_STALL_TIMEOUT + 1 - MAX_SIDEBAND_BURST
      OBVIOUS
    <2>1. /\ dp /\ ~(room /\ ~grant) /\ stall = TX_STALL_TIMEOUT
          /\ txPassed + refused = TX_STALL_TIMEOUT
      BY <1>t, <1>d DEF Stalls
    <2>2. txPassed' <= MAX_SIDEBAND_BURST /\ txPassed' \in Nat /\ refused' \in Nat
      <3>1. Turns' /\ TypeOK'
        BY TurnsStep, TypeStep, Zenon
      <3>2. txPassed' <= burst' /\ burst' \in 0 .. MAX_SIDEBAND_BURST /\ txPassed' \in Nat
            /\ refused' \in Nat
        BY <3>1, Zenon DEF Turns, TypeOK
      <3> QED
        BY <1>n, <3>2
    <2>3. txPassed' + refused' = TX_STALL_TIMEOUT + 1
      <3>1. CASE room
        <4>1. refused' = refused /\ txPassed' = txPassed + 1
          BY <1>p, <1>3, <2>1, <3>1, Zenon
        <4> QED
          BY <1>n, <2>1, <4>1
      <3>2. CASE ~room
        <4>1. refused' = refused + 1 /\ txPassed' = txPassed
          BY <1>p, <1>2, <2>1, <3>2
        <4> QED
          BY <1>n, <2>1, <4>1
      <3> QED
        BY <3>1, <3>2
    <2>4. \A x, y, t, m \in Nat : x <= m /\ x + y = t + 1 => y >= t + 1 - m
      OBVIOUS
    <2> QED
      BY <1>n, <2>2, <2>3, <2>4, Zenon
  <1> QED
    BY <1>5, <1>6 DEF Stalls, TimeoutMeansLinkStalled

(* Every edge keeps the invariant. *)
LEMMA AdapterInvStep == AdapterInv /\ [Next]_vars => AdapterInv'
  <1> SUFFICES ASSUME AdapterInv, [Next]_vars PROVE AdapterInv'
    OBVIOUS
  <1>1. CASE Next
    <2>1. PICK ready \in BOOLEAN, b \in Beats, qos \in BOOLEAN,
               newRtn \in BOOLEAN, newServo \in BOOLEAN, newExt \in BOOLEAN :
            Hclk(b, ready, qos, newRtn, newServo, newExt)
      BY <1>1, Zenon DEF Next, LinkReady, LinkBusy, Cycle
    <2>2. SentIffAcked'
      <3>1. /\ sent' = Load(qos, ready)
            /\ acked' = Acknowledged(Hreadyout(qos, ready), qos, ready)
        BY <2>1, Zenon DEF Hclk, History
      <3>2. TypeOK /\ Phases
        BY DEF AdapterInv
      <3> QED
        BY <3>1, <3>2, LoadIsAcknowledged, Zenon DEF SentIffAcked
    <2>3. TypeOK' /\ Phases'
      BY <2>1, TypeStep, PhasesStep, Zenon
    <2>4. Locked'
      BY <2>1, LockedStep, Zenon
    <2>5. Waiting' /\ Turns' /\ Stalls'
      <3>1. Waiting' /\ Turns'
        BY <2>1, WaitingStep, TurnsStep, Zenon
      <3>2. Stalls'
        BY <2>1, StallsStep, Zenon
      <3> QED
        BY <3>1, <3>2
    <2> QED
      BY <2>2, <2>3, <2>4, <2>5, Zenon DEF AdapterInv
  <1>2. CASE UNCHANGED vars
    BY <1>2, Zenon DEF vars, txVars, masterVars, AdapterInv, TypeOK, Phases, Locked, Waiting, Turns,
       Stalls, TimeoutMeansLinkStalled, SentIffAcked
  <1> QED
    BY <1>1, <1>2

-----------------------------------------------------------------------------

(* The invariant holds in every reachable state. *)
THEOREM AdapterInvariant == Spec => []AdapterInv
  BY AdapterInvInit, AdapterInvStep, PTL DEF Spec

(* The registers of the transmit half stay within their widths. *)
THEOREM AdapterTypeCorrect == Spec => []TypeOK
  <1>1. AdapterInv => TypeOK
    BY DEF AdapterInv
  <1> QED
    BY <1>1, AdapterInvariant, PTL

(* One store is one word, and each sideband word is sent once, for any       *)
(* addresses and any idle gap the three-bit counter can count: sent and      *)
(* acknowledged are the same words in every cycle.                           *)
THEOREM SentIffAckedAlways == Spec => []SentIffAcked
  <1>1. AdapterInv => SentIffAcked
    BY DEF AdapterInv
  <1> QED
    BY <1>1, AdapterInvariant, PTL

(* The aperture's word is overtaken at most MAX_SIDEBAND_BURST times. *)
THEOREM TxOvertakenBoundedAlways == Spec => []TxOvertakenBounded
  <1>1. AdapterInv => TxOvertakenBounded
    BY BurstAssumption DEF AdapterInv, Turns, TypeOK, TxOvertakenBounded
  <1> QED
    BY <1>1, AdapterInvariant, PTL

(* A returned credit or doorbell is overtaken at most once. *)
THEOREM RtnOvertakenOnceAlways == Spec => []RtnOvertakenOnce
  <1>1. AdapterInv => RtnOvertakenOnce
    BY DEF AdapterInv, Turns, TypeOK, RtnOvertakenOnce
  <1> QED
    BY <1>1, AdapterInvariant, PTL

(* Sideband traffic alone never fails a store, for any timeout and any burst *)
(* limit.                                                                    *)
THEOREM TimeoutMeansLinkStalledAlways == Spec => []TimeoutMeansLinkStalled
  <1>1. AdapterInv => TimeoutMeansLinkStalled
    BY DEF AdapterInv, Stalls
  <1> QED
    BY <1>1, AdapterInvariant, PTL

(* The bus is answered within TX_STALL_TIMEOUT + 2 cycles, link or no link. *)
THEOREM AnsweredInTimeAlways == Spec => []AnsweredInTime
  <1>1. AdapterInv => AnsweredInTime
    <2> SUFFICES ASSUME AdapterInv PROVE waited <= TX_STALL_TIMEOUT + 2
      BY DEF AnsweredInTime
    <2>1. waited \in Nat /\ stall \in 0 .. TX_STALL_TIMEOUT /\ TX_STALL_TIMEOUT \in Nat
      BY TimeoutAssumption DEF AdapterInv, TypeOK
    <2>2. wait \/ ~wait
      OBVIOUS
    <2> QED
      BY <2>1, <2>2 DEF AdapterInv, Phases, Waiting
  <1> QED
    BY <1>1, AdapterInvariant, PTL
=============================================================================

------------------------------ MODULE RegSweep ------------------------------
(***************************************************************************)
(* cov_regplane_sweep.py: every register of a die's APB plane is written   *)
(* and read back by its kind, over a link that is up and carries traffic.  *)
(*                                                                         *)
(* One row stands for each kind, and the rows with side effects for        *)
(* themselves.  The die is what those rows touch: the release threshold    *)
(* and accumulator, the pair credit counter and its enable, the lock, and  *)
(* the RX FIFO that a flush empties.  A credit is owed from the packet's   *)
(* drain at one end until the counter at the other has it.                 *)
(***************************************************************************)
EXTENDS Integers, Sequences

CONSTANTS
    Defects,    \* rows that misbehave in a behaviour
    MaxCredits, \* credits on their way at once
    MaxThreshold

VARIABLES
    reg,        \* the registers
    lost,       \* credits nobody will count
    bad,        \* the row that misbehaves
    sweep,      \* the agent on the board
    host        \* the verdict of the host

vars == <<reg, lost, bad, sweep, host>>

(* The bits the sweep sets in the pulse register. *)
pulse == {"flush"}

(* The order of the inventory; 9 stands for the all-ones word. *)
INVENTORY ==
    <<[name |-> "PAIR_BASE_ADDR", kind |-> "gated"],
      [name |-> "RELEASE_THRESHOLD", kind |-> "rw"],
      [name |-> "TIDELINK_VERSION", kind |-> "id"],
      [name |-> "RELEASE_ACC", kind |-> "ro"],
      [name |-> "CTRL_FLUSH", kind |-> "w1p"],
      [name |-> "PAIR_CREDIT_COUNTER", kind |-> "ro"],
      [name |-> "PAIR_CREDIT_CONSUME", kind |-> "skip"],
      [name |-> "PAIR_CREDIT_COUNTER_EN", kind |-> "rw"],
      [name |-> "OBS_AXI_NODES", kind |-> "mark"]>>

row == INVENTORY[sweep.row]
RW_PATTERNS == <<9, 0>>
Off == [row |-> 0, step |-> 1, orig |-> 0, bad |-> FALSE, fails |-> 0]
finished == sweep.row > Len(INVENTORY)

-----------------------------------------------------------------------------
(* The registers *)

read(r, name) == IF name = "RELEASE_THRESHOLD" THEN r.thr ELSE r.en

(* Writable bits: one of the enable; the threshold not once locked. *)
wmask(name, v) == IF name = "PAIR_CREDIT_COUNTER_EN" /\ v # 0 THEN 1 ELSE v

write(name, v) ==
    CASE name = bad -> reg
      [] name # bad /\ name = "RELEASE_THRESHOLD" -> IF reg.lock THEN reg ELSE [reg EXCEPT !.thr = v]
      [] name # bad /\ name = "PAIR_CREDIT_COUNTER_EN" -> [reg EXCEPT !.en = wmask(name, v)]
      [] OTHER -> reg

-----------------------------------------------------------------------------
(* Traffic *)

(* A packet drained here is owed to the peer; the accumulator is sent once  *)
(* it reaches the threshold.                                                *)
Drain ==
    /\ ~finished /\ reg.rx > 0 /\ reg.acc < MaxCredits
    /\ reg' = [reg EXCEPT !.rx = @ - 1, !.acc = @ + 1]
    /\ UNCHANGED <<lost, bad, sweep, host>>

Release ==
    /\ ~finished /\ reg.acc > 0 /\ reg.acc >= reg.thr
    /\ reg' = [reg EXCEPT !.acc = 0]
    /\ UNCHANGED <<lost, bad, sweep, host>>

Arrive ==
    /\ ~finished /\ reg.rx < MaxCredits
    /\ reg' = [reg EXCEPT !.rx = @ + 1]
    /\ UNCHANGED <<lost, bad, sweep, host>>

(* The peer returns a credit; a counter that is off drops it. *)
Credit ==
    /\ ~finished /\ reg.cnt < MaxCredits /\ lost = 0
    /\ IF reg.en = 1 THEN reg' = [reg EXCEPT !.cnt = @ + 1] /\ UNCHANGED lost
       ELSE lost' = lost + 1 /\ UNCHANGED reg
    /\ UNCHANGED <<bad, sweep, host>>

-----------------------------------------------------------------------------
(* The agent on the board *)

Start ==
    /\ sweep.row = 0 /\ host = "none"
    /\ sweep' = [Off EXCEPT !.row = 1]
    /\ UNCHANGED <<reg, lost, bad, host>>

emit(ok) == sweep' = [Off EXCEPT !.row = sweep.row + 1,
                                 !.fails = IF ok THEN sweep.fails ELSE 1]

(* Read only; a gated row is one without its --include option. *)
Skip ==
    /\ sweep.row > 0 /\ ~finished /\ row.kind \in {"skip", "gated"} /\ emit(TRUE)
    /\ UNCHANGED <<reg, lost, bad, host>>

(* Save, each pattern written and read back, restore, read back. *)
RwSave ==
    /\ sweep.row > 0 /\ ~finished /\ row.kind = "rw" /\ sweep.step = 1
    /\ sweep' = [sweep EXCEPT !.orig = read(reg, row.name), !.step = 2]
    /\ UNCHANGED <<reg, lost, bad, host>>

RwPattern ==
    /\ sweep.row > 0 /\ ~finished /\ row.kind = "rw" /\ sweep.step \in 2 .. 3
    /\ LET v == wmask(row.name, RW_PATTERNS[sweep.step - 1]) IN
        /\ reg' = write(row.name, v)
        /\ sweep' = [sweep EXCEPT !.bad = @ \/ read(reg', row.name) # v,
                                  !.step = IF read(reg', row.name) # v THEN 4 ELSE @ + 1]
    /\ UNCHANGED <<lost, bad, host>>

RwRestore ==
    /\ sweep.row > 0 /\ ~finished /\ row.kind = "rw" /\ sweep.step = 4
    /\ reg' = write(row.name, sweep.orig)
    /\ emit(~sweep.bad /\ read(reg', row.name) = sweep.orig)
    /\ UNCHANGED <<lost, bad, host>>

(* What a read-only row shows once all ones are written: a row that        *)
(* misbehaves took them, or took some of the bits.                         *)
PARTLY == [RELEASE_ACC |-> "RELEASE_ACC_BITS", PAIR_CREDIT_COUNTER |-> "PAIR_CREDIT_COUNTER_BITS"]

shown(name, orig) == IF bad = name THEN 9 ELSE IF bad = PARTLY[name] THEN 1 ELSE orig

(* All ones and zero are written; the row fails only if all ones stuck. *)
Ro ==
    /\ sweep.row > 0 /\ ~finished /\ row.kind = "ro"
    /\ LET orig == 0 IN emit(~(shown(row.name, orig) = 9 /\ orig # 9))
    /\ UNCHANGED <<reg, lost, bad, host>>

IdOrMark ==
    /\ sweep.row > 0 /\ ~finished /\ row.kind \in {"id", "mark"}
    /\ emit(row.name # bad)
    /\ UNCHANGED <<reg, lost, bad, host>>

(* The flush empties the FIFO and the accumulator; the peer's counter       *)
(* still waits for what was in them.                                        *)
W1p ==
    /\ sweep.row > 0 /\ ~finished /\ row.kind = "w1p"
    /\ reg' = [reg EXCEPT !.rx = 0, !.acc = 0, !.lock = @ \/ "lock" \in pulse]
    /\ lost' = IF reg.rx + reg.acc > 0 THEN 1 ELSE lost
    /\ emit(row.name # bad)
    /\ UNCHANGED <<bad, host>>

-----------------------------------------------------------------------------
(* The host: both dies at FCSM 4 first; a sweep that outlives the timeout   *)
(* is a wedge, and its agent is cut off where it is.                        *)
Verdict ==
    /\ host = "none" /\ finished
    /\ host' = (IF sweep.fails = 0 THEN "PASS" ELSE "FAIL")
    /\ UNCHANGED <<reg, lost, bad, sweep>>

WedgeTimeout ==
    /\ host = "none" /\ sweep.row > 0 /\ ~finished
    /\ host' = "WEDGE" /\ sweep' = [Off EXCEPT !.row = Len(INVENTORY) + 1]
    /\ UNCHANGED <<reg, lost, bad>>

Init ==
    /\ bad \in {"none"} \cup Defects
    /\ \E thr \in 1 .. MaxThreshold :
        reg = [thr |-> thr, acc |-> 0, en |-> 1, cnt |-> 0, rx |-> 0, lock |-> FALSE]
    /\ lost = 0 /\ sweep = Off /\ host = "none"

Next ==
    \/ Drain \/ Release \/ Arrive \/ Credit
    \/ Start \/ Skip \/ RwSave \/ RwPattern \/ RwRestore \/ Ro \/ IdOrMark \/ W1p
    \/ Verdict \/ WedgeTimeout

Spec == Init /\ [][Next]_vars

-----------------------------------------------------------------------------

Swept == {r \in {INVENTORY[k] : k \in 1 .. 9} : r.kind \notin {"skip", "gated"}}

(* A sweep that passes leaves the die configured as it was: the enable is   *)
(* on, the threshold one that releases, nothing is locked, and no row it    *)
(* swept misbehaves in the way its kind is tried for, although every value  *)
(* it compared was read while credits came and went.  A read-only row is    *)
(* tried for all ones only: one that takes some of the bits passes.         *)
PassIsHarmless ==
    host = "PASS" =>
        /\ reg.en = 1 /\ reg.thr \in 1 .. MaxThreshold /\ ~reg.lock
        /\ bad \notin {r.name : r \in Swept}

(* The inductive invariant.  Only the row that is being tried may hold a    *)
(* pattern, and then the value to restore is the saved one; a row that      *)
(* misbehaves has failed by its end.                                        *)
Fields == {"thr", "acc", "en", "cnt", "rx", "lock"}
TypeOK ==
    /\ DOMAIN reg = Fields /\ reg.lock = FALSE
    /\ reg.thr \in Nat /\ reg.en \in {0, 1}
    /\ DOMAIN sweep = DOMAIN Off
    /\ sweep.row \in 0 .. 10 /\ sweep.step \in 1 .. 4 /\ sweep.bad \in BOOLEAN /\ sweep.fails \in {0, 1}
    /\ host \in {"none", "PASS", "FAIL", "WEDGE"}

Trying(k) == sweep.row = k /\ sweep.step > 1
Sound ==
    /\ IF Trying(2) THEN sweep.orig \in 1 .. MaxThreshold ELSE reg.thr \in 1 .. MaxThreshold
    /\ IF Trying(8) THEN sweep.orig = 1 ELSE reg.en = 1
    /\ Trying(2) /\ bad = "RELEASE_THRESHOLD" => reg.thr = sweep.orig
    /\ Trying(8) /\ bad = "PAIR_CREDIT_COUNTER_EN" => reg.en = 1
    /\ sweep.step = 4 /\ row.name = bad => sweep.bad

FailedBy ==
    \A k \in 1 .. 9 :
        INVENTORY[k] \in Swept /\ INVENTORY[k].name = bad /\ sweep.row > k => sweep.fails = 1

IInv ==
    /\ TypeOK
    /\ host # "WEDGE" => Sound /\ FailedBy
    /\ host \in {"PASS", "FAIL", "WEDGE"} => sweep.row = 10
    /\ host = "PASS" => sweep.fails = 0
    /\ sweep.step > 1 => sweep.row \in {2, 8}

=============================================================================

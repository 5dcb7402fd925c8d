------------------------------ MODULE Autoneg ------------------------------
(***************************************************************************)
(* Two dies agree on their roles over the I2C sideband, lock them and      *)
(* train the link.                                                         *)
(*                                                                         *)
(* tidelink_autoneg is the state machine of one die: it backs off, claims  *)
(* the master role with an I2C write, reads the peer's lane masks, writes  *)
(* its verdict back and walks both dies through training.                  *)
(* axi_chiplet_controller keeps the role registers it writes, behind the   *)
(* peer-mask gate.  tidelink_chiplet_ctrl.c is the software of a die,      *)
(* which enables the negotiation and locks the role, or sets the role      *)
(* itself.  An I2C transaction is one step, answered or not; the backoff   *)
(* and timeout counters are nondeterministic, because the two dies leave   *)
(* power-on reset at unrelated times; the two clocks between arming and    *)
(* listening for a START are one step.  Builds with the calibrator's hold   *)
(* rendezvous (USE_CAL_IN_HOLD) add two states that change no role and     *)
(* are left out.                                                           *)
(***************************************************************************)
EXTENDS Naturals

CONSTANTS
    strap,               \* strap[d]: the role_strap_i pin of die d
    NEGO_CFG_RESET,      \* the values the NEGO_CFG register may have at reset
    TRAIN_ENTRY_FALLBACK,\* train without an answer of the peer
    Programs             \* what the software of a die may do

Dies == {"a", "b"}
peer(d) == CHOOSE p \in Dies : p # d

Master == 0
Slave == 1

VARIABLES
    n,       \* n[d]: the state machine of die d
    r,       \* r[d]: the role registers of die d
    masks,   \* do the lane masks of the two dies agree
    sw       \* sw[d]: the software of die d

vars == <<n, r, masks, sw>>

(* The registers after power-on reset. *)
poresetn(cfg, train) ==
    [cfg |-> Master, lock |-> FALSE, pend |-> FALSE, verified |-> FALSE,
     hs |-> "none", nego |-> cfg, train |-> train]

idle == [st |-> "OFF", role |-> Slave, done |-> FALSE, error |-> FALSE,
         won |-> FALSE, lost |-> FALSE, heard |-> FALSE, same |-> FALSE,
         match |-> FALSE]

Init ==
    /\ masks \in BOOLEAN
    /\ n = [d \in Dies |-> idle]
    /\ \E cfg \in [Dies -> NEGO_CFG_RESET], t \in BOOLEAN :
           r = [d \in Dies |-> poresetn(cfg[d], t)]
    /\ \E p \in [Dies -> Programs] :
           sw = [d \in Dies |-> [prog |-> p[d], pc |-> "start", role |-> Master,
                                 chose |-> FALSE, pair |-> FALSE, rc |-> 0]]

-----------------------------------------------------------------------------
(* Role registers *)

(* The role a die acts with: its locked role, else the negotiated one      *)
(* while negotiation is enabled, else its strap.                           *)
role_effective(d) ==
    IF r[d].lock THEN r[d].cfg
    ELSE IF r[d].nego.en THEN n[d].role ELSE strap[d]

(* The I2C slave answers only while the die is powered and not a master. *)
slave_alive(d) == n[d].st # "OFF" /\ role_effective(d) = Slave

(* The gate opens on a match seen here or written here by the peer. *)
mask_hs_match(d) == n[d].match \/ r[d].hs = "match"
mask_hs_gate_open(d) == mask_hs_match(d)

(* The state machine writes the role back and may ask for the lock. *)
set_role(reg, role) ==
    [reg EXCEPT !.cfg = role, !.pend = @ \/ reg.nego.force]

(* The lock latches once asked for and the gate is open or the claim was   *)
(* lost; a genuine match is remembered.                                    *)
Latch(d) ==
    /\ r[d].pend /\ (mask_hs_gate_open(d) \/ n[d].lost)
    /\ r' = [r EXCEPT ![d].lock = TRUE, ![d].pend = FALSE]
    /\ UNCHANGED <<n, masks, sw>>

Verify(d) ==
    /\ mask_hs_match(d) /\ ~r[d].verified
    /\ r' = [r EXCEPT ![d].verified = TRUE]
    /\ UNCHANGED <<n, masks, sw>>

-----------------------------------------------------------------------------
(* The negotiation state machine *)

(* A START condition of die d: a peer that is waiting has lost. *)
heard_by(p, ns) ==
    IF ns[p].st # "WAIT" THEN ns
    ELSE [ns EXCEPT ![p].st = "DONE", ![p].role = Slave, ![p].lost = TRUE,
                    ![p].done = TRUE]

roles_after(p, ns, rs) ==
    IF ns[p].st # "WAIT" THEN rs ELSE [rs EXCEPT ![p] = set_role(@, Slave)]

(* The die leaves power-on reset: ST_IDLE, and ST_NEGO_INIT when enabled.   *)
Arm(d) ==
    /\ n[d].st = "OFF"
    /\ n' = [n EXCEPT ![d].st = IF r[d].nego.en THEN "WAIT" ELSE "BYPASS",
                      ![d].role = Slave]
    /\ UNCHANGED <<r, masks, sw>>

(* ST_BYPASS: enabling the negotiation rearms the machine within two clocks. *)
rearm(d) == IF n[d].st # "BYPASS" THEN n
            ELSE [n EXCEPT ![d].st = "WAIT", ![d].role = Slave]

(* The backoff timer expires: the die becomes an I2C master. *)
Expire(d) ==
    /\ n[d].st = "WAIT"
    /\ n' = [n EXCEPT ![d].st = "CLAIM", ![d].role = Master]
    /\ UNCHANGED <<r, masks, sw>>

(* The claim goes out.  Only a slave that was up when it began can answer. *)
Claim(d) ==
    LET p == peer(d)
        up == slave_alive(p)
    IN  /\ n[d].st = "CLAIM"
        /\ n' = [heard_by(p, n) EXCEPT ![d].st = "POLL", ![d].heard = up]
        /\ r' = roles_after(p, n, r)
        /\ UNCHANGED <<masks, sw>>

answers(d) == n[d].heard /\ slave_alive(peer(d))

(* The role a die takes when nobody acknowledges it. *)
nack_role_master(d) == Master
nack_role(d) == strap[d]

Nack(d) ==
    /\ n[d].st = "POLL"
    /\ n' = [n EXCEPT ![d].st = IF TRAIN_ENTRY_FALLBACK /\ r[d].train
                                THEN "DONE_PRE" ELSE "DONE",
                      ![d].role = nack_role(d), ![d].lost = TRUE, ![d].done = TRUE]
    /\ r' = [r EXCEPT ![d] = set_role(@, nack_role(d))]
    /\ UNCHANGED <<masks, sw>>

Ack(d) ==
    /\ n[d].st = "POLL" /\ answers(d)
    /\ n' = [n EXCEPT ![d].st = IF r[d].nego.mask THEN "RD" ELSE "DONE_PRE",
                      ![d].role = Master, ![d].won = TRUE, ![d].done = TRUE]
    /\ r' = [r EXCEPT ![d] = set_role(@, Master)]
    /\ UNCHANGED <<masks, sw>>

(* The mask read: nothing checks for an answer, and a read nobody answered *)
(* captures zeros, which are no lane mask.                                 *)
ReadMasks(d) ==
    LET p == peer(d)
    IN  /\ n[d].st = "RD"
        /\ \E ok \in BOOLEAN :
            /\ ok => slave_alive(p)
            /\ n' = [heard_by(p, n) EXCEPT ![d].st = "RES", ![d].same = ok /\ masks]
        /\ r' = roles_after(p, n, r)
        /\ UNCHANGED <<masks, sw>>

(* The verdict this die writes to its peer and keeps itself. *)
verdict(d) == n[d].same

WriteVerdict(d) ==
    LET p == peer(d)
    IN  /\ n[d].st = "RES"
        /\ n' = [heard_by(p, n) EXCEPT ![d].st = "DONE_PRE", ![d].match = verdict(d)]
        /\ \E ok \in BOOLEAN :
            /\ ok => slave_alive(p)
            /\ r' = [roles_after(p, n, r) EXCEPT
                        ![p].hs = IF ~ok THEN @
                                  ELSE IF verdict(d) THEN "match" ELSE "fail"]
        /\ UNCHANGED <<masks, sw>>

(* The training states.  Each transaction is a START the peer may hear. *)
train_next(d) ==
    CASE n[d].st = "DONE_PRE" -> IF r[d].train THEN {"ENTER"} ELSE {"DONE"}
      [] n[d].st = "ENTER"    -> IF TRAIN_ENTRY_FALLBACK THEN {"RUN"}
                                 ELSE {"FAIL"} \cup (IF slave_alive(peer(d)) THEN {"RUN"} ELSE {})
      [] n[d].st = "RUN"      -> {"PEER"}
      [] n[d].st = "PEER"     -> {"FAIL"} \cup
                                 (IF slave_alive(peer(d)) THEN {"PEER", "EXIT"} ELSE {})
      [] n[d].st = "EXIT"     -> {"FAIL"} \cup (IF slave_alive(peer(d)) THEN {"TDONE"} ELSE {})
      [] n[d].st \in {"TDONE", "FAIL"} -> {"DONE_PRE"}
      [] OTHER -> {}

Train(d) ==
    LET starts == n[d].st \in {"ENTER", "PEER", "EXIT"}
    IN  /\ \E s \in train_next(d) :
              n' = [(IF starts THEN heard_by(peer(d), n) ELSE n) EXCEPT ![d].st = s]
        /\ r' = IF starts THEN roles_after(peer(d), n, r) ELSE r
        /\ UNCHANGED <<masks, sw>>

(* The timeout: every transient state falls back to the strap, ends the    *)
(* negotiation in error, and writes the role whether or not it is locked.  *)
transient == {"WAIT", "CLAIM", "POLL", "RD", "RES", "DONE_PRE", "ENTER", "RUN",
              "PEER", "EXIT"}

timeout_role(d) == strap[d]

Timeout(d) ==
    LET go_on == TRAIN_ENTRY_FALLBACK /\ n[d].st = "ENTER"
    IN  /\ n[d].st \in transient
        /\ n' = [n EXCEPT ![d].st = IF go_on THEN "RUN" ELSE "ERROR",
                          ![d].error = @ \/ ~go_on, ![d].role = timeout_role(d)]
        /\ r' = [r EXCEPT ![d] = set_role(@, timeout_role(d))]
        /\ UNCHANGED <<masks, sw>>

-----------------------------------------------------------------------------
(* The software of a die: tidelink_chiplet_ctrl.c *)

write_role_cfg(d, role, lock) ==
    IF r[d].lock \/ (r[d].pend /\ (mask_hs_gate_open(d) \/ n[d].lost)) THEN r
    ELSE [r EXCEPT ![d].cfg = role, ![d].pend = @ \/ lock,
                   ![d].lock = @ \/ (lock /\ mask_hs_gate_open(d))]

goto(d, s) == [sw EXCEPT ![d].pc = s]
return(d, code) == [sw EXCEPT ![d].pc = "end", ![d].rc = code]

(* tidelink_ctrl_nego_enable writes NEGO_CFG whole, without the bit that   *)
(* asks for the mask handshake.                                            *)
NegoEnable(d) ==
    /\ sw[d].prog = "negotiate" /\ sw[d].pc = "start"
    /\ n[d].st # "OFF"
    /\ \E force \in BOOLEAN :
           r' = [r EXCEPT ![d].nego = [en |-> TRUE, force |-> force, mask |-> FALSE]]
    /\ n' = rearm(d)
    /\ sw' = goto(d, "poll")
    /\ UNCHANGED masks

(* tidelink_ctrl_nego_wait_done *)
NegoWaitDone(d) ==
    /\ sw[d].prog = "negotiate" /\ sw[d].pc = "poll"
    /\ sw' = IF n[d].done THEN goto(d, "check")
             ELSE IF n[d].error THEN return(d, 2) ELSE return(d, 1)
    /\ UNCHANGED <<n, r, masks>>

(* tidelink_ctrl_is_locked, asked first by everything that locks. *)
CheckLocked(d) ==
    /\ sw[d].pc = IF sw[d].prog = "negotiate" THEN "check" ELSE "start"
    /\ sw[d].prog # "none" /\ n[d].st # "OFF"
    /\ sw' = IF r[d].lock THEN return(d, 1)
             ELSE goto(d, IF sw[d].prog = "negotiate" THEN "read" ELSE "write")
    /\ UNCHANGED <<n, r, masks>>

(* tidelink_ctrl_lock_role reads the role register and writes it back. *)
LockRoleRead(d) ==
    /\ sw[d].pc = "read"
    /\ sw' = [sw EXCEPT ![d].pc = "write", ![d].role = r[d].cfg]
    /\ UNCHANGED <<n, r, masks>>

(* The write of lock_role, or of configure_and_lock with the strapped role. *)
LockRoleWrite(d) ==
    LET own == sw[d].prog = "bringup"
    IN  /\ sw[d].pc = "write"
        /\ r' = write_role_cfg(d, IF own THEN strap[d] ELSE sw[d].role, TRUE)
        /\ sw' = [sw EXCEPT ![d].pc = IF own THEN "wait" ELSE "end",
                            ![d].role = Master, ![d].chose = own]
        /\ UNCHANGED <<n, masks>>

(* tidelink_ctrl_wait_link_up: the link can only be up once both dies are   *)
(* locked.  link_bringup then programs the pair registers.                 *)
WaitLinkUp(d) ==
    /\ sw[d].pc = "wait"
    /\ \/ (\A e \in Dies : r[e].lock) /\ sw' = [goto(d, "end") EXCEPT ![d].pair = TRUE]
       \/ sw' = return(d, 1)
    /\ UNCHANGED <<n, r, masks>>

-----------------------------------------------------------------------------
FsmStep(d) == Arm(d) \/ Expire(d) \/ Claim(d) \/ Nack(d) \/ Ack(d) \/ ReadMasks(d)
              \/ WriteVerdict(d) \/ Train(d) \/ Timeout(d)
SwStep(d) == NegoEnable(d) \/ NegoWaitDone(d) \/ CheckLocked(d) \/ LockRoleRead(d)
             \/ LockRoleWrite(d) \/ WaitLinkUp(d)

Next == \E d \in Dies : FsmStep(d) \/ Latch(d) \/ Verify(d) \/ SwStep(d)

Spec == Init /\ [][Next]_vars

-----------------------------------------------------------------------------
(* With opposite straps, two dies that left their roles to the negotiation *)
(* are never both locked as master, whatever the sideband loses, whenever  *)
(* a timeout strikes and whenever software locks what was negotiated       *)
(* (tidelink_autoneg's terminal roles, the role registers, lock_role).     *)
NeverTwoMasters ==
    (\A d \in Dies : r[d].lock /\ ~sw[d].chose) => \E d \in Dies : r[d].cfg = Slave

(* A die that remembers a genuine peer-mask match has masks that agree:    *)
(* neither the lost-claim pass nor an unanswered read can forge it         *)
(* (mask_hs_verified_reg of the controller).                               *)
VerifiedIsAgreed == \A d \in Dies : r[d].verified => masks

-----------------------------------------------------------------------------
(* Why it holds. *)

States == {"OFF", "BYPASS", "WAIT", "CLAIM", "POLL", "RD", "RES", "DONE_PRE", "ENTER",
           "RUN", "PEER", "EXIT", "TDONE", "FAIL", "DONE", "ERROR"}

NegoCfg == [en : BOOLEAN, force : BOOLEAN, mask : BOOLEAN]

Machine ==
    [st : States, role : {Master, Slave}, done : BOOLEAN, error : BOOLEAN, won : BOOLEAN,
     lost : BOOLEAN, heard : BOOLEAN, same : BOOLEAN, match : BOOLEAN]
Registers ==
    [cfg : {Master, Slave}, lock : BOOLEAN, pend : BOOLEAN, verified : BOOLEAN,
     hs : {"none", "match", "fail"}, nego : NegoCfg, train : BOOLEAN]
Software ==
    [prog : Programs, role : {Master, Slave}, chose : BOOLEAN, pair : BOOLEAN, rc : 0 .. 2,
     pc : {"start", "poll", "check", "read", "write", "wait", "end"}]

(* The machines, the registers and the software of both dies. *)
TypeOK ==
    /\ n \in [Dies -> Machine] /\ r \in [Dies -> Registers] /\ sw \in [Dies -> Software]
    /\ masks \in BOOLEAN

(* A disabled machine stays in BYPASS, and none is done before its claim;  *)
(* software reads the role of a die whose machine is done, and only        *)
(* link_bringup chooses one itself.                                        *)
InOrder ==
    \A d \in Dies :
        /\ n[d].st = "BYPASS" => ~r[d].nego.en
        /\ n[d].st \in {"OFF", "BYPASS", "WAIT", "CLAIM", "POLL"} => ~n[d].done
        /\ sw[d].pc \in {"check", "read"} => n[d].done
        /\ sw[d].pc = "write" /\ sw[d].prog = "negotiate" => n[d].done
        /\ sw[d].chose => sw[d].prog = "bringup"
        /\ sw[d].prog = "none" => sw[d].pc = "start"

(* The die strapped as slave takes the master role only by winning.        *)
SlaveIsWon(d) ==
    /\ n[d].done \/ r[d].pend \/ r[d].lock => r[d].cfg = Slave \/ n[d].won
    /\ sw[d].pc = "write" /\ sw[d].prog = "negotiate" => sw[d].role = Slave \/ n[d].won

(* Before the die d has sent a START, the other one, strapped as master,   *)
(* has not been told anything: it is waiting, or it acts as a master.      *)
UntoldIsMaster(d, p) ==
    n[d].st \in {"OFF", "BYPASS", "WAIT", "CLAIM"} =>
        /\ r[p].cfg = Master /\ sw[p].role = Master
        /\ n[p].st \notin {"OFF", "BYPASS", "WAIT"} => n[p].role = Master

(* A die whose claim was acknowledged has made the other yield for good.   *)
HeardHasYielded(d, p) ==
    /\ n[d].won => n[d].heard
    /\ n[d].heard => /\ n[d].st \notin {"OFF", "BYPASS", "WAIT", "CLAIM"}
                     /\ n[p].st = "DONE"
                     /\ sw[p].chose \/ r[p].cfg = Slave
                     /\ sw[p].pc = "write" /\ sw[p].prog = "negotiate" => sw[p].role = Slave

MasksAreKnown ==
    \A d \in Dies : (n[d].same \/ n[d].match \/ r[d].hs = "match" \/ r[d].verified) => masks

IInv ==
    /\ TypeOK /\ InOrder /\ MasksAreKnown
    /\ \A d \in Dies : strap[d] = Slave =>
           SlaveIsWon(d) /\ UntoldIsMaster(d, peer(d)) /\ HeardHasYielded(d, peer(d))
=============================================================================

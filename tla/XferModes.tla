------------------------------ MODULE XferModes ------------------------------
(***************************************************************************)
(* Cross-die transfers over the live link: the modes of kr260_eth_xfer.py  *)
(* with the payload stream and the health gate of xfer_corners_lib.py.  A  *)
(* mode is one process on one die; the operator runs one after another.    *)
(* What a die writes to its peer aperture goes where the die's address     *)
(* translator (CAM) sends it: to the peer's shared SRAM, its mailbox, a    *)
(* core's debug window, or nowhere.                                        *)
(*                                                                         *)
(* The SRAM is FOLD words; word k of a stream carries <<stream, k>>.       *)
(***************************************************************************)
EXTENDS Naturals

CONSTANTS
    FOLD,      \* SRAM_FOLD in words: the aperture wraps onto them
    Iters,     \* beats of a soak
    Stream,    \* beats after an injected error
    Win,       \* words the beats cycle over
    Senders    \* dies whose operator sends

Dies == {"a", "b"}
peer == [a |-> "b", b |-> "a"]
LANDED == FOLD \div 2   \* PEER_ADDR and LANDED_ADDR are 0x1000 into the 8 KB

VARIABLES
    cam,    \* where each die's CAM rule points
    sram,   \* each die's shared SRAM
    slot,   \* each die's mailbox slot: its message and MSG_VALID
    link,   \* "up", "faulty" (FCSM=4, a fault latched), or "down"
    out,    \* the last process: its mode, die and exit code
    owed    \* the verification the last clean sender has earned, by die

board == <<cam, sram, slot, link>>
vars == <<cam, sram, slot, link, out, owed>>

Exit(mode, d, rc) == out' = [mode |-> mode, die |-> d, rc |-> rc]

(* A process changes no board but through what it writes; the hardware may *)
(* latch a fault while it runs.                                            *)
LinkMayFault == link' \in (IF link = "up" THEN {"up", "faulty"} ELSE {link})

Refuses(mode, d) == Exit(mode, d, 2) /\ UNCHANGED <<board, owed>>

_require_link == link # "down"

(* gate_or_ladder: health_ok and no wedge class. *)
gate_or_ladder == link = "up"

program_cam_rule(d, rule) == cam' = [cam EXCEPT ![d] = rule]

(* Beats 0..n-1 of a stream on the peer's SRAM, the last writer of a word  *)
(* staying; lose are the beats the hardware drops.                         *)
beat(i) == (LANDED + (i % Win)) % FOLD

Landed(mem, stream, beats, lose) ==
    [w \in 0..(FOLD - 1) |->
        LET hits == {i \in beats \ lose : beat(i) = w}
        IN  IF hits = {} THEN mem[w] ELSE <<stream, CHOOSE i \in hits : \A j \in hits : j <= i>>]

(* What a verifier expects after the beats. *)
final_values(stream, beats) ==
    [w \in {beat(i) : i \in beats} |->
        LET hits == {i \in beats : beat(i) = w}
        IN  <<stream, CHOOSE i \in hits : \A j \in hits : j <= i>>]

Matches(d, expect) == \A w \in DOMAIN expect : sram[d][w] = expect[w]

Verify(mode, d, good) ==
    /\ Exit(mode, d, IF good THEN 0 ELSE 1)
    /\ UNCHANGED <<board, owed>>

(* The sender's words all arrived: the peer's verifier must say so. *)
Earns(d, mode, lose) ==
    owed' = [owed EXCEPT ![peer[d]] = IF lose = {} THEN mode ELSE "none"]

-----------------------------------------------------------------------------
(* Word transfers. *)

do_sender(d) ==
    IF ~_require_link THEN Refuses("sender", d)
    ELSE \E lose \in SUBSET {0} :
        /\ program_cam_rule(d, "sram")
        /\ sram' = [sram EXCEPT ![peer[d]][LANDED] = IF lose = {} THEN <<"word", 0>> ELSE @]
        /\ LinkMayFault
        /\ Exit("sender", d, 0) /\ Earns(d, "recv", lose)
        /\ UNCHANGED slot

do_recv(d) == Verify("recv", d, sram[d][LANDED] = <<"word", 0>>)

(* The peer word is read through whatever rule the CAM holds. *)
ReadPeer(d) ==
    IF cam[d] = "sram" THEN sram[peer[d]][LANDED]
    ELSE IF cam[d] = "mbox" THEN slot[peer[d]].data ELSE <<"none", 0>>

do_readback(d) ==
    IF ~_require_link THEN Refuses("readback", d)
    ELSE /\ Exit("readback", d, IF ReadPeer(d) = <<"word", 0>> THEN 0 ELSE 1)
         /\ LinkMayFault /\ UNCHANGED <<cam, sram, slot, owed>>

do_mbox_send(d) ==
    IF ~_require_link THEN Refuses("mbox_send", d)
    ELSE \E lose \in SUBSET {0} :
        /\ program_cam_rule(d, "mbox")
        /\ slot' = IF lose = {} THEN [slot EXCEPT ![peer[d]] = [data |-> <<"word", 0>>, valid |-> TRUE]] ELSE slot
        /\ LinkMayFault
        /\ Exit("mbox_send", d, 0) /\ Earns(d, "mbox_recv", lose)
        /\ UNCHANGED sram

do_mbox_recv(d) ==
    Verify("mbox_recv", d, slot[d].valid /\ slot[d].data = <<"word", 0>>)

-----------------------------------------------------------------------------
(* Soak: beats over a window of words, health sampled on the way.  The     *)
(* adversarial one writes the generator's stream, refuses a faulty link    *)
(* and stops at a fault; the default one writes a count up from the        *)
(* payload, which no verifier looks for.                                   *)

do_soak(d, adversarial) ==
    IF ~_require_link THEN Refuses("soak", d)
    ELSE /\ program_cam_rule(d, "sram")
         /\ LinkMayFault
         /\ IF adversarial /\ ~gate_or_ladder
               THEN Exit("soak", d, 1) /\ UNCHANGED <<sram, slot, owed>>
            ELSE \E n \in 1..Iters, lose \in SUBSET (0..(Iters - 1)) :
               /\ n < Iters => adversarial /\ link' # "up"
               /\ sram' = [sram EXCEPT ![peer[d]] = Landed(@, IF adversarial THEN "soak" ELSE "count", 0..(n - 1), lose)]
               /\ Exit("soak", d, IF n = Iters /\ link' = "up" THEN 0 ELSE 1)
               /\ Earns(d, "soak_recv", IF adversarial /\ n = Iters THEN lose ELSE {0})
               /\ UNCHANGED slot

do_soak_recv(d) == Verify("soak_recv", d, Matches(d, final_values("soak", 0..(Iters - 1))))

(* Two samples of the flow-control nodes and one of the health plane. *)
do_fc_health(d) ==
    /\ LinkMayFault
    /\ Exit("fc_health", d, IF link' = "up" THEN 0 ELSE 1)
    /\ UNCHANGED <<cam, sram, slot, owed>>

-----------------------------------------------------------------------------
(* Corners. *)

(* A sentinel through the proven rule, then poison through a rule that     *)
(* points at no inbound target; the proven rule is put back.               *)
do_decerr(d) ==
    IF ~_require_link THEN Refuses("decerr", d)
    ELSE IF ~gate_or_ladder THEN Exit("decerr", d, 1) /\ UNCHANGED <<board, owed>>
    ELSE \E lose \in SUBSET {0} :
        /\ sram' = [sram EXCEPT ![peer[d]][LANDED] = IF lose = {} THEN <<"sentinel", 0>> ELSE @]
        /\ LinkMayFault
        /\ program_cam_rule(d, "sram")
        /\ Exit("decerr", d, IF link' = "up" THEN 0 ELSE 1)
        /\ Earns(d, "decerr_verify", lose)
        /\ UNCHANGED slot

do_decerr_verify(d) == Verify("decerr_verify", d, sram[d][LANDED] = <<"sentinel", 0>>)

(* Four aperture offsets, the last two folding onto the first two. *)
BoundaryOffs == <<0, FOLD - 1, FOLD, 4 * FOLD - 1>>

Fold(off) == off % FOLD

BoundaryMem(mem, n) ==
    [w \in 0..(FOLD - 1) |->
        LET hits == {k \in 1..n : Fold(BoundaryOffs[k]) = w}
        IN  IF hits = {} THEN mem[w] ELSE <<"boundary", CHOOSE k \in hits : \A j \in hits : j <= k>>]

do_boundary(d) ==
    IF ~_require_link THEN Refuses("boundary", d)
    ELSE IF ~gate_or_ladder THEN Exit("boundary", d, 1) /\ UNCHANGED <<board, owed>>
    ELSE \E n \in 1..4 :
        /\ program_cam_rule(d, "sram")
        /\ LinkMayFault
        /\ n < 4 => link' # "up"
        /\ sram' = [sram EXCEPT ![peer[d]] = BoundaryMem(@, n)]
        /\ Exit("boundary", d, IF n = 4 /\ link' = "up" THEN 0 ELSE 1)
        /\ Earns(d, "boundary_verify", IF n = 4 THEN {} ELSE {0})
        /\ UNCHANGED slot

do_boundary_verify(d) ==
    Verify("boundary_verify", d, sram[d][0] = <<"boundary", 3>> /\ sram[d][FOLD - 1] = <<"boundary", 4>>)

(* One corrupted beat; without a rise of the node's CRC nothing is judged. *)
(* The stream goes on until it is complete or a fault has latched.         *)
do_errinject(d) ==
    IF ~_require_link THEN Refuses("errinject", d)
    ELSE IF ~gate_or_ladder THEN Exit("errinject", d, 1) /\ UNCHANGED <<board, owed>>
    ELSE \E injected \in BOOLEAN, n \in 0..Stream, lose \in SUBSET {0} :
        /\ program_cam_rule(d, "sram")
        /\ LinkMayFault
        /\ IF injected THEN n >= 1 /\ (n < Stream => link' # "up") ELSE n = 0
        /\ sram' = [sram EXCEPT ![peer[d]] = Landed(@, "inject", 0..n, lose)]
        /\ Exit("errinject", d, IF ~injected THEN 2 ELSE IF n = Stream /\ link' = "up" THEN 0 ELSE 1)
        /\ Earns(d, "errinject_verify", IF n = Stream THEN {} ELSE {0})
        /\ UNCHANGED slot

(* The beats after the corrupted one. *)
do_errinject_verify(d) ==
    Verify("errinject_verify", d, Matches(d, final_values("inject", 1..Stream)))

-----------------------------------------------------------------------------
(* Debug: a far core is halted or resumed through a rule of its own, which *)
(* stays in the CAM.                                                       *)
do_dbg_halt(d) ==
    IF ~_require_link THEN Refuses("dbg_halt", d)
    ELSE /\ program_cam_rule(d, "dbg")
         /\ LinkMayFault
         /\ \E rc \in {0, 1} : Exit("dbg_halt", d, rc)
         /\ UNCHANGED <<sram, slot, owed>>

do_dbg_resume(d) ==
    IF ~_require_link THEN Refuses("dbg_resume", d)
    ELSE /\ program_cam_rule(d, "dbg")
         /\ LinkMayFault
         /\ Exit("dbg_resume", d, 0)
         /\ UNCHANGED <<sram, slot, owed>>

-----------------------------------------------------------------------------
FreshBoard ==
    /\ cam = [d \in Dies |-> "off"]
    /\ sram = [d \in Dies |-> [w \in 0..(FOLD - 1) |-> <<"none", 0>>]]
    /\ slot = [d \in Dies |-> [data |-> <<"none", 0>>, valid |-> FALSE]]

Init ==
    /\ FreshBoard
    /\ link \in {"up", "down"}
    /\ out = [mode |-> "none", die |-> "a", rc |-> 0]
    /\ owed = [d \in Dies |-> "none"]

Send(d) ==
    \/ do_sender(d) \/ do_readback(d) \/ do_mbox_send(d)
    \/ \E adversarial \in BOOLEAN : do_soak(d, adversarial)
    \/ do_decerr(d) \/ do_boundary(d) \/ do_errinject(d)
    \/ do_dbg_halt(d) \/ do_dbg_resume(d)

Check(d) ==
    \/ do_recv(d) \/ do_mbox_recv(d) \/ do_soak_recv(d) \/ do_fc_health(d)
    \/ do_decerr_verify(d) \/ do_boundary_verify(d) \/ do_errinject_verify(d)

Next ==
    \/ \E d \in Senders : Send(d)
    \/ \E d \in Dies : Check(d)

Spec == Init /\ [][Next]_vars

-----------------------------------------------------------------------------
(* Properties. *)

(* A verifier passes when every word of the sender it belongs to arrived   *)
(* and no sender has run since: both sides derive the stream, the folded   *)
(* addresses and the last writer of each word alike.  soak_recv belongs to *)
(* the adversarial soak only; after a default one it fails on a link that  *)
(* lost nothing.                                                           *)
VerifierAgrees ==
    \A d \in Dies : out'.die = d /\ out'.mode = owed[d] => out'.rc = 0

(* The inductive invariant of VerifierAgrees: what a die's verifier is to  *)
(* find is there, and only a sender to that die can change it.             *)
Earned(d) ==
    /\ owed[d] \in {"none", "recv", "mbox_recv", "soak_recv", "decerr_verify", "boundary_verify", "errinject_verify"}
    /\ owed[d] = "recv" => sram[d][LANDED] = <<"word", 0>>
    /\ owed[d] = "mbox_recv" => slot[d].valid /\ slot[d].data = <<"word", 0>>
    /\ owed[d] = "soak_recv" => Matches(d, final_values("soak", 0..(Iters - 1)))
    /\ owed[d] = "decerr_verify" => sram[d][LANDED] = <<"sentinel", 0>>
    /\ owed[d] = "boundary_verify" => sram[d][0] = <<"boundary", 3>> /\ sram[d][FOLD - 1] = <<"boundary", 4>>
    /\ owed[d] = "errinject_verify" => Matches(d, final_values("inject", 1..Stream))

OwedInv ==
    /\ DOMAIN sram = Dies /\ DOMAIN slot = Dies /\ DOMAIN owed = Dies
    /\ \A d \in Dies : DOMAIN sram[d] = 0..(FOLD - 1)
    /\ \A d \in Dies : Earned(d)
=============================================================================

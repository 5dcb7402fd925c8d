----------------------------- MODULE AgentStream -----------------------------
(***************************************************************************)
(* The measurement agents on the two boards (tl_perf_agent.py), driven by  *)
(* the throughput GUI: probe and seed, the delivery proof (send4, catch),  *)
(* and a run (stream on the master, drain on the slave), over and over on  *)
(* the same pair of dies.  Only the master-to-slave direction carries      *)
(* packets.                                                                *)
(*                                                                         *)
(* The registers are those the agents touch: the master's pair credit      *)
(* counter, and the slave's receive FIFO behind CREDIT_COUNT and the       *)
(* aperture.  A packet leaves the FIFO when its last word's offset is read *)
(* (tidelink_fifo_ctrl.sv:188); the agents read offset 0 only.  A process  *)
(* may be killed by the GUI closing its channel; a kill inside the words   *)
(* of a packet is left to TidelinkFifoCtrl.                                *)
(***************************************************************************)
EXTENDS Integers

CONSTANTS
    MAX_CREDITS,   \* words the slave's FIFO holds
    Burst,         \* payload words of a streamed packet
    MaxRuns,       \* bound: runs of the GUI
    MaxDrained     \* bound: the drain's count of words stops here

Cost == Burst + 2
ProofWords == 4          \* words of HDR4's packet, header and address included

VARIABLES
    stage,         \* what the GUI does with the boards
    runs,          \* runs begun
    probes,        \* the master's pair credits and the slave's credit count, as probed
    baseOcc,       \* the slave's occupancy before the proof packet
    stream,        \* the master's agent
    drain,         \* the slave's agent is draining
    pair,          \* PAIR_CREDIT_COUNTER of the master
    wire,          \* words sent and not yet in the slave's FIFO
    occ,           \* words in the slave's FIFO
    overrun,       \* a word found the FIFO full
    drained,       \* words the drain role has counted in this run
    sent,          \* words sent since the dies were reset
    unpaid         \* words sent that were never consumed from the counter

vars == <<stage, runs, probes, baseOcc, stream, drain, pair, wire, occ, overrun, drained, sent, unpaid>>

guiVars == <<stage, runs, probes, baseOcc>>
dieVars == <<pair, wire, occ, overrun, sent, unpaid>>

Min2(a, b) == IF a < b THEN a ELSE b

-----------------------------------------------------------------------------
(* The link. *)

Transmit(n) ==
    /\ wire' = wire + n
    /\ sent' = sent + n

Deliver ==
    /\ wire > 0
    /\ wire' = wire - 1
    /\ IF occ < MAX_CREDITS
          THEN occ' = occ + 1 /\ UNCHANGED overrun
          ELSE overrun' = TRUE /\ UNCHANGED occ
    /\ UNCHANGED <<guiVars, stream, drain, pair, drained, sent, unpaid>>

-----------------------------------------------------------------------------
(* Bring-up and delivery proof, one-shot commands. *)

(* _bringup probes the master first, then the slave; a run may also skip   *)
(* the ladder.                                                             *)
ProbeMaster ==
    /\ stage = "idle" /\ runs < MaxRuns
    /\ runs' = runs + 1
    /\ \/ stage' = "probing" /\ probes' = [probes EXCEPT !.pair = pair]
       \/ stage' = "proof" /\ UNCHANGED probes
    /\ UNCHANGED <<baseOcc, stream, drain, dieVars, drained>>

(* An ssh round trip outlasts the words on the wire. *)
ProbeSlave ==
    /\ stage = "probing" /\ wire = 0
    /\ probes' = [probes EXCEPT !.free = MAX_CREDITS - occ]
    /\ stage' = "seeding"
    /\ UNCHANGED <<runs, baseOcc, stream, drain, dieVars, drained>>

(* Only a positive difference is seeded. *)
Seed ==
    /\ stage = "seeding"
    /\ pair' = IF probes.free > probes.pair THEN pair + (probes.free - probes.pair) ELSE pair
    /\ stage' = "proof"
    /\ UNCHANGED <<runs, probes, baseOcc, stream, drain, wire, occ, overrun, drained, sent, unpaid>>

(* delivery_proof probes the occupancy, then send4 sends without asking    *)
(* for credit.                                                             *)
Send4 ==
    /\ stage = "proof" /\ wire = 0
    /\ baseOcc' = occ
    /\ Transmit(ProofWords)
    /\ stage' = "sent"
    /\ UNCHANGED <<runs, probes, stream, drain, pair, occ, overrun, drained, unpaid>>

Send4Consume ==
    /\ stage = "sent"
    /\ IF pair >= ProofWords
          THEN pair' = pair - ProofWords /\ UNCHANGED unpaid
          ELSE unpaid' = unpaid + ProofWords /\ UNCHANGED pair
    /\ stage' = "catching"
    /\ UNCHANGED <<runs, probes, baseOcc, stream, drain, wire, occ, overrun, drained, sent>>

(* catch reads offset 0 of the aperture: nothing is popped.  Nothing new   *)
(* in the FIFO when the time is up fails the run.                          *)
Catch ==
    /\ stage = "catching"
    /\ \/ occ > baseOcc /\ stage' = "armed"
       \/ stage' = "idle"
    /\ UNCHANGED <<runs, probes, baseOcc, stream, drain, dieVars, drained>>

-----------------------------------------------------------------------------
(* The run. *)

Go ==
    /\ stage = "armed"
    /\ stage' = "running"
    /\ stream' = "gate" /\ drain' = TRUE /\ drained' = 0
    /\ UNCHANGED <<runs, probes, baseOcc, dieVars>>

(* Faulty: the gate forgets header and address. *)
StreamPacketShort ==
    /\ stream = "gate"
    /\ pair >= Burst
    /\ Transmit(Cost)
    /\ stream' = "unpaid"
    /\ UNCHANGED <<guiVars, drain, pair, occ, overrun, drained, unpaid>>

StreamPacket ==
    /\ stream = "gate"
    /\ pair >= Cost
    /\ Transmit(Cost)
    /\ stream' = "unpaid"
    /\ UNCHANGED <<guiVars, drain, pair, occ, overrun, drained, unpaid>>

StreamConsume ==
    /\ stream = "unpaid"
    /\ pair' = IF pair > Cost THEN pair - Cost ELSE 0
    /\ stream' = "gate"
    /\ UNCHANGED <<guiVars, drain, wire, occ, overrun, drained, sent, unpaid>>

(* Faulty: a starving stream waits for credit without a deadline. *)
StreamStarves ==
    /\ stream = "gate" /\ pair >= Cost
    /\ stream' = "off"
    /\ UNCHANGED <<guiVars, drain, dieVars, drained>>

(* The deadline is looked at between packets, and while starving. *)
StreamTimeUp ==
    /\ stream = "gate"
    /\ stream' = "off"
    /\ UNCHANGED <<guiVars, drain, dieVars, drained>>

(* Up to 256 reads of offset 0 for every word CREDIT_COUNT says is there. *)
Drain ==
    /\ drain /\ occ > 0 /\ drained < MaxDrained
    /\ drained' = Min2(drained + occ, MaxDrained)
    /\ UNCHANGED <<guiVars, stream, drain, dieVars>>

DrainTimeUp ==
    /\ drain
    /\ drain' = FALSE
    /\ UNCHANGED <<guiVars, stream, dieVars, drained>>

(* Abort, jam or watchdog: the channels' processes are killed. *)
Kill ==
    /\ stage = "running"
    /\ stage' = "idle"
    /\ unpaid' = IF stream = "unpaid" THEN unpaid + Cost ELSE unpaid
    /\ stream' = "off" /\ drain' = FALSE
    /\ UNCHANGED <<runs, probes, baseOcc, pair, wire, occ, overrun, drained, sent>>

RunOver ==
    /\ stage = "running" /\ stream = "off" /\ ~drain
    /\ stage' = "idle"
    /\ UNCHANGED <<runs, probes, baseOcc, stream, drain, dieVars, drained>>

-----------------------------------------------------------------------------
(* After a reset the counter is 0; a bring-up elsewhere may have seeded it. *)
Init ==
    /\ stage = "idle" /\ runs = 0
    /\ probes = [pair |-> 0, free |-> 0]
    /\ baseOcc = 0
    /\ stream = "off" /\ drain = FALSE
    /\ pair \in {0, MAX_CREDITS}
    /\ wire = 0 /\ occ = 0 /\ overrun = FALSE
    /\ drained = 0 /\ sent = 0 /\ unpaid = 0

StreamStep == StreamPacket \/ StreamConsume \/ StreamTimeUp

Next ==
    \/ Deliver \/ ProbeMaster \/ ProbeSlave \/ Seed \/ Send4 \/ Send4Consume \/ Catch
    \/ Go \/ StreamStep \/ Drain \/ DrainTimeUp \/ Kill \/ RunOver

(* The link delivers, and time passes on both boards. *)
Spec ==
    /\ Init /\ [][Next]_vars
    /\ WF_vars(Deliver) /\ WF_vars(StreamConsume) /\ WF_vars(StreamTimeUp) /\ WF_vars(DrainTimeUp)

-----------------------------------------------------------------------------
(* Properties. *)

(* role_stream, cmd_send4 and cmd_seed: the credit the master believes in, *)
(* the words on their way and the words in the FIFO exceed the FIFO only   *)
(* by words that were sent and never consumed, by a proof without credit   *)
(* or a run killed in a packet; so without those no word is ever lost.     *)
CreditAccounted ==
    /\ pair + wire + occ <= MAX_CREDITS + unpaid + (IF stream = "unpaid" THEN Cost ELSE 0)
                              + (IF stage = "sent" THEN ProofWords ELSE 0)
    /\ overrun => unpaid > 0 \/ stage = "sent"

(* A stream is under way.  role_stream: the starve loop watches the        *)
(* deadline too, so a stream whose credit never comes back still ends.     *)
Streaming == stream # "off"

-----------------------------------------------------------------------------
(* The inductive invariant behind CreditAccounted, for the proofs. *)

TypeOK ==
    /\ stage \in {"idle", "probing", "seeding", "proof", "sent", "catching", "armed", "running"}
    /\ stream \in {"off", "gate", "unpaid"}
    /\ probes \in [pair : Nat, free : Int]
    /\ pair \in Nat /\ wire \in Nat /\ occ \in Nat /\ unpaid \in Nat
    /\ overrun \in BOOLEAN

(* Nothing sends while the GUI probes and seeds, so what it has read is    *)
(* still so when it uses it.                                               *)
ProbesAreFresh ==
    /\ stage # "running" => stream = "off"
    /\ stage \in {"probing", "seeding"} => probes.pair = pair
    /\ stage = "seeding" => wire = 0 /\ probes.free = MAX_CREDITS - occ

(* A packet is sent only when it can be paid for. *)
GateHeld == stream = "unpaid" => pair >= Cost

(* A proof packet that overran the FIFO cannot be paid for. *)
OverrunIsUnpaid == overrun /\ stage = "sent" => unpaid > 0 \/ pair < ProofWords

IInv == TypeOK /\ CreditAccounted /\ ProbesAreFresh /\ GateHeld /\ OverrunIsUnpaid

=============================================================================

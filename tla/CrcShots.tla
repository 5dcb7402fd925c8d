----------------------------- MODULE CrcShots -----------------------------
(***************************************************************************)
(* The single-shot CRC injection tests of the on-chip pair (rev2hw.py:     *)
(* crc ctl, crc sweep, crc stats, axi, stream) and the injector driver     *)
(* with its must-fail controls (injector_controls.py).                     *)
(*                                                                         *)
(* One script drives both dies through /dev/mem.  A shot arms the injector *)
(* of the sending die, sends one tagged packet and collects what reaches   *)
(* the receiver; the link may detect the error, replay the packet, lose    *)
(* it, deliver it twice, or deliver a copy after the collect window.       *)
(***************************************************************************)
EXTENDS Naturals, Sequences, FiniteSets

CONSTANTS
    Modes,      \* the commands to run: subset of {"ctl", "sweep", "stats", "axi", "stream"}
    N,          \* shots, or stream starts, wanted
    Candidates  \* the sweep's list of byte and bit positions, as a length

VARIABLES
    mode, slave,  \* the command; the sending die is the slave die_b
    fixed,        \* stats: --expect-fixed
    pc, i, try,   \* program counter, shot number, attempt of the liveness control
    link,         \* both dies report FCSM = 4 and cal = 1
    room,         \* the receiver has credit for a packet
    fifo,         \* tags waiting in the receiver's FIFO
    late,         \* tags whose extra or only copy has yet to arrive
    armed,        \* 0x23C: 0, or the tag class it corrupts: "data" or "other"
    unlocked,     \* die_b's debug unlock
    crc, crc0, run0, ledger, \* receiver counter; at the shot's start; at the run's; sum of the shots'
    cnt,          \* outcomes of the detected shots, and INERT, UNDETECTED, FAIL
    pk,           \* what collect() returned
    bad,          \* a control or gate failed (ok = False, fails > 0, degraded)
    rc,           \* exit code
    got,          \* ghost: copies of each shot's packet that reached the receiver
    hit           \* ghost: shots whose error the receiver detected

vars == <<mode, slave, fixed, pc, i, try, link, room, fifo, late, armed, unlocked, crc,
          crc0, run0, ledger, cnt, pk, bad, rc, got, hit>>
setup == <<mode, slave, fixed>>
account == <<crc0, run0, ledger, cnt>>
ghost == <<got, hit>>

None == 99
Injects == {"sweep", "stats", "axi"}
Outcomes == {"EXACT", "LOST", "DUP", "STRAY", "INERT", "UNDETECTED", "FAIL"}
Limit == IF mode = "sweep" THEN Candidates ELSE N
Shots == 1 .. Candidates
Junk == 0                  \* a packet that is nobody's
Control == Candidates + 1  \* the tag of a clean control packet

Init ==
    /\ mode \in Modes /\ slave \in BOOLEAN /\ (mode = "axi" => ~slave)
    /\ fixed \in BOOLEAN /\ (mode # "stats" => ~fixed)
    /\ pc = "start" /\ i = 0 /\ try = 0 /\ link \in BOOLEAN /\ room = TRUE
    /\ fifo = <<>> /\ late = {} /\ armed = "0" /\ unlocked = FALSE
    /\ crc = 0 /\ crc0 = 0 /\ run0 = 0 /\ ledger = 0
    /\ cnt = [o \in Outcomes |-> 0] /\ pk = <<>> /\ bad = FALSE /\ rc = None
    /\ got = [t \in Shots |-> 0] /\ hit = {}

Count(o) == cnt' = [cnt EXCEPT ![o] = @ + 1]
Arrived(ts) == [t \in Shots |-> got[t] + Len(SelectSeq(ts, LAMBDA u : u = t))]

(* exact(): the packet arrived alone and whole.  A peer write is exact when *)
(* its word reads back, however often it was applied.                      *)
exact(p, tag) == IF mode = "axi" THEN \E n \in 1 .. Len(p) : p[n] = tag ELSE p = <<tag>>

(* Outcome of one shot's collect window. *)
classify(p, tag) ==
    IF p = <<>> THEN "LOST"
    ELSE IF \E n \in 1 .. Len(p) : p[n] # tag THEN "STRAY"
    ELSE IF Len(p) = 1 THEN "EXACT" ELSE "DUP"

-----------------------------------------------------------------------------
(* The hardware. *)

(* A packet replayed after its collect window reaches the receiver. *)
Arrive(t) ==
    /\ t \in late /\ rc = None
    /\ late' = late \ {t} /\ fifo' = Append(fifo, t) /\ got' = Arrived(<<t>>)
    /\ UNCHANGED <<setup, pc, i, try, link, room, armed, unlocked, crc, account, pk, bad, rc, hit>>

(* The link degrades, or the receiver's credit stops coming back. *)
Degrade ==
    /\ rc = None /\ \/ link /\ link' = FALSE /\ UNCHANGED room
                    \/ room /\ room' = FALSE /\ UNCHANGED link
    /\ UNCHANGED <<setup, pc, i, try, fifo, late, armed, unlocked, crc, account, pk, bad, rc, ghost>>

(* What the link does with one packet.  An armed shot may miss the packet; *)
(* a hit is detected, counted and replayed (or the replay is lost, doubled *)
(* or late), or it is not covered by the CRC and the packet arrives wrong. *)
Clean(tag) ==
    /\ fifo' = Append(fifo, tag) /\ got' = Arrived(<<tag>>) /\ UNCHANGED <<late, crc, hit>>
Detected(tag) ==
    /\ crc' = crc + 1 /\ hit' = hit \cup {tag}
    /\ \E n \in 0 .. 2, l \in BOOLEAN :
         LET copies == [k \in 1 .. n |-> tag] IN
         /\ fifo' = fifo \o copies /\ got' = Arrived(copies)
         /\ late' = IF l THEN late \cup {tag} ELSE late
Undetected(tag) == fifo' = Append(fifo, Junk) /\ UNCHANGED <<late, crc, hit, got>>
Cross(tag) ==
    IF armed = "data" /\ tag \in Shots THEN Clean(tag) \/ Detected(tag) \/ Undetected(tag)
    ELSE Clean(tag)

(* Path.setup flushes the receiver: what waits there is gone, and the      *)
(* credit usually comes back.                                              *)
Flush == fifo' = <<>> /\ room' \in {room, TRUE}

(* Injector.arm: unlock a slave die, clear, write, read back.  A register  *)
(* that is not zero or does not hold the value fails the arm, and a failed *)
(* arm drops the unlock again.                                             *)
Arm_leaky(class, good) ==
    armed' = (IF good THEN class ELSE "0") /\ unlocked' = slave
Arm(class, good) ==
    IF good THEN armed' = class /\ unlocked' = slave ELSE armed' = "0" /\ unlocked' = FALSE
Disarm == armed' = "0" /\ unlocked' = FALSE

-----------------------------------------------------------------------------
(* Verdicts. *)

Exit(code) == pc' = "done" /\ rc' = code
Hardware == <<link, room, fifo, late, armed, unlocked, crc>>

(* link_ok, 0x23C reads 0, the receiver checks CRCs, then the setup. *)
Preflight ==
    /\ pc = "start"
    /\ \/ Exit(1) /\ UNCHANGED <<fifo, room, run0>>
       \/ /\ link /\ Flush /\ pc' = (IF mode \in {"ctl", "stats"} THEN "clean"
                                     ELSE IF mode = "axi" THEN "wrong" ELSE "shot")
          /\ run0' = crc /\ rc' = rc
    /\ UNCHANGED <<setup, i, try, link, late, armed, unlocked, crc, crc0, ledger, cnt, pk, bad, ghost>>

(* Clean packets before any injection: exact, with a quiet counter.  ctl   *)
(* records a failure and goes on, stats gives up at once, axi records it   *)
(* and gives up only when the link degraded.                               *)
CleanKept == UNCHANGED <<setup, i, try, Hardware, account, pk, ghost>>
CtlClean ==
    /\ pc = "clean" /\ mode = "ctl" /\ CleanKept
    /\ \E exactly \in BOOLEAN : bad' = (bad \/ ~exactly \/ ~room)
    /\ pc' = "wrong" /\ rc' = rc
StatsClean ==
    /\ pc = "clean" /\ mode = "stats" /\ CleanKept
    /\ \/ Exit(1) /\ bad' = TRUE
       \/ room /\ pc' = "shot" /\ UNCHANGED <<rc, bad>>
AxiClean ==
    /\ pc = "clean" /\ mode = "axi" /\ CleanKept
    /\ \E exactly \in BOOLEAN : bad' = (bad \/ ~exactly)
    /\ IF link THEN pc' = "shot" /\ rc' = rc ELSE Exit(1)

(* run_wrong_id_control: armed for a DataID nobody uses, traffic stays     *)
(* exact.  No credit while armed raises out of it and ctl disarms.         *)
WrongIdArm ==
    /\ pc = "wrong"
    /\ \E good \in BOOLEAN :
         /\ Arm("other", good)
         /\ pc' = (IF good THEN "wrong_drive" ELSE "wrong_done") /\ bad' = (bad \/ ~good)
    /\ UNCHANGED <<setup, i, try, link, room, fifo, late, crc, account, pk, rc, ghost>>
WrongIdDrive ==
    /\ pc = "wrong_drive"
    /\ Disarm /\ pc' = "wrong_done"
    /\ \E inert \in BOOLEAN : bad' = (bad \/ ~inert \/ (mode = "ctl" /\ ~room))
    /\ UNCHANGED <<setup, i, try, link, room, fifo, late, crc, account, pk, rc, ghost>>
WrongIdDone ==
    /\ pc = "wrong_done"
    /\ IF mode = "ctl" THEN Exit(IF ~bad /\ link THEN 0 ELSE 1)
       ELSE pc' = "clean" /\ UNCHANGED rc
    /\ UNCHANGED <<setup, i, try, Hardware, account, pk, bad, ghost>>

(* The sweep ends at its wanted number of effective shots; sweep and stats *)
(* stop at a failure, stream at a packet not exact or a degraded link.     *)
Enough ==
    \/ i >= Limit
    \/ mode = "sweep" /\ (bad \/ cnt["EXACT"] >= N)
    \/ mode = "stats" /\ bad
    \/ mode = "stream" /\ (cnt["FAIL"] > 0 \/ ~link)

(* The next shot: what is left of an earlier one is drained first (stats,  *)
(* stream), then the injector is armed.                                    *)
Shot ==
    /\ pc = "shot"
    /\ IF Enough
       THEN pc' = "sum" /\ UNCHANGED <<i, fifo, crc0, armed, unlocked, bad>>
       ELSE \E good \in BOOLEAN :
              /\ i' = i + 1 /\ crc0' = crc
              /\ fifo' = IF mode \in {"stats", "stream"} THEN <<>> ELSE fifo
              /\ IF mode \in Injects
                 THEN Arm("data", good) /\ pc' = (IF good THEN "send" ELSE "sum") /\ bad' = (bad \/ ~good)
                 ELSE pc' = "send" /\ UNCHANGED <<armed, unlocked, bad>>
    /\ UNCHANGED <<setup, try, link, room, late, crc, run0, ledger, cnt, pk, rc, ghost>>

(* Path.send waits for room and never writes without it.  Without room     *)
(* sweep and stream stop; stats disarms, flushes and sends once more,      *)
(* now with nothing armed.                                                 *)
Send ==
    /\ pc = "send"
    /\ \/ /\ room \/ mode = "axi"
          /\ Cross(i) /\ pc' = "collect" /\ UNCHANGED <<armed, unlocked, room, bad>>
       \/ /\ ~room /\ mode \in {"sweep", "stream"}
          /\ Disarm /\ pc' = "sum" /\ bad' = TRUE /\ UNCHANGED <<fifo, late, crc, got, hit, room>>
       \/ /\ ~room /\ mode = "stats"
          /\ Disarm /\ Flush /\ pc' = "resend" /\ UNCHANGED <<late, crc, got, hit, bad>>
    /\ UNCHANGED <<setup, i, try, link, account, pk, rc>>
Resend ==
    /\ pc = "resend"
    /\ IF room THEN Cross(i) /\ pc' = "collect" /\ UNCHANGED bad
       ELSE pc' = "sum" /\ bad' = TRUE /\ UNCHANGED <<fifo, late, crc, got, hit>>
    /\ UNCHANGED <<setup, i, try, link, room, armed, unlocked, account, pk, rc>>

(* Path.collect waits for a packet and for a replayed duplicate, drains    *)
(* everything there is; then the injector is disarmed.                     *)
Collect ==
    /\ pc = "collect"
    /\ pk' = fifo /\ fifo' = <<>> /\ Disarm /\ pc' = "classify"
    /\ UNCHANGED <<setup, i, try, link, room, late, crc, account, bad, rc, ghost>>

(* The shot's outcome.  sweep and axi: classify_board_shot.  stats:        *)
(* classify, if the counter moved.  stream: exactness (latency, FIFO flags *)
(* and witnesses may also fail a start).                                   *)
board_outcome(d, p) ==
    IF ~exact(p, i) \/ d > 1 THEN "FAIL" ELSE IF d = 1 THEN "EXACT" ELSE "INERT"
stats_outcome(d, p) ==
    IF d > 0 THEN classify(p, i) ELSE IF exact(p, i) THEN "INERT" ELSE "UNDETECTED"
stream_outcome(d, p) == IF exact(p, i) /\ d = 0 THEN "EXACT" ELSE "FAIL"
Outcome(d, p) ==
    CASE mode = "stats" -> stats_outcome(d, p)
      [] mode = "stream" -> stream_outcome(d, p)
      [] OTHER -> board_outcome(d, p)
Classify ==
    /\ pc = "classify"
    /\ LET d == crc - crc0
           o == Outcome(d, pk) IN
       /\ Count(o) /\ ledger' = ledger + d
       /\ \E storm \in BOOLEAN :
            bad' = (bad \/ o = "FAIL" \/ (~link /\ mode # "stats") \/ (storm /\ mode = "stream"))
       /\ pc' = IF mode = "stats" THEN "control" ELSE IF mode = "axi" /\ ~link THEN "sum" ELSE "shot"
    /\ try' = 0
    /\ UNCHANGED <<setup, i, Hardware, crc0, run0, pk, rc, ghost>>

(* stats: a fresh clean packet must be delivered.  Without credit the      *)
(* receiver is flushed and the packet sent once more, or the node is       *)
(* dead; a packet not delivered is tried a second time.  What else is      *)
(* collected with it is looked at for a late copy and dropped.             *)
LiveControl ==
    /\ pc = "control" /\ fifo' = <<>>
    /\ IF room THEN UNCHANGED room ELSE Flush
    /\ \E delivered \in BOOLEAN :
         LET alive == room' /\ delivered
             again == room' /\ ~delivered /\ try = 0 IN
         /\ try' = try + 1
         /\ pc' = IF again THEN "control" ELSE "shot"
         /\ bad' = (bad \/ (~again /\ (~alive \/ ~link)))
    /\ UNCHANGED <<setup, i, link, late, armed, unlocked, crc, account, pk, rc, ghost>>

(* The counter moved over the run by what the shots account for. *)
CountExpect == crc - run0 = ledger

detected == cnt["EXACT"] + cnt["LOST"] + cnt["STRAY"] + cnt["DUP"]

sweep_verdict == IF ~bad /\ CountExpect /\ cnt["EXACT"] >= N THEN 0 ELSE 1
stream_verdict == IF ~bad /\ cnt["EXACT"] = N THEN 0 ELSE 1
axi_verdict == IF ~bad /\ CountExpect /\ cnt["EXACT"] = N THEN 0 ELSE 1
stats_verdict ==
    IF bad \/ i < N \/ ~CountExpect \/ cnt["UNDETECTED"] > 0 THEN 1
    ELSE IF detected = 0 THEN 4
    ELSE IF fixed /\ cnt["EXACT"] # detected THEN 1 ELSE 0
Verdict ==
    CASE mode = "sweep" -> sweep_verdict [] mode = "stats" -> stats_verdict
      [] mode = "axi" -> axi_verdict [] mode = "stream" -> stream_verdict
Summarise ==
    /\ pc = "sum" /\ Exit(Verdict)
    /\ UNCHANGED <<setup, i, try, Hardware, account, pk, bad, ghost>>

Next ==
    \/ Degrade \/ Preflight \/ CtlClean \/ StatsClean \/ AxiClean \/ WrongIdArm \/ WrongIdDrive \/ WrongIdDone
    \/ Shot \/ Send \/ Resend \/ Collect \/ Classify \/ LiveControl \/ Summarise
    \/ \E t \in Shots : Arrive(t)

Spec == Init /\ [][Next]_vars

-----------------------------------------------------------------------------
(* However a command ends (a failed arm, no credit, a dead control, a      *)
(* degraded link), the injector is disarmed and the slave die is locked    *)
(* again: injector_controls.py promises the unlock is raised only while    *)
(* the injector is armed.                                                  *)
Relocked == (rc # None => armed = "0") /\ (unlocked => armed # "0")

(* The inductive invariant of Relocked: only the three places of a shot in *)
(* flight find the injector armed, and a command has its exit code only    *)
(* when it is done.                                                        *)
IInv ==
    /\ armed # "0" => pc \in {"wrong_drive", "send", "collect"}
    /\ rc # None => pc = "done"
    /\ unlocked => armed # "0"

(* A PASS of sweep, axi, stream or of stats --expect-fixed is never given  *)
(* when the packet of a detected shot did not reach the receiver: a late   *)
(* copy of one shot never stands in for another, and a shot that was sent  *)
(* again unarmed is not taken for a replay.                                *)
PassIsDelivered ==
    rc = 0 /\ (mode \in {"sweep", "axi", "stream"} \/ fixed) =>
        /\ \A t \in hit : got[t] >= 1
        /\ mode # "stream" => Cardinality(hit) = cnt["EXACT"]
        /\ mode = "stream" => hit = {}

=============================================================================

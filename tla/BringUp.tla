------------------------------ MODULE BringUp ------------------------------
(***************************************************************************)
(* Bringing the link of a pair of boards up: kr260_eth_bringup.py on both  *)
(* boards at once, and the anchor-pair gate (anchor_pair_gate.py) that     *)
(* reads their two logs and accepts the try or asks for another one.       *)
(*                                                                         *)
(* The two scripts share nothing but the link.  A step is one register     *)
(* access of one of them, or the end of one of its polls; the calibrators, *)
(* the link handshake and the re-anchor beacon run by themselves.          *)
(***************************************************************************)
EXTENDS Naturals, Sequences

CONSTANTS
    MaxTries,   \* bound: MAX_TRIES of the orchestrator
    Modes,      \* ANCHOR_GATE_MODE
    Nodes,      \* the AXI data nodes whose CRC checking is reported
    CrcModes,   \* --crc-check
    Appended    \* a log keeps what earlier tries wrote

Dies == {"a", "b"}
other(d) == IF d = "a" THEN "b" ELSE "a"

VARIABLES
    opt,       \* gate mode, --crc-check, the die with --traffic-check
    try,       \* which try this is
    pc,        \* where each script is, "over" when it has ended
    training,  \* SWI_TRAINING_MODE
    cal,       \* the calibrator: "scan", "hold", "done"
    swreset,   \* the link layer is held in reset
    up,        \* the CR/CRACK handshake is complete
    lost,      \* dies whose transmit data is lost: reset while the peer was live
    anchored,  \* EPOCH_STATUS[0]
    crc,       \* the nodes with CRC checking on, by die
    said,      \* what print_crc_state said
    word,      \* the word of the peer's SRAM that the traffic check uses
    landed,    \* a check word reached the peer in this try
    matched,   \* read-backs of the traffic check that matched
    log,       \* the RESULT lines by die
    ended,     \* how each script ended this try
    rc,        \* exit codes
    verdict    \* "none", or the orchestrator's

vars == <<opt, try, pc, training, cal, swreset, up, lost, anchored, crc, said, word, landed, matched, log,
          ended, rc, verdict>>
hardware == <<training, cal, swreset, up, lost, anchored, crc, word, landed>>

None == 99
words == {"w1", "w2"}

Init ==
    /\ opt \in [mode : Modes, crc : CrcModes, traffic : Dies \cup {"none"}]
    /\ try = 1
    /\ pc = [d \in Dies |-> "role"]
    /\ training = [d \in Dies |-> FALSE] /\ cal = [d \in Dies |-> "scan"]
    /\ swreset = [d \in Dies |-> FALSE] /\ up = FALSE /\ lost = {}
    /\ anchored = [d \in Dies |-> FALSE]
    /\ \E on \in SUBSET Nodes : crc = [d \in Dies |-> on]
    /\ said = [d \in Dies |-> "nothing"]
    /\ word \in words \cup {"old"}
    /\ landed = FALSE /\ matched = 0
    /\ log = [d \in Dies |-> << >>] /\ ended = [d \in Dies |-> "none"]
    /\ rc = [d \in Dies |-> None] /\ verdict = "none"

Goto(d, place) == pc' = [pc EXCEPT ![d] = place]
Say(d, line) == log' = [log EXCEPT ![d] = Append(@, line)]
Quiet == UNCHANGED <<said, matched, log, ended, rc>>
Rest == UNCHANGED <<opt, try, verdict>>

-----------------------------------------------------------------------------
(* Hardware.  A calibrator needs the peer's training pattern to reach      *)
(* S_HOLD and leaves it when its own training mode is dropped; the link    *)
(* layers shake hands when both are done and neither is in reset; the      *)
(* re-anchor may latch on a live link.                                     *)
CalHold(d) ==
    /\ cal[d] = "scan" /\ training[d] /\ training[other(d)]
    /\ cal' = [cal EXCEPT ![d] = "hold"]
    /\ UNCHANGED <<pc, training, swreset, up, lost, anchored, crc, word, landed>> /\ Quiet /\ Rest

CalDone(d) ==
    /\ cal[d] = "hold" /\ ~training[d]
    /\ cal' = [cal EXCEPT ![d] = "done"]
    /\ UNCHANGED <<pc, training, swreset, up, lost, anchored, crc, word, landed>> /\ Quiet /\ Rest

Handshake ==
    /\ ~up /\ \A d \in Dies : cal[d] = "done" /\ ~training[d] /\ ~swreset[d]
    /\ up' = TRUE
    /\ UNCHANGED <<pc, training, cal, swreset, lost, anchored, crc, word, landed>> /\ Quiet /\ Rest

Anchor(d) ==
    /\ up /\ ~anchored[d]
    /\ anchored' = [anchored EXCEPT ![d] = TRUE]
    /\ UNCHANGED <<pc, training, cal, swreset, up, lost, crc, word, landed>> /\ Quiet /\ Rest

-----------------------------------------------------------------------------
(* bringup. *)

(* 1, 1b: the role is locked and training is held; a link that was live    *)
(* leaves data mode.                                                       *)
Role(d) ==
    /\ pc[d] = "role"
    /\ training' = [training EXCEPT ![d] = TRUE]
    /\ cal' = [cal EXCEPT ![d] = "scan"]
    /\ up' = FALSE
    /\ anchored' = [anchored EXCEPT ![d] = FALSE]
    /\ lost' = lost \ {d}
    /\ Goto(d, "hold")
    /\ UNCHANGED <<swreset, crc, word, landed>> /\ Quiet /\ Rest

(* 2: in_hold, or exit code 2 with training still held and no RESULT line. *)
WaitHold(d) ==
    /\ pc[d] = "hold"
    /\ \/ cal[d] = "hold" /\ Goto(d, "release") /\ UNCHANGED <<ended, rc>>
       \/ /\ cal[d] # "hold"
          /\ Goto(d, "over") /\ rc' = [rc EXCEPT ![d] = 2] /\ ended' = [ended EXCEPT ![d] = "no_hold"]
    /\ UNCHANGED <<hardware, said, matched, log>> /\ Rest

(* 2b, 3: after the settle this die drops training, whether or not the     *)
(* peer has got to S_HOLD.                                                 *)
Release(d) ==
    /\ pc[d] = "release"
    /\ training' = [training EXCEPT ![d] = FALSE]
    /\ Goto(d, "settle")
    /\ UNCHANGED <<cal, swreset, up, lost, anchored, crc, word, landed>> /\ Quiet /\ Rest

link_live(d) == cal[d] = "done" /\ up

(* 3a: the link comes up by itself, or the settle ends. *)
wait_link_live(d) ==
    /\ pc[d] = "settle"
    /\ Goto(d, IF link_live(d) THEN "converge" ELSE "recheck")
    /\ UNCHANGED hardware /\ Quiet /\ Rest

(* The status is read once more, *)
Recheck(d) ==
    /\ pc[d] = "recheck"
    /\ Goto(d, IF link_live(d) THEN "converge" ELSE "swreset")
    /\ UNCHANGED hardware /\ Quiet /\ Rest

(* and the first bootstrap write follows.  A link that went live in        *)
(* between loses this die's transmit data.                                 *)
SwResetOn(d) ==
    /\ pc[d] = "swreset"
    /\ swreset' = [swreset EXCEPT ![d] = TRUE]
    /\ up' = FALSE
    /\ lost' = IF up THEN lost \cup {d} ELSE lost
    /\ Goto(d, "enable")
    /\ UNCHANGED <<training, cal, anchored, crc, word, landed>> /\ Quiet /\ Rest

LlEnable(d) ==
    /\ pc[d] = "enable"
    /\ swreset' = [swreset EXCEPT ![d] = FALSE]
    /\ Goto(d, "converge")
    /\ UNCHANGED <<training, cal, up, lost, anchored, crc, word, landed>> /\ Quiet /\ Rest

(* 4: FCSM = 4 and cal_done, or exit code 3.  A live link that exchanges   *)
(* ACKs may never be read at 4.                                            *)
Converge(d) ==
    /\ pc[d] = "converge"
    /\ \/ /\ link_live(d)
          /\ Say(d, "up") /\ Goto(d, "crc") /\ UNCHANGED <<ended, rc>>
       \/ /\ Say(d, "not_converged") /\ Goto(d, "over")
          /\ rc' = [rc EXCEPT ![d] = 3] /\ ended' = [ended EXCEPT ![d] = "not_converged"]
    /\ UNCHANGED <<hardware, said, matched>> /\ Rest

(* set_crc_check: every node whose write takes. *)
set_crc_check(on, d) ==
    \E taken \in SUBSET Nodes :
        crc' = [crc EXCEPT ![d] = IF on THEN @ \cup taken ELSE @ \ taken]

(* The summary line of print_crc_state; n_on counts the nodes read, not    *)
(* the ones that check.                                                    *)
print_crc_state(st) ==
    LET n_on == {n \in Nodes : TRUE}
    IN  IF n_on = {} THEN "all_off" ELSE IF n_on # Nodes THEN "mixed" ELSE "nothing"

(* 4b. *)
Crc(d) ==
    /\ pc[d] = "crc"
    /\ IF opt.crc = "report" THEN UNCHANGED crc ELSE set_crc_check(opt.crc = "on", d)
    /\ said' = [said EXCEPT ![d] = print_crc_state(crc'[d])]
    /\ Goto(d, "anchor")
    /\ UNCHANGED <<training, cal, swreset, up, lost, anchored, word, landed, matched, log, ended, rc>> /\ Rest

(* 5: the re-anchor has latched, or it has not within the poll. *)
AnchorPoll(d) ==
    /\ pc[d] = "anchor"
    /\ LET rea == anchored[d]
       IN  /\ Say(d, IF rea THEN "reanchored" ELSE "linkup_no_anchor")
           /\ ended' = [ended EXCEPT ![d] = IF rea THEN "reanchored" ELSE "linkup_no_anchor"]
           /\ rc' = [rc EXCEPT ![d] = IF d = opt.traffic THEN @ ELSE IF rea THEN 0 ELSE 4]
    /\ Goto(d, IF d = opt.traffic THEN "traffic1" ELSE "over")
    /\ UNCHANGED <<hardware, said, matched>> /\ Rest

CheckWord(place) == IF place = "traffic1" THEN "w1" ELSE "w2"

(* 6: one word written and read back.  On a link without data the access   *)
(* ends in a bus error or a hang and the child's fate is the verdict; a    *)
(* write may be dropped, and then what was there before is read.           *)
traffic_check(d) ==
    /\ pc[d] \in {"traffic1", "traffic2"}
    /\ LET last == pc[d] = "traffic2"
           w == CheckWord(pc[d])
           good == IF ended[d] = "reanchored" THEN 0 ELSE 4
           Verdict(n) == IF last THEN [rc EXCEPT ![d] = IF n = 2 THEN good ELSE 5] ELSE rc
       IN  \/ /\ up /\ d \notin lost
              /\ \E drop \in BOOLEAN :
                    /\ word' = IF drop THEN word ELSE w
                    /\ landed' = (landed \/ ~drop)
                    /\ LET n == matched + (IF ~drop \/ word = w THEN 1 ELSE 0)
                       IN  matched' = n /\ rc' = Verdict(n)
              /\ Goto(d, IF last THEN "over" ELSE "traffic2")
           \/ rc' = [rc EXCEPT ![d] = 5] /\ Goto(d, "over") /\ UNCHANGED <<word, landed, matched>>
    /\ UNCHANGED <<training, cal, swreset, up, lost, anchored, crc, said, log, ended>> /\ Rest

(* The orchestrator's timeout ends a script wherever it is. *)
Killed(d) ==
    /\ pc[d] # "over"
    /\ Goto(d, "over") /\ rc' = [rc EXCEPT ![d] = 124]
    /\ ended' = [ended EXCEPT ![d] = IF @ = "none" THEN "killed" ELSE @]
    /\ UNCHANGED <<hardware, said, matched, log>> /\ Rest

-----------------------------------------------------------------------------
(* anchor_pair_gate.py. *)

(* The latest terminal verdict of a log; without one, whether LINK UP was  *)
(* printed.                                                                *)
parse_bringup_log(lines) ==
    LET terminal == {k \in DOMAIN lines : lines[k] # "up"}
        last == lines[CHOOSE k \in terminal : \A j \in terminal : j <= k]
    IN  IF terminal = {}
          THEN [linkup |-> IF lines = << >> THEN "?" ELSE "YES", reanchored |-> "?"]
          ELSE [linkup |-> IF last = "not_converged" THEN "NO" ELSE "YES",
                reanchored |-> IF last = "reanchored" THEN "YES"
                               ELSE IF last = "linkup_no_anchor" THEN "NO" ELSE "?"]

classify(a, b, mode) ==
    IF "?" \in {a.linkup, b.linkup} THEN "UNKNOWN"
    ELSE IF "NO" \in {a.linkup, b.linkup} THEN "REJECT"
    ELSE IF mode = "off" THEN "ACCEPT"
    ELSE IF "?" \in {a.reanchored, b.reanchored} THEN "UNKNOWN"
    ELSE IF mode = "both" THEN IF a.reanchored = "YES" /\ b.reanchored = "YES" THEN "ACCEPT" ELSE "REJECT"
    ELSE IF a.reanchored = "YES" /\ b.reanchored = "NO" THEN "REJECT" ELSE "ACCEPT"

gate_from_logs == classify(parse_bringup_log(log["a"]), parse_bringup_log(log["b"]), opt.mode)

(* Both scripts have ended: the pair is accepted, tried again on the dies  *)
(* as they were left, or given up.  A pair the logs accept is tried again  *)
(* all the same if a log is unreadable or its EPOCH_STATUS line disagrees, *)
(* or if the PAIR_DELIVERY_PROBE hook fails.                               *)
Gate ==
    /\ verdict = "none" /\ \A d \in Dies : pc[d] = "over"
    /\ \/ /\ \/ gate_from_logs = "ACCEPT" /\ verdict' = "ACCEPT"
             \/ try = MaxTries /\ verdict' = "EXHAUSTED"
          /\ UNCHANGED <<try, pc, log, ended, rc, landed, matched>>
       \/ /\ try < MaxTries /\ try' = try + 1 /\ UNCHANGED verdict
          /\ pc' = [d \in Dies |-> "role"]
          /\ log' = IF Appended THEN log ELSE [d \in Dies |-> << >>]
          /\ ended' = [d \in Dies |-> "none"] /\ rc' = [d \in Dies |-> None]
          /\ landed' = FALSE /\ matched' = 0
    /\ UNCHANGED <<opt, training, cal, swreset, up, lost, anchored, crc, said, word>>

Next ==
    \/ Handshake \/ Gate
    \/ \E d \in Dies :
        \/ CalHold(d) \/ CalDone(d) \/ Anchor(d)
        \/ Role(d) \/ WaitHold(d) \/ Release(d) \/ wait_link_live(d) \/ Recheck(d)
        \/ SwResetOn(d) \/ LlEnable(d) \/ Converge(d) \/ Crc(d) \/ AnchorPoll(d)
        \/ traffic_check(d) \/ Killed(d)

Spec == Init /\ [][Next]_vars

-----------------------------------------------------------------------------
(* The gate accepts a try only when both scripts of that very try reported *)
(* LINK UP, and, unless the anchor gate is off, both reported whether they *)
(* re-anchored and the pair is not the one that loses data (die a YES,     *)
(* die b NO).                                                              *)
AcceptIsCurrent ==
    verdict = "ACCEPT" =>
        IF opt.mode = "off"
          THEN \A d \in Dies : ended[d] \in {"reanchored", "linkup_no_anchor", "killed"}
          ELSE /\ \A d \in Dies : ended[d] \in {"reanchored", "linkup_no_anchor"}
               /\ ~(ended["a"] = "reanchored" /\ ended["b"] = "linkup_no_anchor")

(* A script that ran the traffic check and ended with 0 or 4 has put a     *)
(* word of its own into the peer's memory: a value left by an earlier run  *)
(* cannot pass for it.                                                     *)
TrafficProves ==
    \A d \in Dies : d = opt.traffic /\ rc[d] \in {0, 4} => landed

-----------------------------------------------------------------------------
(* The inductive invariant, when every try writes logs of its own.  Before *)
(* a script has shown the link up its log is empty; a log that holds a     *)
(* terminal verdict holds the one its script ended this try with.          *)
Before == {"role", "hold", "release", "settle", "recheck", "swreset", "enable", "converge"}
Anchors == {"reanchored", "linkup_no_anchor"}
LogFits(d) ==
    \/ pc[d] \in Before /\ log[d] = << >> /\ ended[d] = "none"
    \/ pc[d] \in {"crc", "anchor"} /\ log[d] = <<"up">> /\ ended[d] = "none"
    \/ pc[d] \in {"traffic1", "traffic2", "over"} /\ ended[d] \in Anchors /\ log[d] = <<"up", ended[d]>>
    \/ pc[d] = "over" /\ ended[d] = "no_hold" /\ log[d] = << >>
    \/ pc[d] = "over" /\ ended[d] = "not_converged" /\ log[d] = <<"not_converged">>
    \/ pc[d] = "over" /\ ended[d] = "killed" /\ log[d] \in {<< >>, <<"up">>}
LogIsCurrent == \A d \in Dies : LogFits(d)

(* A script without an exit code is running.  The traffic check belongs to *)
(* one die; what it has matched without a word of its own having landed is *)
(* one old w1 at most.                                                     *)
CheckIsCurrent ==
    /\ \A d \in Dies :
        /\ pc[d] # "over" => rc[d] = None
        /\ pc[d] \in {"traffic1", "traffic2"} => d = opt.traffic
        /\ d = opt.traffic /\ pc[d] \notin {"traffic2", "over"} => matched = 0
        /\ pc[d] = "traffic2" => matched \in {0, 1} /\ (matched = 1 /\ ~landed => word = "w1")

Places == Before \cup {"crc", "anchor", "traffic1", "traffic2", "over"}
Ends == Anchors \cup {"none", "no_hold", "not_converged", "killed"}
Lines == Anchors \cup {"up", "not_converged"}
TypeOK ==
    /\ pc \in [Dies -> Places] /\ log \in [Dies -> Seq(Lines)]
    /\ ended \in [Dies -> Ends] /\ rc \in [Dies -> Nat]
    /\ verdict \in {"none", "ACCEPT", "EXHAUSTED"} /\ landed \in BOOLEAN

IInv ==
    /\ TypeOK /\ LogIsCurrent /\ CheckIsCurrent
    /\ verdict # "none" => \A d \in Dies : pc[d] = "over"
    /\ AcceptIsCurrent /\ TrafficProves

=============================================================================

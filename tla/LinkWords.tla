----------------------------- MODULE LinkWords -----------------------------
(***************************************************************************)
(* How the host tools read a die's status words and what they conclude.    *)
(*                                                                         *)
(* A die is the set of bits its status registers show: SWI_LANE_STATUS,    *)
(* STATUS, OBS_MASK_HS, SWI_TRAINING_MODE, the AXI-node plane (Region F)   *)
(* and the containment witness (0x21F8), the last two only when the        *)
(* bitstream has them.  Four tools decode these words, each in its own     *)
(* way: regmap (the GUI's gate and its monitor), health_snapshot,          *)
(* xfer_corners_lib and stress_lib.  A tool reads one register at a time   *)
(* while the die goes on.                                                  *)
(***************************************************************************)
EXTENDS Integers, Sequences, FiniteSets

CONSTANTS
    Planes,      \* the planes a bitstream may have: subsets of {"regf", "witness"}
    MaxEvents    \* how many things happen to a die

(* The bits that are set by an event, and those that stay set until reset. *)
Latched == {"overrun", "tgt_ws", "resp_err", "wr_hol_stuck", "wr_err", "xhb_dead_perm"}
Live == {"cal", "lock8", "app_valid", "link_valid", "fe_full", "tgt_live", "xhb_dead",
         "gate_open", "mask_match", "beacon"}
Pressure == {"stall_stuck"}

VARIABLES
    bits,      \* the bits the die's status registers show
    fcsm,      \* its flow-control state machine
    planes,    \* the observation planes of its bitstream
    events,    \* how many events have happened
    tool,      \* the snapshot under way: the registers read so far
    verdict    \* the last finished health snapshot

vars == <<bits, fcsm, planes, events, tool, verdict>>

FCSM_LINK_IDLE == 4
FCSM_LINK_DATA == 5
FCSM_HEALTHY == {FCSM_LINK_IDLE, FCSM_LINK_DATA}
States == {0, 1} \cup FCSM_HEALTHY    \* reset, stuck in the credit exchange, up
bit(b) == IF b THEN 1 ELSE 0

-----------------------------------------------------------------------------
(* regmap.py: the GUI's decode *)

decode_lane_status(b, s) ==
    [lock_count |-> IF "lock8" \in b THEN 8 ELSE 0, cal_done |-> bit("cal" \in b), fcsm |-> s % 8,
     a2l_replay_app_valid |-> bit("app_valid" \in b),
     a2l_fc_replay_link_valid |-> bit("link_valid" \in b), fe_rx_is_full |-> bit("fe_full" \in b)]

classify_jam(w) ==
    IF w.fcsm = FCSM_LINK_DATA /\ w.a2l_fc_replay_link_valid = 1 /\ w.fe_rx_is_full = 0
      THEN "CLASSIC"
    ELSE IF w.fcsm = FCSM_LINK_IDLE /\ w.a2l_replay_app_valid = 1 /\ w.fe_rx_is_full = 1
      THEN "HELD-REPLAY"
    ELSE "none"

verify_link_up(m, s) ==
    \/ m.lock_count = 8 /\ s.lock_count = 8 /\ m.cal_done = 1 /\ s.cal_done = 1
    \/ m.cal_done = 1 /\ s.cal_done = 1 /\ m.fcsm \in FCSM_HEALTHY /\ s.fcsm \in FCSM_HEALTHY

(* One poll of the monitor: the fields of the registers the agent could    *)
(* read; a register that is absent omits its fields.                       *)
decode_monitor(b, s, got) ==
    [lane |-> IF "108" \in got THEN <<decode_lane_status(b, s)>> ELSE <<>>,
     overrun |-> "010" \in got /\ "overrun" \in b,
     forced |-> "194" \in got /\ "gate_open" \in b /\ "mask_match" \notin b,
     beacon_off |-> "100" \in got /\ "beacon" \notin b]

health(dec) ==
    IF dec.lane = <<>>
    THEN [link_up |-> FALSE, jam |-> "none", reasons |-> {"no SWI_LANE_STATUS"}]
    ELSE LET w == dec.lane[1]
             jam == classify_jam(w)
             criterion == IF w.cal_done = 1 /\ w.lock_count = 8 THEN "A"
                          ELSE IF w.cal_done = 1 /\ w.fcsm \in FCSM_HEALTHY THEN "B" ELSE "none"
         IN  [link_up |-> jam = "none" /\ criterion # "none", jam |-> jam,
              reasons |-> {r \in {"jam", "cal_done", "fcsm", "overrun", "forced", "beacon"} :
                             CASE r = "jam" -> jam # "none"
                               [] r = "cal_done" -> w.cal_done # 1
                               [] r = "fcsm" -> w.fcsm \notin FCSM_HEALTHY
                               [] r = "overrun" -> dec.overrun
                               [] r = "forced" -> dec.forced
                               [] r = "beacon" -> dec.beacon_off}]

-----------------------------------------------------------------------------
(* stress_lib.py: the same word with a four-bit fcsm field, whose state 0  *)
(* is taken for LINK_IDLE; stress_modes.py raises an alarm on any other.   *)

fcsm_state(b, s) == (s % 8) + 8 * bit("app_valid" \in b)

parse_lane_status(b, s) ==
    [locked |-> IF "lock8" \in b THEN 8 ELSE 0, cal_done |-> "cal" \in b,
     fcsm_state |-> fcsm_state(b, s), link_idle |-> fcsm_state(b, s) = 0]

packet_fcsm_alarm(ls) == ~ls.link_idle \/ ls.locked < 8

-----------------------------------------------------------------------------
(* xfer_corners_lib.py: the corner tests' gate between bursts *)

snap_health(b, s, pl) ==
    [link_up |-> s = FCSM_LINK_IDLE /\ "cal" \in b, sticky |-> "overrun" \in b,
     fe_rx_full |-> "fe_full" \in b, regf_present |-> "regf" \in pl,
     wsticky |-> "tgt_ws" \in b, live |-> "tgt_live" \in b, resperr |-> "resp_err" \in b,
     data_healthy |-> {"tgt_ws", "resp_err"} \cap b = {}]

health_ok(h) ==
    /\ h.link_up /\ ~h.sticky /\ ~h.fe_rx_full
    /\ h.regf_present => h.data_healthy /\ ~h.wsticky /\ ~h.resperr

classify_wedge(h) ==
    IF h.fe_rx_full THEN "CLASSIC"
    ELSE IF h.regf_present /\ h.wsticky THEN "AXI_WEDGE"
    ELSE IF (h.regf_present /\ (h.live \/ h.resperr)) \/ h.sticky THEN "HELD_REPLAY"
    ELSE "NONE"

(* The rung of the recovery ladder the operator is sent to. *)
recovery_ladder(cls) ==
    CASE cls = "NONE" -> 0 [] cls = "HELD_REPLAY" -> 1 [] cls = "AXI_WEDGE" -> 2
      [] cls = "CLASSIC" -> 3

gate_or_ladder(b, s, pl) ==
    LET h == snap_health(b, s, pl)
        cls == classify_wedge(h)
    IN  [ok |-> cls = "NONE" /\ health_ok(h), cls |-> cls, rung |-> recovery_ladder(cls)]

-----------------------------------------------------------------------------
(* health_snapshot.py: one read-only pass, graded by its exit code *)

WITNESS_FAULTS == {"xhb_dead_perm", "xhb_dead", "wr_hol_stuck", "stall_stuck", "wr_err"}

(* The words as main() read them, one after the other. *)
decode(w) ==
    [fcsm |-> w.swi.fcsm, cal |-> "cal" \in w.swi.bits, fe_full |-> "fe_full" \in w.swi.bits,
     sticky |-> "overrun" \in w.st.bits, present |-> "regf" \in w.rf.planes,
     healthy_bit |-> {"tgt_ws", "resp_err"} \cap w.rf.bits = {},
     tgt_ws |-> "tgt_ws" \in w.rf.bits, wt_present |-> "witness" \in w.wt.planes,
     wt |-> w.wt.bits \cap WITNESS_FAULTS]

faults(d) ==
    \/ d.fcsm # FCSM_LINK_IDLE \/ ~d.cal \/ d.sticky \/ d.fe_full
    \/ d.wt_present /\ d.wt # {}
    \/ d.present /\ (~d.healthy_bit \/ d.tgt_ws)

evaluate(d, allow) ==
    IF faults(d) THEN "FAULT"
    ELSE IF ~d.wt_present /\ "witness" \notin allow THEN "COULD-NOT-EVALUATE"
    ELSE IF ~d.present /\ "regf" \notin allow THEN "COULD-NOT-EVALUATE"
    ELSE IF ~d.present THEN "OK-REGIONF-UNCHECKED"
    ELSE IF ~d.wt_present THEN "OK-WITNESS-UNCHECKED"
    ELSE "HEALTHY"

exit_code(label) ==
    CASE label = "FAULT" -> 1 [] label = "COULD-NOT-EVALUATE" -> 2 [] OTHER -> 0

Order == <<"swi", "st", "rf", "wt">>

(* What the register shows of the die. *)
shows(reg) ==
    CASE reg = "swi" -> {"cal", "lock8", "app_valid", "link_valid", "fe_full"}
      [] reg = "st"  -> {"overrun"}
      [] reg = "rf"  -> IF "regf" \in planes THEN {"tgt_ws", "resp_err", "tgt_live"} ELSE {}
      [] reg = "wt"  -> IF "witness" \in planes THEN WITNESS_FAULTS ELSE {}
word(reg) == [bits |-> bits \cap shows(reg), fcsm |-> IF reg = "swi" THEN fcsm ELSE 0,
              planes |-> planes]
resting == [at |-> 0, words |-> <<>>, began |-> {}]

Snapshot ==
    /\ tool.at = 0 /\ verdict.label = "none"
    /\ tool' = [at |-> 1, words |-> <<word(Order[1])>>, began |-> bits \cap Latched]
    /\ UNCHANGED <<bits, fcsm, planes, events, verdict>>

read_next == tool.at \in 1..(Len(Order) - 1)

ReadWord ==
    /\ read_next
    /\ tool' = [tool EXCEPT !.at = @ + 1, !.words = Append(@, word(Order[tool.at + 1]))]
    /\ UNCHANGED <<bits, fcsm, planes, events, verdict>>

Grade ==
    /\ tool.at = Len(Order)
    /\ \E allow \in SUBSET {"regf", "witness"} :
        LET w == [swi |-> tool.words[1], st |-> tool.words[2], rf |-> tool.words[3],
                  wt |-> tool.words[4]]
            label == evaluate(decode(w), allow)
        IN  verdict' = [label |-> label, rc |-> exit_code(label), began |-> tool.began,
                        seen |-> UNION {w[r].bits : r \in DOMAIN w}, fcsm |-> w.swi.fcsm]
    /\ tool' = resting
    /\ UNCHANGED <<bits, fcsm, planes, events>>

-----------------------------------------------------------------------------
(* The die *)

Init ==
    /\ planes \in Planes
    /\ bits = {} /\ fcsm = 1 /\ events = 0
    /\ tool = resting
    /\ verdict = [label |-> "none", rc |-> 0, began |-> {}, seen |-> {}, fcsm |-> 1]

(* A live bit comes or goes, a fault latches, or healthy traffic holds the *)
(* bridge for long.                                                        *)
BitMoves ==
    /\ events < MaxEvents /\ events' = events + 1 /\ verdict.label = "none"
    /\ \/ \E b \in Live : bits' = IF b \in bits THEN bits \ {b} ELSE bits \cup {b}
       \/ \E b \in Latched \cup Pressure : b \notin bits /\ bits' = bits \cup {b}
    /\ UNCHANGED <<fcsm, planes, tool, verdict>>

FsmMoves ==
    /\ events < MaxEvents /\ events' = events + 1 /\ verdict.label = "none"
    /\ fcsm' \in States \ {fcsm}
    /\ UNCHANGED <<bits, planes, tool, verdict>>

(* Training completes: calibrated, all lanes locked, the link idle. *)
Train ==
    /\ events < MaxEvents /\ verdict.label = "none"
    /\ bits' = bits \cup {"cal", "lock8", "beacon"} /\ fcsm' = FCSM_LINK_IDLE
    /\ UNCHANGED <<planes, events, tool, verdict>>

Next == Snapshot \/ ReadWord \/ Grade \/ BitMoves \/ FsmMoves \/ Train
Spec == Init /\ [][Next]_vars

-----------------------------------------------------------------------------
(* A die for which health_snapshot prints HEALTHY and exits 0 had no latched *)
(* fault when its first word was read, and every plane of the verdict was   *)
(* there to be read, although the words are read at four different moments  *)
(* and tolerating a missing plane is an option.                             *)
HealthyIsQuiet ==
    verdict.label = "HEALTHY" =>
        /\ planes = {"regf", "witness"}
        /\ verdict.began \cap Latched = {}
        /\ verdict.fcsm = FCSM_LINK_IDLE

words_now == [r \in {"swi", "st", "rf", "wt"} |-> word(r)]
lane_now == decode_lane_status(bits, fcsm)

(* Three tools agree on one reading of a die: what health_snapshot calls   *)
(* healthy is up for the GUI's monitor; what the GUI's gate admits without *)
(* a jam is up for its monitor; a jam the GUI says only a reflash clears   *)
(* is sent to the power-on-reset rung by the corner tests, and one it says *)
(* can be cleared is not, although the two give the same names to opposite *)
(* signatures; and a link the corner tests go on with is up for the GUI.   *)
(* The fourth does not: the stress toolkit's wider state field differs     *)
(* from the GUI's only while a replay holds, but it takes state 0 and not  *)
(* 4 for the idle link, so it raises its alarm on every link that any of   *)
(* the others calls up by its state.                                       *)
ToolsAgree ==
    LET full == decode_monitor(bits, fcsm, {"010", "100", "108", "194"})
        gate == gate_or_ladder(bits, fcsm, planes)
        jam == classify_jam(lane_now)
    IN  /\ evaluate(decode(words_now), {}) = "HEALTHY" =>
               health(full).link_up /\ (gate.ok \/ "tgt_live" \in bits)
        /\ verify_link_up(lane_now, lane_now) /\ jam = "none" => health(full).link_up
        /\ jam = "HELD-REPLAY" => gate.rung = 3
        /\ jam = "CLASSIC" => gate.rung < 3
        /\ gate.ok => health(full).link_up
        /\ parse_lane_status(bits, fcsm).fcsm_state # lane_now.fcsm => "app_valid" \in bits
        /\ lane_now.fcsm \in FCSM_HEALTHY => packet_fcsm_alarm(parse_lane_status(bits, fcsm))

-----------------------------------------------------------------------------
(* Why a healthy verdict is true. *)

Reading == [bits : SUBSET (Latched \cup Live \cup Pressure), fcsm : States,
            planes : Planes]

TypeOK ==
    /\ bits \subseteq Latched \cup Live \cup Pressure
    /\ fcsm \in States /\ planes \in Planes
    /\ DOMAIN tool = DOMAIN resting
    /\ tool.at \in 0 .. Len(Order) /\ tool.words \in Seq(Reading) /\ Len(tool.words) = tool.at

(* A fault that was latched when the snapshot began is still there, and is *)
(* in each word that has been read and shows it.                           *)
FaultsAreSeen ==
    tool.at > 0 =>
        /\ tool.began \subseteq bits \cap Latched
        /\ \A k \in 1 .. tool.at :
              tool.words[k].planes = planes /\ tool.began \cap shows(Order[k]) \subseteq tool.words[k].bits

IInv == TypeOK /\ FaultsAreSeen /\ HealthyIsQuiet
=============================================================================

------------------------------ MODULE CovGates ------------------------------
(***************************************************************************)
(* The coverage gates that drive a pair of boards from the dev host        *)
(* (scripts/coverage/cov_*.py and kr260_recover_gate.py).                  *)
(*                                                                         *)
(* A gate is a straight program of board accesses over ssh.  What differs  *)
(* from access to access is what the gate does with a bad return code and  *)
(* with a time-out, which stands for a hung PS bus (a wedge).  Each gate   *)
(* is therefore a sequence of stages, and the steps below run one stage.   *)
(***************************************************************************)
EXTENDS Naturals, Sequences

CONSTANTS
    Gates,     \* the gates to run
    Corners,   \* bound: corners, directions or chunks of a gate
    Trials     \* bound: trials of the W byte-0 soak

None == 99
Dies == {"a", "b"}
other(d) == IF d = "a" THEN "b" ELSE "a"

VARIABLES
    gate,      \* which gate runs
    autopor,   \* COV_AUTO_POR = 1
    todo,      \* the stages still to run
    failed,    \* parts of the gate with a failed verdict
    noted,     \* what the injected write of the liveness gate gave
    exit,      \* exit code, or None
    link,      \* FCSM = 4 on both dies
    hung,      \* dies whose PS bus hangs
    victims,   \* dies whose PS bus this run has hung
    staged,    \* dies whose power-on reset was staged after they were found hung
    sram,      \* what each die's SRAM window holds: the tag of a pattern, 0 for anything else
    delivered  \* parts whose own write has landed exactly

vars == <<gate, autopor, todo, failed, noted, exit, link, hung, victims, staged, sram, delivered>>
verdicts == <<failed, noted, exit>>
boards == <<link, hung, victims, sram, delivered>>

(* One stage: what it does, on which die, in which part of the gate, the   *)
(* pattern it writes or expects, and what a bad return code and a time-out *)
(* lead to.                                                                *)
Stage(op, die, part, tag, rc, wedge) ==
    [op |-> op, die |-> die, part |-> part, tag |-> tag, rc |-> rc, wedge |-> wedge]

(* The stages of a loop: those of its first pass, of its second, ...       *)
Each(passes) ==
    LET upto[k \in 0..Len(passes)] == IF k = 0 THEN <<>> ELSE upto[k - 1] \o passes[k]
    IN  upto[Len(passes)]

require_pair_fcsm4(part) == Stage("pair", "a", part, 0, "exit2", "exit2")

-----------------------------------------------------------------------------
(* cov_errinject_sweep.py: the return codes of arming, injecting and       *)
(* provoking are not looked at; a wedge ends the matrix.                   *)
run_node(c, inj, op) ==
    << Stage("peer", "a", c, 0, "ignored", "stop"), Stage("poke", inj, c, 0, "ignored", "stop"),
       Stage("peer", "a", c, IF op = "w" THEN c ELSE 0, "ignored", "stop"),
       Stage("poke", inj, c, 0, "ignored", "stop"),
       Stage("alive", "a", c, 0, "stop", "stop"),
       IF op = "w" THEN Stage("local", "b", c, c, "fail", "stop")
       ELSE Stage("peer", "a", c, 0, "fail", "stop") >>

(* One trial of the soak: it measures and fails nothing; after a wedge it  *)
(* goes on only when the pair was power-cycled and brought up again.       *)
w_byte0_soak(c) ==
    << Stage("trial", "a", c, 0, "end", "end"),
       Stage("peer", "a", c, 0, "ignored", "soak"), Stage("poke", "a", c, 0, "ignored", "soak"),
       Stage("peer", "a", c, c, "ignored", "soak"), Stage("poke", "a", c, 0, "ignored", "soak"),
       Stage("alive", "a", c, 0, "soak", "soak"), Stage("local", "b", c, c, "ignored", "ignored") >>

errinject_sweep ==
    << require_pair_fcsm4(0) >>
    \o Each([c \in 1..Corners |-> run_node(c, IF c = 1 THEN "a" ELSE "b", IF c = 1 THEN "w" ELSE "r")])
    \o Each([t \in 1..Trials |-> w_byte0_soak(Corners + t)])

(* cov_injector_liveness.py. *)
write_verify(part, tag, rcw, rcv, wedge) ==
    << Stage("peer", "a", part, tag, rcw, wedge), Stage("local", "b", part, tag, rcv, wedge) >>

injector_liveness ==
    << require_pair_fcsm4(0), Stage("poke", "a", 1, 0, "ignored", "crash") >>
    \o write_verify(1, 1, "exit2", "exit2", "exit1")
    \o << Stage("poke", "a", 2, 0, "ignored", "crash") >>
    \o write_verify(2, 2, "note_none", "note_bad", "note_wedge")
    \o << Stage("poke", "a", 3, 0, "ignored", "crash"), Stage("noted", "a", 3, 0, "ignored", "ignored") >>
    \o write_verify(4, 3, "leave", "ignored", "leave")

(* cov_axinode_wedge_gate.py: one direction; the next one is tried even    *)
(* after a wedge, behind its own link gate.                                *)
run_direction(part, s) ==
    << require_pair_fcsm4(part), Stage("peer", s, part, 1, "fail", "skip"),
       Stage("local", other(s), part, 1, "fail", "skip"), Stage("settle", s, part, 0, "ignored", "ignored") >>

(* cov_decerr_confine.py: one excluded byte; a wedge ends the sweep. *)
run_one(part) ==
    << require_pair_fcsm4(part), Stage("peer", "a", part, 1, "fail", "stop"),
       Stage("local", "b", part, 1, "fail", "stop"), Stage("settle", "a", part, 0, "ignored", "ignored") >>

(* cov_mbox_irq_source.py: the return code of arm is not looked at. *)
mbox_run ==
    << require_pair_fcsm4(0), Stage("local", "b", 1, 0, "ignored", "exit3"),
       Stage("peer", "a", 1, 1, "exit2", "exit3"),
       Stage("local", "b", 1, 1, "fail", "exit3"), Stage("poke", "b", 1, 0, "fail", "exit3") >>

(* cov_perf_thresholds.py with a peer-write workload, then the perf plane; *)
(* cov_regplane_sweep.py.                                                  *)
perf_thresholds ==
    << require_pair_fcsm4(0), Stage("peer", "a", 1, 0, "ignored", "exit1"),
       Stage("poke", "a", 1, 0, "exit1", "exit1"), Stage("poke", "a", 1, 0, "fail", "exit1") >>
regplane_sweep == << require_pair_fcsm4(0), Stage("poke", "a", 1, 0, "fail", "exit1") >>

(* cov_obs_health_gate.py, cov_auto_anchor_verify.py: reads of either die. *)
obs_gate_one(part, d) == << Stage("poke", d, part, 0, "fail", "skip") >>
read_die(part, d) == << Stage("poke", d, part, 0, "fail", "fail") >>

(* kr260_recover_gate.py: a chunk of the soak that is to wedge the die,    *)
(* with the read-only looks between chunks.                                *)
induce_wedge(part) ==
    << Stage("peer", "a", part, 1, "induced", "induced"), Stage("poke", "a", part, 0, "induced", "induced") >>

recover_gate ==
    << require_pair_fcsm4(0) >>
    \o Each([c \in 1..Corners |-> induce_wedge(c)])
    \o << Stage("por", "a", Corners + 1, 0, "ignored", "ignored"), Stage("bringup", "a", Corners + 1, 0, "exit1", "exit1"),
          Stage("fcsm", "a", Corners + 1, 0, "fail", "fail"),
          Stage("peer", "a", Corners + 2, 2, "leave_failed", "skip"), Stage("local", "b", Corners + 2, 2, "fail", "skip"),
          Stage("fcsm", "a", Corners + 3, 0, "fail", "fail") >>

Program(name) ==
    CASE name = "sweep" -> errinject_sweep
      [] name = "live" -> injector_liveness
      [] name = "axinode" -> run_direction(1, "a") \o run_direction(2, "b")
      [] name = "decerr" -> Each([c \in 1..Corners |-> run_one(c)])
      [] name = "mbox" -> mbox_run
      [] name = "perf" -> perf_thresholds
      [] name = "regplane" -> regplane_sweep
      [] name = "obs" -> obs_gate_one(1, "a") \o obs_gate_one(2, "b")
      [] name = "anchor" -> read_die(1, "a") \o read_die(2, "b")
      [] name = "recover" -> recover_gate

(* The recovery gate refuses to run without automatic power-on reset. *)
Init ==
    /\ gate \in Gates /\ autopor \in (IF gate = "recover" THEN {TRUE} ELSE BOOLEAN)
    /\ todo = Program(gate)
    /\ failed = {} /\ noted = "none" /\ exit = None
    /\ link \in BOOLEAN /\ hung \in {{}, {"a"}, {"b"}}
    /\ victims = {} /\ staged = {}
    /\ sram \in [Dies -> {0, 1, 2}]
    /\ delivered = {}

-----------------------------------------------------------------------------
cur == Head(todo)
Rest == Tail(todo)
SkipPart == SelectSeq(Rest, LAMBDA s : s.part # cur.part)
Goon == todo' = Rest /\ UNCHANGED verdicts
Exit(code) == exit' = code /\ todo' = << >> /\ UNCHANGED <<failed, noted>>

(* por_stage: recovery is printed; with COV_AUTO_POR it is carried out,    *)
(* which takes the link down with the hang, unless it fails.               *)
por_stage(d) ==
    /\ staged' = staged \cup {d}
    /\ \/ autopor /\ hung' = hung \ {d} /\ link' = FALSE
       \/ UNCHANGED <<hung, link>>
    /\ UNCHANGED <<victims, sram, delivered>>

(* A bad return code. *)
BadCode ==
    /\ UNCHANGED <<boards, staged>>
    /\ \/ cur.rc = "ignored" /\ Goon
       \/ cur.rc = "fail" /\ failed' = failed \cup {cur.part} /\ todo' = Rest /\ UNCHANGED <<noted, exit>>
       \/ cur.rc = "leave_failed" /\ failed' = failed \cup {cur.part} /\ todo' = SkipPart /\ UNCHANGED <<noted, exit>>
       \/ cur.rc \in {"induced", "leave"}
          /\ todo' = (IF cur.rc = "leave" THEN SkipPart ELSE SelectSeq(Rest, LAMBDA s : s.part > Corners))
          /\ UNCHANGED verdicts
       \/ cur.rc = "exit1" /\ Exit(1)
       \/ cur.rc = "exit2" /\ Exit(2)
       \/ cur.rc = "end" /\ todo' = << >> /\ UNCHANGED verdicts
       \/ cur.rc \in {"note_none", "note_bad"}
          /\ noted' = (IF cur.rc = "note_bad" THEN "bad" ELSE "error") /\ todo' = SkipPart /\ UNCHANGED <<failed, exit>>

(* A time-out: the die's PS bus hangs, or the network was slow.  A time-   *)
(* out nobody catches ends the script with a traceback.                    *)
Wedged(d) ==
    \/ cur.wedge \in {"stop", "skip"} /\ por_stage(d)
       /\ failed' = failed \cup {cur.part} /\ todo' = (IF cur.wedge = "stop" THEN << >> ELSE SkipPart)
       /\ UNCHANGED <<noted, exit>>
    \/ cur.wedge \in {"exit1", "exit3"} /\ Exit(IF cur.wedge = "exit1" THEN 1 ELSE 3) /\ por_stage(d)
    \/ cur.wedge = "crash" /\ Exit(1) /\ UNCHANGED <<boards, staged>>
    \/ /\ cur.wedge = "soak" /\ por_stage(d) /\ UNCHANGED verdicts
       /\ todo' = IF autopor THEN << Stage("bringup", "a", cur.part, 0, "end", "end") >> \o SkipPart ELSE << >>
    \/ /\ cur.wedge \in {"note_wedge", "induced", "leave", "ignored", "fail"}
       /\ UNCHANGED <<boards, staged, exit>>
       /\ noted' = IF cur.wedge = "note_wedge" THEN "wedge" ELSE noted
       /\ failed' = IF cur.wedge = "fail" THEN failed \cup {cur.part} ELSE failed
       /\ todo' = IF cur.wedge = "induced" THEN SelectSeq(Rest, LAMBDA s : s.part > Corners)
                  ELSE IF cur.wedge \in {"ignored", "fail"} THEN Rest ELSE SkipPart

Turn(ops) == exit = None /\ todo # << >> /\ cur.op \in ops

(* The link status of both dies; a hung die does not answer. *)
fcsm4 ==
    /\ Turn({"pair", "trial", "fcsm"})
    /\ \/ link /\ hung = {} /\ Goon /\ UNCHANGED <<boards, staged>>
       \/ BadCode

(* die_a's status after the corrupted packet: without an answer that says  *)
(* UP the die counts as wedged.                                            *)
die_a_alive ==
    /\ Turn({"alive"})
    /\ \/ link /\ "a" \notin hung /\ Goon /\ UNCHANGED <<boards, staged>>
       \/ Wedged("a")

(* A register access or a local script on one board. *)
board_python ==
    /\ Turn({"poke"})
    /\ IF cur.die \in hung THEN Wedged(cur.die)
       ELSE BadCode \/ Wedged(cur.die) \/ (Goon /\ UNCHANGED <<boards, staged>>)

(* A local comparison of the SRAM with the expected pattern. *)
verify ==
    /\ Turn({"local"})
    /\ IF cur.die \in hung THEN Wedged(cur.die)
       ELSE BadCode \/ Wedged(cur.die) \/ (cur.tag \in {0, sram[cur.die]} /\ Goon /\ UNCHANGED <<boards, staged>>)

(* An access through the peer window.  On a link that is down the board's  *)
(* script refuses; otherwise the pattern lands, or lands damaged, or the   *)
(* bus hangs.                                                              *)
peer_access ==
    /\ Turn({"peer"})
    /\ IF cur.die \in hung THEN Wedged(cur.die)
       ELSE \/ BadCode \/ Wedged(cur.die)
            \/ /\ link
               /\ \E exact \in BOOLEAN :
                    /\ sram' = IF cur.tag = 0 THEN sram
                               ELSE [sram EXCEPT ![other(cur.die)] = IF exact THEN cur.tag ELSE 0]
                    /\ delivered' = IF cur.tag # 0 /\ exact THEN delivered \cup {cur.part} ELSE delivered
               /\ Goon /\ UNCHANGED <<link, hung, victims, staged>>
hang ==
    /\ Turn({"peer"}) /\ link /\ cur.die \notin hung
    /\ hung' = hung \cup {cur.die} /\ victims' = victims \cup {cur.die} /\ staged' = staged \ {cur.die}
    /\ UNCHANGED <<gate, autopor, todo, failed, noted, exit, link, sram, delivered>>

(* The end of a direction or of an excluded byte: without a pass, and      *)
(* without a wedge, recovery is staged all the same.                       *)
settle ==
    /\ Turn({"settle"}) /\ Goon
    /\ IF cur.part \in failed THEN por_stage(cur.die) ELSE UNCHANGED <<boards, staged>>

(* The liveness gate looks at what its injected write gave. *)
liveness_wedge ==
    /\ Turn({"noted"})
    /\ IF noted = "wedge" THEN Exit(1) /\ por_stage("a") ELSE Goon /\ UNCHANGED <<boards, staged>>

(* The recovery gate's own reset; a die that does not come back ends it.    *)
por_recover ==
    /\ Turn({"por"})
    /\ staged' = staged \cup {"a"} /\ UNCHANGED <<victims, sram, delivered>>
    /\ \/ hung' = hung \ {"a"} /\ link' = FALSE /\ Goon
       \/ Exit(1) /\ UNCHANGED <<hung, link>>

bringup_pair ==
    /\ Turn({"bringup"})
    /\ \/ hung = {} /\ link' = TRUE /\ Goon /\ UNCHANGED <<hung, victims, staged, sram, delivered>>
       \/ BadCode

(* The verdict. *)
Finish ==
    /\ exit = None /\ todo = << >>
    /\ exit' = IF gate = "live" THEN (IF noted = "bad" THEN 0 ELSE IF noted = "none" THEN 1 ELSE 2)
               ELSE IF failed = {} THEN 0 ELSE 1
    /\ UNCHANGED <<gate, autopor, todo, failed, noted, boards, staged>>

Step == fcsm4 \/ die_a_alive \/ board_python \/ verify \/ peer_access \/ settle \/ liveness_wedge
        \/ por_recover \/ bringup_pair
Next == hang \/ Finish \/ (Step /\ UNCHANGED <<gate, autopor>>)

Spec == Init /\ [][Next]_vars

-----------------------------------------------------------------------------
(* A gate that hung a board's bus does not end before it has told the      *)
(* operator how to recover that board (por_stage), or power-cycled it.     *)
Staged == exit # None => victims \cap hung \subseteq staged
WedgeIsStaged == gate # "live" => Staged

(* A gate that ends in a pass with a data verdict has that verdict on what *)
(* this run itself wrote: not on a pattern an earlier run of the same gate *)
(* left in the SRAM.                                                       *)
GreenIsDelivered ==
    exit = 0 =>
        /\ gate = "axinode" => {1, 2} \subseteq delivered
        /\ gate = "decerr" => 1..Corners \subseteq delivered
        /\ gate = "mbox" => 1 \in delivered
        /\ gate = "recover" => Corners + 2 \in delivered
=============================================================================

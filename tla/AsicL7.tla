------------------------------- MODULE AsicL7 -------------------------------
(***************************************************************************)
(* fpga/hw_regression: the emit-starvation recovery probe.  The host driver *)
(* asic_l7_starvation_hwtest stages an agent on the board, proves its      *)
(* observability words, induces a wedge with cross-die traffic and decides *)
(* whether the AXI path came back.  The agent (asic_l7_board_agent) runs   *)
(* one command per ssh call; every touch of the peer window runs in a      *)
(* worker under a wall clock.  Underneath, the AXI nodes stall, wedge and  *)
(* resume on their own, the link drops, the board stops answering.         *)
(***************************************************************************)
EXTENDS Naturals

CONSTANTS
    Retries,    \* ssh attempts after a transport failure
    MaxBursts,  \* traffic bursts before the window closes
    MaxProbes   \* probes of the recovery watch

VARIABLES
    node,       \* by die: the AXI nodes, and the sticky witnesses read at 0x21E0, 0x21EC
    plat,       \* the platform: link up, markers there, reader dead, board hung
    crcoff,     \* FC_SM_CONTROL[16] of the armed node: now, before the run
    ag,         \* the agent: the command it runs, its phase
    ans,        \* the answer: "none" is no marker line
    arm,        \* --arm-crc was given
    pc, tries, bursts, probes, verdict,    \* the driver
    seen        \* history: a node stalled or starved since the baseline; words carried since

vars == <<node, plat, crcoff, ag, ans, arm, pc, tries, bursts, probes, verdict, seen>>
hw == <<node, plat, crcoff, arm>>
drv == <<arm, tries, bursts, probes, verdict, seen>>

Dies == {"a", "b"}
Idle == [cmd |-> "idle"]
NoAns == [kind |-> "wait"]
NoResult == [kind |-> "none"]

Init ==
    /\ \E w \in BOOLEAN : node = [d \in Dies |-> [stall |-> FALSE, wedge |-> w /\ d = "b", err |-> FALSE,
                                                  sop |-> FALSE, grant |-> FALSE]]
    /\ plat \in [up : BOOLEAN, marked : BOOLEAN, dead : BOOLEAN, hung : {FALSE}]
    /\ \E off \in BOOLEAN : crcoff = [now |-> off, before |-> off]
    /\ ag = Idle /\ ans = NoAns /\ pc = "stage" /\ tries = 0 /\ bursts = 0 /\ probes = 0
    /\ arm \in BOOLEAN /\ verdict = "none"
    /\ seen = [cond |-> FALSE, carried |-> FALSE]

-----------------------------------------------------------------------------
(* The hardware. *)
InTraffic == ag.cmd = "traffic" /\ ag.phase = "worker"

(* A node presents a packet and is not granted.                            *)
Stall(d) ==
    /\ InTraffic /\ ~node[d].stall
    /\ node' = [node EXCEPT ![d].stall = TRUE, ![d].sop = TRUE]
    /\ seen' = [seen EXCEPT !.cond = TRUE]
    /\ UNCHANGED <<plat, crcoff, ag, ans, arm, pc, tries, bursts, probes, verdict>>

(* 2^WEDGE_LOG2 cycles later the witness latches, until reset.             *)
LatchWedge(d) ==
    /\ node[d].stall /\ ~node[d].wedge
    /\ node' = [node EXCEPT ![d].wedge = TRUE]
    /\ UNCHANGED <<plat, crcoff, ag, ans, pc, drv>>

(* The node is granted: by itself, or forced out by the watchdog; the      *)
(* response may be an error.                                               *)
Grant(d, e) ==
    /\ node[d].stall
    /\ node' = [node EXCEPT ![d].stall = FALSE, ![d].grant = TRUE, ![d].err = @ \/ e]
    /\ UNCHANGED <<plat, crcoff, ag, ans, pc, drv>>

Degrade ==
    /\ pc # "done"
    /\ plat' \in {[plat EXCEPT !.up = FALSE], [plat EXCEPT !.marked = FALSE]}
    /\ plat' # plat
    /\ UNCHANGED <<node, crcoff, ag, ans, pc, drv>>

(* A peer-window access on a dead link, or a worse wedge, takes the PS.    *)
Hang ==
    /\ InTraffic /\ ~plat.hung /\ plat' = [plat EXCEPT !.hung = TRUE]
    /\ UNCHANGED <<node, crcoff, ag, ans, pc, drv>>

-----------------------------------------------------------------------------
(* asic_l7_board_agent *)

decode_axi_nodes(d) ==
    [present |-> plat.marked,
     wedge_any |-> node[d].wedge,
     healthy |-> ~node[d].wedge /\ ~node[d].err]
decode_fcemit(d) == [present |-> plat.marked, starved_any |-> node[d].sop /\ ~node[d].grant]
decode_status == plat.up
read_die(d) == [nodes |-> decode_axi_nodes(d), fcemit |-> decode_fcemit(d), link_ok |-> decode_status]
both_dies == [d \in Dies |-> read_die(d)]

Emit(a) == ag' = Idle /\ ans' = a

AgObs ==
    /\ ag.cmd = "obs" /\ ~plat.hung
    /\ Emit([kind |-> "json", die |-> both_dies])
    /\ UNCHANGED <<hw, pc, drv>>

(* Missing markers, and a reader whose words are all zeros or ones.        *)
AgSelftest ==
    /\ ag.cmd = "selftest" /\ ~plat.hung
    /\ Emit([kind |-> "json", die |-> both_dies, missing |-> ~plat.marked, dead |-> plat.dead])
    /\ UNCHANGED <<hw, pc, drv>>

AgFcCrcSet ==
    /\ ag.cmd = "fc_crc_set" /\ ~plat.hung
    /\ \/ crcoff' = [crcoff EXCEPT !.now = ag.dis] /\ Emit([kind |-> "json", ok |-> TRUE])
       \/ crcoff' = crcoff /\ Emit([kind |-> "json", ok |-> FALSE])
    /\ UNCHANGED <<node, plat, pc, drv>>

(* Never touch the peer window on a link that is not up.                   *)
AgTraffic ==
    /\ ag.cmd = "traffic" /\ ag.phase = "start" /\ ~plat.hung
    /\ IF read_die("a").link_ok THEN ag' = [ag EXCEPT !.phase = "worker"] /\ ans' = ans
       ELSE Emit([kind |-> "json", refused |-> TRUE])
    /\ UNCHANGED <<hw, pc, drv>>

(* The worker writes and reads back; it returns with its count of good     *)
(* words, dies without one, or outlives its wall clock.  The dies are read *)
(* again after it.                                                         *)
_traffic_worker(good) ==
    /\ \A d \in Dies : ~node[d].stall
    /\ node' = [d \in Dies |-> [node[d] EXCEPT !.sop = TRUE, !.grant = TRUE]]
    /\ seen' = [seen EXCEPT !.carried = @ \/ good > 0]

run_worker_guarded(out, good) ==
    /\ InTraffic /\ ~plat.hung /\ plat' = plat
    /\ CASE out = "returned" -> _traffic_worker(good)
         [] out = "died" -> good = 0 /\ UNCHANGED <<node, seen>>
         [] out = "wedged" -> good = 0 /\ (\E d \in Dies : node[d].stall) /\ UNCHANGED <<node, seen>>
    /\ Emit([kind |-> "json", refused |-> FALSE, wedged |-> out = "wedged", good |-> good,
             die |-> both_dies'])
    /\ UNCHANGED <<crcoff, arm, pc, tries, bursts, probes, verdict>>

-----------------------------------------------------------------------------
(* The driver's transport: Ssh.run and classify.                           *)

Cmd(p) ==
    CASE p \in {"obs", "watch"} -> [cmd |-> "obs"]
      [] p \in {"preflight", "postcheck"} -> [cmd |-> "selftest"]
      [] p \in {"arm", "disarm"} -> [cmd |-> "fc_crc_set", dis |-> p = "disarm"]
      [] p \in {"traffic", "posttraffic"} -> [cmd |-> "traffic", phase |-> "start"]
      [] OTHER -> Idle
Send(p) == ag' = Cmd(p) /\ ans' = NoAns /\ pc' = p /\ tries' = 0

(* rc 255 and no marker, before or after the agent ran: the command is     *)
(* sent again.                                                             *)
Reset ==
    /\ ag.cmd # "idle" \/ ans.kind = "json"
    /\ IF tries < Retries THEN tries' = tries + 1 /\ ans' = NoAns /\ ag' = Cmd(pc)
       ELSE tries' = tries /\ ans' = NoResult /\ ag' = Idle
    /\ UNCHANGED <<hw, pc, bursts, probes, verdict, seen>>

(* The wall clock of the call expires: no retry.                           *)
Timeout ==
    /\ ag.cmd # "idle" /\ plat.hung
    /\ ag' = Idle /\ ans' = [kind |-> "timeout"]
    /\ UNCHANGED <<hw, pc, drv>>

-----------------------------------------------------------------------------
(* The driver's steps.  settle records the verdict and leaves through the  *)
(* finally block.                                                          *)

settle(v) ==
    /\ verdict' = v
    /\ Send(IF arm THEN "disarm" ELSE "done")

(* stage_agent: scp-like staging, then one obs must answer.                *)
StageAgent ==
    /\ pc = "stage"
    /\ \/ Send("obs") /\ verdict' = verdict
       \/ settle("ABORTED")
    /\ UNCHANGED <<hw, bursts, probes, seen>>

Staged ==
    /\ pc = "obs" /\ ans.kind # "wait"
    /\ IF ans.kind = "json" THEN Send("preflight") /\ verdict' = verdict
       ELSE settle("ABORTED")
    /\ UNCHANGED <<hw, bursts, probes, seen>>

wedge_signature(die) ==
    die.nodes.wedge_any \/ ~die.nodes.healthy \/ die.fcemit.starved_any
marked(a) == \A d \in Dies : a.die[d].nodes.present /\ a.die[d].fcemit.present
signature(a) == \E d \in Dies : wedge_signature(a.die[d])

(* The instrument before the DUT, and a clear detector before the stimulus.*)
clear_baseline(a) == ~signature(a)

Preflight ==
    /\ pc = "preflight" /\ ans.kind # "wait"
    /\ IF ans.kind # "json" THEN settle("ABORTED")
       ELSE IF ans.dead \/ ans.missing \/ (\E d \in Dies : ~ans.die[d].link_ok) \/ ~clear_baseline(ans)
            THEN settle("INCONCLUSIVE")
       ELSE Send(IF arm THEN "arm" ELSE "traffic") /\ verdict' = verdict
    /\ UNCHANGED <<hw, bursts, probes, seen>>

Armed ==
    /\ pc = "arm" /\ ans.kind # "wait"
    /\ IF ans.kind # "json" \/ (ans.kind = "json" /\ ~ans.ok) THEN settle("INCONCLUSIVE")
       ELSE Send("traffic") /\ verdict' = verdict
    /\ UNCHANGED <<hw, bursts, probes, seen>>

(* Bursts until a signature shows or the window closes.  A worker that     *)
(* died is a burst of no words.                                            *)
Traffic ==
    /\ pc = "traffic" /\ ans.kind # "wait"
    /\ bursts' = bursts + 1
    /\ IF ans.kind # "json" THEN settle("INCONCLUSIVE")
       ELSE IF ans.refused THEN settle("ABORTED")
       ELSE IF ans.wedged THEN Send("watch") /\ verdict' = verdict
       ELSE IF ~marked(ans) THEN settle("INCONCLUSIVE")
       ELSE IF signature(ans) THEN Send("watch") /\ verdict' = verdict
       ELSE
            /\ \/ bursts + 1 < MaxBursts /\ verdict' = verdict
                  /\ Send("traffic")
               \/ settle("INCONCLUSIVE")
    /\ UNCHANGED <<hw, probes, seen>>

(* live_clear: neither wedge bits nor a cleared health bit.  A probe whose *)
(* markers are gone raises instead of deciding.                            *)
live_clear(a) == \A d \in Dies : ~a.die[d].nodes.wedge_any /\ a.die[d].nodes.healthy

Watch ==
    /\ pc = "watch" /\ ans.kind # "wait"
    /\ probes' = probes + 1
    /\ IF ans.kind # "json" THEN settle("INCONCLUSIVE")
       ELSE IF ~marked(ans) THEN settle("none")
       ELSE IF live_clear(ans)
            THEN Send("posttraffic") /\ verdict' = verdict
       ELSE /\ verdict' = verdict
            /\ \/ probes + 1 < MaxProbes /\ Send("watch")
               \/ Send("postcheck")
    /\ seen' = [seen EXCEPT !.carried = FALSE]
    /\ UNCHANGED <<hw, bursts>>

PostCheck ==
    /\ pc = "postcheck" /\ ans.kind # "wait"
    /\ IF ans.kind # "json" THEN settle("INCONCLUSIVE")
       ELSE settle(IF ans.dead THEN "INCONCLUSIVE" ELSE "WEDGE")
    /\ UNCHANGED <<hw, bursts, probes, seen>>

(* The normal path must work again before it is called a recovery.         *)
carried(a) == a.kind = "json" /\ (a.kind = "json" => (~a.refused /\ ~a.wedged /\ a.good > 0))

PostTraffic ==
    /\ pc = "posttraffic" /\ ans.kind # "wait"
    /\ settle(IF carried(ans) THEN "RECOVERY" ELSE "INCONCLUSIVE")
    /\ UNCHANGED <<hw, bursts, probes, seen>>

(* The finally block's write has been answered or has failed.              *)
Finally ==
    /\ pc = "disarm" /\ ans.kind # "wait"
    /\ Send("done") /\ UNCHANGED <<hw, bursts, probes, verdict, seen>>

-----------------------------------------------------------------------------
Next ==
    \/ \E d \in Dies : Stall(d) \/ LatchWedge(d) \/ \E e \in BOOLEAN : Grant(d, e)
    \/ Degrade \/ Hang
    \/ AgObs \/ AgSelftest \/ AgFcCrcSet \/ AgTraffic
    \/ \E out \in {"returned", "died", "wedged"}, good \in 0 .. 1 : run_worker_guarded(out, good)
    \/ Reset \/ Timeout
    \/ StageAgent \/ Staged \/ Preflight \/ Armed \/ Traffic \/ Watch
    \/ PostCheck \/ PostTraffic \/ Finally

Spec == Init /\ [][Next]_vars
-----------------------------------------------------------------------------
(* A verdict about the design, RECOVERY or WEDGE, is given only after a    *)
(* node really stalled under this run's own traffic: witnesses left by an  *)
(* earlier run, lost answers and retried bursts never make one.            *)
VerdictIsWitnessed == verdict \in {"RECOVERY", "WEDGE"} => seen.cond

(* RECOVERY, exit code 0, is given only if the cross-die path carried a    *)
(* word after the wedge indication had cleared.                            *)
RecoveryIsCarried == verdict = "RECOVERY" => seen.carried

(* The inductive invariant of both.  Until a node stalls, no witness but a *)
(* wedge from before the run is set, and every answer shows that one: a    *)
(* baseline that was clear stays clear, and only a stall leads to the      *)
(* watch.                                                                  *)
Places == {"stage", "obs", "preflight", "arm", "traffic", "watch", "posttraffic", "postcheck", "disarm", "done"}

TypeOK ==
    /\ node \in [Dies -> [stall : BOOLEAN, wedge : BOOLEAN, err : BOOLEAN, sop : BOOLEAN, grant : BOOLEAN]]
    /\ seen \in [cond : BOOLEAN, carried : BOOLEAN]
    /\ pc \in Places
    /\ ag.cmd \in {"idle", Cmd(pc).cmd}
    /\ ag.cmd = "traffic" => ag \in [cmd : {"traffic"}, phase : {"start", "worker"}]

Untouched == \A d \in Dies : ~node[d].stall /\ ~node[d].err /\ (node[d].sop => node[d].grant)
NoWedge == \A d \in Dies : ~node[d].wedge
Tells(a) == \A d \in Dies : wedge_signature(a.die[d]) <=> node[d].wedge

AnswersTell ==
    /\ pc = "preflight" /\ ~seen.cond => Tells(ans)
    /\ pc = "traffic" /\ ~seen.cond /\ ~ans.refused => Tells(ans) /\ ~ans.wedged
    /\ pc = "posttraffic" /\ ~ans.refused /\ ans.good > 0 => seen.carried

IInv ==
    /\ TypeOK /\ RecoveryIsCarried
    /\ ~seen.cond => Untouched
    /\ pc \in {"arm", "traffic"} /\ ~seen.cond => NoWedge
    /\ pc \in {"watch", "posttraffic", "postcheck"} => seen.cond
    /\ verdict \in {"RECOVERY", "WEDGE"} => pc \in {"disarm", "done"} /\ seen.cond
    /\ ans.kind = "json" => AnswersTell

=============================================================================

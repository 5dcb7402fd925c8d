----------------------------- MODULE StressModes -----------------------------
(***************************************************************************)
(* The stress toolkit's AUTO run (stress_modes.py): auto_mix picks packet, *)
(* doorbell and PTP workloads at random while the FCSM and PHY health      *)
(* monitors poll beside it and may raise the shared alarm.  Every register *)
(* access is an ssh command of its own (mmio_remote.py) that may fail      *)
(* after it took effect.                                                   *)
(***************************************************************************)
EXTENDS Naturals, Sequences, FiniteSets

CONSTANTS
    Jobs,      \* subset of {"packet_stress", "doorbell", "ptp"}
    Dirs,      \* the directions a workload uses, in turn: 1 .. n
    Sizes,     \* payload sizes
    Count,     \* packets, rings per workload
    Hold,      \* lock_hold_samples
    MaxRuns    \* workloads within duration_s

VARIABLES
    job, pc, run, i,         \* auto_mix's pick and the workload's position
    size, errors,            \* packet: payload size, stats.errors
    fifo,                    \* by direction: packets in the peer's RX FIFO
    acc, late, sent,         \* by direction: DOORBELL_RESP_ACC, rings on the way, counted
    streak,                  \* ptp: locked_streak
    idle,                    \* by board: FCSM at LINK_IDLE
    seen,                    \* fcsm_monitor: last_state
    alarm, cancel,           \* the shared events
    summary,                 \* per job: runs, pass, fail, aborted, and auto_exception events
    passed, spoiled, dirty   \* runs: judged a pass; hit by a fault; begun on residue

jobVars == <<job, pc, run, i, size, errors, streak>>
wire == <<fifo, acc, late, sent>>
mon == <<seen, alarm>>
table == <<summary, passed, spoiled, dirty>>
vars == <<jobVars, wire, idle, mon, cancel, table>>

Boards == {"master", "slave"}
None == {}
aborted == cancel \/ alarm

Init ==
    /\ job = "none" /\ pc = "pick" /\ run = 0 /\ i = 0 /\ size = 0 /\ errors = 0
    /\ fifo = [d \in Dirs |-> <<>>]
    /\ acc \in [Dirs -> 0 .. 1] /\ late = [d \in Dirs |-> 0] /\ sent = [d \in Dirs |-> 0]
    /\ streak = 0 /\ idle \in [Boards -> BOOLEAN]
    /\ seen = None /\ alarm = FALSE /\ cancel = FALSE
    /\ summary = [j \in Jobs |-> [runs |-> 0, pass |-> 0, fail |-> 0, aborted |-> 0, raised |-> 0]]
    /\ passed = {} /\ spoiled = {} /\ dirty = {}

Between == pc \in {"pick", "ended"}
Up == \A b \in Boards : idle[b]
dir == 1 + (i % Cardinality(Dirs))
tally(k) == summary' = [summary EXCEPT ![job][k] = @ + 1]
spoil(hit) == spoiled' = IF hit THEN spoiled \cup {run} ELSE spoiled

(* The workload's generator ends, with a verdict, with none, or with an    *)
(* exception; auto_mix stops at the alarm, else picks again.               *)
leave(k) ==
    /\ IF k = "uncounted" THEN UNCHANGED summary ELSE tally(k)
    /\ passed' = IF k = "pass" THEN passed \cup {run} ELSE passed
    /\ job' = "none" /\ i' = 0 /\ size' = 0 /\ errors' = 0 /\ pc' = IF alarm THEN "ended" ELSE "pick"

Pick ==
    /\ job = "none" /\ pc = "pick"
    /\ IF aborted \/ run = MaxRuns
       THEN pc' = "ended" /\ UNCHANGED <<job, run, i, size, errors, sent, streak, summary, dirty>>
       ELSE \E j \in Jobs : \E z \in (IF j = "packet_stress" THEN Sizes ELSE {0}) :
              /\ job' = j /\ run' = run + 1 /\ i' = 0 /\ size' = z /\ errors' = 0 /\ streak' = 0
              /\ sent' = [d \in Dirs |-> 0]
              /\ pc' = CASE j = "packet_stress" -> "send" [] j = "doorbell" -> "clear" [] OTHER -> "quiesce"
              /\ summary' = [summary EXCEPT ![j].runs = @ + 1]
              /\ dirty' = IF j = "packet_stress" /\ (\E d \in Dirs : fifo[d] # <<>>)
                          THEN dirty \cup {run + 1} ELSE dirty
    /\ UNCHANGED <<fifo, acc, late, idle, mon, cancel, passed, spoiled>>

-----------------------------------------------------------------------------
(* packet_stress *)

packet == [run |-> run, i |-> i, size |-> size]

(* The packet crosses whole while the link is up; else it may be lost.     *)
cross == {Append(fifo[dir], packet)} \cup (IF Up THEN {} ELSE {fifo[dir]})

(* Header and payload are written; a failed write counts an error, and the *)
(* packet is on its way or not.                                            *)
PacketSend ==
    /\ pc = "send" /\ ~aborted /\ i < Count
    /\ \/ \E f \in cross :
         /\ fifo' = [fifo EXCEPT ![dir] = f] /\ spoil(f = fifo[dir])
         /\ pc' = "recv" /\ UNCHANGED <<errors, i>>
       \/ \E f \in cross \cup {fifo[dir]} :
         /\ fifo' = [fifo EXCEPT ![dir] = f] /\ spoil(TRUE)
         /\ pc' = "send" /\ errors' = errors + 1 /\ i' = i + 1
    /\ UNCHANGED <<job, run, size, streak, acc, late, sent, idle, mon, cancel, summary, passed, dirty>>

Expected(q) == q # <<>> /\ q[1].size = size

(* The peer's FIFO is read back: an unexpected length leaves the packet    *)
(* where it is; a payload is compared with the one packet i always has.    *)
(* The FCSM sentinel after it only reports.                                *)
PacketRecv_lenient ==
    LET q == fifo[dir] IN
    /\ pc = "recv" /\ pc' = "send" /\ i' = i + 1
    /\ \/ Expected(q)
          /\ fifo' = [fifo EXCEPT ![dir] = Tail(q)] /\ spoil(q[1] # packet)
          /\ errors' = errors + (IF q[1].i = i THEN 0 ELSE 1)
       \/ ~Expected(q) /\ errors' = errors /\ spoil(TRUE) /\ UNCHANGED fifo
       \/ errors' = errors + 1 /\ spoil(TRUE)
          /\ fifo' \in {fifo, [fifo EXCEPT ![dir] = IF q = <<>> THEN q ELSE Tail(q)]}
    /\ UNCHANGED <<job, run, size, streak, acc, late, sent, idle, mon, cancel, summary, passed, dirty>>
PacketRecv ==
    LET q == fifo[dir] IN
    /\ pc = "recv" /\ pc' = "send" /\ i' = i + 1
    /\ \/ Expected(q)
          /\ fifo' = [fifo EXCEPT ![dir] = Tail(q)] /\ spoil(q[1] # packet)
          /\ errors' = errors + (IF q[1].i = i THEN 0 ELSE 1)
       \/ ~Expected(q) /\ errors' = errors + 1 /\ spoil(TRUE) /\ UNCHANGED fifo
       \/ errors' = errors + 1 /\ spoil(TRUE)
          /\ fifo' \in {fifo, [fifo EXCEPT ![dir] = IF q = <<>> THEN q ELSE Tail(q)]}
    /\ UNCHANGED <<job, run, size, streak, acc, late, sent, idle, mon, cancel, summary, passed, dirty>>

(* An aborted packet run yields packet_stress_aborted, which auto_mix does *)
(* not count.                                                              *)
PacketEnd ==
    /\ pc = "send" /\ (aborted \/ i = Count)
    /\ leave(IF i < Count THEN "uncounted" ELSE IF errors > 0 THEN "fail" ELSE "pass")
    /\ UNCHANGED <<run, streak, wire, idle, mon, cancel, spoiled, dirty>>

-----------------------------------------------------------------------------
(* doorbell_stress *)

(* Reading clears the accumulators; a failed read is passed over.          *)
DoorbellClear ==
    /\ pc = "clear" /\ pc' = "ring"
    /\ \E D \in SUBSET Dirs :
         /\ acc' = [d \in Dirs |-> IF d \in D THEN 0 ELSE acc[d]]
         /\ dirty' = IF \E d \in Dirs : acc'[d] + late[d] > 0 THEN dirty \cup {run} ELSE dirty
    /\ UNCHANGED <<job, run, i, size, errors, streak, fifo, late, sent, idle, mon, cancel, summary, passed, spoiled>>

(* A ring arrives now, later or, on a link that is not up, never; it is    *)
(* counted unless its write raised.                                        *)
DoorbellRing ==
    /\ pc = "ring" /\ ~aborted /\ i < Count /\ i' = i + 1
    /\ \E raised \in BOOLEAN, how \in {"now", "later", "never"} :
         /\ how = "never" => raised \/ ~Up
         /\ acc' = [acc EXCEPT ![dir] = @ + (IF how = "now" THEN 1 ELSE 0)]
         /\ late' = [late EXCEPT ![dir] = @ + (IF how = "later" THEN 1 ELSE 0)]
         /\ sent' = [sent EXCEPT ![dir] = @ + (IF raised THEN 0 ELSE 1)]
         /\ spoil(how = "never" /\ ~raised)
         /\ dirty' = IF raised THEN dirty \cup {run} ELSE dirty
    /\ UNCHANGED <<job, pc, run, size, errors, streak, fifo, idle, mon, cancel, summary, passed>>

Arrive ==
    \E d \in Dirs :
      /\ late[d] > 0 /\ late' = [late EXCEPT ![d] = @ - 1] /\ acc' = [acc EXCEPT ![d] = @ + 1]
      /\ UNCHANGED <<jobVars, fifo, sent, idle, mon, cancel, table>>

(* Verify accs, aborted or not: all must be read and equal what was sent.  *)
DoorbellVerify ==
    /\ pc = "ring" /\ (aborted \/ i = Count)
    /\ \E D \in SUBSET Dirs :
         /\ acc' = [d \in Dirs |-> IF d \in D THEN 0 ELSE acc[d]]
         /\ leave(IF D = Dirs /\ (\A d \in Dirs : acc[d] = sent[d]) THEN "pass" ELSE "fail")
    /\ UNCHANGED <<run, streak, fifo, late, sent, idle, mon, cancel, spoiled, dirty>>

-----------------------------------------------------------------------------
(* ptp_convergence.  A sample that cannot be read changes nothing. *)

(* Quiesce, program both clocks, take the baseline, start the servo: each  *)
(* may fail and end the run without a verdict; none looks at the alarm.    *)
PtpSetup ==
    /\ pc \in {"quiesce", "phc_init", "baseline", "configure"}
    /\ \/ /\ pc' = CASE pc = "quiesce" -> "phc_init" [] pc = "phc_init" -> "baseline"
                     [] pc = "baseline" -> "configure" [] OTHER -> "converge"
          /\ UNCHANGED <<job, i, size, errors, summary, passed>>
       \/ leave("fail")
    /\ UNCHANGED <<run, streak, wire, idle, mon, cancel, spoiled, dirty>>

(* One sample: in lock it lengthens the streak, out of lock it clears it.  *)
PtpSample ==
    /\ pc = "converge" /\ ~aborted
    /\ \/ streak' = streak + 1
          /\ IF streak + 1 >= Hold THEN leave("pass") ELSE UNCHANGED <<job, pc, i, size, errors, summary, passed>>
       \/ streak' = 0 /\ UNCHANGED <<job, pc, i, size, errors, summary, passed>>
    /\ UNCHANGED <<run, wire, idle, mon, cancel, spoiled, dirty>>

(* The time is up, or the run is aborted; the servo is left on.            *)
PtpEnd ==
    /\ pc = "converge" /\ leave(IF aborted THEN "aborted" ELSE "fail")
    /\ UNCHANGED <<run, streak, wire, idle, mon, cancel, spoiled, dirty>>

-----------------------------------------------------------------------------
(* An access can fail to start at all (an OSError, which is no MmioError):  *)
(* the workload ends there, auto_mix reports auto_exception and counts the  *)
(* run nowhere.  What it had read before is gone.                           *)
Emptied ==
    IF pc = "recv" /\ Expected(fifo[dir]) THEN {fifo, [fifo EXCEPT ![dir] = Tail(@)]} ELSE {fifo}

Cleared == IF pc = "clear" \/ (pc = "ring" /\ (aborted \/ i = Count)) THEN SUBSET Dirs ELSE {{}}

JobRaises ==
    /\ ~Between /\ leave("raised")
    /\ fifo' \in Emptied
    /\ \E D \in Cleared : acc' = [d \in Dirs |-> IF d \in D THEN 0 ELSE acc[d]]
    /\ UNCHANGED <<run, streak, late, sent, idle, mon, cancel, spoiled, dirty>>

-----------------------------------------------------------------------------
(* The monitors, which only a cancel stops. *)

(* fcsm_monitor raises the alarm on a change of state that leaves a board  *)
(* off LINK_IDLE.                                                          *)
FcsmPoll ==
    /\ pc # "ended" /\ ~cancel
    /\ LET cur == <<idle["master"], idle["slave"]>>
       IN /\ seen' = {cur}
          /\ alarm' = (alarm \/ (seen # None /\ seen # {cur} /\ cur # <<TRUE, TRUE>>))
    /\ UNCHANGED <<jobVars, wire, idle, cancel, table>>

(* phy_health_monitor finds an anomaly. *)
PhyPoll ==
    /\ pc # "ended" /\ ~cancel /\ ~alarm /\ alarm' = TRUE
    /\ UNCHANGED <<jobVars, wire, idle, seen, cancel, table>>

-----------------------------------------------------------------------------
(* The boards and the user. *)
LinkMoves ==
    /\ pc # "ended" /\ \E b \in Boards : idle' = [idle EXCEPT ![b] = ~@]
    /\ UNCHANGED <<jobVars, wire, mon, cancel, table>>

Cancel ==
    /\ ~cancel /\ pc # "ended" /\ cancel' = TRUE
    /\ UNCHANGED <<jobVars, wire, idle, mon, table>>

Next ==
    \/ Pick \/ PacketSend \/ PacketRecv \/ PacketEnd
    \/ DoorbellClear \/ DoorbellRing \/ Arrive \/ DoorbellVerify
    \/ PtpSetup \/ PtpSample \/ PtpEnd \/ JobRaises
    \/ FcsmPoll \/ PhyPoll \/ LinkMoves \/ Cancel

Spec == Init /\ [][Next]_vars

-----------------------------------------------------------------------------
(* A packet or doorbell run the AUTO summary counts as passed lost no      *)
(* packet and no ring, and none was answered with another's data, however  *)
(* accesses failed, rings were late and the run was aborted.  Exempt is a  *)
(* run that had residue to draw on (packets in the FIFO when it began, a   *)
(* clear that failed, rings still late, a ring whose write raised): the    *)
(* code compares contents that repeat from run to run and one sum, and     *)
(* there a loss can go unseen.  A PTP verdict is its streak and no more.   *)
PassIsClean == \A r \in passed : r \in spoiled => r \in dirty

uncounted ==
    [j \in Jobs |-> summary[j].runs - (summary[j].pass + summary[j].fail + summary[j].aborted + summary[j].raised)]

(* Every workload auto_mix started is in its table or was reported by      *)
(* auto_exception, once, except at most one packet run that the alarm or   *)
(* the user stopped.  The table by itself leaves the exceptions out.       *)
SummaryAccounts ==
    pc = "ended" => \A j \in Jobs :
        uncounted[j] = 0 \/ (j = "packet_stress" /\ uncounted[j] = 1 /\ aborted)

(* The inductive invariant of SummaryAccounts: a workload that runs is the *)
(* one that is not counted yet, and between workloads only an aborted      *)
(* packet run is missing, after which no other is picked.                  *)
TypeOK ==
    /\ i \in Nat
    /\ summary \in [Jobs -> [runs : Nat, pass : Nat, fail : Nat, aborted : Nat, raised : Nat]]
    /\ pc \in {"pick", "ended", "send", "recv", "clear", "ring", "quiesce", "phc_init", "baseline", "configure",
               "converge"}
    /\ ~Between => job \in Jobs
    /\ pc \in {"send", "recv"} => job = "packet_stress"

IInv ==
    /\ TypeOK
    /\ ~Between => \A j \in Jobs : uncounted[j] = IF j = job THEN 1 ELSE 0
    /\ Between => \A j \in Jobs :
         uncounted[j] = 0 \/ (j = "packet_stress" /\ uncounted[j] = 1 /\ aborted)

(* The inductive invariant of PassIsClean.  A packet run that began on     *)
(* empty FIFOs and has counted no error finds in the FIFO it reads either  *)
(* its own packet or, if that was lost, nothing; a doorbell run that began *)
(* on cleared counters is short of every ring it lost.                     *)
Counters ==
    /\ run \in Nat /\ errors \in Nat /\ DOMAIN fifo = Dirs
    /\ acc \in [Dirs -> Nat] /\ late \in [Dirs -> Nat] /\ sent \in [Dirs -> Nat]

PassedBefore ==
    /\ \A r \in passed \cup spoiled : r \in 0 .. run
    /\ ~Between => run \notin passed

PacketsClean ==
    errors = 0 /\ run \notin dirty =>
        /\ pc = "send" => run \notin spoiled /\ \A d \in Dirs : fifo[d] = <<>>
        /\ pc = "recv" => /\ \A d \in Dirs : d # dir => fifo[d] = <<>>
                          /\ fifo[dir] = <<>> \/ (fifo[dir] = <<packet>> /\ run \notin spoiled)

RingsClean ==
    /\ pc = "clear" => run \notin spoiled /\ \A d \in Dirs : sent[d] = 0
    /\ pc = "ring" /\ run \notin dirty =>
         /\ \A d \in Dirs : acc[d] + late[d] <= sent[d]
         /\ run \in spoiled => \E d \in Dirs : acc[d] + late[d] < sent[d]

PtpClean == pc \in {"quiesce", "phc_init", "baseline", "configure", "converge"} => run \notin spoiled

CleanInv == Counters /\ PassedBefore /\ PassIsClean /\ PacketsClean /\ RingsClean /\ PtpClean

=============================================================================

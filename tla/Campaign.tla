------------------------------ MODULE Campaign ------------------------------
(***************************************************************************)
(* Unattended soaking of the two-board pair.  The weekend driver           *)
(* (weekend_campaign.sh, campaign_iter.py, dashboard.py) power-cycles and  *)
(* re-flashes both boards, brings the link up, soaks it in chunks and logs *)
(* one row per iteration; kr260_reliability_sweep.py runs cycles of        *)
(* power-cycle, bring-up and one write budget and gates on the share that  *)
(* landed.  Every board access has a wall clock; expiry is a wedge.        *)
(***************************************************************************)
EXTENDS Naturals, Sequences, Folds

CONSTANTS
    Iters,      \* iterations (seeds) or cycles
    MaxChunks,  \* chunks of one soak
    Floor       \* the sweep passes if at least Floor cycles landed

VARIABLES
    mode,       \* "weekend", "sweep"
    bd,         \* by board: responsive, fresh from a power-on reset, result of the last POR
    link,       \* the link between them is up
    mem,        \* by board and window: the pattern last written there by the peer
    pc, plan, ci, kept,     \* the iteration: its plan, its chunk; history: what landed
    rows,       \* iterations.jsonl / results
    result      \* the sweep's last line

vars == <<mode, bd, link, mem, pc, plan, ci, kept, rows, result>>

Boards == {1, 2}
Windows == {"sram", "mbox"}

Fresh == [all |-> TRUE, now |-> FALSE]
iter == Len(rows) + 1

(* derive_plan: who sends, the workload, the teardown, the rare peer read. *)
Plans == [sender : Boards, workload : {"sram", "mailbox", "mixed"}, abrupt : BOOLEAN, probe : BOOLEAN]
sender == plan.sender
recv == 3 - plan.sender

Init ==
    /\ mode \in {"weekend", "sweep"}
    /\ bd = [b \in Boards |-> [up |-> TRUE, fresh |-> FALSE, por |-> "none"]]
    /\ link = FALSE /\ mem = [b \in Boards |-> [w \in Windows |-> 0]]
    /\ pc = "por1" /\ plan \in Plans /\ ci = 0 /\ kept = Fresh /\ rows = <<>> /\ result = "none"
    /\ mode = "sweep" => plan = [sender |-> 1, workload |-> "sram", abrupt |-> FALSE, probe |-> FALSE]

(* golden_base + ci; the sweep's base changes with the cycle.  Chunks of   *)
(* one iteration and iterations of one campaign differ.                    *)
pattern(c) == 10 * iter + c

-----------------------------------------------------------------------------
(* Rows and the end of an iteration.                                       *)

Row(v, b, f) == [verdict |-> v, beats |-> b, file |-> f, kept |-> kept.all /\ kept.now]

(* The next iteration draws its own plan.                                  *)
finish(v, b, f) ==
    /\ rows' = Append(rows, Row(v, b, f))
    /\ pc' = IF Len(rows) + 1 < Iters THEN "por1" ELSE "end"
    /\ ci' = 0 /\ kept' = Fresh /\ result' = result
    /\ IF mode = "weekend" THEN plan' \in Plans ELSE plan' = plan

-----------------------------------------------------------------------------
(* por_recover.sh: a board comes back fresh, or is parked as it is; the    *)
(* sweep also gives up on a POR that takes too long.                       *)
Por(b) ==
    /\ IF b = 1 THEN pc \in {"por1", "rpor1"} ELSE pc \in {"por2", "rpor2"}
    /\ \/ /\ bd' = [bd EXCEPT ![b] = [up |-> TRUE, fresh |-> TRUE, por |-> "ok"]]
          /\ mem' = [mem EXCEPT ![b] = [w \in Windows |-> 0]]
          /\ link' = FALSE
       \/ /\ \E e \in {"park", "fail"} : (e = "fail" => mode = "sweep") /\ bd' = [bd EXCEPT ![b].por = e]
          /\ UNCHANGED <<mem, link>>
    /\ pc' = CASE pc = "por1" -> "por2" [] pc = "rpor1" -> "rpor2"
               [] pc = "por2" -> "porboth" [] OTHER -> "rporboth"
    /\ UNCHANGED <<mode, plan, ci, kept, rows, result>>

Parked == {b \in Boards : bd[b].por = "park"}

(* The weekend driver stops only when both are parked; the recovery after  *)
(* a failed deploy or bring-up goes on to the next iteration.              *)
WeekendPor ==
    /\ mode = "weekend" /\ pc \in {"porboth", "rporboth"}
    /\ IF Parked = Boards THEN pc' = "end"
       ELSE IF pc = "porboth" THEN pc' = "deploy"
       ELSE pc' = IF Len(rows) < Iters THEN "por1" ELSE "end"
    /\ UNCHANGED <<mode, bd, link, mem, plan, ci, kept, rows, result>>

(* run_cycle step 1: parked ends the sweep, any other failure the cycle.   *)
por_ok_unparked == Parked = {}
por_ok == \A b \in Boards : bd[b].por = "ok"
SweepPor ==
    /\ mode = "sweep" /\ pc = "porboth"
    /\ IF Parked # {} THEN /\ pc' = "end" /\ rows' = Append(rows, Row("PARK", 0, FALSE))
                           /\ UNCHANGED <<plan, ci, kept, result>>
       ELSE IF ~por_ok THEN finish("NOLINK", 0, FALSE)
       ELSE pc' = "bringup" /\ UNCHANGED <<plan, ci, kept, rows, result>>
    /\ UNCHANGED <<mode, bd, link, mem>>

(* make deploy_kr260 on both; a failure is recorded as NOCONVERGE and both *)
(* are power-cycled again.                                                 *)
NoConverge ==
    /\ rows' = Append(rows, Row("NOCONVERGE", 0, FALSE)) /\ pc' = "rpor1"
    /\ plan' \in Plans /\ ci' = 0 /\ kept' = Fresh /\ result' = result
Deploy ==
    /\ pc = "deploy"
    /\ \/ /\ \A b \in Boards : bd[b].up
          /\ mem' = [b \in Boards |-> [w \in Windows |-> 0]] /\ link' = FALSE
          /\ pc' = "bringup" /\ UNCHANGED <<plan, ci, kept, rows, result>>
       \/ NoConverge /\ UNCHANGED <<mem, link>>
    /\ UNCHANGED <<mode, bd>>

BringUp ==
    /\ pc = "bringup"
    /\ bd' = [b \in Boards |-> [bd[b] EXCEPT !.fresh = FALSE]]
    /\ \/ (\A b \in Boards : bd[b].up) /\ link' = TRUE /\ pc' = "check"
          /\ UNCHANGED <<plan, ci, kept, rows, result>>
       \/ /\ link' = FALSE
          /\ IF mode = "weekend" THEN NoConverge ELSE finish("NOLINK", 0, FALSE)
    /\ UNCHANGED <<mode, mem>>

-----------------------------------------------------------------------------
(* run_iteration *)

LinkDrop ==
    /\ link /\ pc \in {"write", "verify", "record", "probe"} /\ link' = FALSE
    /\ UNCHANGED <<mode, bd, mem, pc, plan, ci, kept, rows, result>>

(* The health snapshots of both dies, or fcsm4 of both.                    *)
LinkCheck ==
    /\ pc = "check"
    /\ \/ link /\ pc' = (IF mode = "weekend" THEN "arm" ELSE "write")
          /\ UNCHANGED <<plan, ci, kept, rows, result>>
       \/ finish(IF mode = "weekend" THEN "NOCONVERGE" ELSE "NOLINK", 0, FALSE)
    /\ UNCHANGED <<mode, bd, link, mem>>

use_mbox == plan.workload = "mailbox" \/ (plan.workload = "mixed" /\ ci % 2 = 1)
window == IF use_mbox THEN "mbox" ELSE "sram"

(* arm_cam writes a first payload; its return code is not looked at.  The  *)
(* soak's own writes program the CAM again.                                *)
ArmCam ==
    /\ pc = "arm"
    /\ \/ mem' \in {mem, [mem EXCEPT ![recv][window] = IF link THEN 1 ELSE @]} /\ pc' = "write" /\ bd' = bd
       \/ mem' = mem /\ pc' = "wedge" /\ bd' \in {bd, [bd EXCEPT ![sender].up = FALSE]}
    /\ UNCHANGED <<mode, link, plan, ci, kept, rows, result>>

(* soak_write, or the sender's half of mbox_beat.  The words land, or are  *)
(* lost or refused; the sender's bus may hang.  The sweep looks at the     *)
(* return code, the weekend soak does not.                                 *)
Write ==
    /\ pc = "write"
    /\ \/ /\ link /\ mem' = [mem EXCEPT ![recv][window] = pattern(ci)]
          /\ pc' = "verify" /\ bd' = bd
          /\ kept' = [kept EXCEPT !.now = TRUE] /\ UNCHANGED <<plan, ci, rows, result>>
       \/ /\ mem' = mem /\ bd' = bd
          /\ \/ mode = "weekend" /\ pc' = "verify" /\ kept' = [kept EXCEPT !.now = FALSE]
                /\ UNCHANGED <<plan, ci, rows, result>>
             \/ mode = "sweep" /\ pc' = "verify" /\ UNCHANGED <<kept, plan, ci, rows, result>>
             \/ mode = "sweep" /\ finish("DROP", 0, FALSE)
       \/ /\ mem' = mem /\ bd' \in {bd, [bd EXCEPT ![sender].up = FALSE]}
          /\ IF mode = "sweep" THEN finish("WEDGE", 0, FALSE)
             ELSE pc' = "wedge" /\ UNCHANGED <<plan, ci, kept, rows, result>>
    /\ UNCHANGED <<mode, link>>

byte_exact == mem[recv][window] = pattern(ci)

(* soak_verify / mbox_recv: the receiver reads its own memory.  An answer  *)
(* that does not arrive is a MISMATCH (DROP in the sweep).                 *)
n_chunks == IF plan.abrupt /\ MaxChunks > 1 THEN MaxChunks - 1 ELSE MaxChunks
Landed(d) == d = "ok" /\ byte_exact
Verify ==
    /\ pc = "verify"
    /\ \E d \in {"ok", "lost", "timeout"} :
         IF mode = "sweep"
         THEN /\ finish(IF d = "timeout" THEN "WEDGE" ELSE IF Landed(d) THEN "LAND" ELSE "DROP",
                        IF Landed(d) THEN 1 ELSE 0, FALSE)
         ELSE IF d = "timeout" THEN pc' = "wedge" /\ UNCHANGED <<plan, ci, kept, rows, result>>
         ELSE IF Landed(d) THEN /\ pc' = "record" /\ ci' = ci + 1
                               /\ kept' = [kept EXCEPT !.all = @ /\ kept.now] /\ UNCHANGED <<plan, rows, result>>
         ELSE finish("MISMATCH", ci, FALSE)
    /\ UNCHANGED <<mode, bd, link, mem>>

(* The flight recorder between chunks: snapshots that time out are only    *)
(* recorded.  A mixed soak re-arms.                                        *)
Record ==
    /\ pc = "record"
    /\ pc' = IF ci >= n_chunks THEN "probe"
             ELSE IF plan.workload = "mixed" THEN "arm" ELSE "write"
    /\ bd' \in {bd} \cup {[bd EXCEPT ![b].up = FALSE] : b \in Boards}
    /\ UNCHANGED <<mode, link, mem, plan, ci, kept, rows, result>>

(* The rare peer read: its answer is noted, only its hang counts.          *)
Probe ==
    /\ pc = "probe"
    /\ \/ finish("PASS", ci, FALSE)
       \/ plan.probe /\ ~plan.abrupt /\ pc' = "wedge" /\ UNCHANGED <<plan, ci, kept, rows, result>>
    /\ UNCHANGED <<mode, bd, link, mem>>

(* on_wedge: surviving die's snapshot and failure file, then the POR.      *)
OnWedge ==
    /\ pc = "wedge" /\ finish("WEDGE", ci, TRUE)
    /\ bd' \in {bd, [bd EXCEPT ![sender] = [up |-> TRUE, fresh |-> TRUE, por |-> "ok"]],
                    [bd EXCEPT ![sender].por = "park"]}
    /\ IF bd'[sender].fresh /\ ~bd[sender].fresh THEN link' = FALSE /\ mem' = [mem EXCEPT ![sender] = [w \in Windows |-> 0]]
                            ELSE UNCHANGED <<link, mem>>
    /\ UNCHANGED mode

-----------------------------------------------------------------------------
(* The sweep's gate.                                                       *)
Count(v) == Len(SelectSeq(rows, LAMBDA r : r.verdict = v))
Gate ==
    /\ mode = "sweep" /\ pc = "end" /\ result = "none"
    /\ result' = IF Count("PARK") = 0 /\ Len(rows) = Iters /\ Count("LAND") >= Floor
                 THEN "PASS" ELSE "FAIL"
    /\ UNCHANGED <<mode, bd, link, mem, pc, plan, ci, kept, rows>>

(* dashboard.fold: beats without a wedge, now and at best.                 *)
fold(rs) ==
    LET upto[k \in 0 .. Len(rs)] ==
            IF k = 0 THEN [cur |-> 0, max |-> 0]
            ELSE LET s == upto[k - 1]
                     c == s.cur + rs[k].beats
                 IN  [cur |-> IF rs[k].verdict = "WEDGE" THEN 0 ELSE c, max |-> IF c > s.max THEN c ELSE s.max]
    IN  upto[Len(rs)]

-----------------------------------------------------------------------------
Next ==
    \/ \E b \in Boards : Por(b)
    \/ WeekendPor \/ SweepPor \/ Deploy \/ BringUp \/ LinkDrop \/ LinkCheck
    \/ ArmCam \/ Write \/ Verify \/ Record \/ Probe \/ OnWedge \/ Gate

Spec == Init /\ [][Next]_vars
-----------------------------------------------------------------------------
(* An iteration logged PASS, and a cycle counted as LAND, wrote every one  *)
(* of its chunks across the link: what the receiver found there was never  *)
(* left by an earlier chunk, an earlier iteration or a write that was lost.*)
PassIsDelivered ==
    \A i \in DOMAIN rows : rows[i].verdict \in {"PASS", "LAND"} => rows[i].kept

(* A live link is never brought up again.  The sweep brings it up only on  *)
(* two dies fresh from a power-on reset of the same cycle, so its cycles   *)
(* are independent.  weekend_campaign.sh:18 claims as much of its own, but *)
(* por_both goes on with one die parked: then both are reflashed and one   *)
(* at least is fresh, and that is all.                                     *)
CyclesAreFresh ==
    pc = "bringup" /\ pc' # pc =>
        /\ ~link /\ \E b \in Boards : bd[b].fresh
        /\ mode = "sweep" => \A b \in Boards : bd[b].fresh

(* The inductive invariant of CyclesAreFresh: a die whose reset of this    *)
(* cycle went well is fresh, and no link is up, until the bring-up, which  *)
(* the sweep reaches only through its own test of both resets and the      *)
(* weekend driver only if they are not both parked.                        *)
ResetOf(b) ==
    /\ bd[b].por = "ok" => bd[b].fresh /\ ~link
    /\ mode # "sweep" => bd[b].por \in {"ok", "park"}

CycleInv ==
    /\ DOMAIN bd = Boards
    /\ \A b \in Boards : DOMAIN bd[b] = {"up", "fresh", "por"}
    /\ pc = "deploy" => mode # "sweep" /\ \E b \in Boards : bd[b].fresh
    /\ pc \in {"por2", "porboth"} => ResetOf(1)
    /\ pc = "porboth" => ResetOf(2)
    /\ pc = "bringup" => /\ ~link /\ \E b \in Boards : bd[b].fresh
                         /\ mode = "sweep" => \A b \in Boards : bd[b].fresh

(* The dashboard's longest run of beats without a wedge is the largest sum *)
(* of beats over consecutive rows of which only the last may be a wedge.   *)
StreakIsLongest ==
    LET Beats(i, j) == MapThenFoldSet(LAMBDA a, b : a + b, 0, LAMBDA k : rows[k].beats,
                                      LAMBDA S : CHOOSE k \in S : TRUE, i .. j)
        Runs == {ij \in (DOMAIN rows) \X (DOMAIN rows) :
                   ij[1] <= ij[2] /\ \A k \in ij[1] .. ij[2] - 1 : rows[k].verdict # "WEDGE"}
        best == fold(rows).max
    IN  /\ \A ij \in Runs : Beats(ij[1], ij[2]) <= best
        /\ best > 0 => \E ij \in Runs : Beats(ij[1], ij[2]) = best

=============================================================================

------------------------------ MODULE IrqProbes ------------------------------
(***************************************************************************)
(* The two interrupt probes: cov_mbox_doorbell_irq.py, a doorbell rung in  *)
(* the other die's mailbox, and cov_ps_irq_observe.py, the counts of       *)
(* /proc/interrupts before and after a stimulus.                           *)
(*                                                                         *)
(* The modes of the first run on two boards, in whatever order the         *)
(* operator calls them; a peer write returns at the sender before it lands *)
(* at the receiver.  A message is its base payload, and the slot's four    *)
(* words are written in order.                                             *)
(***************************************************************************)
EXTENDS Integers, Sequences

CONSTANTS
    Payloads,   \* base payloads of the sends
    MaxRuns,    \* invocations of a behaviour
    MaxTicks    \* interrupts of each line

VARIABLES
    up,         \* fcsm = 4 and cal = 1 at the sender
    wire,       \* peer writes on their way to the mailbox
    mbox,       \* slot 0, its MSG_VALID, IRQ_STATUS[0]
    tool,       \* the step of the mode that runs
    seen,       \* edge: a doorbell edge since the last arm that passed;
                \* armed: an arm passed; pass: the last recv
    lines,      \* counts of the PL line and of a peripheral's
    base,       \* the baselines taken
    there,      \* the file --state exists
    probe,      \* the running observation, and its verdict
    runs

vars == <<up, wire, mbox, tool, seen, lines, base, there, probe, runs>>
box == <<up, wire, mbox, tool, seen>>
ps == <<lines, base, there, probe>>

NWORDS == 4
None == 0
Slot == 1 .. NWORDS
Idle == [mode |-> "none", step |-> 0, p |-> None, ok |-> TRUE]

-----------------------------------------------------------------------------
(* The mailbox.  IRQ_STATUS[0] latches on the rising edge of MSG_VALID.    *)

LinkFlaps == up' = ~up /\ UNCHANGED <<wire, mbox, tool, seen, runs, ps>>

write_ctrl(v) == [mbox EXCEPT !.valid = v, !.irq = @ \/ (v /\ ~mbox.valid)]

Land ==
    /\ wire # <<>> /\ wire' = Tail(wire)
    /\ LET w == Head(wire) IN
        IF w.word \in Slot
          THEN mbox' = [mbox EXCEPT !.data[w.word] = w.v] /\ UNCHANGED seen
          ELSE /\ mbox' = write_ctrl(w.v = 1)
               /\ seen' = [seen EXCEPT !.edge = @ \/ (w.v = 1 /\ ~mbox.valid)]
    /\ UNCHANGED <<up, tool, runs, ps>>

-----------------------------------------------------------------------------

begin(mode, p) ==
    /\ tool.mode = "none" /\ runs < MaxRuns /\ runs' = runs + 1
    /\ tool' = [mode |-> mode, step |-> 1, p |-> p, ok |-> TRUE]
on(mode, k) == tool.mode = mode /\ tool.step = k
advance == tool' = [tool EXCEPT !.step = @ + 1]
end == tool' = Idle

(* arm, at the receiver: MSG_VALID off, IRQ_STATUS cleared, both read back. *)
Arm ==
    /\ begin("arm", None) /\ seen' = [seen EXCEPT !.armed = FALSE, !.pass = FALSE]
    /\ UNCHANGED <<up, wire, mbox, ps>>

ArmStep ==
    /\ tool.mode = "arm"
    /\ \/ on("arm", 1) /\ mbox' = write_ctrl(FALSE) /\ advance /\ UNCHANGED seen
       \/ on("arm", 2) /\ mbox' = [mbox EXCEPT !.irq = FALSE] /\ advance /\ seen' = [seen EXCEPT !.edge = FALSE]
       \/ on("arm", 3) /\ tool' = [tool EXCEPT !.step = 4, !.ok = ~mbox.valid] /\ UNCHANGED <<mbox, seen>>
       \/ on("arm", 4) /\ seen' = [seen EXCEPT !.armed = tool.ok /\ ~mbox.irq] /\ end /\ UNCHANGED mbox
    /\ UNCHANGED <<up, wire, runs, ps>>

(* send, at the sender: refused on a link that is down; then the payload,  *)
(* MSG_VALID off and on, as peer writes.                                   *)
require_link == up

Send == \E p \in Payloads : begin("send", p) /\ UNCHANGED <<up, wire, mbox, seen, ps>>

message(k) ==
    IF k <= NWORDS THEN [word |-> k, v |-> tool.p]
    ELSE [word |-> 9, v |-> k - (NWORDS + 1)]

SendStep ==
    /\ tool.mode = "send"
    /\ IF tool.step = 1 /\ ~require_link THEN end /\ UNCHANGED wire
       ELSE IF tool.step > NWORDS + 2 THEN end /\ UNCHANGED wire
       ELSE wire' = Append(wire, message(tool.step)) /\ advance
    /\ UNCHANGED <<up, mbox, seen, runs, ps>>

recv_ok(data_ok) == data_ok /\ mbox.irq

(* recv, at the receiver: the words one by one, then CTRL and IRQ_STATUS. *)
Recv ==
    /\ \E p \in Payloads : begin("recv", p)
    /\ seen' = [seen EXCEPT !.pass = FALSE]
    /\ UNCHANGED <<up, wire, mbox, ps>>

RecvStep ==
    /\ tool.mode = "recv"
    /\ IF tool.step <= NWORDS
         THEN /\ tool' = [tool EXCEPT !.step = @ + 1, !.ok = @ /\ mbox.data[tool.step] = tool.p]
              /\ UNCHANGED seen
         ELSE seen' = [seen EXCEPT !.pass = recv_ok(tool.ok)] /\ end
    /\ UNCHANGED <<up, wire, mbox, runs, ps>>

(* clear, at the receiver: the bit must have been set and must drop. *)
Clear == begin("clear", None) /\ UNCHANGED <<up, wire, mbox, seen, ps>>

ClearStep ==
    /\ tool.mode = "clear"
    /\ mbox' = [mbox EXCEPT !.irq = FALSE] /\ end
    /\ UNCHANGED <<up, wire, seen, runs, ps>>

-----------------------------------------------------------------------------
(* cov_ps_irq_observe *)

Lines == {"pl", "gem"}
Unread == [l \in Lines |-> 0]

(* The baseline of auto and the one in --state: the counts it holds, zero  *)
(* for lines it could not read; since: the lines that have ticked after it. *)
Baselines == {"auto", "file"}
after_tick(l) == [b \in Baselines |-> [base[b] EXCEPT !.since = @ \cup {l}]]
ticks(l) == lines[l] < MaxTicks /\ lines' = [lines EXCEPT ![l] = @ + 1] /\ base' = after_tick(l)

(* Any line may tick at any time; tidechart's stimulus may move the PL's. *)
Tick == \E l \in Lines : ticks(l) /\ UNCHANGED <<box, there, probe, runs>>

(* An unreadable /proc/interrupts gives a snapshot without lines, and diff *)
(* takes a missing line for a zero count.                                  *)
snap_interrupts(readable) == IF readable THEN lines ELSE Unread

snapshot(readable) == [n |-> snap_interrupts(readable), read |-> readable, since |-> {}]

diff(before, after) == {l \in Lines : after[l] > before[l]}

is_pl(l) == l = "pl"

verdict(moved) == IF \E l \in moved : is_pl(l) THEN 0 ELSE IF moved # {} THEN 1 ELSE 2

report(b) == \E readable \in BOOLEAN :
    probe' = [rc |-> verdict(diff(base[b].n, snap_interrupts(readable))), at |-> "done", of |-> b]

(* auto: a snapshot, the stimulus, the hold, a snapshot. *)
PhaseAuto ==
    /\ probe.at \in {"none", "done"} /\ runs < MaxRuns /\ runs' = runs + 1
    /\ probe' = [rc |-> 9, at |-> "hold", of |-> "auto"]
    /\ \E readable \in BOOLEAN : base' = [base EXCEPT !["auto"] = snapshot(readable)]
    /\ UNCHANGED <<box, lines, there>>

StimTidechart ==
    /\ probe.at = "hold" /\ probe' = [probe EXCEPT !.at = "after"]
    /\ ticks("pl") \/ UNCHANGED <<lines, base>>
    /\ UNCHANGED <<box, there, runs>>

AutoVerdict == probe.at = "after" /\ report("auto") /\ UNCHANGED <<box, lines, base, there, runs>>

(* baseline and compare, with the snapshot in a file between them. *)
PhaseBaseline ==
    /\ probe.at \in {"none", "done"} /\ runs < MaxRuns /\ runs' = runs + 1
    /\ \E readable \in BOOLEAN : base' = [base EXCEPT !["file"] = snapshot(readable)]
    /\ there' = TRUE /\ probe' = [rc |-> 0, at |-> "none", of |-> "file"]
    /\ UNCHANGED <<box, lines>>

PhaseCompare ==
    /\ probe.at \in {"none", "done"} /\ runs < MaxRuns /\ runs' = runs + 1
    /\ \/ there /\ report("file")
       \/ ~there /\ probe' = [rc |-> 1, at |-> "done", of |-> "file"]
    /\ UNCHANGED <<box, lines, base, there>>

-----------------------------------------------------------------------------

Init ==
    /\ up \in BOOLEAN /\ wire = <<>> /\ tool = Idle /\ runs = 0
    /\ mbox = [data |-> [k \in Slot |-> None], valid |-> FALSE, irq |-> FALSE]
    /\ seen = [edge |-> FALSE, armed |-> FALSE, pass |-> FALSE]
    /\ lines = Unread /\ probe = [rc |-> 9, at |-> "none", of |-> "auto"]
    /\ base = [b \in Baselines |-> [n |-> Unread, read |-> TRUE, since |-> {}]] /\ there = FALSE

Mailbox ==
    \/ LinkFlaps \/ Land
    \/ Arm \/ ArmStep \/ Send \/ SendStep \/ Recv \/ RecvStep \/ Clear \/ ClearStep

Observe == Tick \/ PhaseAuto \/ StimTidechart \/ AutoVerdict \/ PhaseBaseline \/ PhaseCompare

Next == Mailbox \/ Observe

Spec == Init /\ [][Next]_vars

-----------------------------------------------------------------------------

(* Once an arm has passed, a recv that passes has seen a doorbell edge that *)
(* arrived after that arm cleared the status: a message left over from an   *)
(* earlier send is never taken for an interrupt.                            *)
RecvIsFresh == (seen.armed /\ seen.pass) => seen.edge

(* An observation that passes saw a PL line tick after the baseline it is  *)
(* compared with, however the other lines ticked and runs of auto fell     *)
(* between a baseline and its compare; unless that baseline could not be   *)
(* read, which the tool warns of and then takes for a count of zero.       *)
ObservedIsReal ==
    probe.at = "done" /\ probe.rc = 0 => "pl" \in base[probe.of].since \/ ~base[probe.of].read

(* The inductive invariant.  From the arm that passed on, the status bit   *)
(* is set only by an edge that is remembered; and while an arm runs there  *)
(* is neither a pass nor an earlier arm to speak of.                       *)
Tool == [mode : {"none", "arm", "send", "recv", "clear"}, step : Nat, p : Payloads \cup {None}, ok : BOOLEAN]
TypeOK ==
    /\ tool \in Tool
    /\ DOMAIN mbox = {"data", "valid", "irq"} /\ mbox.valid \in BOOLEAN /\ mbox.irq \in BOOLEAN
    /\ seen \in [edge : BOOLEAN, armed : BOOLEAN, pass : BOOLEAN]

IInv ==
    /\ TypeOK
    /\ seen.armed /\ mbox.irq => seen.edge
    /\ tool.mode = "arm" => ~seen.pass /\ ~seen.armed
    /\ RecvIsFresh

(* The observer's: a line above a baseline that was read has ticked since. *)
Baseline == [n : [Lines -> Nat], read : BOOLEAN, since : SUBSET Lines]
ObsInv ==
    /\ lines \in [Lines -> Nat] /\ base \in [Baselines -> Baseline]
    /\ probe \in [rc : Nat, at : {"none", "hold", "after", "done"}, of : Baselines]
    /\ \A b \in Baselines, l \in Lines : base[b].read /\ lines[l] > base[b].n[l] => l \in base[b].since
    /\ ObservedIsReal

=============================================================================

---------------------------- MODULE MonitorPolls ----------------------------
(***************************************************************************)
(* What one die's poll stream carries (tl_perf_agent.py, cmd_monitor) and  *)
(* what the server makes of it (monitor.py, _on_event and its callees),    *)
(* across the agent's relaunches, down to a browser's event queue.  The    *)
(* sessions and die loops around it are LinkMonitor.                       *)
(*                                                                         *)
(* The pipe keeps its order and a handler never suspends, so an event is   *)
(* handled in the step that prints it.  Registers are the ones a property  *)
(* reads: the unsynchronised CRC counter, the sticky overrun bit, and the  *)
(* performance block's clear and freeze.                                   *)
(***************************************************************************)
EXTENDS Integers, Sequences

CONSTANTS
    SUBSCRIBER_QUEUE_MAX,   \* events a browser may leave unread
    MaxProcs,               \* bound: agent processes launched
    MaxCrc,                 \* bound: values of the CRC counter
    MaxEvents               \* bound: events published

None == -1

VARIABLES
    proc,       \* agent processes launched so far
    up,         \* the last one runs
    perfSt,     \* its perf state: "new", "armed", "frozen"
    fixed,      \* the image's PERF_CTRL can be written
    frozen,     \* the performance counters hold still
    clearedBy,  \* the process that last cleared them, 0 for reset
    crc,        \* the CRC error counter
    lastRead,   \* the last sample of it
    overrun,    \* STATUS overrun
    anchor,     \* the process of _prev_dec, 0 for none
    rateOf,     \* the processes of the two polls of the last rate
    pending,    \* _crc_pending
    agreed,     \* crc_agreed
    sticky,     \* overrun_seen
    window,     \* who cleared the counters of perf_window, None when it is empty
    queue,      \* the browser's queue of events
    published   \* events published

vars == <<proc, up, perfSt, fixed, frozen, clearedBy, crc, lastRead, overrun, anchor, rateOf,
          pending, agreed, sticky, window, queue, published>>

agentVars == <<proc, up, perfSt>>
regVars == <<frozen, clearedBy, crc, overrun>>
dieVars == <<anchor, rateOf, pending, agreed, sticky, window>>

-----------------------------------------------------------------------------
(* Fan-out. *)

DropOldest(q, item) == Append(IF Len(q) < SUBSCRIBER_QUEUE_MAX THEN q ELSE Tail(q), item)

Publish ==
    /\ published < MaxEvents
    /\ published' = published + 1
    /\ queue' = DropOldest(queue, published')

Get ==
    /\ queue # <<>>
    /\ queue' = Tail(queue)
    /\ UNCHANGED <<agentVars, fixed, regVars, lastRead, dieVars, published>>

-----------------------------------------------------------------------------
(* The die loop's part: a relaunch starts from fresh agent state; the end  *)
(* of a stream drops the anchor.  A kill may come between any two accesses.*)

Launch ==
    /\ ~up /\ proc < MaxProcs
    /\ up' = TRUE /\ proc' = proc + 1 /\ perfSt' = "new"
    /\ UNCHANGED <<fixed, regVars, lastRead, dieVars, queue, published>>

StreamOver ==
    /\ up
    /\ up' = FALSE
    /\ anchor' = 0
    /\ Publish
    /\ UNCHANGED <<proc, perfSt, fixed, regVars, lastRead, rateOf, pending, agreed, sticky, window>>

-----------------------------------------------------------------------------
(* A poll. *)

(* The counter crosses clock domains unsynchronised: a read is the value,  *)
(* or torn.  The same torn value does not come up twice running.           *)
CrcRead == {crc} \cup ((0..MaxCrc) \ {lastRead})

(* Faulty: one sample is enough. *)
ConfirmOnce(raw) == agreed' = raw /\ pending' = raw

ConfirmCrc(raw) ==
    /\ agreed' = IF raw = pending THEN raw ELSE agreed
    /\ pending' = raw

Derive ==
    /\ rateOf' = IF anchor # 0 THEN <<anchor, proc>> ELSE <<>>
    /\ anchor' = proc
    /\ sticky' = (sticky \/ overrun)

(* The loop reads the whitelist, with the CRC counter if the session asked *)
(* for it; _on_mon decodes, derives and publishes.                         *)
Poll ==
    /\ up /\ perfSt # "frozen"
    /\ \/ \E raw \in CrcRead : ConfirmCrc(raw) /\ lastRead' = raw
       \/ UNCHANGED <<pending, agreed, lastRead>>
    /\ Derive
    /\ Publish
    /\ UNCHANGED <<agentVars, fixed, regVars, window>>

(* mon_err, an unknown event, a register that is not on the whitelist. *)
PollFails ==
    /\ up /\ perfSt # "frozen"
    /\ Publish
    /\ UNCHANGED <<agentVars, fixed, regVars, lastRead, dieVars>>

-----------------------------------------------------------------------------
(* The performance window, one step per poll. *)

PerfCtrl(freeze, clear) ==
    IF fixed
       THEN /\ frozen' = freeze
            /\ clearedBy' = IF clear THEN proc ELSE clearedBy
       ELSE UNCHANGED <<frozen, clearedBy>>

(* perf_id writes enable alone, which thaws what a killed agent had frozen; *)
(* then enable and clear.                                                   *)
PerfArm ==
    /\ up /\ perfSt = "new"
    /\ perfSt' = "armed"
    /\ PerfCtrl(FALSE, TRUE)
    /\ Publish
    /\ UNCHANGED <<proc, up, fixed, crc, overrun, lastRead, dieVars>>

PerfFreeze ==
    /\ up /\ perfSt = "armed"
    /\ perfSt' = "frozen"
    /\ PerfCtrl(TRUE, FALSE)
    /\ UNCHANGED <<proc, up, fixed, crc, overrun, lastRead, dieVars, queue, published>>

(* perf_window refuses an image whose counters cannot be cleared. *)
PerfWindow == IF fixed THEN clearedBy ELSE None

(* Read, print, and clear for the next window; _on_perf scores the record. *)
PerfRecord ==
    /\ up /\ perfSt = "frozen"
    /\ perfSt' = "armed"
    /\ PerfCtrl(FALSE, TRUE)
    /\ window' = PerfWindow
    /\ Publish
    /\ UNCHANGED <<proc, up, fixed, crc, overrun, lastRead, anchor, rateOf, pending, agreed, sticky>>

-----------------------------------------------------------------------------
(* The hardware: the counter counts, the overrun sticks until somebody     *)
(* flushes the FIFO.                                                       *)
CrcError ==
    /\ crc < MaxCrc
    /\ crc' = crc + 1
    /\ UNCHANGED <<agentVars, fixed, frozen, clearedBy, lastRead, overrun, dieVars, queue, published>>

Overrun ==
    /\ overrun' = ~overrun
    /\ UNCHANGED <<agentVars, fixed, frozen, clearedBy, crc, lastRead, dieVars, queue, published>>

Init ==
    /\ proc = 0 /\ up = FALSE /\ perfSt = "new"
    /\ fixed \in BOOLEAN /\ frozen = FALSE /\ clearedBy = 0
    /\ crc = 0 /\ lastRead = None /\ overrun = FALSE
    /\ anchor = 0 /\ rateOf = <<>>
    /\ pending = None /\ agreed = None /\ sticky = FALSE /\ window = None
    /\ queue = <<>> /\ published = 0

Next ==
    \/ Launch \/ StreamOver \/ Poll \/ PollFails
    \/ PerfArm \/ PerfFreeze \/ PerfRecord
    \/ CrcError \/ Overrun \/ Get

Spec == Init /\ [][Next]_vars

-----------------------------------------------------------------------------
(* Properties. *)

(* _confirm_crc: whatever single reads were torn, and across relaunches of *)
(* the agent, the published count is one the counter has really had.       *)
CrcWasReal == agreed # None => agreed \in 0..crc

(* _derive: a rate is taken between two polls of the same agent process,   *)
(* never over the gap of a relaunch.                                       *)
RateWithinProcess == rateOf # <<>> => rateOf[1] = rateOf[2]

(* _perf_tick: a window that is shown began with a clear by an agent       *)
(* process, not with a reset or with counters that cannot be cleared, even *)
(* when an earlier agent was killed between freeze and clear.              *)
WindowWasCleared == window # None => fixed /\ window \in 1..proc

(* _publish: a browser that reads late loses old events, never the newest, *)
(* and what is left is in order.                                           *)
LatestNotLost ==
    /\ Len(queue) <= SUBSCRIBER_QUEUE_MAX
    /\ \A i \in 1..Len(queue) : queue[i] = published - Len(queue) + i

-----------------------------------------------------------------------------
(* Why they hold. *)

TypeOK ==
    /\ proc \in Nat /\ up \in BOOLEAN /\ fixed \in BOOLEAN
    /\ crc \in Nat /\ published \in Nat /\ queue \in Seq(Nat)
    /\ up => proc > 0

(* A count is confirmed against the sample before it. *)
PendingIsLast == pending = lastRead

(* The anchor is of the process that runs. *)
AnchorIsOwn == anchor \in {0, proc} /\ (anchor # 0 => up)

(* A process that has armed the counters has cleared them. *)
ArmedIsCleared == up /\ perfSt # "new" /\ fixed => clearedBy = proc

IInv ==
    /\ TypeOK /\ PendingIsLast /\ AnchorIsOwn /\ ArmedIsCleared
    /\ CrcWasReal /\ RateWithinProcess /\ WindowWasCleared /\ LatestNotLost
=============================================================================

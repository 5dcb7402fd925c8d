---------------------------- MODULE PerfMonitor ----------------------------
(***************************************************************************)
(* The performance monitor and the driver that reads it.                   *)
(*                                                                         *)
(* tidelink_perf counts packets, words and busy clocks and stamps three    *)
(* moments of a packet with the PHC's time.  tidelink_perf.c reads the     *)
(* registers one bus access at a time: counters under a freeze, timestamps *)
(* without one.  pipeline_example.c stamps a packet's origin with phc.c    *)
(* and measures it.  A clock of the hardware and an access of the software *)
(* are single steps; the counters stand for the nine of the hardware.      *)
(* One call is made at a time: the driver has no lock, and a call from an  *)
(* interrupt handler in the middle of another is not modelled.             *)
(***************************************************************************)
EXTENDS Integers, Sequences

CONSTANTS
    NsPerSec,     \* nanoseconds in a second
    Word,         \* how many values a register has
    MaxTime,      \* how many clocks are modelled
    MaxCalls      \* how many driver calls are modelled

Counters == {"tx", "rx", "word", "busy", "sample"}
Stamps == {"origin", "tx_start", "rx_first", "rx_done"}

VARIABLES
    now,      \* the PHC's time in nanoseconds
    ctrl,     \* PERF_CTRL: enable and freeze
    count,    \* the counters
    stamp,    \* the timestamp registers, seconds and nanoseconds
    when,     \* the time of the event each timestamp was taken at
    sending,  \* tx_pkt_active: a packet's first word is still to come
    cpu,      \* the driver call under way
    calls,    \* how many calls were made
    result    \* what the last finished call returned

vars == <<now, ctrl, count, stamp, when, sending, cpu, calls, result>>

sec(t) == (t \div NsPerSec) % Word
ns(t) == t % NsPerSec
stamp_of(t) == [s |-> sec(t), n |-> ns(t)]

active == ctrl.en /\ ~ctrl.freeze
idle == [call |-> "none", todo |-> <<>>, buf |-> <<>>, en |-> FALSE, calm |-> TRUE,
         start |-> <<>>]

Init ==
    /\ now = 0 /\ sending = FALSE
    /\ ctrl = [en |-> FALSE, freeze |-> FALSE]
    /\ count = [c \in Counters |-> 0]
    /\ when = [s \in Stamps |-> 0] /\ stamp = [s \in Stamps |-> stamp_of(0)]
    /\ cpu = idle /\ calls = 0
    /\ result = [call |-> "none"]

-----------------------------------------------------------------------------
(* The monitor *)

sat_inc(c, up) == IF up THEN (IF c = Word - 1 THEN c ELSE c + 1) ELSE c

(* What a clock with events e adds to each counter. *)
counted(e) ==
    [c \in Counters |->
        sat_inc(count[c], CASE c = "sample" -> TRUE
                            [] c = "tx"     -> "tx_pkt_start" \in e
                            [] c = "rx"     -> "rx_committed" \in e
                            [] c = "word"   -> "tx_word" \in e
                            [] c = "busy"   -> "busy" \in e)]

(* The timestamps a clock with events e takes. *)
taken(e) ==
    {s \in Stamps : \/ s = "tx_start" /\ sending /\ "tx_word" \in e
                    \/ s = "rx_first" /\ "rx_first" \in e
                    \/ s = "rx_done" /\ "rx_committed" \in e}

Clock ==
    /\ now < MaxTime
    /\ now' = now + 1
    /\ \E e \in {{}, {"tx_pkt_start", "busy"}, {"tx_word", "busy"}, {"rx_first"},
                 {"rx_committed"}} :
        LET ts == IF active THEN taken(e) ELSE {}
        IN  /\ count' = IF active THEN counted(e) ELSE count
            /\ stamp' = [s \in Stamps |-> IF s \in ts THEN stamp_of(now) ELSE stamp[s]]
            /\ when' = [s \in Stamps |-> IF s \in ts THEN now ELSE when[s]]
            /\ sending' = ((sending \/ ("tx_pkt_start" \in e /\ ctrl.en)) /\ "tx_start" \notin ts)
            /\ cpu' = [cpu EXCEPT !.calm = @ /\ ts = {}]
    /\ UNCHANGED <<ctrl, calls, result>>

-----------------------------------------------------------------------------
(* The driver *)

begin == cpu.call = "none" /\ calls < MaxCalls /\ calls' = calls + 1

(* tl_perf_init, tl_perf_enable, tl_perf_disable, tl_perf_clear_counters,  *)
(* tl_perf_clear_timestamps.  The last leaves the timestamps as they are:  *)
(* CLEAR_TS takes back their valid bits, which the driver does not read.   *)
Control ==
    /\ begin
    /\ \E en, clear \in BOOLEAN :
        /\ ctrl' = [en |-> en, freeze |-> FALSE]
        /\ count' = IF clear THEN [c \in Counters |-> 0] ELSE count
    /\ UNCHANGED <<now, stamp, when, sending, cpu, result>>

(* phc_capture latches the time whole; tl_perf_set_origin_ts stores it. *)
SetOrigin ==
    /\ begin
    /\ stamp' = [stamp EXCEPT !["origin"] = stamp_of(now)]
    /\ when' = [when EXCEPT !["origin"] = now]
    /\ UNCHANGED <<now, ctrl, count, sending, cpu, result>>

CounterRegs == <<"tx", "rx", "word", "busy", "sample">>
PipelineRegs ==
    <<"origin", "origin", "tx_start", "tx_start", "rx_first", "rx_first", "rx_done", "rx_done">>

(* tl_perf_get_counters and tl_perf_get_utilisation begin with the freeze. *)
freeze_nothing(en) == [en |-> en, freeze |-> FALSE]
freeze(en) == [en |-> en, freeze |-> TRUE]

GetCounters ==
    /\ begin
    /\ ctrl' = freeze(ctrl.en)
    /\ cpu' = [idle EXCEPT !.call = "counters", !.todo = CounterRegs, !.en = ctrl.en,
                           !.start = count]
    /\ UNCHANGED <<now, count, stamp, when, sending, result>>

ReadCounter ==
    /\ cpu.call = "counters" /\ cpu.todo # <<>>
    /\ cpu' = [cpu EXCEPT !.buf = Append(@, count[cpu.todo[1]]), !.todo = Tail(@)]
    /\ UNCHANGED <<now, ctrl, count, stamp, when, sending, calls, result>>

utilisation(busy, total) == IF total = 0 THEN 0 ELSE ((busy * 100) % Word) \div total

Unfreeze ==
    /\ cpu.call = "counters" /\ cpu.todo = <<>>
    /\ ctrl' = [en |-> cpu.en, freeze |-> FALSE]
    /\ result' = [call |-> "counters", buf |-> cpu.buf, at |-> cpu.start,
                  util |-> utilisation(cpu.buf[4], cpu.buf[5])]
    /\ cpu' = idle
    /\ UNCHANGED <<now, count, stamp, when, sending, calls>>

(* tl_perf_get_pipeline_ns reads nanoseconds and seconds of each stamp, one *)
(* after the other, with no freeze.                                        *)
GetPipeline ==
    /\ begin
    /\ cpu' = [idle EXCEPT !.call = "pipeline", !.todo = PipelineRegs]
    /\ UNCHANGED <<now, ctrl, count, stamp, when, sending, result>>

ReadStamp ==
    LET s == stamp[cpu.todo[1]]
        low == Len(cpu.buf) % 2 = 0
    IN  /\ cpu.call = "pipeline" /\ cpu.todo # <<>>
        /\ cpu' = [cpu EXCEPT !.buf = Append(@, IF low THEN s.n ELSE s.s),
                              !.todo = Tail(@)]
        /\ UNCHANGED <<now, ctrl, count, stamp, when, sending, calls, result>>

(* a - b in nanoseconds, in the registers' width. *)
ts_diff_ns(a, b) ==
    LET secs == (a.s - b.s) % Word
    IN  IF a.n >= b.n THEN (secs * NsPerSec + (a.n - b.n)) % Word
        ELSE (((secs - 1) % Word) * NsPerSec + (NsPerSec + a.n - b.n)) % Word

Latencies ==
    /\ cpu.call = "pipeline" /\ cpu.todo = <<>>
    /\ LET r(i) == [n |-> cpu.buf[2 * i - 1], s |-> cpu.buf[2 * i]]
       IN  result' = [call |-> "pipeline", calm |-> cpu.calm, at |-> when,
                      sw |-> ts_diff_ns(r(2), r(1)), link |-> ts_diff_ns(r(3), r(2)),
                      fifo |-> ts_diff_ns(r(4), r(3)), total |-> ts_diff_ns(r(4), r(1))]
    /\ cpu' = idle
    /\ UNCHANGED <<now, ctrl, count, stamp, when, sending, calls>>

Next == Clock \/ Control \/ SetOrigin \/ GetCounters \/ ReadCounter \/ Unfreeze
        \/ GetPipeline \/ ReadStamp \/ Latencies

Spec == Init /\ [][Next]_vars

-----------------------------------------------------------------------------
(* The counters a call returns are those of one instant, the freeze, though *)
(* the hardware counts on between the reads (tl_perf_get_counters).        *)
SnapshotIsOneInstant ==
    result.call = "counters" =>
        result.buf = [i \in 1..Len(CounterRegs) |-> result.at[CounterRegs[i]]]

(* When no event is stamped while the stamps are read, the four latencies  *)
(* are the times between the events, in the registers' width, and the      *)
(* stages add up to the total (tl_perf_get_pipeline_ns, ts_diff_ns).       *)
LatenciesAreTimes ==
    (result.call = "pipeline" /\ result.calm) =>
        /\ result.sw = (result.at["tx_start"] - result.at["origin"]) % Word
        /\ result.link = (result.at["rx_first"] - result.at["tx_start"]) % Word
        /\ result.fifo = (result.at["rx_done"] - result.at["rx_first"]) % Word
        /\ (result.sw + result.link + result.fifo) % Word = result.total

-----------------------------------------------------------------------------
(* Why they hold. *)

TypeOK ==
    /\ now \in Nat /\ ctrl \in [en : BOOLEAN, freeze : BOOLEAN]
    /\ count \in [Counters -> Nat] /\ when \in [Stamps -> Nat]
    /\ cpu.call \in {"none", "counters", "pipeline"}
    /\ cpu.todo \in Seq(Counters \cup Stamps) /\ cpu.buf \in Seq(Nat) /\ cpu.en \in BOOLEAN
    /\ cpu = [call |-> cpu.call, todo |-> cpu.todo, buf |-> cpu.buf, en |-> cpu.en,
              calm |-> cpu.calm, start |-> cpu.start]

(* A timestamp register holds the time of its event. *)
StampedWhen == stamp = [s \in Stamps |-> stamp_of(when[s])]

(* A call reads its registers in order. *)
Regs == IF cpu.call = "counters" THEN CounterRegs ELSE PipelineRegs
InOrder ==
    cpu.call # "none" =>
        /\ Len(cpu.buf) + Len(cpu.todo) = Len(Regs)
        /\ \A i \in 1..Len(cpu.todo) : cpu.todo[i] = Regs[Len(cpu.buf) + i]

(* The counters do not move while they are read. *)
ReadFrozen ==
    cpu.call = "counters" =>
        /\ ctrl.freeze /\ cpu.start = count
        /\ \A i \in 1..Len(cpu.buf) : cpu.buf[i] = count[CounterRegs[i]]

(* Stamps that no event has moved yet are those that were read. *)
Half(i, t) == IF i % 2 = 1 THEN ns(t) ELSE sec(t)
ReadCalm ==
    cpu.call = "pipeline" /\ cpu.calm =>
        \A i \in 1..Len(cpu.buf) : cpu.buf[i] = Half(i, when[PipelineRegs[i]])

IInv ==
    /\ TypeOK /\ StampedWhen /\ InOrder /\ ReadFrozen /\ ReadCalm
    /\ SnapshotIsOneInstant /\ LatenciesAreTimes
=============================================================================

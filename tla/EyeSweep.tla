------------------------------ MODULE EyeSweep ------------------------------
(***************************************************************************)
(* The eye toolkit's sweeps.  The phase sweep (eye_sweep.py, from its      *)
(* command line or from the live page through sweep_live.py) walks         *)
(* swi_phase_offset over all taps of one or two boards, records the lane   *)
(* lock at each, and puts the phase back.  The deep capture arms the       *)
(* calibrator's eye recorder (tidelink_phy_align_calibrator.sv) lane by    *)
(* lane and drains its score buffer.                                       *)
(***************************************************************************)
EXTENDS Naturals, FiniteSets

CONSTANTS
    Progs,    \* subset of {"cli", "live", "deep"}
    Boards,   \* the boards swept: "master", and "slave" if there are two
    Taps,     \* phase taps, 0 .. Taps - 1
    Lanes     \* lanes of the deep capture, 0 .. Lanes - 1

VARIABLES
    prog,
    phy, lock,     \* by board: swi_phase_offset; the phase the lanes have settled on
    orig,          \* by board: the phase read before the sweep
    pc, tap,       \* by board: the generator's position
    rows,          \* <<board, tap, phase the status belongs to>>
    cancelled,     \* the live run was cancelled
    auto,          \* deep: --auto-increment
    cal,           \* deep: the calibrator sweeps, or is done and idles
    eye,           \* deep: SWI_EYE_STATUS.state, arm latch, lane_sel
    buf,           \* deep: the lane whose scores fill the buffer, or Empty
    host,          \* deep: the host's position
    die, lane,     \* deep: the die and lane the host is at
    scores         \* deep: by lane, the lane whose scores were stored for it

sweep == <<phy, lock, orig, pc, tap, rows, cancelled>>
deep == <<auto, cal, eye, buf, host, die, lane, scores>>
vars == <<prog, sweep, deep>>

None == 99
Empty == 98
Idle == [state |-> "IDLE", arm |-> FALSE, sel |-> 0, inc |-> FALSE]

Init ==
    /\ prog \in Progs
    /\ phy \in [Boards -> 0 .. Taps - 1] /\ lock = phy /\ orig = [b \in Boards |-> None]
    /\ pc = [b \in Boards |-> "idle"] /\ tap = [b \in Boards |-> 0]
    /\ rows = {} /\ cancelled = FALSE
    /\ auto \in BOOLEAN /\ cal \in {"sweep", "done"}
    /\ eye = Idle /\ buf = Empty /\ host = "enter" /\ die = "master" /\ lane = 0 /\ scores = [l \in 0 .. Lanes - 1 |-> None]

go(b, to) == pc' = [pc EXCEPT ![b] = to]
set(f, b, v) == [f EXCEPT ![b] = v]
Phase == prog \in {"cli", "live"}

-----------------------------------------------------------------------------
(* iter_sweep_global_phase.  Every access is an ssh command that may fail; *)
(* a failed write may or may not have reached the register.                *)

(* The original phase is read before the try block.  The command line      *)
(* sweeps the boards one after the other, and ends at the first failure;   *)
(* the live page sweeps both at once.                                      *)
Begin(b) ==
    /\ Phase /\ pc[b] = "idle" /\ ~cancelled
    /\ prog = "cli" /\ b = "slave" /\ "master" \in Boards => pc["master"] = "done"
    /\ \/ go(b, "write") /\ orig' = set(orig, b, phy[b])
       \/ go(b, "failed") /\ UNCHANGED orig
    /\ UNCHANGED <<prog, phy, lock, tap, rows, cancelled, deep>>

WriteTap(b) ==
    /\ pc[b] = "write"
    /\ IF tap[b] = Taps THEN go(b, "restore") /\ UNCHANGED phy
       ELSE \/ phy' = set(phy, b, tap[b]) /\ go(b, IF prog = "cli" THEN "settle" ELSE "read")
            \/ phy' \in {phy, set(phy, b, tap[b])} /\ go(b, "restore")
    /\ UNCHANGED <<prog, lock, orig, tap, rows, cancelled, deep>>

(* sleep_fn(settle_s): the lanes settle on the phase just written. *)
Settle(b) ==
    /\ pc[b] = "settle" /\ go(b, "read") /\ lock' = set(lock, b, phy[b])
    /\ UNCHANGED <<prog, phy, orig, tap, rows, cancelled, deep>>

(* The lanes settle in their own time. *)
LanesSettle(b) ==
    /\ Phase /\ lock[b] # phy[b] /\ lock' = set(lock, b, phy[b])
    /\ UNCHANGED <<prog, phy, orig, pc, tap, rows, cancelled, deep>>

ReadTap(b) ==
    /\ pc[b] = "read"
    /\ \/ rows' = rows \cup {<<b, tap[b], lock[b]>>} /\ go(b, "yield")
       \/ go(b, "restore") /\ UNCHANGED rows
    /\ UNCHANGED <<prog, phy, lock, orig, tap, cancelled, deep>>

(* A row is out.  The live page sleeps here, after the read; a cancelled   *)
(* run closes the generator between two steps, or lets the step in the     *)
(* executor end and the generator be finalised.                            *)
Yield(b) ==
    /\ pc[b] = "yield"
    /\ IF cancelled THEN go(b, "restore") /\ UNCHANGED <<tap, lock>>
       ELSE go(b, "write") /\ tap' = set(tap, b, tap[b] + 1)
            /\ lock' = IF prog = "live" THEN set(lock, b, phy[b]) ELSE lock
    /\ UNCHANGED <<prog, phy, orig, rows, cancelled, deep>>

(* The finally block. *)
Restore(b) ==
    /\ pc[b] = "restore"
    /\ \/ phy' = set(phy, b, orig[b]) /\ go(b, "done")
       \/ phy' \in {phy, set(phy, b, orig[b])} /\ go(b, "stuck")
    /\ UNCHANGED <<prog, lock, orig, tap, rows, cancelled, deep>>

(* run_paired_sweep's consumer goes away: both tasks are cancelled. *)
Cancel ==
    /\ prog = "live" /\ ~cancelled /\ cancelled' = TRUE
    /\ pc' = [b \in Boards |-> IF pc[b] = "idle" THEN "done" ELSE pc[b]]
    /\ UNCHANGED <<prog, phy, lock, orig, tap, rows, deep>>

-----------------------------------------------------------------------------
(* The deep capture.  The calibrator: something retrains the link, or its  *)
(* sweep ends.  ENTER does not start it.                                   *)
Calibrator ==
    /\ prog = "deep" /\ cal' = (IF cal = "done" THEN "sweep" ELSE "done")
    /\ UNCHANGED <<prog, sweep, auto, eye, buf, host, die, lane, scores>>

(* While armed and sweeping, the selected lane's scores fill the buffer.   *)
ScoreWrite ==
    /\ prog = "deep" /\ eye.arm /\ cal = "sweep" /\ buf' = eye.sel
    /\ UNCHANGED <<prog, sweep, auto, cal, eye, host, die, lane, scores>>

(* Armed, the recorder is done when the calibrator is done, or times out;  *)
(* either disarms it.                                                      *)
EyeFsm ==
    /\ prog = "deep" /\ eye.arm
    /\ \/ /\ cal = "done"
          /\ eye' = [eye EXCEPT !.state = "DONE", !.arm = FALSE,
                                !.sel = IF eye.inc THEN (@ + 1) % Lanes ELSE @]
       \/ cal # "done" /\ eye' = [eye EXCEPT !.state = "TIMED_OUT", !.arm = FALSE]
    /\ UNCHANGED <<prog, sweep, auto, cal, buf, host, die, lane, scores>>

(* sweep_deep_per_lane: LANE_SEL, DWELL_US, ENTER; per lane, or once.      *)
Enter ==
    /\ prog = "deep" /\ host = "enter"
    /\ eye' = [state |-> "SWEEPING", arm |-> TRUE, sel |-> lane, inc |-> auto]
    /\ host' = "poll"
    /\ UNCHANGED <<prog, sweep, auto, cal, buf, die, lane, scores>>

(* _poll_status_until_done ends at DONE or TIMED_OUT and the buffer is     *)
(* drained; or it raises after its own time-out.                           *)
PollAndDrain ==
    /\ host = "poll"
    /\ \/ /\ eye.state \in {"DONE", "TIMED_OUT"}
          /\ scores' = [scores EXCEPT ![lane] = buf]
          /\ lane' = lane + 1
          /\ host' = IF lane + 1 = Lanes THEN "saved" ELSE IF auto THEN "poll" ELSE "enter"
       \/ eye.state = "SWEEPING" /\ host' = "raised" /\ UNCHANGED <<scores, lane>>
    /\ UNCHANGED <<prog, sweep, auto, cal, eye, buf, die>>

(* _run_deep_mode and capture_bilateral: the peer die's own recorder next, *)
(* over the peer aperture or a second ssh.                                 *)
NextDie ==
    /\ host = "saved" /\ die = "master" /\ die' = "slave"
    /\ host' = "enter" /\ lane' = 0 /\ scores' = [l \in 0 .. Lanes - 1 |-> None]
    /\ cal' \in {"sweep", "done"} /\ eye' = Idle /\ buf' = Empty
    /\ UNCHANGED <<prog, sweep, auto>>

Next ==
    \/ \E b \in Boards : \/ Begin(b) \/ WriteTap(b) \/ Settle(b) \/ LanesSettle(b)
                         \/ ReadTap(b) \/ Yield(b) \/ Restore(b)
    \/ Cancel \/ Calibrator \/ ScoreWrite \/ EyeFsm \/ Enter \/ PollAndDrain \/ NextDie

Spec == Init /\ [][Next]_vars

-----------------------------------------------------------------------------
(* However a phase sweep ends (all taps, a failed ssh, a cancelled run),   *)
(* the board's phase is the one it had before, unless the restoring write  *)
(* itself failed; both boards of a pair are restored on their own.         *)
PhaseRestored ==
    \A b \in Boards : pc[b] = "done" /\ orig[b] # None => phy[b] = orig[b]

(* A row of the command line's sweep reports the lock status of its own    *)
(* tap and not of the one before, whatever the lanes' settling order.  The *)
(* live page waits after its read instead of before it, so its rows may    *)
(* show the tap before and nothing is claimed of them.                     *)
RowsSettled == prog = "cli" => \A r \in rows : r[2] = r[3]

-----------------------------------------------------------------------------
(* The inductive invariant *)

TypeOK ==
    /\ DOMAIN phy = Boards /\ DOMAIN lock = Boards /\ DOMAIN orig = Boards /\ DOMAIN tap = Boards
    /\ pc \in [Boards -> {"idle", "write", "settle", "read", "yield", "restore", "done", "stuck", "failed"}]

(* A board that was not swept has nothing to be restored. *)
IdleIsUnread == \A b \in Boards : pc[b] \in {"idle", "failed"} => orig[b] = None

(* Between its write and its read a tap is set, and settled in the end. *)
TapIsSet ==
    prog = "cli" =>
        \A b \in Boards : /\ pc[b] \in {"settle", "read"} => phy[b] = tap[b]
                          /\ pc[b] = "read" => lock[b] = phy[b]

IInv == TypeOK /\ IdleIsUnread /\ TapIsSet /\ PhaseRestored /\ RowsSettled
=============================================================================

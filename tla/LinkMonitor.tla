----------------------------- MODULE LinkMonitor -----------------------------
(***************************************************************************)
(* The live link monitor of the throughput GUI (monitor.py): start and     *)
(* stop requests, the session they share through AppState.monitor_session, *)
(* one die loop per board that launches an agent, reads its stream and     *)
(* relaunches it, and the lease that covers the polling.                   *)
(*                                                                         *)
(* The server is single threaded: a step runs from one suspension to the   *)
(* next.  A start request is also the session it becomes.  A session's     *)
(* leases are one, taken and given back as a whole.  What a poll says, and *)
(* who subscribes to it, is MonitorPolls.                                  *)
(***************************************************************************)
EXTENDS Naturals, FiniteSets

CONSTANTS
    StartRequests, \* how many start requests come; each is at most one session
    StopRequests,  \* how many stop requests come, the shutdown hook included
    MAX_RESTARTS   \* relaunches after a failure, per die

Dies == {"master", "slave"}

(* Requests are numbered in the order in which they come. *)
Sessions == 1..StartRequests
Stops == 1..StopRequests
Unowned == 0

VARIABLES
    pc,           \* where each start request is suspended
    stopPc,       \* where each stop request is suspended
    target,       \* the session a stop request works on
    session,      \* AppState.monitor_session
    state,        \* MonitorSession.state
    loop,         \* where each die loop is suspended
    clean,        \* the stream ended with done
    cancel,       \* a CancelledError is waiting for the die loop
    open,         \* the channel has a process it has not reaped
    die,          \* _Die.state
    restarts,     \* _Die.restarts
    lease         \* the daemon's holder of the boards

vars == <<pc, stopPc, target, session, state, loop, clean, cancel, open, die, restarts, lease>>

handlerVars == <<pc, stopPc, target, session>>
loopVars == <<loop, clean, cancel, open>>
dieVars == <<die, restarts>>

PerDie(x) == [s \in Sessions |-> [d \in Dies |-> x]]

Active == {"launch", "stream", "closing", "backoff"}
Quiet(s) == \A d \in Dies : loop[s][d] \notin Active

-----------------------------------------------------------------------------
(* POST /api/monitor/start. *)

MonitorStart(s) ==
    /\ pc[s] = "idle" /\ \A t \in 1..(s - 1) : pc[t] # "idle"
    /\ pc' = [pc EXCEPT ![s] =
                IF session # Unowned /\ state[session] \in {"running", "stopping"} THEN "rejected" ELSE "leasing"]
    /\ UNCHANGED <<stopPc, target, session, state, loopVars, dieVars, lease>>

(* Granted; or queued behind a holder, here or elsewhere, or refused; or   *)
(* granted to a request that has given up waiting for the answer.          *)
AcquireAll(s) ==
    /\ pc[s] = "leasing"
    /\ \/ lease = Unowned /\ lease' = s /\ pc' = [pc EXCEPT ![s] = "staging"]
       \/ pc' = [pc EXCEPT ![s] = "rejected"] /\ UNCHANGED lease
       \/ lease = Unowned /\ lease' = s /\ pc' = [pc EXCEPT ![s] = "rejected"]
    /\ UNCHANGED <<stopPc, target, session, state, loopVars, dieVars>>

StageFails(s) ==
    /\ pc[s] = "staging"
    /\ pc' = [pc EXCEPT ![s] = "backout"]
    /\ UNCHANGED <<stopPc, target, session, state, loopVars, dieVars, lease>>

(* release_all by the session's own tokens: a lost release changes nothing *)
(* at the daemon, and one of an expired lease neither.                     *)
ReleaseAll(s) == lease' \in {lease, IF lease = s THEN Unowned ELSE lease}

BackOut(s) ==
    /\ pc[s] = "backout"
    /\ ReleaseAll(s)
    /\ pc' = [pc EXCEPT ![s] = "rejected"]
    /\ UNCHANGED <<stopPc, target, session, state, loopVars, dieVars>>

(* Both agents are staged: the session is registered, and start() creates  *)
(* the die loops without suspending.                                       *)
SessionStarts(s) ==
    /\ pc[s] = "staging"
    /\ pc' = [pc EXCEPT ![s] = "up"]
    /\ session' = s
    /\ state' = [state EXCEPT ![s] = "running"]
    /\ loop' = [loop EXCEPT ![s] = [d \in Dies |-> "launch"]]
    /\ open' = [open EXCEPT ![s] = [d \in Dies |-> TRUE]]
    /\ UNCHANGED <<stopPc, target, clean, cancel, dieVars, lease>>

-----------------------------------------------------------------------------
(* The die loop. *)

Goto(s, d, place) == loop' = [loop EXCEPT ![s][d] = place]
SetDie(s, d, st) == die' = [die EXCEPT ![s][d] = st]

(* The agent has been spawned, and prints a first line in time. *)
FirstLine(s, d) ==
    /\ loop[s][d] = "launch"
    /\ ~cancel[s][d]
    /\ Goto(s, d, "stream")
    /\ SetDie(s, d, "streaming")
    /\ UNCHANGED <<handlerVars, state, clean, cancel, open, restarts, lease>>

(* No line in time, EOF, or a refusal, with and without the options and as *)
(* a run role: each attempt's process is killed, and the loop closes the   *)
(* channel.                                                                *)
Unsupported(s, d) ==
    /\ loop[s][d] = "launch"
    /\ ~cancel[s][d]
    /\ Goto(s, d, "closing")
    /\ UNCHANGED <<handlerVars, state, clean, cancel, open, dieVars, lease>>

(* done at the end of the backstop, or the pipe closes without it. *)
StreamEnds(s, d) ==
    /\ loop[s][d] = "stream"
    /\ ~cancel[s][d]
    /\ \E c \in BOOLEAN : clean' = [clean EXCEPT ![s][d] = c]
    /\ Goto(s, d, "closing")
    /\ UNCHANGED <<handlerVars, state, cancel, open, dieVars, lease>>

Renews(s, d) == clean[s][d]

(* _maybe_fail_session, after the die has been marked. *)
MaybeFailSession(s) ==
    state' = IF \A e \in Dies : die'[s][e] = "failed" THEN [state EXCEPT ![s] = "failed"] ELSE state

BudgetSpent(s, d) == restarts[s][d] >= MAX_RESTARTS

(* The finally clause has closed the channel; then the loop ends, renews   *)
(* the stream, gives up or backs off.                                      *)
Closed(s, d) ==
    /\ loop[s][d] = "closing"
    /\ ~cancel[s][d]
    /\ open' = [open EXCEPT ![s][d] = state[s] # "stopping" /\ Renews(s, d)]
    /\ clean' = [clean EXCEPT ![s][d] = FALSE]
    /\ IF state[s] = "stopping" THEN Goto(s, d, "over") /\ UNCHANGED <<state, dieVars>>
       ELSE IF Renews(s, d) THEN Goto(s, d, "launch") /\ UNCHANGED <<state, dieVars>>
       ELSE IF BudgetSpent(s, d)
          THEN /\ Goto(s, d, "over")
               /\ SetDie(s, d, "failed")
               /\ MaybeFailSession(s)
               /\ UNCHANGED restarts
       ELSE /\ Goto(s, d, "backoff")
            /\ SetDie(s, d, "stale")
            /\ restarts' = [restarts EXCEPT ![s][d] = @ + 1]
            /\ UNCHANGED state
    /\ UNCHANGED <<handlerVars, cancel, lease>>

Backoff(s, d) ==
    /\ loop[s][d] = "backoff"
    /\ ~cancel[s][d]
    /\ Goto(s, d, "launch")
    /\ open' = [open EXCEPT ![s][d] = TRUE]
    /\ UNCHANGED <<handlerVars, state, clean, cancel, dieVars, lease>>

(* CancelledError: through the finally clause if the loop is launching or  *)
(* streaming, straight out if it is in that clause or in the backoff.      *)
Cancelled(s, d) ==
    /\ cancel[s][d]
    /\ cancel' = [cancel EXCEPT ![s][d] = FALSE]
    /\ Goto(s, d, IF loop[s][d] \in {"launch", "stream"} THEN "closing" ELSE "over")
    /\ clean' = [clean EXCEPT ![s][d] = FALSE]
    /\ UNCHANGED <<handlerVars, state, open, dieVars, lease>>

-----------------------------------------------------------------------------
(* POST /api/monitor/stop. *)

StopGoto(p, place) == stopPc' = [stopPc EXCEPT ![p] = place]

(* With no session, or one already stopped, the request ends at once. *)
MonitorStop(p) ==
    /\ stopPc[p] = "idle" /\ \A q \in 1..(p - 1) : stopPc[q] # "idle"
    /\ target' = [target EXCEPT ![p] = session]
    /\ IF session = Unowned \/ (session # Unowned /\ state[session] = "stopped")
          THEN /\ session' = Unowned
               /\ StopGoto(p, "done")
               /\ UNCHANGED <<state, cancel>>
          ELSE /\ StopGoto(p, "gather")
               /\ state' = [state EXCEPT ![session] = "stopping"]
               /\ cancel' = [cancel EXCEPT ![session] = [d \in Dies |-> loop[session][d] \in Active]]
               /\ UNCHANGED session
    /\ UNCHANGED <<pc, loop, clean, open, dieVars, lease>>

Gather(p) ==
    /\ stopPc[p] = "gather"
    /\ Quiet(target[p])
    /\ StopGoto(p, "close")
    /\ UNCHANGED <<pc, target, session, state, loopVars, dieVars, lease>>

CloseChannels(p) ==
    /\ stopPc[p] = "close"
    /\ open' = [open EXCEPT ![target[p]] = [d \in Dies |-> FALSE]]
    /\ state' = [state EXCEPT ![target[p]] = "stopped"]
    /\ die' = [die EXCEPT ![target[p]] = [d \in Dies |-> IF @[d] = "failed" THEN "failed" ELSE "stopped"]]
    /\ StopGoto(p, "release")
    /\ UNCHANGED <<pc, target, session, loop, clean, cancel, restarts, lease>>

(* on_stopped: the daemon acts, and its answer comes back later. *)
OnStopped(p) ==
    /\ stopPc[p] = "release"
    /\ ReleaseAll(target[p])
    /\ StopGoto(p, "released")
    /\ UNCHANGED <<pc, target, session, state, loopVars, dieVars>>

StopReturns(p) ==
    /\ stopPc[p] = "released"
    /\ session' = Unowned
    /\ StopGoto(p, "done")
    /\ UNCHANGED <<pc, target, state, loopVars, dieVars, lease>>

-----------------------------------------------------------------------------
(* The lease daemon: the TTL, half an hour unless the request says         *)
(* otherwise, outlasts every handler, and nothing renews it.               *)
LeaseExpires ==
    /\ lease # Unowned
    /\ \A s \in Sessions : pc[s] \notin {"leasing", "staging", "backout"}
    /\ \A p \in Stops : stopPc[p] \in {"idle", "done"}
    /\ lease' = Unowned
    /\ UNCHANGED <<handlerVars, state, loopVars, dieVars>>

Init ==
    /\ pc = [s \in Sessions |-> "idle"]
    /\ stopPc = [p \in Stops |-> "idle"]
    /\ target = [p \in Stops |-> Unowned]
    /\ session = Unowned
    /\ state = [s \in Sessions |-> "idle"]
    /\ loop = PerDie("none")
    /\ clean = PerDie(FALSE)
    /\ cancel = PerDie(FALSE)
    /\ open = PerDie(FALSE)
    /\ die = PerDie("starting")
    /\ restarts = PerDie(0)
    /\ lease = Unowned

StartStep(s) == AcquireAll(s) \/ StageFails(s) \/ BackOut(s) \/ SessionStarts(s)
StopStep(p) == Gather(p) \/ CloseChannels(p) \/ OnStopped(p) \/ StopReturns(p)
LoopStep(s, d) ==
    FirstLine(s, d) \/ Unsupported(s, d) \/ Closed(s, d) \/ Backoff(s, d) \/ Cancelled(s, d)

Next ==
    \/ \E s \in Sessions : MonitorStart(s) \/ StartStep(s)
    \/ \E p \in Stops : MonitorStop(p) \/ StopStep(p)
    \/ \E s \in Sessions, d \in Dies : LoopStep(s, d) \/ StreamEnds(s, d)
    \/ LeaseExpires

(* Launching has a time limit, so have closing, the backoff and the calls  *)
(* to the daemon; nothing makes a stream end.                              *)
Spec ==
    /\ Init /\ [][Next]_vars
    /\ \A s \in Sessions : WF_vars(StartStep(s))
    /\ \A p \in Stops : WF_vars(StopStep(p))
    /\ \A s \in Sessions, d \in Dies : WF_vars(LoopStep(s, d))

-----------------------------------------------------------------------------
(* Properties. *)

(* MonitorSession.stop: once a session says stopped, no loop of it will    *)
(* touch a board again and no process is left to reap, whatever the loops  *)
(* were doing when they were cancelled, and however many stops overlap.    *)
StoppedIsQuiet ==
    \A s \in Sessions : state[s] = "stopped" =>
        \A d \in Dies : loop[s][d] \notin Active /\ ~open[s][d]

(* _die_loop and _maybe_fail_session: one dead board does not take the     *)
(* other down.  The session fails exactly when the last die fails, and a   *)
(* die of a session nobody stops is given up only when its budget is       *)
(* spent.                                                                  *)
FailsTogether ==
    \A s \in Sessions :
        /\ state[s] = "failed" <=> /\ state[s] \notin {"stopping", "stopped"}
                                   /\ \A d \in Dies : die[s][d] = "failed"
        /\ \A d \in Dies : state[s] = "running" /\ loop[s][d] = "over" =>
                               die[s][d] = "failed" /\ restarts[s][d] = MAX_RESTARTS

(* A window that ends cleanly is a renewal: a step that ends one leaves    *)
(* the restart budget alone.                                               *)
RenewalIsFree ==
    \A s \in Sessions, d \in Dies :
        loop[s][d] = "closing" /\ clean[s][d] => restarts'[s][d] = restarts[s][d]

(* A die that is stale comes back, is given up, or its session is stopped; *)
(* it is never left between two launches.                                  *)
IsStale(s, d) == die[s][d] = "stale" /\ loop[s][d] # "stream"

(* Every stop request is answered.                                         *)
Stopping(p) == stopPc[p] \notin {"idle", "done"}

-----------------------------------------------------------------------------
(* The inductive invariant behind the first two, for the proofs. *)

Working == {"gather", "close", "release", "released"}

TypeOK ==
    /\ pc \in [Sessions -> {"idle", "leasing", "staging", "backout", "rejected", "up"}]
    /\ stopPc \in [Stops -> Working \cup {"idle", "done"}]
    /\ target \in [Stops -> Sessions \cup {Unowned}]
    /\ session \in Sessions \cup {Unowned}
    /\ state \in [Sessions -> {"idle", "running", "failed", "stopping", "stopped"}]
    /\ loop \in [Sessions -> [Dies -> Active \cup {"none", "over"}]]
    /\ clean \in [Sessions -> [Dies -> BOOLEAN]]
    /\ cancel \in [Sessions -> [Dies -> BOOLEAN]]
    /\ open \in [Sessions -> [Dies -> BOOLEAN]]
    /\ die \in [Sessions -> [Dies -> {"starting", "streaming", "stale", "failed", "stopped"}]]
    /\ restarts \in [Sessions -> [Dies -> 0..MAX_RESTARTS]]

(* A request that has not become a session has touched nothing. *)
OnlySessionsRun ==
    /\ session # Unowned => pc[session] = "up"
    /\ \A s \in Sessions :
        /\ state[s] = "idle" <=> pc[s] # "up"
        /\ pc[s] # "up" => \A d \in Dies : loop[s][d] = "none" /\ die[s][d] = "starting"
        /\ pc[s] = "up" => \A d \in Dies : loop[s][d] # "none"

(* A stop works on a session, and waits for its loops before it closes. *)
StopsWait ==
    \A p \in Stops : stopPc[p] \in Working =>
        /\ target[p] # Unowned /\ pc[target[p]] = "up"
        /\ state[target[p]] \in {"stopping", "stopped"}
        /\ stopPc[p] = "close" => Quiet(target[p])

(* A cancellation is on its way only to a loop of a session being stopped. *)
CancelsStop ==
    \A s \in Sessions, d \in Dies : cancel[s][d] => state[s] = "stopping" /\ loop[s][d] \in Active

(* A die that failed has left its loop. *)
FailedIsOver == \A s \in Sessions, d \in Dies : die[s][d] = "failed" => loop[s][d] = "over"

IInv ==
    /\ TypeOK
    /\ StoppedIsQuiet
    /\ FailsTogether
    /\ OnlySessionsRun
    /\ StopsWait
    /\ CancelsStop
    /\ FailedIsOver

=============================================================================

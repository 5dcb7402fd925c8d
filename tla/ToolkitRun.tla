----------------------------- MODULE ToolkitRun -----------------------------
(***************************************************************************)
(* The run state machines of the two browser toolkits, eye (phase sweep)   *)
(* and stress (stress modes): eye_toolkit/web and stress_toolkit/web,      *)
(* runner.py and app.py, over the lease client and deploy runner they      *)
(* share.  A server is one or the other; its runs come one after another.  *)
(*                                                                         *)
(* A step runs from one suspension to the next.  An abort first kills the  *)
(* deploy processes and sleeps, and only then cancels the run's task, so   *)
(* a run meets it as a flag, as an exception, or as both.                  *)
(***************************************************************************)
EXTENDS Naturals

CONSTANT MaxRuns   \* bound: runs started

Runs == 1..MaxRuns
NoRun == 0
Terminal == {"done", "aborted", "failed"}
OnBoards == {"deploy", "converge", "reconverge", "work"}

VARIABLES
    kind,       \* which toolkit the server is
    current,    \* state.current_run
    pc,         \* where each run's task is suspended
    state,      \* Run.state
    sentinel,   \* the PHY-health sentinel of a stress run polls the boards
    flag,       \* Run._cancel
    abort,      \* where cancel() is suspended
    cancelled,  \* a CancelledError is on its way to the task
    token,      \* Run._lease_token
    beating,    \* the run's heartbeat task lives
    registered, \* the run whose heartbeat _hb_tasks holds for the board
    lease,      \* the daemon's holder
    lost        \* a grant or a release of this run was cut off

vars == <<kind, current, pc, state, sentinel, flag, abort, cancelled, token, beating, registered, lease, lost>>

leaseVars == <<token, beating, registered, lease, lost>>
abortVars == <<flag, abort, cancelled>>

(* _set_state and _fail: the state is set and posted. *)
Post(r, st) == state' = [state EXCEPT ![r] = st]

Goto(r, place) == pc' = [pc EXCEPT ![r] = place]

(* The finally clause releases the lease if there is a token, and only     *)
(* then cancels the sentinel.                                              *)
Leave(r) ==
    /\ Goto(r, IF token[r] THEN "release" ELSE "over")
    /\ sentinel' = [sentinel EXCEPT ![r] = @ /\ token[r]]

End(r, st) == Post(r, st) /\ Leave(r)

-----------------------------------------------------------------------------
(* POST /api/runs. *)

Busy == current # NoRun /\ (current # NoRun => state[current] \notin Terminal)

StartRun(r) ==
    /\ pc[r] = "none" /\ \A q \in 1..(r - 1) : pc[q] # "none"
    /\ ~Busy
    /\ current' = r
    /\ Goto(r, "acquire")
    /\ Post(r, "lease_acquiring")
    /\ UNCHANGED <<kind, sentinel, abortVars, leaseVars>>

-----------------------------------------------------------------------------
(* The run. *)

StateAt == [deploy |-> "deploying", converge |-> "converging", reconverge |-> "converging", work |-> "working"]

(* A stress run may start a sentinel with its mode. *)
Advance(r, place) ==
    /\ Goto(r, place)
    /\ Post(r, StateAt[place])
    /\ \/ UNCHANGED sentinel
       \/ kind = "stress" /\ place = "work" /\ sentinel' = [sentinel EXCEPT ![r] = TRUE]

(* Granted: the heartbeat starts under the board's name, and the options   *)
(* say where the run goes.                                                 *)
Acquire(r) ==
    /\ pc[r] = "acquire" /\ ~cancelled[r]
    /\ lease = NoRun
    /\ lease' = r
    /\ token' = [token EXCEPT ![r] = TRUE]
    /\ beating' = [beating EXCEPT ![r] = TRUE]
    /\ registered' = r
    /\ \E place \in {"deploy", "reconverge", "work"} : Advance(r, place)
    /\ UNCHANGED <<kind, current, abortVars, lost>>

(* Queued, refused, unreachable, or no such board. *)
AcquireFails(r) ==
    /\ pc[r] = "acquire" /\ ~cancelled[r]
    /\ End(r, "failed")
    /\ UNCHANGED <<kind, current, abortVars, leaseVars>>

(* What deploy_both comes to: bring-up starts, or ends well or is skipped, *)
(* or the stage is incomplete or bring-up does not converge.  A board whose *)
(* deploy failed is only reported.                                         *)
DeployBoth(r) ==
    \/ pc[r] = "deploy" /\ Advance(r, "converge")
    \/ Advance(r, "work")
    \/ End(r, "failed")

(* The eye run looks at the flag on every event, except when it only       *)
(* converges anew.                                                         *)
EyeDeploy(r) ==
    IF flag[r] /\ pc[r] # "reconverge" THEN End(r, "aborted") ELSE DeployBoth(r)

(* The stress run posts ABORTED, leaves the deploy step, and goes on into  *)
(* its mode, all without a suspension: only the event stream sees the      *)
(* ABORTED that RUNNING follows.                                           *)
StressDeploy(r) == IF flag[r] THEN Advance(r, "work") ELSE DeployBoth(r)

DeployEvent(r) ==
    /\ pc[r] \in {"deploy", "converge", "reconverge"} /\ ~cancelled[r]
    /\ \/ kind = "eye" /\ EyeDeploy(r)
       \/ kind = "stress" /\ StressDeploy(r)
    /\ UNCHANGED <<kind, current, abortVars, leaseVars>>

(* A row finds the flag set; or both boards' sweeps end, with the last row *)
(* or with an error of one, which is raised once the other is done.        *)
SweepEnds(r) ==
    /\ pc[r] = "work" /\ ~cancelled[r] /\ kind = "eye"
    /\ \/ flag[r] /\ End(r, "aborted")
       \/ End(r, "done")
       \/ End(r, "failed")
    /\ UNCHANGED <<kind, current, abortVars, leaseVars>>

(* An event of the mode finds the flag set; or the mode ends by itself, as *)
(* it does when it notices the flag or a health alarm before it yields; or *)
(* it fails, for instance on a board that does not answer.  RemoteMmio has *)
(* nothing to close: aclose() of the two boards does not suspend.          *)
ModeEnds(r) ==
    /\ pc[r] = "work" /\ ~cancelled[r] /\ kind = "stress"
    /\ \/ flag[r] /\ End(r, "aborted")
       \/ End(r, "done")
       \/ End(r, "failed")
    /\ UNCHANGED <<kind, current, abortVars, leaseVars>>

(* CancelledError in the body: ABORTED, and the finally clause.  A grant   *)
(* on its way is lost.                                                     *)
Cancelled(r) ==
    /\ cancelled[r] /\ pc[r] \in OnBoards \cup {"acquire"}
    /\ cancelled' = [cancelled EXCEPT ![r] = FALSE]
    /\ End(r, "aborted")
    /\ \/ UNCHANGED <<lease, lost>>
       \/ /\ pc[r] = "acquire" /\ lease = NoRun
          /\ lease' = r
          /\ lost' = [lost EXCEPT ![r] = TRUE]
    /\ UNCHANGED <<kind, current, flag, abort, token, beating, registered>>

(* CancelledError in the finally clause: it ends there, with the release   *)
(* sent or not, and the heartbeat and the sentinel still at work.          *)
CancelledInRelease(r) ==
    /\ cancelled[r] /\ pc[r] \in {"release", "released"}
    /\ cancelled' = [cancelled EXCEPT ![r] = FALSE]
    /\ Goto(r, "over")
    /\ lost' = [lost EXCEPT ![r] = TRUE]
    /\ UNCHANGED <<kind, current, state, sentinel, flag, abort, token, beating, registered, lease>>

-----------------------------------------------------------------------------
(* LeaseClient. *)

(* DELETE reaches the daemon; *)
Release(r) ==
    /\ pc[r] = "release" /\ ~cancelled[r]
    /\ lease' = IF lease = r THEN NoRun ELSE lease
    /\ Goto(r, "released")
    /\ UNCHANGED <<kind, current, state, sentinel, abortVars, token, beating, registered, lost>>

(* and answers: the heartbeat that is registered for the board is stopped, *)
(* whosever it is.                                                         *)
Released(r) ==
    /\ pc[r] = "released" /\ ~cancelled[r]
    /\ Goto(r, "over")
    /\ token' = [token EXCEPT ![r] = FALSE]
    /\ beating' = IF registered = NoRun THEN beating ELSE [beating EXCEPT ![registered] = FALSE]
    /\ registered' = NoRun
    /\ sentinel' = [sentinel EXCEPT ![r] = FALSE]
    /\ UNCHANGED <<kind, current, state, abortVars, lease, lost>>

(* An error of the release is swallowed; the heartbeat goes on. *)
ReleaseFails(r) ==
    /\ pc[r] = "release" /\ ~cancelled[r]
    /\ Goto(r, "over")
    /\ token' = [token EXCEPT ![r] = FALSE]
    /\ lost' = [lost EXCEPT ![r] = TRUE]
    /\ sentinel' = [sentinel EXCEPT ![r] = FALSE]
    /\ UNCHANGED <<kind, current, state, abortVars, beating, registered, lease>>

(* A heartbeat is refused or does not get through: the loop ends, and its   *)
(* on_failure aborts the run unless that is over or being aborted.          *)
HeartbeatFails(r) ==
    /\ beating[r]
    /\ beating' = [beating EXCEPT ![r] = FALSE]
    /\ IF state[r] \notin Terminal /\ abort[r] = "none"
          THEN /\ flag' = [flag EXCEPT ![r] = TRUE]
               /\ abort' = [abort EXCEPT ![r] = "killing"]
          ELSE UNCHANGED <<flag, abort>>
    /\ UNCHANGED <<kind, current, pc, state, sentinel, cancelled, token, registered, lease, lost>>

(* Without a heartbeat the daemon lets the lease run out. *)
LeaseExpires ==
    /\ lease # NoRun
    /\ ~beating[lease]
    /\ lease' = NoRun
    /\ UNCHANGED <<kind, current, pc, state, sentinel, abortVars, token, beating, registered, lost>>

(* POST /api/lease/release: the current run's lease goes, the run stays. *)
OperatorRelease ==
    /\ current # NoRun
    /\ token[current] /\ pc[current] \in OnBoards
    /\ lease' = IF lease = current THEN NoRun ELSE lease
    /\ beating' = IF registered = NoRun THEN beating ELSE [beating EXCEPT ![registered] = FALSE]
    /\ registered' = NoRun
    /\ token' = [token EXCEPT ![current] = FALSE]
    /\ UNCHANGED <<kind, current, pc, state, sentinel, abortVars, lost>>

-----------------------------------------------------------------------------
(* POST /api/runs/{id}/abort, and cancel() from the shutdown hook. *)

Abort(r) ==
    /\ pc[r] # "none" /\ abort[r] = "none"
    /\ state[r] \notin Terminal
    /\ flag' = [flag EXCEPT ![r] = TRUE]
    /\ abort' = [abort EXCEPT ![r] = "killing"]
    /\ UNCHANGED <<kind, current, pc, state, sentinel, cancelled, leaseVars>>

(* The processes are dead, or killed again after the sleep. *)
AbortCancels(r) ==
    /\ abort[r] = "killing"
    /\ abort' = [abort EXCEPT ![r] = "waiting"]
    /\ cancelled' = [cancelled EXCEPT ![r] = pc[r] # "over"]
    /\ UNCHANGED <<kind, current, pc, state, sentinel, flag, leaseVars>>

(* The task is over; cancel() then stops the sentinel, whether the task's  *)
(* own finally clause got to it or not.                                    *)
AbortReturns(r) ==
    /\ abort[r] = "waiting" /\ pc[r] = "over"
    /\ abort' = [abort EXCEPT ![r] = "done"]
    /\ sentinel' = [sentinel EXCEPT ![r] = FALSE]
    /\ UNCHANGED <<kind, current, pc, state, flag, cancelled, leaseVars>>

(* The sentinel's poll fails, or it finds the flag set. *)
SentinelEnds(r) ==
    /\ sentinel[r]
    /\ sentinel' = [sentinel EXCEPT ![r] = FALSE]
    /\ UNCHANGED <<kind, current, pc, state, abortVars, leaseVars>>

-----------------------------------------------------------------------------
Init ==
    /\ kind \in {"eye", "stress"}
    /\ current = NoRun
    /\ pc = [r \in Runs |-> "none"]
    /\ state = [r \in Runs |-> "idle"]
    /\ sentinel = [r \in Runs |-> FALSE]
    /\ flag = [r \in Runs |-> FALSE]
    /\ abort = [r \in Runs |-> "none"]
    /\ cancelled = [r \in Runs |-> FALSE]
    /\ token = [r \in Runs |-> FALSE]
    /\ beating = [r \in Runs |-> FALSE]
    /\ registered = NoRun
    /\ lease = NoRun
    /\ lost = [r \in Runs |-> FALSE]

TaskStep(r) ==
    \/ Cancelled(r) \/ CancelledInRelease(r)
    \/ Release(r) \/ Released(r) \/ ReleaseFails(r)
AbortStep(r) == AbortCancels(r) \/ AbortReturns(r)
WorkStep(r) == Acquire(r) \/ AcquireFails(r) \/ DeployEvent(r) \/ SweepEnds(r) \/ ModeEnds(r)

Next ==
    \/ \E r \in Runs : StartRun(r) \/ WorkStep(r) \/ TaskStep(r) \/ HeartbeatFails(r) \/ SentinelEnds(r)
    \/ \E r \in Runs : Abort(r) \/ AbortStep(r)
    \/ LeaseExpires \/ OperatorRelease

(* The event loop delivers exceptions and answers; every call to the       *)
(* daemon, and the sleep in an abort, has a time limit.  Deploys, sweeps   *)
(* and modes may take for ever.                                            *)
Spec ==
    /\ Init /\ [][Next]_vars
    /\ \A r \in Runs : WF_vars(TaskStep(r)) /\ WF_vars(AbortStep(r))

-----------------------------------------------------------------------------
(* Properties. *)

(* start_run refuses a run while one is in flight, by its state: so at     *)
(* most one run of a server works on the boards, although the previous     *)
(* run may still be releasing, or being aborted, when the next one starts. *)
OneRunOnBoards ==
    \A r, q \in Runs : pc[r] \in OnBoards /\ pc[q] \in OnBoards => r = q

(* runner.py, finally: a run that is over holds no lease at the daemon,    *)
(* unless its grant or its release was cut off by the abort or failed.     *)
LeaseGivenBack == \A r \in Runs : pc[r] = "over" /\ lease = r => lost[r]

(* cancel(): an abort that is accepted ends the run, wherever it finds it, *)
(* and is answered.                                                        *)
Aborting(r) == abort[r] # "none"
Aborted(r) == pc[r] = "over" /\ abort[r] = "done"

(* runner.py, _run and cancel(): once a run is over and no abort of it is  *)
(* under way, its sentinel polls the boards no more, even where the abort  *)
(* cut the finally clause short.                                           *)
SentinelStops ==
    \A r \in Runs : pc[r] = "over" /\ abort[r] \in {"none", "done"} => ~sentinel[r]

(* runner.py: a terminal state that a request can read is the run's last.  *)
TerminalOnce == \A r \in Runs : state[r] \in Terminal => state'[r] = state[r]

-----------------------------------------------------------------------------
(* The inductive invariant behind them, for the proofs. *)

TypeOK ==
    /\ current \in Runs \cup {NoRun}
    /\ pc \in [Runs -> OnBoards \cup {"none", "acquire", "release", "released", "over"}]
    /\ state \in [Runs -> Terminal \cup {"idle", "lease_acquiring", "deploying", "converging", "working"}]
    /\ token \in [Runs -> BOOLEAN]
    /\ lease \in Runs \cup {NoRun}
    /\ lost \in [Runs -> BOOLEAN]
    /\ sentinel \in [Runs -> BOOLEAN]
    /\ cancelled \in [Runs -> BOOLEAN]
    /\ abort \in [Runs -> {"none", "killing", "waiting", "done"}]

(* A run whose body has not ended is in flight, and the current one. *)
InFlightIsCurrent ==
    \A r \in Runs : pc[r] \in OnBoards \cup {"acquire"} => current = r /\ state[r] \notin Terminal

(* Until its release is sent, a run's lease has its token. *)
LeaseHasToken ==
    \A r \in Runs : lease = r =>
        /\ pc[r] \notin {"none", "acquire", "released"}
        /\ pc[r] \in OnBoards => token[r]

(* A CancelledError on its way belongs to an abort that waits for the run. *)
CancelsAreAwaited == \A r \in Runs : cancelled[r] => abort[r] = "waiting" /\ pc[r] # "over"

(* A run that has not started has neither a state nor a sentinel. *)
NotStarted == \A r \in Runs : pc[r] = "none" => state[r] = "idle" /\ ~sentinel[r]

IInv ==
    /\ TypeOK /\ InFlightIsCurrent /\ LeaseHasToken /\ LeaseGivenBack
    /\ CancelsAreAwaited /\ NotStarted /\ SentinelStops

=============================================================================

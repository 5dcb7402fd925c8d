----------------------------- MODULE MCHostServer -----------------------------
(***************************************************************************)
(* The servers and agents on the host for TLC.  Each behaviour is one of   *)
(* four programs that share no state: `which` says whose, and v1, v2, ...  *)
(* stand for that program's variables, in the order of its declaration.    *)
(***************************************************************************)
EXTENDS Integers

CONSTANTS
    Requests, NoOne, Stranger,                    \* of ThroughputGui
    ToolkitRuns,                                  \* of ToolkitRun
    MAX_CREDITS, Burst, AgentRuns, MaxDrained,    \* of AgentStream
    StartRequests, StopRequests, MAX_RESTARTS     \* of LinkMonitor

ASSUME GuiAssumption == NoOne \notin Requests /\ Stranger \notin Requests
ASSUME ToolkitAssumption == ToolkitRuns \in Nat
ASSUME AgentAssumption == MAX_CREDITS \in Nat /\ Burst \in Nat
ASSUME MonitorAssumption == MAX_RESTARTS \in Nat

VARIABLES which, v1, v2, v3, v4, v5, v6, v7, v8, v9, v10, v11, v12, v13

GUI == INSTANCE ThroughputGui WITH
    pc <- v1, fd <- v2, flocked <- v3, lease <- v4, tokens <- v5, current <- v6,
    state <- v7, todo <- v8, procs <- v9, reading <- v10, lapsed <- v11, cancelled <- v12
TK == INSTANCE ToolkitRun WITH
    kind <- v1, current <- v2, pc <- v3, state <- v4, sentinel <- v5, flag <- v6,
    abort <- v7, cancelled <- v8, token <- v9, beating <- v10, registered <- v11,
    lease <- v12, lost <- v13, MaxRuns <- ToolkitRuns
Agent == INSTANCE AgentStream WITH
    stage <- v1, runs <- v2, probes <- v3, baseOcc <- v4, stream <- v5, drain <- v6,
    pair <- v7, wire <- v8, occ <- v9, overrun <- v10, drained <- v11, sent <- v12,
    unpaid <- v13, MaxRuns <- AgentRuns
Mon == INSTANCE LinkMonitor WITH
    pc <- v1, stopPc <- v2, target <- v3, session <- v4, state <- v5, loop <- v6,
    clean <- v7, cancel <- v8, open <- v9, die <- v10, restarts <- v11, lease <- v12

(* The variables a program does not have. *)
Off13 == v13 = 0

Rest13 == v13
all == <<which, v1, v2, v3, v4, v5, v6, v7, v8, v9, v10, v11, v12, Rest13>>

Init ==
    \/ which = "gui" /\ GUI!Init /\ Off13
    \/ which = "toolkit" /\ TK!Init
    \/ which = "agents" /\ Agent!Init
    \/ which = "monitor" /\ Mon!Init /\ Off13

Next ==
    \/ which = "gui" /\ GUI!Next /\ UNCHANGED <<which, Rest13>>
    \/ which = "toolkit" /\ TK!Next /\ UNCHANGED which
    \/ which = "agents" /\ Agent!Next /\ UNCHANGED which
    \/ which = "monitor" /\ Mon!Next /\ UNCHANGED <<which, Rest13>>

(* What each program's scheduling guarantees: see the component modules. *)
Fairness ==
    /\ \A r \in Requests : WF_(GUI!vars)(which = "gui" /\ GUI!Step(r))
    /\ \A r \in TK!Runs : /\ WF_(TK!vars)(which = "toolkit" /\ TK!TaskStep(r))
                       /\ WF_(TK!vars)(which = "toolkit" /\ TK!AbortStep(r))
    /\ WF_(Agent!vars)(which = "agents" /\ Agent!Deliver)
    /\ WF_(Agent!vars)(which = "agents" /\ Agent!StreamConsume)
    /\ WF_(Agent!vars)(which = "agents" /\ Agent!StreamTimeUp)
    /\ WF_(Agent!vars)(which = "agents" /\ Agent!DrainTimeUp)
    /\ \A s \in Mon!Sessions : WF_(Mon!vars)(which = "monitor" /\ Mon!StartStep(s))
    /\ \A p \in Mon!Stops : WF_(Mon!vars)(which = "monitor" /\ Mon!StopStep(p))
    /\ \A s \in Mon!Sessions, d \in Mon!Dies : WF_(Mon!vars)(which = "monitor" /\ Mon!LoopStep(s, d))

Spec == Init /\ [][Next]_all /\ Fairness

-----------------------------------------------------------------------------
(* A run of the GUI is alone behind its flock and loses a granted lease    *)
(* only by the lease's own TTL; a toolkit's run is alone on its server and *)
(* gone from the daemon, its sentinel stopped, when it is over; a monitor  *)
(* session that says stopped leaves neither a loop nor a process behind.   *)
(* None of this says that a lease lasts as long as the work: the GUI and   *)
(* the monitor renew none, and an operator can take a toolkit's.           *)
BoardsAreHeld ==
    /\ which = "gui" => GUI!MutexCoversRun /\ GUI!RunHoldsLeases
    /\ which = "toolkit" => TK!OneRunOnBoards /\ TK!LeaseGivenBack /\ TK!SentinelStops
    /\ which = "monitor" => Mon!StoppedIsQuiet

(* A live run of the GUI is the one abort and the in-flight check see (one *)
(* that is over stays there until the next), and a monitor session has     *)
(* failed exactly when both its dies have spent their budget.              *)
StatusIsTrue ==
    /\ which = "gui" => GUI!LiveRunIsCurrent
    /\ which = "monitor" => Mon!FailsTogether

(* No step rewrites a run's terminal record, and the end of a clean        *)
(* monitor window spends none of the restart budget.                       *)
RecordsAreFinal ==
    [][/\ which = "gui" => GUI!TerminalOnce
       /\ which = "toolkit" => TK!TerminalOnce
       /\ which = "monitor" => Mon!RenewalIsFree]_all

(* tl_perf_agent.py: the packets a stream has sent and nobody has paid for *)
(* are the only ones above the FIFO's credit.                              *)
CreditAccounted == which = "agents" => Agent!CreditAccounted

(* Everything the host starts comes to an end: requests that took the      *)
(* mutex have given it and the leases back, accepted aborts are carried    *)
(* out and answered, a stream is over though its credit never returned, a  *)
(* stop is answered, and no die is left stale between two launches.        *)
Pending ==
    \/ which = "gui" /\ \E r \in Requests : GUI!HoldsMutex(r)
    \/ which = "toolkit" /\ \E r \in TK!Runs : TK!Aborting(r)
    \/ which = "agents" /\ Agent!Streaming
    \/ which = "monitor" /\ ((\E p \in Mon!Stops : Mon!Stopping(p)) \/ \E s \in Mon!Sessions, d \in Mon!Dies : Mon!IsStale(s, d))
Settled ==
    /\ which = "gui" => \A r \in Requests : GUI!Settled(r)
    /\ which = "toolkit" => \A r \in TK!Runs : TK!Aborting(r) => TK!Aborted(r)
    /\ which = "agents" => ~Agent!Streaming
    /\ which = "monitor" => /\ \A p \in Mon!Stops : ~Mon!Stopping(p)
                            /\ \A s \in Mon!Sessions, d \in Mon!Dies : ~Mon!IsStale(s, d)
EverythingSettles == Pending ~> Settled
=============================================================================

---------------------------- MODULE ThroughputGui ----------------------------
(***************************************************************************)
(* One server of the throughput GUI (pynq_host/throughput_gui): requests   *)
(* for a run pass the admission gates of app.py, and an admitted run is    *)
(* the asyncio task of orchestrator.py.  The server is single threaded: a  *)
(* step is what runs between two suspensions, so every await that can      *)
(* suspend is a value of pc.  Around it: the other toolkits that take the  *)
(* same flock, the daemon that grants a lease per board, and the two board *)
(* agents behind the channels.                                             *)
(*                                                                         *)
(* A request is also the run it becomes.  Samples and probes    *)
(* are abstracted to what the control tells apart: a gate passes or fails, *)
(* an agent reports done or its pipe closes.  Shutdown of the server, and  *)
(* the SSE consumers of a run's events, are left out.                      *)
(***************************************************************************)
EXTENDS Naturals, FiniteSets

CONSTANTS
    Requests,     \* POST /api/runs calls; each is at most one run
    NoOne,        \* nobody holds the lock or the lease
    Stranger      \* somebody else's session at the lease daemon

Boards == {"master", "slave"}
Stages == {"none", "seed", "beacon", "full"}
Terminal == {"done", "aborted", "failed"}

(* Where a request can be suspended: in start_run, in the run's task, in   *)
(* its cleanup, or before and after all that.                              *)
Admission == {"leasing", "backout", "verify", "stage", "gate"}
Body == {"bringup", "threshold", "proof", "arm", "consume"}

VARIABLES
    pc,           \* where each request is suspended
    fd,           \* ExperimentMutex._fd: the request that opened it, or NoOne
    flocked,      \* the flock is held by another toolkit's process
    lease,        \* the daemon's holder of each board
    tokens,       \* boards whose lease token the request has in hand
    current,      \* AppState.current_run
    state,        \* RunState, "none" before the run exists
    todo,         \* oneshots of the bring-up ladder still to run
    procs,        \* channels with an agent process
    reading,      \* channels whose events _consume still reads
    lapsed,       \* boards whose token the request has but whose TTL ran out
    cancelled     \* task.cancel() has been called

vars == <<pc, fd, flocked, lease, tokens, current, state, todo, procs, reading, lapsed, cancelled>>

At(r, places) == pc[r] \in places
Goto(r, place) == pc' = [pc EXCEPT ![r] = place]
Finish(r, st) == state' = [state EXCEPT ![r] = st]

lockVars == <<fd, flocked>>
leaseVars == <<lease, tokens, lapsed>>
runVars == <<todo, procs, reading>>

-----------------------------------------------------------------------------
(* Admission: start_run. *)

InFlight == current # NoOne /\ state[current] \notin Terminal
MutexFree == fd = NoOne /\ ~flocked

StartRun(r) ==
    /\ pc[r] = "idle"
    /\ IF InFlight \/ ~MutexFree
          THEN Goto(r, "rejected") /\ UNCHANGED fd
          ELSE Goto(r, "leasing") /\ fd' = r
    /\ UNCHANGED <<flocked, leaseVars, current, state, runVars, cancelled>>

(* The scopes are asked for in list order. *)
NextScope(r) == IF "master" \in tokens[r] THEN "slave" ELSE "master"

Granted(r, b) ==
    /\ lease[b] = NoOne
    /\ lease' = [lease EXCEPT ![b] = r]
    /\ tokens' = [tokens EXCEPT ![r] = @ \cup {b}]
    /\ UNCHANGED lapsed

AcquireLease(r) ==
    /\ pc[r] = "leasing"
    /\ Granted(r, NextScope(r))
    /\ Goto(r, IF tokens'[r] = Boards THEN "verify" ELSE "leasing")
    /\ UNCHANGED <<lockVars, current, state, runVars, cancelled>>

(* Queued behind somebody, refused, or timed out; a timeout may come after *)
(* the daemon has granted the lease, whose token is then lost.             *)
LeaseRefused(r) ==
    /\ pc[r] = "leasing"
    /\ \/ UNCHANGED lease
       \/ lease[NextScope(r)] = NoOne /\ lease' = [lease EXCEPT ![NextScope(r)] = r]
    /\ Goto(r, "backout")
    /\ UNCHANGED <<tokens, lapsed, lockVars, current, state, runVars, cancelled>>

(* Faulty: the board is released whoever its lease is by now. *)
ReleaseByBoard(r, b) ==
    /\ b \in tokens[r]
    /\ tokens' = [tokens EXCEPT ![r] = @ \ {b}]
    /\ lease' \in {lease, [lease EXCEPT ![b] = NoOne]}
    /\ lapsed' = [lapsed EXCEPT ![r] = @ \ {b}]

(* release names the holder and the token, so it ends the request's own    *)
(* lease or none; it swallows every error and drops the token either way.  *)
Release(r, b) ==
    /\ b \in tokens[r]
    /\ tokens' = [tokens EXCEPT ![r] = @ \ {b}]
    /\ \/ UNCHANGED lease
       \/ lease[b] = r /\ lease' = [lease EXCEPT ![b] = NoOne]
    /\ lapsed' = [lapsed EXCEPT ![r] = @ \ {b}]

(* _acquire_all hands back what it took before start_run's handler runs. *)
BackOut(r) ==
    /\ pc[r] = "backout"
    /\ \/ /\ \E b \in Boards : Release(r, b)
          /\ UNCHANGED <<pc, fd>>
       \/ /\ tokens[r] = {}
          /\ Goto(r, "rejected") /\ fd' = NoOne
          /\ UNCHANGED leaseVars
    /\ UNCHANGED <<flocked, current, state, runVars, cancelled>>

(* Provenance and verify_deployed, then staging, then the link gate. *)
GatePasses(r) ==
    /\ At(r, {"verify", "stage"})
    /\ Goto(r, IF pc[r] = "verify" THEN "stage" ELSE "gate")
    /\ UNCHANGED <<lockVars, leaseVars, current, state, runVars, cancelled>>

(* The except BaseException handler: no channel has a process yet. *)
GateFails(r) ==
    /\ At(r, {"verify", "stage", "gate"})
    /\ fd' = NoOne
    /\ Goto(r, "unlease")
    /\ UNCHANGED <<flocked, leaseVars, current, state, runVars, cancelled>>

ReleaseAll(r) ==
    /\ pc[r] = "unlease"
    /\ \/ (\E b \in Boards : Release(r, b)) /\ UNCHANGED pc
       \/ tokens[r] = {} /\ Goto(r, "rejected") /\ UNCHANGED leaseVars
    /\ UNCHANGED <<lockVars, current, state, runVars, cancelled>>

(* Faulty: the run is started without becoming current_run. *)
AdmitUnregistered(r) ==
    /\ pc[r] = "gate"
    /\ Goto(r, "created")
    /\ Finish(r, "created")
    /\ UNCHANGED <<lockVars, leaseVars, current, runVars, cancelled>>

Admit(r) ==
    /\ pc[r] = "gate"
    /\ Goto(r, "created")
    /\ Finish(r, "created")
    /\ current' = r
    /\ UNCHANGED <<lockVars, leaseVars, runVars, cancelled>>

-----------------------------------------------------------------------------
(* The run's task: bring-up, threshold, delivery proof, measurement. *)

(* Oneshots of a stage: probe and seed, then syncbeacon, then datamode, of *)
(* the master and of the slave.                                            *)
Ladder(stage) ==
    CASE stage = "none" -> 0 [] stage = "seed" -> 4 [] stage = "beacon" -> 6 [] stage = "full" -> 8

RunStarts(r) ==
    /\ pc[r] = "created"
    /\ Goto(r, "bringup")
    /\ \E stage \in Stages : todo' = [todo EXCEPT ![r] = Ladder(stage)]
    /\ UNCHANGED <<lockVars, leaseVars, current, state, procs, reading, cancelled>>

(* One oneshot; a seed whose delta is not positive is skipped, which looks *)
(* the same from here.                                                     *)
Bringup(r) ==
    /\ pc[r] = "bringup"
    /\ IF todo[r] = 0
          THEN Goto(r, "threshold") /\ UNCHANGED todo
          ELSE todo' = [todo EXCEPT ![r] = @ - 1] /\ UNCHANGED pc
    /\ UNCHANGED <<lockVars, leaseVars, current, state, procs, reading, cancelled>>

(* An agent that refuses setthr is only a warning. *)
ApplyRelThreshold(r) ==
    /\ pc[r] = "threshold"
    /\ Goto(r, "proof")
    /\ Finish(r, "proofing")
    /\ UNCHANGED <<lockVars, leaseVars, current, runVars, cancelled>>

DeliveryProof(r) ==
    /\ pc[r] = "proof"
    /\ Finish(r, "running")
    /\ Goto(r, "arm")
    /\ UNCHANGED <<lockVars, leaseVars, current, runVars, cancelled>>

(* start_run of the slave, then of the master, then GO to both. *)
Arm(r) ==
    /\ pc[r] = "arm"
    /\ IF procs[r] = Boards
          THEN /\ reading' = [reading EXCEPT ![r] = Boards]
               /\ Goto(r, "consume") /\ UNCHANGED procs
          ELSE /\ procs' = [procs EXCEPT ![r] = @ \cup {IF "slave" \in @ THEN "master" ELSE "slave"}]
               /\ UNCHANGED <<pc, reading>>
    /\ UNCHANGED <<lockVars, leaseVars, current, state, todo, cancelled>>

(* events() ends at done, and also, without a summary, when the pipe       *)
(* closes; the run does not tell the two apart.                            *)
Consume(r, b) ==
    /\ pc[r] = "consume"
    /\ b \in reading[r]
    /\ reading' = [reading EXCEPT ![r] = @ \ {b}]
    /\ UNCHANGED <<pc, lockVars, leaseVars, current, state, todo, procs, cancelled>>

RunDone(r) ==
    /\ pc[r] = "consume"
    /\ reading[r] = {}
    /\ Finish(r, "done")
    /\ Goto(r, "closing")
    /\ UNCHANGED <<lockVars, leaseVars, current, runVars, cancelled>>

(* A gate or agent error, a jam signature in a sample, or the watchdog. *)
RunFails(r) ==
    /\ At(r, Body)
    /\ Finish(r, "failed")
    /\ Goto(r, "closing")
    /\ reading' = [reading EXCEPT ![r] = {}]
    /\ todo' = [todo EXCEPT ![r] = 0]
    /\ UNCHANGED <<lockVars, leaseVars, current, procs, cancelled>>

-----------------------------------------------------------------------------
(* Abort and cleanup. *)

AbortRun(r) ==
    /\ At(r, Body \cup {"created"})
    /\ state[r] \notin Terminal
    /\ ~cancelled[r]
    /\ cancelled' = [cancelled EXCEPT ![r] = TRUE]
    /\ UNCHANGED <<pc, lockVars, leaseVars, current, state, runVars>>

(* Faulty: an abort is also delivered while the run is cleaning up. *)
RunCancelledLate(r) ==
    /\ cancelled[r]
    /\ At(r, Body \cup {"created", "closing"})
    /\ Finish(r, "aborted")
    /\ Goto(r, "closing")
    /\ UNCHANGED <<lockVars, leaseVars, current, runVars, cancelled>>

(* CancelledError at the suspension; in "created" the coroutine never ran  *)
(* and cancel() finishes the run itself.                                   *)
RunCancelled(r) ==
    /\ cancelled[r]
    /\ At(r, Body \cup {"created"})
    /\ Finish(r, "aborted")
    /\ Goto(r, "closing")
    /\ reading' = [reading EXCEPT ![r] = {}]
    /\ todo' = [todo EXCEPT ![r] = 0]
    /\ UNCHANGED <<lockVars, leaseVars, current, procs, cancelled>>

(* Master first, then slave; the mutex only after both, the leases in a    *)
(* task of their own.                                                      *)
Cleanup(r) ==
    /\ pc[r] = "closing"
    /\ IF procs[r] # {}
          THEN /\ procs' = [procs EXCEPT ![r] = @ \ {IF "master" \in @ THEN "master" ELSE "slave"}]
               /\ UNCHANGED <<pc, fd>>
          ELSE Goto(r, "closed") /\ fd' = NoOne /\ UNCHANGED procs
    /\ UNCHANGED <<flocked, leaseVars, current, state, todo, reading, cancelled>>

OnFinished(r) ==
    /\ pc[r] = "closed"
    /\ \E b \in Boards : Release(r, b)
    /\ UNCHANGED <<pc, lockVars, current, state, runVars, cancelled>>

-----------------------------------------------------------------------------
(* The world outside: the other toolkits and the lease daemon. *)

OtherToolkit ==
    /\ fd = NoOne
    /\ flocked' = ~flocked
    /\ UNCHANGED <<pc, fd, leaseVars, current, state, runVars, cancelled>>

StrangerLease(b) ==
    /\ lease[b] \in {NoOne, Stranger}
    /\ lease' = [lease EXCEPT ![b] = IF @ = NoOne THEN Stranger ELSE NoOne]
    /\ UNCHANGED <<pc, lockVars, tokens, lapsed, current, state, runVars, cancelled>>

(* ttl_seconds is a field of the request with no lower bound and nothing   *)
(* renews a lease, so it can run out under a run at any moment.            *)
LeaseExpires(b) ==
    /\ lease[b] \in Requests
    /\ lapsed' = [lapsed EXCEPT ![lease[b]] = @ \cup ({b} \cap tokens[lease[b]])]
    /\ lease' = [lease EXCEPT ![b] = NoOne]
    /\ UNCHANGED <<pc, lockVars, tokens, current, state, runVars, cancelled>>

-----------------------------------------------------------------------------
Init ==
    /\ pc = [r \in Requests |-> "idle"]
    /\ fd = NoOne
    /\ flocked = FALSE
    /\ lease = [b \in Boards |-> NoOne]
    /\ tokens = [r \in Requests |-> {}]
    /\ current = NoOne
    /\ state = [r \in Requests |-> "none"]
    /\ todo = [r \in Requests |-> 0]
    /\ procs = [r \in Requests |-> {}]
    /\ reading = [r \in Requests |-> {}]
    /\ lapsed = [r \in Requests |-> {}]
    /\ cancelled = [r \in Requests |-> FALSE]

(* What the event loop does for a request once its await returns. *)
Step(r) ==
    \/ AcquireLease(r) \/ LeaseRefused(r) \/ BackOut(r)
    \/ GatePasses(r) \/ GateFails(r) \/ ReleaseAll(r) \/ Admit(r)
    \/ RunStarts(r) \/ Bringup(r) \/ ApplyRelThreshold(r) \/ DeliveryProof(r)
    \/ Arm(r) \/ (\E b \in Boards : Consume(r, b)) \/ RunDone(r) \/ RunFails(r)
    \/ RunCancelled(r) \/ Cleanup(r) \/ OnFinished(r)

Next ==
    \/ \E r \in Requests : StartRun(r) \/ AbortRun(r) \/ Step(r)
    \/ OtherToolkit
    \/ \E b \in Boards : StrangerLease(b) \/ LeaseExpires(b)

(* Every await of a request has a time limit, so its task always goes on. *)
Spec == Init /\ [][Next]_vars /\ \A r \in Requests : WF_vars(Step(r))

-----------------------------------------------------------------------------
(* Properties. *)

(* gates.ExperimentMutex: whoever may be talking to a board, from the      *)
(* first lease to the close of the last channel, is the one holder of the  *)
(* mutex, and then no other toolkit has the flock; every other path has    *)
(* given it back, exactly once and for nobody else.                        *)
MutexCoversRun ==
    \A r \in Requests :
        /\ At(r, Admission \cup Body \cup {"created", "closing"}) <=> fd = r
        /\ procs[r] # {} => fd = r
        /\ fd = r => ~flocked

(* app.py _acquire_all, _release_all: from verification to the last closed *)
(* channel the request has been granted the lease of both boards (a        *)
(* queued, lost or half acquired one never gets that far) and loses a      *)
(* board only by its own TTL: no earlier request that still has to give    *)
(* back a token that ran out frees the lease of this one.                  *)
RunHoldsLeases ==
    \A r \in Requests :
        At(r, {"verify", "stage", "gate", "created", "closing"} \cup Body) =>
            \A b \in Boards : b \in tokens[r] /\ (lease[b] = r \/ b \in lapsed[r])

(* app.py current_run: a run that is not over is the current one, so the   *)
(* in-flight check and the shutdown hook see it.                           *)
LiveRunIsCurrent ==
    \A r \in Requests : state[r] \notin Terminal \cup {"none"} => current = r

(* orchestrator.py _finish: a run's record is made terminal once; an abort *)
(* that arrives late does not rewrite it.                                  *)
TerminalOnce ==
    \A r \in Requests : state[r] \in Terminal => state'[r] = state[r]

(* start_run and _cleanup: whatever gate, agent or client ends it, a       *)
(* request that took the mutex ends with the mutex and its leases given    *)
(* back and, if it became a run, with a terminal record.                   *)
HoldsMutex(r) == fd = r
Settled(r) == fd # r /\ tokens[r] = {} /\ state[r] \in Terminal \cup {"none"}

-----------------------------------------------------------------------------
(* The inductive invariant behind the first three, for the proofs. *)

Places == Admission \cup Body \cup {"idle", "rejected", "unlease", "created", "closing", "closed"}

TypeOK ==
    /\ pc \in [Requests -> Places]
    /\ fd \in Requests \cup {NoOne}
    /\ flocked \in BOOLEAN
    /\ lease \in [Boards -> Requests \cup {NoOne, Stranger}]
    /\ tokens \in [Requests -> SUBSET Boards]
    /\ current \in Requests \cup {NoOne}
    /\ state \in [Requests -> Terminal \cup {"none", "created", "proofing", "running"}]
    /\ procs \in [Requests -> SUBSET Boards]
    /\ lapsed \in [Requests -> SUBSET Boards]

(* A token in hand is a lease at the daemon, or was until it ran out. *)
TokensAreLeases ==
    \A r \in Requests : \A b \in tokens[r] : lease[b] = r \/ b \in lapsed[r]

(* A request's record says where its task is. *)
RecordIsTrue ==
    \A r \in Requests :
        /\ state[r] \in Terminal <=> At(r, {"closing", "closed"})
        /\ state[r] \notin Terminal \cup {"none"} <=> At(r, Body \cup {"created"})

(* Only a run that has got as far as arming has agents. *)
ProcsAreLate == \A r \in Requests : procs[r] # {} => At(r, {"arm", "consume", "closing"})

IInv ==
    /\ TypeOK
    /\ MutexCoversRun
    /\ RunHoldsLeases
    /\ LiveRunIsCurrent
    /\ TokensAreLeases
    /\ RecordIsTrue
    /\ ProcsAreLate

=============================================================================

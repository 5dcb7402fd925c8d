-------------------------- MODULE HostServerProofs --------------------------
(***************************************************************************)
(* Proofs for the servers and agents on the host: ThroughputGui,           *)
(* ToolkitRun, AgentStream and LinkMonitor, as MCHostServer instantiates   *)
(* them, for any number of requests, runs and stops.                       *)
(*                                                                         *)
(* The invariant of each program is its module's IInv.  A step lemma has   *)
(* one step per action; v1, v2, ... are the program's variables in the     *)
(* order in which its module declares them.                                *)
(***************************************************************************)
EXTENDS MCHostServer, TLAPS

-----------------------------------------------------------------------------
(* ThroughputGui: app.py, orchestrator.py. *)

(* The server starts with nobody admitted. *)
LEMMA GuiStarts == GUI!Init => GUI!IInv
<1> SUFFICES ASSUME GUI!Init PROVE GUI!IInv
  OBVIOUS
<1>1. GUI!TypeOK
  BY DEF GUI!Init, GUI!TypeOK, GUI!Boards, GUI!Terminal, GUI!Places
<1>2. GUI!MutexCoversRun /\ GUI!RunHoldsLeases
  BY GuiAssumption
     DEF GUI!Init, GUI!MutexCoversRun, GUI!RunHoldsLeases, GUI!At, GUI!Admission, GUI!Body
<1>3. GUI!LiveRunIsCurrent /\ GUI!TokensAreLeases /\ GUI!RecordIsTrue /\ GUI!ProcsAreLate
  BY DEF GUI!Init, GUI!LiveRunIsCurrent, GUI!TokensAreLeases, GUI!RecordIsTrue,
         GUI!ProcsAreLate, GUI!At, GUI!Terminal, GUI!Body
<1> QED
  BY <1>1, <1>2, <1>3 DEF GUI!IInv

(* A step of the GUI's server keeps the invariant and rewrites no terminal *)
(* record.                                                                 *)
LEMMA GuiStep == ASSUME GUI!IInv, [GUI!Next]_(GUI!vars) PROVE GUI!IInv' /\ GUI!TerminalOnce
<1> USE GuiAssumption DEF GUI!IInv, GUI!TypeOK, GUI!MutexCoversRun, GUI!RunHoldsLeases,
      GUI!LiveRunIsCurrent, GUI!TokensAreLeases, GUI!RecordIsTrue, GUI!ProcsAreLate,
      GUI!TerminalOnce, GUI!At, GUI!Goto, GUI!Finish, GUI!Boards, GUI!Terminal,
      GUI!Admission, GUI!Body, GUI!Places, GUI!lockVars, GUI!leaseVars, GUI!runVars
<1>1. ASSUME NEW r \in Requests, GUI!StartRun(r) PROVE GUI!IInv' /\ GUI!TerminalOnce
  BY <1>1 DEF GUI!StartRun, GUI!InFlight, GUI!MutexFree
<1>2. ASSUME NEW r \in Requests, GUI!AbortRun(r) PROVE GUI!IInv' /\ GUI!TerminalOnce
  BY <1>2 DEF GUI!AbortRun
<1>3. ASSUME NEW r \in Requests, GUI!AcquireLease(r) PROVE GUI!IInv' /\ GUI!TerminalOnce
  BY <1>3 DEF GUI!AcquireLease, GUI!Granted, GUI!NextScope
<1>4. ASSUME NEW r \in Requests, GUI!LeaseRefused(r) PROVE GUI!IInv' /\ GUI!TerminalOnce
  BY <1>4 DEF GUI!LeaseRefused, GUI!NextScope
<1>5. ASSUME NEW r \in Requests, GUI!BackOut(r) PROVE GUI!IInv' /\ GUI!TerminalOnce
  BY <1>5 DEF GUI!BackOut, GUI!Release
<1>6. ASSUME NEW r \in Requests, GUI!GatePasses(r) PROVE GUI!IInv' /\ GUI!TerminalOnce
  BY <1>6 DEF GUI!GatePasses
<1>7. ASSUME NEW r \in Requests, GUI!GateFails(r) PROVE GUI!IInv' /\ GUI!TerminalOnce
  BY <1>7 DEF GUI!GateFails
<1>8. ASSUME NEW r \in Requests, GUI!ReleaseAll(r) PROVE GUI!IInv' /\ GUI!TerminalOnce
  BY <1>8 DEF GUI!ReleaseAll, GUI!Release
<1>9. ASSUME NEW r \in Requests, GUI!Admit(r) PROVE GUI!IInv' /\ GUI!TerminalOnce
  BY <1>9 DEF GUI!Admit
<1>10. ASSUME NEW r \in Requests, GUI!RunStarts(r) PROVE GUI!IInv' /\ GUI!TerminalOnce
  BY <1>10 DEF GUI!RunStarts
<1>11. ASSUME NEW r \in Requests, GUI!Bringup(r) PROVE GUI!IInv' /\ GUI!TerminalOnce
  BY <1>11 DEF GUI!Bringup
<1>12. ASSUME NEW r \in Requests, GUI!ApplyRelThreshold(r) PROVE GUI!IInv' /\ GUI!TerminalOnce
  BY <1>12 DEF GUI!ApplyRelThreshold
<1>13. ASSUME NEW r \in Requests, GUI!DeliveryProof(r) PROVE GUI!IInv' /\ GUI!TerminalOnce
  BY <1>13 DEF GUI!DeliveryProof
<1>14. ASSUME NEW r \in Requests, GUI!Arm(r) PROVE GUI!IInv' /\ GUI!TerminalOnce
  BY <1>14 DEF GUI!Arm
<1>15. ASSUME NEW r \in Requests, NEW b \in GUI!Boards, GUI!Consume(r, b) PROVE GUI!IInv' /\ GUI!TerminalOnce
  BY <1>15 DEF GUI!Consume
<1>16. ASSUME NEW r \in Requests, GUI!RunDone(r) PROVE GUI!IInv' /\ GUI!TerminalOnce
  BY <1>16 DEF GUI!RunDone
<1>17. ASSUME NEW r \in Requests, GUI!RunFails(r) PROVE GUI!IInv' /\ GUI!TerminalOnce
  BY <1>17 DEF GUI!RunFails
<1>18. ASSUME NEW r \in Requests, GUI!RunCancelled(r) PROVE GUI!IInv' /\ GUI!TerminalOnce
  BY <1>18 DEF GUI!RunCancelled
<1>19. ASSUME NEW r \in Requests, GUI!Cleanup(r) PROVE GUI!IInv' /\ GUI!TerminalOnce
  BY <1>19 DEF GUI!Cleanup
<1>20. ASSUME NEW r \in Requests, GUI!OnFinished(r) PROVE GUI!IInv' /\ GUI!TerminalOnce
  BY <1>20 DEF GUI!OnFinished, GUI!Release
<1>21. ASSUME GUI!OtherToolkit PROVE GUI!IInv' /\ GUI!TerminalOnce
  BY <1>21 DEF GUI!OtherToolkit
<1>22. ASSUME NEW b \in GUI!Boards, GUI!StrangerLease(b) PROVE GUI!IInv' /\ GUI!TerminalOnce
  BY <1>22 DEF GUI!StrangerLease
<1>23. ASSUME NEW b \in GUI!Boards, GUI!LeaseExpires(b) PROVE GUI!IInv' /\ GUI!TerminalOnce
  BY <1>23 DEF GUI!LeaseExpires
<1>24. ASSUME UNCHANGED GUI!vars PROVE GUI!IInv' /\ GUI!TerminalOnce
  BY <1>24 DEF GUI!vars
<1> HIDE DEF GUI!IInv, GUI!TerminalOnce
<1> QED
  BY <1>1, <1>2, <1>3, <1>4, <1>5, <1>6, <1>7, <1>8, <1>9, <1>10, <1>11, <1>12, <1>13,
     <1>14, <1>15, <1>16, <1>17, <1>18, <1>19, <1>20, <1>21, <1>22, <1>23, <1>24
     DEF GUI!Next, GUI!Step

-----------------------------------------------------------------------------
(* ToolkitRun: runner.py of the eye and stress toolkits. *)

(* A toolkit's server starts without a run. *)
LEMMA ToolkitStarts == TK!Init => TK!IInv
BY ToolkitAssumption
   DEF TK!Init, TK!IInv, TK!TypeOK, TK!InFlightIsCurrent, TK!LeaseHasToken,
       TK!LeaseGivenBack, TK!CancelsAreAwaited, TK!NotStarted, TK!SentinelStops, TK!Runs,
       TK!NoRun, TK!OnBoards, TK!Terminal

(* A step of a toolkit's server keeps the invariant and rewrites no state  *)
(* that is terminal.                                                       *)
LEMMA ToolkitStep == ASSUME TK!IInv, [TK!Next]_(TK!vars) PROVE TK!IInv' /\ TK!TerminalOnce
<1> USE ToolkitAssumption DEF TK!IInv, TK!TypeOK, TK!InFlightIsCurrent, TK!LeaseHasToken,
      TK!LeaseGivenBack, TK!CancelsAreAwaited, TK!NotStarted, TK!SentinelStops,
      TK!TerminalOnce, TK!Runs, TK!NoRun, TK!OnBoards, TK!Terminal, TK!Goto, TK!Post,
      TK!leaseVars, TK!abortVars
<1>1. ASSUME NEW r \in TK!Runs, TK!StartRun(r) PROVE TK!IInv' /\ TK!TerminalOnce
  BY <1>1 DEF TK!StartRun, TK!Busy
<1>2. ASSUME NEW r \in TK!Runs, TK!Acquire(r) PROVE TK!IInv' /\ TK!TerminalOnce
  <2>1. PICK place \in {"deploy", "reconverge", "work"} : TK!Advance(r, place)
    BY <1>2 DEF TK!Acquire
  <2>2. v4' = [v4 EXCEPT ![r] = TK!StateAt[place]] /\ TK!StateAt[place] \in {"deploying", "converging", "working"}
    BY <2>1 DEF TK!Advance, TK!StateAt
  <2>3. v5' = v5 \/ v5' = [v5 EXCEPT ![r] = TRUE]
    BY <2>1 DEF TK!Advance
  <2>4. v3' = [v3 EXCEPT ![r] = place]
    BY <2>1 DEF TK!Advance
  <2>5. /\ v3[r] = "acquire" /\ ~v8[r] /\ v12 = 0 /\ v12' = r
        /\ v9' = [v9 EXCEPT ![r] = TRUE]
        /\ UNCHANGED <<v2, v7, v8, v13>>
    BY <1>2 DEF TK!Acquire
  <2>6. TK!TypeOK' /\ TK!TerminalOnce
    BY <2>2, <2>3, <2>4, <2>5
  <2>7. TK!InFlightIsCurrent' /\ TK!LeaseHasToken' /\ TK!LeaseGivenBack' /\ TK!CancelsAreAwaited'
    BY <2>2, <2>4, <2>5
  <2>8. TK!NotStarted' /\ TK!SentinelStops'
    BY <2>2, <2>3, <2>4, <2>5
  <2> QED
    BY <2>6, <2>7, <2>8
<1>3. ASSUME NEW r \in TK!Runs, TK!AcquireFails(r) PROVE TK!IInv' /\ TK!TerminalOnce
  BY <1>3 DEF TK!AcquireFails, TK!End, TK!Leave
<1>4. ASSUME NEW r \in TK!Runs, TK!DeployEvent(r) PROVE TK!IInv' /\ TK!TerminalOnce
  <2>1. v3[r] \in TK!OnBoards /\ UNCHANGED <<v1, v2, v6, v7, v8, v9, v10, v11, v12, v13>> /\ ~v8[r]
    BY <1>4 DEF TK!DeployEvent
  <2>2. \/ \E place \in {"converge", "work"} : TK!Advance(r, place)
        \/ \E st \in TK!Terminal : TK!End(r, st)
    BY <1>4 DEF TK!DeployEvent, TK!EyeDeploy, TK!StressDeploy, TK!DeployBoth
  <2>3. ASSUME NEW place \in {"converge", "work"}, TK!Advance(r, place) PROVE TK!IInv' /\ TK!TerminalOnce
    <3>1. v4' = [v4 EXCEPT ![r] = TK!StateAt[place]] /\ TK!StateAt[place] \in {"converging", "working"}
      BY <2>3 DEF TK!Advance, TK!StateAt
    <3>2. v5' = v5 \/ v5' = [v5 EXCEPT ![r] = TRUE]
      BY <2>3 DEF TK!Advance
    <3>3. v3' = [v3 EXCEPT ![r] = place]
      BY <2>3 DEF TK!Advance
    <3> QED
      BY <2>1, <3>1, <3>2, <3>3
  <2>4. ASSUME NEW st \in TK!Terminal, TK!End(r, st) PROVE TK!IInv' /\ TK!TerminalOnce
    BY <2>1, <2>4 DEF TK!End, TK!Leave
  <2> HIDE DEF TK!IInv, TK!TerminalOnce
  <2> QED
    BY <2>2, <2>3, <2>4
<1>5. ASSUME NEW r \in TK!Runs, TK!SweepEnds(r) PROVE TK!IInv' /\ TK!TerminalOnce
  <2>1. PICK st \in TK!Terminal : TK!End(r, st)
    BY <1>5 DEF TK!SweepEnds
  <2> QED
    BY <1>5, <2>1 DEF TK!SweepEnds, TK!End, TK!Leave
<1>6. ASSUME NEW r \in TK!Runs, TK!ModeEnds(r) PROVE TK!IInv' /\ TK!TerminalOnce
  <2>1. PICK st \in TK!Terminal : TK!End(r, st)
    BY <1>6 DEF TK!ModeEnds
  <2> QED
    BY <1>6, <2>1 DEF TK!ModeEnds, TK!End, TK!Leave
<1>7. ASSUME NEW r \in TK!Runs, TK!Cancelled(r) PROVE TK!IInv' /\ TK!TerminalOnce
  BY <1>7 DEF TK!Cancelled, TK!End, TK!Leave
<1>8. ASSUME NEW r \in TK!Runs, TK!CancelledInRelease(r) PROVE TK!IInv' /\ TK!TerminalOnce
  BY <1>8 DEF TK!CancelledInRelease
<1>9. ASSUME NEW r \in TK!Runs, TK!Release(r) PROVE TK!IInv' /\ TK!TerminalOnce
  BY <1>9 DEF TK!Release
<1>10. ASSUME NEW r \in TK!Runs, TK!Released(r) PROVE TK!IInv' /\ TK!TerminalOnce
  BY <1>10 DEF TK!Released
<1>11. ASSUME NEW r \in TK!Runs, TK!ReleaseFails(r) PROVE TK!IInv' /\ TK!TerminalOnce
  BY <1>11 DEF TK!ReleaseFails
<1>12. ASSUME NEW r \in TK!Runs, TK!HeartbeatFails(r) PROVE TK!IInv' /\ TK!TerminalOnce
  BY <1>12 DEF TK!HeartbeatFails
<1>13. ASSUME NEW r \in TK!Runs, TK!Abort(r) PROVE TK!IInv' /\ TK!TerminalOnce
  BY <1>13 DEF TK!Abort
<1>14. ASSUME NEW r \in TK!Runs, TK!AbortCancels(r) PROVE TK!IInv' /\ TK!TerminalOnce
  BY <1>14 DEF TK!AbortCancels
<1>15. ASSUME NEW r \in TK!Runs, TK!AbortReturns(r) PROVE TK!IInv' /\ TK!TerminalOnce
  BY <1>15 DEF TK!AbortReturns
<1>16. CASE TK!LeaseExpires
  BY <1>16 DEF TK!LeaseExpires
<1>17. CASE TK!OperatorRelease
  BY <1>17 DEF TK!OperatorRelease
<1>18. ASSUME NEW r \in TK!Runs, TK!SentinelEnds(r) PROVE TK!IInv' /\ TK!TerminalOnce
  BY <1>18 DEF TK!SentinelEnds
<1>19. CASE UNCHANGED TK!vars
  BY <1>19 DEF TK!vars
<1> HIDE DEF TK!IInv, TK!TerminalOnce
<1> QED
  BY <1>1, <1>2, <1>3, <1>4, <1>5, <1>6, <1>7, <1>8, <1>9, <1>10, <1>11, <1>12, <1>13,
     <1>14, <1>15, <1>16, <1>17, <1>18, <1>19
     DEF TK!Next, TK!WorkStep, TK!TaskStep, TK!AbortStep

-----------------------------------------------------------------------------
(* AgentStream: tl_perf_agent.py. *)

(* The dies have been reset, and perhaps seeded elsewhere. *)
LEMMA AgentStarts == Agent!Init => Agent!IInv
<1> SUFFICES ASSUME Agent!Init PROVE Agent!IInv
  OBVIOUS
<1>1. Agent!TypeOK
  <2>1. v7 \in Nat
    BY AgentAssumption DEF Agent!Init
  <2>2. v3 \in [pair : Nat, free : Int]
    BY DEF Agent!Init
  <2> QED
    BY <2>1, <2>2 DEF Agent!Init, Agent!TypeOK
<1>2. Agent!CreditAccounted /\ Agent!ProbesAreFresh /\ Agent!GateHeld /\ Agent!OverrunIsUnpaid
  BY AgentAssumption
     DEF Agent!Init, Agent!CreditAccounted, Agent!ProbesAreFresh, Agent!GateHeld,
         Agent!OverrunIsUnpaid
<1> QED
  BY <1>1, <1>2 DEF Agent!IInv

(* A step of the agents, the link or the GUI keeps the invariant. *)
LEMMA AgentStep == ASSUME Agent!IInv, [Agent!Next]_(Agent!vars) PROVE Agent!IInv'
<1> USE AgentAssumption DEF Agent!IInv, Agent!TypeOK, Agent!CreditAccounted,
      Agent!ProbesAreFresh, Agent!GateHeld, Agent!OverrunIsUnpaid, Agent!Cost,
      Agent!ProofWords, Agent!guiVars, Agent!dieVars
<1>1. CASE Agent!Deliver
  <2> USE <1>1 DEF Agent!Deliver
  <2>1. CASE v9 < MAX_CREDITS
    BY <2>1
  <2>2. CASE ~(v9 < MAX_CREDITS)
    <3>1. CASE v5 = "unpaid"
      BY <2>2, <3>1
    <3>2. CASE v5 # "unpaid" /\ v1 = "sent"
      BY <2>2, <3>2
    <3>3. CASE v5 # "unpaid" /\ v1 # "sent"
      BY <2>2, <3>3
    <3> QED
      BY <3>1, <3>2, <3>3
  <2> QED
    BY <2>1, <2>2
<1>2. CASE Agent!ProbeMaster
  BY <1>2 DEF Agent!ProbeMaster
<1>3. CASE Agent!ProbeSlave
  BY <1>3 DEF Agent!ProbeSlave
<1>4. CASE Agent!Seed
  BY <1>4 DEF Agent!Seed
<1>5. CASE Agent!Send4
  BY <1>5 DEF Agent!Send4, Agent!Transmit
<1>6. CASE Agent!Send4Consume
  BY <1>6 DEF Agent!Send4Consume
<1>7. CASE Agent!Catch
  BY <1>7 DEF Agent!Catch
<1>8. CASE Agent!Go
  BY <1>8 DEF Agent!Go
<1>9. CASE Agent!StreamPacket
  BY <1>9 DEF Agent!StreamPacket, Agent!Transmit
<1>10. CASE Agent!StreamConsume
  BY <1>10 DEF Agent!StreamConsume
<1>11. CASE Agent!StreamTimeUp
  BY <1>11 DEF Agent!StreamTimeUp
<1>12. CASE Agent!Drain
  BY <1>12 DEF Agent!Drain
<1>13. CASE Agent!DrainTimeUp
  BY <1>13 DEF Agent!DrainTimeUp
<1>14. CASE Agent!Kill
  BY <1>14 DEF Agent!Kill
<1>15. CASE Agent!RunOver
  BY <1>15 DEF Agent!RunOver
<1>16. CASE UNCHANGED Agent!vars
  BY <1>16 DEF Agent!vars
<1> HIDE DEF Agent!IInv
<1> QED
  BY <1>1, <1>2, <1>3, <1>4, <1>5, <1>6, <1>7, <1>8, <1>9, <1>10, <1>11, <1>12, <1>13,
     <1>14, <1>15, <1>16
     DEF Agent!Next, Agent!StreamStep

-----------------------------------------------------------------------------
(* LinkMonitor: monitor.py. *)

(* No session exists at first. *)
LEMMA MonitorStarts == Mon!Init => Mon!IInv
BY MonitorAssumption
   DEF Mon!Init, Mon!IInv, Mon!TypeOK, Mon!StoppedIsQuiet, Mon!FailsTogether,
       Mon!OnlySessionsRun, Mon!StopsWait, Mon!CancelsStop, Mon!FailedIsOver, Mon!PerDie,
       Mon!Sessions, Mon!Stops, Mon!Dies, Mon!Unowned, Mon!Active, Mon!Working

(* A step of the monitor keeps the invariant. *)
LEMMA MonitorStep == ASSUME Mon!IInv, [Mon!Next]_(Mon!vars) PROVE Mon!IInv'
<1> USE MonitorAssumption DEF Mon!IInv, Mon!TypeOK, Mon!StoppedIsQuiet, Mon!FailsTogether,
      Mon!OnlySessionsRun, Mon!StopsWait, Mon!CancelsStop, Mon!FailedIsOver, Mon!Sessions,
      Mon!Stops, Mon!Dies, Mon!Unowned, Mon!Active, Mon!Working, Mon!Quiet, Mon!Goto,
      Mon!handlerVars, Mon!loopVars, Mon!dieVars
<1>1. ASSUME NEW s \in Mon!Sessions, Mon!MonitorStart(s) PROVE Mon!IInv'
  BY <1>1 DEF Mon!MonitorStart
<1>2. ASSUME NEW s \in Mon!Sessions, Mon!AcquireAll(s) PROVE Mon!IInv'
  <2>1. PICK place \in {"staging", "rejected"} : v1' = [v1 EXCEPT ![s] = place]
    BY <1>2 DEF Mon!AcquireAll
  <2> QED
    BY <1>2, <2>1 DEF Mon!AcquireAll
<1>3. ASSUME NEW s \in Mon!Sessions, Mon!StageFails(s) PROVE Mon!IInv'
  BY <1>3 DEF Mon!StageFails
<1>4. ASSUME NEW s \in Mon!Sessions, Mon!BackOut(s) PROVE Mon!IInv'
  BY <1>4 DEF Mon!BackOut, Mon!ReleaseAll
<1>5. ASSUME NEW s \in Mon!Sessions, Mon!SessionStarts(s) PROVE Mon!IInv'
  BY <1>5 DEF Mon!SessionStarts
<1>6. ASSUME NEW s \in Mon!Sessions, NEW d \in Mon!Dies, Mon!FirstLine(s, d) PROVE Mon!IInv'
  BY <1>6 DEF Mon!FirstLine, Mon!SetDie
<1>7. ASSUME NEW s \in Mon!Sessions, NEW d \in Mon!Dies, Mon!Unsupported(s, d) PROVE Mon!IInv'
  BY <1>7 DEF Mon!Unsupported
<1>8. ASSUME NEW s \in Mon!Sessions, NEW d \in Mon!Dies, Mon!StreamEnds(s, d) PROVE Mon!IInv'
  BY <1>8 DEF Mon!StreamEnds
<1>9. ASSUME NEW s \in Mon!Sessions, NEW d \in Mon!Dies, Mon!Closed(s, d) PROVE Mon!IInv'
  <2>1. PICK o \in BOOLEAN : v9' = [v9 EXCEPT ![s][d] = o]
    BY <1>9 DEF Mon!Closed
  <2>2. /\ v6[s][d] = "closing" /\ ~v8[s][d]
        /\ v7' = [v7 EXCEPT ![s][d] = FALSE]
        /\ UNCHANGED <<v1, v2, v3, v4, v8, v12>>
    BY <1>9 DEF Mon!Closed
  <2>3. ASSUME v5[s] = "stopping", Mon!Goto(s, d, "over"), UNCHANGED <<v5, v10, v11>>
        PROVE  Mon!IInv'
    BY <2>1, <2>2, <2>3
  <2>4. ASSUME v5[s] # "stopping", Mon!Goto(s, d, "launch"), UNCHANGED <<v5, v10, v11>>
        PROVE  Mon!IInv'
    BY <2>1, <2>2, <2>4
  <2>5. ASSUME v5[s] # "stopping", Mon!BudgetSpent(s, d), Mon!Goto(s, d, "over"), Mon!SetDie(s, d, "failed"),
               Mon!MaybeFailSession(s), UNCHANGED v11
        PROVE  Mon!IInv'
    BY <2>1, <2>2, <2>5 DEF Mon!BudgetSpent, Mon!SetDie, Mon!MaybeFailSession
  <2>6. ASSUME ~Mon!BudgetSpent(s, d), Mon!Goto(s, d, "backoff"), Mon!SetDie(s, d, "stale"),
               v11' = [v11 EXCEPT ![s][d] = @ + 1], UNCHANGED v5
        PROVE  Mon!IInv'
    BY <2>1, <2>2, <2>6 DEF Mon!BudgetSpent, Mon!SetDie
  <2> HIDE DEF Mon!IInv, Mon!Goto
  <2> QED
    BY <1>9, <2>3, <2>4, <2>5, <2>6 DEF Mon!Closed
<1>10. ASSUME NEW s \in Mon!Sessions, NEW d \in Mon!Dies, Mon!Backoff(s, d) PROVE Mon!IInv'
  BY <1>10 DEF Mon!Backoff
<1>11. ASSUME NEW s \in Mon!Sessions, NEW d \in Mon!Dies, Mon!Cancelled(s, d) PROVE Mon!IInv'
  BY <1>11 DEF Mon!Cancelled
<1>12. ASSUME NEW p \in Mon!Stops, Mon!MonitorStop(p) PROVE Mon!IInv'
  <2>1. v3' = [v3 EXCEPT ![p] = v4] /\ UNCHANGED <<v1, v6, v7, v9, v10, v11, v12>>
    BY <1>12 DEF Mon!MonitorStop
  <2>2. ASSUME v4' = 0, v2' = [v2 EXCEPT ![p] = "done"], UNCHANGED <<v5, v8>>
        PROVE  Mon!IInv'
    BY <2>1, <2>2
  <2>3. ASSUME v4 # 0, v5[v4] # "stopped", v2' = [v2 EXCEPT ![p] = "gather"], v5' = [v5 EXCEPT ![v4] = "stopping"],
               v8' = [v8 EXCEPT ![v4] = [d \in Mon!Dies |-> v6[v4][d] \in Mon!Active]], UNCHANGED v4
        PROVE  Mon!IInv'
    <3>1. v8' \in [Mon!Sessions -> [Mon!Dies -> BOOLEAN]]
      BY <2>3
    <3>2. /\ \A s \in Mon!Sessions, d \in Mon!Dies : s # v4 => v8'[s][d] = v8[s][d]
          /\ \A d \in Mon!Dies : v8'[v4][d] => v6[v4][d] \in Mon!Active
      BY <2>3
    <3>3. /\ v4 # 0 /\ v5[v4] # "stopped" /\ UNCHANGED v4
          /\ v2' = [v2 EXCEPT ![p] = "gather"]
          /\ v5' = [v5 EXCEPT ![v4] = "stopping"]
      BY <2>3
    <3>4. Mon!TypeOK' /\ Mon!StoppedIsQuiet' /\ Mon!OnlySessionsRun' /\ Mon!FailedIsOver'
      BY <2>1, <3>1, <3>3
    <3>5. Mon!FailsTogether' /\ Mon!StopsWait'
      BY <2>1, <3>3
    <3>6. Mon!CancelsStop'
      BY <2>1, <3>2, <3>3
    <3> QED
      BY <3>4, <3>5, <3>6
  <2> HIDE DEF Mon!IInv
  <2> QED
    BY <1>12, <2>2, <2>3 DEF Mon!MonitorStop, Mon!StopGoto
<1>13. ASSUME NEW p \in Mon!Stops, Mon!Gather(p) PROVE Mon!IInv'
  BY <1>13 DEF Mon!Gather, Mon!StopGoto
<1>14. ASSUME NEW p \in Mon!Stops, Mon!CloseChannels(p) PROVE Mon!IInv'
  BY <1>14 DEF Mon!CloseChannels, Mon!StopGoto
<1>15. ASSUME NEW p \in Mon!Stops, Mon!OnStopped(p) PROVE Mon!IInv'
  BY <1>15 DEF Mon!OnStopped, Mon!StopGoto, Mon!ReleaseAll
<1>16. ASSUME NEW p \in Mon!Stops, Mon!StopReturns(p) PROVE Mon!IInv'
  BY <1>16 DEF Mon!StopReturns, Mon!StopGoto
<1>17. CASE Mon!LeaseExpires
  BY <1>17 DEF Mon!LeaseExpires
<1>18. CASE UNCHANGED Mon!vars
  BY <1>18 DEF Mon!vars
<1> HIDE DEF Mon!IInv
<1> QED
  BY <1>1, <1>2, <1>3, <1>4, <1>5, <1>6, <1>7, <1>8, <1>9, <1>10, <1>11, <1>12, <1>13,
     <1>14, <1>15, <1>16, <1>17, <1>18
     DEF Mon!Next, Mon!StartStep, Mon!StopStep, Mon!LoopStep

(* _die_loop: only Closed spends the budget, and only after a failure. *)
LEMMA RenewalStep == ASSUME Mon!IInv, Mon!Next PROVE Mon!RenewalIsFree
<1> SUFFICES ASSUME NEW t \in Mon!Sessions, NEW e \in Mon!Dies, v6[t][e] = "closing", v7[t][e]
             PROVE  v11'[t][e] = v11[t][e]
  BY DEF Mon!RenewalIsFree
<1>1. ASSUME NEW s \in Mon!Sessions, NEW d \in Mon!Dies, Mon!Closed(s, d)
      PROVE  v11'[t][e] = v11[t][e]
  <2>1. CASE s = t /\ d = e
    BY <1>1, <2>1 DEF Mon!Closed, Mon!Renews, Mon!dieVars
  <2>2. CASE s # t \/ d # e
    <3>1. v11 \in [Mon!Sessions -> [Mon!Dies -> 0..MAX_RESTARTS]]
      BY DEF Mon!IInv, Mon!TypeOK
    <3>2. UNCHANGED v11 \/ v11' = [v11 EXCEPT ![s][d] = @ + 1]
      BY <1>1 DEF Mon!Closed, Mon!dieVars
    <3> QED
      BY <2>2, <3>1, <3>2
  <2> QED
    BY <2>1, <2>2
<1>2. UNCHANGED v11 \/ \E s \in Mon!Sessions, d \in Mon!Dies : Mon!Closed(s, d)
  BY DEF Mon!Next, Mon!StartStep, Mon!StopStep, Mon!LoopStep, Mon!dieVars,
         Mon!MonitorStart, Mon!AcquireAll, Mon!StageFails, Mon!BackOut, Mon!SessionStarts,
         Mon!FirstLine, Mon!Unsupported, Mon!StreamEnds, Mon!Backoff, Mon!Cancelled,
         Mon!MonitorStop, Mon!Gather, Mon!CloseChannels, Mon!OnStopped, Mon!StopReturns,
         Mon!LeaseExpires
<1> QED
  BY <1>1, <1>2

-----------------------------------------------------------------------------
(* The host. *)

HostInv ==
    /\ which = "gui" => GUI!IInv
    /\ which = "toolkit" => TK!IInv
    /\ which = "agents" => Agent!IInv
    /\ which = "monitor" => Mon!IInv

(* Whichever program it is, its own invariant always holds. *)
THEOREM HostInvAlways == Spec => []HostInv
<1>1. Init => HostInv
  BY GuiStarts, ToolkitStarts, AgentStarts, MonitorStarts DEF Init, HostInv
<1>2. HostInv /\ [Next]_all => HostInv'
  <2> SUFFICES ASSUME HostInv, [Next]_all PROVE HostInv'
    OBVIOUS
  <2>1. CASE which = "gui" /\ [GUI!Next]_(GUI!vars) /\ UNCHANGED which
    BY <2>1, GuiStep DEF HostInv
  <2>2. CASE which = "toolkit" /\ [TK!Next]_(TK!vars) /\ UNCHANGED which
    BY <2>2, ToolkitStep DEF HostInv
  <2>3. CASE which = "agents" /\ [Agent!Next]_(Agent!vars) /\ UNCHANGED which
    BY <2>3, AgentStep DEF HostInv
  <2>4. CASE which = "monitor" /\ [Mon!Next]_(Mon!vars) /\ UNCHANGED which
    BY <2>4, MonitorStep DEF HostInv
  <2>5. CASE which \notin {"gui", "toolkit", "agents", "monitor"} /\ UNCHANGED which
    BY <2>5 DEF HostInv
  <2>6. UNCHANGED all => UNCHANGED <<which, GUI!vars, TK!vars, Agent!vars, Mon!vars>>
    BY DEF all, Rest13, GUI!vars, TK!vars, Agent!vars, Mon!vars
  <2> QED
    BY <2>1, <2>2, <2>3, <2>4, <2>5, <2>6 DEF Next
<1> QED
  BY <1>1, <1>2, PTL DEF Spec

(* app.py, runner.py, monitor.py: a GUI run is alone behind the flock and  *)
(* loses a granted lease only by its TTL, one toolkit run is on the boards *)
(* and leaves neither lease nor sentinel behind, and a stopped session is  *)
(* quiet, however requests, aborts, lost leases and stops interleave.      *)
THEOREM BoardsAreHeldAlways == Spec => []BoardsAreHeld
<1>1. HostInv => BoardsAreHeld
  <2>1. GUI!IInv => GUI!MutexCoversRun /\ GUI!RunHoldsLeases
    BY DEF GUI!IInv
  <2>2. TK!IInv => TK!OneRunOnBoards /\ TK!LeaseGivenBack /\ TK!SentinelStops
    BY DEF TK!IInv, TK!InFlightIsCurrent, TK!OneRunOnBoards
  <2>3. Mon!IInv => Mon!StoppedIsQuiet
    BY DEF Mon!IInv
  <2> QED
    BY <2>1, <2>2, <2>3 DEF HostInv, BoardsAreHeld
<1> QED
  BY <1>1, HostInvAlways, PTL

(* current_run and _maybe_fail_session: a run that is not over is the      *)
(* current one, and a session fails exactly when both its dies have.       *)
THEOREM StatusIsTrueAlways == Spec => []StatusIsTrue
<1>1. HostInv => StatusIsTrue
  BY DEF HostInv, StatusIsTrue, GUI!IInv, Mon!IInv
<1> QED
  BY <1>1, HostInvAlways, PTL

(* tl_perf_agent.py: only packets nobody paid for exceed the FIFO.         *)
THEOREM CreditAccountedAlways == Spec => []CreditAccounted
<1>1. HostInv => CreditAccounted
  BY DEF HostInv, CreditAccounted, Agent!IInv
<1> QED
  BY <1>1, HostInvAlways, PTL

(* _finish, the toolkits' _run and _die_loop: a terminal record is final,  *)
(* and a renewal of the monitor's stream is free.                          *)
THEOREM RecordsAreFinalAlways == Spec => RecordsAreFinal
<1>1. ASSUME HostInv, [Next]_all
      PROVE  [/\ which = "gui" => GUI!TerminalOnce
              /\ which = "toolkit" => TK!TerminalOnce
              /\ which = "monitor" => Mon!RenewalIsFree]_all
  <2>1. CASE which = "gui" /\ GUI!Next
    BY <1>1, <2>1, GuiStep DEF HostInv
  <2>2. CASE which = "monitor" /\ Mon!Next
    BY <1>1, <2>2, RenewalStep DEF HostInv
  <2>3. CASE which = "toolkit" /\ TK!Next
    BY <1>1, <2>3, ToolkitStep DEF HostInv
  <2>4. CASE which \notin {"gui", "toolkit", "monitor"}
    BY <2>4
  <2> QED
    BY <1>1, <2>1, <2>2, <2>3, <2>4 DEF Next
<1> QED
  BY <1>1, HostInvAlways, PTL DEF Spec, RecordsAreFinal
=============================================================================

---------------------------- MODULE MCBoardTools ----------------------------
(***************************************************************************)
(* The tests and tools that drive the boards, for TLC.  They share no      *)
(* state: each behaviour is that of one tool of Tools, `which` says whose, *)
(* and v1, v2, ... stand for its variables, in the order in which its      *)
(* module declares them.                                                   *)
(***************************************************************************)
EXTENDS Integers, Sequences, FiniteSets

CONSTANTS
    Tools,                                  \* what the run checks
    SysOnly, SysRetries, SysSoak, SysReads, SysChunk, SysBeats, SysStep,  \* the validation's options
    XferFold, XferIters, XferStream, XferWin, XferSenders,                \* a transfer's sizes
    RegFold, RegIters, RegStream, RegWin, RegSenders, RegMaxRuns,         \* the regression's
    StressLanes, StressMaxTests,            \* lanes of a link, tests of a suite
    BringMaxTries, BringModes, BringNodes, BringCrcModes,   \* the bring-up's options
    GateNames, GateCorners, GateTrials,     \* the coverage gates, their corners and trials
    ChartPrograms,                          \* the TideChart tools
    CrcModes, CrcN, CrcCandidates,          \* the CRC shots: mode, shots, arming attempts
    EyeProgs, EyeBoards, EyeTaps, EyeLanes, \* the eye sweeps
    Jobs, JobDirs, JobSizes, JobCount, JobHold, JobMaxRuns,               \* the stress workloads
    AsicRetries, AsicMaxBursts, AsicMaxProbes,              \* the starvation probe
    CampIters, CampMaxChunks, CampFloor,    \* the weekend campaign
    PairImages, PairMaxPolls, PairMaxFaults,                \* images of an on-chip pair, polls, faults
    RegsDefects, RegsMaxCredits, RegsMaxThreshold,          \* registers that may be broken, their widths
    IrqPayloads, IrqMaxRuns, IrqMaxTicks,   \* mailbox words, runs and clock ticks of the probes
    RxKinds, RxLens, RxMaxCredits, RxThreshold, RxCount, RxLate, RxMaxSessions   \* the RX tools

(* The sizes the validation takes from its environment. *)
ASSUME SysSizes == SysSoak \in Nat /\ SysReads \in Nat /\ SysChunk \in Nat /\ SysBeats \subseteq Nat /\ SysStep \in Nat

(* The landing words of a transfer fit in the SRAM, and two dies send. *)
ASSUME XferSizes ==
    /\ XferFold \in Nat /\ XferFold >= 2 /\ XferWin \in Nat /\ XferWin > 0
    /\ XferIters \in Nat /\ XferStream \in Nat /\ XferSenders \subseteq {"a", "b"}

(* The regression's landing word is in its SRAM. *)
ASSUME RegSizes == RegFold \in Nat /\ RegFold > 0

(* Lanes and tests are counted, so is the threshold register's range, and  *)
(* the directions of a workload are numbered from 1.                       *)
ASSUME StressSizes == StressLanes \in Nat /\ StressMaxTests \in Nat
ASSUME RegsSizes == RegsMaxThreshold \in Nat
ASSUME JobSides == IsFiniteSet(JobDirs) /\ JobDirs # {} /\ JobDirs = 1 .. Cardinality(JobDirs)

VARIABLES which, v1, v2, v3, v4, v5, v6, v7, v8, v9, v10, v11, v12, v13, v14, v15, v16, v17, v18, v19,
    v20, v21, v22

(* The RX tools one at a time, and the pairs that are used together. *)
EachAlone ==
    {{"credit_tx"}, {"soak"}, {"tlchar"}, {"tlchar", "credit_tx"}, {"credit_tx", "strided"}, {"soak", "credit_tx"}}

SysVal == INSTANCE SysVal WITH
    pc <- v1, tries <- v2, at <- v3, sram <- v4, link <- v5, results <- v6, exit <- v7,
    trouble <- v8, dropped <- v9, ENDUR_BEATS <- v10, Only <- SysOnly,
    SSH_RETRIES <- SysRetries, SOAK_N <- SysSoak, READ_N <- SysReads, CHUNK <- SysChunk, Beats <- SysBeats,
    STEP <- SysStep
Xfer == INSTANCE XferModes WITH
    cam <- v1, sram <- v2, slot <- v3, link <- v4, out <- v5, owed <- v6, FOLD <- XferFold,
    Iters <- XferIters, Stream <- XferStream, Win <- XferWin, Senders <- XferSenders
Regress == INSTANCE EthRegress WITH
    cam <- v1, sram <- v2, slot <- v3, link <- v4, out <- v5, owed <- v6, n <- v7,
    opt <- v8, pc <- v9, passed <- v10, failed <- v11, provenance_ok <- v12,
    downgraded <- v13, witnesses <- v14, interlock <- v15, fresh <- v16,
    traffic <- v17, exit <- v18, FOLD <- RegFold, Iters <- RegIters, Stream <- RegStream, Win <- RegWin,
    Senders <- RegSenders, MaxRuns <- RegMaxRuns
Stress == INSTANCE StressSuite WITH
    opt <- v1, queue <- v2, test <- v3, at <- v4, errs <- v5, raised <- v6,
    alarm <- v7, next_id <- v8, waiting <- v9, asked <- v10, answers <- v11,
    agent <- v12, masks <- v13, taken <- v14, records <- v15, exit <- v16, Lanes <- StressLanes,
    MaxTests <- StressMaxTests
BringUp == INSTANCE BringUp WITH
    opt <- v1, try <- v2, pc <- v3, training <- v4, cal <- v5, swreset <- v6, up <- v7,
    lost <- v8, anchored <- v9, crc <- v10, said <- v11, word <- v12, landed <- v13,
    matched <- v14, log <- v15, ended <- v16, rc <- v17, verdict <- v18, MaxTries <- BringMaxTries,
    Modes <- BringModes, Nodes <- BringNodes, CrcModes <- BringCrcModes, Appended <- FALSE
Gates == INSTANCE CovGates WITH
    gate <- v1, autopor <- v2, todo <- v3, failed <- v4, noted <- v5, exit <- v6,
    link <- v7, hung <- v8, victims <- v9, staged <- v10, sram <- v11,
    delivered <- v12,
    Gates <- GateNames, Corners <- GateCorners, Trials <- GateTrials
Chart == INSTANCE TideChart WITH
    prog <- v1, puf <- v2, claim <- v3, wide <- v4, fsm <- v5, heard <- v6, late <- v7,
    is_root <- v8, enum <- v9, pc <- v10, seen <- v11, rc <- v12, fails <- v13,
    fcsm <- v14, Programs <- ChartPrograms, Integrity <- TRUE
Crc == INSTANCE CrcShots WITH
    mode <- v1, slave <- v2, fixed <- v3, pc <- v4, i <- v5, try <- v6, link <- v7,
    room <- v8, fifo <- v9, late <- v10, armed <- v11, unlocked <- v12, crc <- v13,
    crc0 <- v14, run0 <- v15, ledger <- v16, cnt <- v17, pk <- v18, bad <- v19,
    rc <- v20, got <- v21, hit <- v22,
    Modes <- CrcModes, N <- CrcN, Candidates <- CrcCandidates
Eye == INSTANCE EyeSweep WITH
    prog <- v1, phy <- v2, lock <- v3, orig <- v4, pc <- v5, tap <- v6, rows <- v7,
    cancelled <- v8, auto <- v9, cal <- v10, eye <- v11, buf <- v12, host <- v13,
    die <- v14, lane <- v15, scores <- v16, Progs <- EyeProgs,
    Boards <- EyeBoards, Taps <- EyeTaps, Lanes <- EyeLanes
Modes == INSTANCE StressModes WITH
    job <- v1, pc <- v2, run <- v3, i <- v4, size <- v5, errors <- v6, fifo <- v7,
    acc <- v8, late <- v9, sent <- v10, streak <- v11, idle <- v12, seen <- v13,
    alarm <- v14, cancel <- v15, summary <- v16, passed <- v17, spoiled <- v18,
    dirty <- v19, Jobs <- Jobs, Dirs <- JobDirs,
    Sizes <- JobSizes, Count <- JobCount, Hold <- JobHold, MaxRuns <- JobMaxRuns
Asic == INSTANCE AsicL7 WITH
    node <- v1, plat <- v2, crcoff <- v3, ag <- v4, ans <- v5, arm <- v6, pc <- v7,
    tries <- v8, bursts <- v9, probes <- v10, verdict <- v11, seen <- v12,
    Retries <- AsicRetries, MaxBursts <- AsicMaxBursts, MaxProbes <- AsicMaxProbes
Campaign == INSTANCE Campaign WITH
    mode <- v1, bd <- v2, link <- v3, mem <- v4, pc <- v5, plan <- v6, ci <- v7,
    kept <- v8, rows <- v9, result <- v10, Iters <- CampIters, MaxChunks <- CampMaxChunks, Floor <- CampFloor
Pair == INSTANCE OnchipPair WITH
    image <- v1, die <- v2, bus <- v3, tool <- v4, faults <- v5,
    Images <- PairImages, MaxPolls <- PairMaxPolls, MaxFaults <- PairMaxFaults
Regs == INSTANCE RegSweep WITH
    reg <- v1, lost <- v2, bad <- v3, sweep <- v4, host <- v5,
    Defects <- RegsDefects, MaxCredits <- RegsMaxCredits, MaxThreshold <- RegsMaxThreshold
Irq == INSTANCE IrqProbes WITH
    up <- v1, wire <- v2, mbox <- v3, tool <- v4, seen <- v5, lines <- v6, base <- v7,
    there <- v10, probe <- v8, runs <- v9, Payloads <- IrqPayloads, MaxRuns <- IrqMaxRuns, MaxTicks <- IrqMaxTicks
Rx == INSTANCE RxTools WITH
    kinds <- v1, link <- v2, fifo <- v3, wside <- v4, over <- v5, thr <- v6, rel <- v7,
    ret <- v8, pair <- v9, tx <- v10, rx <- v11, out <- v12, Kinds <- RxKinds,
    Lens <- RxLens, MaxCredits <- RxMaxCredits, Threshold <- RxThreshold, Count <- RxCount, Late <- RxLate,
    MaxSessions <- RxMaxSessions

(* The variables a tool does not have. *)
Off22 == v22 = 0
Off21 == v21 = 0 /\ Off22
Off20 == v20 = 0 /\ Off21
Off19 == v19 = 0 /\ Off20
Off18 == v18 = 0 /\ Off19
Off17 == v17 = 0 /\ Off18
Off16 == v16 = 0 /\ Off17
Off15 == v15 = 0 /\ Off16
Off14 == v14 = 0 /\ Off15
Off13 == v13 = 0 /\ Off14
Off12 == v12 = 0 /\ Off13
Off11 == v11 = 0 /\ Off12
Off10 == v10 = 0 /\ Off11
Off9 == v9 = 0 /\ Off10
Off8 == v8 = 0 /\ Off9
Off7 == v7 = 0 /\ Off8
Off6 == v6 = 0 /\ Off7

Rest22 == v22
Rest21 == <<v21, Rest22>>
Rest20 == <<v20, Rest21>>
Rest19 == <<v19, Rest20>>
Rest18 == <<v18, Rest19>>
Rest17 == <<v17, Rest18>>
Rest16 == <<v16, Rest17>>
Rest15 == <<v15, Rest16>>
Rest14 == <<v14, Rest15>>
Rest13 == <<v13, Rest14>>
Rest12 == <<v12, Rest13>>
Rest11 == <<v11, Rest12>>
Rest10 == <<v10, Rest11>>
Rest9 == <<v9, Rest10>>
Rest8 == <<v8, Rest9>>
Rest7 == <<v7, Rest8>>
Rest6 == <<v6, Rest7>>

all == <<which, v1, v2, v3, v4, v5, Rest6>>

Init ==
    /\ which \in Tools
    /\ \/ which = "sysval" /\ SysVal!Init /\ Off11
       \/ which = "xfer" /\ Xfer!Init /\ Off7
       \/ which = "regress" /\ Regress!RegressInit /\ Off19
       \/ which = "stress" /\ Stress!Init /\ Off17
       \/ which = "bringup" /\ BringUp!Init /\ Off19
       \/ which = "gates" /\ Gates!Init /\ Off13
       \/ which = "chart" /\ Chart!Init /\ Off15
       \/ which = "crc" /\ Crc!Init
       \/ which = "eye" /\ Eye!Init /\ Off17
       \/ which = "modes" /\ Modes!Init /\ Off20
       \/ which = "asic" /\ Asic!Init /\ Off13
       \/ which = "campaign" /\ Campaign!Init /\ Off11
       \/ which = "pair" /\ Pair!Init /\ Off6
       \/ which = "regs" /\ Regs!Init /\ Off6
       \/ which = "mailbox" /\ Irq!Init /\ Off11
       \/ which = "observe" /\ Irq!Init /\ Off11
       \/ which = "rx" /\ Rx!Init /\ Off13

Next ==
    \/ which = "sysval" /\ SysVal!Next /\ UNCHANGED <<which, Rest11>>
    \/ which = "xfer" /\ Xfer!Next /\ UNCHANGED <<which, Rest7>>
    \/ which = "regress" /\ Regress!RegressNext /\ UNCHANGED <<which, Rest19>>
    \/ which = "stress" /\ Stress!Next /\ UNCHANGED <<which, Rest17>>
    \/ which = "bringup" /\ BringUp!Next /\ UNCHANGED <<which, Rest19>>
    \/ which = "gates" /\ Gates!Next /\ UNCHANGED <<which, Rest13>>
    \/ which = "chart" /\ Chart!Next /\ UNCHANGED <<which, Rest15>>
    \/ which = "crc" /\ Crc!Next /\ UNCHANGED which
    \/ which = "eye" /\ Eye!Next /\ UNCHANGED <<which, Rest17>>
    \/ which = "modes" /\ Modes!Next /\ UNCHANGED <<which, Rest20>>
    \/ which = "asic" /\ Asic!Next /\ UNCHANGED <<which, Rest13>>
    \/ which = "campaign" /\ Campaign!Next /\ UNCHANGED <<which, Rest11>>
    \/ which = "pair" /\ Pair!Next /\ UNCHANGED <<which, Rest6>>
    \/ which = "regs" /\ Regs!Next /\ UNCHANGED <<which, Rest6>>
    \/ which = "mailbox" /\ Irq!Mailbox /\ UNCHANGED <<which, Rest11>>
    \/ which = "observe" /\ Irq!Observe /\ UNCHANGED <<which, Rest11>>
    \/ which = "rx" /\ Rx!Next /\ UNCHANGED <<which, Rest13>>

Spec == Init /\ [][Next]_all

-----------------------------------------------------------------------------
(* A test that reports a pass has delivered: every word it counts reached  *)
(* the other die, the words that satisfied the check were its own, no FIFO *)
(* was sent more than its space by senders that spend credit, a wedge that *)
(* a gate reports was staged, and the dashboard's streak of delivered runs *)
(* is the longest.                                                         *)
GreenIsDelivered ==
    /\ which = "sysval" => SysVal!PassIsDelivered
    /\ which = "gates" => Gates!GreenIsDelivered /\ Gates!WedgeIsStaged
    /\ which = "crc" => Crc!PassIsDelivered
    /\ which = "campaign" => Campaign!PassIsDelivered /\ Campaign!StreakIsLongest
    /\ which = "rx" => Rx!PassIsOwn /\ Rx!NoOverrun

(* A green summary hides nothing: no selected test timed out or raised     *)
(* under it, no packet or ring was lost unless residue was there to stand  *)
(* in for it, one root was elected and both TideChart tools say so, and a  *)
(* register sweep left the link as it found it.                            *)
GreenIsClean ==
    /\ which = "stress" => Stress!GreenIsClean
    /\ which = "modes" => Modes!PassIsClean
    /\ which = "chart" => Chart!ToolsAgree /\ Chart!PassIsOneRoot
    /\ which = "regs" => Regs!PassIsHarmless

(* A verdict against the hardware has a cause in the hardware: connections *)
(* lost before the board's marker are no fault (after it they are taken    *)
(* for one, see SysVal!NoMismatchFromTransport), a starved node was seen,  *)
(* and a recovery is claimed only when traffic was carried afterwards.     *)
FaultsAreReal ==
    /\ which = "sysval" => SysVal!NetIsNotAFault
    /\ which = "asic" => Asic!VerdictIsWitnessed /\ Asic!RecoveryIsCarried

(* Nothing is accepted about a link, or driven through it, before this run *)
(* has proved it: the bring-up's anchor and traffic, the regression's      *)
(* interlock and, on blank boards, its witnesses, the on-chip pair's       *)
(* handshake and image.                                                    *)
LinkProven ==
    /\ which = "bringup" => BringUp!AcceptIsCurrent /\ BringUp!TrafficProves
    /\ which = "regress" => Regress!NoBlindTraffic /\ Regress!GreenIsWitnessed
    /\ which = "pair" => Pair!ProvenIsHandshaken /\ Pair!SmokedIsPair

(* A tool leaves the link as it needs to be: the sampling phase restored,  *)
(* error injection locked again.                                           *)
LinkLeftWhole ==
    /\ which = "eye" => Eye!PhaseRestored
    /\ which = "crc" => Crc!Relocked

(* What a tool writes down is about the run it names: the counts and the   *)
(* rows, the answer to this request, a word of this send, a tick of this   *)
(* observation.                                                            *)
RecordsAreOwn ==
    /\ which = "modes" => Modes!SummaryAccounts
    /\ which = "stress" => Stress!AnswersMatch
    /\ which = "eye" => Eye!RowsSettled
    /\ which = "mailbox" => Irq!RecvIsFresh
    /\ which = "observe" => Irq!ObservedIsReal

(* A campaign cycle never brings up a live link, and starts from boards it *)
(* has reset (the sweep both, the weekend driver one at least); and a      *)
(* verifier passes when its own sender's words have all arrived, soak_recv *)
(* those of the adversarial soak.                                          *)
StepsAreFresh ==
    [][/\ which = "campaign" => Campaign!CyclesAreFresh
       /\ which = "xfer" => Xfer!VerifierAgrees]_all
=============================================================================

---------------------------- MODULE MCHostTools ----------------------------
(***************************************************************************)
(* The drivers, decoders, stores and gates on the host, and the role       *)
(* negotiation they program, for TLC.  They share no state: each behaviour *)
(* is that of one tool of Tools, `which` says whose, and v1, v2, ... stand *)
(* for its variables, in the order in which its module declares them.      *)
(***************************************************************************)
EXTENDS Integers, Sequences, FiniteSets

CONSTANTS
    Tools,        \* what the run checks
    Programs,     \* what software does to the role registers
    MasterDie,    \* the die that is strapped as master
    NegoResets,   \* reset values of the negotiation's configuration
    TrainFallback,\* train without an answer of the peer
    Writes, Beats, Addrs, PktTags,   \* what packets carry
    MaxPayload, MaxPackets,       \* room of the packet reader, packets sent
    NsPerSec, Word,               \* the PHC's second, the values of a register
    MaxTime, MaxCalls,            \* clocks and calls of the performance monitor
    Pushes, Manifests, Subs, Checkouts, MaxTier,   \* what bump_check is run on
    Makefiles, Environs, Uses, Includes, BenchList,    \* what sim_gate is run on
    GateEdits,                    \* edits of the tree while the gate is at work
    Agents, Labels, Builds, StoreCmds, StoreRot,  \* who uses the bitstream store, of what
    CovSuites, CovCommits, CovArts, CovEdits,     \* what coverage is packed of, how often
    RunServers, RunCount, RunColumns,             \* who opens the run store, its runs and columns
    RunVersions, RunKeys, RunFifos,               \* what a run is made with
    AccBoards, AccSocs, AccBases, AccOps,         \* boards, and what operators export
    PollQueue, PollProcs, PollCrc, PollEvents,    \* a browser's queue; agents, CRC errors and events
    WordPlanes, WordEvents                        \* planes of a bitstream, what happens to a die

ASSUME NegoAssumption ==
    /\ MasterDie \in {"a", "b"}
    /\ Programs \subseteq {"none", "negotiate", "bringup"}
    /\ NegoResets \subseteq [en : BOOLEAN, force : BOOLEAN, mask : BOOLEAN]

ASSUME PacketAssumption ==
    /\ Writes \subseteq Seq(Nat) /\ \A d \in Writes : Len(d) < 4096
    /\ Beats \subseteq Nat /\ Addrs \subseteq Nat /\ PktTags \subseteq 0 .. 255
    /\ MaxPayload \in Nat

ASSUME PerfAssumption == NsPerSec \in Nat \ {0} /\ Word \in Nat \ {0}

ASSUME BumpAssumption ==
    \A p \in Pushes : /\ Len(p) \in Nat \ {0}
                      /\ \A r \in 1 .. Len(p) : Len(p[r].moves) \in Nat \ {0}

ASSUME GateAssumption ==
    /\ \A s \in DOMAIN BenchList : BenchList[s] \in DOMAIN Uses
    /\ \A i \in Includes : i.from \in DOMAIN Uses /\ i.to \in DOMAIN Uses
    /\ \A m \in Makefiles : \A t \in m.invoked : m.label[t] \in DOMAIN BenchList \union {""}

ASSUME AccessAssumption == AccBoards \subseteq {"z2", "kr260"}

ASSUME PollAssumption == PollQueue \in Nat \ {0}

ASSUME WordAssumption == WordPlanes \subseteq SUBSET {"regf", "witness"}

ASSUME StoreAssumption == CovArts \in Nat /\ RunCount \in Nat

VARIABLES which, v1, v2, v3, v4, v5, v6, v7, v8, v9, v10, v11, v12, v13, v14, v15, v16, v17

-----------------------------------------------------------------------------
(* Inputs. *)

(* Bitstreams: one master with two different slaves and with none. *)
MCBuilds == {[m |-> "A", s |-> "x"], [m |-> "A", s |-> "y"], [m |-> "A", s |-> "none"]}

(* Reset values of the negotiation's configuration. *)
MCCfgReset ==
    {[en |-> FALSE, force |-> FALSE, mask |-> FALSE], [en |-> TRUE, force |-> FALSE, mask |-> TRUE]}

(* Payloads of no word, of one, and of three, more than the buffer holds. *)
MCWrites == {<<>>, <<7>>, <<4, 5, 6>>}

(* The planes an image has. *)
MCPlanes == {{"regf", "witness"}, {"regf"}, {}}

(* One or two branches pushed, moving one or two submodules; capabilities  *)
(* of every kind the check tells apart.                                    *)
Cap(id, gate, tier, regen, rows, hits) ==
    [id |-> id, gate |-> gate, tier |-> tier, regen |-> regen, rows |-> rows,
     cmd |-> TRUE, bump |-> TRUE, hits |-> hits]
Mv(p, o, n) == [path |-> p, old |-> o, new |-> n]
MCPushes ==
    {<<[base |-> "b1", tip |-> "t1", moves |-> <<Mv("sub", "o1", "n1"), Mv("ip", "o1", "n2")>>]>>,
     <<[base |-> "b1", tip |-> "t1", moves |-> <<Mv("sub", "o1", "n1"), Mv("ip", "o1", "zero")>>],
       [base |-> "b2", tip |-> "t2", moves |-> <<Mv("sub", "o2", "n1"), Mv("ip", "o1", "n1")>>]>>}
Own == {Cap("sim", "block", 1, FALSE, FALSE, {"sub", "ip"}), Cap("gen", "block", 1, TRUE, FALSE, {"sub"})}
NoManifest == [caps |-> {}, comp |-> <<>>, ok |-> FALSE]
MCManifests ==
    {[t \in {"t1", "t2"} |-> m] :
        m \in {NoManifest,
               [ok |-> TRUE, caps |-> Own, comp |-> <<>>],
               [ok |-> TRUE, caps |-> {Cap("rep", "report", 1, FALSE, FALSE, {"ip"})},
                comp |-> <<[path |-> "sub", bump |-> TRUE, run |-> {"unit", "gone"}]>>]}}
MCSubs ==
    {[c \in {"n1", "n2"} |-> s] :
        s \in {NoManifest, [ok |-> TRUE, comp |-> <<>>,
                      caps |-> {Cap("unit", "block", 1, FALSE, FALSE, {}), Cap("soak", "block", 3, FALSE, FALSE, {})}],
               [ok |-> TRUE, comp |-> <<>>,
                caps |-> {Cap("unit", "block", 1, FALSE, FALSE, {}), Cap("gone", "block", 1, FALSE, TRUE, {})}],
               [ok |-> TRUE, comp |-> <<>>, caps |-> {Cap("unit", "block", 1, FALSE, FALSE, {})}]}}

MCCheckouts == [{"sub", "ip"} -> {"n1", "n2"}]

(* Two suites and a sentinel; the first suite's file list includes the     *)
(* second's through a variable.                                            *)
MCUses == [f1 |-> {"HOME"}, f2 |-> {"SRAM"}, f3 |-> {}]
MCIncludes == {[from |-> "f1", to |-> "f2", var |-> "IP"], [from |-> "f2", to |-> "f3", var |-> ""]}
MCBenchList == [a |-> "f1", b |-> "f3", x |-> "f3"]
MCMakefiles ==
    LET good == [invoked |-> {"t_a", "t_b", "t_x"}, label |-> [t_a |-> "a", t_b |-> "b", t_x |-> "x"],
                 lists |-> TRUE, scored |-> {"a", "b"}, sentinels |-> {"x"}]
    IN {good, [good EXCEPT !.scored = {"a"}], [good EXCEPT !.invoked = {"t_a", "t_x"}],
        [good EXCEPT !.label.t_b = ""], [good EXCEPT !.invoked = {}], [good EXCEPT !.lists = FALSE]}
MCEnvirons ==
    LET good == [set |-> {"HOME", "IP", "SRAM"}, closure |-> TRUE, subs |-> TRUE, git |-> TRUE,
                 site |-> TRUE, allow_dirty |-> FALSE, xhb |-> TRUE, tools |-> TRUE]
    IN {good, [good EXCEPT !.allow_dirty = TRUE], [good EXCEPT !.closure = FALSE], [good EXCEPT !.subs = FALSE],
        [good EXCEPT !.xhb = FALSE], [good EXCEPT !.tools = FALSE], [good EXCEPT !.git = FALSE],
        [good EXCEPT !.site = FALSE], [good EXCEPT !.set = {"HOME", "IP"}],
        [good EXCEPT !.set = {"HOME", "SRAM"}]}

-----------------------------------------------------------------------------
Polls == INSTANCE MonitorPolls WITH
    proc <- v1, up <- v2, perfSt <- v3, fixed <- v4, frozen <- v5, clearedBy <- v6,
    crc <- v7, lastRead <- v8, overrun <- v9, anchor <- v10, rateOf <- v11,
    pending <- v12, agreed <- v13, sticky <- v14, window <- v15, queue <- v16,
    published <- v17, SUBSCRIBER_QUEUE_MAX <- PollQueue, MaxProcs <- PollProcs,
    MaxCrc <- PollCrc, MaxEvents <- PollEvents
Runs == INSTANCE RunStore WITH
    attr <- v1, rec <- v2, row <- v3, columns <- v4, pc <- v5, have <- v6, snap <- v7,
    hand <- v8, op <- v9, Servers <- RunServers, NumRuns <- RunCount, NumColumns <- RunColumns,
    Versions <- RunVersions, Keys <- RunKeys, Fifos <- RunFifos
Cov == INSTANCE CoverageFlow WITH
    tree <- v1, edits <- v2, status <- v3, vdb <- v4, man <- v5, arts <- v6,
    store <- v7, pub <- v8, builds <- v9, baseline <- v10, Suites <- CovSuites,
    Commits <- CovCommits, MaxArts <- CovArts, MaxEdits <- CovEdits
Art == INSTANCE ArtifactStore WITH
    blobs <- v1, incoming <- v2, tags <- v3, index <- v4, tmp <- v5, boards <- v6,
    proc <- v7, dep <- v8, cmds <- v9, rot <- v10, MaxCmds <- StoreCmds, MaxRot <- StoreRot
Bump == INSTANCE BumpCheck WITH
    arg <- v1, job <- v2, ran <- v3, asked <- v4
Gate == INSTANCE SimGate WITH
    mk <- v1, env <- v2, tree <- v3, edits <- v4, gate <- v5, cur <- v6, st <- v7,
    MaxEdits <- GateEdits
Nego == INSTANCE Autoneg WITH
    n <- v1, r <- v2, masks <- v3, sw <- v4, strap <- [d \in {"a", "b"} |-> IF d = MasterDie THEN 0 ELSE 1],
    NEGO_CFG_RESET <- NegoResets, TRAIN_ENTRY_FALLBACK <- TrainFallback
Pkt == INSTANCE PacketIO WITH
    fifo <- v1, open <- v2, tx <- v3, rx <- v4, pkt_len <- v5, sent <- v6,
    received <- v7
Perf == INSTANCE PerfMonitor WITH
    now <- v1, ctrl <- v2, count <- v3, stamp <- v4, when <- v5, sending <- v6,
    cpu <- v7, calls <- v8, result <- v9
Words == INSTANCE LinkWords WITH
    bits <- v1, fcsm <- v2, planes <- v3, events <- v4, tool <- v5, verdict <- v6,
    Planes <- WordPlanes, MaxEvents <- WordEvents
Access == INSTANCE BoardAccess WITH
    board <- v1, pl <- v2, env <- v3, proc <- v4, hung <- v5, die <- v6, ops <- v7,
    Boards <- AccBoards, Socs <- AccSocs, Bases <- AccBases, MaxOps <- AccOps

(* The variables a tool does not have. *)
Off17 == v17 = 0
Off16 == v16 = 0 /\ Off17
Off15 == v15 = 0 /\ Off16
Off14 == v14 = 0 /\ Off15
Off13 == v13 = 0 /\ Off14
Off12 == v12 = 0 /\ Off13
Off11 == v11 = 0 /\ Off12
Off10 == v10 = 0 /\ Off11
Off9 == v9 = 0 /\ Off10
Off8 == v8 = 0 /\ Off9
Off7 == v7 = 0 /\ Off8
Off6 == v6 = 0 /\ Off7
Off5 == v5 = 0 /\ Off6

Rest17 == v17
Rest16 == <<v16, Rest17>>
Rest15 == <<v15, Rest16>>
Rest14 == <<v14, Rest15>>
Rest13 == <<v13, Rest14>>
Rest12 == <<v12, Rest13>>
Rest11 == <<v11, Rest12>>
Rest10 == <<v10, Rest11>>
Rest9 == <<v9, Rest10>>
Rest8 == <<v8, Rest9>>
Rest7 == <<v7, Rest8>>
Rest6 == <<v6, Rest7>>
Rest5 == <<v5, Rest6>>

all == <<which, v1, v2, v3, v4, Rest5>>

Init ==
    /\ which \in Tools
    /\ \/ which = "polls" /\ Polls!Init
       \/ which = "runs" /\ Runs!Init /\ Off10
       \/ which = "coverage" /\ Cov!Init /\ Off11
       \/ which = "artifacts" /\ Art!Init /\ Off11
       \/ which = "bump" /\ Bump!Init /\ Off5
       \/ which = "gate" /\ Gate!Init /\ Off8
       \/ which = "autoneg" /\ Nego!Init /\ Off5
       \/ which = "packets" /\ Pkt!Init /\ Off8
       \/ which = "perf" /\ Perf!Init /\ Off10
       \/ which = "words" /\ Words!Init /\ Off7
       \/ which = "access" /\ Access!Init /\ Off8

Next ==
    \/ which = "polls" /\ Polls!Next /\ UNCHANGED which
    \/ which = "runs" /\ Runs!Next /\ UNCHANGED <<which, Rest10>>
    \/ which = "coverage" /\ Cov!Next /\ UNCHANGED <<which, Rest11>>
    \/ which = "artifacts" /\ Art!Next /\ UNCHANGED <<which, Rest11>>
    \/ which = "bump" /\ Bump!Next /\ UNCHANGED <<which, Rest5>>
    \/ which = "gate" /\ Gate!Next /\ UNCHANGED <<which, Rest8>>
    \/ which = "autoneg" /\ Nego!Next /\ UNCHANGED <<which, Rest5>>
    \/ which = "packets" /\ Pkt!Next /\ UNCHANGED <<which, Rest8>>
    \/ which = "perf" /\ Perf!Next /\ UNCHANGED <<which, Rest10>>
    \/ which = "words" /\ Words!Next /\ UNCHANGED <<which, Rest7>>
    \/ which = "access" /\ Access!Next /\ UNCHANGED <<which, Rest8>>

Spec == Init /\ [][Next]_all

-----------------------------------------------------------------------------
(* A gate that lets something through has run what backs it: every moved   *)
(* submodule's checks for a pin bump, this very tree for a green gate; and *)
(* what a gate calls red it has measured.                                  *)
GatesAreBacked ==
    /\ which = "bump" => Bump!LandedIsBacked
    /\ which = "gate" => Gate!GreenIsThisTree /\ Gate!RedIsMeasured

(* What a store says of its contents is so: artifacts are whole and passes *)
(* anchored, a deployed bitstream is the labelled one, a run's index row   *)
(* follows its record, and a comparison says what confounds it.            *)
StoresAreWhole ==
    /\ which = "coverage" => Cov!StoreWhole /\ Cov!PassIsAnchored
    /\ which = "artifacts" => Art!DeployedIsLabelled
    /\ which = "runs" => Runs!IndexFollowsRecord /\ Runs!ConfoundSaid

(* The two dies never both become master by negotiation, and a verified    *)
(* lane mask is the one the peer has.                                      *)
RolesAgree == which = "autoneg" => Nego!NeverTwoMasters /\ Nego!VerifiedIsAgreed

(* The drivers return what was sent and what was counted: packets word for *)
(* word, a snapshot of one instant, latencies that are times.              *)
DriversExact ==
    /\ which = "packets" => Pkt!RoundTrip
    /\ which = "perf" => Perf!SnapshotIsOneInstant /\ Perf!LatenciesAreTimes

(* A reading of the link is true of the link: a die graded healthy had no  *)
(* fault latched, and the GUI, the snapshot and the corner tests say the   *)
(* same of one word (the stress toolkit alone alarms on every healthy      *)
(* one); a CRC error shown was real, a rate is of one process, a window    *)
(* was cleared, and a slow client still gets the latest.                   *)
ReadingsAreTrue ==
    /\ which = "words" => Words!HealthyIsQuiet /\ Words!ToolsAgree
    /\ which = "polls" => /\ Polls!CrcWasReal /\ Polls!RateWithinProcess
                          /\ Polls!WindowWasCleared /\ Polls!LatestNotLost

(* No tool touches an address the image does not decode unless TIDELINK_SOC *)
(* names the wrong board or, on a KR260, none (see BoardAccess), nor an     *)
(* agent a board without an image.                                          *)
AccessGuarded == which = "access" => Access!NoUndecoded /\ Access!AgentNeedsImage

(* No step undoes what others rely on: a stored blob, a run's back-filled  *)
(* column, the phase under a lock.                                         *)
NeverUndone ==
    [][/\ which = "artifacts" => Art!BlobsImmutable
       /\ which = "runs" => Runs!ColumnsKept
       /\ which = "access" => Access!PhaseBeforeLock]_all
=============================================================================

# TLA+ models of the TideLink chiplet interconnect

TideLink carries packets between two chiplets. Each chiplet has a receive FIFO that the link
fills and a CPU drains over AHB, and a credit loop that keeps the far side from sending more
than fits. Around the RTL the repository holds the software that brings a pair of boards up,
drives traffic through it, measures it, judges it and keeps the results. This directory holds
TLA+ models of both, TLC configurations that check them, and TLAPS proofs about both.
Every definition is translated from the source; `PROJECT.json` maps each one to its lines.

## The system

### Hardware

```
   sender chiplet                                   receiver chiplet
   ext. AHB master ─┐                                          ┌─ CPU (AHB reads)
                    ├─ port mux ─ fc_adapter ═ link ═ fc_adapter ─ fifo_mem ─ fifo_ctrl
   tx_gen ──────────┘     ▲                                        │        │ read_complete
      ▲ gate              │ rtn                                    ▼        ▼
   pair credit counter ◄──┴──────── link ◄──── returner ◄── release accumulator
```

| part | source | state | operations | what makes it correct |
|---|---|---|---|---|
| RX FIFO controller | `fifo/tidelink_fifo_ctrl.sv` | read and write pointer, credit count, the armed length of the arriving packet and of the drain, IRQ, sticky flags | link word, AHB read, AHB write (injection), flush | pointers and credit agree, packets stay framed, a drain pops the head once, committed words are stable |
| FIFO memory | `fifo/tidelink_fifo_mem.sv`, `tidelink_sram.sv` | address register of the SRAM, the read being recovered | link write, AHB access, PUF read | a read gets the word it addressed |
| Release accumulator | `fifo/tidelink_apb_regs.sv` | three pipeline stages, `release_acc`, `credit_delta_data`, threshold, lock | drain completed, captured, flush, register writes | freed credit is released exactly once |
| Returner | `fifo/tidelink_returner.sv` | three pending bits, the write on the bus, retry count | trigger edges, bus answer | no request is lost, retries are bounded, everyone gets a turn |
| Pair credit counter | `fifo/tidelink_apb_regs.sv` | counter, registered addends | peer's return, consume, software consume, enable | the count is exactly the room granted |
| Transmit generator | `tidelink_tx_gen.sv`, mux in `tidelink_top.sv` | run, budget, gap, beat, reservation, tracker of the other master | APB writes, bus cycles | spends only granted credit, sends whole packets, never mixes masters |
| FC adapter | `tidelink_fc_adapter.sv` | transfer lock, skid, stall timer, arbiter, RX and PUF state machines | AHB beats of three masters, link words | each accepted beat is sent once, in order; nobody starves |
| Negotiation, roles | `tidelink_autoneg.sv`, `axi_chiplet_controller.sv` | FSM, claim, lane masks, role, lock | I2C claims and answers, timeout, register writes | never two masters; a verified mask is the peer's |
| Performance monitor | `tidelink_perf` and `sw/tidelink_perf.c` | counters, time stamps, freeze | count, stamp, freeze, clear, read | a snapshot is of one instant |

What is hard about it is coincidence: two or more of a link word, a CPU read, a trigger, a
capture, a bus error and a software flush fall in the same cycle, or in neighbouring cycles of
a pipeline in which one stage looks at what another has not yet updated. The repository's
history of fixes (credit leaks, phantom pops, over-minted credit, the A4 port hijack) is made
of such coincidences.

### Software

| group | programs | state they keep | how they interact | what is hard |
|---|---|---|---|---|
| Servers | throughput GUI, its link monitor, eye and stress toolkits | the current run, sessions, leases, a file lock | HTTP requests, asyncio tasks, agents on the boards over ssh, a lease daemon | aborts and failures at every `await`, two requests at once, processes that die |
| Agents | `tl_perf_agent.py`, `asic_l7_board_agent`, `peer_agent.py` | credit, open streams, counters | registers of one die; the other die through the link only | killed between two writes; the two ends are not synchronised |
| Tests on boards | system validation, transfer modes and regression, stress suite, CRC shots, coverage gates, TideChart, on-chip pair, probes, sweeps, campaign | memories and registers of both dies, results, exit code | ssh commands that may be lost before or after they took effect | a pass that is not backed by anything, stale data from an earlier run |
| Drivers and decoders | C and Python packet drivers, perf reader, status decoders, address maps | none beyond the registers | bus accesses, one by one | the hardware goes on between two accesses |
| Stores and gates | run store, bitstream store, coverage flow, bump check, simulation gate | files, an SQLite index, symbolic links, stamps | several processes on one directory, no lock | a crash between two writes, edits while a gate runs |

`PROJECT.json` lists every component with its status, and the hazards line by line with the
properties that would catch them.

## Modules

### RTL

Each module's step is one `hclk` edge, and all registers of the component change together in
it, as in the RTL. What the environment does in the cycle (which word the link delivers, which
AHB access is presented, what the bus answers, which register is written) is chosen
nondeterministically from the choices the surrounding code can make.

**TidelinkFifoCtrl** models `tidelink_fifo_ctrl.sv` with an ideal SRAM. A payload word is a
small number and a header word is the packet's length; the length in a header read back is
clamped as the code clamps it. `Cycle` composes what the RTL computes in one edge: pointers,
the write side, the read side with its one-cycle-late length capture, credit counter,
interrupt, sticky flags and SRAM. `SendHeader` and `SendWord` are the link writing words that
the far generator reserved credit for, `NoWord` a cycle without one, and the AHB access in the
same cycle is any read or none. Further next-state relations add one environment behaviour
each: `InjectNext` (software's two-phase injected writes), `CpuWriteNext` (writes anywhere with
the write path off) and `TruncatedNext` (a sender gives up a packet).

**RxMailbox** is the abstract specification: a bounded queue of whole packets, into which a
packet moves when its last word has arrived. `MCFifoCtrl` defines the refinement mapping: the
queue is what a walk over the SRAM finds, header by header, from the read pointer. Its variable
`source` lets one run check both a FIFO fed by the link and one into which the CPU injects; the
refinement is about the first.

**TidelinkFifoMem** models the one SRAM port behind that controller, and so the part of
`TidelinkFifoCtrl` that is idealised there. A read's result depends only on the address the
SRAM registered one cycle earlier, so the model keeps addresses and no data. It has the arbiter
(link word, then the PUF reader, then the recovered or the new AHB access), the read tracker
with its recovery stall, the write buffer of `cmsdk_ahb_to_sram` (a licensed cell that is not
in the repository; it is modelled from its use and marked external), the PUF handler of the FC
adapter, and the master's view of its own transfer. `Looped` is the bus of the FPGA wrapper,
where the port's `hreadyout` is its master's `hready` and transfers are separated by idle
cycles. `Next` lets software inject words only while no packet arrives; `PipelinedNext` lets
transfers overlap.

**TidelinkCreditReturn** models the way of freed credit: stage one (`credit_delta_data_r`),
`effective_acc` and its registered copy, the threshold comparison, `release_acc`,
`credit_delta_data`, the delayed trigger, then the returner's edge detectors, pending bits,
dispatch by priority, address and data phase, retries and the sticky error. The reset
debouncer, doorbell, threshold and lock registers and flush are there too. The read side is
kept to what matters here, the minimum distance between two completions.

**TidelinkTxGen** models the generator, the pair credit counter with its registered addends
and the port mux. The adapter is its handshake: it may stall any beat and answer with a
two-cycle error. `phase` records whose address the adapter holds, which is what finding A4
was about, and `room` is the true balance of granted and admitted words. Software's own packets
take credit through the consume register while no run is on; the counter's enable keeps its
reset value, 1. Software writes PKT as soon as RUNNING reads 0, when
a packet admitted before the stop may still be on the port. As in `tidelink_fc_adapter.sv`,
`hreadyout` is low only over a data phase, so the header's address is taken in the cycle it is
presented.

**TidelinkFcAdapter** models the transmit half of `tidelink_fc_adapter.sv`. Its state is the
transfer lock of the aperture (`lock`, `lockAddr`, `idleCnt`), the aperture's data phase with
its stall counter and the two ERROR cycles, the returner's intercepted write, the burst counter
of the arbiter and the skid register. One step is one edge: `LinkReady` or `LinkBusy`, whether
or not the link takes the skid's word. A word is its source and, for the aperture, its address.
The aperture's master is external: it starts a store at another address at once and at the same
address only after a gap, may go on holding the address of its store with short gaps in it (as
the AXI bridge does, the reason the lock exists), and may withdraw an address at an ERROR.
Returner, servo and TideChart hold their word until it is taken. Variables marked history
record which words were loaded and acknowledged in the last cycle and what a waiting word has
waited for.

TidelinkFifoMem and TidelinkCreditReturn end with their theorems; the `...Proofs` modules extend the
others with theirs.

### Host software, drivers and negotiation

A module models one program, or two that only make sense together. A step is what the program
does between two points where something else can happen: two suspensions of an asyncio task,
two board commands, two bus accesses, two file operations. Under the program is as much of the
board, the link or the file system as it can observe, with everything the code has a branch
for: words lost, late or duplicated, a connection cut before or after the command ran, a
process killed, a clock that expires, a bus that never answers.

| module | program | what the state stands for |
|---|---|---|
| ThroughputGui | GUI server: admission gates, leases, staging, run task, abort, cleanup | one `pc` per request, the flock, the leases, the registered run, the agents' processes |
| LinkMonitor | monitor sessions: start, stop, one loop per die with a restart budget | `pc` of the requests, the registered session, loops, processes, lease |
| MonitorPolls | one die's poll stream and the server's reading of it | registers the polls touch, anchors, confirmed CRC, window, subscriber queue |
| ToolkitRun | run tasks of the eye and stress servers with lease, heartbeat, deploy and abort | `pc`, state and flags of each run, what the daemon holds |
| AgentStream | `tl_perf_agent.py`: probe, seed, stream and drain on the two dies | pair credit counter, wire, RX FIFO occupancy, unpaid words |
| RunStore | `store.py`, `compare.py` | run.json, index row and columns, what each server has read |
| SysVal | `kr260_sysval.py` with `eth_sysval_board.py` | the test's position, die B's SRAM, the transport's retries, results |
| XferModes, EthRegress | `kr260_eth_xfer.py` and the regression over it | address translator, SRAM, mailbox slot, witnesses, interlock |
| StressSuite | `stress/runner.py` and `peer_agent.py` | queue of tests, alarm, request numbers and answers in the pipe, lane masks |
| BringUp | `kr260_eth_bringup.py` on both boards, `anchor_pair_gate.py` | both scripts' `pc`, calibration, handshake, logs, verdict |
| CovGates | `cov_*.py`, `kr260_recover_gate.py` | the stages to go, link, hung boards, words delivered |
| TideChart | `kr260_tidechart.py`, `cov_tidechart_election.py` | the two electing dies (external) and both programs |
| CrcShots | `rev2hw.py`, `injector_controls.py` | injector arm and unlock, packets, ledger, counts |
| EyeSweep | `eye_sweep.py`, `sweep_live.py`, deep capture | phase, lock, rows, recorder buffer |
| StressModes | `stress_modes.py`, AUTO run with its monitors | FIFO, accumulator, alarm, counts and summary |
| AsicL7 | `asic_l7_starvation_hwtest.py` and its board agent | node, platform, worker, verdict |
| Campaign | `weekend_campaign.sh`, `campaign_iter.py`, `dashboard.py`, `kr260_reliability_sweep.py` | boards, link, memory, plan, rows |
| OnchipPair | `kr260_onchip_smoke.py`, `kr260_onchip_autonomy.py` | image, two dies, bus, worker |
| RegSweep | `cov_regplane_sweep.py` | registers by kind, lost credit, defects |
| IrqProbes | `cov_mbox_doorbell_irq.py`, `cov_ps_irq_observe.py` | mailbox, wire, interrupt counts |
| RxTools | `kr260_credit_tx`, `kr260_onchip_soak`, `tlchar`, `tl39`, `kr260_drain`, `kr260_data_rx` | FIFO, framing, credit loop, what was received |
| BoardAccess | `tl_socmap.py`, overlays and their users | board, image, environment, hung bus, role register |
| LinkWords | `regmap`, `health_snapshot`, `xfer_corners_lib`, `stress_lib` | the set bits of the status words |
| PacketIO | `tidelink.c`, `packet.py`, `tidelink_packet.h` | FIFO, open packet, what is still to be stored, what was loaded |
| PerfMonitor | `tidelink_perf`, `tidelink_perf.c`, `pipeline_example.c` | counters, stamps, freeze, the reader's position |
| Autoneg | `tidelink_autoneg.sv`, `axi_chiplet_controller.sv`, `tidelink_chiplet_ctrl.c` | FSM, role registers, masks and software of both dies |
| ArtifactStore | `td_artifact.py`, guard and load of `deploy_pair.sh` | blobs, staging, labels, index, boards, each agent's command |
| CoverageFlow | `cov_identity`, `cov_pack.sh`, `cov_report`, `cov_publish`, `cov_diff` | tree, databases, artifacts, store, baseline |
| BumpCheck | `bump_check.py` | the push, questions asked, results kept |
| SimGate | `make sim_gate` and its two checkers | tree, stamps, status files |

### Sums

These programs share no state, so they are checked side by side: `MCHostServer`,
`MCBoardTools` and `MCHostTools` each instantiate a number of them, `which` says which program a
behaviour belongs to, and `v1, v2, ...` stand for that program's variables in the order its
module declares them. A property of a sum is a conjunction of `which = "x" => X!P`, with each
`P` defined and explained in its own module, grouped by what the parts have in common.
Setting `Tools` in `board_tools.cfg` or `host_tools.cfg` to one name checks one program alone.

## Runs

| run | module | question | result |
|---|---|---|---|
| `fifo_ctrl` | MCFifoCtrl | link words, injected words, any reads in any order, flushes: credit, framing, reservation, interrupt, overrun, refinement of `RxMailbox` | holds |
| `fifo_mem` | TidelinkFifoMem | reads and PUF reads get their own address; a held read completes | holds |
| `credit_return` | TidelinkCreditReturn | no freed credit is returned twice or lost; released credit and doorbells get the bus | holds |
| `tx_gen` | TidelinkTxGen | solvency, header and reservation, whole packets; a starved run resumes | holds |
| `fc_adapter` | TidelinkFcAdapter | every word is sent once, when its source is told so; bounded answer; a store fails only if the link stalled | holds |
| `host_server` | MCHostServer | servers, monitor, toolkits and streaming agents under aborts, failures and lost processes | holds |
| `board_tools` | MCBoardTools | seventeen programs that test boards, against hardware that loses words and wedges | holds |
| `host_tools` | MCHostTools | gates, stores, drivers, decoders, address guards, negotiation | holds |
| `fifo_stray_write` | TidelinkFifoCtrl | a disarmed write is a no-op, as its comment says | violated |
| `fifo_truncated` | TidelinkFifoCtrl | an empty FIFO is aligned even after a truncated packet | violated |
| `fifo_mem_pipelined` | TidelinkFifoMem | reads get their own word when transfers overlap | violated |
| `sysval_late_cut` | SysVal | a transport error is never reported as a data mismatch, as the script's header says | violated |

What the properties of the three sums say:

- `BoardsAreHeld`, `StatusIsTrue`, `RecordsAreFinal`, `EverythingSettles` (`host_server`): a GUI
  run works alone behind the flock, with the leases of both boards granted to it, and loses one
  only by that lease's own time to live; one toolkit run is on the boards, and a run that is over
  has left neither lease nor sentinel unless the abort cut off the call that would have ended it;
  a stopped monitor session is quiet. (None of this says that a lease outlasts the work: the GUI
  and the monitor renew none.) A GUI run that is not over is the current one, and a monitor
  session has failed exactly when both its dies spent their budget; a
  terminal record is written once; requests, aborts, streams and stops come to an end and give
  back what they took. `CreditAccounted`: packets a stream sent and nobody paid for are the only
  ones above the FIFO's credit, also after a kill.
- `GreenIsDelivered`, `GreenIsClean`, `FaultsAreReal`, `LinkProven`, `LinkLeftWhole`,
  `RecordsAreOwn`, `StepsAreFresh` (`board_tools`): a pass is backed by words of this run that
  arrived, a reported wedge was staged and the longest streak is the longest; no timeout, loss or
  lateness hides under a green summary (a workload that found residue of an earlier one excepted),
  which of TideChart means one root and of the register sweep that nothing is left changed and no
  row is at fault in the way it was tried for; a verdict against the hardware has a cause in the hardware, or in a connection lost after
  the board's marker (`sysval_late_cut`); nothing is driven through an unproven link, nor accepted
  about it, and a green regression on blank boards found words of its own; phase and injector are left as they have to be; answers, rows and counts belong to the
  run they are filed under; no campaign brings up a live link, the sweep only two boards it has reset, and a
  verifier passes its own sender's words.
- `GatesAreBacked`, `StoresAreWhole`, `RolesAgree`, `DriversExact`, `ReadingsAreTrue`,
  `AccessGuarded`, `NeverUndone` (`host_tools`): what a gate lets through has been run on this
  tree, or answered for as the first move to that commit; what a store says of its contents is so, also after a crash; the dies never both become
  master by negotiation; packets come back word for word and snapshots are of one instant; a
  snapshot graded healthy hides no standing fault and three of the four decoders agree on every word
  (the fourth, the stress toolkit's, alarms on every link the others call healthy); a tool touches
  an address the image does not decode only if the environment misled it; blobs,
  back-filled columns and the phase under a lock are never undone.

`host_server`, `board_tools` and `host_tools` do not check for deadlock: programs end, and the
bounds end the others.

### Bounds

A FIFO of four words (`MAX_CREDITS`; the RTL has 2048 or 4096) holds a packet of every length
from 0 to 2 and two shortest packets at once, wraps in the middle of a packet at every offset,
fills completely and drains while it fills. `MaxWord` and `Payloads` let payload words look
like a header, so a framing error shows. `fifo_mem` has three addresses, one each for the read,
the link word and the PUF read that may be confused, and three words of credit, enough to
displace a read, its recovery and the recovery's second attempt. In `credit_return` four
credits allow two packets of two words in flight, each released at once (threshold 2), so that a
release can meet the capture of the one before; one retry distinguishes retrying, giving up and
starting afresh (the RTL has three). Batching below a threshold is left to the proofs, which hold
for every threshold. In `tx_gen` returns of 2 and 3 words against packets of 2 and 3 words
exercise exact fit, starvation and a return that falls together with a consume; gap, margin and
budget are 0 after reset and nonzero after a write, which takes both branches of each
comparison. `fc_adapter` has a gap of 2, a burst limit of 3 and a timeout of 4 (the RTL has 3, 4
and a power of two), and two addresses, since the lock compares with one; the timeout exceeds the
burst limit, or every overtaken store would fail before the limit shows. The proofs lift every
one of these bounds for the properties they cover.

The bounds of the software modules stand in `host_server.cfg`, `host_tools.cfg` and
`board_tools.cfg`: two requests, two runs or two servers (a second one is what races the first); two
tries, retries or iterations (one that fails and one that is not the first); streams of two or three
words over an SRAM of four (long enough to wrap, to lose a middle word and to leave an old one
behind); queues of two; one injected fault where a second one adds nothing but its own row. A workload has
two packets or rings (one lost, one that could stand in for it) and runs twice, a regression runs twice
(its payloads are constants, so only a second one can meet old words), T6 has one chunk or two, and
the run store has two parameter keys. The capacity of
`AgentStream` and `RxTools` is larger (10 and 14 words), because their packets have four words and
more than one must fit. The negotiation's timers and the board clocks have no bound: they may
expire at any step.

### Fairness

`fifo_mem` assumes only that the clock runs (`WF(Next)`). The read recovery needs two cycles
without a link word and the adapter can deliver one every second cycle, so a stream of words
can hold a read; what ends it is that the sender has finite credit and gets more only from
reads. `ReadCompletes` is therefore a property of the memory port together with the credit
loop.

`credit_return` assumes that clock edges come and that the slave does not extend a
transfer for ever (`Answered`); errors may come at any rate. The AHB fabric below, the FC
adapter, bounds its stalls with a timeout. The liveness properties also assume that software
does not flush for ever, because a flush restarts the retry count of the write on the bus:
with errors and flushes in turn one write stays there for ever. `DoorbellServed` is conditional
on higher-priority requests ceasing, since the returner's priority is strict: a sustained drain
can keep doorbells out.

`tx_gen` assumes `WF(Calm)` for its liveness property: cycles keep coming in which the adapter
completes a beat without error while the other master presents no address and software writes
nothing. Without it the adapter's own stall (the link is down) or a busy external master keeps
the generator waiting, as it should.

`host_server` assumes, program by program, that tasks and processes run and that time passes:
each GUI request takes its next step (every `await` in it has a timeout or is cancelled by
one), a toolkit's run task and its abort go on, agents deliver words that are on the wire and
reach the end of their time (`StreamTimeUp`, `DrainTimeUp`), and the monitor's requests and die
loops go on. Nothing is assumed of leases being granted, of the credit being returned, or of
agents answering. `EverythingSettles` needs no fairness of the operator: an abort that is never
requested is not pending.

## Proofs

TLAPS proves the following for every buffer size, every set of packet lengths, thresholds,
returns, gaps and budgets, and every retry limit allowed by the named assumptions of the
component modules (they state that sizes are naturals, that packets fit the buffer and that a
packet has its two header words).

*TidelinkFifoCtrlProofs.* `ReceivePathInvariant` proves `Spec => []IInv`. `CreditIsSpace`,
`PacketsTile` and `DrainsHead` are not inductive alone: that a commit extends the tiling needs
that the arriving packet's header is already in the SRAM at the write pointer and its room
reserved; that a drain shortens the tiling needs that the read side holds the length of the
head packet; and that neither disturbs the other needs that the free words and the used words
are disjoint on the ring. `IInv` puts these together. The theorems `TypeCorrect`,
`CreditIsSpaceAlways`, `PacketsTileAlways`, `DrainsHeadAlways`, `OvermintInertAlways`,
`NoOverrunAlways` and the action property `CommittedWordsStableAlways` follow. The last one is
about the link's specification; the run `fifo_stray_write` shows that it fails once the CPU
writes. `IrqMeansPacketAlways` needs one thing more, `IrqLeavesPacket`: reading a header clears the
interrupt and only a later commit raises it again, so while it is up the drain in progress is never
that of the last committed packet. `LinkReservedAlways` is about `AnySource`, the specification the
run checks, in which the CPU injects packets too: the packet on the link keeps its header, its
length and its room.

*TidelinkFifoMem.* `PortInvariant` holds for any mixture of link words, reads and writes on
the looped bus (`AnyMix`). That a read which may complete finds its address registered is not
inductive: `Tracking` adds that the captured address is the one the master waits for and that
one clean cycle registers it, which needs that a new read is accepted only while none is active.
From it follow `ReadReturnsAddressedAlways`, `PufReturnsRequestedAlways`, `PortTypeCorrect` and,
with the restriction of `Next` on injection, `CpuWriteLandsAlways`.

*TidelinkCreditReturn.* `Ledger` says where freed credit is, register by register.
It is preserved only because two completions cannot follow each other too closely
(`Spacing`): a header read and a length capture lie between them, so `release_acc` and its
registered copy never both count the same drain. From the invariant follow `NoMintAlways`,
`NoLeakAlways`, `NoStrandedCreditAlways` and `ReturnTypeCorrect`.

*TidelinkTxGen.* The gate reads a counter that lags one cycle behind a consume.
`Settled` is the reason this is safe: while a consume is pending the generator is on the first
beat of that packet, or at rest if software consumed, and not at the gate. With `Framing` and
`Ownership` it gives `SolventAlways`, `CounterExactAlways`, `HeaderMatchesAlways`,
`DataFromOwnerAlways`, `GeneratorTypeCorrect` and the action property `PacketsAtomicAlways`.

*TidelinkFcAdapterProofs.* That words are sent exactly when they are acknowledged
(`SentIffAckedAlways`) rests on two agreements between the master and the adapter: the master
waits exactly while the adapter is in the data phase or answers with an ERROR (`Phases`), and the
lock is set, on the master's address and with the master's gap in `idleCnt`, exactly while the
store may go on (`Locked`). `Waiting`, `Turns` and `Stalls` bound what a waiting word has seen by
the stall and burst counters, which gives `AnsweredInTimeAlways`, `TxOvertakenBoundedAlways`,
`RtnOvertakenOnceAlways` and `TimeoutMeansLinkStalledAlways`; `AdapterTypeCorrect` is the type
invariant. The proofs hold for any gap from 1 to 6: with 7 the three-bit counter could not pass it.

*HostServerProofs.* Each of the four programs of `MCHostServer` has an inductive invariant of its
own, and `HostInv` says which one applies. For the GUI server (`ThroughputGui!IInv`) a run loses
a lease only by its TTL because whoever may be talking to a board holds the mutex (`MutexCoversRun`),
so that no request can take what another has, because a request gives back its own token and no
other's even after that ran out, and because only a run that has got as far as arming has
agents at all (`ProcsAreLate`). For the monitor, that a stopped session is quiet needs that stops
wait for the loops they cancelled (`StopsWait`) and that a cancellation is on its way only to a loop
of a session being stopped (`CancelsStop`). A toolkit gives its lease back because the run that holds
it has its token until the release is sent (`LeaseHasToken`), and its sentinel stops because an
abort waits for whatever it cancels (`CancelsAreAwaited`). The agents' ledger is inductive
together with the gate (`GateHeld`: an unpaid packet can be paid for) and with the fact that nothing
sends while the GUI probes and seeds (`ProbesAreFresh`). Hence `BoardsAreHeldAlways`,
`StatusIsTrueAlways`, `CreditAccountedAlways` and the action property `RecordsAreFinalAlways`, for
any set of requests and runs, any credit, burst and restart budget.

*HostToolsProofs.* `ToolsInv` joins the invariants of eleven modules. In the negotiation two masters
are impossible because the die strapped as slave becomes master in one way only, by winning its
claim (`SlaveIsWon`); before it has sent a START the other one has been told nothing
(`UntoldIsMaster`), and a claim that was acknowledged has made the other yield for good
(`HeardHasYielded`): `RolesAgreeAlways`. For packets
`HeaderFields` proves that `decode_word0` takes apart what `encode_word0` put together for every
value of every field; the invariant then follows each word from the sender's buffer through the open
packet and the FIFO into the reader's (`StoredIsLast`, `WaitingAreSent`, `LoadedIsNext`,
`ReturnedAreSent`), with `Counted` saying where each packet is. For the monitor `Elapsed` proves that
`ts_diff_ns`, with its borrow or without, is the time between two stamps modulo the register's
width, and `ReadFrozen` and `ReadCalm` that what is read is what was there at the freeze or has not
been stamped since. Together they give `DriversExactAlways`, for any payloads (shorter than the
length field), addresses, packet counts, register width and second. For the bump check the invariant
says that with nothing unresolved every move behind the cursor, and every one that was seen, is
backed, but for the one whose checks are run (`SoFarBacked`, `SeenBefore`), of which every blocking
capability has passed or is still to run while none has failed (`AtWork`); a move is backed by an
answer for exactly its base and tip, or by being a repeat of an earlier range's move to the same
commit, which the check does not ask about again. What backs a move depends
on the command line, on answers and on results that are only ever added to, so it stays
(`BackedStays`); the local runs may come in any order. For the simulation gate each status file and
each suite at work carries the stamp of the tree it began on (`StampsAreOwn`), what the checks found
holds from then on (`Passed`), and `ReadyLaunches` proves that the closure `sim_gate_env_check.py`
computes, which follows an include only when its variable is set, asks for every variable the
compiler needs, for any include graph. Hence `GatesAreBackedAlways`.

For the bitstream store the invariant says that the file a guard has let through is still the one it
hashed, unless it was removed or rotted since (`Guards`), and that a deployment is of a known hash
and has come to nothing before its first guard (`OfAHash`); the files themselves stay because a
rename onto a directory that is not empty fails (`FilesKept`), which is what two adds of one master
at once depend on. For the coverage artifacts, what the publisher has left to do is all that the
store lacks (`Publishing`: the manifest goes last), and a closure was given to a clean tree only
(`ArtsOK`). For the run store a row still to be written says what its record says, and a run in hand
is written by nobody else (`Pending`, `InHand`, `OneWriter`); that a confounded delta is said to be
one holds in every state, since two runs that differ make a set of two or more
(`ConfoundIsSaid`). Hence `StoresAreWholeAlways`. For the board maps every page that a tool has left
to touch is decoded by the image or the environment or the image is wrong for the tool (`PagesKnown`); the lemmas go through
the aperture table row by row (`ControlDecodes`, `DataDecodes`, `PtpDecodes`, `Remaps`) and through
the tools one by one. Hence `AccessGuardedAlways`, and from the same invariants the action property
`NeverUndoneAlways`. Trying the proof corrected the property: it had excused only mistyped values of
`TIDELINK_SOC`, and a padded `" kr260"`, which `tl_socmap` strips and the overlays do not, also
selects the Z2 map.

For the monitor's polls the count to be confirmed is always the sample before (`PendingIsLast`), the
anchor of a rate is of the process that runs (`AnchorIsOwn`), and a process that has armed the
counters has cleared them (`ArmedIsCleared`); the subscriber's queue drops its oldest event only, so
its last one is the newest for a queue of any length. For the status words, a fault latched when a
snapshot began is in every word read since that can show it (`FaultsAreSeen`), because nothing clears
it in between; that three decoders agree, and that the fourth alarms
on a healthy link, needs no history and is proved of every single reading (`ToolsDoAgree`, from one
lemma per decoder). Hence `ReadingsAreTrueAlways`.

*BoardToolsProofs.* `BoardInv` joins the invariants of fourteen modules, each of which stands behind the
properties of its own module; a step of the sum is a step of one tool (`SumStep`). For the bring-up a
log that holds a terminal verdict holds the one its script ended this try with (`LogIsCurrent`), and
what the traffic check has matched without a word of its own having landed is one old word at most
(`CheckIsCurrent`), fewer than it needs. For the regression the data plane is entered only through
both gates (`PlaneIsGated`), from each of its places the tests behind it are on record
(`TestsOnRecord`), and while the boards were blank at its start a word in a landing place or a
mailbox is one it sent (`WordsAreFresh`), so that a full green end means that each of them passed on
words of its own. For the on-chip pair a link needs
both locks, and a role is final before it is locked (`LinkIsLocked`): that is why what one register of
a snapshot has shown still holds when the last is read (`SnapHolds`), although nothing freezes them.
Hence `LinkProvenAlways`. An eye sweep restores the phase it read because a board it has not read has
nothing to restore (`IdleIsUnread`), and its rows are of a settled lock because the tap that is set
is the one being read (`TapIsSet`); in the CRC tests only the three places of a shot in flight find the
injector armed. Hence `LinkLeftWholeAlways`. For the stress suite's calls the invariant is about the
pipes: every request and answer on them has an id this client gave out, and one with the id of the
call that waits is for the method of that call (`Fits`), so a late answer is never taken for
another's. For the workloads the one that runs is the one not counted yet, one that raises is
reported as an exception, and only an aborted
packet run is ever missing from both; for the mailbox probe the status bit, from the arm that
passed on, is set by an edge it remembers, and for the interrupt observation a count above a readable
baseline means that the line ticked since (`ObsInv`). Hence `RecordsAreOwnAlways`. For the system validation,
while nothing but the network has failed, the link is up and the words the next check looks for are
die B's (`Landed`); for the starvation probe, until a node stalls every answer shows no more than a
wedge from before the run (`AnswersTell`). Hence `FaultsAreRealAlways`.

Behind `GreenIsCleanAlways` stand four more invariants. In the stress suite a selected test has a
verdict, is running or is still queued (`Accounted`); a request of the call that waits is the last on
the pipe, and its answer finds the agent's pipe empty and, unless it is an error, the peer's mask as
asked (`Calling`): so when the lane test is over and did not fail, both masks are full and no request
that would change one is left (`LanesKept`), although an alarm may have cut off any earlier call. In
the workloads a packet run without errors and residue has at most its own packet in a FIFO
(`PacketsClean`), and of the doorbells no more are counted or late than were rung, fewer once one was
lost (`RingsClean`), for any directions, sizes and counts. In TideChart a settled die is root exactly
if it heard no lower claim (`SettledByClaims`) and hears nothing more, so what each script has read
stays true whichever is ahead (`SeenIsSo`). In the register sweep only the row being tried may hold a
pattern, and then the value to restore is the saved one (`Sound`), and a row that misbehaves has
failed by its end (`FailedBy`).

`StepsAreFreshAlways` is an action property. In the sweep and the weekend driver a
die whose reset of this cycle went well is fresh until the bring-up, and both get there only with
the resets each insists on (`CycleInv`, `ResetOf`). In the transfers what a die's verifier is to find
is there, and only a sender to that die can change it (`OwedInv`); the lemmas under it say what a
stream leaves in an SRAM that it wraps in (`SoakLands`, `InjectLands`, `BoundaryLands`), for any
number of beats, window and size of the SRAM: the word a verifier expects is the last one written
there, with or without the corrupted beat before it (`LastBeat`). `do_soak_recv` checks the
adversarial stream only, so only that soak owes it anything.

None of these has a bound on retries, chunks, taps, lanes, polls, faults or runs. Trying the proofs
corrected four things. `NetIsNotAFault`
fails for options the run does not use: T10 reads words T3 wrote, so it fails when T3 is left out or
writes fewer than T10 reads, and T6 overwrites the words its final check reads as soon as it has more
than one chunk, as by default; the property now names these (`MisreadByOption`). The last
verdict of a log is now picked by its place in the log instead of from a filtered copy, which says
the same and can be reasoned about. Two CASE expressions, in the register sweep's `write` and the
bump check's `run_set`, had arms that overlapped and left the value open where the code's order of
tests fixes it; they are now exclusive.

The assumptions (`NegoAssumption`, `PacketAssumption`, `PerfAssumption`, `BumpAssumption`,
`GateAssumption`, `StoreAssumption`, `AccessAssumption`, `PollAssumption`, `WordAssumption`,
`SysSizes`, `XferSizes`, `RegSizes`, `StressSizes`, `RegsSizes`, `JobSides`) say that the values fit their fields, that a
second is not empty, that a range of a push has a move (one without is passed over and left out),
that the file lists named exist, that numbers of artifacts, runs and words are naturals, that a board is
a Pynq-Z2 or a KR260, the two the tools know, that a subscriber's queue holds an event, that a
build has some of the two optional register planes, that an SRAM has two words and a window one, and
that the directions of a workload are numbered from 1.

Proved and not checked by a run of their own: the type invariants, `OvermintInert`,
`CommittedWordsStable` (for the link), `CpuWriteLands`, `NoStrandedCredit`, `CounterExact`,
`DataFromAddressOwner`, `TxOvertakenBounded` and `RtnOvertakenOnce`.

Only model-checked: the refinement of `RxMailbox` (its mapping is a recursive walk);
`GreenIsDelivered`, several of whose parts fold or filter a whole sequence, which is induction over
data, and which says nothing of a T6 of more than one chunk (`MisreadByOption`, see below); and all liveness
properties, which are out of the prover's reach, as are `ENABLED` and induction over data.

## Disagreements between the code and what it says of itself

Each is a run that ends in a counterexample; `PROJECT.json` quotes the lines.

1. *Disarmed CPU writes* (`fifo_stray_write`): only the packet logic is gated; the SRAM write
   is not, and can overwrite a committed word.
2. *Truncated packets* (`fifo_truncated`): the stale armed length makes a longer successor
   commit early; its drain clamps the credit but leaves the pointers apart, so every later
   packet is written where it is not read. The comment says this drift is closed.
3. *Overlapping reads* (`fifo_mem_pipelined`): while one read is active the address mux presents
   its address, also in the cycle that accepts the next read; the second read returns the first
   one's word. The drivers in the repository leave an idle cycle between transfers.
4. *Late cuts* (`sysval_late_cut`): `classify()` takes the board's marker for proof that the answer
   is whole. A connection lost between the marker and the exit code (return code 255) is judged by
   the text that arrived and recorded as DATA_MISMATCH, which the header of `kr260_sysval.py` says a
   transport error "can never be".

## Observations

Found while reading and modelling, and not runs of their own. They describe what the code does;
some are deliberate limits.

### RTL and negotiation

- A link word that arrives with no credit left is written over a committed one; the register map
  says it is discarded. `NoOverrun` shows that a sender that keeps to its credit never does this.
- Credit below the release threshold is not returned until more is freed. A sender that needs
  more than the rest waits for ever unless need + threshold - 1 <= MAX_CREDITS. A flush zeroes
  `release_acc` but not the peer's counter, so credit freed below the threshold is lost with it.
- Injection while packets arrive: the AHB bridge writes the SRAM in the cycle after the address
  phase and cannot wait; a link word in that cycle takes the port and the CPU's word is gone,
  although the master is told it completed. This is why `CpuWriteLands` needs `Next`'s restriction.
- A store repeated at the same address within the transfer lock's gap, for instance a retry right
  after an ERROR, is answered with OKAY and never sent. The contract in the comment excludes it.
- With its priority hint at 0 TideChart waits as long as stores follow each other without a gap;
  the burst counter protects the aperture only.
- The adapter ties the returner's `hresp` to 0, so in this integration the returner's retries,
  which `TidelinkCreditReturn` covers, are never taken.
- A buffered CPU write that is followed at once by a read drains in the read's data phase and
  lands on the read's address.
- The FIFO port refuses an address phase by driving `hreadyout` low outside a data phase. That
  works on the looped bus; on a bus matrix, which the integration guide names, `hready` is high
  in that cycle and the master's read has been taken by nobody.
- The top level ties the enable the generator's gate should see to 1: with the pair counter
  switched off, consumes are dropped and the gate stays open.
- START in the same CTRL write as the first EN is ignored (`start_pulse && en_r` sees the old
  `en_r`), though the design note's step writes `EN|START`.
- An external beat during a generator packet is stalled by the top level, not answered with the
  two-cycle error two comments mention.
- A flush through the C driver writes CTRL = 0 first and thereby disarms injection, which the
  register comment says survives a flush.
- The negotiation's write-back of the role is not gated by `role_locked`
  (`axi_chiplet_controller.sv:873`), while the header says "Once locked, only a full power-on
  reset (poresetn) can change the role". A software write of ROLE_CFG in the same cycle wins over
  the FSM's. `NeverTwoMasters` is about negotiated roles: software that sets roles itself, or the
  PUF priority dwell, can make two masters.
- `nego_enable` in the C driver drops bit 6 of NEGO_CFG; `configure_and_lock` returns 0 while
  the lock is still pending; `link_bringup` cannot be repeated.

### Servers, agents and stores

- Only the toolkits refresh their lease. The GUI and the monitor never do, and the request's
  `ttl_seconds` has no lower bound (`app.py:116`): a run longer than its TTL goes on without a lease,
  and another user may be granted the boards under it. A crashed GUI server leaves a row that never
  becomes terminal.
- `monitor_stop` clears whichever session is registered when it ends (`monitor.py:933`): a session
  started meanwhile goes on unregistered.
- The drain role reads offset 0 only (`tl_perf_agent.py:1355`), which pops nothing: it counts
  words that were never sent.
- A stress abort during deployment posts ABORTED and then goes on into RUNNING (`runner.py:158`,
  `205-207`). No await between the two suspends, so no request ever sees the first state; the event
  stream does.
- The comparison never looks at the applied release threshold, and two runs whose FIFO label is
  "unknown" compare as equal. `delta_exceeds_spread`'s docstring does not hold for skewed samples.
- `td_artifact.py`: adding a master again keeps the old slave; verification skips a missing slave;
  two adds of the same master share one `.incoming`; the index's read-modify-write loses a label;
  a collection between remove and symlink drops the blob.
- `bump_check.py`: two ranges that move one path to the same commit from different bases are asked
  about once, although the header says that a PASS counts only for "exactly this move
  from exactly that commit"; report-only capabilities land with nothing run; a local run uses the working tree.
- `sim_gate`: with `--allow-dirty` a dirty tree gives ALL SUITES PASS (the summary compares stamps
  only, and the checker's message says such a run is not clean); edits while dirty, or edited and
  reverted, are invisible to the stamp; only the first `sim_gate_run` of a target is parsed. The
  build directories are emptied once per gate and not modelled: a suite run by hand while the gate
  compiles the same bench shares them.
- Coverage: a FAIL verdict of a suite does not stop promotion, and a complete merge may lack a
  database.

### Drivers and decoders

- The Python driver stores `len(data)` as word 0 and reads one word too few (`driver.py:54`
  against the codec in `packet.py`): the FIFO would commit a two-word packet. PacketIO models the C
  driver only.
- `tidelink.c`: a read that returns -1 leaves the packet at the head; lengths are masked to the
  width of the field. Reading the performance monitor from an interrupt handler lifts the freeze of
  the read it interrupted (the model has one driver call at a time); utilisation wraps.
  `tidelink_write_packet` asks for no room: PacketIO's FIFO is as long as its packets, and that what
  is sent fits is the caller's and the credit's matter. CLEAR_TS clears valid bits that the driver
  never reads and is left out of PerfMonitor.
- The stress toolkit's `link_idle` is state 0 (`stress_lib.py:158-162`), the other tools' idle state
  is 4 (`regmap.py:64`): its packet workload and its monitor alarm on every healthy link.
- `stall_stuck` is graded a fault by one decoder where the register text says to read it as
  pressure, and two decoders use the names CLASSIC and HELD-REPLAY the other way round.
- An unknown `TIDELINK_SOC`, and one with a blank before or after it, is silently the Z2 map in the
  overlays and in `tl_poke`; `tl_socmap` strips the blank and refuses the unknown value. A half-set
  environment (KR260 data addresses, no `TIDELINK_SOC`), the trap `tl_socmap.py:9-19` describes, is
  caught by `tl39` with its `tl_socmap.py` only; every other tool takes a KR260 without a name for a Z2.

### Programs that test boards

- System validation: a verify timeout in T2b is reported as DATA_MISMATCH; a
  skipped T6 leaves exit code 0. T6 writes every chunk of 256 words from the first landing word on,
  with `base + done`, and its final check expects the first chunk's words (`kr260_sysval.py:589-615`):
  with the default 2000 beats a T6 that delivered everything is reported FAIL, and one whose later
  chunks were lost can pass. The run has both a T6 of one chunk and one of two; the properties claim
  nothing of the second.
- Regression: its payloads are constants and the senders' results are not looked at, so without
  `--deploy` it can be green on words that an earlier regression left. `soak_recv` checks the stream
  of the adversarial soak and fails after a sound default one, which writes another. `errinject_verify` never checks beat 0; a leftover translator rule can serve a
  readback; `sram_rtt` after a soak always fails.
- Stress suite: a timeout inside `except Exception` is swallowed; `--run-skipped`
  selects the tests tagged skip and `_run_test` skips them again, so they never run; a test named on
  the command line that the mode does not have is dropped without a word, and a selection that is
  empty then exits 0;
  a failed restore leaves lane masks changed and replaces SIGTERM's exit.
- Bring-up: return code 2 leaves training held; FAIL lines of the traffic test are ignored; a log
  that is appended to keeps an old anchor.
- Coverage gates: the sweep ignores the codes of arm, inject and provoke; the liveness gate passes
  on any nonzero code of the verify.
- TideChart: equal claims escape both error bits, and a total other than 2 only warns.
- Eye sweep: captures that timed out are saved with code 0; live rows are not settled.
- CRC shots: the fixed mode does not check that a packet came exactly once.
- Stress modes: a failed clear of the accumulator is swallowed and an aborted doorbell counts as a
  pass; contents repeat from run to run, so residue can stand in for a loss; a workload that raises
  (an OSError of the transport) is in no column of the summary; the FCSM monitor never alarms on a state that was bad from the start.
- ASIC L7: a marker that vanishes ends in a TypeError with the exit code of a wedge; one good word
  suffices for a recovery.
- Campaign: a transport failure is filed as MISMATCH; the weekend driver goes on to the
  bring-up when one of its dies parks, although its header says "Bring-up ONLY on freshly-POR'd + reflashed
  dies" (`weekend_campaign.sh:18` against `115-116`).
- RX tools: `tlchar drain` pops nothing and `tlchar stream` never commits; a `soak` before
  `credit_tx` mints credit, since it spends none and the peer returns some (`NoOverrun` says that
  only this overruns a FIFO); the model takes the tags of `credit_tx` to lie beyond the soak's; `tl39 drain` ignores STATUS.
- Register sweep: by default it pulses FLUSH and toggles the counter's enable, which loses credit
  on a link that carries traffic; a read-only row fails only if it then reads all ones.
- Interrupt probes: an unreadable `/proc/interrupts` as baseline gives a false PASS.
- On-chip pair: exit code 3 is documented and never returned; a bypassed autonomy gate passes.

## Not modelled

- *Receive half of the FC adapter*, and the saturating statistics and read multiplexer of the
  register block: combinational decoding in front of what is modelled.
- *Link layer and replay* (`Wlink*.v`): generated Verilog patched by hand; its state is not
  separable into operations. The models let the link stall, fail, lose and delay instead.
- *PTP unit, PHC crossing, servo*: numeric filters and metastability.
- *PHY, calibrators, lane deskew, clocking*: analogue outcomes; bring-up models see a calibration
  that succeeds or does not.
- *I2C bridge, address translation, ASIC test wrapper*: bit-level buses and combinational tables.
  `Autoneg` and `XferModes` model what they do to those who use them. Of the negotiation, the FIN
  exchange is left out.
- *Web pages, event streams, plotting, statistics, rendering*: they decide nothing.
- *File-list and registry generators, test benches, implementation flows*: text in, text out, or
  simulations of the design.

Worth adding next: a ledger of the whole credit loop (available, reserved, used, owed) that
`TidelinkTxGen` and `TidelinkCreditReturn` implement by halves, which would discharge the credit
assumption of `SendHeader` and turn the threshold condition above into a theorem.

----------------------------- MODULE OnchipPair -----------------------------
(***************************************************************************)
(* The two on-board checks of a KR260 that holds both dies of a pair:      *)
(* kr260_onchip_smoke.py (is this the two-instance image?) and             *)
(* kr260_onchip_autonomy.py (did the pair bring itself up, with no write   *)
(* from the host?).                                                        *)
(*                                                                         *)
(* Every access is made by a worker process under a wall-clock limit,      *)
(* since a read of a wedged bus never returns.  The dies negotiate, lock   *)
(* and train while the snapshot is read one register at a time.            *)
(***************************************************************************)
EXTENDS Integers, Sequences

CONSTANTS
    Images,     \* images the PL may hold
    MaxPolls,   \* polls within --timeout
    MaxFaults   \* workers that die of their own (no fork, a signal)

VARIABLES
    image,      \* the image in the PL
    die,        \* registers of the two instances
    bus,        \* "ok", "dead" once an access hangs
    tool,       \* the script that runs
    faults      \* workers lost so far

vars == <<image, die, bus, tool, faults>>

Inst == 0 .. 1

Por(i) == [role |-> 0, pend |-> FALSE, lost |-> FALSE, lock |-> FALSE, match |-> FALSE,
           st |-> "down", debug |-> 0]

-----------------------------------------------------------------------------
(* The dies *)

(* What an instance answers: a lone image has no second one, and a twin    *)
(* was built from one instance twice.                                      *)
decodes(i) == i = 0 \/ image # "single"
strap(i) == IF image = "twin" THEN 0 ELSE i
pair_base(i) == IF image = "twin" THEN "inst1" ELSE IF i = 0 THEN "inst1" ELSE "inst0"

mask_hs_gate_open(i) == die[i].match \/ image = "bypass"

hardware == bus = "ok" /\ UNCHANGED <<image, bus, tool, faults>>

(* The claim ends with a role; the loser is a slave. *)
Negotiate(i) ==
    /\ hardware /\ ~die[i].pend
    /\ \E role \in {0, 1}, lost \in BOOLEAN :
        /\ lost => role = 1
        /\ die' = [die EXCEPT ![i].pend = TRUE, ![i].role = role, ![i].lost = lost]

MaskMatch(i) ==
    /\ hardware /\ die[i].pend /\ ~die[i].match
    /\ die' = [die EXCEPT ![i].match = TRUE]

RoleLock(i) ==
    /\ hardware /\ die[i].pend /\ ~die[i].lock
    /\ mask_hs_gate_open(i) \/ die[i].lost
    /\ die' = [die EXCEPT ![i].lock = TRUE]

(* The link of a die leaves reset with its lock and needs the peer's; it   *)
(* may fall back, and come up again.                                       *)
Link(i) ==
    /\ hardware /\ \A k \in Inst : die[k].lock
    /\ \E s \in {"cal", "link"} : s # die[i].st /\ die' = [die EXCEPT ![i].st = s]

(* The bus of the PS may die at training entry. *)
Wedge ==
    /\ bus = "ok" /\ \E i \in Inst : die[i].lock /\ die[i].st = "down"
    /\ bus' = "dead" /\ UNCHANGED <<image, die, tool, faults>>

(* A PL load starts both dies over. *)
Load ==
    /\ tool.name = "none"
    /\ \E m \in Images : image' = m
    /\ die' = [i \in Inst |-> Por(i)] /\ bus' = "ok"
    /\ tool' = [tool EXCEPT !.rc = 9, !.snap = <<>>]
    /\ UNCHANGED faults

-----------------------------------------------------------------------------
(* The worker of one access: "ok", "wedged" or "err". *)

run_worker(status, i) ==
    CASE status = "wedged" -> bus = "dead" /\ UNCHANGED faults
      [] status = "ok"     -> bus = "ok" /\ decodes(i) /\ UNCHANGED faults
      [] OTHER             -> /\ bus = "ok"
                              /\ decodes(i) => faults < MaxFaults
                              /\ faults' = IF decodes(i) THEN faults + 1 ELSE faults

Off == [name |-> "none", step |-> 1, snap |-> <<>>, fails |-> 0, polls |-> 0,
        unlock |-> FALSE, rc |-> 9]

stop(rc) == tool' = [tool EXCEPT !.name = "none", !.rc = rc, !.step = 1, !.fails = 0, !.polls = 0,
                             !.unlock = FALSE, !.snap = IF rc = 0 THEN @ ELSE <<>>]
goto(k, bad) == tool' = [tool EXCEPT !.step = k, !.fails = IF bad THEN 1 ELSE @]
reading == UNCHANGED <<image, die, bus>>

-----------------------------------------------------------------------------
(* kr260_onchip_smoke *)

Smoke ==
    /\ tool.name = "none"
    /\ \E u \in BOOLEAN : tool' = [Off EXCEPT !.name = "smoke", !.unlock = u]
    /\ reading /\ UNCHANGED faults

(* Steps 1, 2: the four APB registers; 3, 4: the strap. *)
probe_ok(k) ==
    IF k <= 2 THEN pair_base(k - 1) = (IF k = 1 THEN "inst1" ELSE "inst0")
              ELSE strap(k - 3) = k - 3

guarded_read(status, k, ok, i) ==
    IF status = "wedged" THEN stop(2) ELSE goto(k, status = "err" \/ ~ok)

Probe ==
    /\ tool.name = "smoke" /\ tool.step <= 4
    /\ LET i == (tool.step + 1) % 2 IN \E s \in {"ok", "wedged", "err"} :
        /\ run_worker(s, i)
        /\ guarded_read(s, tool.step + 1, probe_ok(tool.step), i)
    /\ reading

(* --unlock, three accesses an instance: write 1, read back, write 0.      *)
(* Only the write of 1 and the read look for a wedge, and only the read's  *)
(* outcome is reported.                                                    *)
unlock_inst == (tool.step - 5) \div 3

WriteDebug ==
    /\ tool.name = "smoke" /\ tool.unlock /\ tool.step \in {5, 8}
    /\ \E s \in {"ok", "wedged", "err"} :
        /\ run_worker(s, unlock_inst)
        /\ IF s = "wedged" THEN stop(2) ELSE goto(tool.step + 1, FALSE)
        /\ die' = IF s = "ok" THEN [die EXCEPT ![unlock_inst].debug = 1] ELSE die
    /\ UNCHANGED <<image, bus>>

ReadDebug ==
    /\ tool.name = "smoke" /\ tool.step \in {6, 9}
    /\ \E s \in {"ok", "wedged", "err"} :
        /\ run_worker(s, unlock_inst)
        /\ guarded_read(s, tool.step + 1, die[unlock_inst].debug = 1, unlock_inst)
    /\ reading

RestoreDebug ==
    /\ tool.name = "smoke" /\ tool.step \in {7, 10}
    /\ \E s \in {"ok", "wedged", "err"} :
        /\ run_worker(s, unlock_inst)
        /\ goto(tool.step + 1, FALSE)
        /\ die' = IF s = "ok" THEN [die EXCEPT ![unlock_inst].debug = 0] ELSE die
    /\ UNCHANGED <<image, bus>>

SmokeEnds ==
    /\ tool.name = "smoke" /\ tool.step = IF tool.unlock THEN 11 ELSE 5
    /\ stop(IF tool.fails > 0 THEN 1 ELSE 0)
    /\ reading /\ UNCHANGED faults

-----------------------------------------------------------------------------
(* kr260_onchip_autonomy *)

snapshot_addrs ==
    <<<<0, "status">>, <<0, "role">>, <<0, "lock">>, <<0, "mask">>, <<0, "debug">>,
      <<1, "status">>, <<1, "role">>, <<1, "lock">>, <<1, "mask">>, <<1, "debug">>>>

decode(i, reg) ==
    CASE reg = "status" -> die[i].st = "link"
      [] reg = "role"   -> die[i].role = 0
      [] reg = "lock"   -> die[i].lock
      [] reg = "mask"   -> die[i].match
      [] OTHER          -> die[i].debug # 0

(* The mask register shows the gate beside the match; the snapshot keeps    *)
(* the match, and "sham" for a gate that does not equal it.                *)
sham(i, reg) == reg = "mask" /\ mask_hs_gate_open(i) # die[i].match

Autonomy ==
    /\ tool.name = "none"
    /\ tool' = [Off EXCEPT !.name = "autonomy"]
    /\ reading /\ UNCHANGED faults

(* One register of the worker's list; a hang or a death ends the script. *)
Sample ==
    /\ tool.name = "autonomy" /\ tool.step <= 10
    /\ LET i == snapshot_addrs[tool.step][1] reg == snapshot_addrs[tool.step][2] IN
        \E s \in {"ok", "wedged", "err"} :
            /\ run_worker(s, i)
            /\ CASE s = "wedged" -> stop(2)
                 [] s = "err"    -> stop(3)
                 [] OTHER        -> tool' = [tool EXCEPT !.step = @ + 1,
                                        !.snap = Append(@, IF sham(i, reg) THEN "sham" ELSE
                                                            IF decode(i, reg) THEN "1" ELSE "0")]
    /\ reading

at(i, reg) == tool.snap[CHOOSE k \in 1 .. 10 : snapshot_addrs[k] = <<i, reg>>]

criteria ==
    /\ \A i \in Inst : at(i, "status") = "1" /\ at(i, "lock") = "1" /\ at(i, "mask") = "1"
    /\ at(0, "role") # at(1, "role")

Judge ==
    /\ tool.name = "autonomy" /\ tool.step = 11
    /\ IF \E i \in Inst : at(i, "debug") = "1" THEN stop(3)
       ELSE IF criteria THEN stop(0)
       ELSE IF tool.polls + 1 = MaxPolls THEN stop(1)
       ELSE tool' = [tool EXCEPT !.step = 1, !.snap = <<>>, !.polls = @ + 1]
    /\ reading /\ UNCHANGED faults

-----------------------------------------------------------------------------

Init ==
    /\ image \in Images /\ bus = "ok" /\ faults = 0 /\ tool = Off
    /\ die = [i \in Inst |-> Por(i)]

Next ==
    \/ \E i \in Inst : Negotiate(i) \/ MaskMatch(i) \/ RoleLock(i) \/ Link(i)
    \/ Wedge \/ Load
    \/ Smoke \/ Probe \/ WriteDebug \/ ReadDebug \/ RestoreDebug \/ SmokeEnds
    \/ Autonomy \/ Sample \/ Judge

Spec == Init /\ [][Next]_vars

-----------------------------------------------------------------------------

proven == tool.name = "none" /\ tool.rc = 0 /\ Len(tool.snap) = 10
smoked == tool.name = "none" /\ tool.rc = 0 /\ tool.snap = <<>>

(* A pair whose autonomy is proven has completed the peer-mask handshake    *)
(* on both dies, is locked on both, and has exactly one master, although   *)
(* the ten registers were read one by one while the dies moved: STATUS is  *)
(* read before the roles, so a link that is up means roles that are final. *)
ProvenIsHandshaken ==
    proven => /\ \A i \in Inst : die[i].lock /\ die[i].match
              /\ die[0].role # die[1].role

(* A smoke test passes only on the two-instance image: workers that died    *)
(* and probes that never answered count against it.                        *)
SmokedIsPair == smoked => image \notin {"single", "twin"}

-----------------------------------------------------------------------------
(* The inductive invariant *)

Die == [role : {0, 1}, pend : BOOLEAN, lost : BOOLEAN, lock : BOOLEAN, match : BOOLEAN,
        st : {"down", "cal", "link"}, debug : {0, 1}]

TypeOK ==
    /\ die \in [Inst -> Die] /\ bus \in {"ok", "dead"} /\ faults \in Nat
    /\ DOMAIN tool = DOMAIN Off
    /\ tool.name \in {"none", "smoke", "autonomy"} /\ tool.step \in 1 .. 11
    /\ tool.snap \in Seq({"0", "1", "sham"}) /\ tool.fails \in {0, 1} /\ tool.polls \in Nat

(* Roles are final before they are locked, and a link needs both locks. *)
LinkIsLocked ==
    \A i \in Inst : /\ die[i].lock => die[i].pend
                    /\ die[i].st # "down" => \A k \in Inst : die[k].lock

SnapInStep ==
    /\ tool.name = "autonomy" => Len(tool.snap) = tool.step - 1
    /\ tool.name = "smoke" => tool.snap = <<>>

(* What a register of the snapshot has shown still holds; a role, once the *)
(* first register has shown a link.                                        *)
SnapHolds ==
    LET shown(k) == k <= Len(tool.snap) /\ tool.snap[k] = "1"
    IN  /\ shown(1) => die[0].lock /\ die[1].lock
        /\ \A k \in {2, 7} : k <= Len(tool.snap) => tool.snap[k] # "sham"
        /\ shown(1) /\ 2 <= Len(tool.snap) => (tool.snap[2] = "1" <=> die[0].role = 0)
        /\ shown(1) /\ 7 <= Len(tool.snap) => (tool.snap[7] = "1" <=> die[1].role = 0)
        /\ shown(4) => die[0].match
        /\ shown(9) => die[1].match

(* A proven snapshot has met the criteria. *)
ProvenIsJudged ==
    proven => /\ tool.snap[1] = "1" /\ tool.snap[4] = "1" /\ tool.snap[9] = "1"
              /\ tool.snap[2] # tool.snap[7]

(* Two answered probes tell the image with two instances. *)
ProbedIsPair ==
    tool.name = "smoke" /\ tool.fails = 0 /\ tool.step > 2 => image \notin {"single", "twin"}

IInv ==
    /\ TypeOK /\ LinkIsLocked /\ SnapInStep /\ SnapHolds
    /\ ProvenIsJudged /\ ProbedIsPair /\ SmokedIsPair
=============================================================================

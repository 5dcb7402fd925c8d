----------------------------- MODULE TideChart -----------------------------
(***************************************************************************)
(* Electing the root of a pair of dies: the board-side tool                *)
(* (kr260_tidechart.py), run on both boards at once, and the gate that     *)
(* drives both boards and compares them (cov_tidechart_election.py).       *)
(*                                                                         *)
(* The election hardware is not in this repository; it is modelled from    *)
(* what the two scripts say of it: the lower claim wins, a die settles     *)
(* when its time-out ends, and a settled die stays settled.                *)
(***************************************************************************)
EXTENDS Naturals, FiniteSets

CONSTANTS
    Programs,    \* {"tool", "gate"}: which of the two scripts drives the boards
    Integrity    \* the bitstream sets dual_root and silent_root

Dies == {"a", "b"}
other(d) == IF d = "a" THEN "b" ELSE "a"

VARIABLES
    prog,      \* the driving script
    puf,       \* puf_ready by die: election_start is gated on it
    claim,     \* {DEVICE_CLASS, RANDOM_ID} by die
    wide,      \* the election time-outs outlast a round trip, by die
    fsm,       \* the election by die: "idle", "open", "settled"
    heard,     \* the peer's claim arrived before the die settled
    late,      \* the peer's claim arrived after the die settled
    is_root,   \* TC_STATUS[1]
    enum,      \* enumeration: done, the ids and routes it gave
    pc,        \* where each board's script is; of the gate both entries move together
    seen,      \* what the script on a die read: done, root, error bits
    rc,        \* return code by die, of the gate under "a"; or None
    fails,     \* the gate's failed assertions
    fcsm       \* the link is at FCSM = 4

vars == <<prog, puf, claim, wide, fsm, heard, late, is_root, enum, pc, seen, rc, fails, fcsm>>
hardware == <<puf, claim, fsm, heard, late, is_root, enum>>
host == <<pc, seen, rc, fails>>

None == 99
Nothing == [done |-> FALSE, root |-> FALSE, dual |-> FALSE, silent |-> FALSE]
NotRun == [done |-> FALSE, ids |-> 0, route |-> {}, bcast |-> FALSE]

(* The straps make the claims differ; the gate also copes with a pair that *)
(* was not strapped.                                                       *)
Init ==
    /\ prog \in Programs
    /\ puf \in [Dies -> BOOLEAN]
    /\ claim \in [Dies -> {1, 2}] /\ (prog = "tool" => claim["a"] # claim["b"])
    /\ wide = [d \in Dies |-> FALSE]
    /\ fsm = [d \in Dies |-> "idle"] /\ heard = [d \in Dies |-> FALSE] /\ late = [d \in Dies |-> FALSE]
    /\ is_root = [d \in Dies |-> FALSE] /\ enum = NotRun
    /\ pc = [d \in Dies |-> IF prog = "gate" THEN "fcsm" ELSE "prep"]
    /\ seen = [d \in Dies |-> Nothing] /\ rc = [d \in Dies |-> None]
    /\ fails = {} /\ fcsm \in BOOLEAN

-----------------------------------------------------------------------------
(* The election hardware. *)

(* The peer's claim crosses the link, before or after this die settles. *)
Claim(d) ==
    /\ fcsm /\ fsm[other(d)] # "idle" /\ fsm[d] # "idle" /\ ~heard[d] /\ ~late[d]
    /\ IF fsm[d] = "open" THEN heard' = [heard EXCEPT ![d] = TRUE] /\ UNCHANGED late
       ELSE late' = [late EXCEPT ![d] = TRUE] /\ UNCHANGED heard
    /\ UNCHANGED <<prog, puf, claim, wide, fsm, is_root, enum, host, fcsm>>

(* The time-out ends.  A wide one outlasts the claim of a peer that has    *)
(* started.                                                                *)
Settle(d) ==
    /\ fsm[d] = "open"
    /\ wide[d] /\ fcsm /\ fsm[other(d)] # "idle" => heard[d]
    /\ fsm' = [fsm EXCEPT ![d] = "settled"]
    /\ is_root' = [is_root EXCEPT ![d] = ~(heard[d] /\ claim[other(d)] < claim[d])]
    /\ UNCHANGED <<prog, puf, claim, wide, heard, late, enum, host, fcsm>>

(* TC_ERROR: a differing claim after the die settled; a root that never    *)
(* heard a claim.                                                          *)
dual_root(d) == Integrity /\ late[d] /\ claim[other(d)] # claim[d]
silent_root(d) == Integrity /\ is_root[d] /\ ~heard[d]

Status(d) == [done |-> fsm[d] = "settled", root |-> is_root[d], dual |-> dual_root(d), silent |-> silent_root(d)]

(* TC_CTRL <- election_start: gated on puf_ready, and without effect on a  *)
(* die that has settled.                                                   *)
ElectionStart(d) ==
    fsm' = [fsm EXCEPT ![d] = IF puf[d] /\ @ = "idle" THEN "open" ELSE @]

-----------------------------------------------------------------------------
(* kr260_tidechart.py on die d. *)

(* prep: the 24-bit time-outs take, or the bitstream predates them. *)
do_prep(d) ==
    /\ pc[d] = "prep" /\ rc[d] = None
    /\ \/ wide' = [wide EXCEPT ![d] = TRUE] /\ pc' = [pc EXCEPT ![d] = "elect"] /\ UNCHANGED rc
       \/ UNCHANGED <<wide, pc>> /\ rc' = [rc EXCEPT ![d] = 2]
    /\ UNCHANGED <<hardware, seen, fails>>

do_elect(d) ==
    /\ pc[d] = "elect" /\ rc[d] = None
    /\ IF fcsm THEN ElectionStart(d) /\ pc' = [pc EXCEPT ![d] = "poll"] /\ UNCHANGED rc
       ELSE UNCHANGED <<fsm, pc>> /\ rc' = [rc EXCEPT ![d] = 2]
    /\ UNCHANGED <<puf, claim, wide, heard, late, is_root, enum, seen, fails>>

ElectVerdict(s) == IF ~s.done THEN 2 ELSE IF s.dual \/ s.silent THEN 3 ELSE 0

(* The poll ends when election_done is read or its time is over; TC_ERROR  *)
(* is read once, right after.                                              *)
ElectPoll(d) ==
    /\ pc[d] = "poll" /\ rc[d] = None
    /\ seen' = [seen EXCEPT ![d] = Status(d)]
    /\ rc' = [rc EXCEPT ![d] = ElectVerdict(Status(d))]
    /\ UNCHANGED <<hardware, wide, pc, fails>>

-----------------------------------------------------------------------------
(* cov_tidechart_election.py: one host process and, for the election, one  *)
(* thread per die.                                                         *)
At(place) == prog = "gate" /\ rc["a"] = None /\ \A d \in Dies : pc[d] = place
Move(place) == pc' = [d \in Dies |-> place]
Return(code) == rc' = [rc EXCEPT !["a"] = code]

(* 0, 1: the link gate; the baseline of both dies. *)
GateBaseline ==
    /\ At("fcsm")
    /\ \/ fcsm /\ Move("prep") /\ UNCHANGED rc
       \/ ~fcsm /\ Return(2) /\ UNCHANGED pc
       \/ fcsm /\ Return(1) /\ UNCHANGED pc
    /\ UNCHANGED <<hardware, wide, seen, fails>>

(* 2: prep writes time-outs that do not outlast a round trip, and its      *)
(* result is not looked at.                                                *)
GatePrep ==
    /\ At("prep") /\ Move("elect")
    /\ UNCHANGED <<hardware, wide, seen, rc, fails>>

(* 3: each thread starts the election on its die at the shared epoch and   *)
(* polls; the other thread may be ahead or behind.                         *)
GateElect(d) ==
    /\ prog = "gate" /\ rc["a"] = None /\ pc[d] = "elect"
    /\ ElectionStart(d) /\ pc' = [pc EXCEPT ![d] = "poll"]
    /\ UNCHANGED <<puf, claim, wide, heard, late, is_root, enum, seen, rc, fails>>

GatePoll(d) ==
    /\ prog = "gate" /\ rc["a"] = None /\ pc[d] = "poll"
    /\ seen' = [seen EXCEPT ![d] = Status(d)] /\ pc' = [pc EXCEPT ![d] = "joined"]
    /\ UNCHANGED <<hardware, wide, rc, fails>>

(* Assertions 1 and 5: both have settled, exactly one is root. *)
RootFails ==
    LET nroot == Cardinality({d \in Dies : seen[d].root})
    IN  (IF \A d \in Dies : seen[d].done THEN {} ELSE {"no_convergence"})
        \cup (IF nroot = 2 THEN {"dual_root"} ELSE IF nroot = 0 THEN {"no_root"} ELSE {})

GateJoin ==
    /\ At("joined")
    /\ \/ Return(1) /\ UNCHANGED <<pc, fails>>
       \/ /\ fails' = RootFails /\ UNCHANGED rc
          /\ Move(IF Cardinality({d \in Dies : seen[d].root}) = 1 THEN "enum" ELSE "verdict")
    /\ UNCHANGED <<hardware, wide, seen>>

(* Assertion 2: enumeration on the root; the hardware gives ids, routes    *)
(* and a broadcast, any of which may be missing.                           *)
GateEnum ==
    /\ At("enum") /\ Move("route")
    /\ \E done, ids, bcast \in BOOLEAN, route \in SUBSET Dies :
          /\ enum' = [done |-> done, ids |-> IF ids THEN 2 ELSE 1, route |-> route, bcast |-> bcast]
          /\ \/ fails' = fails \cup (IF done THEN {} ELSE {"enum_done"}) \cup (IF ids THEN {} ELSE {"same_id"})
             \/ fails' = fails \cup {"enum_read"}
    /\ UNCHANGED <<puf, claim, wide, fsm, heard, late, is_root, seen, rc>>

(* Assertions 3 and 4: the routes to the peer, and the peer's broadcast    *)
(* counter.                                                                *)
GateRoute ==
    /\ At("route") /\ Move("verdict")
    /\ \/ "enum_read" \in fails /\ UNCHANGED fails
       \/ /\ "enum_read" \notin fails
          /\ fails' = fails \cup (IF enum.route = {} THEN {"route"} ELSE {})
                            \cup (IF enum.bcast THEN {} ELSE {"telemetry"})
       \/ "enum_read" \notin fails /\ fails' = fails \cup {"read_failed"}
    /\ UNCHANGED <<hardware, wide, seen, rc>>

(* Assertion 5's level source may fail to clear. *)
GateVerdict ==
    /\ At("verdict")
    /\ \E stuck \in BOOLEAN : Return(IF fails = {} /\ ~stuck THEN 0 ELSE 1)
    /\ UNCHANGED <<hardware, wide, pc, seen, fails>>

Tool(d) == prog = "tool" /\ (do_prep(d) \/ do_elect(d) \/ ElectPoll(d))
Gate == GateBaseline \/ GatePrep \/ GateJoin \/ GateEnum \/ GateRoute \/ GateVerdict
        \/ \E d \in Dies : GateElect(d) \/ GatePoll(d)
Next ==
    \/ \E d \in Dies : Claim(d) \/ Settle(d)
    \/ (\E d \in Dies : Tool(d)) /\ UNCHANGED <<prog, fcsm>>
    \/ Gate /\ UNCHANGED <<prog, fcsm>>

Spec == Init /\ [][Next]_vars

-----------------------------------------------------------------------------
OneRoot == Cardinality({d \in Dies : is_root[d]}) = 1

(* When the tool returns 0 on both boards exactly one die is root, although*)
(* each looked only at its own registers and read its error bits once,     *)
(* perhaps before the claim arrived that contradicts it.                   *)
ToolsAgree == prog = "tool" /\ (\A d \in Dies : rc[d] = 0) => OneRoot

(* A pass of the gate means exactly one root, two settled dies and two     *)
(* distinct ids, whichever thread was ahead and whatever the claims are.   *)
PassIsOneRoot ==
    prog = "gate" /\ rc["a"] = 0 => OneRoot /\ (\A d \in Dies : fsm[d] = "settled") /\ enum.ids = 2

(* The inductive invariant.  A settled die is root unless it heard a lower *)
(* claim, and it hears nothing more; what a script has read of a settled   *)
(* die therefore stays true.                                               *)
TypeOK ==
    /\ claim \in [Dies -> {1, 2}]
    /\ fsm \in [Dies -> {"idle", "open", "settled"}]
    /\ heard \in [Dies -> BOOLEAN] /\ late \in [Dies -> BOOLEAN] /\ is_root \in [Dies -> BOOLEAN]
    /\ pc \in [Dies -> {"fcsm", "prep", "elect", "poll", "joined", "enum", "route", "verdict"}]
    /\ seen \in [Dies -> [done : BOOLEAN, root : BOOLEAN, dual : BOOLEAN, silent : BOOLEAN]]
    /\ rc \in [Dies -> {0, 1, 2, 3, None}]

SettledByClaims ==
    \A d \in Dies : fsm[d] = "settled" => (is_root[d] <=> ~(heard[d] /\ claim[other(d)] < claim[d]))

ToolHasLooked ==
    prog = "tool" =>
        /\ claim["a"] # claim["b"]
        /\ \A d \in Dies : rc[d] = 0 => fsm[d] = "settled" /\ (is_root[d] => heard[d])

SeenIsSo == \A d \in Dies : seen[d].done => fsm[d] = "settled" /\ seen[d].root = is_root[d]
SeenOneRoot == (\A d \in Dies : seen[d].done) /\ seen["a"].root # seen["b"].root

GateHasLooked ==
    prog = "gate" =>
        /\ pc["a"] \in {"enum", "route", "verdict"} => pc["b"] = pc["a"] /\ (fails = {} => SeenOneRoot)
        /\ pc["a"] \in {"route", "verdict"} /\ fails = {} => enum.ids = 2
        /\ rc["a"] = 0 => pc["a"] = "verdict" /\ fails = {}

IInv == TypeOK /\ SettledByClaims /\ ToolHasLooked /\ SeenIsSo /\ GateHasLooked

=============================================================================

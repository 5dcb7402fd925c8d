----------------------------- MODULE EthRegress -----------------------------
(***************************************************************************)
(* The cross-die regression of kr260_eth_regress.py: provenance, deploy or *)
(* link check, config plane, the interlock, and the data-plane tests in    *)
(* both directions, over the transfer modes of XferModes.  The boards keep *)
(* their memories from one regression to the next unless one deploys.      *)
(*                                                                         *)
(* A step is one command on a board.  Its process may not run, or may run  *)
(* and its output not come back; the host looks at the output only.        *)
(***************************************************************************)
EXTENDS XferModes

CONSTANT MaxRuns   \* bound: regressions run

VARIABLES
    n,              \* which regression this is
    opt,            \* --deploy, --config-only, --include-peer-read, --adversarial-soak
    pc,             \* the step of run()
    passed, failed, \* results: the checks that passed, and the gating ones that failed
    provenance_ok, downgraded,
    witnesses,      \* delivery_witnesses
    interlock,      \* the interlock held in this regression
    fresh,          \* receivers that a send of this regression has reached
    traffic,        \* peer traffic was driven in this regression
    exit            \* "running", "ok" or "bad"

suite == <<n, opt, passed, failed, provenance_ok, downgraded, witnesses, interlock, fresh, traffic, exit>>

Options == [deploy : BOOLEAN, config_only : BOOLEAN, peer_read : BOOLEAN, adversarial : BOOLEAN]

Record(name, ok, gating) ==
    /\ passed' = IF ok THEN passed \cup {name} ELSE passed
    /\ failed' = IF gating /\ ~ok THEN failed \cup {name} ELSE failed

Step(place) == pc' = place
Kept == UNCHANGED <<n, opt, exit>>
NoTraffic == UNCHANGED <<vars, fresh, traffic>>

-----------------------------------------------------------------------------
(* Gates and config plane. *)

(* Both hashes equal the repository's; a board that does not answer does   *)
(* not match either.                                                       *)
t_provenance ==
    /\ pc = "provenance"
    /\ \E same \in BOOLEAN :
        /\ provenance_ok' = same
        /\ Record("provenance", same, TRUE)
    /\ Step(IF opt.deploy THEN "deploy" ELSE "verify")
    /\ Kept /\ NoTraffic /\ UNCHANGED <<downgraded, witnesses, interlock>>

(* Reflashed dies have lost their memories and their link. *)
t_deploy ==
    /\ pc = "deploy"
    /\ \E ok \in BOOLEAN :
        /\ Record("deploy", ok, TRUE)
        /\ Step(IF ok THEN "bringup" ELSE "summary")
    /\ cam' = [d \in Dies |-> "off"]
    /\ sram' = [d \in Dies |-> [w \in 0..(FOLD - 1) |-> <<"none", 0>>]]
    /\ slot' = [d \in Dies |-> [data |-> <<"none", 0>>, valid |-> FALSE]]
    /\ link' = "down"
    /\ owed' = [d \in Dies |-> "none"]
    /\ Kept /\ UNCHANGED <<out, fresh, traffic, provenance_ok, downgraded, witnesses, interlock>>

t_link_bringup ==
    /\ pc = "bringup"
    /\ link' \in {"up", "faulty", "down"}
    /\ Record("link", link' # "down", TRUE)
    /\ Step(IF link' # "down" THEN "config" ELSE "backdoor")
    /\ Kept /\ UNCHANGED <<cam, sram, slot, out, owed, fresh, traffic, provenance_ok, downgraded, witnesses, interlock>>

t_link_verify ==
    /\ pc = "verify"
    /\ \E read \in BOOLEAN :
        LET up == read /\ link # "down"
        IN  Record("link", up, TRUE) /\ Step(IF up THEN "config" ELSE "backdoor")
    /\ Kept /\ NoTraffic /\ UNCHANGED <<provenance_ok, downgraded, witnesses, interlock>>

(* Without a link only the backdoor is looked at. *)
t_backdoor ==
    /\ pc = "backdoor"
    /\ \E ok \in BOOLEAN : Record("backdoor", ok, FALSE)
    /\ Step("summary")
    /\ Kept /\ NoTraffic /\ UNCHANGED <<provenance_ok, downgraded, witnesses, interlock>>

(* Backdoor and role, then the data plane unless one of its three          *)
(* conditions is missing.                                                  *)
t_role ==
    /\ pc = "config"
    /\ \E ok \in BOOLEAN : Record("role", ok, TRUE)
    /\ Step(IF opt.config_only \/ ~provenance_ok THEN "tidechart" ELSE "interlock")
    /\ downgraded' = (~opt.config_only /\ ~provenance_ok)
    /\ Kept /\ NoTraffic /\ UNCHANGED <<provenance_ok, witnesses, interlock>>

(* Faulty: the data plane goes ahead on a link that is not seen healthy. *)
interlock_ignored ==
    /\ pc = "interlock"
    /\ LinkMayFault
    /\ Step("sram_fwd_send")
    /\ Kept
    /\ UNCHANGED <<cam, sram, slot, out, owed, fresh, traffic, passed, failed, provenance_ok, downgraded,
                   witnesses, interlock>>

t_dataplane_interlock ==
    /\ pc = "interlock"
    /\ LinkMayFault
    /\ \E read \in BOOLEAN :
        LET ok == read /\ link' = "up"
        IN  /\ Record("interlock", ok, FALSE)
            /\ interlock' = ok
            /\ downgraded' = ~ok
            /\ Step(IF ok THEN "sram_fwd_send" ELSE "tidechart")
    /\ Kept /\ UNCHANGED <<cam, sram, slot, out, owed, fresh, traffic, provenance_ok, witnesses>>

-----------------------------------------------------------------------------
(* The data plane: send on one die, whose result nobody reads, then the    *)
(* local read of the other.                                                *)

Transfers ==
    [sram_fwd    |-> [from |-> "a", recv |-> "recv",      next |-> "sram_rev_send"],
     sram_rev    |-> [from |-> "b", recv |-> "recv",      next |-> "mailbox_send"],
     mailbox     |-> [from |-> "a", recv |-> "mbox_recv", next |-> "mailbox_rev_send"],
     mailbox_rev |-> [from |-> "b", recv |-> "mbox_recv", next |-> "soak_run"]]

Place == [sram_fwd |-> [send |-> "sram_fwd_send", recv |-> "sram_fwd_recv"],
          sram_rev |-> [send |-> "sram_rev_send", recv |-> "sram_rev_recv"],
          mailbox |-> [send |-> "mailbox_send", recv |-> "mailbox_recv"],
          mailbox_rev |-> [send |-> "mailbox_rev_send", recv |-> "mailbox_rev_recv"]]

run_on(mode, d) == IF mode = "recv" THEN do_sender(d) ELSE do_mbox_send(d)

TestSend(t) ==
    LET T == Transfers[t]
        to == peer[T.from]
    IN  /\ pc = Place[t].send
        /\ \/ /\ run_on(T.recv, T.from)
              /\ fresh' = IF out'.rc = 0 /\ owed'[to] = T.recv THEN fresh \cup {<<to, T.recv>>} ELSE fresh
              /\ traffic' = TRUE
           \/ UNCHANGED <<vars, fresh, traffic>>
        /\ Step(Place[t].recv)
        /\ Kept /\ UNCHANGED <<passed, failed, provenance_ok, downgraded, witnesses, interlock>>

TestRecv(t) ==
    LET T == Transfers[t]
        to == peer[T.from]
    IN  /\ pc = Place[t].recv
        /\ IF T.recv = "recv" THEN do_recv(to) ELSE do_mbox_recv(to)
        /\ \E heard \in BOOLEAN :
            LET ok == heard /\ out'.rc = 0
            IN  /\ Record(t, ok, TRUE)
                /\ witnesses' = IF ok THEN witnesses \cup {<<to, T.recv>>} ELSE witnesses
        /\ Step(T.next)
        /\ Kept /\ UNCHANGED <<fresh, traffic, provenance_ok, downgraded, interlock>>

(* A soak and the health of its sender afterwards; no witness. *)
_soak_once(place, name, d, next) ==
    /\ pc = place
    /\ \/ /\ do_soak(d, opt.adversarial) /\ traffic' = TRUE
          /\ \E heard \in BOOLEAN : Record(name, heard /\ out'.rc = 0 /\ link' = "up", TRUE)
       \/ Record(name, FALSE, TRUE) /\ UNCHANGED <<vars, traffic>>
    /\ Step(next)
    /\ Kept /\ UNCHANGED <<fresh, provenance_ok, downgraded, witnesses, interlock>>

t_sram_rtt ==
    /\ pc = "rtt"
    /\ do_readback("a")
    /\ Record("sram_rtt", out'.rc = 0, FALSE)
    /\ traffic' = TRUE
    /\ Step("tidechart")
    /\ Kept /\ UNCHANGED <<fresh, provenance_ok, downgraded, witnesses, interlock>>

t_tidechart ==
    /\ pc = "tidechart"
    /\ \E ok \in BOOLEAN : Record("tidechart", ok, FALSE)
    /\ Step("summary")
    /\ Kept /\ NoTraffic /\ UNCHANGED <<provenance_ok, downgraded, witnesses, interlock>>

(* Green: no gating failure, and a witness or an explicit --config-only. *)
summary_ok ==
    /\ failed = {}
    /\ witnesses # {} \/ (opt.config_only /\ ~downgraded)

summary ==
    /\ pc = "summary"
    /\ exit' = IF summary_ok THEN "ok" ELSE "bad"
    /\ Step("over")
    /\ NoTraffic
    /\ UNCHANGED <<n, opt, passed, failed, provenance_ok, downgraded, witnesses, interlock>>

-----------------------------------------------------------------------------
Fresh(o) ==
    /\ opt = o /\ pc = "provenance" /\ passed = {} /\ failed = {}
    /\ provenance_ok = FALSE /\ downgraded = FALSE /\ witnesses = {} /\ interlock = FALSE
    /\ fresh = {} /\ traffic = FALSE /\ exit = "running"

RegressInit ==
    /\ FreshBoard
    /\ link \in {"up", "down"}
    /\ out = [mode |-> "none", die |-> "a", rc |-> 0]
    /\ owed = [d \in Dies |-> "none"]
    /\ n = 1
    /\ \E o \in Options : Fresh(o)

(* The next regression starts on the boards as they are; no process of the *)
(* last one is left.                                                       *)
main ==
    /\ pc = "over" /\ n < MaxRuns
    /\ n' = n + 1
    /\ opt' \in Options
    /\ pc' = "provenance" /\ passed' = {} /\ failed' = {}
    /\ provenance_ok' = FALSE /\ downgraded' = FALSE /\ witnesses' = {} /\ interlock' = FALSE
    /\ fresh' = {} /\ traffic' = FALSE /\ exit' = "running"
    /\ out' = [mode |-> "none", die |-> "a", rc |-> 0]
    /\ owed' = [d \in Dies |-> "none"]
    /\ UNCHANGED board

RegressNext ==
    \/ t_provenance \/ t_deploy \/ t_link_bringup \/ t_link_verify
    \/ t_backdoor \/ t_role \/ t_dataplane_interlock
    \/ \E t \in DOMAIN Transfers : TestSend(t) \/ TestRecv(t)
    \/ _soak_once("soak_run", "soak", "a", "soak_rev_run")
    \/ _soak_once("soak_rev_run", "soak_rev", "b", IF opt.peer_read THEN "rtt" ELSE "tidechart")
    \/ t_sram_rtt \/ t_tidechart \/ summary
    \/ main

-----------------------------------------------------------------------------
(* Properties. *)

(* Peer traffic is driven only in a regression whose own provenance gate   *)
(* and interlock held, whatever an earlier one has found.                  *)
NoBlindTraffic ==
    traffic => provenance_ok /\ interlock /\ ~opt.config_only

Tests == {"sram_fwd", "sram_rev", "mailbox", "mailbox_rev", "soak", "soak_rev"}

(* The boards were blank when the data plane began: reflashed by this      *)
(* regression, or never used before.                                       *)
Blank == n = 1 \/ (opt.deploy /\ pc \notin {"provenance", "deploy"})

(* A green run that was not asked to stay off the data plane has passed    *)
(* every test of it, and on blank boards each local read it counts as a    *)
(* witness found a word that a send of this regression delivered, although *)
(* no send's result is looked at.  The payloads are constants: on boards   *)
(* that keep an earlier regression's words, those can stand in for words   *)
(* this one lost.                                                          *)
GreenIsWitnessed ==
    exit = "ok" => \/ opt.config_only /\ ~traffic
                   \/ Tests \subseteq passed /\ (Blank => witnesses \subseteq fresh)

-----------------------------------------------------------------------------
(* The inductive invariant.  The data plane is entered only through both   *)
(* gates; from each of its places the tests behind it are on record, so a  *)
(* witness at the end means that all of them are.  On boards that began    *)
(* blank, a word that a receiver would accept was sent in this regression. *)
Behind ==
    [sram_fwd_send |-> {}, sram_fwd_recv |-> {},
     sram_rev_send |-> {"sram_fwd"}, sram_rev_recv |-> {"sram_fwd"},
     mailbox_send |-> {"sram_fwd", "sram_rev"}, mailbox_recv |-> {"sram_fwd", "sram_rev"},
     mailbox_rev_send |-> {"sram_fwd", "sram_rev", "mailbox"},
     mailbox_rev_recv |-> {"sram_fwd", "sram_rev", "mailbox"},
     soak_run |-> {"sram_fwd", "sram_rev", "mailbox", "mailbox_rev"},
     soak_rev_run |-> {"sram_fwd", "sram_rev", "mailbox", "mailbox_rev", "soak"},
     rtt |-> Tests]
DataPlane == DOMAIN Behind

TypeOK == opt \in Options /\ provenance_ok \in BOOLEAN /\ interlock \in BOOLEAN /\ traffic \in BOOLEAN

PlaneIsGated ==
    /\ pc \in DataPlane => provenance_ok /\ interlock /\ ~opt.config_only
    /\ pc = "interlock" => provenance_ok /\ ~opt.config_only
TestsOnRecord ==
    /\ pc \in DataPlane => Behind[pc] \subseteq passed \cup failed
    /\ pc \notin DataPlane /\ witnesses # {} => Tests \subseteq passed \cup failed

AllPassed == exit = "ok" => (opt.config_only /\ ~traffic) \/ Tests \subseteq passed

GateInv ==
    /\ TypeOK /\ PlaneIsGated /\ TestsOnRecord
    /\ pc \in {"provenance", "deploy", "bringup", "verify", "backdoor", "config", "interlock"} =>
         ~traffic /\ witnesses = {}
    /\ pc = "provenance" => ~provenance_ok /\ ~interlock
    /\ exit # "running" => pc = "over"
    /\ NoBlindTraffic /\ AllPassed

WordsAreFresh ==
    /\ \A d \in Dies : sram[d][LANDED] = <<"word", 0>> => <<d, "recv">> \in fresh
    /\ \A d \in Dies : slot[d].valid => <<d, "mbox_recv">> \in fresh
    /\ witnesses \subseteq fresh

WordInv ==
    /\ n \in Nat /\ n > 0
    /\ DOMAIN sram = Dies /\ DOMAIN slot = Dies /\ DOMAIN owed = Dies
    /\ \A d \in Dies : DOMAIN sram[d] = 0..(FOLD - 1)
    /\ Blank => WordsAreFresh

IInv == GateInv /\ WordInv

=============================================================================

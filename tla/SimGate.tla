------------------------------- MODULE SimGate -------------------------------
(***************************************************************************)
(* make sim_gate: the integrity check of what is run against what is       *)
(* scored, the check that the environment is ready, the suites, and the    *)
(* summary that scores their status files against the stamp taken at the   *)
(* start.                                                                  *)
(*                                                                         *)
(* Every suite, and the summary, is a make of its own that takes its stamp *)
(* when it starts; the tree may be edited, committed and reverted at any   *)
(* time, and a suite run by hand writes the same status file.  A stamp     *)
(* tells commits, dirty from clean and file lists apart, and no more.      *)
(***************************************************************************)
EXTENDS Integers

CONSTANTS
    Makefiles,  \* [invoked, label, lists, scored, sentinels]; lists: both are found
    Environs,   \* [xhb, tools, set, closure, subs, git, allow_dirty, site]
    Uses,       \* the variables each file list names, not as an include
    Includes,   \* [from, to, var]: an include through a variable, or ""
    BenchList,      \* the file list each suite starts from
    MaxEdits

VARIABLES
    mk,         \* the Makefile
    env,        \* the environment the gate is started in
    tree,       \* the working tree: commit, edits of sources and file lists
    edits,
    gate,       \* the make of the gate
    cur,        \* the make of a suite: its stamp and the tree it began on
    st          \* the status files

vars == <<mk, env, tree, edits, gate, cur, st>>

Suites == DOMAIN BenchList
Files == DOMAIN Uses
Clean(sha) == [sha |-> sha, rtl |-> 0, fl |-> 0]
GATE_STAMP(t) == [sha |-> t.sha, dirty |-> t.rtl # 0 \/ t.fl # 0, fl |-> t.fl]
NoStamp == [sha |-> 0, dirty |-> FALSE, fl |-> 0]
MISS == [verdict |-> "MISS", stamp |-> NoStamp, began |-> Clean(0), measured |-> TRUE]
(* A status an earlier run left, in an environment that was not ready. *)
Left == [verdict |-> "FAIL", stamp |-> GATE_STAMP(Clean(1)), began |-> Clean(1), measured |-> FALSE]
Nobody == [suite |-> "", stamp |-> NoStamp, began |-> Clean(0)]

-----------------------------------------------------------------------------
(* sim_gate_integrity.py *)

parse_invoked_targets(m) == m.invoked
parse_target_to_suite(m, t) == m.label[t]

invoked_suites(m) ==
    {parse_target_to_suite(m, t) : t \in {u \in parse_invoked_targets(m) : m.label[u] # ""}}
scored(m) == m.scored \union m.sentinels
invoked_not_scored(m) == invoked_suites(m) \ scored(m)
scored_not_invoked(m) == scored(m) \ invoked_suites(m)

(* 2 when it cannot tell, 1 when the two sets differ. *)
integrity(m) ==
    IF ~m.lists \/ parse_invoked_targets(m) = {} \/ \E t \in m.invoked : m.label[t] = "" THEN 2
    ELSE IF invoked_not_scored(m) # {} \/ scored_not_invoked(m) # {} THEN 1 ELSE 0

-----------------------------------------------------------------------------
(* sim_gate_env_check.py *)

gate_bench_dirs(m) == invoked_suites(m)
bench_flists(s) == {BenchList[s]}

(* An include is followed only when the variable in its path is set. *)
included(fs) == {i.to : i \in {j \in Includes : j.from \in fs /\ (j.var = "" \/ j.var \in env.set)}}

(* The files reached from the seeds: those in every set that holds the     *)
(* seeds and what its members include.                                     *)
close_over_includes(seeds) ==
    {f \in Files : \A S \in SUBSET Files : seeds \subseteq S /\ included(S) \subseteq S => f \in S}

tokens_in(f) == Uses[f] \union ({i.var : i \in {j \in Includes : j.from = f}} \ {""})

closure(m) ==
    IF env.closure THEN close_over_includes(UNION {bench_flists(s) : s \in gate_bench_dirs(m)}) ELSE {}
required(m) == UNION {tokens_in(f) : f \in closure(m)}

(* The Makefile looks for the vendor's tree and the tools before it asks   *)
(* the script, which tells 2 from 1 as above.                              *)
env_check(m, t) ==
    IF ~env.xhb \/ ~env.tools THEN 1
    ELSE IF closure(m) = {} THEN 2
    ELSE IF \/ required(m) \ env.set # {}
            \/ ~env.subs
            \/ ~env.git \/ (GATE_STAMP(t).dirty /\ ~env.allow_dirty)
            \/ ~env.site
    THEN 1 ELSE 0

-----------------------------------------------------------------------------
(* The tree *)

Edit(part) ==
    /\ edits < MaxEdits /\ gate.pc # "done"
    /\ edits' = edits + 1
    /\ tree' = [tree EXCEPT ![part] = @ + 1]
    /\ UNCHANGED <<mk, env, gate, cur, st>>

Commit ==
    /\ edits < MaxEdits /\ gate.pc # "done" /\ GATE_STAMP(tree).dirty
    /\ edits' = edits + 1
    /\ tree' = Clean(tree.sha + 1)
    /\ UNCHANGED <<mk, env, gate, cur, st>>

Revert ==
    /\ gate.pc # "done" /\ GATE_STAMP(tree).dirty
    /\ tree' = Clean(tree.sha)
    /\ UNCHANGED <<mk, env, edits, gate, cur, st>>

-----------------------------------------------------------------------------
(* The gate *)

(* The stamp is taken when make reads the Makefile, before the checks. *)
Start ==
    /\ gate.pc = "off"
    /\ gate' = [gate EXCEPT !.pc = "checks", !.stamp = GATE_STAMP(tree)]
    /\ UNCHANGED <<mk, env, tree, edits, cur, st>>

fail(rc) == [gate EXCEPT !.pc = "done", !.rc = rc]

Integrity ==
    /\ gate.pc = "checks"
    /\ gate' = IF integrity(mk) = 0 THEN [gate EXCEPT !.pc = "env"] ELSE fail(integrity(mk))
    /\ UNCHANGED <<mk, env, tree, edits, cur, st>>

EnvCheck ==
    /\ gate.pc = "env"
    /\ gate' = IF env_check(mk, tree) = 0 THEN [gate EXCEPT !.pc = "selfcheck"] ELSE fail(env_check(mk, tree))
    /\ UNCHANGED <<mk, env, tree, edits, cur, st>>

(* The controls that show the checkers can go red. *)
SelfCheck(ok) ==
    /\ gate.pc = "selfcheck"
    /\ gate' = IF ok THEN [gate EXCEPT !.pc = "clean"] ELSE fail(1)
    /\ UNCHANGED <<mk, env, tree, edits, cur, st>>

(* The status files of earlier runs go, and the stamp is recorded. *)
emptied == [s \in Suites |-> MISS]
Record ==
    /\ gate.pc = "clean"
    /\ gate' = [gate EXCEPT !.pc = "suites", !.todo = mk.invoked, !.ref = gate.stamp]
    /\ st' = emptied
    /\ UNCHANGED <<mk, env, tree, edits, cur>>

(* A suite's make: its own stamp, then the build and the run. *)
SuiteStart(t) ==
    /\ gate.pc = "suites" /\ t \in gate.todo /\ cur.suite = ""
    /\ cur' = [suite |-> mk.label[t], stamp |-> GATE_STAMP(tree), began |-> tree]
    /\ gate' = [gate EXCEPT !.todo = @ \ {t}]
    /\ UNCHANGED <<mk, env, tree, edits, st>>

(* What the compiler reads for a suite, and whether it can: a variable     *)
(* left unset is a file that cannot be opened, and the suite dies at once. *)
compiled(s) ==
    {f \in Files : \A S \in SUBSET Files :
        BenchList[s] \in S /\ (\A i \in Includes : i.from \in S => i.to \in S) => f \in S}
launches(s) ==
    /\ env.xhb /\ env.tools /\ env.subs /\ env.site
    /\ UNION {tokens_in(f) : f \in compiled(s)} \subseteq env.set

sim_gate_run(ok) == IF ok THEN "PASS" ELSE "FAIL"

(* XCHG stands for XERR too: neither is the recorded defect. *)
sim_gate_sentinel(ok) == IF ok THEN "XFAIL" ELSE "XCHG"

(* The status file a run leaves, with the history of what it measured. *)
status(s, ok, stamp, began) ==
    [verdict |-> IF s \in mk.sentinels THEN sim_gate_sentinel(ok) ELSE sim_gate_run(ok),
     stamp |-> stamp, began |-> began, measured |-> launches(s)]

SuiteEnd(ok) ==
    /\ cur.suite # "" /\ (ok => launches(cur.suite))
    /\ st' = [st EXCEPT ![cur.suite] = status(cur.suite, ok, cur.stamp, cur.began)]
    /\ cur' = Nobody
    /\ UNCHANGED <<mk, env, tree, edits, gate>>

(* Someone runs one suite by hand while the gate is at work. *)
ByHand(s, ok) ==
    /\ gate.pc = "suites" /\ edits < MaxEdits /\ (ok => launches(s))
    /\ edits' = edits + 1
    /\ st' = [st EXCEPT ![s] = status(s, ok, GATE_STAMP(tree), tree)]
    /\ UNCHANGED <<mk, env, tree, gate, cur>>

-----------------------------------------------------------------------------
(* sim_gate_summary *)

bad(s) == st[s].verdict # (IF s \in mk.sentinels THEN "XFAIL" ELSE "PASS")

(* Faulty: the stamp of a status file is not looked at. *)
stale_never(s) == FALSE
stale(s) == st[s].verdict # "MISS" /\ st[s].stamp # gate.ref
drift == GATE_STAMP(tree) # gate.ref

summary_rc ==
    IF drift \/ \E s \in scored(mk) : stale(s) THEN 2
    ELSE IF \E s \in scored(mk) : bad(s) THEN 1 ELSE 0

Summary ==
    /\ gate.pc = "suites" /\ gate.todo = {} /\ cur.suite = ""
    /\ gate' = fail(summary_rc)
    /\ UNCHANGED <<mk, env, tree, edits, cur, st>>

Init ==
    /\ mk \in Makefiles /\ env \in Environs
    /\ tree = Clean(1) /\ edits = 0
    /\ gate = [pc |-> "off", stamp |-> NoStamp, ref |-> NoStamp, todo |-> {}, rc |-> 0]
    /\ cur = Nobody
    /\ st \in {[s \in Suites |-> MISS], [s \in Suites |-> Left]}

Next ==
    \/ \E p \in {"rtl", "fl"} : Edit(p)
    \/ Commit \/ Revert
    \/ Start \/ Integrity \/ EnvCheck \/ Record
    \/ \E ok \in BOOLEAN : SelfCheck(ok)
    \/ \E t \in mk.invoked : SuiteStart(t)
    \/ \E ok \in BOOLEAN : SuiteEnd(ok)
    \/ \E s \in Suites, ok \in BOOLEAN : ByHand(s, ok)
    \/ Summary

Spec == Init /\ [][Next]_vars

-----------------------------------------------------------------------------
(* ALL SUITES PASS at a clean stamp speaks of that commit: every suite the *)
(* gate invokes, scored or not, has a passing status (XFAIL for a known    *)
(* defect) of a run that began on the unedited commit, whatever was        *)
(* edited, committed, reverted or run by hand while the gate was at work.  *)
GreenIsThisTree ==
    gate.pc = "done" /\ gate.rc = 0 /\ ~gate.ref.dirty =>
        \A s \in invoked_suites(mk) : ~bad(s) /\ st[s].began = Clean(gate.ref.sha)

(* No suite of the gate records a FAIL because it could not be launched:   *)
(* the variables the check derives by following includes are those the     *)
(* compiler needs, also where an unset one keeps it from following.        *)
RedIsMeasured == gate.ref # NoStamp => \A s \in invoked_suites(mk) : st[s].measured

-----------------------------------------------------------------------------
(* Why they hold. *)

(* A status and a suite at work carry the stamp of the tree they began on. *)
Trees == [sha : Nat, rtl : Nat, fl : Nat]
StampsAreOwn ==
    /\ \A s \in Suites :
          st[s].verdict # "MISS" => st[s].began \in Trees /\ st[s].stamp = GATE_STAMP(st[s].began)
    /\ cur.suite # "" => cur.began \in Trees /\ cur.stamp = GATE_STAMP(cur.began)

(* What the checks found holds from then on. *)
Passed ==
    /\ gate.pc \in {"env", "selfcheck", "clean", "suites"} => integrity(mk) = 0
    /\ gate.pc \in {"selfcheck", "clean", "suites"} =>
          \A s \in invoked_suites(mk) : launches(s)
    /\ gate.pc \notin {"suites", "done"} => gate.ref = NoStamp
    /\ gate.pc # "suites" => cur.suite = ""

(* The summary saw every suite of the gate, and nothing moved since. *)
Scored ==
    gate.pc = "done" /\ gate.rc = 0 =>
        integrity(mk) = 0 /\ \A s \in scored(mk) : ~bad(s) /\ ~stale(s)

TypeOK ==
    /\ mk \in Makefiles /\ env \in Environs /\ tree \in Trees
    /\ DOMAIN st = Suites
    /\ gate = [pc |-> gate.pc, stamp |-> gate.stamp, ref |-> gate.ref, todo |-> gate.todo, rc |-> gate.rc]

IInv == TypeOK /\ StampsAreOwn /\ Passed /\ Scored /\ RedIsMeasured
=============================================================================

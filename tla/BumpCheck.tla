------------------------------ MODULE BumpCheck ------------------------------
(***************************************************************************)
(* scripts/ci/bump_check.py: a push is let through when every submodule    *)
(* pointer it moves has a landing verdict of the release manager, or a     *)
(* local run in which everything the move needs ran and passed.            *)
(*                                                                         *)
(* A push is a sequence of ranges, each with the moves git diff lists and  *)
(* the manifest at its tip; a range without a move is passed over and left *)
(* out.  The release manager answers what it likes, and may answer         *)
(* differently when asked again; a capability run locally ends as it       *)
(* likes, and its result is kept for the rest of the check.                *)
(***************************************************************************)
EXTENDS Integers, Sequences

CONSTANTS
    Pushes,     \* sequences of [base, tip, moves]; a move is [path, old, new]
    Manifests,  \* functions from tip to what load_manifest returns
    Subs,       \* functions from commit to the submodule's manifest there
    Checkouts,  \* functions from path to the commit that is checked out there
    MaxTier     \* --max-tier

VARIABLES
    arg,        \* the command line, the repository and the checkouts
    job,        \* the locals of check()
    ran,        \* results of local runs, by tip, owner and capability
    asked       \* history: the moves asked about and the answers

vars == <<arg, job, ran, asked>>

ZERO == "zero"
None == [caps |-> {}, comp |-> <<>>, ok |-> FALSE]
LANDS == {"PASS", "WARN"}
Verdicts == LANDS \union {"FAIL", "UNVERIFIED", "none"}

-----------------------------------------------------------------------------
(* What a move needs *)

(* Own capabilities an affected_by entry of which names the path, and the  *)
(* compose entries for it.                                                 *)
affected(man, path) ==
    [caps |-> {c \in man.caps : path \in c.hits},
     comp |-> SelectSeq(man.comp, LAMBDA e : e.path = path)]

runs_on_bump(c) == c.bump

(* The submodule's manifest, only from a checkout at the moved commit. *)
sub_manifest(path, commit) == IF arg.head[path] = commit THEN arg.subs[commit] ELSE None

(* A composed capability the moved tree does not declare is missing. *)
composed(entry, own, path) ==
    {[owner |-> path,
      cap |-> IF \E c \in own : c.id = i THEN CHOOSE c \in own : c.id = i
              ELSE [id |-> i, missing |-> TRUE]] : i \in entry.run}

run_set(man, path, sub) ==
    LET a == affected(man, path)
        entries == SelectSeq(a.comp, runs_on_bump)
    IN (CASE a.comp = <<>> ->
               {[owner |-> path, cap |-> c] :
                   c \in {d \in sub.caps : d.gate = "block" /\ runs_on_bump(d)}}
          [] a.comp # <<>> /\ entries = <<>> -> {}
          [] OTHER -> composed(Head(entries), sub.caps, path))
       \union {[owner |-> "", cap |-> c] : c \in {d \in a.caps : runs_on_bump(d)}}

missing(c) == "missing" \in DOMAIN c

-----------------------------------------------------------------------------
(* The check *)

range == arg.push[job.r]
moves == range.moves
move == moves[job.m]
manifest == arg.man[range.tip]
Start == [pc |-> "move", r |-> 1, m |-> 1, seen |-> {}, unresolved |-> 0,
          todo |-> {}, bad |-> 0, rc |-> 0]

(* On to the next move of the range, or to the first of the next range. *)
advance(j) ==
    LET more == j.m < Len(arg.push[j.r].moves)
        last == j.r = Len(arg.push)
    IN CASE more -> [j EXCEPT !.pc = "move", !.m = @ + 1]
         [] ~more /\ ~last -> [j EXCEPT !.pc = "move", !.r = @ + 1, !.m = 1]
         [] OTHER -> [j EXCEPT !.pc = "exit"]

unresolve(j) == advance([j EXCEPT !.unresolved = @ + 1])

(* A move to the commit another range already moved it to is not asked     *)
(* about again; a removed pointer has nothing to test.                     *)
Seen ==
    /\ job.pc = "move"
    /\ [path |-> move.path, new |-> move.new] \in job.seen \/ move.new = ZERO
    /\ job' = advance([job EXCEPT !.seen = @ \union {[path |-> move.path, new |-> move.new]}])
    /\ UNCHANGED <<arg, ran, asked>>

(* The verdict lands the move; without one a local run may, but a FAIL is  *)
(* never overridden by one.                                                *)
lands(verdict) == verdict \in LANDS

(* A FAIL of the release manager is never answered with a local run. *)
may_run_local(verdict) == arg.run_local /\ manifest.ok /\ verdict # "FAIL"

Ask(verdict) ==
    /\ job.pc = "move" /\ move.new # ZERO
    /\ [path |-> move.path, new |-> move.new] \notin job.seen
    /\ asked' = asked \union {[move |-> move, base |-> range.base, tip |-> range.tip, verdict |-> verdict]}
    /\ LET j == [job EXCEPT !.seen = @ \union {[path |-> move.path, new |-> move.new]}]
           sub == sub_manifest(move.path, move.new)
           todo == run_set(manifest, move.path, sub)
       IN job' = (CASE lands(verdict) -> advance(j)
                    [] ~lands(verdict) /\ may_run_local(verdict) /\ todo # {} ->
                         [j EXCEPT !.pc = "run", !.todo = todo, !.bad = IF sub.ok THEN 0 ELSE 1]
                    [] OTHER -> unresolve(j))
    /\ UNCHANGED <<arg, ran>>

(* The local runs, in any order: they share nothing but what is kept. *)
key(item) == [tip |-> range.tip, owner |-> item.owner, id |-> item.cap.id]

(* Not run is not passed, except that gate: report holds nothing up. *)
skipped(c) == IF missing(c) THEN FALSE ELSE c.gate # "block"
not_run(c) == IF missing(c) THEN TRUE ELSE c.tier > MaxTier \/ (c.regen /\ ~arg.gen_ok)

(* Exit status, forbidden and required text; rows are the release          *)
(* manager's to judge, so a capability that declares them never passes.    *)
run_capability(c, end) == c.cmd /\ end = "ok" /\ ~c.rows

next_item(item, n) ==
    LET j == [job EXCEPT !.todo = @ \ {item}, !.bad = @ + n]
    IN CASE j.todo # {} -> j
         [] j.todo = {} /\ j.bad = 0 -> advance(j)
         [] OTHER -> unresolve([j EXCEPT !.bad = 0])

(* What cannot be run here counts as one that failed. *)
not_run_cost == 1

Skip(item) ==
    /\ job.pc = "run" /\ skipped(item.cap)
    /\ job' = next_item(item, 0)
    /\ UNCHANGED <<arg, ran, asked>>

NotRun(item) ==
    /\ job.pc = "run" /\ ~skipped(item.cap) /\ not_run(item.cap)
    /\ job' = next_item(item, not_run_cost)
    /\ UNCHANGED <<arg, ran, asked>>

Run(item, end) ==
    /\ job.pc = "run" /\ ~skipped(item.cap) /\ ~not_run(item.cap)
    /\ key(item) \in DOMAIN ran => end = "ok"
    /\ LET ok == IF key(item) \in DOMAIN ran THEN ran[key(item)] ELSE run_capability(item.cap, end)
       IN /\ ran' = [k \in DOMAIN ran \union {key(item)} |-> IF k = key(item) THEN ok ELSE ran[k]]
          /\ job' = next_item(item, IF ok THEN 0 ELSE 1)
    /\ UNCHANGED <<arg, asked>>

Exit ==
    /\ job.pc = "exit"
    /\ job' = [job EXCEPT !.pc = "done", !.rc = IF job.unresolved = 0 \/ arg.mode = "warn" THEN 0 ELSE 1]
    /\ UNCHANGED <<arg, ran, asked>>

(* main catches what check raises: git, the network, a manifest. *)
Raise ==
    /\ job.pc \in {"move", "run"}
    /\ job' = [job EXCEPT !.pc = "done", !.rc = IF arg.mode = "warn" THEN 0 ELSE 1]
    /\ UNCHANGED <<arg, ran, asked>>

Init ==
    /\ arg \in [push : Pushes, man : Manifests, subs : Subs,
                head : Checkouts,
                mode : {"warn", "block"}, run_local : BOOLEAN, gen_ok : BOOLEAN]
    /\ job = Start /\ ran = <<>> /\ asked = {}

Next ==
    \/ Seen
    \/ \E v \in Verdicts : Ask(v)
    \/ \E item \in job.todo : Skip(item) \/ NotRun(item)
    \/ \E item \in job.todo, e \in {"ok", "exit", "timeout", "forbidden", "too_few"} : Run(item, e)
    \/ Exit
    \/ Raise

Spec == Init /\ [][Next]_vars

-----------------------------------------------------------------------------
(* The blocking capabilities a move needs at a tip, from the manifests     *)
(* alone; the manifest of the moved tree must be the moved commit's.       *)
Blocking(tip, mv) ==
    {x \in run_set(arg.man[tip], mv.path, arg.subs[mv.new]) : missing(x.cap) \/ x.cap.gate = "block"}

Ran(tip, mv) ==
    /\ arg.head[mv.path] = mv.new /\ arg.subs[mv.new].ok /\ arg.man[tip].ok
    /\ \A x \in Blocking(tip, mv) :
          LET k == [tip |-> tip, owner |-> x.owner, id |-> x.cap.id]
          IN k \in DOMAIN ran /\ ran[k]

(* Someone answers for exactly this move of range r, from the range's base *)
(* to its tip: the release manager when it was asked, or a local run at    *)
(* that tip which its FAIL did not forbid.                                 *)
Answered(r, mv) ==
    \E a \in asked :
        /\ a.move = mv /\ a.base = arg.push[r].base /\ a.tip = arg.push[r].tip
        /\ a.verdict \in LANDS \/ (a.verdict # "FAIL" /\ Ran(a.tip, mv))

(* An earlier move of the push takes the pointer to the same commit. *)
SameTarget(r, m, q, n) ==
    LET mv == arg.push[r].moves[m]
        w == arg.push[q].moves[n]
    IN w.path = mv.path /\ w.new = mv.new
Again(r, m) ==
    \E q \in 1 .. r : \E n \in 1 .. Len(arg.push[q].moves) :
        (q < r \/ n < m) /\ SameTarget(r, m, q, n)

BackedAt(r, m) ==
    LET mv == arg.push[r].moves[m] IN mv.new = ZERO \/ Again(r, m) \/ Answered(r, mv)

(* In a push that the blocking check lets through, the first move of a     *)
(* pointer to a commit is backed as that very move: from its own base and  *)
(* commit the release manager answered PASS or WARN, or it did not answer  *)
(* FAIL and every blocking capability of the tree at the range's tip and   *)
(* of the moved tree ran on the moved commit and passed, whatever was      *)
(* checked before.  A later range that moves the pointer to that commit    *)
(* from elsewhere is let through on the first one's answer: check() asks   *)
(* once for a path and a commit, although a verdict is one for its base.   *)
LandedIsBacked ==
    job.pc = "done" /\ arg.mode = "block" /\ job.rc = 0 =>
        \A r \in 1 .. Len(arg.push) : \A m \in 1 .. Len(arg.push[r].moves) : BackedAt(r, m)

-----------------------------------------------------------------------------
(* Why it holds. *)

TypeOK ==
    /\ arg.push \in Pushes
    /\ job = [pc |-> job.pc, r |-> job.r, m |-> job.m, seen |-> job.seen, unresolved |-> job.unresolved,
               todo |-> job.todo, bad |-> job.bad, rc |-> job.rc]
    /\ job.pc \in {"move", "run", "exit", "done"}
    /\ job.r \in 1 .. Len(arg.push) /\ job.m \in 1 .. Len(moves)
    /\ job.unresolved \in Nat /\ job.bad \in Nat

(* With nothing left unresolved, every move so far is backed; what was     *)
(* seen is the target of a move so far, or of the one whose checks run.    *)
Behind(r, m) == r < job.r \/ (r = job.r /\ m < job.m) \/ job.pc = "exit"
SoFarBacked ==
    job.pc # "done" /\ job.unresolved = 0 =>
        \A r \in 1 .. Len(arg.push) : \A m \in 1 .. Len(arg.push[r].moves) :
            Behind(r, m) => BackedAt(r, m)
Target(k, r, m) == k.path = arg.push[r].moves[m].path /\ k.new = arg.push[r].moves[m].new
SeenBefore ==
    \A k \in job.seen :
        \E r \in 1 .. job.r : \E m \in 1 .. Len(arg.push[r].moves) :
            (r < job.r \/ m < job.m \/ (m = job.m /\ job.pc # "move")) /\ Target(k, r, m)

(* While a move's checks are run and none has failed, every blocking one   *)
(* has passed or is still to run.                                          *)
AtWork ==
    job.pc = "run" =>
        /\ move.new # ZERO /\ manifest.ok
        /\ \E a \in asked : a.move = move /\ a.base = range.base /\ a.tip = range.tip /\ a.verdict # "FAIL"
        /\ job.bad = 0 =>
              /\ arg.head[move.path] = move.new /\ arg.subs[move.new].ok
              /\ \A x \in Blocking(range.tip, move) :
                    x \in job.todo \/ (key(x) \in DOMAIN ran /\ ran[key(x)])

IInv == TypeOK /\ SoFarBacked /\ SeenBefore /\ AtWork /\ LandedIsBacked
=============================================================================

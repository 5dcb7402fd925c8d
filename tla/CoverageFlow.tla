---------------------------- MODULE CoverageFlow ----------------------------
(***************************************************************************)
(* The coverage artifact flow (scripts/coverage): cov_identity records     *)
(* what went in, cov_pack.sh merges the databases the suites left on disk  *)
(* and cov_report summarises them, cov_publish uploads the artifact and    *)
(* promotes a baseline, cov_diff compares two artifacts.  The developer    *)
(* edits the tree and runs suites at any time.                             *)
(***************************************************************************)
EXTENDS Naturals, FiniteSets

CONSTANTS
    Suites,     \* the expected suites
    Commits,    \* 1 .. n
    MaxArts,    \* artifacts packed
    MaxEdits    \* moves of the tree

VARIABLES
    tree,       \* the work tree: commit, dirty, the generated bridge's state, SCOPE.txt
    edits,
    status,     \* by suite: it has a .status file (PASS or FAIL)
    vdb,        \* by suite: the tree its database on disk was measured on
    man,        \* the manifest cov_pack.sh is assembling
    arts,       \* artifacts, by run tag
    store,      \* by run tag: files uploaded to verif-coverage
    pub,        \* the publisher: run tag, files still to upload, promote or not
    builds, baseline    \* run tags with a build record; promoted

vars == <<tree, edits, status, vdb, man, arts, store, pub, builds, baseline>>

None == [tag |-> 0]
Tags == 1 .. MaxArts
Parts == {"merged", "report"}

Init ==
    /\ tree = [commit |-> 1, dirty |-> FALSE, xhb |-> 1, scope |-> 1] /\ edits = 0
    /\ status = [s \in Suites |-> "none"] /\ vdb = [s \in Suites |-> {}]
    /\ man = None /\ arts = [t \in {} |-> None]
    /\ store = [t \in Tags |-> {}] /\ pub = None /\ builds = {} /\ baseline = {}

-----------------------------------------------------------------------------
(* The developer. *)
Edit ==
    /\ edits < MaxEdits /\ edits' = edits + 1
    /\ tree' \in {[tree EXCEPT !.dirty = TRUE], [tree EXCEPT !.xhb = 3 - @],
                  [tree EXCEPT !.dirty = FALSE, !.scope = 3 - @]}
                 \cup {[tree EXCEPT !.commit = c, !.dirty = FALSE] : c \in Commits}
    /\ UNCHANGED <<status, vdb, man, arts, store, pub, builds, baseline>>

(* A suite of the gate runs: its status is written, and its database,      *)
(* unless it was built without coverage or died.                           *)
RunSuite(s) ==
    /\ man = None
    /\ status' = [status EXCEPT ![s] = "run"]
    /\ vdb' \in {vdb, [vdb EXCEPT ![s] = {tree}]}
    /\ UNCHANGED <<tree, edits, man, arts, store, pub, builds, baseline>>

-----------------------------------------------------------------------------
(* cov_identity *)

(* git_identity: clean only if both git calls succeeded and the status is  *)
(* empty.                                                                  *)
tree_state(ok) == IF ~ok THEN "unverified" ELSE IF tree.dirty THEN "dirty" ELSE "clean"

(* R4: no id for an incomplete closure or a dirty tree.  The bridge enters *)
(* with the digest recorded in the repository, not with its own.           *)
closure_id(ts) == IF ts = "clean" THEN <<tree.commit, tree.scope>> ELSE <<>>

verdicts == {s \in Suites : status[s] # "none"}

(* R3: promotable only if nothing is unverified and the tree is clean.     *)
promotable(ts) == ts = "clean" /\ closure_id(ts) # <<>> /\ verdicts = Suites

PackIdentity ==
    /\ man = None /\ Cardinality(DOMAIN arts) < MaxArts /\ \E s \in Suites : vdb[s] # {}
    /\ \E ok \in BOOLEAN :
         man' = [tag |-> Cardinality(DOMAIN arts) + 1, closure |-> closure_id(tree_state(ok)),
                 promotable |-> promotable(tree_state(ok)), scope |-> tree.scope,
                 real |-> [tree |-> tree, ok |-> ok]]
    /\ UNCHANGED <<tree, edits, status, vdb, arts, store, pub, builds, baseline>>

-----------------------------------------------------------------------------
(* cov_report: the canonical summary.  A merge is complete when every      *)
(* expected suite has a verdict.                                           *)
completeness == IF verdicts = Suites THEN "complete" ELSE "partial"
canonical_body == [s \in {x \in Suites : vdb[x] # {}} |-> vdb[s]]

(* cov_pack.sh merges whatever databases are on disk; a failed urg ends it *)
(* without a manifest.                                                     *)
PackMerge ==
    /\ man # None
    /\ \/ arts' = arts
       \/ arts' = [t \in DOMAIN arts \cup {man.tag} |->
                     IF t # man.tag THEN arts[t]
                     ELSE [closure |-> man.closure, scope |-> man.scope, real |-> man.real,
                           coverage |-> canonical_body, completeness |-> completeness,
                           promotable |-> man.promotable /\ completeness = "complete",
                           intact |-> TRUE]]
    /\ man' = None
    /\ UNCHANGED <<tree, edits, status, vdb, store, pub, builds, baseline>>

(* Something changes the artifact's files after the manifest was written.  *)
Tamper(t) ==
    /\ pub = None /\ t \in DOMAIN arts /\ arts[t].intact
    /\ arts' = [arts EXCEPT ![t].intact = FALSE]
    /\ UNCHANGED <<tree, edits, status, vdb, man, store, pub, builds, baseline>>

-----------------------------------------------------------------------------
(* cov_publish *)

(* verify_digests: bytes and manifest agree, and nothing else is there.    *)
verify_digests(t) == arts[t].intact

PublishStart(t, promote) ==
    /\ pub = None /\ t \in DOMAIN arts /\ verify_digests(t)
    /\ pub' = [tag |-> t, todo |-> Parts \cup {"manifest"}, promote |-> promote]
    /\ UNCHANGED <<tree, edits, status, vdb, man, arts, store, builds, baseline>>

(* plan: the files in order, the manifest last.  A deploy that fails ends  *)
(* the program.                                                            *)
plan == IF pub.todo = {"manifest"} THEN pub.todo ELSE {CHOOSE f \in pub.todo \ {"manifest"} : TRUE}

Deploy ==
    /\ pub # None /\ pub.todo # {}
    /\ \/ \E f \in plan : /\ store' = [store EXCEPT ![pub.tag] = @ \cup {f}]
                          /\ pub' = [pub EXCEPT !.todo = @ \ {f}]
       \/ pub' = None /\ UNCHANGED store
    /\ UNCHANGED <<tree, edits, status, vdb, man, arts, builds, baseline>>

(* The build record, then do_promote, which refuses what is not            *)
(* promotable; either call may fail.                                       *)
do_promote(t) == arts[t].promotable

BuildAndPromote ==
    /\ pub # None /\ pub.todo = {}
    /\ pub' = None
    /\ \/ UNCHANGED <<builds, baseline>>
       \/ /\ builds' = builds \cup {pub.tag}
          /\ baseline' \in {baseline} \cup (IF pub.promote /\ do_promote(pub.tag)
                                            THEN {baseline \cup {pub.tag}} ELSE {})
    /\ UNCHANGED <<tree, edits, status, vdb, man, arts, store>>

-----------------------------------------------------------------------------
(* cov_diff *)

refusals(a) == a.completeness # "complete"

cell_2x2(b, h) ==
    LET same == b.coverage = h.coverage
    IN IF b.closure = <<>> \/ h.closure = <<>> THEN "UNKNOWN-CLOSURE"
       ELSE IF b.closure = h.closure
            THEN IF same THEN "REPLICATE" ELSE "NONDETERMINISM"
            ELSE IF same THEN "INERT" ELSE "ORDINARY"

(* A module whose metric dropped or vanished, or newly unexercised.        *)
Regressed(b, h) == ~(DOMAIN b.coverage \subseteq DOMAIN h.coverage)

compare(b, h) ==
    IF refusals(b) \/ refusals(h) THEN "REFUSED"
    ELSE IF Regressed(b, h) THEN "REGRESSED"
    ELSE IF cell_2x2(b, h) \in {"NONDETERMINISM", "UNKNOWN-CLOSURE"} \/ b.scope # h.scope THEN "REVIEW"
    ELSE "PASS"

Next ==
    \/ Edit \/ PackIdentity \/ PackMerge \/ Deploy \/ BuildAndPromote
    \/ \E s \in Suites : RunSuite(s)
    \/ \E t \in Tags : Tamper(t)
    \/ \E t \in Tags, p \in BOOLEAN : PublishStart(t, p)

Spec == Init /\ [][Next]_vars

-----------------------------------------------------------------------------
(* A run's manifest is in the store only over all of its files, however    *)
(* often a publish failed half way; a promoted run is whole there, has a   *)
(* build record, and was packed from a tree git called clean.              *)
StoreWhole ==
    /\ \A t \in Tags : "manifest" \in store[t] => Parts \subseteq store[t]
    /\ \A t \in baseline : /\ t \in builds /\ "manifest" \in store[t]
                           /\ arts[t].real.ok /\ ~arts[t].real.tree.dirty
                           /\ arts[t].completeness = "complete"

(* Whenever cov_diff passes two artifacts, their trees were read and clean *)
(* when they were packed and their scope is the same.                      *)
PassIsAnchored ==
    \A b, h \in DOMAIN arts : compare(arts[b], arts[h]) = "PASS" =>
        \A a \in {arts[b], arts[h]} :
            a.real.ok /\ ~a.real.tree.dirty /\ a.real.tree.scope = arts[b].real.tree.scope

-----------------------------------------------------------------------------
(* Why they hold. *)

(* Artifacts are numbered in turn, and one more may be on its way. *)
Numbered ==
    \E n \in 0 .. MaxArts :
        /\ DOMAIN arts = 1 .. n
        /\ man # None => man.tag = n + 1 /\ n < MaxArts

(* What cov_identity says of the tree is so: a closure was given to a      *)
(* clean one only.                                                         *)
Honest(m) ==
    /\ m.closure # <<>> => m.real.ok /\ ~m.real.tree.dirty
    /\ m.promotable => m.closure # <<>>
    /\ m.scope = m.real.tree.scope

ArtsOK ==
    /\ man # None => Honest(man)
    /\ \A t \in DOMAIN arts :
        /\ DOMAIN arts[t] = {"closure", "scope", "real", "coverage", "completeness", "promotable", "intact"}
        /\ Honest(arts[t]) /\ (arts[t].promotable => arts[t].completeness = "complete")

(* What the publisher has left to do is all that is missing. *)
Publishing ==
    /\ DOMAIN store = Tags /\ baseline \subseteq DOMAIN arts
    /\ pub # None =>
        /\ DOMAIN pub = {"tag", "todo", "promote"} /\ pub.tag \in DOMAIN arts
        /\ pub.todo \subseteq Parts \cup {"manifest"}
        /\ (Parts \cup {"manifest"}) \ pub.todo \subseteq store[pub.tag]
        /\ pub.todo # {} => "manifest" \in pub.todo

IInv == Numbered /\ ArtsOK /\ Publishing /\ StoreWhole
=============================================================================

--------------------------- MODULE ArtifactStore ---------------------------
(***************************************************************************)
(* td_artifact.py: bitstreams stored under the hash of the master's bytes, *)
(* labels as symbolic links to them, deployment by label or by hash.       *)
(*                                                                         *)
(* The store is a directory several agents use at once, with no lock: each *)
(* file operation of a command is a step, a command may be killed after    *)
(* any of them, and a stored file may rot on the disk.  A build is its     *)
(* master's and its slave's bytes, and comes with its hardware handoff     *)
(* files; bytes stand for their hash.  A file is copied in one step.       *)
(* What results.jsonl says (record, show) and what a command prints are    *)
(* left out.                                                               *)
(***************************************************************************)
EXTENDS Integers, FiniteSets

CONSTANTS
    Agents, Labels,
    Builds,     \* records [m, s]: the bytes of a build's two bitstreams
    MaxCmds,    \* bound: commands of a behaviour
    MaxRot      \* bound: files that rot

VARIABLES
    blobs,      \* blobs/<sha>: its files, and "." for the directory itself
    incoming,   \* blobs/<sha>.incoming
    tags,       \* tags/<label>: the sha its link names
    index,      \* index.json: the sha of each label
    tmp,        \* index.json.tmp, the same for every agent
    boards,     \* the bytes each board was flashed with
    proc,       \* the command each agent runs
    dep,        \* what it has deployed, of what
    cmds, rot

vars == <<blobs, incoming, tags, index, tmp, boards, proc, dep, cmds, rot>>

dirVars == <<blobs, incoming>>
indexVars == <<index, tmp>>
boundVars == <<cmds, rot>>

Shas == {b.m : b \in Builds}
None == "none"
Files == {"m", "s", "man", "log", "side_m", "side_s"}
Absent == [f \in Files \cup {"."} |-> None]
There(dir) == dir["."] # None
Present(dir) == {f \in Files : dir[f] # None}

NoIndex == [l \in Labels |-> None]
NoDeploy == [sha |-> None, s |-> None, bin |-> "m", got_m |-> None, got_s |-> None, rc |-> 9, stale |-> FALSE]
Idle == [pc |-> "idle", sha |-> None, slave |-> None, label |-> None, shas |-> {}, todo |-> {}, idx |-> NoIndex]

At(a, pc) == proc[a].pc = pc
Goto(a, pc) == proc' = [proc EXCEPT ![a].pc = pc] /\ UNCHANGED dep

(* A command ends, with a deployment or without: die(), an exception       *)
(* nobody catches, or its last line.                                       *)
Exit(a, d) == proc' = [proc EXCEPT ![a] = Idle] /\ dep' = [dep EXCEPT ![a] = d]
End(a) == Exit(a, NoDeploy)

Start(a) == At(a, "idle") /\ cmds < MaxCmds /\ cmds' = cmds + 1 /\ UNCHANGED rot
Begin(a, locals) == proc' = [proc EXCEPT ![a] = locals] /\ dep' = [dep EXCEPT ![a] = NoDeploy]

-----------------------------------------------------------------------------
(* add *)

CmdAdd(a) ==
    /\ Start(a)
    /\ \E b \in Builds, l \in Labels :
        Begin(a, [Idle EXCEPT !.pc = IF There(blobs[b.m]) THEN "recheck" ELSE "clear",
                              !.sha = b.m, !.slave = b.s, !.label = l])
    /\ UNCHANGED <<dirVars, tags, indexVars, boards>>

(* The blob exists: its master is hashed again, if it is there. *)
Recheck(a) ==
    /\ At(a, "recheck")
    /\ IF blobs[proc[a].sha]["m"] \in {None, proc[a].sha} THEN Goto(a, "untag") ELSE End(a)
    /\ UNCHANGED <<dirVars, tags, indexVars, boards, boundVars>>

(* What another add left in the staging directory is removed. *)
Clear(a) ==
    /\ At(a, "clear")
    /\ LET dir == incoming[proc[a].sha] IN
        IF There(dir) THEN proc' = [proc EXCEPT ![a].pc = "rm_incoming", ![a].todo = Present(dir)] /\ UNCHANGED dep
        ELSE Goto(a, "mkdir")
    /\ UNCHANGED <<dirVars, tags, indexVars, boards, boundVars>>

(* shutil.rmtree: the files it has listed, then the directory, if nothing  *)
(* was added meanwhile; what has gone by itself ends the command.          *)
RmOutcomes(a, dir, next) ==
    LET p == proc[a] IN
    {IF dir[f] # None
       THEN [dir |-> [dir EXCEPT ![f] = None], proc |-> [p EXCEPT !.todo = @ \ {f}]]
       ELSE [dir |-> dir, proc |-> Idle] : f \in p.todo}
    \cup IF p.todo # {} THEN {}
         ELSE IF There(dir) /\ Present(dir) = {} THEN {[dir |-> Absent, proc |-> [p EXCEPT !.pc = next]]}
         ELSE {[dir |-> dir, proc |-> Idle]}

RemoveStaging(a) ==
    /\ At(a, "rm_incoming")
    /\ \E o \in RmOutcomes(a, incoming[proc[a].sha], "mkdir") :
        /\ incoming' = [incoming EXCEPT ![proc[a].sha] = o.dir]
        /\ proc' = [proc EXCEPT ![a] = o.proc]
    /\ UNCHANGED <<blobs, dep, tags, indexVars, boards, boundVars>>

Makedirs(a) ==
    /\ At(a, "mkdir")
    /\ LET sha == proc[a].sha IN
        IF There(incoming[sha]) THEN End(a) /\ UNCHANGED incoming
        ELSE incoming' = [incoming EXCEPT ![sha]["."] = "dir"] /\ Goto(a, "m")
    /\ UNCHANGED <<blobs, tags, indexVars, boards, boundVars>>

(* Master, slave, manifest and an empty log of results; the manifest of a  *)
(* build without a slave names none.  A directory that is gone ends the    *)
(* command.                                                                *)
Content(p, f) ==
    CASE f = "m" -> p.sha
      [] f = "s" -> p.slave
      [] f = "man" -> IF p.slave = None THEN "unpaired" ELSE p.slave
      [] f = "log" -> "log"

Copy(a, f) ==
    /\ At(a, f)
    /\ LET sha == proc[a].sha IN
        IF There(incoming[sha])
          THEN /\ incoming' = [incoming EXCEPT ![sha][f] = Content(proc[a], f)]
               /\ Goto(a, CASE f = "m" -> "s" [] f = "s" -> "man" [] f = "man" -> "log" [] f = "log" -> "rename")
          ELSE End(a) /\ UNCHANGED incoming
    /\ UNCHANGED <<blobs, tags, indexVars, boards, boundVars>>

(* Faulty: the staged directory takes the place of what is there. *)
RenamesOver(sha) == There(incoming[sha])

(* A rename onto a directory that is not empty fails. *)
Renames(sha) == There(incoming[sha]) /\ Present(blobs[sha]) = {}

Rename(a) ==
    /\ At(a, "rename")
    /\ LET sha == proc[a].sha IN
        IF Renames(sha)
          THEN /\ blobs' = [blobs EXCEPT ![sha] = incoming[sha]]
               /\ incoming' = [incoming EXCEPT ![sha] = Absent]
               /\ Goto(a, "untag")
          ELSE End(a) /\ UNCHANGED dirVars
    /\ UNCHANGED <<tags, indexVars, boards, boundVars>>

(* _retag: the link is removed, then made again. *)
Unlink(a) ==
    /\ At(a, "untag") /\ Goto(a, "link")
    /\ tags' = [tags EXCEPT ![proc[a].label] = None]
    /\ UNCHANGED <<dirVars, indexVars, boards, boundVars>>

Symlink(a) ==
    /\ At(a, "link")
    /\ IF tags[proc[a].label] = None
         THEN tags' = [tags EXCEPT ![proc[a].label] = proc[a].sha] /\ Goto(a, "read_index")
         ELSE End(a) /\ UNCHANGED tags
    /\ UNCHANGED <<dirVars, indexVars, boards, boundVars>>

-----------------------------------------------------------------------------
(* The index, for add, untag and list. *)

(* untag leaves an index alone that does not have its label. *)
ReadIndex(a) ==
    /\ At(a, "read_index")
    /\ LET p == proc[a] IN
        IF p.sha = None /\ index[p.label] = None THEN End(a)
        ELSE /\ proc' = [proc EXCEPT ![a].pc = "write_tmp", ![a].idx = [index EXCEPT ![p.label] = p.sha]]
             /\ UNCHANGED dep
    /\ UNCHANGED <<dirVars, tags, indexVars, boards, boundVars>>

WriteTmp(a) ==
    /\ At(a, "write_tmp") /\ Goto(a, "replace")
    /\ tmp' = {proc[a].idx}
    /\ UNCHANGED <<dirVars, tags, index, boards, boundVars>>

(* Whoever comes second finds no file to move. *)
Replace(a) ==
    /\ At(a, "replace") /\ End(a)
    /\ IF tmp = {} THEN UNCHANGED indexVars
       ELSE index' \in tmp /\ tmp' = {}
    /\ UNCHANGED <<dirVars, tags, boards, boundVars>>

CmdUntag(a) ==
    /\ Start(a)
    /\ \E l \in Labels :
        IF tags[l] = None THEN End(a) /\ UNCHANGED tags
        ELSE /\ tags' = [tags EXCEPT ![l] = None]
             /\ Begin(a, [Idle EXCEPT !.pc = "read_index", !.label = l])
    /\ UNCHANGED <<dirVars, indexVars, boards>>

CmdList(a) ==
    /\ Start(a)
    /\ Begin(a, [Idle EXCEPT !.pc = "reconcile", !.idx = index])
    /\ UNCHANGED <<dirVars, tags, indexVars, boards>>

(* _reconcile_index: labels whose link is gone are dropped. *)
Reconcile(a) ==
    /\ At(a, "reconcile")
    /\ LET stale == {l \in Labels : proc[a].idx[l] # None /\ tags[l] = None} IN
        IF stale = {} THEN End(a)
        ELSE /\ proc' = [proc EXCEPT ![a].pc = "write_tmp",
                                     ![a].idx = [l \in Labels |-> IF l \in stale THEN None ELSE @[l]]]
             /\ UNCHANGED dep
    /\ UNCHANGED <<dirVars, tags, indexVars, boards, boundVars>>

-----------------------------------------------------------------------------
(* gc: without --force nothing is removed, which is no command here. *)

CmdGc(a) ==
    /\ Start(a)
    /\ Begin(a, [Idle EXCEPT !.pc = "gc", !.shas = {tags[l] : l \in Labels} \ {None}])
    /\ UNCHANGED <<dirVars, tags, indexVars, boards>>

GcOrphans(a) ==
    /\ At(a, "gc")
    /\ proc' = [proc EXCEPT ![a].pc = "reap", ![a].shas = {s \in Shas : There(blobs[s])} \ @]
    /\ UNCHANGED <<dep, dirVars, tags, indexVars, boards, boundVars>>

Reap(a) ==
    /\ At(a, "reap")
    /\ IF proc[a].shas = {} THEN End(a)
       ELSE \E s \in proc[a].shas :
            /\ proc' = [proc EXCEPT ![a].pc = "rm_blob", ![a].sha = s, ![a].shas = @ \ {s},
                                    ![a].todo = Present(blobs[s])]
            /\ UNCHANGED dep
    /\ UNCHANGED <<dirVars, tags, indexVars, boards, boundVars>>

(* A deployment that has checked a file and not yet copied it has not seen *)
(* the change.                                                             *)
Behind(sha) ==
    dep' = [b \in Agents |-> IF proc[b].pc \in {"load_m", "load_s"} /\ dep[b].sha = sha
                               THEN [dep[b] EXCEPT !.stale = TRUE] ELSE dep[b]]

RemoveBlob(a) ==
    /\ At(a, "rm_blob") /\ Behind(proc[a].sha)
    /\ \E o \in RmOutcomes(a, blobs[proc[a].sha], "reap") :
        /\ blobs' = [blobs EXCEPT ![proc[a].sha] = o.dir]
        /\ proc' = [proc EXCEPT ![a] = o.proc]
    /\ UNCHANGED <<incoming, tags, indexVars, boards, boundVars>>

-----------------------------------------------------------------------------
(* deploy and verify *)

Refs == Labels \cup Shas

(* The directory of that name, the label's, or the one whose name begins   *)
(* with the reference: a hash also finds its own staging directory.        *)
ShaOf(ref) == IF ref \in Shas THEN ref ELSE tags[ref]
Resolve(ref) ==
    IF ShaOf(ref) = None THEN Absent
    ELSE IF ref \in Shas /\ ~There(blobs[ref]) THEN incoming[ref]
    ELSE blobs[ShaOf(ref)]

(* A staging directory's name is not the hash of what is in it. *)
CmdDeploy(a) ==
    /\ Start(a)
    /\ \E ref \in Refs :
        IF ShaOf(ref) # None /\ There(blobs[ShaOf(ref)])
          THEN /\ proc' = [proc EXCEPT ![a] = [Idle EXCEPT !.pc = "read_manifest"]]
               /\ dep' = [dep EXCEPT ![a] = [NoDeploy EXCEPT !.sha = ShaOf(ref)]]
          ELSE End(a)
    /\ UNCHANGED <<dirVars, tags, indexVars, boards>>

ReadManifest(a) ==
    /\ At(a, "read_manifest")
    /\ LET man == blobs[dep[a].sha]["man"] IN
        dep' = [dep EXCEPT ![a].s = IF man = "unpaired" THEN None ELSE man]
    /\ proc' = [proc EXCEPT ![a].pc = "rehash"]
    /\ UNCHANGED <<dirVars, tags, indexVars, boards, boundVars>>

Rehash(a) ==
    /\ At(a, "rehash")
    /\ IF blobs[dep[a].sha]["m"] = dep[a].sha THEN Goto(a, "side_m") ELSE End(a)
    /\ UNCHANGED <<dirVars, tags, indexVars, boards, boundVars>>

(* _write_sidecar_manifest for the master, then for a slave the manifest   *)
(* names; a dry run ends here.                                             *)
WriteSidecar(a, f) ==
    /\ At(a, f)
    /\ LET d == dep[a] IN
        IF f = "side_s" /\ d.s = None THEN Goto(a, "guard_m") /\ UNCHANGED blobs
        ELSE IF ~There(blobs[d.sha]) THEN End(a) /\ UNCHANGED blobs
        ELSE /\ blobs' = [blobs EXCEPT ![d.sha][f] = IF f = "side_m" THEN d.sha ELSE d.s]
             /\ \/ f = "side_m" /\ Goto(a, "side_s")
                \/ f = "side_s" /\ (Goto(a, "guard_m") \/ End(a))
    /\ UNCHANGED <<incoming, tags, indexVars, boards, boundVars>>

(* deploy_pair.sh: a directory without a flip gives both boards its one    *)
(* bitstream; the bytes must match the hash given, or else the sidecar's;  *)
(* with neither the script refuses.                                        *)
Bin(blob, which) == IF which = "m" \/ (blob["m"] # None /\ blob["s"] = None) THEN "m" ELSE "s"

Expected(blob, bin, expect) ==
    IF expect # None THEN expect ELSE IF bin = "m" THEN blob["side_m"] ELSE blob["side_s"]

(* Faulty: what is staged is what is flashed. *)
GuardOff(blob, which, expect) == blob[Bin(blob, which)] # None

Guarded(blob, which, expect) ==
    /\ blob[Bin(blob, which)] # None
    /\ blob[Bin(blob, which)] = Expected(blob, Bin(blob, which), expect)

(* The next board is deployed whatever the first one came to, and the      *)
(* command's status is the last failure.                                   *)
Board(a, which, d) ==
    IF which = "m" THEN proc' = [proc EXCEPT ![a].pc = "guard_s"] /\ dep' = [dep EXCEPT ![a] = d] ELSE Exit(a, d)

Guard(a, which) ==
    /\ At(a, IF which = "m" THEN "guard_m" ELSE "guard_s")
    /\ LET d == dep[a]
           blob == blobs[d.sha]
       IN  IF Guarded(blob, which, IF which = "m" THEN d.sha ELSE d.s)
             THEN /\ proc' = [proc EXCEPT ![a].pc = IF which = "m" THEN "load_m" ELSE "load_s"]
                  /\ dep' = [dep EXCEPT ![a] = [d EXCEPT !.bin = Bin(blob, which), !.rc = IF @ = 9 THEN 0 ELSE @]]
             ELSE Board(a, which, [d EXCEPT !.rc = 4])
    /\ UNCHANGED <<dirVars, tags, indexVars, boards, boundVars>>

(* Minutes later, when the board has booted, the file is copied and        *)
(* loaded; either may fail on every attempt.                               *)
Load(a, which) ==
    /\ At(a, IF which = "m" THEN "load_m" ELSE "load_s")
    /\ LET d == dep[a]
           bytes == blobs[d.sha][d.bin]
       IN  \/ /\ bytes # None
              /\ boards' = [boards EXCEPT ![which] = bytes]
              /\ Board(a, which, IF which = "m" THEN [d EXCEPT !.got_m = bytes] ELSE [d EXCEPT !.got_s = bytes])
           \/ /\ boards' \in {boards, [boards EXCEPT ![which] = IF bytes = None THEN @ ELSE bytes]}
              /\ Board(a, which, [d EXCEPT !.rc = 3])
    /\ UNCHANGED <<dirVars, tags, indexVars, boundVars>>

(* The boards are compared with the stored files; a missing one is skipped. *)
CmdVerify(a) ==
    /\ Start(a)
    /\ \E ref \in Refs :
        LET dir == Resolve(ref) IN
        Exit(a, [NoDeploy EXCEPT !.rc =
            IF ~There(dir) THEN 2
            ELSE IF dir["m"] \in {None, boards.m} /\ dir["s"] \in {None, boards.s} THEN 8 ELSE 1])
    /\ UNCHANGED <<dirVars, tags, indexVars, boards>>

-----------------------------------------------------------------------------
Kill(a) ==
    /\ ~At(a, "idle") /\ End(a)
    /\ UNCHANGED <<dirVars, tags, indexVars, boards, boundVars>>

Rot ==
    /\ rot < MaxRot /\ rot' = rot + 1
    /\ \E s \in Shas, f \in {"m", "s"} :
        /\ blobs[s][f] # None
        /\ blobs' = [blobs EXCEPT ![s][f] = "rotten"]
        /\ Behind(s)
    /\ UNCHANGED <<incoming, tags, indexVars, boards, proc, cmds>>

Init ==
    /\ blobs = [s \in Shas |-> Absent] /\ incoming = [s \in Shas |-> Absent]
    /\ tags = NoIndex /\ index = NoIndex /\ tmp = {}
    /\ boards = [m |-> None, s |-> None]
    /\ proc = [a \in Agents |-> Idle] /\ dep = [a \in Agents |-> NoDeploy] /\ cmds = 0 /\ rot = 0

Next ==
    \/ \E a \in Agents :
        \/ CmdAdd(a) \/ Recheck(a) \/ Clear(a) \/ RemoveStaging(a) \/ Makedirs(a)
        \/ (\E f \in {"m", "s", "man", "log"} : Copy(a, f)) \/ Rename(a) \/ Unlink(a) \/ Symlink(a)
        \/ CmdUntag(a) \/ CmdList(a) \/ Reconcile(a) \/ ReadIndex(a) \/ WriteTmp(a) \/ Replace(a)
        \/ CmdGc(a) \/ GcOrphans(a) \/ Reap(a) \/ RemoveBlob(a)
        \/ CmdDeploy(a) \/ ReadManifest(a) \/ Rehash(a)
        \/ (\E f \in {"side_m", "side_s"} : WriteSidecar(a, f))
        \/ (\E which \in {"m", "s"} : Guard(a, which) \/ Load(a, which))
        \/ CmdVerify(a) \/ Kill(a)
    \/ Rot

Spec == Init /\ [][Next]_vars

-----------------------------------------------------------------------------
(* Properties. *)

(* A deployment that ends with 0 flashed the very bytes its label named    *)
(* when it was resolved: the master's by the blob's key, the slave's, if   *)
(* it names one, by the manifest read then, whatever was collected, added, *)
(* redeployed or rotted meanwhile.  Only a file that is removed or rots    *)
(* between the guard's hash and the copy escapes it.                       *)
DeployedIsLabelled ==
    \A a \in Agents :
        LET d == dep[a] IN
        (At(a, "idle") /\ d.rc = 0 /\ ~d.stale) => d.got_m = d.sha /\ d.s \in {None, d.got_s}

(* The header of the store: "bytes live under blobs/<sha256>/ (write-once, *)
(* immutable)".  Two agents that add the same master with different slaves *)
(* never change each other's files, although each looked for the blob      *)
(* before it staged its own.  Only the disk alters a stored file.          *)
BlobsImmutable ==
    \A s \in Shas, f \in {"m", "s", "man"} :
        blobs[s][f] # None /\ rot' = rot => blobs'[s][f] \in {None, blobs[s][f]}

-----------------------------------------------------------------------------
(* Why they hold. *)

(* A command at work on a directory knows its hash. *)
Filing == {"recheck", "clear", "rm_incoming", "mkdir", "m", "s", "man", "log", "rename", "untag", "link", "rm_blob"}

TypeOK ==
    /\ DOMAIN blobs = Shas /\ DOMAIN incoming = Shas
    /\ \A s \in Shas : DOMAIN blobs[s] = DOMAIN Absent /\ DOMAIN incoming[s] = DOMAIN Absent
    /\ DOMAIN tags = Labels /\ \A l \in Labels : tags[l] \in Shas \cup {None}
    /\ DOMAIN proc = Agents /\ DOMAIN dep = Agents
    /\ \A a \in Agents :
          /\ DOMAIN proc[a] = DOMAIN Idle
          /\ proc[a].sha \in Shas \cup {None} /\ proc[a].shas \subseteq Shas
          /\ proc[a].pc \in Filing => proc[a].sha \in Shas
          /\ DOMAIN dep[a] = DOMAIN NoDeploy /\ dep[a].bin \in {"m", "s"}

(* A deployment is of a hash; until its first guard it has come to         *)
(* nothing.                                                                *)
Early == {"read_manifest", "rehash", "side_m", "side_s", "guard_m"}
Late == {"load_m", "guard_s", "load_s"}
OfAHash(a) ==
    /\ proc[a].pc \in Early \cup Late => dep[a].sha \in Shas \ {None}
    /\ proc[a].pc \in Early => dep[a].rc = 9
    /\ proc[a].pc \notin Early \cup Late \cup {"idle"} => dep[a].rc = 9

(* The file a guard let through is still the one it hashed, and what the   *)
(* first board came to is known when the second one is at hand.            *)
Guards(a) ==
    LET d == dep[a] IN
    /\ proc[a].pc = "load_m" => d.rc = 0 /\ (d.stale \/ blobs[d.sha][d.bin] = d.sha)
    /\ proc[a].pc \in {"guard_s", "load_s"} => d.rc # 9 /\ (d.rc # 0 \/ d.stale \/ d.got_m = d.sha)
    /\ proc[a].pc = "load_s" => d.s = None \/ d.stale \/ blobs[d.sha][d.bin] = d.s

IInv == TypeOK /\ DeployedIsLabelled /\ \A a \in Agents : OfAHash(a) /\ Guards(a)
=============================================================================

-------------------------- MODULE BoardToolsProofs --------------------------
(***************************************************************************)
(* Proofs about the tests and tools that drive the boards: what            *)
(* MCBoardTools checks of passes, of the link's proof, of what is left of  *)
(* the link, of the records and of the faults reported, for every value of *)
(* the constants.  Each tool has an inductive invariant of its own, IInv   *)
(* (and CleanInv) in its module; a step of the sum is a step of one tool.  *)
(***************************************************************************)
EXTENDS MCBoardTools, FiniteSetTheorems, FunctionTheorems, SequenceTheorems, TLAPS

-----------------------------------------------------------------------------
(* The on-chip pair *)

LEMMA ToolFields ==
    DOMAIN Pair!Off = {"name", "step", "snap", "fails", "polls", "unlock", "rc"}
BY DEF Pair!Off

LEMMA Insts == Pair!Inst = {0, 1}
BY DEF Pair!Inst

LEMMA NoSnap == <<>> \in Seq({"0", "1", "sham"})
OBVIOUS

(* One field of a die, or of a script, at a time. *)
LEMMA DieUpdated ==
    ASSUME NEW d \in [Pair!Inst -> Pair!Die], NEW i \in Pair!Inst, NEW e \in Pair!Die
    PROVE  [d EXCEPT ![i] = e] \in [Pair!Inst -> Pair!Die]
OBVIOUS

LEMMA PairStarts == Pair!Init => Pair!IInv
<1> SUFFICES ASSUME Pair!Init PROVE Pair!IInv
  OBVIOUS
<1>1. Pair!TypeOK
  BY Insts DEF Pair!Init, Pair!TypeOK, Pair!Off, Pair!Por, Pair!Die
<1> QED
  BY <1>1, Insts DEF Pair!Init, Pair!Off, Pair!Por, Pair!IInv, Pair!LinkIsLocked, Pair!SnapInStep, Pair!SnapHolds,
     Pair!ProvenIsJudged, Pair!ProbedIsPair, Pair!SmokedIsPair, Pair!proven, Pair!smoked

(* The dies move while a tool looks: nothing that was shown is undone. *)
LEMMA DieKeeps ==
    ASSUME Pair!IInv, NEW i \in Pair!Inst,
           Pair!Negotiate(i) \/ Pair!MaskMatch(i) \/ Pair!RoleLock(i) \/ Pair!Link(i)
    PROVE  Pair!IInv'
<1>1. UNCHANGED <<v1, v3, v4, v5>>
  BY DEF Pair!Negotiate, Pair!MaskMatch, Pair!RoleLock, Pair!Link, Pair!hardware
<1>2. Pair!TypeOK'
  <2>1. \E e \in Pair!Die : v2' = [v2 EXCEPT ![i] = e]
    <3>1. v2[i] \in Pair!Die
      BY DEF Pair!IInv, Pair!TypeOK
    <3>2. CASE Pair!Negotiate(i)
      <4>1. PICK r \in {0, 1}, l \in BOOLEAN : v2' = [v2 EXCEPT ![i].pend = TRUE, ![i].role = r, ![i].lost = l]
        BY <3>2 DEF Pair!Negotiate
      <4>2. [v2[i] EXCEPT !.pend = TRUE, !.role = r, !.lost = l] \in Pair!Die
        BY <3>1 DEF Pair!Die
      <4> QED
        BY <4>1, <4>2 DEF Pair!IInv, Pair!TypeOK
    <3>3. CASE Pair!MaskMatch(i)
      <4>1. [v2[i] EXCEPT !.match = TRUE] \in Pair!Die
        BY <3>1 DEF Pair!Die
      <4> QED
        BY <3>3, <4>1 DEF Pair!IInv, Pair!TypeOK, Pair!MaskMatch
    <3>4. CASE Pair!RoleLock(i)
      <4>1. [v2[i] EXCEPT !.lock = TRUE] \in Pair!Die
        BY <3>1 DEF Pair!Die
      <4> QED
        BY <3>4, <4>1 DEF Pair!IInv, Pair!TypeOK, Pair!RoleLock
    <3>5. CASE Pair!Link(i)
      <4>1. PICK s \in {"cal", "link"} : v2' = [v2 EXCEPT ![i].st = s]
        BY <3>5 DEF Pair!Link
      <4>2. [v2[i] EXCEPT !.st = s] \in Pair!Die
        BY <3>1 DEF Pair!Die
      <4> QED
        BY <4>1, <4>2 DEF Pair!IInv, Pair!TypeOK
    <3> QED
      BY <3>2, <3>3, <3>4, <3>5
  <2> QED
    BY <1>1, <2>1, DieUpdated DEF Pair!IInv, Pair!TypeOK
<1>3. Pair!LinkIsLocked'
  BY Insts DEF Pair!IInv, Pair!TypeOK, Pair!Die, Pair!Negotiate, Pair!MaskMatch, Pair!RoleLock, Pair!Link,
     Pair!LinkIsLocked
<1>4. \A k \in {0, 1} : /\ v2[k].lock => v2'[k].lock /\ v2'[k].role = v2[k].role
                        /\ v2[k].match => v2'[k].match
  BY Insts DEF Pair!IInv, Pair!TypeOK, Pair!Die, Pair!Negotiate, Pair!MaskMatch, Pair!RoleLock, Pair!Link,
     Pair!LinkIsLocked
<1>5. Pair!SnapHolds'
  BY <1>1, <1>4 DEF Pair!IInv, Pair!SnapHolds
<1> QED
  BY <1>1, <1>2, <1>3, <1>5 DEF Pair!IInv, Pair!SnapInStep, Pair!ProvenIsJudged, Pair!ProbedIsPair,
     Pair!SmokedIsPair, Pair!proven, Pair!smoked

LEMMA WedgeKeeps == Pair!IInv /\ Pair!Wedge => Pair!IInv'
BY DEF Pair!Wedge, Pair!IInv, Pair!TypeOK, Pair!LinkIsLocked, Pair!SnapInStep, Pair!SnapHolds,
     Pair!ProvenIsJudged, Pair!ProbedIsPair, Pair!SmokedIsPair, Pair!proven, Pair!smoked

LEMMA LoadKeeps == Pair!IInv /\ Pair!Load => Pair!IInv'
<1> SUFFICES ASSUME Pair!IInv, Pair!Load PROVE Pair!IInv'
  OBVIOUS
<1>1. Pair!TypeOK'
  <2>2. v2' \in [Pair!Inst -> Pair!Die]
    BY DEF Pair!Load, Pair!Por, Pair!Die
  <2> QED
    BY <2>2, NoSnap, ToolFields DEF Pair!IInv, Pair!Load, Pair!TypeOK
<1>2. v4'.name = "none" /\ v4'.rc = 9 /\ v4'.snap = <<>>
  BY ToolFields DEF Pair!IInv, Pair!Load, Pair!TypeOK
<1>3. Pair!LinkIsLocked'
  BY Insts DEF Pair!Load, Pair!Por, Pair!LinkIsLocked
<1> QED
  BY <1>1, <1>2, <1>3 DEF Pair!IInv, Pair!SnapInStep, Pair!SnapHolds,
     Pair!ProvenIsJudged, Pair!ProbedIsPair, Pair!SmokedIsPair, Pair!proven, Pair!smoked

(* A step of a script leaves the dies alone, but for the debug register. *)
SameDies == /\ v1' = v1 /\ v3' = v3 /\ v2' \in [Pair!Inst -> Pair!Die]
            /\ \A k \in {0, 1} : /\ v2'[k].lock = v2[k].lock /\ v2'[k].role = v2[k].role
                                 /\ v2'[k].match = v2[k].match /\ v2'[k].pend = v2[k].pend
                                 /\ v2'[k].st = v2[k].st

LEMMA SameLocks == ASSUME Pair!LinkIsLocked, SameDies PROVE Pair!LinkIsLocked'
BY Insts DEF Pair!LinkIsLocked, SameDies

LEMMA ReadingIsSame == ASSUME Pair!TypeOK, Pair!reading PROVE SameDies
BY DEF Pair!TypeOK, Pair!reading, SameDies

(* What the end of a script leaves. *)
LEMMA StopKeeps ==
    ASSUME Pair!IInv, SameDies, v5' \in Nat, NEW rc \in {0, 1, 2, 3}, Pair!stop(rc),
           rc = 0 => \/ v4.snap = <<>> /\ v1 \notin {"single", "twin"}
                     \/ /\ Len(v4.snap) = 10 /\ v4.snap[1] = "1" /\ v4.snap[4] = "1" /\ v4.snap[9] = "1"
                        /\ v4.snap[2] # v4.snap[7]
    PROVE  Pair!IInv'
<1>1. Pair!TypeOK'
  BY NoSnap, ToolFields DEF Pair!IInv, Pair!TypeOK, Pair!stop, SameDies
<1>2. v4'.name = "none" /\ v4'.rc = rc /\ v4'.snap = (IF rc = 0 THEN v4.snap ELSE <<>>)
  BY ToolFields DEF Pair!IInv, Pair!TypeOK, Pair!stop
<1>3. Pair!LinkIsLocked'
  BY SameLocks DEF Pair!IInv
<1>4. Pair!SnapHolds'
  BY <1>2 DEF Pair!IInv, Pair!SnapHolds, SameDies
<1> QED
  BY <1>1, <1>2, <1>3, <1>4 DEF Pair!IInv, Pair!SnapInStep, Pair!ProvenIsJudged, Pair!ProbedIsPair,
     Pair!SmokedIsPair, Pair!proven, Pair!smoked, SameDies

LEMMA ScriptsStart == ASSUME Pair!IInv, Pair!Smoke \/ Pair!Autonomy PROVE Pair!IInv'
<1>1. SameDies /\ v5' \in Nat
  BY ReadingIsSame DEF Pair!IInv, Pair!TypeOK, Pair!Smoke, Pair!Autonomy
<1>3. /\ v4'.name \in {"smoke", "autonomy"} /\ v4'.snap = <<>> /\ v4'.step = 1
      /\ v4'.fails = 0 /\ v4'.polls = 0 /\ DOMAIN v4' = DOMAIN Pair!Off
  BY DEF Pair!Smoke, Pair!Autonomy, Pair!Off
<1>2. Pair!TypeOK'
  BY <1>1, <1>3, NoSnap DEF Pair!IInv, Pair!TypeOK, SameDies
<1> QED
  BY <1>1, <1>2, <1>3, SameLocks DEF Pair!IInv, Pair!SnapInStep, Pair!SnapHolds, Pair!ProvenIsJudged,
     Pair!ProbedIsPair, Pair!SmokedIsPair, Pair!proven, Pair!smoked

(* The next step of the smoke test. *)
PairOnward == /\ DOMAIN v4' = DOMAIN v4 /\ v4'.name = v4.name /\ v4'.snap = v4.snap /\ v4'.polls = v4.polls
          /\ v4'.step = v4.step + 1 /\ v4'.fails \in {v4.fails, 1}

LEMMA GotoKeeps ==
    ASSUME Pair!IInv, SameDies, v5' \in Nat, v4.name = "smoke", v4.step < 11, PairOnward,
           v4.step = 2 /\ v4'.fails = 0 => v1 \notin {"single", "twin"}
    PROVE  Pair!IInv'
<1>1. Pair!TypeOK'
  BY DEF Pair!IInv, Pair!TypeOK, SameDies, PairOnward
<1>3. v4.snap = <<>> /\ v4.step \in 1 .. 11
  BY DEF Pair!IInv, Pair!TypeOK, Pair!SnapInStep
<1>4. Pair!ProbedIsPair'
  BY <1>1, <1>3 DEF Pair!IInv, Pair!TypeOK, Pair!ProbedIsPair, SameDies, PairOnward
<1> QED
  BY <1>1, <1>3, <1>4, SameLocks DEF PairOnward, Pair!IInv, Pair!SnapInStep, Pair!SnapHolds, Pair!ProvenIsJudged,
     Pair!SmokedIsPair, Pair!proven, Pair!smoked

LEMMA WorkerTypes ==
    ASSUME Pair!TypeOK, NEW s \in {"ok", "wedged", "err"}, NEW i, Pair!run_worker(s, i) PROVE v5' \in Nat
BY DEF Pair!run_worker, Pair!TypeOK

LEMMA ProbeKeeps == ASSUME Pair!IInv, Pair!Probe PROVE Pair!IInv'
<1> DEFINE i == (v4.step + 1) % 2
<1>1. PICK s \in {"ok", "wedged", "err"} :
          Pair!run_worker(s, i) /\ Pair!guarded_read(s, v4.step + 1, Pair!probe_ok(v4.step), i)
  BY DEF Pair!Probe
<1>2. SameDies /\ v5' \in Nat /\ v4.name = "smoke" /\ v4.step \in 1 .. 4
  <2>1. SameDies /\ v4.name = "smoke" /\ v4.step \in 1 .. 4
    BY ReadingIsSame DEF Pair!IInv, Pair!TypeOK, Pair!Probe
  <2> QED
    BY <1>1, <2>1, WorkerTypes DEF Pair!IInv
<1>3. CASE s = "wedged"
  BY <1>1, <1>2, <1>3, StopKeeps DEF Pair!guarded_read
<1>4. CASE s # "wedged"
  <2>1. PairOnward
    BY <1>1, <1>4, ToolFields DEF Pair!guarded_read, Pair!goto, PairOnward, Pair!IInv, Pair!TypeOK
  <2>2. v4'.fails = 0 => s = "ok" /\ Pair!probe_ok(v4.step)
    <3>1. v4' = [v4 EXCEPT !.step = v4.step + 1, !.fails = IF s = "err" \/ ~Pair!probe_ok(v4.step) THEN 1 ELSE v4.fails]
      BY <1>1, <1>4 DEF Pair!guarded_read, Pair!goto
    <3>2. v4'.fails = IF s = "err" \/ ~Pair!probe_ok(v4.step) THEN 1 ELSE v4.fails
      BY <3>1, ToolFields DEF Pair!IInv, Pair!TypeOK
    <3> QED
      BY <1>1, <1>4, <3>2
  <2>3. v4.step = 2 /\ v4'.fails = 0 => v1 \notin {"single", "twin"}
    <3> SUFFICES ASSUME v4.step = 2, v4'.fails = 0 PROVE v1 \notin {"single", "twin"}
      OBVIOUS
    <3>2. s = "ok" /\ i = 1 /\ Pair!probe_ok(2)
      BY <2>2
    <3>3. Pair!decodes(1)
      BY <3>2, <1>1 DEF Pair!run_worker
    <3> QED
      BY <3>2, <3>3 DEF Pair!decodes, Pair!probe_ok, Pair!pair_base
  <2> QED
    BY <1>2, <2>1, <2>3, GotoKeeps
<1> QED
  BY <1>3, <1>4

(* The unlock: the debug register is written and read back. *)
LEMMA UnlockInst == ASSUME Pair!TypeOK, v4.step \in {5, 6, 7, 8, 9, 10} PROVE Pair!unlock_inst \in Pair!Inst
BY Insts DEF Pair!unlock_inst

LEMMA DebugKeeps ==
    ASSUME Pair!IInv, Pair!WriteDebug \/ Pair!ReadDebug \/ Pair!RestoreDebug PROVE Pair!IInv'
<1>1. v4.name = "smoke" /\ v4.step \in {5, 6, 7, 8, 9, 10}
  BY DEF Pair!WriteDebug, Pair!ReadDebug, Pair!RestoreDebug
<1>2. Pair!unlock_inst \in Pair!Inst
  BY <1>1, UnlockInst DEF Pair!IInv
<1>3. SameDies
  <2>1. v1' = v1 /\ v3' = v3
    BY DEF Pair!WriteDebug, Pair!ReadDebug, Pair!RestoreDebug, Pair!reading
  <2>2. v2' = v2 \/ \E b \in {0, 1} : v2' = [v2 EXCEPT ![Pair!unlock_inst].debug = b]
    BY DEF Pair!WriteDebug, Pair!ReadDebug, Pair!RestoreDebug, Pair!reading
  <2>3. CASE v2' = v2
    BY <2>1, <2>3 DEF SameDies, Pair!IInv, Pair!TypeOK
  <2>4. ASSUME NEW b \in {0, 1}, v2' = [v2 EXCEPT ![Pair!unlock_inst].debug = b] PROVE SameDies
    <3> DEFINE e == [v2[Pair!unlock_inst] EXCEPT !.debug = b]
    <3>1. v2[Pair!unlock_inst] \in Pair!Die
      BY <1>2 DEF Pair!IInv, Pair!TypeOK
    <3>2. e \in Pair!Die
      BY <3>1 DEF Pair!Die
    <3>3. v2' = [v2 EXCEPT ![Pair!unlock_inst] = e]
      BY <2>4
    <3>4. v2' \in [Pair!Inst -> Pair!Die]
      BY <1>2, <3>2, <3>3, DieUpdated DEF Pair!IInv, Pair!TypeOK
    <3>5. \A k \in {0, 1} : /\ v2'[k].lock = v2[k].lock /\ v2'[k].role = v2[k].role
                            /\ v2'[k].match = v2[k].match /\ v2'[k].pend = v2[k].pend
                            /\ v2'[k].st = v2[k].st
      BY <2>4, <1>2, Insts DEF Pair!IInv, Pair!TypeOK, Pair!Die
    <3> QED
      BY <2>1, <3>4, <3>5 DEF SameDies
  <2> QED
    BY <2>2, <2>3, <2>4
<1>4. v5' \in Nat /\ (Pair!stop(2) \/ PairOnward)
  <2>1. PICK s \in {"ok", "wedged", "err"} :
          /\ Pair!run_worker(s, Pair!unlock_inst)
          /\ Pair!stop(2) \/ Pair!goto(v4.step + 1, FALSE) \/
             \E ok \in BOOLEAN : Pair!guarded_read(s, v4.step + 1, ok, Pair!unlock_inst)
    BY DEF Pair!WriteDebug, Pair!ReadDebug, Pair!RestoreDebug
  <2> QED
    BY <2>1, WorkerTypes, ToolFields DEF Pair!guarded_read, Pair!goto, Pair!IInv, Pair!TypeOK, PairOnward
<1>5. CASE Pair!stop(2)
  BY <1>3, <1>4, <1>5, StopKeeps
<1>6. CASE PairOnward
  BY <1>1, <1>3, <1>4, <1>6, GotoKeeps
<1> QED
  BY <1>4, <1>5, <1>6

LEMMA SmokeEndKeeps == ASSUME Pair!IInv, Pair!SmokeEnds PROVE Pair!IInv'
<1>1. SameDies /\ v5' \in Nat /\ v4.name = "smoke" /\ v4.step \in {5, 11} /\ v4.snap = <<>>
  BY ReadingIsSame DEF Pair!IInv, Pair!TypeOK, Pair!SmokeEnds, Pair!SnapInStep
<1>2. CASE v4.fails > 0
  BY <1>1, <1>2, StopKeeps DEF Pair!SmokeEnds
<1>3. CASE ~(v4.fails > 0)
  <2>1. v4.fails = 0 /\ Pair!stop(0)
    BY <1>3 DEF Pair!SmokeEnds, Pair!IInv, Pair!TypeOK
  <2>2. v1 \notin {"single", "twin"}
    BY <1>1, <2>1 DEF Pair!IInv, Pair!ProbedIsPair
  <2> QED
    BY <1>1, <2>1, <2>2, StopKeeps
<1> QED
  BY <1>2, <1>3

-----------------------------------------------------------------------------
(* The autonomy check *)

LEMMA Addrs ==
    /\ Len(Pair!snapshot_addrs) = 10
    /\ \A k \in 1 .. 5 : Pair!snapshot_addrs[k][1] = 0 /\ Pair!snapshot_addrs[k + 5][1] = 1
    /\ \A k \in {1, 6} : Pair!snapshot_addrs[k][2] = "status"
    /\ \A k \in {2, 7} : Pair!snapshot_addrs[k][2] = "role"
    /\ \A k \in {3, 8} : Pair!snapshot_addrs[k][2] = "lock"
    /\ \A k \in {4, 9} : Pair!snapshot_addrs[k][2] = "mask"
    /\ \A k \in {5, 10} : Pair!snapshot_addrs[k][2] = "debug"
BY DEF Pair!snapshot_addrs

(* Where the snapshot keeps a register. *)
LEMMA Ats ==
    /\ Pair!at(0, "status") = v4.snap[1] /\ Pair!at(0, "role") = v4.snap[2] /\ Pair!at(0, "mask") = v4.snap[4]
    /\ Pair!at(1, "role") = v4.snap[7] /\ Pair!at(1, "mask") = v4.snap[9]
<1> DEFINE where(i, reg) == CHOOSE k \in 1 .. 10 : Pair!snapshot_addrs[k] = <<i, reg>>
<1>1. ASSUME NEW i, NEW reg, NEW n \in 1 .. 10, \A k \in 1 .. 10 : Pair!snapshot_addrs[k] = <<i, reg>> <=> k = n
      PROVE  Pair!at(i, reg) = v4.snap[n]
  <2>1. (CHOOSE k \in 1 .. 10 : Pair!snapshot_addrs[k] = <<i, reg>>) = n
    BY <1>1
  <2> QED
    BY <2>1 DEF Pair!at
<1>2. \A k \in 1 .. 10 : /\ Pair!snapshot_addrs[k] = <<0, "status">> <=> k = 1
                         /\ Pair!snapshot_addrs[k] = <<0, "role">> <=> k = 2
                         /\ Pair!snapshot_addrs[k] = <<0, "mask">> <=> k = 4
                         /\ Pair!snapshot_addrs[k] = <<1, "role">> <=> k = 7
                         /\ Pair!snapshot_addrs[k] = <<1, "mask">> <=> k = 9
  BY DEF Pair!snapshot_addrs
<1> QED
  BY <1>1, <1>2

(* One register more.  A role read after a link was seen is the final one. *)
LEMMA SampleKeeps == ASSUME Pair!IInv, Pair!Sample PROVE Pair!IInv'
<1> DEFINE i == Pair!snapshot_addrs[v4.step][1]
           reg == Pair!snapshot_addrs[v4.step][2]
           x == IF Pair!sham(i, reg) THEN "sham" ELSE IF Pair!decode(i, reg) THEN "1" ELSE "0"
<1>1. PICK s \in {"ok", "wedged", "err"} :
          /\ Pair!run_worker(s, i)
          /\ s = "wedged" => Pair!stop(2)
          /\ s = "err" => Pair!stop(3)
          /\ s = "ok" => v4' = [v4 EXCEPT !.step = @ + 1, !.snap = Append(@, x)]
  BY DEF Pair!Sample
<1>2. SameDies /\ v4.name = "autonomy" /\ v4.step \in 1 .. 10 /\ Len(v4.snap) = v4.step - 1 /\ UNCHANGED v2
  BY ReadingIsSame DEF Pair!Sample, Pair!IInv, Pair!TypeOK, Pair!SnapInStep, Pair!reading
<1>3. v5' \in Nat
  BY <1>1, WorkerTypes DEF Pair!IInv
<1>4. CASE s # "ok"
  BY <1>1, <1>2, <1>3, <1>4, StopKeeps
<1>5. CASE s = "ok"
  <2> HIDE DEF x, i, reg
  <2>1. /\ DOMAIN v4' = DOMAIN v4 /\ v4'.name = v4.name /\ v4'.step = v4.step + 1 /\ v4'.fails = v4.fails
        /\ v4'.polls = v4.polls /\ v4'.snap = Append(v4.snap, x)
    BY <1>1, <1>5, ToolFields DEF Pair!IInv, Pair!TypeOK
  <2>2. x \in {"0", "1", "sham"}
    BY DEF x
  <2>3. Pair!TypeOK'
    BY <1>2, <1>3, <2>1, <2>2 DEF Pair!IInv, Pair!TypeOK, SameDies
  <2>4. /\ Len(v4'.snap) = v4.step /\ v4'.snap[v4.step] = x
        /\ \A k \in 1 .. v4.step - 1 : v4'.snap[k] = v4.snap[k]
    BY <1>2, <2>1, <2>2 DEF Pair!IInv, Pair!TypeOK
  <2>5. /\ v4.step = 1 /\ x = "1" => v2[0].lock /\ v2[1].lock
        /\ v4.step = 2 => x # "sham" /\ (x = "1" <=> v2[0].role = 0)
        /\ v4.step = 7 => x # "sham" /\ (x = "1" <=> v2[1].role = 0)
        /\ v4.step = 4 /\ x = "1" => v2[0].match
        /\ v4.step = 9 /\ x = "1" => v2[1].match
    <3>1. v4.step = 1 /\ x = "1" => v2[0].st = "link"
      BY Addrs DEF x, i, reg, Pair!decode, Pair!sham
    <3>2. v4.step = 1 /\ x = "1" => v2[0].lock /\ v2[1].lock
      BY <3>1, Insts DEF Pair!IInv, Pair!LinkIsLocked
    <3>3. v4.step = 2 => x # "sham" /\ (x = "1" <=> v2[0].role = 0)
      BY Addrs DEF x, i, reg, Pair!decode, Pair!sham
    <3>4. v4.step = 7 => x # "sham" /\ (x = "1" <=> v2[1].role = 0)
      <4>1. v4.step = 7 => i = 1 /\ reg = "role"
        BY Addrs DEF i, reg
      <4> QED
        BY <4>1 DEF x, Pair!decode, Pair!sham
    <3>5. v4.step = 4 /\ x = "1" => v2[0].match
      BY Addrs DEF x, i, reg, Pair!decode, Pair!sham
    <3>6. v4.step = 9 /\ x = "1" => v2[1].match
      <4>1. v4.step = 9 => i = 1 /\ reg = "mask"
        BY Addrs DEF i, reg
      <4> QED
        BY <4>1 DEF x, Pair!decode, Pair!sham
    <3> QED
      BY <3>2, <3>3, <3>4, <3>5, <3>6
  <2>6. Pair!SnapHolds'
    <3> DEFINE old(k) == k <= Len(v4.snap) /\ v4.snap[k] = "1"
               new(k) == k <= Len(v4'.snap) /\ v4'.snap[k] = "1"
    <3>1. \A k \in {1, 2, 4, 7, 9} : k <= Len(v4'.snap) =>
            \/ k = v4.step /\ v4'.snap[k] = x
            \/ k <= Len(v4.snap) /\ v4'.snap[k] = v4.snap[k]
      BY <1>2, <2>4, SMTT(30) DEF Pair!IInv, Pair!TypeOK
    <3>2. new(1) => v2[0].lock /\ v2[1].lock
      BY <3>1, <2>5 DEF Pair!IInv, Pair!SnapHolds
    <3>3. \A k \in {2, 7} : k <= Len(v4'.snap) => v4'.snap[k] # "sham"
      BY <3>1, <2>5 DEF Pair!IInv, Pair!SnapHolds
    <3>4. new(1) /\ 2 <= Len(v4'.snap) => (v4'.snap[2] = "1" <=> v2[0].role = 0)
      BY <1>2, <2>4, <3>1, <2>5 DEF Pair!IInv, Pair!SnapHolds
    <3>5. new(1) /\ 7 <= Len(v4'.snap) => (v4'.snap[7] = "1" <=> v2[1].role = 0)
      BY <1>2, <2>4, <3>1, <2>5 DEF Pair!IInv, Pair!SnapHolds
    <3>6. (new(4) => v2[0].match) /\ (new(9) => v2[1].match)
      BY <3>1, <2>5 DEF Pair!IInv, Pair!SnapHolds
    <3> QED
      BY <1>2, <3>2, <3>3, <3>4, <3>5, <3>6 DEF Pair!SnapHolds
  <2> QED
    BY <1>2, <2>1, <2>3, <2>4, <2>6, SameLocks DEF Pair!IInv, Pair!SnapInStep, Pair!ProvenIsJudged,
       Pair!ProbedIsPair, Pair!SmokedIsPair, Pair!proven, Pair!smoked
<1> QED
  BY <1>4, <1>5

LEMMA JudgeKeeps == ASSUME Pair!IInv, Pair!Judge PROVE Pair!IInv'
<1>1. SameDies /\ v5' \in Nat /\ v4.name = "autonomy" /\ Len(v4.snap) = 10
  BY ReadingIsSame DEF Pair!IInv, Pair!TypeOK, Pair!Judge, Pair!SnapInStep
<1>2. CASE Pair!stop(3) \/ Pair!stop(1)
  BY <1>1, <1>2, StopKeeps
<1>3. CASE Pair!criteria /\ Pair!stop(0)
  <2>1. /\ v4.snap[1] = "1" /\ v4.snap[4] = "1" /\ v4.snap[9] = "1"
        /\ v4.snap[2] # v4.snap[7]
    BY <1>3, Ats, Insts DEF Pair!criteria
  <2> QED
    BY <1>1, <1>3, <2>1, StopKeeps
<1>4. CASE v4' = [v4 EXCEPT !.step = 1, !.snap = <<>>, !.polls = @ + 1]
  <2>1. /\ DOMAIN v4' = DOMAIN v4 /\ v4'.name = v4.name /\ v4'.step = 1 /\ v4'.fails = v4.fails
        /\ v4'.polls = v4.polls + 1 /\ v4'.snap = <<>>
    BY <1>4, ToolFields DEF Pair!IInv, Pair!TypeOK
  <2>2. Pair!TypeOK'
    BY <1>1, <2>1, NoSnap DEF Pair!IInv, Pair!TypeOK, SameDies
  <2> QED
    BY <1>1, <2>1, <2>2, SameLocks DEF Pair!IInv, Pair!SnapInStep, Pair!SnapHolds, Pair!ProvenIsJudged,
       Pair!ProbedIsPair, Pair!SmokedIsPair, Pair!proven, Pair!smoked
<1> QED
  BY <1>2, <1>3, <1>4 DEF Pair!Judge

LEMMA PairStep == Pair!IInv /\ Pair!Next => Pair!IInv'
BY DieKeeps, WedgeKeeps, LoadKeeps, ScriptsStart, ProbeKeeps, DebugKeeps, SmokeEndKeeps, SampleKeeps, JudgeKeeps
   DEF Pair!Next

LEMMA PairStutters == Pair!IInv /\ UNCHANGED Pair!vars => Pair!IInv'
BY DEF Pair!vars, Pair!IInv, Pair!TypeOK, Pair!LinkIsLocked, Pair!SnapInStep, Pair!SnapHolds,
     Pair!ProvenIsJudged, Pair!ProbedIsPair, Pair!SmokedIsPair, Pair!proven, Pair!smoked

LEMMA PairIsProven == Pair!IInv => Pair!ProvenIsHandshaken
<1> SUFFICES ASSUME Pair!IInv, Pair!proven
             PROVE  /\ v2[0].lock /\ v2[0].match /\ v2[1].lock /\ v2[1].match
                    /\ v2[0].role # v2[1].role
  BY Insts DEF Pair!ProvenIsHandshaken
<1>1. /\ Len(v4.snap) = 10 /\ v4.snap[1] = "1" /\ v4.snap[4] = "1" /\ v4.snap[9] = "1"
      /\ v4.snap[2] # v4.snap[7]
  BY DEF Pair!IInv, Pair!ProvenIsJudged, Pair!proven
<1>2. v4.snap[2] \in {"0", "1"} /\ v4.snap[7] \in {"0", "1"}
  BY <1>1 DEF Pair!IInv, Pair!TypeOK, Pair!SnapHolds
<1>3. v2[0].role \in {0, 1} /\ v2[1].role \in {0, 1}
  BY Insts DEF Pair!IInv, Pair!TypeOK, Pair!Die
<1> QED
  BY <1>1, <1>2, <1>3 DEF Pair!IInv, Pair!SnapHolds

-----------------------------------------------------------------------------
(* The bring-up of a pair *)

LEMMA AppendSecond == ASSUME NEW u, NEW e PROVE Append(<<u>>, e) = <<u, e>>
<1> DEFINE s == Append(<<u>>, e)
<1> DEFINE t == <<u, e>>
<1>1. <<u>> \in Seq({u, e}) /\ t \in Seq({u, e})
  OBVIOUS
<1>2. s \in Seq({u, e}) /\ Len(s) = 2 /\ Len(t) = 2
  BY <1>1
<1>3. s[1] = u /\ s[2] = e /\ t[1] = u /\ t[2] = e
  BY <1>1
<1>4. t \in Seq({u, e})
  BY <1>1
<1> HIDE DEF s, t
<1>5. \A i \in 1 .. Len(s) : s[i] = t[i]
  BY <1>2, <1>3
<1>6. s = t
  BY <1>2, <1>4, <1>5, SeqEqual
<1> QED
  BY <1>6 DEF s, t

LEMMA TwoDies == BringUp!Dies = {"a", "b"}
BY DEF BringUp!Dies

LEMMA NoLines == << >> \in Seq(BringUp!Lines)
OBVIOUS

LEMMA BringStarts == BringUp!Init => BringUp!IInv
<1> SUFFICES ASSUME BringUp!Init PROVE BringUp!IInv
  OBVIOUS
<1>1. BringUp!TypeOK
  BY NoLines DEF BringUp!Init, BringUp!TypeOK, BringUp!Places, BringUp!Before, BringUp!Ends, BringUp!None
<1>2. BringUp!LogIsCurrent
  BY DEF BringUp!Init, BringUp!LogIsCurrent, BringUp!LogFits, BringUp!Before
<1>3. BringUp!CheckIsCurrent
  BY DEF BringUp!Init, BringUp!CheckIsCurrent
<1>4. BringUp!TrafficProves
  BY DEF BringUp!Init, BringUp!TrafficProves, BringUp!None
<1> QED
  BY <1>1, <1>2, <1>3, <1>4 DEF BringUp!Init, BringUp!IInv, BringUp!AcceptIsCurrent

(* What the invariant speaks about. *)
Told == <<v1, v3, v12, v13, v14, v15, v16, v17, v18>>

LEMMA BringSame == ASSUME BringUp!IInv, UNCHANGED Told PROVE BringUp!IInv'
BY DEF Told, BringUp!IInv, BringUp!TypeOK, BringUp!LogIsCurrent, BringUp!LogFits, BringUp!CheckIsCurrent,
   BringUp!AcceptIsCurrent, BringUp!TrafficProves

LEMMA HardwareKeeps ==
    ASSUME BringUp!IInv, NEW d \in BringUp!Dies,
           BringUp!Handshake \/ BringUp!CalHold(d) \/ BringUp!CalDone(d) \/ BringUp!Anchor(d)
    PROVE  BringUp!IInv'
BY BringSame DEF Told, BringUp!Handshake, BringUp!CalHold, BringUp!CalDone, BringUp!Anchor, BringUp!Quiet, BringUp!Rest

(* A script of this try at work: before it has an outcome, it moves on and *)
(* says nothing.                                                           *)
LEMMA EarlyKeeps ==
    ASSUME BringUp!IInv, NEW d \in BringUp!Dies, NEW place \in BringUp!Before, v3[d] \in BringUp!Before,
           v3' = [v3 EXCEPT ![d] = place], UNCHANGED <<v1, v12, v13, v14, v15, v16, v17, v18>>
    PROVE  BringUp!IInv'
<1>1. v18 = "none"
  BY DEF BringUp!IInv, BringUp!Before
<1>2. BringUp!TypeOK'
  BY DEF BringUp!IInv, BringUp!TypeOK, BringUp!Places
<1>4. BringUp!LogIsCurrent'
  BY DEF BringUp!IInv, BringUp!TypeOK, BringUp!LogIsCurrent, BringUp!LogFits, BringUp!Before
<1>3. BringUp!CheckIsCurrent'
  BY DEF BringUp!IInv, BringUp!TypeOK, BringUp!CheckIsCurrent, BringUp!Before
<1> QED
  BY <1>1, <1>2, <1>3, <1>4 DEF BringUp!IInv, BringUp!AcceptIsCurrent, BringUp!TrafficProves

LEMMA EarlyStep ==
    ASSUME BringUp!IInv, NEW d \in BringUp!Dies,
           \/ BringUp!Role(d) \/ BringUp!Release(d) \/ BringUp!wait_link_live(d) \/ BringUp!Recheck(d)
           \/ BringUp!SwResetOn(d) \/ BringUp!LlEnable(d)
    PROVE  BringUp!IInv'
<1>1. /\ v3[d] \in BringUp!Before
      /\ \E place \in BringUp!Before : v3' = [v3 EXCEPT ![d] = place]
  BY DEF BringUp!Before, BringUp!Goto, BringUp!Role, BringUp!Release, BringUp!wait_link_live, BringUp!Recheck,
     BringUp!SwResetOn, BringUp!LlEnable
<1>2. UNCHANGED <<v1, v12, v13, v14, v15, v16, v17, v18>>
  BY DEF BringUp!Role, BringUp!Release, BringUp!wait_link_live, BringUp!Recheck, BringUp!SwResetOn,
     BringUp!LlEnable, BringUp!Quiet, BringUp!Rest, BringUp!hardware
<1> QED
  BY <1>1, <1>2, EarlyKeeps

(* The general step: the script of die d moves, with log, outcome and exit *)
(* code of its own, and the other script's stay.                           *)
OthersSame(d) ==
    \A e \in BringUp!Dies \ {d} : v3'[e] = v3[e] /\ v15'[e] = v15[e] /\ v16'[e] = v16[e] /\ v17'[e] = v17[e]

LEMMA ScriptKeeps ==
    ASSUME BringUp!IInv, NEW d \in BringUp!Dies, v3[d] # "over", UNCHANGED <<v1, v18>>, BringUp!TypeOK',
           OthersSame(d), BringUp!LogFits(d)', BringUp!CheckIsCurrent', v13 => v13',
           d = v1.traffic /\ v17'[d] \in {0, 4} => v13'
    PROVE  BringUp!IInv'
<1>1. v18 = "none"
  BY DEF BringUp!IInv
<1>3. BringUp!LogIsCurrent'
  <2> SUFFICES ASSUME NEW e \in BringUp!Dies, e # d PROVE BringUp!LogFits(e)'
    BY DEF BringUp!LogIsCurrent
  <2>1. v3'[e] = v3[e] /\ v15'[e] = v15[e] /\ v16'[e] = v16[e]
    BY DEF OthersSame
  <2> QED
    BY <2>1 DEF BringUp!IInv, BringUp!LogIsCurrent, BringUp!LogFits
<1>4. BringUp!TrafficProves'
  BY DEF BringUp!IInv, BringUp!TypeOK, BringUp!TrafficProves, OthersSame
<1> QED
  BY <1>1, <1>3, <1>4 DEF BringUp!IInv, BringUp!AcceptIsCurrent

LEMMA WaitHoldKeeps == ASSUME BringUp!IInv, NEW d \in BringUp!Dies, BringUp!WaitHold(d) PROVE BringUp!IInv'
<1>1. CASE v5[d] = "hold" /\ BringUp!Goto(d, "release") /\ UNCHANGED <<v16, v17>>
  BY <1>1, EarlyKeeps DEF BringUp!WaitHold, BringUp!Goto, BringUp!Before, BringUp!hardware, BringUp!Rest
<1>2. CASE /\ BringUp!Goto(d, "over") /\ v17' = [v17 EXCEPT ![d] = 2] /\ v16' = [v16 EXCEPT ![d] = "no_hold"]
  <2>1. v3[d] = "hold" /\ UNCHANGED <<v1, v12, v13, v14, v15, v18>>
    BY DEF BringUp!WaitHold, BringUp!hardware, BringUp!Rest
  <2>2. v3' = [v3 EXCEPT ![d] = "over"]
    BY <1>2 DEF BringUp!Goto
  <2>3. v3'[d] = "over" /\ v16'[d] = "no_hold" /\ v17'[d] = 2 /\ v15[d] = << >>
    BY <1>2, <2>1, <2>2 DEF BringUp!IInv, BringUp!TypeOK, BringUp!LogIsCurrent, BringUp!LogFits, BringUp!Before
  <2>4. BringUp!CheckIsCurrent'
    BY <1>2, <2>1, <2>2 DEF BringUp!IInv, BringUp!TypeOK, BringUp!CheckIsCurrent
  <2>5. BringUp!LogFits(d)'
    BY <2>1, <2>3 DEF BringUp!LogFits
  <2>6. BringUp!TypeOK' /\ OthersSame(d)
    BY <1>2, <2>1, <2>2 DEF BringUp!Places, BringUp!Ends, BringUp!IInv, BringUp!TypeOK, OthersSame
  <2>7. (v13 => v13') /\ v17'[d] \notin {0, 4}
    BY <2>1, <2>3
  <2> QED
    BY <2>1, <2>4, <2>5, <2>6, <2>7, ScriptKeeps
<1> QED
  BY <1>1, <1>2 DEF BringUp!WaitHold

LEMMA ConvergeKeeps == ASSUME BringUp!IInv, NEW d \in BringUp!Dies, BringUp!Converge(d) PROVE BringUp!IInv'
<1>1. v3[d] = "converge" /\ UNCHANGED <<v1, v12, v13, v14, v18>>
  BY DEF BringUp!Converge, BringUp!hardware, BringUp!Rest
<1>2. v15[d] = << >> /\ v16[d] = "none" /\ v17[d] = 99
  BY <1>1 DEF BringUp!IInv, BringUp!LogIsCurrent, BringUp!LogFits, BringUp!Before, BringUp!CheckIsCurrent,
     BringUp!None
<1>3. CASE BringUp!Say(d, "up") /\ BringUp!Goto(d, "crc") /\ UNCHANGED <<v16, v17>>
  <2>1. v3' = [v3 EXCEPT ![d] = "crc"] /\ v15' = [v15 EXCEPT ![d] = <<"up">>]
    BY <1>2, <1>3 DEF BringUp!Say, BringUp!Goto
  <2>2. BringUp!CheckIsCurrent'
    BY <1>1, <1>3, <2>1 DEF BringUp!IInv, BringUp!TypeOK, BringUp!CheckIsCurrent
  <2>3. BringUp!LogFits(d)'
    BY <1>2, <1>3, <2>1 DEF BringUp!IInv, BringUp!TypeOK, BringUp!LogFits
  <2>4. BringUp!TypeOK' /\ OthersSame(d)
    BY <1>1, <1>3, <2>1 DEF BringUp!Places, BringUp!Lines, BringUp!IInv, BringUp!TypeOK, OthersSame
  <2>5. (v13 => v13') /\ v17'[d] \notin {0, 4}
    BY <1>1, <1>2, <1>3
  <2> QED
    BY <1>1, <2>2, <2>3, <2>4, <2>5, ScriptKeeps
<1>4. CASE /\ BringUp!Say(d, "not_converged") /\ BringUp!Goto(d, "over")
           /\ v17' = [v17 EXCEPT ![d] = 3] /\ v16' = [v16 EXCEPT ![d] = "not_converged"]
  <2>1. v3' = [v3 EXCEPT ![d] = "over"] /\ v15' = [v15 EXCEPT ![d] = <<"not_converged">>]
    BY <1>2, <1>4 DEF BringUp!Say, BringUp!Goto
  <2>2. BringUp!CheckIsCurrent'
    BY <1>1, <1>4, <2>1 DEF BringUp!IInv, BringUp!TypeOK, BringUp!CheckIsCurrent
  <2>3. BringUp!LogFits(d)'
    BY <1>4, <2>1 DEF BringUp!IInv, BringUp!TypeOK, BringUp!LogFits
  <2>4. BringUp!TypeOK' /\ OthersSame(d)
    BY <1>1, <1>4, <2>1 DEF BringUp!Places, BringUp!Ends, BringUp!Lines, BringUp!IInv, BringUp!TypeOK, OthersSame
  <2>5. (v13 => v13') /\ v17'[d] \notin {0, 4}
    BY <1>1, <1>4 DEF BringUp!IInv, BringUp!TypeOK
  <2> QED
    BY <1>1, <2>2, <2>3, <2>4, <2>5, ScriptKeeps
<1> QED
  BY <1>3, <1>4 DEF BringUp!Converge

LEMMA CrcKeeps == ASSUME BringUp!IInv, NEW d \in BringUp!Dies, BringUp!Crc(d) PROVE BringUp!IInv'
<1>1. v3[d] = "crc" /\ v3' = [v3 EXCEPT ![d] = "anchor"] /\ UNCHANGED <<v1, v12, v13, v14, v15, v16, v17, v18>>
  BY DEF BringUp!Crc, BringUp!Goto, BringUp!Rest
<1>2. v15[d] = <<"up">> /\ v16[d] = "none" /\ v17[d] = 99
  BY <1>1 DEF BringUp!IInv, BringUp!LogIsCurrent, BringUp!LogFits, BringUp!Before, BringUp!CheckIsCurrent,
     BringUp!None
<1>3. BringUp!CheckIsCurrent'
  BY <1>1 DEF BringUp!IInv, BringUp!TypeOK, BringUp!CheckIsCurrent
<1>4. BringUp!LogFits(d)'
  BY <1>1, <1>2 DEF BringUp!IInv, BringUp!TypeOK, BringUp!LogFits
<1>5. BringUp!TypeOK' /\ OthersSame(d)
  BY <1>1 DEF BringUp!Places, BringUp!IInv, BringUp!TypeOK, OthersSame
<1>6. (v13 => v13') /\ v17'[d] \notin {0, 4}
  BY <1>1, <1>2
<1> QED
  BY <1>1, <1>3, <1>4, <1>5, <1>6, ScriptKeeps

LEMMA AnchorPollKeeps == ASSUME BringUp!IInv, NEW d \in BringUp!Dies, BringUp!AnchorPoll(d) PROVE BringUp!IInv'
<1>1. v3[d] = "anchor" /\ UNCHANGED <<v1, v12, v13, v14, v18>>
  BY DEF BringUp!AnchorPoll, BringUp!hardware, BringUp!Rest
<1>2. v15[d] = <<"up">> /\ v17[d] = 99
  BY <1>1 DEF BringUp!IInv, BringUp!LogIsCurrent, BringUp!LogFits, BringUp!Before, BringUp!CheckIsCurrent,
     BringUp!None
<1>3. PICK e \in BringUp!Anchors :
         v15' = [v15 EXCEPT ![d] = Append(@, e)] /\ v16' = [v16 EXCEPT ![d] = e]
  BY DEF BringUp!AnchorPoll, BringUp!Say, BringUp!Anchors
<1>4. v15' = [v15 EXCEPT ![d] = <<"up", e>>]
  <2>1. Append(<<"up">>, e) = <<"up", e>>
    BY AppendSecond
  <2>2. Append(v15[d], e) = Append(<<"up">>, e)
    BY <1>2
  <2> QED
    BY <1>3, <2>1, <2>2, Zenon
<1>5. PICK c \in {0, 4, 99} : v17' = [v17 EXCEPT ![d] = c] /\ (d = v1.traffic => c = 99)
  BY <1>2 DEF BringUp!AnchorPoll
<1>6. v3' = [v3 EXCEPT ![d] = IF d = v1.traffic THEN "traffic1" ELSE "over"]
  BY DEF BringUp!AnchorPoll, BringUp!Goto
<1>7. BringUp!CheckIsCurrent'
  BY <1>1, <1>5, <1>6 DEF BringUp!IInv, BringUp!TypeOK, BringUp!CheckIsCurrent, BringUp!None
<1>8. v15'[d] = <<"up", e>> /\ v16'[d] = e /\ v17'[d] = c /\ v3'[d] \in {"traffic1", "over"}
  <2>1. v15'[d] = <<"up", e>>
    BY <1>4 DEF BringUp!IInv, BringUp!TypeOK
  <2>2. v16'[d] = e /\ v17'[d] = c
    BY <1>3, <1>5 DEF BringUp!IInv, BringUp!TypeOK
  <2>3. v3'[d] \in {"traffic1", "over"}
    BY <1>6 DEF BringUp!IInv, BringUp!TypeOK
  <2> QED
    BY <2>1, <2>2, <2>3
<1>9. BringUp!LogFits(d)'
  BY <1>3, <1>8 DEF BringUp!LogFits
<1>10. BringUp!TypeOK'
  <2>1. <<"up", e>> \in Seq(BringUp!Lines) /\ e \in BringUp!Ends /\ c \in Nat
    BY <1>3, <1>5 DEF BringUp!Lines, BringUp!Ends
  <2>2. v15' \in [BringUp!Dies -> Seq(BringUp!Lines)] /\ v16' \in [BringUp!Dies -> BringUp!Ends]
    BY <1>3, <1>4, <2>1 DEF BringUp!IInv, BringUp!TypeOK
  <2>3. v17' \in [BringUp!Dies -> Nat] /\ v3' \in [BringUp!Dies -> BringUp!Places]
    BY <1>5, <1>6, <2>1 DEF BringUp!IInv, BringUp!TypeOK, BringUp!Places
  <2> QED
    BY <1>1, <2>2, <2>3 DEF BringUp!IInv, BringUp!TypeOK
<1>11. OthersSame(d)
  BY <1>3, <1>4, <1>5, <1>6 DEF BringUp!IInv, BringUp!TypeOK, OthersSame
<1>12. (v13 => v13') /\ (d = v1.traffic => v17'[d] \notin {0, 4})
  BY <1>1, <1>5, <1>8
<1> QED
  BY <1>1, <1>7, <1>9, <1>10, <1>11, <1>12, ScriptKeeps

(* The second word can only match when it landed, or when the first one    *)
(* did not count: two matches are never both old.                          *)
LEMMA BringTrafficKeeps == ASSUME BringUp!IInv, NEW d \in BringUp!Dies, BringUp!traffic_check(d) PROVE BringUp!IInv'
<1> DEFINE last == v3[d] = "traffic2"
<1> DEFINE w == BringUp!CheckWord(v3[d])
<1> DEFINE good == IF v16[d] = "reanchored" THEN 0 ELSE 4
<1> DEFINE Verdict(n) == IF last THEN [v17 EXCEPT ![d] = IF n = 2 THEN good ELSE 5] ELSE v17
<1>1. v3[d] \in {"traffic1", "traffic2"} /\ UNCHANGED <<v1, v15, v16, v18>>
  BY DEF BringUp!traffic_check, BringUp!Rest
<1>2. d = v1.traffic /\ v17[d] = 99 /\ v16[d] \in BringUp!Anchors /\ v15[d] = <<"up", v16[d]>>
  BY <1>1 DEF BringUp!IInv, BringUp!LogIsCurrent, BringUp!LogFits, BringUp!Before, BringUp!CheckIsCurrent,
     BringUp!None
<1>3. CASE v17' = [v17 EXCEPT ![d] = 5] /\ BringUp!Goto(d, "over") /\ UNCHANGED <<v12, v13, v14>>
  <2>1. v3' = [v3 EXCEPT ![d] = "over"]
    BY <1>3 DEF BringUp!Goto
  <2>2. BringUp!CheckIsCurrent'
    BY <1>1, <1>3, <2>1 DEF BringUp!IInv, BringUp!TypeOK, BringUp!CheckIsCurrent
  <2>3. BringUp!LogFits(d)'
    BY <1>1, <1>2, <2>1 DEF BringUp!IInv, BringUp!TypeOK, BringUp!LogFits
  <2>4. BringUp!TypeOK' /\ OthersSame(d)
    BY <1>1, <1>3, <2>1 DEF BringUp!Places, BringUp!IInv, BringUp!TypeOK, OthersSame
  <2>5. (v13 => v13') /\ v17'[d] \notin {0, 4}
    BY <1>3 DEF BringUp!IInv, BringUp!TypeOK
  <2> QED
    BY <1>1, <2>2, <2>3, <2>4, <2>5, ScriptKeeps
<1>4. ASSUME NEW drop \in BOOLEAN,
             v12' = (IF drop THEN v12 ELSE w), v13' = (v13 \/ ~drop),
             v14' = v14 + (IF ~drop \/ v12 = w THEN 1 ELSE 0), v17' = Verdict(v14'),
             BringUp!Goto(d, IF last THEN "over" ELSE "traffic2")
      PROVE  BringUp!IInv'
  <2>1. v3' = [v3 EXCEPT ![d] = IF last THEN "over" ELSE "traffic2"]
    BY <1>4 DEF BringUp!Goto
  <2>2. v13' \in BOOLEAN /\ (v13 => v13')
    BY <1>4 DEF BringUp!IInv, BringUp!TypeOK
  <2>3. CASE v3[d] = "traffic1"
    <3>1. v14 = 0 /\ w = "w1" /\ ~last /\ v17' = v17
      BY <1>2, <1>4, <2>3 DEF BringUp!IInv, BringUp!CheckIsCurrent, BringUp!CheckWord
    <3>2. v14' \in {0, 1} /\ (v14' = 1 /\ ~v13' => v12' = "w1")
      <4>1. v14' \in {0, 1} /\ (v14' = 1 => ~drop \/ v12 = w)
        BY <1>4, <3>1
      <4> QED
        BY <1>4, <3>1, <4>1 DEF BringUp!IInv, BringUp!TypeOK
    <3>3. BringUp!CheckIsCurrent'
      BY <1>1, <1>2, <2>1, <2>3, <3>1, <3>2 DEF BringUp!IInv, BringUp!TypeOK, BringUp!CheckIsCurrent, BringUp!None
    <3>4. v3' = [v3 EXCEPT ![d] = "traffic2"]
      BY <2>1, <3>1
    <3>5. BringUp!LogFits(d)'
      BY <1>1, <1>2, <3>4 DEF BringUp!IInv, BringUp!TypeOK, BringUp!LogFits
    <3>6. BringUp!TypeOK' /\ OthersSame(d)
      BY <1>1, <2>2, <3>1, <3>4 DEF BringUp!Places, BringUp!IInv, BringUp!TypeOK, OthersSame
    <3>7. v17'[d] \notin {0, 4}
      BY <1>2, <3>1
    <3> QED
      BY <1>1, <2>2, <3>3, <3>5, <3>6, <3>7, ScriptKeeps
  <2>4. CASE v3[d] = "traffic2"
    <3>1. v14 \in {0, 1} /\ (v14 = 1 /\ ~v13 => v12 = "w1") /\ w = "w2" /\ last
      BY <2>4 DEF BringUp!IInv, BringUp!CheckIsCurrent, BringUp!CheckWord
    <3>2. v17' = [v17 EXCEPT ![d] = IF v14' = 2 THEN good ELSE 5]
      BY <1>4, <3>1
    <3>3. v14' = 2 => v13'
      <4>1. v14' = 2 => v14 = 1 /\ (~drop \/ v12 = w)
        BY <1>4, <3>1
      <4> QED
        BY <1>4, <3>1, <4>1 DEF BringUp!IInv, BringUp!TypeOK
    <3>4. v17'[d] \in {0, 4} => v13'
      BY <3>2, <3>3 DEF BringUp!IInv, BringUp!TypeOK
    <3>5. BringUp!CheckIsCurrent'
      BY <1>1, <1>2, <2>1, <2>4, <3>2 DEF BringUp!IInv, BringUp!TypeOK, BringUp!CheckIsCurrent
    <3>6. v3' = [v3 EXCEPT ![d] = "over"]
      BY <2>1, <3>1
    <3>7. BringUp!LogFits(d)'
      BY <1>1, <1>2, <3>6 DEF BringUp!IInv, BringUp!TypeOK, BringUp!LogFits
    <3>8. v17' \in [BringUp!Dies -> Nat]
      BY <3>2 DEF BringUp!IInv, BringUp!TypeOK
    <3>9. BringUp!TypeOK' /\ OthersSame(d)
      BY <1>1, <2>2, <3>2, <3>6, <3>8 DEF BringUp!Places, BringUp!IInv, BringUp!TypeOK, OthersSame
    <3> QED
      BY <1>1, <2>2, <3>4, <3>5, <3>7, <3>9, ScriptKeeps
  <2> QED
    BY <1>1, <2>3, <2>4
<1> QED
  BY <1>3, <1>4 DEF BringUp!traffic_check

LEMMA KilledKeeps == ASSUME BringUp!IInv, NEW d \in BringUp!Dies, BringUp!Killed(d) PROVE BringUp!IInv'
<1>1. v3[d] # "over" /\ v3' = [v3 EXCEPT ![d] = "over"] /\ UNCHANGED <<v1, v12, v13, v14, v15, v18>>
  BY DEF BringUp!Killed, BringUp!Goto, BringUp!hardware, BringUp!Rest
<1>2. /\ v17' = [v17 EXCEPT ![d] = 124]
      /\ v16' = [v16 EXCEPT ![d] = IF @ = "none" THEN "killed" ELSE @]
  BY DEF BringUp!Killed
<1>3. BringUp!CheckIsCurrent'
  BY <1>1, <1>2 DEF BringUp!IInv, BringUp!TypeOK, BringUp!CheckIsCurrent
<1>4. BringUp!LogFits(d)'
  BY <1>1, <1>2 DEF BringUp!IInv, BringUp!TypeOK, BringUp!LogIsCurrent, BringUp!LogFits, BringUp!Anchors
<1>5. BringUp!TypeOK' /\ OthersSame(d)
  BY <1>1, <1>2 DEF BringUp!Places, BringUp!Ends, BringUp!IInv, BringUp!TypeOK, OthersSame
<1>6. (v13 => v13') /\ v17'[d] \notin {0, 4}
  BY <1>1, <1>2 DEF BringUp!IInv, BringUp!TypeOK
<1> QED
  BY <1>1, <1>3, <1>4, <1>5, <1>6, ScriptKeeps

(* What the gate reads in a log is how its script ended this try. *)
LEMMA GateReadsTheTry ==
    ASSUME BringUp!IInv, NEW d \in BringUp!Dies, v3[d] = "over"
    PROVE  LET p == BringUp!parse_bringup_log(v15[d])
           IN  /\ p.linkup = "YES" => v16[d] \in {"reanchored", "linkup_no_anchor", "killed"}
               /\ p.linkup \in {"YES", "NO", "?"} /\ p.reanchored \in {"YES", "NO", "?"}
               /\ p.reanchored = "YES" <=> v16[d] = "reanchored"
               /\ p.reanchored = "NO" <=> v16[d] = "linkup_no_anchor"
<1> DEFINE lines == v15[d]
<1> DEFINE terminal == {k \in DOMAIN lines : lines[k] # "up"}
<1> DEFINE last == lines[CHOOSE k \in terminal : \A j \in terminal : j <= k]
<1>1. BringUp!parse_bringup_log(lines) =
        IF terminal = {}
          THEN [linkup |-> IF lines = << >> THEN "?" ELSE "YES", reanchored |-> "?"]
          ELSE [linkup |-> IF last = "not_converged" THEN "NO" ELSE "YES",
                reanchored |-> IF last = "reanchored" THEN "YES"
                               ELSE IF last = "linkup_no_anchor" THEN "NO" ELSE "?"]
  BY DEF BringUp!parse_bringup_log
<1>2. \/ v16[d] \in BringUp!Anchors /\ lines = <<"up", v16[d]>>
      \/ v16[d] = "no_hold" /\ lines = << >>
      \/ v16[d] = "not_converged" /\ lines = <<"not_converged">>
      \/ v16[d] = "killed" /\ lines \in {<< >>, <<"up">>}
  BY DEF BringUp!IInv, BringUp!LogIsCurrent, BringUp!LogFits, BringUp!Before
<1>3. CASE v16[d] \in BringUp!Anchors /\ lines = <<"up", v16[d]>>
  <2>1. terminal = {2}
    BY <1>3 DEF BringUp!Anchors
  <2>2. last = v16[d]
    BY <1>3, <2>1
  <2> QED
    BY <1>1, <1>3, <2>1, <2>2 DEF BringUp!Anchors
<1>4. CASE v16[d] = "not_converged" /\ lines = <<"not_converged">>
  <2>1. terminal = {1}
    BY <1>4
  <2>2. last = "not_converged"
    BY <1>4, <2>1
  <2> QED
    BY <1>1, <1>4, <2>1, <2>2
<1>5. CASE v16[d] = "no_hold" /\ lines = << >>
  <2>1. terminal = {}
    BY <1>5
  <2> QED
    BY <1>1, <1>5, <2>1
<1>6. CASE v16[d] = "killed" /\ lines \in {<< >>, <<"up">>}
  <2>1. terminal = {}
    BY <1>6
  <2> QED
    BY <1>1, <1>6, <2>1
<1> QED
  BY <1>2, <1>3, <1>4, <1>5, <1>6

LEMMA GateKeeps == ASSUME BringUp!IInv, BringUp!Gate PROVE BringUp!IInv'
<1>1. v18 = "none" /\ (\A d \in BringUp!Dies : v3[d] = "over") /\ UNCHANGED <<v1, v12>>
  BY DEF BringUp!Gate
<1>2. CASE /\ (BringUp!gate_from_logs = "ACCEPT" /\ v18' = "ACCEPT") \/ v18' = "EXHAUSTED"
           /\ UNCHANGED <<v2, v3, v15, v16, v17, v13, v14>>
  <2>1. BringUp!TypeOK' /\ BringUp!LogIsCurrent' /\ BringUp!CheckIsCurrent' /\ BringUp!TrafficProves'
    BY <1>1, <1>2 DEF BringUp!IInv, BringUp!TypeOK, BringUp!LogIsCurrent, BringUp!LogFits, BringUp!CheckIsCurrent,
       BringUp!TrafficProves
  <2>2. ASSUME BringUp!gate_from_logs = "ACCEPT" PROVE BringUp!AcceptIsCurrent'
    <3> DEFINE a == BringUp!parse_bringup_log(v15["a"])
    <3> DEFINE b == BringUp!parse_bringup_log(v15["b"])
    <3>1. BringUp!classify(a, b, v1.mode) = "ACCEPT"
      BY <2>2 DEF BringUp!gate_from_logs
    <3>2. "a" \in BringUp!Dies /\ "b" \in BringUp!Dies
      BY TwoDies
    <3>3. /\ a.linkup = "YES" => v16["a"] \in {"reanchored", "linkup_no_anchor", "killed"}
          /\ a.linkup \in {"YES", "NO", "?"} /\ a.reanchored \in {"YES", "NO", "?"}
          /\ a.reanchored = "YES" <=> v16["a"] = "reanchored"
          /\ a.reanchored = "NO" <=> v16["a"] = "linkup_no_anchor"
      BY <1>1, <3>2, GateReadsTheTry
    <3>4. /\ b.linkup = "YES" => v16["b"] \in {"reanchored", "linkup_no_anchor", "killed"}
          /\ b.linkup \in {"YES", "NO", "?"} /\ b.reanchored \in {"YES", "NO", "?"}
          /\ b.reanchored = "YES" <=> v16["b"] = "reanchored"
          /\ b.reanchored = "NO" <=> v16["b"] = "linkup_no_anchor"
      BY <1>1, <3>2, GateReadsTheTry
    <3> HIDE DEF a, b
    <3>5. a.linkup = "YES" /\ b.linkup = "YES"
      BY <3>1, <3>3, <3>4 DEF BringUp!classify
    <3>6. v1.mode # "off" => /\ a.reanchored \in {"YES", "NO"} /\ b.reanchored \in {"YES", "NO"}
                             /\ ~(a.reanchored = "YES" /\ b.reanchored = "NO")
      BY <3>1, <3>3, <3>4 DEF BringUp!classify
    <3> QED
      BY <1>1, <1>2, <3>3, <3>4, <3>5, <3>6, TwoDies DEF BringUp!AcceptIsCurrent
  <2>3. ASSUME BringUp!gate_from_logs # "ACCEPT" PROVE BringUp!AcceptIsCurrent'
    BY <1>2, <2>3 DEF BringUp!AcceptIsCurrent
  <2> QED
    BY <1>1, <1>2, <2>1, <2>2, <2>3 DEF BringUp!IInv, BringUp!TypeOK
<1>3. CASE /\ UNCHANGED v18 /\ v3' = [d \in BringUp!Dies |-> "role"]
           /\ v15' = [d \in BringUp!Dies |-> << >>]
           /\ v16' = [d \in BringUp!Dies |-> "none"] /\ v17' = [d \in BringUp!Dies |-> BringUp!None]
           /\ v13' = FALSE /\ v14' = 0
  <2>1. BringUp!TypeOK'
    BY <1>1, <1>3, NoLines DEF BringUp!TypeOK, BringUp!Places, BringUp!Before, BringUp!Ends, BringUp!None
  <2>2. BringUp!LogIsCurrent'
    BY <1>3 DEF BringUp!LogIsCurrent, BringUp!LogFits, BringUp!Before
  <2>3. BringUp!CheckIsCurrent'
    BY <1>3 DEF BringUp!CheckIsCurrent
  <2>4. BringUp!TrafficProves'
    BY <1>3 DEF BringUp!TrafficProves, BringUp!None
  <2> QED
    BY <1>1, <1>3, <2>1, <2>2, <2>3, <2>4 DEF BringUp!IInv, BringUp!AcceptIsCurrent
<1> QED
  BY <1>2, <1>3 DEF BringUp!Gate

LEMMA BringStep == ASSUME BringUp!IInv, BringUp!Next PROVE BringUp!IInv'
<1>1. "a" \in BringUp!Dies
  BY TwoDies
<1> QED
  BY <1>1, HardwareKeeps, GateKeeps, EarlyStep, WaitHoldKeeps, ConvergeKeeps, CrcKeeps, AnchorPollKeeps, BringTrafficKeeps,
     KilledKeeps DEF BringUp!Next

LEMMA BringStutters == BringUp!IInv /\ UNCHANGED BringUp!vars => BringUp!IInv'
BY BringSame DEF BringUp!vars, Told

-----------------------------------------------------------------------------
(* The cross-die regression *)

LEMMA PlaneIs ==
    Regress!DataPlane = {"sram_fwd_send", "sram_fwd_recv", "sram_rev_send", "sram_rev_recv", "mailbox_send",
        "mailbox_recv", "mailbox_rev_send", "mailbox_rev_recv", "soak_run", "soak_rev_run", "rtt"}
BY DEF Regress!DataPlane, Regress!Behind

LEMMA BehindIs ==
    /\ Regress!Behind["sram_fwd_send"] = {} /\ Regress!Behind["sram_fwd_recv"] = {}
    /\ Regress!Behind["sram_rev_send"] = {"sram_fwd"} /\ Regress!Behind["sram_rev_recv"] = {"sram_fwd"}
    /\ Regress!Behind["mailbox_send"] = {"sram_fwd", "sram_rev"}
    /\ Regress!Behind["mailbox_recv"] = {"sram_fwd", "sram_rev"}
    /\ Regress!Behind["mailbox_rev_send"] = {"sram_fwd", "sram_rev", "mailbox"}
    /\ Regress!Behind["mailbox_rev_recv"] = {"sram_fwd", "sram_rev", "mailbox"}
    /\ Regress!Behind["soak_run"] = {"sram_fwd", "sram_rev", "mailbox", "mailbox_rev"}
    /\ Regress!Behind["soak_rev_run"] = {"sram_fwd", "sram_rev", "mailbox", "mailbox_rev", "soak"}
    /\ Regress!Behind["rtt"] = Regress!Tests
BY DEF Regress!Behind

LEMMA TransfersAre ==
    /\ DOMAIN Regress!Transfers = {"sram_fwd", "sram_rev", "mailbox", "mailbox_rev"}
    /\ Regress!Transfers["sram_fwd"].next = "sram_rev_send" /\ Regress!Transfers["sram_rev"].next = "mailbox_send"
    /\ Regress!Transfers["mailbox"].next = "mailbox_rev_send" /\ Regress!Transfers["mailbox_rev"].next = "soak_run"
    /\ Regress!Place["sram_fwd"].send = "sram_fwd_send" /\ Regress!Place["sram_fwd"].recv = "sram_fwd_recv"
    /\ Regress!Place["sram_rev"].send = "sram_rev_send" /\ Regress!Place["sram_rev"].recv = "sram_rev_recv"
    /\ Regress!Place["mailbox"].send = "mailbox_send" /\ Regress!Place["mailbox"].recv = "mailbox_recv"
    /\ Regress!Place["mailbox_rev"].send = "mailbox_rev_send" /\ Regress!Place["mailbox_rev"].recv = "mailbox_rev_recv"
BY DEF Regress!Transfers, Regress!Place

LEMMA GateStarts == Regress!RegressInit => Regress!GateInv
<1> SUFFICES ASSUME Regress!RegressInit PROVE Regress!GateInv
  OBVIOUS
<1>1. PICK o \in Regress!Options : Regress!Fresh(o)
  BY DEF Regress!RegressInit
<1> QED
  BY <1>1, PlaneIs DEF Regress!Fresh, Regress!GateInv, Regress!TypeOK, Regress!PlaneIsGated, Regress!TestsOnRecord,
     Regress!NoBlindTraffic, Regress!AllPassed

(* A step of the config plane or of the gates: no traffic, no witness. *)
LEMMA ConfigKeeps ==
    ASSUME Regress!GateInv,
           \/ Regress!t_provenance \/ Regress!t_deploy \/ Regress!t_link_bringup \/ Regress!t_link_verify
           \/ Regress!t_backdoor \/ Regress!t_role
    PROVE  Regress!GateInv'
<1> USE DEF Regress!GateInv, Regress!Step, Regress!Kept, Regress!NoTraffic
<1>1. Regress!TypeOK'
  BY DEF Regress!TypeOK, Regress!t_provenance, Regress!t_deploy, Regress!t_link_bringup, Regress!t_link_verify,
     Regress!t_backdoor, Regress!t_role
<1>2. ~v17' /\ v14' = {} /\ v18' = "running"
  <2>1. v9 \in {"provenance", "deploy", "bringup", "verify", "backdoor", "config"} /\ UNCHANGED <<v14, v17, v18>>
    BY DEF Regress!t_provenance, Regress!t_deploy, Regress!t_link_bringup, Regress!t_link_verify,
       Regress!t_backdoor, Regress!t_role
  <2> QED
    BY <2>1
<1>3. v9' \in {"deploy", "verify", "bringup", "summary", "config", "backdoor", "tidechart", "interlock"}
  BY DEF Regress!t_provenance, Regress!t_deploy, Regress!t_link_bringup, Regress!t_link_verify,
     Regress!t_backdoor, Regress!t_role
<1>4. v9' = "interlock" => v12' /\ ~v8'.config_only
  BY DEF Regress!TypeOK, Regress!t_provenance, Regress!t_deploy, Regress!t_link_bringup, Regress!t_link_verify,
     Regress!t_backdoor, Regress!t_role
<1> QED
  BY <1>1, <1>2, <1>3, <1>4, PlaneIs DEF Regress!PlaneIsGated, Regress!TestsOnRecord, Regress!NoBlindTraffic,
     Regress!AllPassed

LEMMA InterlockKeeps == ASSUME Regress!GateInv, Regress!t_dataplane_interlock PROVE Regress!GateInv'
<1>1. v9 = "interlock" /\ v12 /\ ~v8.config_only /\ ~v17 /\ v14 = {} /\ v18 = "running"
  BY DEF Regress!t_dataplane_interlock, Regress!GateInv, Regress!PlaneIsGated
<1>2. PICK ok \in BOOLEAN : v15' = ok /\ v9' = (IF ok THEN "sram_fwd_send" ELSE "tidechart")
  BY DEF Regress!t_dataplane_interlock, Regress!Step
<1>3. UNCHANGED <<v8, v12, v14, v17, v18>>
  BY DEF Regress!t_dataplane_interlock, Regress!Kept
<1> QED
  BY <1>1, <1>2, <1>3, PlaneIs, BehindIs DEF Regress!GateInv, Regress!TypeOK, Regress!PlaneIsGated, Regress!TestsOnRecord,
     Regress!NoBlindTraffic, Regress!AllPassed

(* In the data plane: the step ends in it, its test is on record, and the  *)
(* gates are as they were.                                                 *)
LEMMA PlaneKeeps ==
    ASSUME Regress!GateInv, v9 \in Regress!DataPlane, v9' \in Regress!DataPlane \cup {"tidechart"},
           UNCHANGED <<v8, v12, v15, v18>>, v17' \in BOOLEAN,
           v9' \in Regress!DataPlane => Regress!Behind[v9'] \subseteq v10' \cup v11',
           v9' = "tidechart" => Regress!Tests \subseteq v10' \cup v11'
    PROVE  Regress!GateInv'
<1>1. v12 /\ v15 /\ ~v8.config_only /\ v18 = "running"
  BY PlaneIs DEF Regress!GateInv, Regress!PlaneIsGated
<1> QED
  BY <1>1, PlaneIs DEF Regress!GateInv, Regress!TypeOK, Regress!PlaneIsGated, Regress!TestsOnRecord,
     Regress!NoBlindTraffic, Regress!AllPassed

LEMMA RegressRecorded ==
    ASSUME NEW name, NEW ok \in BOOLEAN, Regress!Record(name, ok, TRUE)
    PROVE  v10 \cup v11 \cup {name} \subseteq v10' \cup v11'
BY DEF Regress!Record

LEMMA RegressSendKeeps ==
    ASSUME Regress!GateInv, NEW t \in DOMAIN Regress!Transfers, Regress!TestSend(t) PROVE Regress!GateInv'
<1>1. /\ v9 = Regress!Place[t].send /\ v9' = Regress!Place[t].recv
      /\ UNCHANGED <<v8, v10, v11, v12, v15, v18>> /\ (v17' = TRUE \/ v17' = v17)
  BY DEF Regress!TestSend, Regress!Step, Regress!Kept
<1>2. v17' \in BOOLEAN
  BY <1>1 DEF Regress!GateInv, Regress!TypeOK
<1>3. v9 \in Regress!DataPlane /\ v9' \in Regress!DataPlane /\ Regress!Behind[v9'] = Regress!Behind[v9]
  <2>1. CASE t = "sram_fwd"
    BY <1>1, <2>1, TransfersAre, PlaneIs, BehindIs
  <2>2. CASE t = "sram_rev"
    BY <1>1, <2>2, TransfersAre, PlaneIs, BehindIs
  <2>3. CASE t = "mailbox"
    BY <1>1, <2>3, TransfersAre, PlaneIs, BehindIs
  <2>4. CASE t = "mailbox_rev"
    BY <1>1, <2>4, TransfersAre, PlaneIs, BehindIs
  <2> QED
    BY <2>1, <2>2, <2>3, <2>4, TransfersAre
<1> QED
  BY <1>1, <1>2, <1>3, PlaneIs, PlaneKeeps DEF Regress!GateInv, Regress!TestsOnRecord

LEMMA RecvKeeps ==
    ASSUME Regress!GateInv, NEW t \in DOMAIN Regress!Transfers, Regress!TestRecv(t) PROVE Regress!GateInv'
<1>1. /\ v9 = Regress!Place[t].recv /\ v9' = Regress!Transfers[t].next
      /\ UNCHANGED <<v8, v12, v15, v17, v18>>
  BY DEF Regress!TestRecv, Regress!Step, Regress!Kept
<1>2. PICK heard \in BOOLEAN : Regress!Record(t, heard /\ v5'.rc = 0, TRUE)
  BY DEF Regress!TestRecv
<1>3. v10 \cup v11 \cup {t} \subseteq v10' \cup v11'
  BY <1>2, RegressRecorded
<1>4. v9 \in Regress!DataPlane /\ v9' \in Regress!DataPlane /\ Regress!Behind[v9'] = Regress!Behind[v9] \cup {t}
  BY <1>1, TransfersAre, PlaneIs, BehindIs
<1>5. v17' \in BOOLEAN
  BY <1>1 DEF Regress!GateInv, Regress!TypeOK
<1>6. Regress!Behind[v9'] \subseteq v10' \cup v11'
  BY <1>3, <1>4 DEF Regress!GateInv, Regress!TestsOnRecord
<1> QED
  BY <1>1, <1>4, <1>5, <1>6, PlaneIs, PlaneKeeps

LEMMA SoakKeeps ==
    ASSUME Regress!GateInv,
           \/ Regress!_soak_once("soak_run", "soak", "a", "soak_rev_run")
           \/ Regress!_soak_once("soak_rev_run", "soak_rev", "b", IF v8.peer_read THEN "rtt" ELSE "tidechart")
    PROVE  Regress!GateInv'
<1>1. ASSUME NEW place, NEW name, NEW d, NEW next, Regress!_soak_once(place, name, d, next),
             place \in Regress!DataPlane, next \in Regress!DataPlane \cup {"tidechart"},
             next \in Regress!DataPlane => Regress!Behind[next] \subseteq Regress!Behind[place] \cup {name},
             next = "tidechart" => Regress!Tests \subseteq Regress!Behind[place] \cup {name}
      PROVE  Regress!GateInv'
  <2>1. /\ v9 = place /\ v9' = next /\ UNCHANGED <<v8, v12, v15, v18>> /\ (v17' = TRUE \/ v17' = v17)
    BY <1>1 DEF Regress!_soak_once, Regress!Step, Regress!Kept
  <2>2. PICK ok \in BOOLEAN : Regress!Record(name, ok, TRUE)
    BY <1>1 DEF Regress!_soak_once
  <2>3. v10 \cup v11 \cup {name} \subseteq v10' \cup v11'
    BY <2>2, RegressRecorded
  <2>4. v17' \in BOOLEAN
    BY <2>1 DEF Regress!GateInv, Regress!TypeOK
  <2>5. Regress!Behind[place] \subseteq v10 \cup v11
    BY <1>1, <2>1 DEF Regress!GateInv, Regress!TestsOnRecord
  <2> QED
    BY <1>1, <2>1, <2>3, <2>4, <2>5, PlaneKeeps
<1>2. CASE Regress!_soak_once("soak_run", "soak", "a", "soak_rev_run")
  BY <1>1, <1>2, PlaneIs, BehindIs
<1>3. CASE Regress!_soak_once("soak_rev_run", "soak_rev", "b", IF v8.peer_read THEN "rtt" ELSE "tidechart")
  <2> DEFINE next == IF v8.peer_read THEN "rtt" ELSE "tidechart"
  <2>1. next \in {"rtt", "tidechart"}
    OBVIOUS
  <2>2. Regress!Tests = Regress!Behind["soak_rev_run"] \cup {"soak_rev"}
    BY BehindIs DEF Regress!Tests
  <2>3. next \in Regress!DataPlane => next = "rtt"
    BY <2>1, PlaneIs
  <2>4. Regress!_soak_once("soak_rev_run", "soak_rev", "b", next)
    BY <1>3
  <2> HIDE DEF next
  <2> QED
    BY <1>1, <2>1, <2>2, <2>3, <2>4, PlaneIs, BehindIs
<1> QED
  BY <1>2, <1>3

LEMMA RttKeeps == ASSUME Regress!GateInv, Regress!t_sram_rtt PROVE Regress!GateInv'
<1>1. v9 = "rtt" /\ v9' = "tidechart" /\ UNCHANGED <<v8, v12, v15, v18>> /\ v17' = TRUE
  BY DEF Regress!t_sram_rtt, Regress!Step, Regress!Kept
<1>2. v10 \subseteq v10' /\ v11 \subseteq v11'
  BY DEF Regress!t_sram_rtt, Regress!Record
<1> QED
  BY <1>1, <1>2, PlaneIs, BehindIs, PlaneKeeps DEF Regress!GateInv, Regress!TestsOnRecord

LEMMA EndKeeps == ASSUME Regress!GateInv, Regress!t_tidechart \/ Regress!summary \/ Regress!main PROVE Regress!GateInv'
<1>1. CASE Regress!t_tidechart
  <2>1. /\ v9 = "tidechart" /\ v9' = "summary" /\ UNCHANGED <<v8, v12, v14, v15, v17, v18>>
        /\ v10 \subseteq v10' /\ v11 \subseteq v11'
    BY <1>1 DEF Regress!t_tidechart, Regress!Step, Regress!Kept, Regress!NoTraffic, Regress!Record
  <2> QED
    BY <2>1, PlaneIs DEF Regress!GateInv, Regress!TypeOK, Regress!PlaneIsGated, Regress!TestsOnRecord,
       Regress!NoBlindTraffic, Regress!AllPassed
<1>2. CASE Regress!summary
  <2>1. /\ v9 = "summary" /\ v9' = "over" /\ UNCHANGED <<v8, v10, v11, v12, v14, v15, v17>>
        /\ v18' = (IF Regress!summary_ok THEN "ok" ELSE "bad")
    BY <1>2 DEF Regress!summary, Regress!Step, Regress!NoTraffic
  <2>2. Regress!summary_ok => (v8.config_only /\ ~v17) \/ Regress!Tests \subseteq v10
    BY <2>1, PlaneIs DEF Regress!summary_ok, Regress!GateInv, Regress!TestsOnRecord, Regress!NoBlindTraffic
  <2>3. Regress!AllPassed'
    BY <2>1, <2>2 DEF Regress!AllPassed, Regress!Tests
  <2> QED
    BY <2>1, <2>3, PlaneIs DEF Regress!GateInv, Regress!TypeOK, Regress!PlaneIsGated, Regress!TestsOnRecord,
       Regress!NoBlindTraffic
<1>3. CASE Regress!main
  BY <1>3, PlaneIs DEF Regress!main, Regress!GateInv, Regress!TypeOK, Regress!PlaneIsGated, Regress!TestsOnRecord,
     Regress!NoBlindTraffic, Regress!AllPassed
<1> QED
  BY <1>1, <1>2, <1>3

LEMMA GateStep == ASSUME Regress!GateInv, Regress!RegressNext PROVE Regress!GateInv'
BY ConfigKeeps, InterlockKeeps, RegressSendKeeps, RecvKeeps, SoakKeeps, RttKeeps, EndKeeps DEF Regress!RegressNext

LEMMA GateStutters ==
    ASSUME Regress!GateInv, UNCHANGED <<v8, v9, v10, v11, v12, v13, v14, v15, v17, v18>> PROVE Regress!GateInv'
BY DEF Regress!GateInv, Regress!TypeOK, Regress!PlaneIsGated, Regress!TestsOnRecord, Regress!NoBlindTraffic,
   Regress!AllPassed

-----------------------------------------------------------------------------
(* The words the regression moved *)

LEMMA RegLanded == Regress!LANDED \in 0..(RegFold - 1)
BY RegSizes DEF Regress!LANDED

LEMMA RegPeers == \A d \in Regress!Dies : Regress!peer[d] \in Regress!Dies /\ Regress!peer[d] # d
BY DEF Regress!Dies, Regress!peer

LEMMA WordsStart == Regress!RegressInit => Regress!WordInv
<1> SUFFICES ASSUME Regress!RegressInit PROVE Regress!WordInv
  OBVIOUS
<1>1. v14 = {} /\ v7 = 1
  BY DEF Regress!RegressInit, Regress!Fresh
<1>2. /\ v2 = [d \in Regress!Dies |-> [w \in 0..(RegFold - 1) |-> <<"none", 0>>]]
      /\ v3 = [d \in Regress!Dies |-> [data |-> <<"none", 0>>, valid |-> FALSE]]
      /\ v6 = [d \in Regress!Dies |-> "none"]
  BY DEF Regress!RegressInit, Regress!FreshBoard
<1> QED
  BY <1>1, <1>2, RegLanded DEF Regress!WordInv, Regress!WordsAreFresh

(* Nothing is written; a read may have found a word that is fresh. *)
LEMMA WordsSame ==
    ASSUME Regress!WordInv, UNCHANGED <<v2, v3, v6, v7, v16>>, Regress!Blank' => Regress!Blank,
           Regress!Blank => \A x \in v14' : x \in v14 \/ x \in v16
    PROVE  Regress!WordInv'
BY DEF Regress!WordInv, Regress!WordsAreFresh, Regress!LANDED, Regress!Dies

(* A deploy leaves blank memories. *)
LEMMA DeployBlanks == ASSUME Regress!GateInv, Regress!WordInv, Regress!t_deploy PROVE Regress!WordInv'
<1>1. /\ v2' = [d \in Regress!Dies |-> [w \in 0..(RegFold - 1) |-> <<"none", 0>>]]
      /\ v3' = [d \in Regress!Dies |-> [data |-> <<"none", 0>>, valid |-> FALSE]]
      /\ v6' = [d \in Regress!Dies |-> "none"] /\ v7' = v7 /\ v14' = v14
  BY DEF Regress!t_deploy, Regress!Kept
<1>2. v14 = {}
  BY DEF Regress!GateInv, Regress!t_deploy
<1> QED
  BY <1>1, <1>2, RegLanded DEF Regress!WordInv, Regress!WordsAreFresh, Regress!LANDED, Regress!Dies

(* What a process on one die may do to the other's memories. *)
LEMMA WordsWritten ==
    ASSUME Regress!WordInv, NEW p \in Regress!Dies, NEW m, NEW s,
           DOMAIN v2' = Regress!Dies, v2'[p] = m, DOMAIN m = 0..(RegFold - 1),
           DOMAIN v3' = Regress!Dies, v3'[p] = s, DOMAIN v6' = Regress!Dies,
           \A d \in Regress!Dies : d # p => v2'[d] = v2[d] /\ v3'[d] = v3[d],
           UNCHANGED <<v7, v14>>, Regress!Blank' => Regress!Blank, \A x \in v16 : x \in v16',
           m[Regress!LANDED] = <<"word", 0>> => v2[p][Regress!LANDED] = <<"word", 0>> \/ <<p, "recv">> \in v16',
           s.valid => v3[p].valid \/ <<p, "mbox_recv">> \in v16'
    PROVE  Regress!WordInv'
<1>3. \A d \in Regress!Dies : DOMAIN v2'[d] = 0..(RegFold - 1)
  BY DEF Regress!WordInv
<1>4. ASSUME Regress!Blank' PROVE Regress!WordsAreFresh'
  <2>1. Regress!WordsAreFresh
    BY <1>4 DEF Regress!WordInv
  <2>2. \A d \in Regress!Dies : v2'[d][Regress!LANDED] = <<"word", 0>> => <<d, "recv">> \in v16'
    BY <2>1 DEF Regress!WordsAreFresh
  <2>3. \A d \in Regress!Dies : v3'[d].valid => <<d, "mbox_recv">> \in v16'
    BY <2>1 DEF Regress!WordsAreFresh
  <2>4. v14' \subseteq v16'
    BY <2>1 DEF Regress!WordsAreFresh
  <2> QED
    BY <2>2, <2>3, <2>4 DEF Regress!WordsAreFresh, Regress!LANDED, Regress!Dies
<1> QED
  BY <1>3, <1>4 DEF Regress!WordInv, Regress!Dies

LEMMA TransferDies ==
    \A t \in DOMAIN Regress!Transfers :
        /\ Regress!Transfers[t].from \in Regress!Dies
        /\ Regress!Transfers[t].recv \in {"recv", "mbox_recv"}
        /\ Regress!Place[t].send \notin {"provenance", "deploy"}
        /\ Regress!Place[t].recv \notin {"provenance", "deploy"}
BY DEF Regress!Transfers, Regress!Place, Regress!Dies

LEMMA SendDelivers ==
    ASSUME Regress!WordInv, NEW t \in DOMAIN Regress!Transfers, Regress!TestSend(t) PROVE Regress!WordInv'
<1> DEFINE T == Regress!Transfers[t]
           p == Regress!peer[T.from]
<1>0. T.from \in Regress!Dies /\ p \in Regress!Dies /\ T.recv \in {"recv", "mbox_recv"}
  BY TransferDies, RegPeers
<1>1. UNCHANGED <<v7, v8, v14>> /\ (Regress!Blank' => Regress!Blank)
  <2>1. v9 = Regress!Place[t].send /\ UNCHANGED <<v7, v8, v14>>
    BY DEF Regress!TestSend, Regress!Kept
  <2>2. v9 \notin {"provenance", "deploy"}
    BY <2>1, TransferDies
  <2> QED
    BY <2>1, <2>2 DEF Regress!Blank
<1>2. CASE UNCHANGED <<v2, v3, v6, v16>>
  BY <1>1, <1>2, WordsSame
<1>3. CASE ~UNCHANGED <<v2, v3, v6, v16>>
  <2>1. /\ Regress!run_on(T.recv, T.from)
        /\ v16' = IF v5'.rc = 0 /\ v6'[p] = T.recv THEN v16 \cup {<<p, T.recv>>} ELSE v16
    BY <1>3 DEF Regress!TestSend, Regress!vars
  <2>2. DOMAIN v2 = Regress!Dies /\ DOMAIN v3 = Regress!Dies /\ DOMAIN v6 = Regress!Dies
        /\ DOMAIN v2[p] = 0..(RegFold - 1)
    BY <1>0 DEF Regress!WordInv
  <2>3. Regress!_require_link
    BY <1>3, <2>1 DEF Regress!run_on, Regress!do_sender, Regress!do_mbox_send, Regress!Refuses, Regress!board,
       Regress!Exit
  <2>4. \A x \in v16 : x \in v16'
    BY <2>1
  <2>5. CASE T.recv = "recv"
    <3>1. PICK lose \in SUBSET {0} :
            /\ v2' = [v2 EXCEPT ![p][Regress!LANDED] = IF lose = {} THEN <<"word", 0>> ELSE @]
            /\ v5' = [mode |-> "sender", die |-> T.from, rc |-> 0]
            /\ v6' = [v6 EXCEPT ![p] = IF lose = {} THEN "recv" ELSE "none"]
            /\ v3' = v3
      BY <2>1, <2>3, <2>5 DEF Regress!run_on, Regress!do_sender, Regress!Exit, Regress!Earns
    <3> DEFINE m == [v2[p] EXCEPT ![Regress!LANDED] = IF lose = {} THEN <<"word", 0>> ELSE @]
    <3> HIDE DEF T, p
    <3>2. /\ v2'[p] = m /\ v3'[p] = v3[p] /\ DOMAIN m = 0..(RegFold - 1)
          /\ DOMAIN v2' = Regress!Dies /\ DOMAIN v3' = Regress!Dies
          /\ \A e \in Regress!Dies : e # p => v2'[e] = v2[e] /\ v3'[e] = v3[e]
      BY <3>1, <2>2, <1>0
    <3>3. lose # {} => m[Regress!LANDED] = v2[p][Regress!LANDED]
      BY <2>2, RegLanded
    <3>4. lose = {} => <<p, "recv">> \in v16'
      BY <1>0, <2>1, <2>2, <2>5, <3>1
    <3>5. DOMAIN v6' = Regress!Dies
      BY <2>2, <3>1
    <3>6. m[Regress!LANDED] = <<"word", 0>> => v2[p][Regress!LANDED] = <<"word", 0>> \/ <<p, "recv">> \in v16'
      BY <3>3, <3>4
    <3> HIDE DEF m
    <3> QED
      BY <1>0, <1>1, <2>4, <3>2, <3>5, <3>6, WordsWritten
  <2>6. CASE T.recv = "mbox_recv"
    <3>1. PICK lose \in SUBSET {0} :
            /\ v3' = IF lose = {} THEN [v3 EXCEPT ![p] = [data |-> <<"word", 0>>, valid |-> TRUE]] ELSE v3
            /\ v5' = [mode |-> "mbox_send", die |-> T.from, rc |-> 0]
            /\ v6' = [v6 EXCEPT ![p] = IF lose = {} THEN "mbox_recv" ELSE "none"]
            /\ v2' = v2
      BY <2>1, <2>3, <2>6 DEF Regress!run_on, Regress!do_mbox_send, Regress!Exit, Regress!Earns
    <3> DEFINE s == IF lose = {} THEN [data |-> <<"word", 0>>, valid |-> TRUE] ELSE v3[p]
    <3> HIDE DEF T, p
    <3>2. /\ v3'[p] = s /\ v2'[p] = v2[p]
          /\ DOMAIN v2' = Regress!Dies /\ DOMAIN v3' = Regress!Dies
          /\ \A e \in Regress!Dies : e # p => v2'[e] = v2[e] /\ v3'[e] = v3[e]
      BY <3>1, <2>2, <1>0
    <3>3. s.valid => v3[p].valid \/ lose = {}
      OBVIOUS
    <3>4. lose = {} => <<p, "mbox_recv">> \in v16'
      BY <1>0, <2>1, <2>2, <2>6, <3>1
    <3>5. DOMAIN v6' = Regress!Dies
      BY <2>2, <3>1
    <3> HIDE DEF s
    <3> QED
      BY <1>0, <1>1, <2>2, <2>4, <3>2, <3>3, <3>4, <3>5, WordsWritten
  <2> QED
    BY <1>0, <2>5, <2>6
<1> QED
  BY <1>2, <1>3

(* A receiver that passes has found a fresh word. *)
LEMMA RecvWitnesses ==
    ASSUME Regress!WordInv, NEW t \in DOMAIN Regress!Transfers, Regress!TestRecv(t) PROVE Regress!WordInv'
<1> DEFINE T == Regress!Transfers[t]
           p == Regress!peer[T.from]
<1>0. p \in Regress!Dies /\ T.recv \in {"recv", "mbox_recv"}
  BY TransferDies, RegPeers
<1>1. UNCHANGED <<v7, v8, v16>> /\ v9 = Regress!Place[t].recv
  BY DEF Regress!TestRecv, Regress!Kept
<1>2. Regress!Blank' => Regress!Blank
  BY <1>1, TransferDies DEF Regress!Blank
<1>3. PICK heard \in BOOLEAN : v14' = IF heard /\ v5'.rc = 0 THEN v14 \cup {<<p, T.recv>>} ELSE v14
  BY DEF Regress!TestRecv
<1>4. UNCHANGED <<v2, v3, v6>>
  BY DEF Regress!TestRecv, Regress!do_recv, Regress!do_mbox_recv, Regress!Verify, Regress!board
<1>5. v5'.rc = 0 => IF T.recv = "recv" THEN v2[p][Regress!LANDED] = <<"word", 0>> ELSE v3[p].valid
  BY DEF Regress!TestRecv, Regress!do_recv, Regress!do_mbox_recv, Regress!Verify, Regress!Exit
<1>6. Regress!Blank => \A x \in v14' : x \in v14 \/ x \in v16
  <2> SUFFICES ASSUME Regress!Blank, v5'.rc = 0 PROVE <<p, T.recv>> \in v16
    BY <1>3
  <2> HIDE DEF p, T
  <2> QED
    BY <1>0, <1>5 DEF Regress!WordInv, Regress!WordsAreFresh
<1> HIDE DEF p, T
<1> QED
  BY <1>1, <1>2, <1>4, <1>6, WordsSame

LEMMA SoakWrites ==
    ASSUME Regress!WordInv, NEW place, NEW name, NEW d \in Regress!Dies, NEW next,
           Regress!_soak_once(place, name, d, next), place \notin {"provenance", "deploy"}
    PROVE  Regress!WordInv'
<1> DEFINE p == Regress!peer[d]
<1>0. p \in Regress!Dies
  BY RegPeers
<1>1. UNCHANGED <<v7, v8, v14, v16>> /\ (Regress!Blank' => Regress!Blank)
  BY DEF Regress!_soak_once, Regress!Kept, Regress!Blank
<1>2. CASE UNCHANGED <<v2, v3, v6>>
  BY <1>1, <1>2, WordsSame
<1>3. CASE ~UNCHANGED <<v2, v3, v6>>
  <2>1. Regress!do_soak(d, v8.adversarial)
    BY <1>3 DEF Regress!_soak_once, Regress!vars
  <2>2. PICK k, n, lose, l :
          /\ k \in {"soak", "count"} /\ n \in 1..RegIters
          /\ v2' = [v2 EXCEPT ![p] = Regress!Landed(@, k, 0..(n - 1), lose)]
          /\ v6' = [v6 EXCEPT ![p] = l]
          /\ v3' = v3
    BY <1>3, <2>1 DEF Regress!do_soak, Regress!Refuses, Regress!board, Regress!Earns
  <2> DEFINE m == Regress!Landed(v2[p], k, 0..(n - 1), lose)
  <2>3. DOMAIN m = 0..(RegFold - 1)
    BY DEF Regress!Landed
  <2>4. m[Regress!LANDED] = <<"word", 0>> => v2[p][Regress!LANDED] = <<"word", 0>>
    <3>1. PICK x : m[Regress!LANDED] = v2[p][Regress!LANDED] \/ m[Regress!LANDED] = <<k, x>>
      BY RegLanded DEF Regress!Landed
    <3>2. <<k, x>> # <<"word", 0>>
      BY <2>2
    <3> QED
      BY <3>1, <3>2
  <2>5. v2' = [v2 EXCEPT ![p] = m]
    BY <2>2
  <2> HIDE DEF m, p
  <2>6. DOMAIN v2 = Regress!Dies /\ DOMAIN v3 = Regress!Dies /\ DOMAIN v6 = Regress!Dies
    BY DEF Regress!WordInv
  <2>7. /\ DOMAIN v6' = Regress!Dies /\ v2'[p] = m /\ v3'[p] = v3[p]
        /\ DOMAIN v2' = Regress!Dies /\ DOMAIN v3' = Regress!Dies
        /\ \A e \in Regress!Dies : e # p => v2'[e] = v2[e] /\ v3'[e] = v3[e]
    BY <1>0, <2>2, <2>5, <2>6
  <2> QED
    BY <1>0, <1>1, <2>3, <2>4, <2>7, WordsWritten
<1> QED
  BY <1>2, <1>3

LEMMA WordsStep == ASSUME Regress!GateInv, Regress!WordInv, Regress!RegressNext PROVE Regress!WordInv'
<1>1. CASE \/ Regress!t_provenance \/ Regress!t_link_bringup \/ Regress!t_link_verify \/ Regress!t_backdoor
           \/ Regress!t_role \/ Regress!t_dataplane_interlock \/ Regress!t_sram_rtt \/ Regress!t_tidechart
           \/ Regress!summary
  <2>1. UNCHANGED <<v2, v3, v6, v7, v8, v14, v16>>
    BY <1>1 DEF Regress!t_provenance, Regress!t_link_bringup, Regress!t_link_verify, Regress!t_backdoor,
       Regress!t_role, Regress!t_dataplane_interlock, Regress!t_sram_rtt, Regress!t_tidechart, Regress!summary,
       Regress!Kept, Regress!NoTraffic, Regress!vars, Regress!board, Regress!do_readback, Regress!Refuses
  <2>2. v9 = "provenance" => v9' = (IF v8.deploy THEN "deploy" ELSE "verify")
    BY <1>1 DEF Regress!t_provenance, Regress!t_link_bringup, Regress!t_link_verify, Regress!t_backdoor,
       Regress!t_role, Regress!t_dataplane_interlock, Regress!t_sram_rtt, Regress!t_tidechart, Regress!summary,
       Regress!Step
  <2>3. v9 # "deploy"
    BY <1>1 DEF Regress!t_provenance, Regress!t_link_bringup, Regress!t_link_verify, Regress!t_backdoor,
       Regress!t_role, Regress!t_dataplane_interlock, Regress!t_sram_rtt, Regress!t_tidechart, Regress!summary
  <2>4. Regress!Blank' => Regress!Blank
    BY <2>1, <2>2, <2>3 DEF Regress!Blank
  <2> QED
    BY <2>1, <2>4, WordsSame
<1>2. CASE Regress!main
  <2>1. /\ v7' = v7 + 1 /\ v9' = "provenance" /\ UNCHANGED <<v2, v3>>
        /\ v6' = [d \in Regress!Dies |-> "none"]
    BY <1>2 DEF Regress!main, Regress!board
  <2>2. ~Regress!Blank' /\ v7' \in Nat /\ v7' > 0
    BY <2>1 DEF Regress!Blank, Regress!WordInv
  <2> QED
    BY <2>1, <2>2 DEF Regress!WordInv, Regress!Dies
<1>3. CASE Regress!_soak_once("soak_run", "soak", "a", "soak_rev_run")
  BY <1>3, SoakWrites DEF Regress!Dies
<1>4. CASE Regress!_soak_once("soak_rev_run", "soak_rev", "b", IF v8.peer_read THEN "rtt" ELSE "tidechart")
  BY <1>4, SoakWrites DEF Regress!Dies
<1> QED
  BY <1>1, <1>2, <1>3, <1>4, DeployBlanks, SendDelivers, RecvWitnesses DEF Regress!RegressNext

-----------------------------------------------------------------------------
LEMMA RegressStarts == Regress!RegressInit => Regress!IInv
BY GateStarts, WordsStart DEF Regress!IInv

LEMMA RegressStep == ASSUME Regress!IInv, Regress!RegressNext PROVE Regress!IInv'
BY GateStep, WordsStep DEF Regress!IInv

LEMMA RegressStutters ==
    ASSUME Regress!IInv,
           UNCHANGED <<v2, v3, v6, v7, v8, v9, v10, v11, v12, v13, v14, v15, v16, v17, v18>>
    PROVE  Regress!IInv'
<1>1. Regress!GateInv'
  BY GateStutters DEF Regress!IInv
<1>2. Regress!Blank' = Regress!Blank
  BY DEF Regress!Blank
<1> QED
  BY <1>1, <1>2, WordsSame DEF Regress!IInv

LEMMA RegressGreen == Regress!IInv => Regress!NoBlindTraffic /\ Regress!GreenIsWitnessed
BY DEF Regress!IInv, Regress!GateInv, Regress!WordInv, Regress!WordsAreFresh, Regress!AllPassed,
   Regress!GreenIsWitnessed

-----------------------------------------------------------------------------
(* The eye sweeps *)

LEMMA EyeStarts == Eye!Init => Eye!IInv
BY DEF Eye!Init, Eye!IInv, Eye!TypeOK, Eye!IdleIsUnread, Eye!TapIsSet, Eye!PhaseRestored, Eye!RowsSettled

(* A step of one board's sweep. *)
LEMMA SweepKeeps ==
    ASSUME Eye!IInv, NEW b \in EyeBoards,
           \/ Eye!Begin(b) \/ Eye!WriteTap(b) \/ Eye!Settle(b) \/ Eye!LanesSettle(b)
           \/ Eye!ReadTap(b) \/ Eye!Yield(b) \/ Eye!Restore(b)
    PROVE  Eye!IInv'
<1> USE DEF Eye!go, Eye!set
<1>1. Eye!TypeOK'
  BY DEF Eye!IInv, Eye!TypeOK, Eye!Begin, Eye!WriteTap, Eye!Settle, Eye!LanesSettle, Eye!ReadTap, Eye!Yield,
     Eye!Restore
<1>2. Eye!IdleIsUnread'
  BY DEF Eye!IInv, Eye!TypeOK, Eye!IdleIsUnread, Eye!Begin, Eye!WriteTap, Eye!Settle, Eye!LanesSettle,
     Eye!ReadTap, Eye!Yield, Eye!Restore
<1>3. Eye!TapIsSet'
  BY DEF Eye!IInv, Eye!TypeOK, Eye!TapIsSet, Eye!Begin, Eye!WriteTap, Eye!Settle, Eye!LanesSettle,
     Eye!ReadTap, Eye!Yield, Eye!Restore
<1>4. Eye!PhaseRestored'
  BY DEF Eye!IInv, Eye!TypeOK, Eye!PhaseRestored, Eye!Begin, Eye!WriteTap, Eye!Settle, Eye!LanesSettle,
     Eye!ReadTap, Eye!Yield, Eye!Restore
<1>5. Eye!RowsSettled'
  <2>1. UNCHANGED v1 /\ (v7' = v7 \/ (v5[b] = "read" /\ v7' = v7 \cup {<<b, v6[b], v3[b]>>}))
    BY DEF Eye!Begin, Eye!WriteTap, Eye!Settle, Eye!LanesSettle, Eye!ReadTap, Eye!Yield, Eye!Restore
  <2>2. v1 = "cli" /\ v5[b] = "read" => v6[b] = v3[b]
    BY DEF Eye!IInv, Eye!TapIsSet
  <2> QED
    BY <2>1, <2>2 DEF Eye!IInv, Eye!RowsSettled
<1> QED
  BY <1>1, <1>2, <1>3, <1>4, <1>5 DEF Eye!IInv

(* A run is cancelled before a board's turn: nothing was written there. *)
LEMMA CancelKeeps == ASSUME Eye!IInv, Eye!Cancel PROVE Eye!IInv'
BY DEF Eye!Cancel, Eye!IInv, Eye!TypeOK, Eye!IdleIsUnread, Eye!TapIsSet, Eye!PhaseRestored, Eye!RowsSettled

LEMMA EyeSame == ASSUME Eye!IInv, UNCHANGED <<v1, v2, v3, v4, v5, v6, v7, v8>> PROVE Eye!IInv'
BY DEF Eye!IInv, Eye!TypeOK, Eye!IdleIsUnread, Eye!TapIsSet, Eye!PhaseRestored, Eye!RowsSettled

LEMMA EyeStep == ASSUME Eye!IInv, Eye!Next PROVE Eye!IInv'
<1>1. CASE Eye!Calibrator \/ Eye!ScoreWrite \/ Eye!EyeFsm \/ Eye!Enter \/ Eye!PollAndDrain \/ Eye!NextDie
  BY <1>1, EyeSame DEF Eye!Calibrator, Eye!ScoreWrite, Eye!EyeFsm, Eye!Enter, Eye!PollAndDrain, Eye!NextDie,
     Eye!sweep
<1> QED
  BY <1>1, SweepKeeps, CancelKeeps DEF Eye!Next

-----------------------------------------------------------------------------
(* The CRC shots *)

LEMMA CrcStarts == Crc!Init => Crc!IInv
BY DEF Crc!Init, Crc!IInv

(* Every step leaves the injector as it is, or arms it for the three       *)
(* places of a shot in flight, or disarms and locks it.                    *)
LEMMA CrcStep == ASSUME Crc!IInv, Crc!Next PROVE Crc!IInv'
<1> USE DEF Crc!IInv
<1>1. ASSUME NEW t \in Crc!Shots, Crc!Arrive(t) PROVE Crc!IInv'
  BY <1>1 DEF Crc!Arrive
<1>2. CASE Crc!Degrade
  BY <1>2 DEF Crc!Degrade
<1>3. CASE Crc!Preflight
  BY <1>3 DEF Crc!Preflight, Crc!Exit
<1>4. CASE Crc!CtlClean \/ Crc!StatsClean \/ Crc!AxiClean
  BY <1>4 DEF Crc!CtlClean, Crc!StatsClean, Crc!AxiClean, Crc!CleanKept, Crc!Hardware, Crc!Exit
<1>5. CASE Crc!WrongIdArm
  BY <1>5 DEF Crc!WrongIdArm, Crc!Arm
<1>6. CASE Crc!WrongIdDrive
  BY <1>6 DEF Crc!WrongIdDrive, Crc!Disarm
<1>7. CASE Crc!WrongIdDone
  BY <1>7 DEF Crc!WrongIdDone, Crc!Exit, Crc!Hardware
<1>8. CASE Crc!Shot
  BY <1>8 DEF Crc!Shot, Crc!Arm
<1>9. CASE Crc!Send
  BY <1>9 DEF Crc!Send, Crc!Disarm
<1>10. CASE Crc!Resend
  BY <1>10 DEF Crc!Resend
<1>11. CASE Crc!Collect
  BY <1>11 DEF Crc!Collect, Crc!Disarm
<1>12. CASE Crc!Classify
  BY <1>12 DEF Crc!Classify, Crc!Hardware
<1>13. CASE Crc!LiveControl
  BY <1>13 DEF Crc!LiveControl
<1>14. CASE Crc!Summarise
  BY <1>14 DEF Crc!Summarise, Crc!Exit, Crc!Hardware
<1> QED
  BY <1>1, <1>2, <1>3, <1>4, <1>5, <1>6, <1>7, <1>8, <1>9, <1>10, <1>11, <1>12, <1>13, <1>14 DEF Crc!Next

LEMMA CrcStutters == Crc!IInv /\ UNCHANGED Crc!vars => Crc!IInv'
BY DEF Crc!IInv, Crc!vars

LEMMA CrcRelocked == Crc!IInv => Crc!Relocked
BY DEF Crc!IInv, Crc!Relocked

-----------------------------------------------------------------------------
(* The interrupt probes *)

LEMMA IrqStarts == Irq!Init => Irq!IInv
BY DEF Irq!Init, Irq!Idle, Irq!None, Irq!Tool, Irq!IInv, Irq!TypeOK, Irq!RecvIsFresh

LEMMA IrqSame == ASSUME Irq!IInv, UNCHANGED <<v3, v4, v5>> PROVE Irq!IInv'
BY DEF Irq!IInv, Irq!TypeOK, Irq!RecvIsFresh

(* Moves of the script. *)
LEMMA IdleIsTool == Irq!Idle \in Irq!Tool /\ Irq!Idle.mode = "none"
BY DEF Irq!Idle, Irq!Tool, Irq!None

LEMMA BeginIsTool ==
    ASSUME NEW m \in {"arm", "send", "recv", "clear"}, NEW q \in IrqPayloads \cup {Irq!None}, Irq!begin(m, q)
    PROVE  v4' \in Irq!Tool /\ v4'.mode = m /\ v4.mode = "none"
BY DEF Irq!begin, Irq!Tool

LEMMA ToolMoves ==
    ASSUME Irq!IInv, UNCHANGED <<v3, v5>>, v4' \in Irq!Tool, v4'.mode = "arm" => v4.mode = "arm"
    PROVE  Irq!IInv'
BY DEF Irq!IInv, Irq!TypeOK, Irq!RecvIsFresh

(* A word lands: a doorbell edge sets the status bit and is remembered. *)
LEMMA LandKeeps == ASSUME Irq!IInv, Irq!Land PROVE Irq!IInv'
<1> DEFINE w == Head(v2)
<1>1. CASE w.word \in Irq!Slot
  BY <1>1 DEF Irq!Land, Irq!IInv, Irq!TypeOK, Irq!RecvIsFresh
<1>2. CASE w.word \notin Irq!Slot
  <2> DEFINE rise == w.v = 1 /\ ~v3.valid
  <2>1. /\ v4' = v4 /\ v5' = [v5 EXCEPT !.edge = @ \/ rise]
        /\ v3' = [v3 EXCEPT !.valid = (w.v = 1), !.irq = @ \/ rise]
    BY <1>2 DEF Irq!Land, Irq!write_ctrl
  <2>2. rise \in BOOLEAN /\ (w.v = 1) \in BOOLEAN
    OBVIOUS
  <2> HIDE DEF rise
  <2>3. Irq!TypeOK'
    BY <2>1, <2>2 DEF Irq!IInv, Irq!TypeOK
  <2>4. v3'.irq = (v3.irq \/ rise) /\ v5'.edge = (v5.edge \/ rise) /\ v5'.armed = v5.armed /\ v5'.pass = v5.pass
    BY <2>1, <2>2 DEF Irq!IInv, Irq!TypeOK
  <2> QED
    BY <2>1, <2>2, <2>3, <2>4 DEF Irq!IInv, Irq!TypeOK, Irq!RecvIsFresh
<1> QED
  BY <1>1, <1>2

LEMMA ArmKeeps == ASSUME Irq!IInv, Irq!Arm \/ Irq!ArmStep PROVE Irq!IInv'
<1> USE DEF Irq!IInv, Irq!TypeOK, Irq!RecvIsFresh
<1>1. CASE Irq!Arm
  BY <1>1 DEF Irq!Arm, Irq!begin, Irq!None, Irq!Tool
<1>2. CASE Irq!ArmStep
  <2>1. CASE v3' = Irq!write_ctrl(FALSE) /\ Irq!advance /\ UNCHANGED v5
    BY <1>2, <2>1 DEF Irq!write_ctrl, Irq!advance, Irq!Tool
  <2>2. CASE v3' = [v3 EXCEPT !.irq = FALSE] /\ Irq!advance /\ v5' = [v5 EXCEPT !.edge = FALSE]
    <3>1. ~v5.pass /\ ~v5.armed
      BY <1>2 DEF Irq!ArmStep
    <3>2. v4' \in Irq!Tool /\ v4'.mode = v4.mode
      BY <2>2 DEF Irq!advance, Irq!Tool
    <3> QED
      BY <2>2, <3>1, <3>2
  <2>3. CASE v4' = [v4 EXCEPT !.step = 4, !.ok = ~v3.valid] /\ UNCHANGED <<v3, v5>>
    BY <1>2, <2>3 DEF Irq!Tool
  <2>4. CASE v5' = [v5 EXCEPT !.armed = v4.ok /\ ~v3.irq] /\ Irq!end /\ UNCHANGED v3
    BY <1>2, <2>4 DEF Irq!ArmStep, Irq!end, Irq!Idle, Irq!None, Irq!Tool
  <2> QED
    BY <1>2, <2>1, <2>2, <2>3, <2>4 DEF Irq!ArmStep
<1> QED
  BY <1>1, <1>2

LEMMA SendIrqKeeps == ASSUME Irq!IInv, Irq!Send \/ Irq!SendStep PROVE Irq!IInv'
<1>1. CASE Irq!Send
  <2>1. PICK q \in IrqPayloads : Irq!begin("send", q) /\ UNCHANGED <<v3, v5>>
    BY <1>1 DEF Irq!Send
  <2>2. v4' \in Irq!Tool /\ v4'.mode = "send"
    BY <2>1, BeginIsTool
  <2> QED
    BY <2>1, <2>2, ToolMoves
<1>2. CASE Irq!SendStep
  <2>1. UNCHANGED <<v3, v5>> /\ (Irq!end \/ Irq!advance)
    BY <1>2 DEF Irq!SendStep
  <2>2. v4' \in Irq!Tool /\ (v4'.mode = "none" \/ v4'.mode = v4.mode)
    BY <2>1, IdleIsTool DEF Irq!end, Irq!advance, Irq!Tool, Irq!IInv, Irq!TypeOK
  <2> QED
    BY <2>1, <2>2, ToolMoves
<1> QED
  BY <1>1, <1>2

LEMMA RecvIrqKeeps == ASSUME Irq!IInv, Irq!Recv \/ Irq!RecvStep PROVE Irq!IInv'
<1>1. CASE Irq!Recv
  <2>1. PICK q \in IrqPayloads : Irq!begin("recv", q)
    BY <1>1 DEF Irq!Recv
  <2>2. v4' \in Irq!Tool /\ v4'.mode = "recv"
    BY <2>1, BeginIsTool
  <2>3. v3' = v3 /\ v5' = [v5 EXCEPT !.pass = FALSE]
    BY <1>1 DEF Irq!Recv
  <2> QED
    BY <2>2, <2>3 DEF Irq!IInv, Irq!TypeOK, Irq!RecvIsFresh
<1>2. CASE Irq!RecvStep
  <2>1. v4.mode = "recv" /\ v3' = v3
    BY <1>2 DEF Irq!RecvStep
  <2>2. CASE /\ v4' = [v4 EXCEPT !.step = @ + 1, !.ok = @ /\ v3.data[v4.step] = v4.p]
             /\ UNCHANGED v5
    <3>1. (v4.ok /\ v3.data[v4.step] = v4.p) \in BOOLEAN /\ v4.step + 1 \in Nat
      BY DEF Irq!IInv, Irq!TypeOK, Irq!Tool
    <3>2. v4' \in Irq!Tool /\ v4'.mode = "recv"
      BY <2>1, <2>2, <3>1 DEF Irq!IInv, Irq!TypeOK, Irq!Tool
    <3> QED
      BY <2>1, <2>2, <3>2, ToolMoves
  <2>3. CASE v5' = [v5 EXCEPT !.pass = Irq!recv_ok(v4.ok)] /\ Irq!end
    <3>1. v4' \in Irq!Tool /\ v4'.mode = "none"
      BY <2>3, IdleIsTool DEF Irq!end
    <3>2. v5' = [v5 EXCEPT !.pass = v4.ok /\ v3.irq]
      BY <2>3 DEF Irq!recv_ok
    <3>3. (v4.ok /\ v3.irq) \in BOOLEAN
      OBVIOUS
    <3>4. v5'.pass = (v4.ok /\ v3.irq) /\ v5'.armed = v5.armed /\ v5'.edge = v5.edge
      BY <3>2, <3>3 DEF Irq!IInv, Irq!TypeOK
    <3> QED
      BY <2>1, <3>1, <3>2, <3>3, <3>4 DEF Irq!IInv, Irq!TypeOK, Irq!RecvIsFresh
  <2> QED
    BY <1>2, <2>2, <2>3 DEF Irq!RecvStep
<1> QED
  BY <1>1, <1>2

LEMMA ClearKeeps == ASSUME Irq!IInv, Irq!Clear \/ Irq!ClearStep PROVE Irq!IInv'
<1>1. CASE Irq!Clear
  <2>1. v4' \in Irq!Tool /\ v4'.mode = "clear"
    BY <1>1, BeginIsTool DEF Irq!Clear
  <2> QED
    BY <1>1, <2>1, ToolMoves DEF Irq!Clear
<1>2. CASE Irq!ClearStep
  BY <1>2, IdleIsTool DEF Irq!ClearStep, Irq!end, Irq!IInv, Irq!TypeOK, Irq!RecvIsFresh
<1> QED
  BY <1>1, <1>2

LEMMA MailboxStep == ASSUME Irq!IInv, Irq!Mailbox PROVE Irq!IInv'
<1>1. CASE Irq!LinkFlaps
  BY <1>1, IrqSame DEF Irq!LinkFlaps
<1> QED
  BY <1>1, LandKeeps, ArmKeeps, SendIrqKeeps, RecvIrqKeeps, ClearKeeps DEF Irq!Mailbox

(* The observer *)

LEMMA ObserveStarts == Irq!Init => Irq!ObsInv
BY DEF Irq!Init, Irq!Unread, Irq!Lines, Irq!Baselines, Irq!Baseline, Irq!ObsInv, Irq!ObservedIsReal

LEMMA ObserveSame == ASSUME Irq!ObsInv, UNCHANGED <<v6, v7, v8>> PROVE Irq!ObsInv'
BY DEF Irq!ObsInv, Irq!ObservedIsReal

(* A line that ticks is remembered at both baselines. *)
LEMMA TicksKeep ==
    ASSUME Irq!ObsInv, NEW l \in Irq!Lines, Irq!ticks(l), v8'.of = v8.of, v8'.at = "done" => v8' = v8,
           v8' \in [rc : Nat, at : {"none", "hold", "after", "done"}, of : Irq!Baselines]
    PROVE  Irq!ObsInv'
<1> USE DEF Irq!ObsInv, Irq!Baseline
<1>1. v6' = [v6 EXCEPT ![l] = @ + 1] /\ v6' \in [Irq!Lines -> Nat]
  BY DEF Irq!ticks
<1>2. v7' = [b \in Irq!Baselines |-> [v7[b] EXCEPT !.since = @ \cup {l}]]
  BY DEF Irq!ticks, Irq!after_tick
<1>3. \A b \in Irq!Baselines : /\ v7'[b].n = v7[b].n /\ v7'[b].read = v7[b].read
                               /\ v7'[b].since = v7[b].since \cup {l} /\ v7'[b] \in Irq!Baseline
  BY <1>2
<1>4. v7' \in [Irq!Baselines -> Irq!Baseline]
  BY <1>2, <1>3
<1>5. ASSUME NEW b \in Irq!Baselines, NEW k \in Irq!Lines, v7'[b].read, v6'[k] > v7'[b].n[k]
      PROVE  k \in v7'[b].since
  <2>1. CASE k = l
    BY <1>3, <2>1
  <2>2. CASE k # l
    BY <1>1, <1>3, <1>5, <2>2
  <2> QED
    BY <2>1, <2>2
<1>6. Irq!ObservedIsReal'
  BY <1>3 DEF Irq!ObservedIsReal
<1> QED
  BY <1>1, <1>4, <1>5, <1>6

(* A verdict of zero comes of a line above the baseline. *)
LEMMA ReportKeeps ==
    ASSUME Irq!ObsInv, NEW b \in Irq!Baselines, Irq!report(b), UNCHANGED <<v6, v7>>
    PROVE  Irq!ObsInv'
<1> USE DEF Irq!ObsInv, Irq!Baseline
<1>1. PICK r \in BOOLEAN :
        v8' = [rc |-> Irq!verdict(Irq!diff(v7[b].n, Irq!snap_interrupts(r))), at |-> "done", of |-> b]
  BY DEF Irq!report
<1>2. v8' \in [rc : Nat, at : {"none", "hold", "after", "done"}, of : Irq!Baselines] /\ v8'.of = b
  BY <1>1 DEF Irq!verdict
<1>3. ASSUME v8'.rc = 0 PROVE "pl" \in v7[b].since \/ ~v7[b].read
  <2>1. "pl" \in Irq!Lines /\ Irq!snap_interrupts(r)["pl"] > v7[b].n["pl"]
    BY <1>1, <1>3 DEF Irq!verdict, Irq!diff, Irq!is_pl
  <2>2. v6["pl"] > v7[b].n["pl"]
    BY <2>1 DEF Irq!snap_interrupts, Irq!Unread
  <2> QED
    BY <2>1, <2>2
<1> QED
  BY <1>2, <1>3 DEF Irq!ObservedIsReal

(* A fresh baseline has every line at its count, or was not read. *)
LEMMA BaselineKeeps ==
    ASSUME Irq!ObsInv, NEW b \in Irq!Baselines, NEW r \in BOOLEAN, v7' = [v7 EXCEPT ![b] = Irq!snapshot(r)],
           v6' = v6, v8'.at # "done",
           v8' \in [rc : Nat, at : {"none", "hold", "after", "done"}, of : Irq!Baselines]
    PROVE  Irq!ObsInv'
<1> USE DEF Irq!ObsInv, Irq!Baseline
<1>1. Irq!snapshot(r) \in Irq!Baseline /\ Irq!snapshot(r).read = r
  BY DEF Irq!snapshot, Irq!snap_interrupts, Irq!Unread
<1>2. r => Irq!snapshot(r).n = v6
  BY DEF Irq!snapshot, Irq!snap_interrupts
<1>3. ASSUME NEW c \in Irq!Baselines, NEW k \in Irq!Lines, v7'[c].read, v6'[k] > v7'[c].n[k]
      PROVE  k \in v7'[c].since
  <2>1. CASE c = b
    BY <1>1, <1>2, <1>3, <2>1
  <2>2. CASE c # b
    BY <1>3, <2>2
  <2> QED
    BY <2>1, <2>2
<1>4. v7' \in [Irq!Baselines -> Irq!Baseline]
  BY <1>1
<1> QED
  BY <1>3, <1>4 DEF Irq!ObservedIsReal

LEMMA ObserveStep == ASSUME Irq!ObsInv, Irq!Observe PROVE Irq!ObsInv'
<1> DEFINE Probes == [rc : Nat, at : {"none", "hold", "after", "done"}, of : Irq!Baselines]
<1>0. v8 \in Probes /\ "pl" \in Irq!Lines /\ "auto" \in Irq!Baselines /\ "file" \in Irq!Baselines
  BY DEF Irq!ObsInv, Irq!Lines, Irq!Baselines
<1>1. CASE Irq!Tick
  BY <1>0, <1>1, TicksKeep DEF Irq!Tick
<1>2. CASE Irq!PhaseAuto
  <2>1. v8' \in Probes /\ v8'.at = "hold" /\ v6' = v6
    BY <1>0, <1>2 DEF Irq!PhaseAuto
  <2>2. PICK r \in BOOLEAN : v7' = [v7 EXCEPT !["auto"] = Irq!snapshot(r)]
    BY <1>2 DEF Irq!PhaseAuto
  <2> QED
    BY <1>0, <2>1, <2>2, BaselineKeeps
<1>3. CASE Irq!StimTidechart
  <2>1. v8' \in Probes /\ v8'.at = "after" /\ v8'.of = v8.of
    BY <1>0, <1>3 DEF Irq!StimTidechart
  <2>2. CASE Irq!ticks("pl")
    BY <1>0, <2>1, <2>2, TicksKeep
  <2>3. CASE UNCHANGED <<v6, v7>>
    BY <2>1, <2>3 DEF Irq!ObsInv, Irq!ObservedIsReal
  <2> QED
    BY <1>3, <2>2, <2>3 DEF Irq!StimTidechart
<1>4. CASE Irq!AutoVerdict
  BY <1>0, <1>4, ReportKeeps DEF Irq!AutoVerdict
<1>5. CASE Irq!PhaseBaseline
  <2>1. v8' \in Probes /\ v8'.at = "none" /\ v6' = v6
    BY <1>0, <1>5 DEF Irq!PhaseBaseline
  <2>2. PICK r \in BOOLEAN : v7' = [v7 EXCEPT !["file"] = Irq!snapshot(r)]
    BY <1>5 DEF Irq!PhaseBaseline
  <2> QED
    BY <1>0, <2>1, <2>2, BaselineKeeps
<1>6. CASE Irq!PhaseCompare
  <2>1. UNCHANGED <<v6, v7>>
    BY <1>6 DEF Irq!PhaseCompare
  <2>2. CASE Irq!report("file")
    BY <1>0, <2>1, <2>2, ReportKeeps
  <2>3. CASE v8' = [rc |-> 1, at |-> "done", of |-> "file"]
    BY <1>0, <2>1, <2>3 DEF Irq!ObsInv, Irq!ObservedIsReal
  <2> QED
    BY <1>6, <2>2, <2>3 DEF Irq!PhaseCompare
<1> QED
  BY <1>1, <1>2, <1>3, <1>4, <1>5, <1>6 DEF Irq!Observe

-----------------------------------------------------------------------------
(* The stress suite's calls to its peer *)

(* A pipe stays a pipe, and what is on it is what was or what was added. *)
LEMMA PipeOf == ASSUME NEW S, NEW s \in Seq(S) PROVE Stress!IsPipe(s)
<1>1. s \in [1 .. Len(s) -> S] /\ Len(s) \in Nat /\ DOMAIN s = 1 .. Len(s)
  OBVIOUS
<1>2. \A k \in 1 .. Len(s) : s[k] \in {s[j] : j \in DOMAIN s}
  BY <1>1
<1> DEFINE T == {s[j] : j \in DOMAIN s}
<1> HIDE DEF T
<1>3. \A k \in 1 .. Len(s) : s[k] \in T
  BY <1>2 DEF T
<1>4. s \in [1 .. Len(s) -> T]
  BY <1>1, <1>3
<1>5. s \in Seq(T)
  BY <1>1, <1>4, SeqDef
<1> QED
  BY <1>5 DEF Stress!IsPipe, T

LEMMA PipeAppend ==
    ASSUME NEW s, Stress!IsPipe(s), NEW e
    PROVE  /\ Stress!IsPipe(Append(s, e))
           /\ \A k \in DOMAIN Append(s, e) : Append(s, e)[k] = e \/ \E j \in DOMAIN s : Append(s, e)[k] = s[j]
<1> DEFINE S == {s[k] : k \in DOMAIN s} \cup {e}
<1>1. s \in Seq({s[k] : k \in DOMAIN s})
  BY DEF Stress!IsPipe
<1>2. s \in Seq(S)
  BY <1>1
<1>3. e \in S
  OBVIOUS
<1> HIDE DEF S
<1>4. Append(s, e) \in Seq(S)
  BY <1>2, <1>3
<1>5. Stress!IsPipe(Append(s, e))
  BY <1>4, PipeOf
<1>6. \A k \in DOMAIN Append(s, e) : Append(s, e)[k] = e \/ \E j \in DOMAIN s : Append(s, e)[k] = s[j]
  BY <1>2, <1>3
<1> QED
  BY <1>5, <1>6

LEMMA PipeTail ==
    ASSUME NEW s, Stress!IsPipe(s), s # << >>
    PROVE  /\ Stress!IsPipe(Tail(s))
           /\ \A k \in DOMAIN Tail(s) : \E j \in DOMAIN s : Tail(s)[k] = s[j]
           /\ \E j \in DOMAIN s : Head(s) = s[j]
<1> DEFINE S == {s[k] : k \in DOMAIN s}
<1>1. s \in Seq(S)
  BY DEF Stress!IsPipe
<1> HIDE DEF S
<1>2. Tail(s) \in Seq(S) /\ Len(Tail(s)) = Len(s) - 1 /\ Len(s) > 0
  BY <1>1
<1>3. Stress!IsPipe(Tail(s))
  BY <1>2, PipeOf
<1>4. \A k \in DOMAIN Tail(s) : k + 1 \in DOMAIN s /\ Tail(s)[k] = s[k + 1]
  BY <1>1, <1>2
<1>5. 1 \in DOMAIN s /\ Head(s) = s[1]
  BY <1>1, <1>2
<1> QED
  BY <1>3, <1>4, <1>5

LEMMA StressStarts == Stress!Init => Stress!IInv
<1> SUFFICES ASSUME Stress!Init PROVE Stress!IInv
  OBVIOUS
<1>1. Stress!IsPipe(<< >>)
  BY DEF Stress!IsPipe
<1> QED
  BY <1>1 DEF Stress!Init, Stress!IInv, Stress!TypeOK, Stress!AnswersMatch, Stress!Idle

LEMMA StressSame == ASSUME Stress!IInv, UNCHANGED <<v8, v9, v10, v11, v14>> PROVE Stress!IInv'
BY DEF Stress!IInv, Stress!TypeOK, Stress!AnswersMatch, Stress!Fits

(* The invariant of the next state, said of each message. *)
LEMMA Fitting ==
    ASSUME v8' \in Nat, v8' > 0, v9'.id \in 0 .. (v8' - 1), Stress!IsPipe(v10'), Stress!IsPipe(v11'),
           Stress!AnswersMatch',
           \A k \in DOMAIN v10' :
              /\ DOMAIN v10'[k] = {"id", "meth", "arg"} /\ v10'[k].id \in 1 .. (v8' - 1)
              /\ v10'[k].id = v9'.id => v10'[k].meth = v9'.meth,
           \A k \in DOMAIN v11' :
              /\ DOMAIN v11'[k] = {"id", "meth", "arg"} /\ v11'[k].id \in 1 .. (v8' - 1)
              /\ v11'[k].id = v9'.id => v11'[k].meth = v9'.meth
    PROVE  Stress!IInv'
<1>1. Stress!TypeOK'
  BY DEF Stress!TypeOK, Stress!IsPipe
<1>2. (\A k \in DOMAIN v10 : Stress!Fits(v10[k]))' /\ (\A k \in DOMAIN v11 : Stress!Fits(v11[k]))'
  BY DEF Stress!Fits
<1> QED
  BY <1>1, <1>2 DEF Stress!IInv

(* A call is given up: what is on the pipe is nobody's any more. *)
LEMMA GivenUp ==
    ASSUME Stress!IInv, v9' \in {v9, Stress!Idle}, v8' \in {v8, v8 + 1}, UNCHANGED <<v10, v11, v14>>
    PROVE  Stress!IInv'
<1>1. v8' \in Nat /\ v8' > 0 /\ v9'.id \in 0 .. (v8' - 1)
  BY DEF Stress!IInv, Stress!TypeOK, Stress!Idle
<1> DEFINE FitsNext(m) ==
    /\ DOMAIN m = {"id", "meth", "arg"} /\ m.id \in 1 .. (v8' - 1)
    /\ m.id = v9'.id => m.meth = v9'.meth
<1>2. \A m : Stress!Fits(m) => FitsNext(m)
  BY DEF Stress!Fits, Stress!Idle, Stress!IInv, Stress!TypeOK
<1> HIDE DEF FitsNext
<1>3. (\A k \in DOMAIN v10' : FitsNext(v10'[k])) /\ (\A k \in DOMAIN v11' : FitsNext(v11'[k]))
  BY <1>2 DEF Stress!IInv
<1>4. Stress!IsPipe(v10') /\ Stress!IsPipe(v11') /\ Stress!AnswersMatch'
  BY DEF Stress!IInv, Stress!TypeOK, Stress!AnswersMatch
<1> QED
  BY <1>1, <1>3, <1>4, Fitting DEF FitsNext

LEMMA CallKeeps == ASSUME Stress!IInv, Stress!Call PROVE Stress!IInv'
<1> DEFINE req == [id |-> v8, meth |-> Stress!Op.meth, arg |-> Stress!Op.arg]
<1>1. CASE v12 = "up"
  <2>1. v10' = Append(v10, req) /\ v9' = req /\ v8' = v8 + 1 /\ UNCHANGED <<v11, v14>>
    BY <1>1 DEF Stress!Call
  <2>2. DOMAIN req = {"id", "meth", "arg"} /\ req.id = v8 /\ req.meth = v9'.meth
    BY <2>1
  <2> HIDE DEF req
  <2> DEFINE FitsNext(m) ==
        /\ DOMAIN m = {"id", "meth", "arg"} /\ m.id \in 1 .. (v8' - 1)
        /\ m.id = v9'.id => m.meth = v9'.meth
  <2>3. FitsNext(req)
    BY <2>1, <2>2 DEF Stress!IInv, Stress!TypeOK
  <2>4. \A m : Stress!Fits(m) => FitsNext(m)
    BY <2>1, <2>2 DEF Stress!Fits, Stress!IInv, Stress!TypeOK
  <2>5. /\ Stress!IsPipe(v10') /\ Stress!IsPipe(v11')
        /\ \A k \in DOMAIN v10' : v10'[k] = req \/ \E j \in DOMAIN v10 : v10'[k] = v10[j]
    BY <2>1, PipeAppend DEF Stress!IInv, Stress!TypeOK
  <2> HIDE DEF FitsNext
  <2>6. \A k \in DOMAIN v10' : FitsNext(v10'[k])
    BY <2>3, <2>4, <2>5 DEF Stress!IInv
  <2>7. \A k \in DOMAIN v11' : FitsNext(v11'[k])
    BY <2>1, <2>4 DEF Stress!IInv
  <2>8. /\ v8' \in Nat /\ v8' > 0 /\ v9'.id \in 0 .. (v8' - 1)
        /\ Stress!AnswersMatch'
    BY <2>1, <2>2 DEF Stress!IInv, Stress!TypeOK, Stress!AnswersMatch
  <2> QED
    BY <2>5, <2>6, <2>7, <2>8, Fitting DEF FitsNext
<1>2. CASE v12 # "up"
  BY <1>2, GivenUp DEF Stress!Call
<1> QED
  BY <1>1, <1>2

LEMMA ServeKeeps == ASSUME Stress!IInv, Stress!AgentServe PROVE Stress!IInv'
<1> DEFINE req == Head(v10)
<1>1. PICK a : v11' = Append(v11, [req EXCEPT !.arg = a])
  BY DEF Stress!AgentServe
<1>2. v10 # << >> /\ v10' = Tail(v10) /\ UNCHANGED <<v8, v9, v14>>
  BY DEF Stress!AgentServe
<1>3. /\ Stress!IsPipe(v10') /\ (\A k \in DOMAIN v10' : \E j \in DOMAIN v10 : v10'[k] = v10[j])
      /\ \E j \in DOMAIN v10 : req = v10[j]
  BY <1>2, PipeTail DEF Stress!IInv, Stress!TypeOK
<1> DEFINE ans == [req EXCEPT !.arg = a]
<1>4. Stress!Fits(req)
  BY <1>3 DEF Stress!IInv
<1> HIDE DEF req
<1>5. DOMAIN ans = DOMAIN req /\ ans.id = req.id /\ ans.meth = req.meth
  BY <1>4 DEF Stress!Fits
<1>6. v11' = Append(v11, ans)
  BY <1>1 DEF req
<1> HIDE DEF ans
<1>7. /\ Stress!IsPipe(v11')
      /\ \A k \in DOMAIN v11' : v11'[k] = ans \/ \E j \in DOMAIN v11 : v11'[k] = v11[j]
  BY <1>6, PipeAppend DEF Stress!IInv, Stress!TypeOK
<1> DEFINE FitsNext(m) ==
    /\ DOMAIN m = {"id", "meth", "arg"} /\ m.id \in 1 .. (v8' - 1)
    /\ m.id = v9'.id => m.meth = v9'.meth
<1>8. \A m : Stress!Fits(m) => FitsNext(m)
  BY <1>2 DEF Stress!Fits
<1>9. Stress!Fits(ans)
  BY <1>4, <1>5 DEF Stress!Fits
<1> HIDE DEF FitsNext
<1>10. \A k \in DOMAIN v11' : FitsNext(v11'[k])
  BY <1>7, <1>8, <1>9 DEF Stress!IInv
<1>11. \A k \in DOMAIN v10' : FitsNext(v10'[k])
  BY <1>3, <1>8 DEF Stress!IInv
<1>12. /\ v8' \in Nat /\ v8' > 0 /\ v9'.id \in 0 .. (v8' - 1)
       /\ Stress!AnswersMatch'
  BY <1>2 DEF Stress!IInv, Stress!TypeOK, Stress!AnswersMatch
<1> QED
  BY <1>3, <1>7, <1>10, <1>11, <1>12, Fitting DEF FitsNext

LEMMA DiesKeeps == ASSUME Stress!IInv, Stress!AgentDies PROVE Stress!IInv'
<1>1. Stress!IsPipe(<< >>)
  BY DEF Stress!IsPipe
<1> QED
  BY <1>1 DEF Stress!AgentDies, Stress!IInv, Stress!TypeOK, Stress!AnswersMatch, Stress!Fits

LEMMA AnswerKeeps == ASSUME Stress!IInv, Stress!Answer PROVE Stress!IInv'
<1>1. v11 # << >> /\ v11' = Tail(v11) /\ UNCHANGED <<v8, v10>>
  BY DEF Stress!Answer
<1>2. /\ Stress!IsPipe(v11') /\ (\A k \in DOMAIN v11' : \E j \in DOMAIN v11 : v11'[k] = v11[j])
      /\ \E j \in DOMAIN v11 : Head(v11) = v11[j]
  BY <1>1, PipeTail DEF Stress!IInv, Stress!TypeOK
<1>3. Stress!Fits(Head(v11))
  BY <1>2 DEF Stress!IInv
<1>4. \/ Head(v11).id = v9.id /\ v9' = Stress!Idle /\ v14' = [want |-> v9, got |-> Head(v11)]
      \/ UNCHANGED <<v9, v14>>
  BY DEF Stress!Answer, Stress!Mine
<1>5. Stress!AnswersMatch'
  BY <1>3, <1>4 DEF Stress!AnswersMatch, Stress!IInv, Stress!Fits
<1>6. v9' \in {v9, Stress!Idle} /\ v9'.id \in 0 .. (v8' - 1)
  BY <1>1, <1>4 DEF Stress!IInv, Stress!TypeOK, Stress!Idle
<1> DEFINE FitsNext(m) ==
    /\ DOMAIN m = {"id", "meth", "arg"} /\ m.id \in 1 .. (v8' - 1)
    /\ m.id = v9'.id => m.meth = v9'.meth
<1>7. \A m : Stress!Fits(m) => FitsNext(m)
  BY <1>1, <1>6 DEF Stress!Fits, Stress!Idle, Stress!IInv, Stress!TypeOK
<1> HIDE DEF FitsNext
<1>8. \A k \in DOMAIN v10' : FitsNext(v10'[k])
  BY <1>1, <1>7 DEF Stress!IInv
<1>9. \A k \in DOMAIN v11' : FitsNext(v11'[k])
  BY <1>2, <1>7 DEF Stress!IInv
<1>10. /\ v8' \in Nat /\ v8' > 0 /\ v9'.id \in 0 .. (v8' - 1)
       /\ Stress!IsPipe(v10') /\ Stress!IsPipe(v11') /\ Stress!AnswersMatch'
  BY <1>1, <1>2, <1>5, <1>6 DEF Stress!IInv, Stress!TypeOK
<1> QED
  BY <1>8, <1>9, <1>10, Fitting DEF FitsNext

LEMMA StressStep == ASSUME Stress!IInv, Stress!Next PROVE Stress!IInv'
<1>1. CASE Stress!Start \/ Stress!Begin \/ Stress!Finish \/ Stress!LocalOp \/ Stress!MaskLocal
  BY <1>1, StressSame DEF Stress!Start, Stress!Begin, Stress!Finish, Stress!LocalOp, Stress!MaskLocal, Stress!rpc
<1>2. CASE Stress!Eof \/ Stress!Alarm \/ Stress!Term
  BY <1>2, GivenUp DEF Stress!Eof, Stress!Alarm, Stress!Term
<1> QED
  BY <1>1, <1>2, CallKeeps, ServeKeeps, DiesKeeps, AnswerKeeps DEF Stress!Next

-----------------------------------------------------------------------------
(* The stress suite's passes *)

(* The test bodies *)
StressTests == {"smoke", "sync", "bidirectional", "exhaustion", "doorbell", "stub", "lanes", "ptp_sync"}

LEMMA TestsAre == Stress!Tests = StressTests
BY DEF Stress!Tests, Stress!Body, StressTests

LEMMA WalkOps ==
    ASSUME NEW i \in 1 .. (6 * StressLanes)
    PROVE  LET op == Stress!lane_walk(1 + ((i - 1) \div 6))[1 + ((i - 1) % 6)]
           IN  op.meth = "mask_read" /\ op.side = "peer" => i + 3 <= 6 * StressLanes + 1
<1> DEFINE r == (i - 1) % 6
           k == 1 + ((i - 1) \div 6)
<1>1. r \in 0 .. 5 /\ (r = 3 => i + 3 <= 6 * StressLanes + 1)
  BY StressSizes
<1> HIDE DEF r, k
<1>2. CASE r = 3
  BY <1>1, <1>2
<1>3. CASE r # 3
  <2>1. 1 + r \in {1, 2, 3, 5, 6}
    BY <1>1, <1>3
  <2>2. LET op == Stress!lane_walk(k)[1 + r] IN op.meth # "mask_read" \/ op.side # "peer"
    BY <2>1 DEF Stress!lane_walk, Stress!mask, Stress!local, Stress!peer
  <2> QED
    BY <2>2 DEF r, k
<1> QED
  BY <1>2, <1>3

LEMMA LanesBody ==
    LET B == Stress!Body["lanes"]
    IN  /\ Len(B) = Stress!Last /\ Stress!Last = 6 * StressLanes + 2
        /\ \A i \in 1 .. (6 * StressLanes) :
             B[i].meth = "mask_read" /\ B[i].side = "peer" => i + 3 <= 6 * StressLanes + 1
        /\ B[6 * StressLanes + 1].side = "local" /\ B[6 * StressLanes + 1].meth = "mask"
        /\ B[6 * StressLanes + 1].arg = 0
        /\ B[6 * StressLanes + 2].side = "peer" /\ B[6 * StressLanes + 2].meth = "mask"
        /\ B[6 * StressLanes + 2].arg = 0
<1> DEFINE n == 6 * StressLanes
           w == [i \in 1 .. n |-> Stress!lane_walk(1 + ((i - 1) \div 6))[1 + ((i - 1) % 6)]]
           m1 == [side |-> "local", meth |-> "mask", arg |-> 0]
           m2 == [side |-> "peer", meth |-> "mask", arg |-> 0]
           S == {w[i] : i \in 1 .. n} \cup {m1, m2}
           B == Stress!Body["lanes"]
<1>1. B = w \o << m1, m2 >>
  BY DEF Stress!Body, Stress!lane_mask_burnt_lane, Stress!mask, Stress!full_mask
<1>2. n \in Nat
  BY StressSizes
<1>3. \A i \in 1 .. n : w[i].meth = "mask_read" /\ w[i].side = "peer" => i + 3 <= n + 1
  BY WalkOps
<1>4. DOMAIN w = 1 .. n /\ \A i \in 1 .. n : w[i] \in S
  OBVIOUS
<1>5. m1 \in S /\ m2 \in S
  OBVIOUS
<1>6. m1.side = "local" /\ m1.meth = "mask" /\ m1.arg = 0 /\ m2.side = "peer" /\ m2.meth = "mask" /\ m2.arg = 0
  OBVIOUS
<1>7. w = [i \in 1 .. n |-> w[i]]
  OBVIOUS
<1>7a. Stress!Last = n + 2
  BY DEF Stress!Last
<1> HIDE DEF S, w, m1, m2, B, n
<1>8. w \in Seq(S) /\ Len(w) = n
  <2>1. w \in [1 .. n -> S]
    BY <1>4, <1>7
  <2> QED
    BY <1>2, <2>1, SeqDef
<1>9. << m1, m2 >> \in Seq(S) /\ Len(<< m1, m2 >>) = 2
  BY <1>5
<1>10. /\ Len(B) = n + 2
       /\ \A i \in 1 .. (n + 2) : B[i] = IF i <= n THEN w[i] ELSE << m1, m2 >>[i - n]
  BY <1>1, <1>8, <1>9, ConcatProperties
<1>11. B[n + 1] = m1
  <2>1. n + 1 \in 1 .. (n + 2) /\ ~(n + 1 <= n) /\ (n + 1) - n = 1
    BY <1>2
  <2>2. B[n + 1] = << m1, m2 >>[(n + 1) - n]
    BY <1>10, <2>1
  <2> QED
    BY <2>1, <2>2
<1>12. B[n + 2] = m2
  <2>1. n + 2 \in 1 .. (n + 2) /\ ~(n + 2 <= n) /\ (n + 2) - n = 2
    BY <1>2
  <2>2. B[n + 2] = << m1, m2 >>[(n + 2) - n]
    BY <1>10, <2>1
  <2> QED
    BY <2>1, <2>2
<1>13. \A i \in 1 .. n : B[i] = w[i]
  BY <1>2, <1>10
<1>14. /\ Len(B) = Stress!Last /\ Stress!Last = n + 2
       /\ \A i \in 1 .. n : B[i].meth = "mask_read" /\ B[i].side = "peer" => i + 3 <= n + 1
       /\ B[n + 1].side = "local" /\ B[n + 1].meth = "mask" /\ B[n + 1].arg = 0
       /\ B[n + 2].side = "peer" /\ B[n + 2].meth = "mask" /\ B[n + 2].arg = 0
  BY <1>3, <1>6, <1>7a, <1>10, <1>11, <1>12, <1>13
<1> QED
  BY <1>14 DEF n, B

LEMMA OtherBodies ==
    ASSUME NEW t \in Stress!Tests, t # "lanes"
    PROVE  /\ Len(Stress!Body[t]) \in 1 .. 7
           /\ \A i \in 1 .. Len(Stress!Body[t]) : Stress!Body[t][i].meth \notin {"mask", "mask_read"}
<1> USE DEF Stress!Body, Stress!local, Stress!peer
<1>1. CASE t = "smoke"
  BY <1>1 DEF Stress!smoke_pair_alive
<1>2. CASE t = "sync"
  BY <1>2 DEF Stress!sync_pair
<1>3. CASE t = "bidirectional"
  BY <1>3 DEF Stress!bidirectional
<1>4. CASE t = "exhaustion"
  BY <1>4 DEF Stress!credit_exhaustion
<1>5. CASE t = "doorbell"
  BY <1>5 DEF Stress!doorbell_handshake
<1>6. CASE t = "stub"
  BY <1>6 DEF Stress!stub
<1>7. CASE t = "ptp_sync"
  BY <1>7 DEF Stress!ptp_sync
<1> QED
  BY <1>1, <1>2, <1>3, <1>4, <1>5, <1>6, <1>7, TestsAre DEF StressTests

(* What becomes of the running test: it goes on, fails, passes, or the     *)
(* suite is stopped.                                                       *)
StressOn ==
    /\ v3' = v3 /\ v4' \in 1 .. Len(Stress!Body[v3]) /\ UNCHANGED <<v12, v15, v16>>
    /\ v3 = "lanes" /\ v4' = Stress!Last => v4 = 6 * StressLanes + 1
StressFails ==
    /\ v3' = "none" /\ v15' = [v15 EXCEPT ![v3] = "fail"] /\ UNCHANGED <<v12, v16>>
StressPasses ==
    /\ v4 = Len(Stress!Body[v3]) /\ v3' = "none" /\ UNCHANGED <<v12, v16>>
    /\ v15' = [v15 EXCEPT ![v3] = IF v15[v3] # "fail" THEN "ok" ELSE "fail"]
StressQuits ==
    /\ v16' = 130 /\ v12' # "up" /\ UNCHANGED <<v3, v4, v15>>

LEMMA Handled ==
    ASSUME NEW t, NEW i \in 1 .. (6 * StressLanes + 2)
    PROVE  Stress!Handler(t, i) = 0 \/ (t = "lanes" /\ Stress!Handler(t, i) \in 1 .. (6 * StressLanes + 1))
<1>1. CASE t # "lanes" \/ i > 6 * StressLanes
  BY <1>1 DEF Stress!Handler
<1>2. CASE t = "lanes" /\ ~(i > 6 * StressLanes)
  <2>1. (i - 1) % 6 >= 4 => 1 + (6 * (1 + ((i - 1) \div 6))) \in 1 .. (6 * StressLanes + 1)
    BY <1>2, StressSizes
  <2>2. 6 * StressLanes + 1 \in 1 .. (6 * StressLanes + 1)
    BY StressSizes
  <2> QED
    BY <1>2, <2>1, <2>2 DEF Stress!Handler
<1> QED
  BY <1>1, <1>2

LEMMA StressAt ==
    ASSUME Stress!CleanInv, v3 # "none"
    PROVE  /\ v3 \in Stress!Tests /\ v4 \in 1 .. Len(Stress!Body[v3]) /\ Len(Stress!Body[v3]) \in Nat
           /\ v3 = "lanes" => v4 \in 1 .. (6 * StressLanes + 2) /\ Len(Stress!Body[v3]) = 6 * StressLanes + 2
<1>1. v3 \in Stress!Tests /\ v4 \in 1 .. Len(Stress!Body[v3])
  BY DEF Stress!CleanInv, Stress!Placed
<1>2. CASE v3 = "lanes"
  BY <1>1, <1>2, LanesBody, StressSizes
<1>3. CASE v3 # "lanes"
  BY <1>1, <1>3, OtherBodies
<1> QED
  BY <1>2, <1>3

LEMMA Advances ==
    ASSUME Stress!CleanInv, v16 = 99, v3 # "none", NEW err, Stress!Advance(err)
    PROVE  StressOn \/ StressFails \/ StressPasses \/ StressQuits
<1> DEFINE ok == ~v5' /\ v6 = "no"
<1>1. CASE v4 < Len(Stress!Body[v3])
  <2>1. v4' = v4 + 1 /\ UNCHANGED <<v3, v12, v15, v16>>
    BY <1>1 DEF Stress!Advance
  <2>2. v4' \in 1 .. Len(Stress!Body[v3]) /\ (v3 = "lanes" /\ v4' = Stress!Last => v4 = 6 * StressLanes + 1)
    BY <1>1, <2>1, StressAt, StressSizes, LanesBody
  <2> QED
    BY <2>1, <2>2 DEF StressOn
<1>2. CASE ~(v4 < Len(Stress!Body[v3])) /\ v6 = "term"
  BY <1>2 DEF Stress!Advance, Stress!Leave, StressQuits
<1>3. CASE ~(v4 < Len(Stress!Body[v3])) /\ v6 # "term"
  <2>1. /\ v15' = [v15 EXCEPT ![v3] = IF ok /\ v15[v3] # "fail" THEN "ok" ELSE "fail"]
        /\ v3' = "none" /\ UNCHANGED <<v12, v16>>
    <3>1. Stress!EndTest(ok) /\ UNCHANGED <<v16, v12>>
      BY <1>3 DEF Stress!Advance
    <3> HIDE DEF ok
    <3> QED
      BY <3>1 DEF Stress!EndTest, Stress!Record
  <2>2. v4 = Len(Stress!Body[v3])
    BY <1>3, StressAt
  <2>3. CASE ok
    BY <2>1, <2>2, <2>3 DEF StressPasses
  <2>4. CASE ~ok
    BY <2>1, <2>4 DEF StressFails
  <2> QED
    BY <2>3, <2>4
<1> QED
  BY <1>1, <1>2, <1>3

LEMMA FailsAt ==
    ASSUME Stress!EndTest(FALSE), UNCHANGED <<v12, v16>>
    PROVE  StressFails
BY DEF Stress!EndTest, Stress!Record, StressFails

(* An exception never leads to the walk's last operation. *)
LEMMA Raises ==
    ASSUME Stress!CleanInv, v16 = 99, v3 # "none", NEW what \in {"error", "term"}, Stress!Raise(what)
    PROVE  (StressOn /\ ~(v3 = "lanes" /\ v4' = Stress!Last)) \/ StressFails \/ StressQuits
<1> DEFINE h == Stress!Handler(v3, v4)
           f == IF v3 = "lanes" /\ v4 <= 6 * StressLanes THEN 6 * StressLanes + 1 ELSE 0
<1>1. ASSUME v3 = "lanes", v4' \in 1 .. (6 * StressLanes + 1), UNCHANGED <<v3, v12, v15, v16>>
      PROVE  StressOn /\ v4' # Stress!Last
  <2>1. v4' # Stress!Last /\ v4' \in 1 .. Len(Stress!Body[v3])
    BY <1>1, StressAt, StressSizes, LanesBody
  <2> QED
    BY <1>1, <2>1 DEF StressOn
<1>2. CASE what = "term"
  <2>1. CASE f = 0
    BY <1>2, <2>1 DEF Stress!Raise, Stress!Leave, StressQuits
  <2>2. CASE f # 0
    <3>1. v3 = "lanes" /\ v4' = 6 * StressLanes + 1 /\ UNCHANGED <<v3, v12, v15, v16>>
      BY <1>2, <2>2 DEF Stress!Raise
    <3> QED
      BY <1>1, <3>1, StressSizes
  <2> QED
    BY <2>1, <2>2
<1>3. CASE what = "error"
  <2>1. CASE h = 0
    <3>1. Stress!EndTest(FALSE) /\ UNCHANGED <<v12, v16>>
      BY <1>3, <2>1 DEF Stress!Raise
    <3> QED
      BY <3>1, FailsAt
  <2>2. CASE h # 0
    <3>1. v4' = h /\ UNCHANGED <<v3, v12, v15, v16>>
      BY <1>3, <2>2 DEF Stress!Raise
    <3>2. v3 = "lanes"
      BY <2>2 DEF Stress!Handler
    <3>3. h \in 1 .. (6 * StressLanes + 1)
      BY <2>2, <3>2, StressAt, Handled
    <3> QED
      BY <1>1, <3>1, <3>2, <3>3
  <2> QED
    BY <2>1, <2>2
<1> QED
  BY <1>2, <1>3

StressMoves == StressOn \/ StressFails \/ StressPasses \/ StressQuits

LEMMA MovesPlaced ==
    ASSUME Stress!CleanInv, v16 = 99, v3 # "none", StressMoves, UNCHANGED <<v1, v2>>, DOMAIN v13' = DOMAIN v13
    PROVE  Stress!Placed' /\ Stress!Accounted' /\ Stress!GreenIsClean' /\ (v16' # 99 => v12' # "up")
<1>1. v3 \in Stress!Tests /\ "none" \notin Stress!Tests /\ v15 \in [Stress!Tests -> Stress!Verdicts]
  BY StressAt, TestsAre DEF Stress!CleanInv, Stress!Placed, StressTests
<1>2. v15' \in [Stress!Tests -> Stress!Verdicts]
  BY <1>1 DEF StressMoves, StressOn, StressFails, StressPasses, StressQuits, Stress!Verdicts
<1>3. \A t \in Stress!Tests : v15[t] \in {"ok", "fail"} \/ v3 = t => v15'[t] \in {"ok", "fail"} \/ v3' = t
  BY <1>1 DEF StressMoves, StressOn, StressFails, StressPasses, StressQuits
<1>4. v3' \in {v3, "none"} /\ (v3' # "none" => v4' \in 1 .. Len(Stress!Body[v3]))
  BY <1>1, StressAt DEF StressMoves, StressOn, StressFails, StressPasses, StressQuits
<1>5. v16' \in {99, 130} /\ (v16' # 99 => v12' # "up")
  BY DEF StressMoves, StressOn, StressFails, StressPasses, StressQuits
<1>6. Stress!Placed'
  <2>1. v3' # "none" => v4' \in 1 .. Len(Stress!Body[v3'])
    BY <1>4
  <2>2. v3' \in Stress!Tests \cup {"none"}
    BY <1>1, <1>4
  <2>3. Stress!Tests' = Stress!Tests /\ Stress!Verdicts' = Stress!Verdicts
    BY DEF Stress!Tests, Stress!Verdicts, Stress!Body
  <2> QED
    BY <1>2, <2>1, <2>2, <2>3 DEF Stress!CleanInv, Stress!Placed, Stress!Body
<1>7. Stress!Accounted'
  <2> SUFFICES ASSUME NEW k \in DOMAIN v1.tests, "skip" \notin Stress!Tags(v1.tests[k])
               PROVE  \/ v15'[v1.tests[k]] \in {"ok", "fail"} \/ v3' = v1.tests[k]
                      \/ \E q \in DOMAIN v2 : v2[q] = v1.tests[k]
    BY DEF Stress!Accounted, Stress!Tags
  <2>1. v1.tests[k] \in Stress!Tests
    BY DEF Stress!CleanInv, Stress!Placed
  <2>2. \/ v15[v1.tests[k]] \in {"ok", "fail"} \/ v3 = v1.tests[k]
        \/ \E q \in DOMAIN v2 : v2[q] = v1.tests[k]
    BY DEF Stress!CleanInv, Stress!Accounted
  <2> QED
    BY <1>3, <2>1, <2>2
<1>8. Stress!GreenIsClean'
  BY <1>5 DEF Stress!GreenIsClean
<1> QED
  BY <1>5, <1>6, <1>7, <1>8

LEMMA MovesKept ==
    ASSUME Stress!CleanInv, v16 = 99, v3 # "none", StressMoves,
           v3 # "lanes" /\ Stress!Unmasked => Stress!Unmasked',
           v3 = "lanes" /\ StressPasses /\ ~StressFails => Stress!Unmasked',
           v3 = "lanes" /\ StressOn /\ v4' = Stress!Last => v13'["local"] = 0,
           v3 = "lanes" /\ v4 = Stress!Last => v13'["local"] = v13["local"]
    PROVE  Stress!LanesKept'
<1>1. v15 \in [Stress!Tests -> Stress!Verdicts] /\ "lanes" \in Stress!Tests /\ v3 \in Stress!Tests
  BY StressAt, TestsAre DEF Stress!CleanInv, Stress!Placed, StressTests
<1>2. /\ v3 # "lanes" /\ v15["lanes"] # "fail" => Stress!Unmasked
      /\ v3 = "lanes" /\ v4 = Stress!Last => v13["local"] = 0
  BY DEF Stress!CleanInv, Stress!LanesKept, Stress!full_mask
<1>3. Stress!Last' = Stress!Last
  BY DEF Stress!Last
<1>4. CASE StressOn
  BY <1>2, <1>3, <1>4 DEF StressOn, Stress!LanesKept, Stress!full_mask
<1>5. CASE StressQuits
  BY <1>2, <1>3, <1>5 DEF StressQuits, Stress!LanesKept, Stress!full_mask
<1>6. CASE StressFails
  <2>1. v3' = "none" /\ (v3 = "lanes" => v15'["lanes"] = "fail") /\ (v3 # "lanes" => v15'["lanes"] = v15["lanes"])
    BY <1>1, <1>6 DEF StressFails
  <2> QED
    BY <1>2, <2>1 DEF Stress!LanesKept
<1>7. CASE StressPasses /\ ~StressFails
  <2>1. v3' = "none" /\ (v3 # "lanes" => v15'["lanes"] = v15["lanes"])
    BY <1>1, <1>7 DEF StressPasses
  <2> QED
    BY <1>2, <1>7, <2>1 DEF Stress!LanesKept
<1> QED
  BY <1>4, <1>5, <1>6, <1>7 DEF StressMoves

(* How a pipe grows and shrinks. *)
LEMMA PipeGrows ==
    ASSUME NEW s, Stress!IsPipe(s), NEW e
    PROVE  /\ DOMAIN s = 1 .. Len(s) /\ DOMAIN Append(s, e) = 1 .. Len(Append(s, e)) /\ Len(s) \in Nat
           /\ Len(Append(s, e)) = Len(s) + 1 /\ Append(s, e)[Len(s) + 1] = e
           /\ \A k \in 1 .. Len(s) : Append(s, e)[k] = s[k]
<1> DEFINE S == {s[k] : k \in DOMAIN s} \cup {e}
<1>1. s \in Seq({s[k] : k \in DOMAIN s})
  BY DEF Stress!IsPipe
<1>2. s \in Seq(S)
  BY <1>1
<1>3. e \in S
  OBVIOUS
<1> HIDE DEF S
<1> QED
  BY <1>2, <1>3, AppendProperties

LEMMA PipeShrinks ==
    ASSUME NEW s, Stress!IsPipe(s), s # << >>
    PROVE  /\ DOMAIN s = 1 .. Len(s) /\ DOMAIN Tail(s) = 1 .. Len(Tail(s)) /\ Len(s) \in Nat /\ Len(s) > 0
           /\ Len(Tail(s)) = Len(s) - 1 /\ Head(s) = s[1]
           /\ (Len(s) = 1 => Tail(s) = << >>)
           /\ \A k \in 1 .. Len(Tail(s)) : Tail(s)[k] = s[k + 1]
<1> DEFINE S == {s[k] : k \in DOMAIN s}
<1>1. s \in Seq(S)
  BY DEF Stress!IsPipe
<1> HIDE DEF S
<1> QED
  BY <1>1, HeadTailProperties

(* Once no call waits, nothing on the pipe is anybody's. *)
LEMMA NobodyCalls == ASSUME Stress!IInv', v9' = Stress!Idle PROVE Stress!Calling'
<1>1. v9'.id = 0 /\ v9' = Stress!Idle'
  BY DEF Stress!Idle
<1>2. (\A k \in DOMAIN v10' : v10'[k].id # 0) /\ (\A k \in DOMAIN v11' : v11'[k].id # 0)
  BY DEF Stress!IInv, Stress!Fits, Stress!TypeOK
<1> QED
  BY <1>1, <1>2 DEF Stress!Calling

LEMMA MoveKeeps ==
    ASSUME Stress!CleanInv, Stress!IInv', v16 = 99, v3 # "none", StressMoves, UNCHANGED <<v1, v2>>,
           DOMAIN v13' = DOMAIN v13, v9' = Stress!Idle,
           v3 # "lanes" /\ Stress!Unmasked => Stress!Unmasked',
           v3 = "lanes" /\ StressPasses /\ ~StressFails => Stress!Unmasked',
           v3 = "lanes" /\ StressOn /\ v4' = Stress!Last => v13'["local"] = 0,
           v3 = "lanes" /\ v4 = Stress!Last => v13'["local"] = v13["local"]
    PROVE  Stress!CleanInv'
<1>1. Stress!Placed' /\ Stress!Accounted' /\ Stress!GreenIsClean' /\ (v16' # 99 => v12' # "up")
  BY MovesPlaced
<1>2. Stress!LanesKept' /\ Stress!Calling'
  BY MovesKept, NobodyCalls
<1> QED
  BY <1>1, <1>2 DEF Stress!CleanInv, Stress!Running

(* A call or a local access raises, or the runner is told to stop. *)
LEMMA RaiseKeeps ==
    ASSUME Stress!CleanInv, Stress!IInv', v16 = 99, v3 # "none", UNCHANGED <<v1, v2, v10, v13>>, v9' = Stress!Idle,
           (StressOn /\ ~(v3 = "lanes" /\ v4' = Stress!Last)) \/ StressFails \/ StressQuits
    PROVE  Stress!CleanInv'
<1>1. StressMoves /\ ~(v3 = "lanes" /\ StressOn /\ v4' = Stress!Last)
  BY LanesBody DEF StressMoves, StressOn, StressFails, StressQuits
<1>2. Stress!Unmasked => Stress!Unmasked'
  BY DEF Stress!Unmasked, Stress!full_mask
<1>3. ~(StressPasses /\ ~StressFails)
  BY DEF StressOn, StressPasses, StressQuits
<1> QED
  BY <1>1, <1>2, <1>3, MoveKeeps

LEMMA LocalKeeps == ASSUME Stress!CleanInv, Stress!IInv', Stress!LocalOp PROVE Stress!CleanInv'
<1>1. v16 = 99 /\ v3 # "none" /\ v9' = Stress!Idle /\ UNCHANGED <<v1, v2, v10, v13>>
  BY DEF Stress!LocalOp, Stress!Busy, Stress!Running
<1>2. v4 # 6 * StressLanes + 1 \/ v3 # "lanes"
  BY LanesBody DEF Stress!LocalOp, Stress!Op
<1>3. v4 # 6 * StressLanes + 2 \/ v3 # "lanes"
  BY LanesBody DEF Stress!LocalOp, Stress!Op
<1>4. CASE Stress!Raise("error")
  BY <1>1, <1>4, Raises, RaiseKeeps
<1>5. CASE Stress!Advance(FALSE) \/ Stress!Advance(TRUE)
  <2>1. StressMoves
    BY <1>1, <1>5, Advances DEF StressMoves
  <2>2. Stress!Unmasked => Stress!Unmasked'
    BY <1>1 DEF Stress!Unmasked, Stress!full_mask
  <2>3. ~(v3 = "lanes" /\ StressPasses)
    BY <1>3, LanesBody DEF StressPasses
  <2>4. ~(v3 = "lanes" /\ StressOn /\ v4' = Stress!Last)
    BY <1>2 DEF StressOn
  <2> QED
    BY <1>1, <2>1, <2>2, <2>3, <2>4, MoveKeeps
<1> QED
  BY <1>4, <1>5 DEF Stress!LocalOp

LEMMA MaskKeeps == ASSUME Stress!CleanInv, Stress!IInv', Stress!MaskLocal PROVE Stress!CleanInv'
<1>1. v16 = 99 /\ v3 # "none" /\ v9' = Stress!Idle /\ UNCHANGED <<v1, v2, v10>>
  BY DEF Stress!MaskLocal, Stress!Busy, Stress!Running
<1>2. v3 = "lanes"
  <2>1. Stress!Body[v3][v4].meth = "mask"
    BY DEF Stress!MaskLocal, Stress!Op
  <2> QED
    BY <1>1, <2>1, StressAt, OtherBodies
<1>3. Stress!Body["lanes"][v4].side = "local" /\ v13' = [v13 EXCEPT !["local"] = Stress!Body["lanes"][v4].arg]
  BY <1>2 DEF Stress!MaskLocal, Stress!Op
<1>4. v4 # 6 * StressLanes + 2
  BY <1>3, LanesBody
<1>5. v4 = 6 * StressLanes + 1 => v13'["local"] = 0
  BY <1>3, LanesBody DEF Stress!CleanInv, Stress!Placed
<1>6. DOMAIN v13' = DOMAIN v13
  BY <1>3
<1>7. StressMoves
  BY <1>1, Advances DEF StressMoves, Stress!MaskLocal
<1>8. ~StressPasses
  BY <1>2, <1>4, LanesBody DEF StressPasses
<1>9. StressOn /\ v4' = Stress!Last => v13'["local"] = 0
  BY <1>2, <1>5 DEF StressOn
<1>10. v4 # Stress!Last
  BY <1>4 DEF Stress!Last
<1> QED
  BY <1>1, <1>2, <1>6, <1>7, <1>8, <1>9, <1>10, MoveKeeps

LEMMA CutKeeps ==
    ASSUME Stress!CleanInv, Stress!IInv', Stress!Eof \/ Stress!Alarm \/ (Stress!Term /\ v3 # "none")
    PROVE  Stress!CleanInv'
<1>1. v9' = Stress!Idle /\ UNCHANGED <<v1, v2, v10, v13>> /\ v16 = 99 /\ v3 # "none"
  BY DEF Stress!Eof, Stress!Alarm, Stress!Term, Stress!Busy, Stress!Ready, Stress!Running
<1>2. CASE Stress!Eof
  BY <1>1, <1>2, Raises, RaiseKeeps DEF Stress!Eof
<1>3. CASE Stress!Term
  BY <1>1, <1>3, Raises, RaiseKeeps DEF Stress!Term, Stress!Busy, Stress!Running
<1>4. CASE Stress!Alarm
  <2>1. CASE Stress!Handler(v3, v4) = 0
    <3>1. StressFails
      BY <1>4, <2>1, FailsAt DEF Stress!Alarm
    <3> QED
      BY <1>1, <3>1, RaiseKeeps
  <2>2. CASE Stress!Handler(v3, v4) # 0
    <3>1. v4' = Stress!Handler(v3, v4) /\ UNCHANGED <<v3, v12, v15, v16>>
      BY <1>4, <2>2 DEF Stress!Alarm
    <3>2. v3 = "lanes"
      BY <2>2 DEF Stress!Handler
    <3>3. v4' \in 1 .. (6 * StressLanes + 1)
      BY <1>1, <2>2, <3>1, <3>2, StressAt, Handled
    <3>4. v4' # Stress!Last /\ v4' \in 1 .. Len(Stress!Body[v3])
      BY <1>1, <3>2, <3>3, StressAt, StressSizes, LanesBody
    <3>5. StressOn
      BY <3>1, <3>4 DEF StressOn
    <3> QED
      BY <1>1, <3>4, <3>5, RaiseKeeps
  <2> QED
    BY <2>1, <2>2
<1> QED
  BY <1>2, <1>3, <1>4

(* A call: its request is the last on the pipe, and no answer has its id. *)
LEMMA CallCleans == ASSUME Stress!IInv, Stress!CleanInv, Stress!IInv', Stress!Call PROVE Stress!CleanInv'
<1> DEFINE req == [id |-> v8, meth |-> Stress!Op.meth, arg |-> Stress!Op.arg]
<1>1. v16 = 99 /\ v3 # "none" /\ v9 = Stress!Idle /\ Stress!Op.side = "peer" /\ UNCHANGED <<v1, v2, v11, v13>>
  BY DEF Stress!Call, Stress!Busy, Stress!Running
<1>2. CASE v12 # "up"
  <2>1. Stress!Raise("error") /\ UNCHANGED <<v9, v10>>
    BY <1>2 DEF Stress!Call
  <2> QED
    BY <1>1, <2>1, Raises, RaiseKeeps
<1>3. CASE v12 = "up"
  <2>1. v10' = Append(v10, req) /\ v9' = req /\ v8' = v8 + 1 /\ UNCHANGED <<v3, v4, v12, v15, v16>>
    BY <1>3 DEF Stress!Call
  <2>2. Stress!Placed' /\ Stress!Accounted' /\ Stress!GreenIsClean'
    BY <1>1, <2>1 DEF Stress!CleanInv, Stress!Placed, Stress!Accounted, Stress!GreenIsClean
  <2>3. /\ v8 \in Nat /\ v8 > 0
        /\ \A k \in DOMAIN v10 : v10[k].id \in 1 .. (v8 - 1)
        /\ \A k \in DOMAIN v11 : v11[k].id \in 1 .. (v8 - 1)
    BY DEF Stress!IInv, Stress!TypeOK, Stress!Fits
  <2>4. /\ DOMAIN v10 = 1 .. Len(v10) /\ DOMAIN v10' = 1 .. Len(v10') /\ Len(v10) \in Nat
        /\ Len(v10') = Len(v10) + 1 /\ v10'[Len(v10) + 1] = req /\ \A k \in 1 .. Len(v10) : v10'[k] = v10[k]
    BY <2>1, PipeGrows DEF Stress!IInv, Stress!TypeOK
  <2>5. req.id = v8 /\ req.meth = Stress!Op.meth /\ req.arg = Stress!Op.arg
    OBVIOUS
  <2> HIDE DEF req
  <2>6. Stress!Op' = Stress!Op
    BY <2>1 DEF Stress!Op, Stress!Body, Stress!lane_mask_burnt_lane
  <2>7. \A k \in DOMAIN v10' : v10'[k].id = v9'.id => k = Len(v10') /\ v10'[k] = v9'
    BY <2>1, <2>3, <2>4, <2>5
  <2>8. \A k \in DOMAIN v11' : v11'[k].id # v9'.id
    BY <1>1, <2>1, <2>3, <2>5
  <2>9. Stress!Calling'
    BY <1>1, <2>1, <2>5, <2>6, <2>7, <2>8 DEF Stress!Calling
  <2>10. v3 # "lanes" => req.meth # "mask"
    BY <1>1, <2>5, StressAt, OtherBodies DEF Stress!Op
  <2>11. v3 # "lanes" /\ Stress!Unmasked => Stress!Unmasked'
    BY <1>1, <2>4, <2>10 DEF Stress!Unmasked, Stress!full_mask
  <2>12. Stress!LanesKept'
    BY <1>1, <2>1, <2>11 DEF Stress!CleanInv, Stress!LanesKept, Stress!full_mask, Stress!Last
  <2> QED
    BY <1>1, <2>1, <2>2, <2>9, <2>12 DEF Stress!CleanInv, Stress!Running
<1> QED
  BY <1>2, <1>3

(* The answer is taken: the walk's last one finds the peer's mask full and *)
(* nothing left to be served.                                              *)
LEMMA AnswerCleans == ASSUME Stress!IInv, Stress!CleanInv, Stress!IInv', Stress!Answer PROVE Stress!CleanInv'
<1>1. /\ v16 = 99 /\ v3 # "none" /\ v9 # Stress!Idle /\ v11 # << >> /\ v11' = Tail(v11)
      /\ UNCHANGED <<v1, v2, v10, v13>>
  BY DEF Stress!Answer, Stress!Busy, Stress!Running
<1>2. /\ DOMAIN v11 = 1 .. Len(v11) /\ DOMAIN v11' = 1 .. Len(v11') /\ Len(v11) \in Nat /\ Len(v11) > 0
      /\ Len(v11') = Len(v11) - 1 /\ Head(v11) = v11[1]
      /\ \A k \in 1 .. Len(v11') : v11'[k] = v11[k + 1]
  BY <1>1, PipeShrinks DEF Stress!IInv, Stress!TypeOK
<1>3. Stress!Op.side = "peer" /\ v9.meth = Stress!Op.meth /\ v9.arg = Stress!Op.arg
  BY <1>1 DEF Stress!CleanInv, Stress!Calling
<1>4. v3 = "lanes" => v4 # 6 * StressLanes + 1
  BY <1>3, LanesBody DEF Stress!Op
<1>5. Stress!Unmasked => Stress!Unmasked'
  BY <1>1 DEF Stress!Unmasked, Stress!full_mask
<1>6. CASE ~Stress!Mine(Head(v11))
  <2>1. UNCHANGED <<v3, v4, v9, v12, v15, v16>>
    BY <1>6 DEF Stress!Answer
  <2>2. Stress!Placed' /\ Stress!Accounted' /\ Stress!GreenIsClean'
    BY <1>1, <2>1 DEF Stress!CleanInv, Stress!Placed, Stress!Accounted, Stress!GreenIsClean
  <2>3. Stress!Op' = Stress!Op /\ Stress!Idle' = Stress!Idle
    BY <2>1 DEF Stress!Op, Stress!Idle, Stress!Body, Stress!lane_mask_burnt_lane
  <2>4. \A k \in DOMAIN v11' : k + 1 \in DOMAIN v11 /\ v11'[k] = v11[k + 1]
    BY <1>2
  <2>5. \A k \in DOMAIN v11' : v11'[k].id = v9.id =>
          v10 = << >> /\ (v9.meth = "mask" /\ v11'[k].arg # 1 => v13["peer"] = v9.arg)
    BY <2>4 DEF Stress!CleanInv, Stress!Calling
  <2>6. \A k \in DOMAIN v10 : v10[k].id = v9.id => k = Len(v10) /\ v10[k] = v9
    BY DEF Stress!CleanInv, Stress!Calling
  <2>7. Stress!Calling'
    BY <1>1, <1>3, <2>1, <2>3, <2>5, <2>6 DEF Stress!Calling
  <2>8. Stress!LanesKept'
    BY <1>1, <1>5, <2>1 DEF Stress!CleanInv, Stress!LanesKept, Stress!full_mask, Stress!Last
  <2> QED
    BY <1>1, <2>1, <2>2, <2>7, <2>8 DEF Stress!CleanInv, Stress!Running
<1>7. CASE Stress!Mine(Head(v11)) /\ Head(v11).arg = 1
  <2>1. v9' = Stress!Idle /\ Stress!Raise("error")
    BY <1>7 DEF Stress!Answer
  <2> QED
    BY <1>1, <2>1, Raises, RaiseKeeps
<1>8. CASE Stress!Mine(Head(v11)) /\ Head(v11).arg # 1
  <2>1. v9' = Stress!Idle
    BY <1>8 DEF Stress!Answer
  <2>2. CASE Stress!Advance(FALSE) \/ Stress!Advance(TRUE)
    <3>1. StressMoves
      BY <1>1, <2>2, Advances DEF StressMoves
    <3>2. ~(v3 = "lanes" /\ StressOn /\ v4' = Stress!Last)
      BY <1>4 DEF StressOn
    <3>3. ASSUME v3 = "lanes", StressPasses PROVE Stress!Unmasked'
      <4>1. v4 = 6 * StressLanes + 2 /\ v4 = Stress!Last
        BY <3>3, LanesBody DEF StressPasses
      <4>2. v9.meth = "mask" /\ v9.arg = 0
        BY <1>3, <3>3, <4>1, LanesBody DEF Stress!Op
      <4>3. v11[1].id = v9.id /\ 1 \in DOMAIN v11
        BY <1>2, <1>8 DEF Stress!Mine
      <4>4. v10 = << >>
        BY <4>3 DEF Stress!CleanInv, Stress!Calling
      <4>5. v11[1].arg # 1
        BY <1>2, <1>8
      <4>6. v13["peer"] = 0
        BY <4>2, <4>3, <4>5 DEF Stress!CleanInv, Stress!Calling
      <4>7. v13["local"] = 0
        BY <3>3, <4>1 DEF Stress!CleanInv, Stress!LanesKept, Stress!full_mask
      <4>8. DOMAIN v10' = {}
        BY <1>1, <4>4
      <4> QED
        BY <1>1, <4>6, <4>7, <4>8 DEF Stress!Unmasked, Stress!full_mask
    <3> QED
      BY <1>1, <1>5, <2>1, <3>1, <3>2, <3>3, MoveKeeps
  <2>3. CASE /\ Stress!Op.meth = "mask_read" /\ v4' = v4 + 3 /\ UNCHANGED <<v3, v12, v15, v16>>
    <3>1. v3 = "lanes"
      BY <1>1, <2>3, StressAt, OtherBodies DEF Stress!Op
    <3>2. v4 \in 1 .. (6 * StressLanes)
      <4>1. v4 \in 1 .. (6 * StressLanes + 2)
        BY <1>1, <3>1, StressAt
      <4>2. v4 # 6 * StressLanes + 2
        BY <2>3, <3>1, LanesBody DEF Stress!Op
      <4> QED
        BY <1>4, <3>1, <4>1, <4>2, StressSizes
    <3>3. v4 + 3 <= 6 * StressLanes + 1
      BY <1>3, <2>3, <3>1, <3>2, LanesBody DEF Stress!Op
    <3>4. v4' # Stress!Last /\ v4' \in 1 .. Len(Stress!Body[v3])
      BY <1>1, <2>3, <3>1, <3>2, <3>3, StressAt, StressSizes, LanesBody
    <3>5. StressOn
      BY <2>3, <3>4 DEF StressOn
    <3> QED
      BY <1>1, <2>1, <3>4, <3>5, RaiseKeeps
  <2> QED
    BY <1>8, <2>2, <2>3 DEF Stress!Answer
<1> QED
  BY <1>6, <1>7, <1>8

(* The agent serves the pipe in order. *)
LEMMA ServeCleans == ASSUME Stress!IInv, Stress!CleanInv, Stress!AgentServe PROVE Stress!CleanInv'
<1> DEFINE req == Head(v10)
<1>1. v12 = "up" /\ v10 # << >> /\ v10' = Tail(v10) /\ UNCHANGED <<v1, v2, v3, v4, v9, v12, v15, v16>>
  BY DEF Stress!AgentServe
<1>2. PICK err \in BOOLEAN :
        /\ v11' = Append(v11, [req EXCEPT !.arg = IF err THEN 1 ELSE 0])
        /\ v13' = IF req.meth = "mask" /\ ~err THEN [v13 EXCEPT !["peer"] = req.arg] ELSE v13
  BY DEF Stress!AgentServe
<1> DEFINE ans == [req EXCEPT !.arg = IF err THEN 1 ELSE 0]
<1>3. v16 = 99
  BY <1>1 DEF Stress!CleanInv, Stress!Running
<1>4. /\ DOMAIN v10 = 1 .. Len(v10) /\ DOMAIN v10' = 1 .. Len(v10') /\ Len(v10) \in Nat /\ Len(v10) > 0
      /\ Len(v10') = Len(v10) - 1 /\ req = v10[1] /\ (Len(v10) = 1 => v10' = << >>)
      /\ \A k \in 1 .. Len(v10') : v10'[k] = v10[k + 1]
  BY <1>1, PipeShrinks DEF Stress!IInv, Stress!TypeOK
<1>5. 1 \in DOMAIN v10 /\ DOMAIN v10[1] = {"id", "meth", "arg"}
  BY <1>4 DEF Stress!IInv, Stress!Fits
<1>6. ans.id = req.id /\ ans.arg = (IF err THEN 1 ELSE 0)
  BY <1>4, <1>5
<1>7. /\ DOMAIN v11 = 1 .. Len(v11) /\ DOMAIN v11' = 1 .. Len(v11') /\ Len(v11) \in Nat
      /\ Len(v11') = Len(v11) + 1 /\ v11'[Len(v11) + 1] = ans /\ \A k \in 1 .. Len(v11) : v11'[k] = v11[k]
  BY <1>2, PipeGrows DEF Stress!IInv, Stress!TypeOK
<1>8. DOMAIN v13 = {"local", "peer"}
  BY DEF Stress!CleanInv, Stress!Placed
<1> HIDE DEF req, ans
<1>9. /\ DOMAIN v13' = {"local", "peer"} /\ v13'["local"] = v13["local"]
      /\ req.meth # "mask" => v13' = v13
      /\ req.meth = "mask" /\ ~err => v13'["peer"] = req.arg
  BY <1>2, <1>8
<1>10. Stress!Placed' /\ Stress!Accounted' /\ Stress!GreenIsClean'
  <2>1. Stress!GreenIsClean'
    BY <1>1, <1>3 DEF Stress!GreenIsClean
  <2> QED
    BY <1>1, <1>9, <2>1 DEF Stress!CleanInv, Stress!Placed, Stress!Accounted
<1>11. \A k \in DOMAIN v10' : k + 1 \in DOMAIN v10 /\ v10'[k] = v10[k + 1]
  BY <1>4
<1>12. \A k \in DOMAIN v10' : v10'[k].id = v9'.id => k = Len(v10') /\ v10'[k] = v9'
  <2> SUFFICES ASSUME NEW k \in DOMAIN v10', v10'[k].id = v9.id PROVE k = Len(v10') /\ v10'[k] = v9
    BY <1>1
  <2>1. k + 1 = Len(v10) /\ v10[k + 1] = v9
    BY <1>11 DEF Stress!CleanInv, Stress!Calling
  <2> QED
    BY <1>4, <1>11, <2>1
<1>13. \A k \in DOMAIN v11 : v11[k].id # v9.id
  BY <1>1 DEF Stress!CleanInv, Stress!Calling
<1>14. req.id = v9.id => v10' = << >> /\ req = v9
  BY <1>4, <1>5 DEF Stress!CleanInv, Stress!Calling
<1>15. \A k \in DOMAIN v11' : v11'[k].id = v9'.id =>
         v10' = << >> /\ (v9'.meth = "mask" /\ v11'[k].arg # 1 => v13'["peer"] = v9'.arg)
  <2> SUFFICES ASSUME NEW k \in DOMAIN v11', v11'[k].id = v9.id
               PROVE  v10' = << >> /\ (v9.meth = "mask" /\ v11'[k].arg # 1 => v13'["peer"] = v9.arg)
    BY <1>1
  <2>1. k = Len(v11) + 1 /\ v11'[k] = ans
    BY <1>7, <1>13
  <2>2. v10' = << >> /\ req = v9
    BY <1>6, <1>14, <2>1
  <2>3. v11'[k].arg # 1 => ~err
    BY <1>6, <2>1
  <2> QED
    BY <1>9, <2>2, <2>3
<1>16. Stress!Op' = Stress!Op /\ Stress!Idle' = Stress!Idle
  BY <1>1 DEF Stress!Op, Stress!Idle, Stress!Body, Stress!lane_mask_burnt_lane
<1>17. Stress!Calling'
  BY <1>1, <1>12, <1>15, <1>16 DEF Stress!CleanInv, Stress!Calling
<1>18. Stress!Unmasked => Stress!Unmasked'
  <2> SUFFICES ASSUME Stress!Unmasked PROVE Stress!Unmasked'
    OBVIOUS
  <2>1. req.meth # "mask"
    BY <1>4, <1>5 DEF Stress!Unmasked
  <2> QED
    BY <1>9, <1>11, <2>1 DEF Stress!Unmasked, Stress!full_mask
<1>19. Stress!LanesKept'
  BY <1>1, <1>9, <1>18 DEF Stress!CleanInv, Stress!LanesKept, Stress!full_mask, Stress!Last
<1> QED
  BY <1>1, <1>3, <1>10, <1>17, <1>19 DEF Stress!CleanInv, Stress!Running

LEMMA DiesCleans == ASSUME Stress!CleanInv, Stress!AgentDies PROVE Stress!CleanInv'
<1>1. v12 = "up" /\ v12' = "gone" /\ v10' = << >> /\ UNCHANGED <<v1, v2, v3, v4, v9, v11, v13, v15, v16>>
  BY DEF Stress!AgentDies
<1>2. v16 = 99
  BY <1>1 DEF Stress!CleanInv, Stress!Running
<1>3. Stress!Placed' /\ Stress!Accounted' /\ Stress!GreenIsClean'
  BY <1>1 DEF Stress!CleanInv, Stress!Placed, Stress!Accounted, Stress!GreenIsClean
<1>4. DOMAIN v10' = {}
  BY <1>1
<1>5. Stress!Op' = Stress!Op /\ Stress!Idle' = Stress!Idle
  BY <1>1 DEF Stress!Op, Stress!Idle, Stress!Body, Stress!lane_mask_burnt_lane
<1>6. Stress!Calling'
  BY <1>1, <1>4, <1>5 DEF Stress!CleanInv, Stress!Calling
<1>7. Stress!Unmasked => Stress!Unmasked'
  BY <1>1, <1>4 DEF Stress!Unmasked, Stress!full_mask
<1>8. Stress!LanesKept'
  BY <1>1, <1>7 DEF Stress!CleanInv, Stress!LanesKept, Stress!full_mask, Stress!Last
<1> QED
  BY <1>1, <1>2, <1>3, <1>6, <1>8 DEF Stress!CleanInv, Stress!Running

(* The suite starts and ends a test only between calls. *)
LEMMA NoCall == ASSUME Stress!CleanInv, v3 = "none" PROVE v9 = Stress!Idle
BY DEF Stress!CleanInv, Stress!Calling

LEMMA SuiteStarts == Stress!Init => Stress!CleanInv
<1> SUFFICES ASSUME Stress!Init PROVE Stress!CleanInv
  OBVIOUS
<1>1. /\ v3 = "none" /\ v9 = Stress!Idle /\ v10 = << >> /\ v11 = << >> /\ v16 = 99 /\ v2 = v1.tests
      /\ v13 = [s \in {"local", "peer"} |-> 0] /\ v15 = [t \in Stress!Tests |-> "none"]
  BY DEF Stress!Init, Stress!full_mask, Stress!Running
<1>2. v1.tests \in UNION {[1 .. n -> Stress!Tests] : n \in 0 .. StressMaxTests}
  BY DEF Stress!Init
<1>3. PICK n \in 0 .. StressMaxTests : v1.tests \in [1 .. n -> Stress!Tests]
  BY <1>2
<1>4. n \in Nat
  BY StressSizes
<1>5. v2 \in Seq(Stress!Tests) /\ \A k \in DOMAIN v1.tests : v1.tests[k] \in Stress!Tests
  BY <1>1, <1>3, <1>4, SeqDef
<1>6. Stress!Placed
  BY <1>1, <1>5 DEF Stress!Placed, Stress!Verdicts
<1>7. Stress!Accounted
  BY <1>1 DEF Stress!Accounted
<1>8. Stress!Calling
  BY <1>1 DEF Stress!Calling
<1>9. "lanes" \in Stress!Tests
  BY TestsAre DEF StressTests
<1>10. Stress!LanesKept /\ Stress!GreenIsClean
  BY <1>1, <1>9 DEF Stress!LanesKept, Stress!GreenIsClean, Stress!Unmasked, Stress!full_mask
<1> QED
  BY <1>1, <1>6, <1>7, <1>8, <1>10 DEF Stress!CleanInv, Stress!Running

LEMMA SuiteSame ==
    ASSUME Stress!CleanInv, UNCHANGED <<v1, v2, v3, v4, v9, v10, v11, v12, v13, v15, v16>>
    PROVE  Stress!CleanInv'
BY DEF Stress!CleanInv, Stress!Placed, Stress!Accounted, Stress!Calling, Stress!Op, Stress!LanesKept,
   Stress!Unmasked, Stress!GreenIsClean, Stress!Running

(* The run starts or is over. *)
LEMMA OverKeeps ==
    ASSUME Stress!CleanInv, v3 = "none", UNCHANGED <<v1, v2, v3, v4, v10, v11, v13, v15>>, v9' = v9,
           v16' # 99 => v12' # "up", Stress!GreenIsClean'
    PROVE  Stress!CleanInv'
<1>1. Stress!Placed' /\ Stress!Accounted' /\ Stress!LanesKept'
  BY DEF Stress!CleanInv, Stress!Placed, Stress!Accounted, Stress!LanesKept, Stress!Unmasked
<1>2. Stress!Op' = Stress!Op /\ Stress!Idle' = Stress!Idle
  BY DEF Stress!Op, Stress!Idle, Stress!Body, Stress!lane_mask_burnt_lane
<1>3. Stress!Calling'
  BY <1>2 DEF Stress!CleanInv, Stress!Calling
<1> QED
  BY <1>1, <1>3 DEF Stress!CleanInv, Stress!Running

(* A suite that ends with nothing left to run and no failure is clean. *)
LEMMA GreenEnd ==
    ASSUME Stress!CleanInv, v3 = "none", v2 = << >>, Stress!overall_ok, UNCHANGED <<v1, v13, v15>>
    PROVE  Stress!GreenIsClean'
<1>1. \A t \in Stress!Tests : v15[t] # "fail"
  BY DEF Stress!overall_ok
<1>2. v13["local"] = 0 /\ v13["peer"] = 0
  BY <1>1, TestsAre DEF Stress!CleanInv, Stress!LanesKept, Stress!Unmasked, Stress!full_mask, StressTests
<1>3. \A k \in DOMAIN v1.tests : "skip" \notin Stress!Tags(v1.tests[k]) => v15[v1.tests[k]] = "ok"
  <2> SUFFICES ASSUME NEW k \in DOMAIN v1.tests, "skip" \notin Stress!Tags(v1.tests[k])
               PROVE  v15[v1.tests[k]] = "ok"
    OBVIOUS
  <2>1. v1.tests[k] \in Stress!Tests /\ "none" \notin Stress!Tests /\ DOMAIN v2 = {}
    BY TestsAre DEF Stress!CleanInv, Stress!Placed, StressTests
  <2>2. v15[v1.tests[k]] \in {"ok", "fail"}
    BY <2>1 DEF Stress!CleanInv, Stress!Accounted
  <2> QED
    BY <1>1, <2>1, <2>2
<1> QED
  BY <1>2, <1>3 DEF Stress!GreenIsClean, Stress!full_mask, Stress!Tags

LEMMA FinishKeeps == ASSUME Stress!CleanInv, Stress!Finish PROVE Stress!CleanInv'
<1>1. v3 = "none" /\ UNCHANGED <<v1, v2, v3, v4, v9, v10, v11, v13, v15>> /\ v12' # "up"
  BY DEF Stress!Finish, Stress!Ready, Stress!Leave
<1>2. v16' = IF Stress!overall_ok THEN 0 ELSE 1
  BY DEF Stress!Finish, Stress!Leave
<1>3. v16' = 0 => Stress!overall_ok /\ v2 = << >>
  BY <1>2 DEF Stress!Finish
<1>4. v16' # 0 => Stress!GreenIsClean'
  BY DEF Stress!GreenIsClean
<1> QED
  BY <1>1, <1>3, <1>4, GreenEnd, OverKeeps

LEMMA StartKeeps ==
    ASSUME Stress!CleanInv, Stress!Start \/ (Stress!Term /\ v3 = "none") PROVE Stress!CleanInv'
<1>1. v3 = "none" /\ UNCHANGED <<v1, v2, v3, v4, v10, v11, v13, v15>> /\ v16' \in {99, 0, 2, 130}
      /\ (v16' # 99 => v12' # "up") /\ v9' \in {v9, Stress!Idle}
  BY DEF Stress!Start, Stress!Term, Stress!Busy, Stress!Leave, Stress!Running
<1>2. CASE v16' = 0
  <2>1. v2 = << >> /\ v15 = [t \in Stress!Tests |-> "none"]
    BY <1>2 DEF Stress!Start, Stress!Term, Stress!Busy, Stress!Leave, Stress!Running
  <2> QED
    BY <1>1, <2>1, GreenEnd, NoCall, OverKeeps DEF Stress!overall_ok
<1>3. CASE v16' # 0
  <2>1. Stress!GreenIsClean'
    BY <1>3 DEF Stress!GreenIsClean
  <2> QED
    BY <1>1, <2>1, NoCall, OverKeeps
<1> QED
  BY <1>2, <1>3

LEMMA BeginKeeps == ASSUME Stress!CleanInv, Stress!Begin PROVE Stress!CleanInv'
<1> DEFINE t == Head(v2)
<1>1. v3 = "none" /\ v16 = 99 /\ v2 # << >> /\ v2' = Tail(v2) /\ UNCHANGED <<v1, v9, v10, v11, v12, v13, v16>>
  BY DEF Stress!Begin, Stress!Ready, Stress!Running, Stress!rpc
<1>2. v2 \in Seq(Stress!Tests)
  BY DEF Stress!CleanInv, Stress!Placed
<1>3. /\ t \in Stress!Tests /\ v2' \in Seq(Stress!Tests)
      /\ \A q \in DOMAIN v2 : v2[q] = t \/ \E p \in DOMAIN v2' : v2'[p] = v2[q]
  <2>1. /\ t \in Stress!Tests /\ v2' \in Seq(Stress!Tests) /\ Len(v2') = Len(v2) - 1 /\ t = v2[1]
        /\ \A i \in 1 .. Len(v2') : v2'[i] = v2[i + 1]
    BY <1>1, <1>2, HeadTailProperties
  <2>2. DOMAIN v2 = 1 .. Len(v2) /\ DOMAIN v2' = 1 .. Len(v2') /\ Len(v2) \in Nat
    BY <1>2, <2>1
  <2> HIDE DEF t
  <2>3. \A q \in DOMAIN v2 : q # 1 => q - 1 \in DOMAIN v2' /\ v2'[q - 1] = v2[q]
    BY <2>1, <2>2
  <2> QED
    BY <2>1, <2>3
<1>4. "none" \notin Stress!Tests /\ "lanes" \in Stress!Tests /\ "skip" \notin Stress!Tags("lanes")
  BY TestsAre DEF StressTests, Stress!Tags
<1>5. Stress!Idle' = Stress!Idle /\ v9 = Stress!Idle /\ v9' = Stress!Idle
  BY <1>1, NoCall DEF Stress!Idle
<1>6. Stress!Calling'
  BY <1>1, <1>5 DEF Stress!CleanInv, Stress!Calling
<1>7. Stress!GreenIsClean' /\ (v16' # 99 => v12' # "up")
  BY <1>1 DEF Stress!GreenIsClean
<1>8. v15["lanes"] # "fail" => Stress!Unmasked
  BY <1>1 DEF Stress!CleanInv, Stress!LanesKept
<1>9. Stress!Unmasked => Stress!Unmasked'
  BY <1>1 DEF Stress!Unmasked, Stress!full_mask
<1>10. v15 \in [Stress!Tests -> Stress!Verdicts]
  BY DEF Stress!CleanInv, Stress!Placed
<1> DEFINE skips == "skip" \in Stress!Tags(t)
<1>11. \/ /\ skips /\ UNCHANGED <<v3, v4>>
          /\ v15' = [v15 EXCEPT ![t] = IF v15[t] = "fail" THEN v15[t] ELSE "skip"]
       \/ ~skips /\ v3' = t /\ v4' = 1 /\ v15' = v15
  BY DEF Stress!Begin
<1>12. skips => t # "lanes"
  BY <1>4
<1>13. \A k \in DOMAIN v1.tests : "skip" \notin Stress!Tags(v1.tests[k]) =>
         (v1.tests[k] = t => ~skips)
  OBVIOUS
<1> HIDE DEF t, skips
<1>14. Stress!Placed'
  <2>1. v15' \in [Stress!Tests -> Stress!Verdicts]
    BY <1>3, <1>10, <1>11 DEF Stress!Verdicts
  <2>2. Len(Stress!Body[t]) \in Nat /\ Len(Stress!Body[t]) >= 1
    <3>1. CASE t = "lanes"
      BY <3>1, LanesBody, StressSizes
    <3>2. CASE t # "lanes"
      <4>1. Len(Stress!Body[t]) \in 1 .. 7
        BY <1>3, <3>2, OtherBodies
      <4>2. \A n \in 1 .. 7 : n \in Nat /\ n >= 1
        OBVIOUS
      <4> QED
        BY <4>1, <4>2, Zenon
    <3> QED
      BY <3>1, <3>2
  <2>3. v3' \in Stress!Tests \cup {"none"} /\ (v3' # "none" => v4' \in 1 .. Len(Stress!Body[v3']))
    BY <1>1, <1>3, <1>11, <2>2
  <2>4. Stress!Tests' = Stress!Tests /\ Stress!Verdicts' = Stress!Verdicts
    BY DEF Stress!Tests, Stress!Verdicts, Stress!Body
  <2> QED
    BY <1>1, <1>3, <2>1, <2>3, <2>4 DEF Stress!CleanInv, Stress!Placed, Stress!Body
<1>15. Stress!Accounted'
  <2> SUFFICES ASSUME NEW k \in DOMAIN v1.tests, "skip" \notin Stress!Tags(v1.tests[k])
               PROVE  \/ v15'[v1.tests[k]] \in {"ok", "fail"} \/ v3' = v1.tests[k]
                      \/ \E q \in DOMAIN v2' : v2'[q] = v1.tests[k]
    BY <1>1 DEF Stress!Accounted, Stress!Tags
  <2>1. v1.tests[k] \in Stress!Tests
    BY DEF Stress!CleanInv, Stress!Placed
  <2>2. \/ v15[v1.tests[k]] \in {"ok", "fail"} \/ v3 = v1.tests[k]
        \/ \E q \in DOMAIN v2 : v2[q] = v1.tests[k]
    BY DEF Stress!CleanInv, Stress!Accounted
  <2>3. v1.tests[k] = t => v3' = t
    BY <1>11, <1>13
  <2>4. v1.tests[k] # t => v15'[v1.tests[k]] = v15[v1.tests[k]]
    BY <1>3, <1>10, <1>11, <2>1
  <2> QED
    BY <1>1, <1>3, <1>4, <2>1, <2>2, <2>3, <2>4
<1>16. Stress!LanesKept'
  <2>1. v15'["lanes"] = v15["lanes"]
    BY <1>4, <1>10, <1>11, <1>12
  <2>2. v3' = "lanes" => v4' = 1
    BY <1>1, <1>11
  <2>3. Stress!Last # 1 /\ Stress!Last' = Stress!Last
    BY StressSizes DEF Stress!Last
  <2> QED
    BY <1>8, <1>9, <2>1, <2>2, <2>3 DEF Stress!LanesKept
<1> QED
  BY <1>6, <1>7, <1>14, <1>15, <1>16 DEF Stress!CleanInv, Stress!Running

LEMMA SuiteStep == ASSUME Stress!IInv, Stress!CleanInv, Stress!Next PROVE Stress!CleanInv'
<1>1. Stress!IInv'
  BY StressStep
<1>2. CASE Stress!Term
  BY <1>1, <1>2, CutKeeps, StartKeeps
<1> QED
  BY <1>1, <1>2, StartKeeps, BeginKeeps, FinishKeeps, LocalKeeps, MaskKeeps, CallCleans, AnswerCleans, CutKeeps,
     ServeCleans, DiesCleans DEF Stress!Next

-----------------------------------------------------------------------------
(* The stress workloads' summary *)

ModeRow == [runs : Nat, pass : Nat, fail : Nat, aborted : Nat, raised : Nat]
ModeLeft(r) == r.runs - (r.pass + r.fail + r.aborted + r.raised)

(* One more in a column of a workload's row. *)
LEMMA RowCounts ==
    ASSUME NEW r \in ModeRow, NEW k \in {"runs", "pass", "fail", "aborted", "raised"}
    PROVE  LET q == [r EXCEPT ![k] = @ + 1]
               left(x) == x.runs - (x.pass + x.fail + x.aborted + x.raised)
           IN  /\ q \in ModeRow
               /\ left(q) = IF k = "runs" THEN left(r) + 1 ELSE left(r) - 1
<1>1. CASE k = "runs"
  BY <1>1 DEF ModeRow
<1>2. CASE k = "pass"
  BY <1>2 DEF ModeRow
<1>3. CASE k = "fail"
  BY <1>3 DEF ModeRow
<1>4. CASE k = "aborted"
  BY <1>4 DEF ModeRow
<1>5. CASE k = "raised"
  BY <1>5 DEF ModeRow
<1> QED
  BY <1>1, <1>2, <1>3, <1>4, <1>5

LEMMA TableCounts ==
    ASSUME v16 \in [Jobs -> ModeRow], NEW w \in Jobs, NEW k \in {"runs", "pass", "fail", "aborted", "raised"},
           v16' = [v16 EXCEPT ![w][k] = @ + 1]
    PROVE  /\ v16' \in [Jobs -> ModeRow]
           /\ ModeLeft(v16'[w]) = IF k = "runs" THEN ModeLeft(v16[w]) + 1 ELSE ModeLeft(v16[w]) - 1
           /\ \A j \in Jobs : j # w => v16'[j] = v16[j]
<1> DEFINE q == [v16[w] EXCEPT ![k] = v16[w][k] + 1]
<1>1. v16[w] \in ModeRow
  OBVIOUS
<1>2. v16' = [v16 EXCEPT ![w] = q]
  OBVIOUS
<1>3. q \in ModeRow
  BY <1>1, RowCounts
<1>4. q.runs - (q.pass + q.fail + q.aborted + q.raised)
        = IF k = "runs" THEN v16[w].runs - (v16[w].pass + v16[w].fail + v16[w].aborted + v16[w].raised) + 1
          ELSE v16[w].runs - (v16[w].pass + v16[w].fail + v16[w].aborted + v16[w].raised) - 1
  BY <1>1, RowCounts
<1> HIDE DEF q
<1>5. v16'[w] = q /\ v16' \in [Jobs -> ModeRow] /\ \A j \in Jobs : j # w => v16'[j] = v16[j]
  BY <1>2, <1>3
<1> QED
  BY <1>4, <1>5 DEF ModeLeft

LEMMA ModesStarts == Modes!Init => Modes!IInv
<1> SUFFICES ASSUME Modes!Init PROVE Modes!IInv
  OBVIOUS
<1>1. v16 = [j \in Jobs |-> [runs |-> 0, pass |-> 0, fail |-> 0, aborted |-> 0, raised |-> 0]] /\ v2 = "pick" /\ v4 = 0
  BY DEF Modes!Init
<1>2. Modes!uncounted = [j \in Jobs |-> 0]
  BY <1>1 DEF Modes!uncounted
<1> QED
  BY <1>1, <1>2 DEF Modes!IInv, Modes!TypeOK, Modes!Between

LEMMA ModesSame == ASSUME Modes!IInv, UNCHANGED <<v1, v2, v4, v14, v15, v16>> PROVE Modes!IInv'
BY DEF Modes!IInv, Modes!TypeOK, Modes!Between, Modes!uncounted, Modes!aborted

(* The alarm and the cancel are only ever raised. *)
LEMMA ModesRise ==
    ASSUME Modes!IInv, UNCHANGED <<v1, v2, v4, v16>>, v14 \/ v15 => v14' \/ v15'
    PROVE  Modes!IInv'
<1>1. Modes!uncounted' = Modes!uncounted /\ Modes!Between' = Modes!Between /\ Modes!TypeOK'
  BY DEF Modes!IInv, Modes!TypeOK, Modes!Between, Modes!uncounted
<1> QED
  BY <1>1 DEF Modes!IInv, Modes!aborted

(* A workload goes on. *)
LEMMA ModesOn ==
    ASSUME Modes!IInv, ~Modes!Between, UNCHANGED <<v1, v16>>, v4' \in Nat,
           v2' \in {"send", "recv", "clear", "ring", "quiesce", "phc_init", "baseline", "configure", "converge"},
           v2' \in {"send", "recv"} => v2 \in {"send", "recv"}
    PROVE  Modes!IInv'
<1>1. Modes!uncounted' = Modes!uncounted /\ ~Modes!Between' /\ Modes!TypeOK'
  BY DEF Modes!IInv, Modes!TypeOK, Modes!Between, Modes!uncounted
<1> QED
  BY <1>1 DEF Modes!IInv

(* A workload ends. *)
LEMMA ModesLeave ==
    ASSUME Modes!IInv, ~Modes!Between, UNCHANGED <<v14, v15>>,
           NEW k \in {"pass", "fail", "aborted", "raised", "uncounted"}, Modes!leave(k),
           k = "uncounted" => v1 = "packet_stress" /\ (v14 \/ v15)
    PROVE  Modes!IInv'
<1>1. v4' = 0 /\ v2' \in {"pick", "ended"}
  BY DEF Modes!leave
<1>2. v1 \in Jobs /\ v16 \in [Jobs -> ModeRow]
  BY DEF Modes!IInv, Modes!TypeOK, ModeRow
<1>3. CASE k = "uncounted"
  <2>1. v16' = v16 /\ Modes!uncounted' = Modes!uncounted
    BY <1>3 DEF Modes!leave, Modes!uncounted
  <2>2. Modes!TypeOK' /\ Modes!Between'
    BY <1>1, <2>1 DEF Modes!IInv, Modes!TypeOK, Modes!Between
  <2> QED
    BY <1>3, <2>1, <2>2 DEF Modes!IInv, Modes!aborted
<1>4. CASE k # "uncounted"
  <2>0. PICK w \in Jobs : w = v1
    BY <1>2
  <2>1. v16' = [v16 EXCEPT ![w][k] = @ + 1]
    BY <1>4, <2>0 DEF Modes!leave, Modes!tally
  <2>2. /\ v16' \in [Jobs -> ModeRow]
        /\ ModeLeft(v16'[v1]) = IF k = "runs" THEN ModeLeft(v16[v1]) + 1 ELSE ModeLeft(v16[v1]) - 1
        /\ \A j \in Jobs : j # v1 => v16'[j] = v16[j]
    <3>1. k \in {"runs", "pass", "fail", "aborted", "raised"}
      BY <1>4
    <3> QED
      BY <1>2, <2>0, <2>1, <3>1, TableCounts
  <2>3. \A j \in Jobs : Modes!uncounted[j] = IF j = v1 THEN 1 ELSE 0
    BY DEF Modes!IInv
  <2>4. \A j \in Jobs : Modes!uncounted'[j] = 0
    BY <1>2, <2>2, <2>3 DEF Modes!uncounted, ModeLeft
  <2>5. Modes!TypeOK' /\ Modes!Between'
    BY <1>1, <2>2 DEF Modes!TypeOK, Modes!Between, ModeRow
  <2> QED
    BY <2>4, <2>5 DEF Modes!IInv
<1> QED
  BY <1>3, <1>4

LEMMA PickKeeps == ASSUME Modes!IInv, Modes!Pick PROVE Modes!IInv'
<1>0. v2 = "pick" /\ UNCHANGED <<v14, v15>> /\ v16 \in [Jobs -> ModeRow]
  BY DEF Modes!Pick, Modes!mon, Modes!IInv, Modes!TypeOK, ModeRow
<1>1. CASE v14 \/ v15 \/ v3 = JobMaxRuns
  <2>1. v2' = "ended" /\ UNCHANGED <<v1, v4, v16>>
    BY <1>1 DEF Modes!Pick, Modes!aborted
  <2>2. Modes!uncounted' = Modes!uncounted /\ Modes!Between /\ Modes!Between' /\ Modes!TypeOK'
    BY <1>0, <2>1 DEF Modes!IInv, Modes!TypeOK, Modes!Between, Modes!uncounted
  <2> QED
    BY <1>0, <2>2 DEF Modes!IInv, Modes!aborted
<1>2. CASE ~(v14 \/ v15 \/ v3 = JobMaxRuns)
  <2>1. PICK w \in Jobs : /\ v1' = w /\ v4' = 0
                          /\ v2' = CASE w = "packet_stress" -> "send" [] w = "doorbell" -> "clear" [] OTHER -> "quiesce"
                          /\ v16' = [v16 EXCEPT ![w].runs = @ + 1]
    BY <1>2 DEF Modes!Pick, Modes!aborted
  <2>2. /\ v16' \in [Jobs -> ModeRow]
        /\ ModeLeft(v16'[w]) = ModeLeft(v16[w]) + 1
        /\ \A j \in Jobs : j # w => v16'[j] = v16[j]
    <3>1. "runs" \in {"runs", "pass", "fail", "aborted", "raised"} /\ v16' = [v16 EXCEPT ![w]["runs"] = @ + 1]
      BY <2>1
    <3> QED
      BY <1>0, <3>1, TableCounts
  <2>3. \A j \in Jobs : Modes!uncounted[j] = 0
    BY <1>0, <1>2 DEF Modes!IInv, Modes!Between, Modes!aborted
  <2>4. \A j \in Jobs : Modes!uncounted'[j] = IF j = w THEN 1 ELSE 0
    BY <2>2, <2>3 DEF Modes!uncounted, ModeLeft
  <2>5. Modes!TypeOK' /\ ~Modes!Between'
    BY <2>1, <2>2 DEF Modes!TypeOK, Modes!Between, ModeRow
  <2> QED
    BY <2>1, <2>4, <2>5 DEF Modes!IInv
<1> QED
  BY <1>1, <1>2

LEMMA PacketEndKeeps == ASSUME Modes!IInv, Modes!PacketEnd PROVE Modes!IInv'
<1>1. v2 = "send" /\ UNCHANGED <<v14, v15>> /\ (v14 \/ v15 \/ v4 = JobCount) /\ v4 \in Nat
  BY DEF Modes!PacketEnd, Modes!mon, Modes!aborted, Modes!IInv, Modes!TypeOK
<1>2. v1 = "packet_stress" /\ ~Modes!Between
  BY <1>1 DEF Modes!IInv, Modes!TypeOK, Modes!Between
<1>3. CASE v4 < JobCount
  <2>1. v14 \/ v15
    BY <1>1, <1>3
  <2> QED
    BY <1>1, <1>2, <1>3, <2>1, ModesLeave DEF Modes!PacketEnd
<1>4. CASE ~(v4 < JobCount) /\ v6 > 0
  BY <1>1, <1>2, <1>4, ModesLeave DEF Modes!PacketEnd
<1>5. CASE ~(v4 < JobCount) /\ ~(v6 > 0)
  BY <1>1, <1>2, <1>5, ModesLeave DEF Modes!PacketEnd
<1> QED
  BY <1>3, <1>4, <1>5

LEMMA VerifyKeeps == ASSUME Modes!IInv, Modes!DoorbellVerify PROVE Modes!IInv'
<1>1. v2 = "ring" /\ UNCHANGED <<v14, v15>> /\ ~Modes!Between
  BY DEF Modes!DoorbellVerify, Modes!mon, Modes!Between
<1>2. Modes!leave("pass") \/ Modes!leave("fail")
  BY DEF Modes!DoorbellVerify
<1> QED
  BY <1>1, <1>2, ModesLeave

LEMMA PtpKeeps ==
    ASSUME Modes!IInv, Modes!PtpSetup \/ Modes!PtpSample \/ Modes!PtpEnd
    PROVE  Modes!IInv'
<1>1. /\ v2 \in {"quiesce", "phc_init", "baseline", "configure", "converge"}
      /\ UNCHANGED <<v14, v15>> /\ ~Modes!Between
  BY DEF Modes!PtpSetup, Modes!PtpSample, Modes!PtpEnd, Modes!mon, Modes!Between
<1>2. \/ Modes!leave("pass") \/ Modes!leave("fail") \/ Modes!leave("aborted")
      \/ /\ v2' \in {"quiesce", "phc_init", "baseline", "configure", "converge"}
         /\ UNCHANGED <<v1, v4, v16>>
  <2>1. CASE Modes!PtpSetup
    BY <2>1 DEF Modes!PtpSetup
  <2>2. CASE Modes!PtpSample
    BY <2>2, <1>1 DEF Modes!PtpSample
  <2>3. CASE Modes!PtpEnd
    BY <2>3 DEF Modes!PtpEnd
  <2> QED
    BY <2>1, <2>2, <2>3
<1>3. v4 \in Nat
  BY DEF Modes!IInv, Modes!TypeOK
<1> QED
  BY <1>1, <1>2, <1>3, ModesLeave, ModesOn

LEMMA JobRaisesKeeps == ASSUME Modes!IInv, Modes!JobRaises PROVE Modes!IInv'
<1>1. ~Modes!Between /\ UNCHANGED <<v14, v15>> /\ Modes!leave("raised")
  BY DEF Modes!JobRaises, Modes!mon
<1> QED
  BY <1>1, ModesLeave

LEMMA ModesStep == ASSUME Modes!IInv, Modes!Next PROVE Modes!IInv'
<1>0. v4 \in Nat /\ v4 + 1 \in Nat
  BY DEF Modes!IInv, Modes!TypeOK
<1>1. CASE Modes!PacketSend
  <2>1. ~Modes!Between /\ v2 = "send" /\ v2' \in {"send", "recv"} /\ v4' \in Nat /\ UNCHANGED <<v1, v16>>
    BY <1>0, <1>1 DEF Modes!PacketSend, Modes!Between
  <2> QED
    BY <2>1, ModesOn
<1>2. CASE Modes!PacketRecv
  <2>1. ~Modes!Between /\ v2 = "recv" /\ v2' = "send" /\ v4' \in Nat /\ UNCHANGED <<v1, v16>>
    BY <1>0, <1>2 DEF Modes!PacketRecv, Modes!Between
  <2> QED
    BY <2>1, ModesOn
<1>3. CASE Modes!DoorbellClear \/ Modes!DoorbellRing
  <2>1. ~Modes!Between /\ v2' = "ring" /\ v4' \in Nat /\ UNCHANGED <<v1, v16>>
    BY <1>0, <1>3 DEF Modes!DoorbellClear, Modes!DoorbellRing, Modes!Between
  <2> QED
    BY <2>1, ModesOn
<1>4. CASE Modes!Arrive \/ Modes!LinkMoves
  BY <1>4, ModesSame DEF Modes!Arrive, Modes!LinkMoves, Modes!jobVars, Modes!mon, Modes!table
<1>5. CASE Modes!FcsmPoll \/ Modes!PhyPoll \/ Modes!Cancel
  <2>1. UNCHANGED <<v1, v2, v4, v16>>
    BY <1>5 DEF Modes!FcsmPoll, Modes!PhyPoll, Modes!Cancel, Modes!jobVars, Modes!table
  <2>2. v14 \/ v15 => v14' \/ v15'
    BY <1>5, Zenon DEF Modes!FcsmPoll, Modes!PhyPoll, Modes!Cancel, Modes!mon
  <2> QED
    BY <2>1, <2>2, ModesRise
<1> QED
  BY <1>1, <1>2, <1>3, <1>4, <1>5, PickKeeps, PacketEndKeeps, VerifyKeeps, PtpKeeps, JobRaisesKeeps
  DEF Modes!Next

LEMMA ModesAccounts == Modes!IInv => Modes!SummaryAccounts
BY DEF Modes!IInv, Modes!SummaryAccounts, Modes!Between

-----------------------------------------------------------------------------
(* The stress workloads' passes *)

LEMMA ModesDir == ASSUME v4 \in Nat PROVE Modes!dir \in JobDirs
<1>1. Modes!Cardinality(JobDirs) = Cardinality(JobDirs)
  BY DEF Modes!Cardinality, Cardinality
<1>2. Cardinality(JobDirs) \in Nat /\ Cardinality(JobDirs) # 0
  BY JobSides, FS_CardinalityType, FS_EmptySet
<1> DEFINE n == Cardinality(JobDirs)
<1>3. n \in Nat /\ n > 0
  BY <1>2
<1>4. JobDirs = 1 .. n /\ Modes!dir = 1 + (v4 % n)
  BY <1>1, JobSides DEF Modes!dir
<1> HIDE DEF n
<1>5. v4 % n \in 0 .. (n - 1)
  BY <1>3
<1> QED
  BY <1>3, <1>4, <1>5

LEMMA CleanStarts == Modes!Init => Modes!CleanInv
<1> SUFFICES ASSUME Modes!Init PROVE Modes!CleanInv
  OBVIOUS
<1>1. /\ v3 = 0 /\ v6 = 0 /\ v2 = "pick" /\ v17 = {} /\ v18 = {}
      /\ v7 = [d \in JobDirs |-> << >>] /\ v8 \in [JobDirs -> 0 .. 1]
      /\ v9 = [d \in JobDirs |-> 0] /\ v10 = [d \in JobDirs |-> 0]
  BY DEF Modes!Init
<1>2. Modes!Counters
  BY <1>1 DEF Modes!Counters
<1> QED
  BY <1>1, <1>2 DEF Modes!CleanInv, Modes!PassedBefore, Modes!PassIsClean, Modes!PacketsClean, Modes!RingsClean,
     Modes!PtpClean, Modes!Between

CleanVars == <<v2, v3, v4, v5, v6, v7, v8, v9, v10, v17, v18, v19>>

LEMMA CleanSame == ASSUME Modes!CleanInv, UNCHANGED CleanVars PROVE Modes!CleanInv'
BY DEF CleanVars, Modes!CleanInv, Modes!Counters, Modes!PassedBefore, Modes!PassIsClean, Modes!PacketsClean,
   Modes!RingsClean, Modes!PtpClean, Modes!Between, Modes!dir, Modes!packet

(* What a run may do to the three sets of runs before it ends. *)
LEMMA RunsKeep ==
    ASSUME Modes!CleanInv, ~Modes!Between, ~Modes!Between', UNCHANGED <<v3, v17>>,
           \A r \in v18' : r \in v18 \/ r = v3, \A r \in v19 : r \in v19'
    PROVE  Modes!PassedBefore' /\ Modes!PassIsClean'
<1>1. v3 \in Nat /\ v3 \notin v17 /\ \A r \in v17 \cup v18 : r \in 0 .. v3
  BY DEF Modes!CleanInv, Modes!PassedBefore, Modes!Counters
<1>2. Modes!PassedBefore'
  BY <1>1 DEF Modes!PassedBefore
<1>3. \A r \in v17' : r \in v18' => r \in v19'
  BY <1>1 DEF Modes!CleanInv, Modes!PassIsClean
<1> QED
  BY <1>2, <1>3 DEF Modes!PassIsClean

(* A run ends: one that passed was not hit, or is known to be dirty. *)
LEMMA CleanLeaves ==
    ASSUME Modes!CleanInv, ~Modes!Between, NEW k, Modes!leave(k), Modes!Counters', v3' = v3, v19' = v19,
           \A r \in v18' : r \in v18 \/ r = v3,
           k = "pass" /\ v3 \in v18' => v3 \in v19
    PROVE  Modes!CleanInv'
<1>1. v3 \in Nat /\ v3 \notin v17 /\ \A r \in v17 \cup v18 : r \in 0 .. v3
  BY DEF Modes!CleanInv, Modes!PassedBefore, Modes!Counters
<1>2. v2' \in {"pick", "ended"} /\ v17' = IF k = "pass" THEN v17 \cup {v3} ELSE v17
  BY DEF Modes!leave
<1>3. Modes!PassedBefore'
  BY <1>1, <1>2 DEF Modes!PassedBefore, Modes!Between
<1>4. \A r \in v17' : r \in v18' => r \in v19'
  BY <1>1, <1>2 DEF Modes!CleanInv, Modes!PassIsClean
<1>5. Modes!PacketsClean' /\ Modes!RingsClean' /\ Modes!PtpClean'
  BY <1>2 DEF Modes!PacketsClean, Modes!RingsClean, Modes!PtpClean
<1> QED
  BY <1>3, <1>4, <1>5 DEF Modes!CleanInv, Modes!PassIsClean

LEMMA PickCleans == ASSUME Modes!IInv, Modes!CleanInv, Modes!Pick PROVE Modes!CleanInv'
<1>0. v2 = "pick" /\ UNCHANGED <<v7, v8, v9, v17, v18>>
  BY DEF Modes!Pick
<1>1. CASE v14 \/ v15 \/ v3 = JobMaxRuns
  <2>1. v2' = "ended" /\ UNCHANGED <<v3, v4, v5, v6, v10, v19>>
    BY <1>1 DEF Modes!Pick, Modes!aborted
  <2> QED
    BY <1>0, <2>1 DEF Modes!CleanInv, Modes!Counters, Modes!PassedBefore, Modes!PassIsClean, Modes!PacketsClean,
       Modes!RingsClean, Modes!PtpClean, Modes!Between
<1>2. CASE ~(v14 \/ v15 \/ v3 = JobMaxRuns)
  <2>1. PICK j \in Jobs :
          /\ v3' = v3 + 1 /\ v4' = 0 /\ v6' = 0 /\ v10' = [d \in JobDirs |-> 0]
          /\ v2' = CASE j = "packet_stress" -> "send" [] j = "doorbell" -> "clear" [] OTHER -> "quiesce"
          /\ v19' = IF j = "packet_stress" /\ (\E d \in JobDirs : v7[d] # << >>) THEN v19 \cup {v3 + 1} ELSE v19
    BY <1>2 DEF Modes!Pick, Modes!aborted
  <2>2. Modes!Counters'
    BY <1>0, <2>1 DEF Modes!CleanInv, Modes!Counters
  <2>3. v3 \in Nat /\ (\A r \in v17 \cup v18 : r \in 0 .. v3) /\ v3' \notin v17' /\ v3' \notin v18'
    BY <1>0, <2>1 DEF Modes!CleanInv, Modes!PassedBefore, Modes!Counters
  <2>4. Modes!PassedBefore'
    BY <1>0, <2>1, <2>3 DEF Modes!PassedBefore
  <2>5. Modes!PassIsClean'
    BY <1>0, <2>1 DEF Modes!CleanInv, Modes!PassIsClean
  <2>6. v2' = "send" => j = "packet_stress"
    BY <2>1
  <2>7. v2' \in {"send", "clear", "quiesce"}
    BY <2>1
  <2>8. Modes!PacketsClean'
    BY <1>0, <2>1, <2>3, <2>6, <2>7 DEF Modes!PacketsClean
  <2>9. Modes!RingsClean' /\ Modes!PtpClean'
    BY <2>1, <2>3, <2>7 DEF Modes!RingsClean, Modes!PtpClean
  <2> QED
    BY <2>2, <2>4, <2>5, <2>8, <2>9 DEF Modes!CleanInv
<1> QED
  BY <1>1, <1>2

(* The packet workload *)
LEMMA SendCleans == ASSUME Modes!IInv, Modes!CleanInv, Modes!PacketSend PROVE Modes!CleanInv'
<1>0. v4 \in Nat /\ v2 = "send" /\ v2' \in {"send", "recv"} /\ UNCHANGED <<v3, v5, v8, v9, v10, v17, v19>>
  BY DEF Modes!PacketSend, Modes!IInv, Modes!TypeOK
<1>1. PICK f : /\ v7' = [v7 EXCEPT ![Modes!dir] = f]
               /\ f \in {Append(v7[Modes!dir], Modes!packet), v7[Modes!dir]}
               /\ \/ v18' = (IF f = v7[Modes!dir] THEN v18 \cup {v3} ELSE v18) /\ v2' = "recv" /\ UNCHANGED <<v6, v4>>
                  \/ v18' = v18 \cup {v3} /\ v2' = "send" /\ v6' = v6 + 1 /\ v4' = v4 + 1
  BY DEF Modes!PacketSend, Modes!spoil, Modes!cross
<1>2. Modes!dir \in JobDirs /\ DOMAIN v7 = JobDirs /\ v6 \in Nat
  BY <1>0, ModesDir DEF Modes!CleanInv, Modes!Counters
<1>3. Modes!Counters'
  BY <1>0, <1>1, <1>2 DEF Modes!CleanInv, Modes!Counters
<1>4. Modes!PassedBefore' /\ Modes!PassIsClean'
  <2>1. ~Modes!Between /\ ~Modes!Between'
    BY <1>0 DEF Modes!Between
  <2>2. (\A r \in v18' : r \in v18 \/ r = v3) /\ (\A r \in v19 : r \in v19')
    BY <1>0, <1>1
  <2> QED
    BY <1>0, <2>1, <2>2, RunsKeep
<1>5. Modes!PacketsClean'
  <2> SUFFICES ASSUME v6' = 0, v3 \notin v19 PROVE Modes!PacketsClean'
    BY <1>0 DEF Modes!PacketsClean
  <2>1. v2' = "recv" /\ v4' = v4 /\ v6 = 0 /\ v18' = IF f = v7[Modes!dir] THEN v18 \cup {v3} ELSE v18
    BY <1>1, <1>2
  <2>2. v3 \notin v18 /\ \A d \in JobDirs : v7[d] = << >>
    BY <1>0, <2>1 DEF Modes!CleanInv, Modes!PacketsClean
  <2>3. Modes!dir' = Modes!dir /\ Modes!packet' = Modes!packet
    BY <1>0, <2>1 DEF Modes!dir, Modes!packet
  <2>4. v7'[Modes!dir] = f /\ \A d \in JobDirs : d # Modes!dir => v7'[d] = << >>
    BY <1>1, <1>2, <2>2
  <2>5. f = << >> \/ (f = << Modes!packet >> /\ v18' = v18)
    <3>1. v7[Modes!dir] = << >>
      BY <1>2, <2>2
    <3>2. Append(<< >>, Modes!packet) = << Modes!packet >> /\ << Modes!packet >> # << >>
      OBVIOUS
    <3> QED
      BY <1>1, <2>1, <3>1, <3>2
  <2> QED
    BY <1>0, <2>1, <2>2, <2>3, <2>4, <2>5 DEF Modes!PacketsClean
<1>6. Modes!RingsClean' /\ Modes!PtpClean'
  BY <1>0 DEF Modes!RingsClean, Modes!PtpClean
<1> QED
  BY <1>3, <1>4, <1>5, <1>6 DEF Modes!CleanInv

LEMMA RecvCleans == ASSUME Modes!IInv, Modes!CleanInv, Modes!PacketRecv PROVE Modes!CleanInv'
<1> DEFINE q == v7[Modes!dir]
<1>0. v4 \in Nat /\ v2 = "recv" /\ v2' = "send" /\ UNCHANGED <<v3, v5, v8, v9, v10, v17, v19>>
  BY DEF Modes!PacketRecv, Modes!IInv, Modes!TypeOK
<1>1. \/ /\ q # << >> /\ q[1].size = v5 /\ v7' = [v7 EXCEPT ![Modes!dir] = Tail(q)]
         /\ v18' = (IF q[1] # Modes!packet THEN v18 \cup {v3} ELSE v18)
         /\ v6' = v6 + (IF q[1].i = v4 THEN 0 ELSE 1)
      \/ /\ v6' = v6 + 1 /\ v18' = v18 \cup {v3}
         /\ v7' \in {v7, [v7 EXCEPT ![Modes!dir] = IF q = << >> THEN q ELSE Tail(q)]}
  BY DEF Modes!PacketRecv, Modes!spoil, Modes!Expected
<1>2. Modes!dir \in JobDirs /\ DOMAIN v7 = JobDirs /\ v6 \in Nat
  BY <1>0, ModesDir DEF Modes!CleanInv, Modes!Counters
<1>3. Modes!Counters'
  <2>1. v6' \in Nat /\ DOMAIN v7' = JobDirs
    BY <1>1, <1>2
  <2> QED
    BY <1>0, <2>1 DEF Modes!CleanInv, Modes!Counters
<1>4. Modes!PassedBefore' /\ Modes!PassIsClean'
  <2>1. ~Modes!Between /\ ~Modes!Between'
    BY <1>0 DEF Modes!Between
  <2>2. (\A r \in v18' : r \in v18 \/ r = v3) /\ (\A r \in v19 : r \in v19')
    BY <1>0, <1>1
  <2> QED
    BY <1>0, <2>1, <2>2, RunsKeep
<1>5. Modes!PacketsClean'
  <2> SUFFICES ASSUME v6' = 0, v3 \notin v19 PROVE v3 \notin v18' /\ \A d \in JobDirs : v7'[d] = << >>
    BY <1>0 DEF Modes!PacketsClean
  <2>1. /\ q # << >> /\ v7' = [v7 EXCEPT ![Modes!dir] = Tail(q)] /\ v6 = 0
        /\ v18' = (IF q[1] # Modes!packet THEN v18 \cup {v3} ELSE v18)
    BY <1>1, <1>2
  <2>2. q = << Modes!packet >> /\ v3 \notin v18 /\ \A d \in JobDirs : d # Modes!dir => v7[d] = << >>
    BY <1>0, <2>1 DEF Modes!CleanInv, Modes!PacketsClean
  <2>3. Tail(q) = << >> /\ q[1] = Modes!packet
    BY <2>2
  <2> HIDE DEF q
  <2> QED
    BY <1>2, <2>1, <2>2, <2>3
<1>6. Modes!RingsClean' /\ Modes!PtpClean'
  BY <1>0 DEF Modes!RingsClean, Modes!PtpClean
<1> QED
  BY <1>3, <1>4, <1>5, <1>6 DEF Modes!CleanInv

LEMMA EndCleans == ASSUME Modes!IInv, Modes!CleanInv, Modes!PacketEnd PROVE Modes!CleanInv'
<1> DEFINE k == IF v4 < JobCount THEN "uncounted" ELSE IF v6 > 0 THEN "fail" ELSE "pass"
<1>1. v2 = "send" /\ Modes!leave(k) /\ UNCHANGED <<v3, v7, v8, v9, v10, v18, v19>> /\ ~Modes!Between
  BY DEF Modes!PacketEnd, Modes!wire, Modes!Between
<1>2. v6' = 0
  BY <1>1 DEF Modes!leave
<1>3. Modes!Counters'
  BY <1>1, <1>2 DEF Modes!CleanInv, Modes!Counters
<1>4. k = "pass" => v6 = 0
  BY DEF Modes!CleanInv, Modes!Counters
<1>5. k = "pass" /\ v3 \in v18' => v3 \in v19
  BY <1>1, <1>4 DEF Modes!CleanInv, Modes!PacketsClean
<1> HIDE DEF k
<1> QED
  BY <1>1, <1>3, <1>5, CleanLeaves

(* The doorbell workload *)
LEMMA ClearCleans == ASSUME Modes!IInv, Modes!CleanInv, Modes!DoorbellClear PROVE Modes!CleanInv'
<1>1. PICK D \in SUBSET JobDirs :
        /\ v8' = [d \in JobDirs |-> IF d \in D THEN 0 ELSE v8[d]]
        /\ v19' = IF \E d \in JobDirs : v8'[d] + v9[d] > 0 THEN v19 \cup {v3} ELSE v19
  BY DEF Modes!DoorbellClear
<1>2. v2 = "clear" /\ v2' = "ring" /\ UNCHANGED <<v3, v6, v7, v9, v10, v17, v18>>
  BY DEF Modes!DoorbellClear
<1>3. v8 \in [JobDirs -> Nat] /\ v9 \in [JobDirs -> Nat] /\ v10 \in [JobDirs -> Nat]
  BY DEF Modes!CleanInv, Modes!Counters
<1>4. v8' \in [JobDirs -> Nat]
  BY <1>1, <1>3
<1>5. Modes!Counters'
  BY <1>2, <1>4 DEF Modes!CleanInv, Modes!Counters
<1>6. Modes!PassedBefore' /\ Modes!PassIsClean'
  <2>1. ~Modes!Between /\ ~Modes!Between'
    BY <1>2 DEF Modes!Between
  <2> QED
    BY <1>1, <1>2, <2>1, RunsKeep
<1>7. v3 \notin v18 /\ \A d \in JobDirs : v10[d] = 0
  BY <1>2 DEF Modes!CleanInv, Modes!RingsClean
<1>8. v3 \notin v19' => \A d \in JobDirs : v8'[d] + v9[d] <= v10[d]
  <2> SUFFICES ASSUME v3 \notin v19', NEW d \in JobDirs PROVE v8'[d] + v9[d] <= v10[d]
    OBVIOUS
  <2>1. ~(v8'[d] + v9[d] > 0)
    BY <1>1
  <2>2. v8'[d] \in Nat /\ v9[d] \in Nat /\ v10[d] = 0
    BY <1>3, <1>4, <1>7
  <2> QED
    BY <2>1, <2>2
<1>9. Modes!RingsClean' /\ Modes!PacketsClean' /\ Modes!PtpClean'
  BY <1>2, <1>7, <1>8 DEF Modes!RingsClean, Modes!PacketsClean, Modes!PtpClean
<1> QED
  BY <1>5, <1>6, <1>9 DEF Modes!CleanInv

LEMMA RingCleans == ASSUME Modes!IInv, Modes!CleanInv, Modes!DoorbellRing PROVE Modes!CleanInv'
<1> DEFINE e == Modes!dir
<1>1. PICK raised \in BOOLEAN, how \in {"now", "later", "never"} :
        /\ v8' = [v8 EXCEPT ![e] = @ + (IF how = "now" THEN 1 ELSE 0)]
        /\ v9' = [v9 EXCEPT ![e] = @ + (IF how = "later" THEN 1 ELSE 0)]
        /\ v10' = [v10 EXCEPT ![e] = @ + (IF raised THEN 0 ELSE 1)]
        /\ v18' = IF how = "never" /\ ~raised THEN v18 \cup {v3} ELSE v18
        /\ v19' = IF raised THEN v19 \cup {v3} ELSE v19
  BY DEF Modes!DoorbellRing, Modes!spoil
<1>2. v4 \in Nat /\ v2 = "ring" /\ v2' = "ring" /\ UNCHANGED <<v3, v6, v7, v17>>
  BY DEF Modes!DoorbellRing, Modes!IInv, Modes!TypeOK
<1>3. e \in JobDirs
  BY <1>2, ModesDir
<1> HIDE DEF e
<1>4. v8 \in [JobDirs -> Nat] /\ v9 \in [JobDirs -> Nat] /\ v10 \in [JobDirs -> Nat]
  BY DEF Modes!CleanInv, Modes!Counters
<1>5. v8' \in [JobDirs -> Nat] /\ v9' \in [JobDirs -> Nat] /\ v10' \in [JobDirs -> Nat]
  BY <1>1, <1>3, <1>4
<1>6. Modes!Counters'
  BY <1>2, <1>5 DEF Modes!CleanInv, Modes!Counters
<1>7. Modes!PassedBefore' /\ Modes!PassIsClean'
  <2>1. ~Modes!Between /\ ~Modes!Between'
    BY <1>2 DEF Modes!Between
  <2>2. (\A r \in v18' : r \in v18 \/ r = v3) /\ (\A r \in v19 : r \in v19')
    BY <1>1
  <2> QED
    BY <1>2, <2>1, <2>2, RunsKeep
<1>8. ASSUME v3 \notin v19'
      PROVE  /\ \A d \in JobDirs : v8'[d] + v9'[d] <= v10'[d]
             /\ v3 \in v18' => \E d \in JobDirs : v8'[d] + v9'[d] < v10'[d]
  <2>1. ~raised /\ v3 \notin v19
    BY <1>1, <1>8
  <2>2. /\ \A d \in JobDirs : v8[d] + v9[d] <= v10[d]
        /\ v3 \in v18 => \E d \in JobDirs : v8[d] + v9[d] < v10[d]
    BY <1>2, <2>1 DEF Modes!CleanInv, Modes!RingsClean
  <2>3. \A d \in JobDirs : d # e => v8'[d] = v8[d] /\ v9'[d] = v9[d] /\ v10'[d] = v10[d]
    BY <1>1, <1>3, <1>4
  <2>4. /\ v8'[e] = v8[e] + (IF how = "now" THEN 1 ELSE 0) /\ v9'[e] = v9[e] + (IF how = "later" THEN 1 ELSE 0)
        /\ v10'[e] = v10[e] + 1 /\ v8[e] \in Nat /\ v9[e] \in Nat /\ v10[e] \in Nat
    BY <1>1, <1>3, <1>4, <2>1
  <2>5. /\ v8'[e] + v9'[e] = v8[e] + v9[e] + (IF how = "never" THEN 0 ELSE 1)
        /\ v8'[e] + v9'[e] <= v10'[e]
        /\ v8[e] + v9[e] < v10[e] => v8'[e] + v9'[e] < v10'[e]
        /\ how = "never" => v8'[e] + v9'[e] < v10'[e]
    BY <1>3, <2>2, <2>4
  <2>6. \A d \in JobDirs : v8'[d] + v9'[d] <= v10'[d]
    BY <2>2, <2>3, <2>5
  <2>7. \A d \in JobDirs : v8[d] + v9[d] < v10[d] => v8'[d] + v9'[d] < v10'[d]
    BY <2>3, <2>5
  <2>8. v3 \in v18' => v3 \in v18 \/ how = "never"
    BY <1>1
  <2> QED
    BY <1>3, <2>2, <2>5, <2>6, <2>7, <2>8
<1>9. Modes!RingsClean' /\ Modes!PacketsClean' /\ Modes!PtpClean'
  BY <1>2, <1>8 DEF Modes!RingsClean, Modes!PacketsClean, Modes!PtpClean
<1> QED
  BY <1>6, <1>7, <1>9 DEF Modes!CleanInv

LEMMA ArriveCleans == ASSUME Modes!CleanInv, Modes!Arrive PROVE Modes!CleanInv'
<1>1. PICK e \in JobDirs : v9[e] > 0 /\ v9' = [v9 EXCEPT ![e] = @ - 1] /\ v8' = [v8 EXCEPT ![e] = @ + 1]
  BY DEF Modes!Arrive
<1>2. UNCHANGED <<v2, v3, v4, v5, v6, v7, v10, v17, v18, v19>>
  BY DEF Modes!Arrive, Modes!jobVars, Modes!table
<1>3. v8 \in [JobDirs -> Nat] /\ v9 \in [JobDirs -> Nat] /\ v10 \in [JobDirs -> Nat]
  BY DEF Modes!CleanInv, Modes!Counters
<1>4. v8' \in [JobDirs -> Nat] /\ v9' \in [JobDirs -> Nat]
  BY <1>1, <1>3
<1>5. \A d \in JobDirs : v8'[d] + v9'[d] = v8[d] + v9[d]
  BY <1>1, <1>3
<1>6. Modes!Counters'
  BY <1>2, <1>4 DEF Modes!CleanInv, Modes!Counters
<1>7. Modes!PassedBefore' /\ Modes!PassIsClean' /\ Modes!PacketsClean' /\ Modes!PtpClean'
  BY <1>2 DEF Modes!CleanInv, Modes!PassedBefore, Modes!PassIsClean, Modes!PacketsClean, Modes!PtpClean,
     Modes!Between, Modes!dir, Modes!packet
<1>8. Modes!RingsClean'
  BY <1>2, <1>5 DEF Modes!CleanInv, Modes!RingsClean
<1> QED
  BY <1>6, <1>7, <1>8 DEF Modes!CleanInv

LEMMA VerifyCleans == ASSUME Modes!CleanInv, Modes!DoorbellVerify PROVE Modes!CleanInv'
<1>1. PICK D \in SUBSET JobDirs :
        /\ v8' = [d \in JobDirs |-> IF d \in D THEN 0 ELSE v8[d]]
        /\ Modes!leave(IF D = JobDirs /\ (\A d \in JobDirs : v8[d] = v10[d]) THEN "pass" ELSE "fail")
  BY DEF Modes!DoorbellVerify
<1> DEFINE k == IF D = JobDirs /\ (\A d \in JobDirs : v8[d] = v10[d]) THEN "pass" ELSE "fail"
<1>2. v2 = "ring" /\ UNCHANGED <<v3, v7, v9, v10, v18, v19>> /\ ~Modes!Between
  BY DEF Modes!DoorbellVerify, Modes!Between
<1>3. v8 \in [JobDirs -> Nat] /\ v9 \in [JobDirs -> Nat] /\ v10 \in [JobDirs -> Nat]
  BY DEF Modes!CleanInv, Modes!Counters
<1>4. v8' \in [JobDirs -> Nat]
  BY <1>1, <1>3
<1>5. v6' = 0
  BY <1>1 DEF Modes!leave
<1>6. Modes!Counters'
  BY <1>2, <1>4, <1>5 DEF Modes!CleanInv, Modes!Counters
<1>7. k = "pass" /\ v3 \in v18' => v3 \in v19
  <2> SUFFICES ASSUME \A d \in JobDirs : v8[d] = v10[d], v3 \in v18, v3 \notin v19 PROVE FALSE
    BY <1>2
  <2>1. PICK d \in JobDirs : v8[d] + v9[d] < v10[d]
    BY <1>2 DEF Modes!CleanInv, Modes!RingsClean
  <2>2. v8[d] = v10[d] /\ v8[d] \in Nat /\ v9[d] \in Nat
    BY <1>3
  <2> QED
    BY <2>1, <2>2
<1>8. Modes!leave(k)
  BY <1>1
<1> HIDE DEF k
<1> QED
  BY <1>2, <1>6, <1>7, <1>8, CleanLeaves

(* The PTP workload *)
LEMMA PtpCleans ==
    ASSUME Modes!CleanInv, Modes!PtpSetup \/ Modes!PtpSample \/ Modes!PtpEnd
    PROVE  Modes!CleanInv'
<1> DEFINE Ptp == {"quiesce", "phc_init", "baseline", "configure", "converge"}
<1>1. v2 \in Ptp /\ ~Modes!Between /\ UNCHANGED <<v3, v7, v8, v9, v10, v18, v19>>
  BY DEF Modes!PtpSetup, Modes!PtpSample, Modes!PtpEnd, Modes!Between, Modes!wire, Modes!jobVars
<1>2. v3 \notin v18
  BY <1>1 DEF Modes!CleanInv, Modes!PtpClean
<1>3. CASE \E k \in {"pass", "fail", "aborted"} : Modes!leave(k)
  <2>1. PICK k \in {"pass", "fail", "aborted"} : Modes!leave(k)
    BY <1>3
  <2>2. Modes!Counters'
    BY <1>1, <2>1 DEF Modes!CleanInv, Modes!Counters, Modes!leave
  <2> QED
    BY <1>1, <1>2, <2>1, <2>2, CleanLeaves
<1>4. CASE v2' \in Ptp /\ UNCHANGED <<v6, v17>>
  <2>1. Modes!Counters' /\ Modes!PacketsClean' /\ Modes!RingsClean' /\ Modes!PtpClean' /\ ~Modes!Between'
    BY <1>1, <1>2, <1>4 DEF Modes!CleanInv, Modes!Counters, Modes!PacketsClean, Modes!RingsClean, Modes!PtpClean,
       Modes!Between
  <2> QED
    BY <1>1, <1>4, <2>1, RunsKeep DEF Modes!CleanInv
<1>5. CASE Modes!PtpSetup
  <2>1. Modes!leave("fail") \/ (v2' \in Ptp /\ UNCHANGED <<v6, v17>>)
    BY <1>5 DEF Modes!PtpSetup
  <2> QED
    BY <1>3, <1>4, <2>1
<1>6. CASE Modes!PtpSample
  <2>1. Modes!leave("pass") \/ (v2' \in Ptp /\ UNCHANGED <<v6, v17>>)
    BY <1>1, <1>6 DEF Modes!PtpSample
  <2> QED
    BY <1>3, <1>4, <2>1
<1>7. CASE Modes!PtpEnd
  <2>1. Modes!leave("aborted") \/ Modes!leave("fail")
    BY <1>7 DEF Modes!PtpEnd
  <2> QED
    BY <1>3, <2>1
<1> QED
  BY <1>5, <1>6, <1>7

LEMMA RaiseCleans == ASSUME Modes!IInv, Modes!CleanInv, Modes!JobRaises PROVE Modes!CleanInv'
<1>1. ~Modes!Between /\ Modes!leave("raised") /\ UNCHANGED <<v3, v9, v10, v18, v19>>
  BY DEF Modes!JobRaises
<1>2. PICK D : v8' = [d \in JobDirs |-> IF d \in D THEN 0 ELSE v8[d]]
  BY DEF Modes!JobRaises
<1>3. v8 \in [JobDirs -> Nat] /\ DOMAIN v7 = JobDirs
  BY DEF Modes!CleanInv, Modes!Counters
<1>4. v8' \in [JobDirs -> Nat]
  BY <1>2, <1>3
<1>5. DOMAIN v7' = JobDirs
  <2>1. v7' \in Modes!Emptied
    BY DEF Modes!JobRaises
  <2> QED
    BY <1>3, <2>1 DEF Modes!Emptied
<1>6. v6' = 0
  BY <1>1 DEF Modes!leave
<1>7. Modes!Counters'
  BY <1>1, <1>4, <1>5, <1>6 DEF Modes!CleanInv, Modes!Counters
<1> QED
  BY <1>1, <1>7, CleanLeaves

LEMMA CleanStep == ASSUME Modes!IInv, Modes!CleanInv, Modes!Next PROVE Modes!CleanInv'
<1>1. CASE Modes!FcsmPoll \/ Modes!PhyPoll \/ Modes!LinkMoves \/ Modes!Cancel
  BY <1>1, CleanSame DEF Modes!FcsmPoll, Modes!PhyPoll, Modes!LinkMoves, Modes!Cancel, Modes!jobVars, Modes!wire,
     Modes!table, CleanVars
<1> QED
  BY <1>1, PickCleans, SendCleans, RecvCleans, EndCleans, ClearCleans, RingCleans, ArriveCleans, VerifyCleans,
     PtpCleans, RaiseCleans DEF Modes!Next

-----------------------------------------------------------------------------
(* The starvation probe *)

NodeWord == [stall : BOOLEAN, wedge : BOOLEAN, err : BOOLEAN, sop : BOOLEAN, grant : BOOLEAN]

LEMMA AsicStarts == Asic!Init => Asic!IInv
<1> SUFFICES ASSUME Asic!Init PROVE Asic!IInv
  OBVIOUS
<1>1. PICK w \in BOOLEAN : v1 = [d \in Asic!Dies |-> [stall |-> FALSE, wedge |-> w /\ d = "b", err |-> FALSE,
                                                     sop |-> FALSE, grant |-> FALSE]]
  BY DEF Asic!Init
<1>2. \A d \in Asic!Dies : (w /\ d = "b") \in BOOLEAN
  OBVIOUS
<1>3. v1 \in [Asic!Dies -> NodeWord] /\ Asic!Untouched
  BY <1>1, <1>2, Zenon DEF NodeWord, Asic!Untouched
<1>4. /\ v4 = [cmd |-> "idle"] /\ v5 = [kind |-> "wait"] /\ v7 = "stage" /\ v11 = "none"
      /\ v12 = [cond |-> FALSE, carried |-> FALSE]
  BY DEF Asic!Init, Asic!Idle, Asic!NoAns
<1>5. Asic!TypeOK
  BY <1>3, <1>4 DEF Asic!TypeOK, Asic!Places, NodeWord
<1> QED
  BY <1>3, <1>4, <1>5 DEF Asic!IInv, Asic!RecoveryIsCarried

LEMMA AsicSame == ASSUME Asic!IInv, UNCHANGED <<v1, v4, v5, v7, v11, v12>> PROVE Asic!IInv'
<1>1. Asic!TypeOK'
  BY DEF Asic!IInv, Asic!TypeOK, Asic!Cmd, Asic!Idle
<1>2. (Asic!Untouched <=> Asic!Untouched') /\ (Asic!NoWedge <=> Asic!NoWedge')
      /\ (Asic!AnswersTell <=> Asic!AnswersTell')
  BY DEF Asic!Untouched, Asic!NoWedge, Asic!AnswersTell, Asic!Tells, Asic!wedge_signature
<1> QED
  BY <1>1, <1>2 DEF Asic!IInv, Asic!RecoveryIsCarried

(* Once a node has stalled, its witnesses may be what they will. *)
LEMMA AsicStalled ==
    ASSUME Asic!IInv, UNCHANGED <<v4, v5, v7, v11>>, v1' \in [Asic!Dies -> NodeWord],
           v12' \in [cond : {TRUE}, carried : BOOLEAN], v12'.carried = v12.carried
    PROVE  Asic!IInv'
<1>1. Asic!TypeOK'
  BY DEF Asic!IInv, Asic!TypeOK, Asic!Cmd, Asic!Idle, NodeWord
<1>2. v12'.cond
  OBVIOUS
<1>3. v5'.kind = "json" => Asic!AnswersTell'
  BY <1>2 DEF Asic!IInv, Asic!AnswersTell
<1> QED
  BY <1>1, <1>2, <1>3 DEF Asic!IInv, Asic!RecoveryIsCarried

LEMMA NodeMoves ==
    ASSUME Asic!IInv, NEW d \in Asic!Dies, NEW e \in BOOLEAN,
           Asic!Stall(d) \/ Asic!LatchWedge(d) \/ Asic!Grant(d, e)
    PROVE  Asic!IInv'
<1>1. v1 \in [Asic!Dies -> NodeWord] /\ v12 \in [cond : BOOLEAN, carried : BOOLEAN]
  BY DEF Asic!IInv, Asic!TypeOK, NodeWord
<1>2. CASE Asic!Stall(d)
  <2>1. v1' \in [Asic!Dies -> NodeWord]
    BY <1>1, <1>2 DEF Asic!Stall, NodeWord
  <2>2. v12' \in [cond : {TRUE}, carried : BOOLEAN] /\ v12'.carried = v12.carried
    BY <1>1, <1>2 DEF Asic!Stall
  <2> QED
    BY <1>2, <2>1, <2>2, AsicStalled DEF Asic!Stall
<1>3. CASE Asic!LatchWedge(d) \/ Asic!Grant(d, e)
  <2>1. v1[d].stall /\ UNCHANGED <<v4, v5, v7, v11, v12>>
    BY <1>3 DEF Asic!LatchWedge, Asic!Grant, Asic!drv
  <2>2. (v1[d].err \/ e) \in BOOLEAN
    OBVIOUS
  <2>3. v1' \in [Asic!Dies -> NodeWord]
    <3>1. CASE Asic!LatchWedge(d)
      BY <1>1, <3>1 DEF Asic!LatchWedge, NodeWord
    <3>2. CASE Asic!Grant(d, e)
      <4> DEFINE x == (v1[d].err \/ e)
      <4>1. v1' = [v1 EXCEPT ![d].stall = FALSE, ![d].grant = TRUE, ![d].err = x]
        BY <3>2, <1>1 DEF Asic!Grant, NodeWord
      <4>2. x \in BOOLEAN
        OBVIOUS
      <4> HIDE DEF x
      <4>3. v1[d] \in NodeWord
        BY <1>1
      <4>4. [v1[d] EXCEPT !.stall = FALSE, !.grant = TRUE, !.err = x] \in NodeWord
        BY <4>2, <4>3, Zenon DEF NodeWord
      <4>5. v1' = [v1 EXCEPT ![d] = [v1[d] EXCEPT !.stall = FALSE, !.grant = TRUE, !.err = x]]
        BY <1>1, <4>1
      <4> QED
        BY <1>1, <4>4, <4>5
    <3> QED
      BY <1>3, <3>1, <3>2
  <2>4. v12.cond
    BY <2>1 DEF Asic!IInv, Asic!Untouched
  <2>5. v12' \in [cond : {TRUE}, carried : BOOLEAN]
    BY <1>1, <2>1, <2>4
  <2> QED
    BY <2>1, <2>3, <2>5, AsicStalled
<1> QED
  BY <1>2, <1>3

(* What an answer with the dies in it says. *)
LEMMA DiesTell ==
    ASSUME v1' \in [Asic!Dies -> NodeWord], Asic!Untouched', v5'.die = Asic!both_dies'
    PROVE  Asic!Tells(v5)'
<1> SUFFICES ASSUME NEW d \in Asic!Dies
             PROVE  Asic!wedge_signature(v5'.die[d]) <=> v1'[d].wedge
  BY DEF Asic!Tells, Asic!Dies, Asic!wedge_signature
<1>1. v5'.die[d] = Asic!read_die(d)'
  BY DEF Asic!both_dies
<1>2. ~v1'[d].err /\ (v1'[d].sop => v1'[d].grant) /\ v1'[d] \in NodeWord
  BY DEF Asic!Untouched
<1>3. /\ v5'.die[d].nodes.wedge_any = v1'[d].wedge /\ v5'.die[d].nodes.healthy = (~v1'[d].wedge /\ ~v1'[d].err)
      /\ v5'.die[d].fcemit.starved_any = (v1'[d].sop /\ ~v1'[d].grant)
  BY <1>1 DEF Asic!read_die, Asic!decode_axi_nodes, Asic!decode_fcemit
<1> QED
  BY <1>2, <1>3, Zenon DEF Asic!wedge_signature

(* The agent is done with its command. *)
LEMMA AgentAnswers ==
    ASSUME Asic!IInv, UNCHANGED <<v1, v7, v11, v12>>, v4' = Asic!Idle,
           v5'.kind = "json" => Asic!AnswersTell'
    PROVE  Asic!IInv'
<1>1. Asic!TypeOK'
  BY DEF Asic!IInv, Asic!TypeOK, Asic!Cmd, Asic!Idle
<1>2. (Asic!Untouched <=> Asic!Untouched') /\ (Asic!NoWedge <=> Asic!NoWedge')
  BY DEF Asic!Untouched, Asic!NoWedge
<1> QED
  BY <1>1, <1>2 DEF Asic!IInv, Asic!RecoveryIsCarried

(* Which command is running says where the driver is. *)
LEMMA DriverIs ==
    ASSUME Asic!TypeOK
    PROVE  /\ v4.cmd = "obs" => v7 \in {"obs", "watch"}
           /\ v4.cmd = "selftest" => v7 \in {"preflight", "postcheck"}
           /\ v4.cmd = "fc_crc_set" => v7 \in {"arm", "disarm"}
           /\ v4.cmd = "traffic" => v7 \in {"traffic", "posttraffic"}
BY DEF Asic!TypeOK, Asic!Cmd, Asic!Idle, Asic!Places

LEMMA AgentKeeps ==
    ASSUME Asic!IInv, Asic!AgObs \/ Asic!AgSelftest \/ Asic!AgFcCrcSet \/ Asic!AgTraffic
    PROVE  Asic!IInv'
<1>0. Asic!TypeOK /\ v1 \in [Asic!Dies -> NodeWord] /\ UNCHANGED <<v1, v7, v11, v12>>
  BY DEF Asic!IInv, Asic!TypeOK, NodeWord, Asic!AgObs, Asic!AgSelftest, Asic!AgFcCrcSet, Asic!AgTraffic, Asic!hw,
         Asic!drv
<1>1. CASE Asic!AgObs \/ Asic!AgFcCrcSet
  <2>1. v7' \in {"obs", "watch", "arm", "disarm"} /\ v4' = Asic!Idle
    BY <1>0, <1>1, DriverIs DEF Asic!AgObs, Asic!AgFcCrcSet, Asic!Emit
  <2>2. Asic!AnswersTell'
    BY <2>1 DEF Asic!AnswersTell
  <2> QED
    BY <1>0, <2>1, <2>2, AgentAnswers
<1>2. CASE Asic!AgSelftest
  <2>1. v7 \in {"preflight", "postcheck"} /\ v4' = Asic!Idle /\ v5'.die = Asic!both_dies
    BY <1>0, <1>2, DriverIs DEF Asic!AgSelftest, Asic!Emit
  <2>2. Asic!both_dies' = Asic!both_dies /\ (Asic!Untouched => Asic!Untouched')
    BY <1>0, <1>2 DEF Asic!AgSelftest, Asic!hw, Asic!both_dies, Asic!read_die, Asic!decode_axi_nodes,
         Asic!decode_fcemit, Asic!decode_status, Asic!Untouched
  <2>3. ~v12.cond => Asic!Tells(v5)'
    BY <1>0, <2>1, <2>2, DiesTell DEF Asic!IInv
  <2>4. Asic!AnswersTell'
    BY <1>0, <2>1, <2>3 DEF Asic!AnswersTell
  <2> QED
    BY <1>0, <2>1, <2>4, AgentAnswers
<1>3. CASE Asic!AgTraffic
  <2>1. v7 \in {"traffic", "posttraffic"} /\ v4 \in [cmd : {"traffic"}, phase : {"start", "worker"}]
    BY <1>0, <1>3, DriverIs DEF Asic!AgTraffic, Asic!TypeOK
  <2>2. CASE v4' = [v4 EXCEPT !.phase = "worker"] /\ v5' = v5
    <3>1. v4' \in [cmd : {"traffic"}, phase : {"start", "worker"}]
      BY <2>1, <2>2
    <3>2. Asic!Cmd(v7) = [cmd |-> "traffic", phase |-> "start"]
      BY <2>1 DEF Asic!Cmd
    <3>3. Asic!TypeOK'
      BY <1>0, <3>1, <3>2 DEF Asic!TypeOK, Asic!Cmd, Asic!Idle
    <3>4. (Asic!Untouched <=> Asic!Untouched') /\ (Asic!NoWedge <=> Asic!NoWedge')
          /\ (Asic!AnswersTell <=> Asic!AnswersTell')
      BY <1>0, <2>2 DEF Asic!Untouched, Asic!NoWedge, Asic!AnswersTell, Asic!Tells, Asic!wedge_signature
    <3> QED
      BY <1>0, <2>2, <3>3, <3>4 DEF Asic!IInv, Asic!RecoveryIsCarried
  <2>3. CASE v4' = Asic!Idle /\ v5' = [kind |-> "json", refused |-> TRUE]
    <3>1. v5'.refused
      BY <2>3
    <3>2. Asic!AnswersTell'
      BY <1>0, <2>1, <3>1 DEF Asic!AnswersTell
    <3> QED
      BY <1>0, <2>3, <3>2, AgentAnswers
  <2> QED
    BY <1>3, <2>2, <2>3 DEF Asic!AgTraffic, Asic!Emit
<1> QED
  BY <1>1, <1>2, <1>3

(* The worker of a burst. *)
LEMMA WorkerKeeps ==
    ASSUME Asic!IInv, NEW out \in {"returned", "died", "wedged"}, NEW good \in 0 .. 1,
           Asic!run_worker_guarded(out, good)
    PROVE  Asic!IInv'
<1>0. Asic!TypeOK /\ v1 \in [Asic!Dies -> NodeWord] /\ v12 \in [cond : BOOLEAN, carried : BOOLEAN]
      /\ UNCHANGED <<v7, v11>> /\ v7 \in {"traffic", "posttraffic"} /\ v4' = [cmd |-> "idle"]
  <2>1. v4.cmd = "traffic"
    BY DEF Asic!run_worker_guarded, Asic!InTraffic
  <2> QED
    BY <2>1, DriverIs DEF Asic!IInv, Asic!TypeOK, NodeWord, Asic!run_worker_guarded, Asic!Emit, Asic!Idle
<1>1. /\ v5'.refused = FALSE /\ v5'.wedged = (out = "wedged") /\ v5'.good = good /\ v5'.die = Asic!both_dies'
  BY DEF Asic!run_worker_guarded, Asic!Emit
<1>2. /\ v12'.cond = v12.cond /\ v12' \in [cond : BOOLEAN, carried : BOOLEAN]
      /\ (v12.carried => v12'.carried) /\ (good > 0 => v12'.carried)
  <2>1. CASE out = "returned"
    <3>1. v12' = [v12 EXCEPT !.carried = @ \/ good > 0]
      BY <2>1 DEF Asic!run_worker_guarded, Asic!_traffic_worker
    <3> DEFINE x == v12.carried \/ good > 0
    <3>2. x \in BOOLEAN /\ v12' = [v12 EXCEPT !.carried = x]
      BY <3>1
    <3>3. (v12.carried => x) /\ (good > 0 => x)
      OBVIOUS
    <3> HIDE DEF x
    <3> QED
      BY <1>0, <3>2, <3>3
  <2>2. CASE out # "returned"
    <3>1. v12' = v12 /\ good = 0
      BY <2>2 DEF Asic!run_worker_guarded
    <3> QED
      BY <1>0, <3>1
  <2> QED
    BY <2>1, <2>2
<1>3. /\ v1' \in [Asic!Dies -> NodeWord] /\ (~v12.cond => Asic!Untouched') /\ (Asic!NoWedge => Asic!NoWedge')
  <2>1. CASE out = "returned"
    <3>1. /\ v1' = [d \in Asic!Dies |-> [v1[d] EXCEPT !.sop = TRUE, !.grant = TRUE]]
      BY <2>1 DEF Asic!run_worker_guarded, Asic!_traffic_worker
    <3>2. \A d \in Asic!Dies : /\ v1'[d] \in NodeWord /\ v1'[d].stall = v1[d].stall /\ v1'[d].err = v1[d].err
                               /\ v1'[d].wedge = v1[d].wedge /\ v1'[d].grant = TRUE
      BY <1>0, <3>1 DEF NodeWord
    <3>3. v1' \in [Asic!Dies -> NodeWord]
      BY <3>1, <3>2
    <3> QED
      BY <3>2, <3>3 DEF Asic!IInv, Asic!Untouched, Asic!NoWedge
  <2>2. CASE out # "returned"
    <3>1. v1' = v1
      BY <2>2 DEF Asic!run_worker_guarded
    <3> QED
      BY <1>0, <3>1 DEF Asic!IInv, Asic!Untouched, Asic!NoWedge
  <2> QED
    BY <2>1, <2>2
<1>4. ~v12.cond => out # "wedged"
  BY DEF Asic!run_worker_guarded, Asic!IInv, Asic!Untouched
<1>5. ~v12.cond => Asic!Tells(v5)'
  <2> SUFFICES ASSUME ~v12.cond PROVE Asic!Tells(v5)'
    OBVIOUS
  <2>1. Asic!Untouched'
    BY <1>3
  <2> QED
    BY <1>1, <1>3, <2>1, DiesTell
<1>6. Asic!TypeOK'
  BY <1>0, <1>2, <1>3 DEF Asic!TypeOK, NodeWord, Asic!Cmd, Asic!Idle
<1>7. Asic!AnswersTell'
  BY <1>0, <1>1, <1>2, <1>4, <1>5, Zenon DEF Asic!AnswersTell
<1> QED
  BY <1>0, <1>2, <1>3, <1>6, <1>7 DEF Asic!IInv, Asic!RecoveryIsCarried

(* The driver sends its next command. *)
LEMMA AsicSendKeeps ==
    ASSUME Asic!IInv, NEW p \in Asic!Places, Asic!Send(p), v1' = v1,
           v12' \in {v12, [v12 EXCEPT !.carried = FALSE]},
           p \in {"arm", "traffic"} /\ ~v12.cond => Asic!NoWedge,
           p \in {"watch", "posttraffic", "postcheck"} => v12.cond,
           v11' \in {"RECOVERY", "WEDGE"} => p \in {"disarm", "done"} /\ v12.cond,
           v11' = "RECOVERY" => v12'.carried
    PROVE  Asic!IInv'
<1>1. /\ v7' = p /\ v4' = Asic!Cmd(p) /\ v5' = [kind |-> "wait"]
  BY DEF Asic!Send, Asic!NoAns
<1>2. v12' \in [cond : BOOLEAN, carried : BOOLEAN] /\ v12'.cond = v12.cond
  BY DEF Asic!IInv, Asic!TypeOK
<1>3. v4'.cmd = Asic!Cmd(v7').cmd /\ (v4'.cmd = "traffic" => v4' \in [cmd : {"traffic"}, phase : {"start", "worker"}])
  BY <1>1 DEF Asic!Cmd, Asic!Idle, Asic!Places
<1>4. Asic!TypeOK'
  BY <1>1, <1>2, <1>3 DEF Asic!IInv, Asic!TypeOK, Asic!Cmd, Asic!Idle
<1>5. (Asic!Untouched <=> Asic!Untouched') /\ (Asic!NoWedge <=> Asic!NoWedge')
  BY DEF Asic!Untouched, Asic!NoWedge
<1> QED
  BY <1>1, <1>2, <1>4, <1>5 DEF Asic!IInv, Asic!RecoveryIsCarried

(* The driver settles on a verdict. *)
LEMMA SettleKeeps ==
    ASSUME Asic!IInv, NEW v, Asic!settle(v), v1' = v1, v12' \in {v12, [v12 EXCEPT !.carried = FALSE]},
           v \in {"RECOVERY", "WEDGE"} => v12.cond, v = "RECOVERY" => v12'.carried
    PROVE  Asic!IInv'
<1>1. v11' = v /\ \E p \in {"disarm", "done"} : Asic!Send(p)
  BY DEF Asic!settle
<1>2. PICK p \in {"disarm", "done"} : Asic!Send(p)
  BY <1>1
<1>3. p \in Asic!Places
  BY DEF Asic!Places
<1> QED
  BY <1>1, <1>2, <1>3, AsicSendKeeps

(* The driver repeats a command, or is left without an answer. *)
LEMMA RetryKeeps == ASSUME Asic!IInv, Asic!Reset \/ Asic!Timeout PROVE Asic!IInv'
<1>1. /\ UNCHANGED <<v1, v7, v11, v12>> /\ v4' \in {Asic!Cmd(v7), Asic!Idle} /\ v5'.kind # "json"
  BY DEF Asic!Reset, Asic!Timeout, Asic!hw, Asic!drv, Asic!NoAns, Asic!NoResult
<1>2. v4'.cmd \in {"idle", Asic!Cmd(v7').cmd}
      /\ (v4'.cmd = "traffic" => v4' \in [cmd : {"traffic"}, phase : {"start", "worker"}])
  BY <1>1 DEF Asic!Cmd, Asic!Idle, Asic!IInv, Asic!TypeOK, Asic!Places
<1>3. Asic!TypeOK'
  BY <1>1, <1>2 DEF Asic!IInv, Asic!TypeOK, Asic!Cmd, Asic!Idle
<1>4. (Asic!Untouched <=> Asic!Untouched') /\ (Asic!NoWedge <=> Asic!NoWedge')
  BY <1>1 DEF Asic!Untouched, Asic!NoWedge
<1> QED
  BY <1>1, <1>3, <1>4 DEF Asic!IInv, Asic!RecoveryIsCarried

LEMMA EarlySteps ==
    ASSUME Asic!IInv, Asic!StageAgent \/ Asic!Staged \/ Asic!Preflight \/ Asic!Armed
    PROVE  Asic!IInv'
<1>0. v1' = v1 /\ v12' = v12 /\ v7 \in {"stage", "obs", "preflight", "arm"}
  BY DEF Asic!StageAgent, Asic!Staged, Asic!Preflight, Asic!Armed, Asic!hw
<1>1. v11 \notin {"RECOVERY", "WEDGE"}
  BY <1>0 DEF Asic!IInv
<1>2. \A p \in {"obs", "preflight", "arm", "traffic"} : p \in Asic!Places
  BY DEF Asic!Places
<1>3. CASE Asic!settle("ABORTED") \/ Asic!settle("INCONCLUSIVE")
  BY <1>0, <1>3, SettleKeeps
<1>4. CASE (Asic!Send("obs") \/ Asic!Send("preflight")) /\ v11' = v11
  BY <1>0, <1>1, <1>2, <1>4, AsicSendKeeps
<1>5. CASE Asic!Preflight /\ (Asic!Send("arm") \/ Asic!Send("traffic")) /\ v11' = v11 /\ Asic!clear_baseline(v5)
           /\ v5.kind = "json"
  <2>1. ~v12.cond => Asic!Tells(v5)
    BY <1>5 DEF Asic!Preflight, Asic!IInv, Asic!AnswersTell
  <2>2. ~v12.cond => Asic!NoWedge
    BY <1>5, <2>1 DEF Asic!clear_baseline, Asic!signature, Asic!Tells, Asic!NoWedge
  <2> QED
    BY <1>0, <1>1, <1>2, <1>5, <2>2, AsicSendKeeps
<1>6. CASE Asic!Armed /\ Asic!Send("traffic") /\ v11' = v11
  <2>1. ~v12.cond => Asic!NoWedge
    BY <1>6 DEF Asic!Armed, Asic!IInv
  <2> QED
    BY <1>0, <1>1, <1>2, <1>6, <2>1, AsicSendKeeps
<1> QED
  BY <1>3, <1>4, <1>5, <1>6 DEF Asic!StageAgent, Asic!Staged, Asic!Preflight, Asic!Armed

LEMMA AsicTrafficKeeps == ASSUME Asic!IInv, Asic!Traffic PROVE Asic!IInv'
<1>0. v1' = v1 /\ v12' = v12 /\ v7 = "traffic" /\ v11 \notin {"RECOVERY", "WEDGE"}
  BY DEF Asic!Traffic, Asic!hw, Asic!IInv
<1>1. CASE Asic!settle("ABORTED") \/ Asic!settle("INCONCLUSIVE")
  BY <1>0, <1>1, SettleKeeps
<1>2. CASE Asic!Send("traffic") /\ v11' = v11
  <2>1. (~v12.cond => Asic!NoWedge) /\ "traffic" \in Asic!Places
    BY <1>0 DEF Asic!IInv, Asic!Places
  <2> QED
    BY <1>0, <1>2, <2>1, AsicSendKeeps
<1>3. CASE Asic!Send("watch") /\ v11' = v11 /\ v5.kind = "json" /\ ~v5.refused /\ (v5.wedged \/ Asic!signature(v5))
  <2>1. ~v12.cond => Asic!NoWedge /\ Asic!Tells(v5) /\ ~v5.wedged
    BY <1>0, <1>3 DEF Asic!IInv, Asic!AnswersTell
  <2>2. v12.cond /\ "watch" \in Asic!Places
    BY <1>3, <2>1 DEF Asic!signature, Asic!Tells, Asic!NoWedge, Asic!Places
  <2> QED
    BY <1>0, <1>3, <2>2, AsicSendKeeps
<1> QED
  BY <1>1, <1>2, <1>3 DEF Asic!Traffic

LEMMA WatchKeeps == ASSUME Asic!IInv, Asic!Watch PROVE Asic!IInv'
<1>0. v1' = v1 /\ v12' = [v12 EXCEPT !.carried = FALSE] /\ v7 = "watch" /\ v11 \notin {"RECOVERY", "WEDGE"} /\ v12.cond
  BY DEF Asic!Watch, Asic!hw, Asic!IInv
<1>1. CASE Asic!settle("none") \/ Asic!settle("INCONCLUSIVE")
  BY <1>0, <1>1, SettleKeeps
<1>2. CASE (Asic!Send("watch") \/ Asic!Send("posttraffic") \/ Asic!Send("postcheck")) /\ v11' = v11
  <2>1. \A p \in {"watch", "posttraffic", "postcheck"} : p \in Asic!Places
    BY DEF Asic!Places
  <2> QED
    BY <1>0, <1>2, <2>1, AsicSendKeeps
<1> QED
  BY <1>1, <1>2 DEF Asic!Watch

LEMMA LateSteps ==
    ASSUME Asic!IInv, Asic!PostCheck \/ Asic!PostTraffic \/ Asic!Finally
    PROVE  Asic!IInv'
<1>0. v1' = v1 /\ v12' = v12
  BY DEF Asic!PostCheck, Asic!PostTraffic, Asic!Finally, Asic!hw
<1>1. CASE Asic!PostCheck
  <2>1. v12.cond /\ (Asic!settle("INCONCLUSIVE") \/ Asic!settle("WEDGE"))
    BY <1>1 DEF Asic!PostCheck, Asic!IInv
  <2> QED
    BY <1>0, <2>1, SettleKeeps
<1>2. CASE Asic!PostTraffic
  <2>1. v12.cond /\ (Asic!settle("INCONCLUSIVE") \/ (Asic!carried(v5) /\ Asic!settle("RECOVERY")))
    BY <1>2 DEF Asic!PostTraffic, Asic!IInv
  <2>2. Asic!carried(v5) => v12.carried
    BY <1>2 DEF Asic!PostTraffic, Asic!IInv, Asic!AnswersTell, Asic!carried
  <2> QED
    BY <1>0, <2>1, <2>2, SettleKeeps
<1>3. CASE Asic!Finally
  <2>1. Asic!Send("done") /\ v11' = v11 /\ "done" \in Asic!Places
    BY <1>3 DEF Asic!Finally, Asic!Places
  <2>2. (v11 \in {"RECOVERY", "WEDGE"} => v12.cond) /\ (v11 = "RECOVERY" => v12.carried)
    BY DEF Asic!IInv, Asic!RecoveryIsCarried
  <2> QED
    BY <1>0, <2>1, <2>2, AsicSendKeeps
<1> QED
  BY <1>1, <1>2, <1>3

LEMMA AsicStep == ASSUME Asic!IInv, Asic!Next PROVE Asic!IInv'
<1>1. CASE \E d \in Asic!Dies : Asic!Stall(d) \/ Asic!LatchWedge(d) \/ \E e \in BOOLEAN : Asic!Grant(d, e)
  BY <1>1, NodeMoves
<1>2. CASE Asic!Degrade \/ Asic!Hang
  BY <1>2, AsicSame DEF Asic!Degrade, Asic!Hang, Asic!drv
<1>3. CASE \E out \in {"returned", "died", "wedged"}, good \in 0 .. 1 : Asic!run_worker_guarded(out, good)
  BY <1>3, WorkerKeeps
<1> QED
  BY <1>1, <1>2, <1>3, AgentKeeps, RetryKeeps, EarlySteps, AsicTrafficKeeps, WatchKeeps, LateSteps DEF Asic!Next

LEMMA AsicIsReal == Asic!IInv => Asic!VerdictIsWitnessed /\ Asic!RecoveryIsCarried
BY DEF Asic!IInv, Asic!VerdictIsWitnessed

-----------------------------------------------------------------------------
(* The system validation *)

(* How an attempt is classified. *)
LEMMA EventKinds ==
    ASSUME NEW ev \in SysVal!Events, NEW good \in BOOLEAN
    PROVE  LET rc == SysVal!Rc(ev, good)
               kind == SysVal!classify(rc, SysVal!Marker(ev), SysVal!Message(ev))
           IN  /\ ev \in {"ran", "crash", "hang", "cut", "message", "late"}
               /\ SysVal!Marker(ev) <=> ev \in {"ran", "late"}
               /\ kind \in {"OK", "RAN", "TIMEOUT", "TRANSPORT_ERROR"}
               /\ kind = "TRANSPORT_ERROR" <=> ev \in {"cut", "message"}
               /\ kind = "TIMEOUT" <=> ev = "hang"
               /\ kind = "OK" <=> ev = "ran" /\ good
               /\ rc = 0 <=> ev = "ran" /\ good
               /\ SysVal!Blame(ev) \subseteq {"net"} => ev \in {"ran", "cut", "message"}
<1>1. ev \in {"ran", "crash", "hang", "cut", "message", "late"}
  BY DEF SysVal!Events
<1>2. CASE ev = "ran"
  BY <1>2 DEF SysVal!Marker, SysVal!Rc, SysVal!classify, SysVal!Blame, SysVal!Message
<1>3. CASE ev = "crash"
  BY <1>3 DEF SysVal!Marker, SysVal!Rc, SysVal!classify, SysVal!Blame, SysVal!Message
<1>4. CASE ev = "hang"
  BY <1>4 DEF SysVal!Marker, SysVal!Rc, SysVal!classify, SysVal!Blame, SysVal!Message
<1>5. CASE ev = "cut"
  BY <1>5 DEF SysVal!Marker, SysVal!Rc, SysVal!classify, SysVal!Blame, SysVal!Message
<1>6. CASE ev = "message"
  BY <1>6 DEF SysVal!Marker, SysVal!Rc, SysVal!classify, SysVal!Blame, SysVal!Message
<1>7. CASE ev = "late"
  BY <1>7 DEF SysVal!Marker, SysVal!Rc, SysVal!classify, SysVal!Blame, SysVal!Message
<1> QED
  BY <1>1, <1>2, <1>3, <1>4, <1>5, <1>6, <1>7

(* A run without faults so far may be hit by a lost connection only. *)
LEMMA PeerEventsAre == SysVal!PeerEvents \subseteq SysVal!Events
BY DEF SysVal!PeerEvents, SysVal!Events

(* Where the tests begin.  T10 is never the first to touch the words. *)
LEMMA FirstOf ==
    ASSUME NEW S, S \subseteq 1 .. 6, S # {}
    PROVE  \E i \in S : \A j \in S : i <= j
<1>1. \A j \in S : j \in {1, 2, 3, 4, 5, 6}
  OBVIOUS
<1>2. CASE 1 \in S
  BY <1>1, <1>2
<1>3. CASE 1 \notin S /\ 2 \in S
  BY <1>1, <1>3
<1>4. CASE 1 \notin S /\ 2 \notin S /\ 3 \in S
  BY <1>1, <1>4
<1>5. CASE 1 \notin S /\ 2 \notin S /\ 3 \notin S /\ 4 \in S
  BY <1>1, <1>5
<1>6. CASE 1 \notin S /\ 2 \notin S /\ 3 \notin S /\ 4 \notin S /\ 5 \in S
  BY <1>1, <1>6
<1>7. CASE 1 \notin S /\ 2 \notin S /\ 3 \notin S /\ 4 \notin S /\ 5 \notin S
  <2>1. S = {6}
    BY <1>1, <1>7
  <2> QED
    BY <2>1
<1> QED
  BY <1>2, <1>3, <1>4, <1>5, <1>6, <1>7

LEMMA AfterIs ==
    ASSUME NEW n \in 0 .. 6
    PROVE  /\ SysVal!After(n) \in {"hash", "probe", "canary", "write", "read", "gate", "summary"}
           /\ SysVal!After(n) = "read" /\ "T3" \in SysOnly => n = 4
<1> DEFINE rest == {i \in (n + 1) .. 6 : SysVal!Order[i] \in SysOnly}
           m == CHOOSE i \in rest : \A j \in rest : i <= j
<1>1. CASE rest = {}
  BY <1>1 DEF SysVal!After
<1>2. CASE rest # {}
  <2>1. SysVal!After(n) = SysVal!FirstCall[SysVal!Order[m]]
    BY <1>2 DEF SysVal!After
  <2>2. rest \subseteq 1 .. 6
    OBVIOUS
  <2>3. \E i \in rest : \A j \in rest : i <= j
    BY <1>2, <2>2, FirstOf
  <2>4. m \in rest /\ \A j \in rest : m <= j
    BY <2>3
  <2>5. m \in (n + 1) .. 6 /\ SysVal!Order[m] \in SysOnly
    BY <2>4
  <2>6. ("T3" \in SysOnly /\ n <= 3) => m <= 4
    <3>1. ("T3" \in SysOnly /\ n <= 3) => 4 \in rest
      BY DEF SysVal!Order
    <3> QED
      BY <2>4, <3>1
  <2> HIDE DEF m, rest
  <2>7. m \in {1, 2, 3, 4, 5, 6}
    BY <2>5
  <2>8. /\ SysVal!Order[1] = "T1" /\ SysVal!Order[2] = "T2" /\ SysVal!Order[3] = "T2b" /\ SysVal!Order[4] = "T3"
        /\ SysVal!Order[5] = "T10" /\ SysVal!Order[6] = "T6"
    BY DEF SysVal!Order
  <2>9. /\ SysVal!FirstCall["T1"] = "hash" /\ SysVal!FirstCall["T2"] = "probe" /\ SysVal!FirstCall["T2b"] = "canary"
        /\ SysVal!FirstCall["T3"] = "write" /\ SysVal!FirstCall["T10"] = "read" /\ SysVal!FirstCall["T6"] = "gate"
    BY DEF SysVal!FirstCall
  <2>10. m = 5 /\ "T3" \in SysOnly => n = 4
    BY <2>5, <2>6
  <2> QED
    BY <2>1, <2>5, <2>7, <2>8, <2>9, <2>10
<1> QED
  BY <1>1, <1>2

(* The tests that can be trusted have not failed. *)
NoFail == \A t \in SysVal!Tests \ SysVal!MisreadByOption : v6[t].v # "FAIL"

LEMMA FaultRule ==
    /\ SysVal!NetIsNotAFault <=> (v8 \subseteq {"net"} => NoFail)
    /\ SysVal!NetIsNotAFault' <=> (v8' \subseteq {"net"} => NoFail')
BY DEF SysVal!NetIsNotAFault, NoFail

LEMMA SysStarts == SysVal!Init => SysVal!IInv
<1> SUFFICES ASSUME SysVal!Init PROVE SysVal!IInv
  OBVIOUS
<1>1. /\ v1 \in {"hash", "probe", "canary", "write", "read", "gate", "summary"} /\ v3 = 0 /\ v5 = "up"
      /\ v1 = "read" => "T3" \notin SysOnly
  BY AfterIs DEF SysVal!Init
<1>2. v6 = [t \in SysVal!Tests |-> [v |-> "none", k |-> "none"]]
  BY DEF SysVal!Init
<1>0. v10 \in Nat
  BY SysSizes DEF SysVal!Init
<1>3. SysVal!TypeOK
  BY <1>0, <1>1, <1>2, SysSizes DEF SysVal!TypeOK
<1>4. NoFail
  BY <1>2 DEF NoFail
<1> QED
  BY <1>1, <1>3, <1>4, FaultRule DEF SysVal!IInv, SysVal!Landed

LEMMA SysWords == SysVal!IInv => v10 \in Nat
BY DEF SysVal!IInv, SysVal!TypeOK

LEMMA SysSame == ASSUME SysVal!IInv, UNCHANGED <<v1, v3, v4, v5, v6, v8, v10>> PROVE SysVal!IInv'
BY DEF SysVal!IInv, SysVal!TypeOK, SysVal!Landed, SysVal!NetIsNotAFault, SysVal!Verifies, SysVal!MisreadByOption

(* What a verdict adds to the results. *)
SysVerdicts == {"none", "PASS", "FAIL", "INCONCLUSIVE", "SKIPPED"}
SysKinds == {"none", "OK", "RAN", "TIMEOUT", "TRANSPORT_ERROR", "BOARD_ERROR", "DATA_MISMATCH"}

SysTable == [SysVal!Tests -> [v : SysVerdicts, k : SysKinds]]

LEMMA SysRecorded ==
    ASSUME SysVal!TypeOK, v10' = v10, NEW t \in SysVal!Tests, NEW v \in SysVerdicts, NEW k \in SysKinds, SysVal!Record(t, v, k)
    PROVE  /\ v6' \in SysTable
           /\ NoFail /\ (v # "FAIL" \/ t \in SysVal!MisreadByOption) => NoFail'
<1>1. v6 \in [SysVal!Tests -> [v : SysVerdicts, k : SysKinds]]
  BY DEF SysVal!TypeOK, SysVerdicts, SysKinds
<1>2. v6' = [v6 EXCEPT ![t] = [v |-> v, k |-> k]]
  BY DEF SysVal!Record
<1>3. v6' \in [SysVal!Tests -> [v : SysVerdicts, k : SysKinds]]
  BY <1>1, <1>2
<1>4. \A u \in SysVal!Tests : v6'[u].v = v6[u].v \/ (u = t /\ v6'[u].v = v)
  BY <1>1, <1>2
<1> QED
  BY <1>3, <1>4 DEF NoFail, SysTable, SysVal!MisreadByOption

(* The invariant after a stop and after a test's end. *)
LEMMA Stopped ==
    ASSUME SysVal!Stop, v10' \in Nat, v6' \in SysTable, v8' \subseteq {"net"} => NoFail' /\ v5' = "up"
    PROVE  SysVal!IInv'
<1>1. v1' = "over"
  BY DEF SysVal!Stop, SysVal!Goto
<1> QED
  BY <1>1, FaultRule DEF SysVal!IInv, SysVal!TypeOK, SysVal!Landed, SysTable, SysVerdicts, SysKinds

LEMMA Advanced ==
    ASSUME NEW n \in 0 .. 6, SysVal!Advance(n), v10' \in Nat, v6' \in SysTable,
           v8' \subseteq {"net"} => /\ NoFail' /\ v5' = "up"
                                    /\ n = 4 => \A w \in 0 .. (SysSoak - 1) : v4'[w] = <<"T3", w>>
    PROVE  SysVal!IInv'
<1>1. v1' = SysVal!After(n) /\ v3' = 0
  BY DEF SysVal!Advance, SysVal!Goto
<1>2. /\ v1' \in {"hash", "probe", "canary", "write", "read", "gate", "summary"}
      /\ v1' = "read" /\ "T3" \in SysOnly => n = 4
  BY <1>1, AfterIs
<1>3. SysVal!TypeOK'
  BY <1>1, <1>2, SysSizes DEF SysVal!TypeOK, SysTable, SysVerdicts, SysKinds
<1>4. v8' \subseteq {"net"} => SysVal!Landed'
  BY <1>2 DEF SysVal!Landed, SysVal!Verifies
<1> QED
  BY <1>3, <1>4, FaultRule DEF SysVal!IInv

(* The invariant in the middle of a test. *)
LEMMA SysOnward ==
    ASSUME v6' = v6, v10' = v10, SysVal!IInv, v8 \subseteq v8',
           v1' \in {"canary_verify", "verify", "read", "read_obs", "endure", "endure_obs", "endure_verify"},
           v1' \in {"read", "read_obs"} => v3' \in 0 .. SysReads,
           v1' \in {"endure", "endure_obs"} /\ v10 <= SysStep => v3' = 0,
           v8' \subseteq {"net"} =>
             /\ v5' = "up"
             /\ v1' = "canary_verify" => \A w \in 0 .. (SysVal!CANARY_N - 1) : v4'[w] = <<"T2b", w>>
             /\ v1' = "verify" \/ (v1' \in {"read", "read_obs"} /\ "T3" \in SysOnly) =>
                  \A w \in 0 .. (SysSoak - 1) : v4'[w] = <<"T3", w>>
             /\ v1' \in {"endure_obs", "endure_verify"} /\ v10 <= SysStep =>
                  \A w \in 0 .. (SysVal!least(SysStep, v10) - 1) : v4'[w] = <<"T6", w>>
    PROVE  SysVal!IInv'
<1>1. SysVal!TypeOK'
  BY DEF SysVal!IInv, SysVal!TypeOK
<1>2. v8' \subseteq {"net"} => SysVal!Landed'
  BY DEF SysVal!Landed, SysVal!Verifies, SysVal!CANARY_N
<1>3. v8' \subseteq {"net"} => NoFail'
  BY FaultRule DEF SysVal!IInv, NoFail, SysVal!MisreadByOption
<1> QED
  BY <1>1, <1>2, <1>3, FaultRule DEF SysVal!IInv

(* A write by the board. *)
LEMMA Written ==
    ASSUME NEW t, NEW n, NEW off, NEW ev \in SysVal!Events, SysVal!BoardWrite(t, n, off, ev)
    PROVE  /\ v8 \subseteq v8' /\ SysVal!Blame(ev) \subseteq v8'
           /\ ev # "hang" => v5' = v5
           /\ ev \in {"ran", "late"} /\ v8' \subseteq {"net"} => \A w \in 0 .. (n - 1) : v4'[w] = <<t, off + w>>
<1>1. v8 \subseteq v8' /\ SysVal!Blame(ev) \subseteq v8' /\ (ev # "hang" => v5' = v5)
  BY DEF SysVal!BoardWrite
<1>2. ASSUME ev \in {"ran", "late"}, v8' \subseteq {"net"}, NEW w \in 0 .. (n - 1), v4'[w] # <<t, off + w>>
      PROVE  FALSE
  <2>1. SysVal!Marker(ev)
    BY <1>2 DEF SysVal!Marker
  <2>2. "hw" \in v8'
    BY <1>2, <2>1 DEF SysVal!BoardWrite
  <2> QED
    BY <1>2, <2>2
<1> QED
  BY <1>1, <1>2

LEMMA Noted ==
    ASSUME SysVal!IInv, v10' = v10, NEW t \in SysVal!Tests, NEW v \in SysVerdicts, NEW k \in SysKinds, SysVal!Record(t, v, k),
           v8 \subseteq v8', v = "FAIL" => ~(v8' \subseteq {"net"}) \/ t \in SysVal!MisreadByOption
    PROVE  v6' \in SysTable /\ (v8' \subseteq {"net"} => NoFail')
<1>1. SysVal!TypeOK
  BY DEF SysVal!IInv
<1>2. v6' \in SysTable /\ (NoFail /\ (v # "FAIL" \/ t \in SysVal!MisreadByOption) => NoFail')
  BY <1>1, SysRecorded
<1> QED
  BY <1>2, FaultRule DEF SysVal!IInv

(* An observation that finds a fault is the hardware's. *)
LEMMA Observed ==
    ASSUME SysVal!IInv, NEW ev \in SysVal!Events, NEW now \in SysVal!Seen, SysVal!Observe(ev, now)
    PROVE  /\ v8 \subseteq v8' /\ SysVal!Blame(ev) \subseteq v8'
           /\ v8' \subseteq {"net"} => now = "up" /\ ev \in {"ran", "cut", "message"}
<1>1. v8 \subseteq v8' /\ SysVal!Blame(ev) \subseteq v8' /\ (now # v5 => "hw" \in v8')
  BY DEF SysVal!Observe
<1>2. v8' \subseteq {"net"} => v8 \subseteq {"net"} /\ SysVal!Blame(ev) \subseteq {"net"}
  BY <1>1
<1>3. SysVal!Blame(ev) \subseteq {"net"} => ev \in {"ran", "cut", "message"}
  BY EventKinds
<1> QED
  BY <1>1, <1>2, <1>3 DEF SysVal!IInv

LEMMA SysRetry == ASSUME SysVal!IInv, SysVal!Retry, v10' = v10 PROVE SysVal!IInv'
<1>0. UNCHANGED <<v1, v3, v6>>
  BY DEF SysVal!Retry
<1>1. SysVal!TypeOK'
  BY <1>0 DEF SysVal!IInv, SysVal!TypeOK
<1>2. CASE v1 \in DOMAIN SysVal!Writing
  <2>1. v1 \in {"canary", "write", "endure"}
    BY <1>2 DEF SysVal!Writing
  <2>2. "cut" \in SysVal!Events
    BY DEF SysVal!Events
  <2>3. v8 \subseteq v8' /\ v5' = v5
    BY <1>2, <2>2, Written DEF SysVal!Retry
  <2>4. SysVal!Landed'
    BY <1>0, <2>1 DEF SysVal!Landed
  <2> QED
    BY <1>0, <1>1, <2>3, <2>4 DEF SysVal!IInv, SysVal!NetIsNotAFault, SysVal!MisreadByOption
<1>3. CASE v1 \notin DOMAIN SysVal!Writing
  <2>1. v8 \subseteq v8' /\ UNCHANGED <<v4, v5>>
    BY <1>3 DEF SysVal!Retry
  <2>2. SysVal!Landed => SysVal!Landed'
    BY <1>0, <2>1 DEF SysVal!Landed, SysVal!Verifies
  <2> QED
    BY <1>0, <1>1, <2>1, <2>2 DEF SysVal!IInv, SysVal!NetIsNotAFault, SysVal!MisreadByOption
<1> QED
  BY <1>2, <1>3

LEMMA SysT1 == ASSUME SysVal!IInv, SysVal!t1_provenance, v10' = v10 PROVE SysVal!IInv'
<1>1. PICK ev \in SysVal!Events, same \in BOOLEAN :
        /\ v8' = v8 \cup SysVal!Blame(ev) \cup (IF ev = "ran" /\ ~same THEN {"board"} ELSE {})
        /\ IF ev # "ran" THEN SysVal!Record("T1", "INCONCLUSIVE", "TRANSPORT_ERROR")
           ELSE SysVal!Record("T1", IF same THEN "PASS" ELSE "FAIL", "none")
  BY DEF SysVal!t1_provenance
<1>2. SysVal!Advance(1) /\ v5' = v5 /\ SysVal!TypeOK
  BY DEF SysVal!t1_provenance, SysVal!IInv
<1>3. PICK v \in {"INCONCLUSIVE", "PASS", "FAIL"}, k \in {"TRANSPORT_ERROR", "none"} :
        SysVal!Record("T1", v, k) /\ (v = "FAIL" => "board" \in v8')
  BY <1>1
<1>4. "T1" \in SysVal!Tests /\ v \in SysVerdicts /\ k \in SysKinds
  BY DEF SysVal!Tests, SysVerdicts, SysKinds
<1>5. v6' \in SysTable /\ (NoFail /\ v # "FAIL" => NoFail')
  BY <1>2, <1>3, <1>4, SysRecorded
<1>6. v8' \subseteq {"net"} => NoFail' /\ v5' = "up"
  BY <1>1, <1>2, <1>3, <1>5, FaultRule DEF SysVal!IInv
<1> QED
  BY <1>2, <1>5, <1>6, Advanced, SysWords

LEMMA SysT2 == ASSUME SysVal!IInv, SysVal!t2_obs_probe, v10' = v10 PROVE SysVal!IInv'
<1>1. PICK ev \in SysVal!Events, now \in SysVal!Seen :
        LET kind == SysVal!classify(SysVal!Rc(ev, TRUE), SysVal!Marker(ev), SysVal!Message(ev))
        IN  /\ SysVal!Observe(ev, now) /\ v5' = now
            /\ IF ~SysVal!Marker(ev) THEN SysVal!Record("T2", "INCONCLUSIVE", kind)
               ELSE SysVal!Record("T2", IF SysVal!healthy(ev, now) THEN "PASS" ELSE "FAIL", "none")
            /\ IF SysVal!healthy(ev, now) THEN SysVal!Advance(2) ELSE SysVal!Stop
  BY DEF SysVal!t2_obs_probe
<1>2. v8 \subseteq v8' /\ (v8' \subseteq {"net"} => now = "up" /\ ev \in {"ran", "cut", "message"})
  BY <1>1, Observed
<1>3. PICK v \in {"INCONCLUSIVE", "PASS", "FAIL"}, k \in SysKinds :
        SysVal!Record("T2", v, k) /\ (v = "FAIL" => SysVal!Marker(ev) /\ now # "up")
  <2>1. SysVal!classify(SysVal!Rc(ev, TRUE), SysVal!Marker(ev), SysVal!Message(ev)) \in SysKinds /\ "none" \in SysKinds
    BY EventKinds DEF SysKinds
  <2> QED
    BY <1>1, <2>1 DEF SysVal!healthy
<1>4. "T2" \in SysVal!Tests /\ v \in SysVerdicts
  BY DEF SysVal!Tests, SysVerdicts
<1>5. v6' \in SysTable /\ (v8' \subseteq {"net"} => NoFail')
  BY <1>2, <1>3, <1>4, Noted
<1>6. v8' \subseteq {"net"} => v5' = "up"
  BY <1>1, <1>2
<1> QED
  BY <1>1, <1>5, <1>6, Stopped, Advanced, SysWords

(* A write whose answer is read. *)
LEMMA SysCanary == ASSUME SysVal!IInv, SysVal!t2b_canary, v10' = v10 PROVE SysVal!IInv'
<1>1. PICK ev \in SysVal!PeerEvents :
        LET kind == SysVal!classify(SysVal!Rc(ev, TRUE), SysVal!Marker(ev), SysVal!Message(ev))
        IN  IF kind = "TRANSPORT_ERROR"
              THEN /\ SysVal!BoardWrite("T2b", SysVal!CANARY_N, 0, ev)
                   /\ SysVal!Record("T2b", "INCONCLUSIVE", kind) /\ SysVal!Stop
            ELSE IF kind = "TIMEOUT" \/ ~SysVal!Marker(ev)
              THEN /\ v8' = v8 \cup SysVal!Blame(ev)
                   /\ SysVal!Record("T2b", "FAIL", kind) /\ SysVal!Stop
            ELSE /\ SysVal!BoardWrite("T2b", SysVal!CANARY_N, 0, ev)
                 /\ SysVal!Goto("canary_verify") /\ UNCHANGED <<v6, v7>>
  BY DEF SysVal!t2b_canary
<1> DEFINE kind == SysVal!classify(SysVal!Rc(ev, TRUE), SysVal!Marker(ev), SysVal!Message(ev))
<1>2. /\ ev \in SysVal!Events /\ kind \in SysKinds
      /\ kind = "TRANSPORT_ERROR" <=> ev \in {"cut", "message"}
      /\ kind = "TIMEOUT" <=> ev = "hang"
      /\ SysVal!Marker(ev) <=> ev \in {"ran", "late"}
      /\ ev \in {"ran", "crash", "hang", "cut", "message", "late"}
      /\ SysVal!Blame(ev) \subseteq {"net"} => ev \in {"ran", "cut", "message"}
  BY PeerEventsAre, EventKinds DEF SysKinds
<1> HIDE DEF kind
<1>3. "T2b" \in SysVal!Tests /\ "INCONCLUSIVE" \in SysVerdicts /\ "FAIL" \in SysVerdicts
  BY DEF SysVal!Tests, SysVerdicts
<1>4. CASE ev \in {"cut", "message"}
  <2>1. SysVal!BoardWrite("T2b", SysVal!CANARY_N, 0, ev) /\ SysVal!Record("T2b", "INCONCLUSIVE", kind) /\ SysVal!Stop
    BY <1>1, <1>2, <1>4 DEF kind
  <2>2. v8 \subseteq v8' /\ v5' = v5
    BY <1>2, <1>4, <2>1, Written
  <2>3. v6' \in SysTable /\ (v8' \subseteq {"net"} => NoFail')
    BY <1>2, <1>3, <2>1, <2>2, Noted
  <2> QED
    BY <2>1, <2>2, <2>3, Stopped, SysWords DEF SysVal!IInv
<1>5. CASE ev \in {"hang", "crash"}
  <2>1. v8' = v8 \cup SysVal!Blame(ev) /\ SysVal!Record("T2b", "FAIL", kind) /\ SysVal!Stop
    BY <1>1, <1>2, <1>5 DEF kind
  <2>2. v8 \subseteq v8' /\ ~(v8' \subseteq {"net"})
    BY <1>2, <1>5, <2>1
  <2>3. v6' \in SysTable
    BY <1>2, <1>3, <2>1, <2>2, Noted
  <2> QED
    BY <2>1, <2>2, <2>3, Stopped, SysWords
<1>6. CASE ev \in {"ran", "late"}
  <2>1. SysVal!BoardWrite("T2b", SysVal!CANARY_N, 0, ev) /\ SysVal!Goto("canary_verify") /\ v6' = v6
    BY <1>1, <1>2, <1>6 DEF kind
  <2>2. /\ v8 \subseteq v8' /\ v5' = v5
        /\ v8' \subseteq {"net"} => \A w \in 0 .. (SysVal!CANARY_N - 1) : v4'[w] = <<"T2b", 0 + w>>
    BY <1>2, <1>6, <2>1, Written
  <2>3. v8' \subseteq {"net"} => \A w \in 0 .. (SysVal!CANARY_N - 1) : v4'[w] = <<"T2b", w>>
    BY <2>2 DEF SysVal!CANARY_N
  <2>4. v1' = "canary_verify"
    BY <2>1 DEF SysVal!Goto
  <2>5. v8' \subseteq {"net"} => v5' = "up"
    BY <2>2 DEF SysVal!IInv
  <2> QED
    BY <2>1, <2>2, <2>3, <2>4, <2>5, SysOnward
<1> QED
  BY <1>2, <1>4, <1>5, <1>6

LEMMA SysCanaryVerify == ASSUME SysVal!IInv, SysVal!t2b_verify, v10' = v10 PROVE SysVal!IInv'
<1> DEFINE good == SysVal!Verifies("T2b", SysVal!CANARY_N)
<1>1. PICK ev \in SysVal!Events :
        LET rc == SysVal!Rc(ev, good)
            kind == SysVal!classify(rc, SysVal!Marker(ev), SysVal!Message(ev))
        IN  /\ v8' = v8 \cup SysVal!Blame(ev)
            /\ IF kind = "TRANSPORT_ERROR"
                  THEN SysVal!Record("T2b", "INCONCLUSIVE", kind) /\ SysVal!Stop /\ v5' = v5
               ELSE IF rc = 0 THEN SysVal!Record("T2b", "PASS", kind) /\ SysVal!Advance(3) /\ v5' = v5
               ELSE SysVal!Record("T2b", "FAIL", "DATA_MISMATCH") /\ SysVal!Stop
  BY DEF SysVal!t2b_verify
<1>0. good \in BOOLEAN /\ v1 = "canary_verify"
  BY DEF SysVal!Verifies, SysVal!t2b_verify
<1>00. v8 \subseteq {"net"} => good /\ v5 = "up"
  BY <1>0 DEF SysVal!IInv, SysVal!Landed
<1> HIDE DEF good
<1> DEFINE kind == SysVal!classify(SysVal!Rc(ev, good), SysVal!Marker(ev), SysVal!Message(ev))
<1>2. /\ kind \in SysKinds
      /\ kind = "TRANSPORT_ERROR" <=> ev \in {"cut", "message"}
      /\ SysVal!Rc(ev, good) = 0 <=> ev = "ran" /\ good
      /\ SysVal!Blame(ev) \subseteq {"net"} => ev \in {"ran", "cut", "message"}
  BY <1>0, EventKinds DEF SysKinds
<1> HIDE DEF kind
<1>3. /\ "T2b" \in SysVal!Tests /\ "INCONCLUSIVE" \in SysVerdicts /\ "FAIL" \in SysVerdicts /\ "PASS" \in SysVerdicts
      /\ "DATA_MISMATCH" \in SysKinds
  BY DEF SysVal!Tests, SysVerdicts, SysKinds
<1>4. v8 \subseteq v8' /\ (v8' \subseteq {"net"} => v8 \subseteq {"net"} /\ good /\ v5 = "up" /\ ev \in {"ran", "cut", "message"})
  BY <1>1, <1>00, <1>2
<1>5. CASE SysVal!Record("T2b", "INCONCLUSIVE", kind) /\ SysVal!Stop /\ v5' = v5
  BY <1>2, <1>3, <1>4, <1>5, Noted, Stopped, SysWords
<1>6. CASE SysVal!Record("T2b", "PASS", kind) /\ SysVal!Advance(3) /\ v5' = v5
  BY <1>2, <1>3, <1>4, <1>6, Noted, Advanced, SysWords
<1>7. CASE ev \notin {"cut", "message"} /\ ~(ev = "ran" /\ good) /\ SysVal!Record("T2b", "FAIL", "DATA_MISMATCH") /\ SysVal!Stop
  <2>1. ~(v8' \subseteq {"net"})
    BY <1>4, <1>7
  <2> QED
    BY <1>3, <1>4, <1>7, <2>1, Noted, Stopped, SysWords
<1> QED
  BY <1>1, <1>2, <1>5, <1>6, <1>7 DEF kind

LEMMA SysWrite == ASSUME SysVal!IInv, SysVal!t3_write, v10' = v10 PROVE SysVal!IInv'
<1>1. PICK ev \in SysVal!PeerEvents :
        LET kind == SysVal!classify(SysVal!Rc(ev, TRUE), SysVal!Marker(ev), SysVal!Message(ev))
        IN  IF kind = "TIMEOUT"
              THEN v8' = v8 \cup {"hw"} /\ SysVal!Record("T3", "FAIL", kind) /\ SysVal!Stop
              ELSE /\ SysVal!BoardWrite("T3", SysSoak, 0, ev)
                   /\ IF kind = "TRANSPORT_ERROR" THEN SysVal!Record("T3", "INCONCLUSIVE", kind) /\ SysVal!Stop
                      ELSE IF kind # "OK" THEN SysVal!Record("T3", "FAIL", "BOARD_ERROR") /\ SysVal!Stop
                      ELSE SysVal!Goto("verify") /\ UNCHANGED <<v6, v7>>
  BY DEF SysVal!t3_write
<1> DEFINE kind == SysVal!classify(SysVal!Rc(ev, TRUE), SysVal!Marker(ev), SysVal!Message(ev))
<1>2. /\ ev \in SysVal!Events /\ kind \in SysKinds
      /\ kind = "TRANSPORT_ERROR" <=> ev \in {"cut", "message"}
      /\ kind = "TIMEOUT" <=> ev = "hang"
      /\ kind = "OK" <=> ev = "ran"
      /\ ev \in {"ran", "crash", "hang", "cut", "message", "late"}
      /\ SysVal!Blame(ev) \subseteq {"net"} => ev \in {"ran", "cut", "message"}
  BY PeerEventsAre, EventKinds DEF SysKinds
<1> HIDE DEF kind
<1>3. /\ "T3" \in SysVal!Tests /\ "INCONCLUSIVE" \in SysVerdicts /\ "FAIL" \in SysVerdicts
      /\ "BOARD_ERROR" \in SysKinds
  BY DEF SysVal!Tests, SysVerdicts, SysKinds
<1>4. CASE ev = "hang"
  <2>1. v8' = v8 \cup {"hw"} /\ SysVal!Record("T3", "FAIL", kind) /\ SysVal!Stop
    BY <1>1, <1>2, <1>4 DEF kind
  <2>2. v8 \subseteq v8' /\ ~(v8' \subseteq {"net"})
    BY <2>1
  <2> QED
    BY <1>2, <1>3, <2>1, <2>2, Noted, Stopped, SysWords
<1>5. CASE ev # "hang"
  <2>1. SysVal!BoardWrite("T3", SysSoak, 0, ev)
    BY <1>1, <1>2, <1>5 DEF kind
  <2>2. /\ v8 \subseteq v8' /\ SysVal!Blame(ev) \subseteq v8' /\ v5' = v5
        /\ ev = "ran" /\ v8' \subseteq {"net"} => \A w \in 0 .. (SysSoak - 1) : v4'[w] = <<"T3", 0 + w>>
    BY <1>2, <1>5, <2>1, Written
  <2>3. v8' \subseteq {"net"} => v5' = "up" /\ ev \in {"ran", "cut", "message"}
    BY <1>2, <2>2 DEF SysVal!IInv
  <2>4. CASE ev \in {"cut", "message"}
    <3>1. SysVal!Record("T3", "INCONCLUSIVE", kind) /\ SysVal!Stop
      BY <1>1, <1>2, <2>4 DEF kind
    <3> QED
      BY <1>2, <1>3, <2>2, <2>3, <3>1, Noted, Stopped, SysWords
  <2>5. CASE ev \in {"crash", "late"}
    <3>1. SysVal!Record("T3", "FAIL", "BOARD_ERROR") /\ SysVal!Stop
      BY <1>1, <1>2, <2>5 DEF kind
    <3>2. ~(v8' \subseteq {"net"})
      BY <2>3, <2>5
    <3> QED
      BY <1>3, <2>2, <3>1, <3>2, Noted, Stopped, SysWords
  <2>6. CASE ev = "ran"
    <3>1. SysVal!Goto("verify") /\ v6' = v6
      BY <1>1, <1>2, <2>6 DEF kind
    <3>2. v1' = "verify"
      BY <3>1 DEF SysVal!Goto
    <3>3. v8' \subseteq {"net"} => \A w \in 0 .. (SysSoak - 1) : v4'[w] = <<"T3", w>>
      BY <2>2, <2>6, SysSizes
    <3> QED
      BY <2>2, <2>3, <3>1, <3>2, <3>3, SysOnward
  <2> QED
    BY <1>2, <1>5, <2>4, <2>5, <2>6
<1> QED
  BY <1>4, <1>5

LEMMA SysVerify == ASSUME SysVal!IInv, SysVal!t3_verify, v10' = v10 PROVE SysVal!IInv'
<1> DEFINE good == SysVal!Verifies("T3", SysSoak)
<1>1. PICK ev \in SysVal!Events :
        LET rc == SysVal!Rc(ev, good)
            kind == SysVal!classify(rc, SysVal!Marker(ev), SysVal!Message(ev))
        IN  /\ v8' = v8 \cup SysVal!Blame(ev)
            /\ IF kind = "TRANSPORT_ERROR" THEN SysVal!Record("T3", "INCONCLUSIVE", kind) /\ SysVal!Stop
               ELSE IF ~SysVal!Marker(ev) THEN SysVal!Record("T3", "INCONCLUSIVE", "BOARD_ERROR") /\ SysVal!Stop
               ELSE IF rc = 0 THEN SysVal!Record("T3", "PASS", kind) /\ SysVal!Advance(4)
               ELSE SysVal!Record("T3", "FAIL", "DATA_MISMATCH") /\ SysVal!Stop
  BY DEF SysVal!t3_verify
<1>0. good \in BOOLEAN /\ v1 = "verify" /\ UNCHANGED <<v4, v5>>
  BY DEF SysVal!Verifies, SysVal!t3_verify, SysVal!Quiet
<1>00. /\ v8 \subseteq {"net"} => good /\ v5 = "up"
       /\ good => \A w \in 0 .. (SysSoak - 1) : v4'[w] = <<"T3", w>>
  BY <1>0 DEF SysVal!IInv, SysVal!Landed, SysVal!Verifies
<1> HIDE DEF good
<1> DEFINE kind == SysVal!classify(SysVal!Rc(ev, good), SysVal!Marker(ev), SysVal!Message(ev))
<1>2. /\ kind \in SysKinds
      /\ SysVal!Rc(ev, good) = 0 <=> ev = "ran" /\ good
      /\ SysVal!Marker(ev) <=> ev \in {"ran", "late"}
      /\ SysVal!Blame(ev) \subseteq {"net"} => ev \in {"ran", "cut", "message"}
  BY <1>0, EventKinds DEF SysKinds
<1> HIDE DEF kind
<1>3. /\ "T3" \in SysVal!Tests /\ "INCONCLUSIVE" \in SysVerdicts /\ "FAIL" \in SysVerdicts /\ "PASS" \in SysVerdicts
      /\ "DATA_MISMATCH" \in SysKinds /\ "BOARD_ERROR" \in SysKinds
  BY DEF SysVal!Tests, SysVerdicts, SysKinds
<1>4. v8 \subseteq v8' /\ (v8' \subseteq {"net"} => good /\ v5' = "up" /\ ev \in {"ran", "cut", "message"})
  BY <1>0, <1>00, <1>1, <1>2
<1>5. CASE \E k \in SysKinds : SysVal!Record("T3", "INCONCLUSIVE", k) /\ SysVal!Stop
  BY <1>3, <1>4, <1>5, Noted, Stopped, SysWords
<1>6. CASE SysVal!Record("T3", "PASS", kind) /\ SysVal!Advance(4)
  <2>1. v6' \in SysTable /\ (v8' \subseteq {"net"} => NoFail')
    BY <1>2, <1>3, <1>4, <1>6, Noted
  <2> QED
    BY <1>00, <1>4, <1>6, <2>1, Advanced, SysWords
<1>7. CASE (~good \/ ev = "late") /\ SysVal!Record("T3", "FAIL", "DATA_MISMATCH") /\ SysVal!Stop
  BY <1>3, <1>4, <1>7, Noted, Stopped, SysWords
<1> QED
  BY <1>1, <1>2, <1>3, <1>5, <1>6, <1>7 DEF kind

LEMMA SysRead == ASSUME SysVal!IInv, SysVal!t10_read_soak, v10' = v10 PROVE SysVal!IInv'
<1> DEFINE n == SysVal!least(SysChunk, SysReads - v3)
           good == SysVal!ReadsRight("T3", v3, n)
<1>1. PICK ev \in SysVal!PeerEvents :
        LET rc == SysVal!Rc(ev, good)
            kind == SysVal!classify(rc, SysVal!Marker(ev), SysVal!Message(ev))
        IN  /\ v8' = v8 \cup SysVal!Blame(ev)
            /\ IF kind = "TRANSPORT_ERROR"
                  THEN SysVal!Record("T10", "INCONCLUSIVE", kind) /\ SysVal!Advance(5) /\ v5' = v5
               ELSE IF kind = "TIMEOUT" THEN SysVal!Record("T10", "FAIL", kind) /\ SysVal!Advance(5)
               ELSE IF ~SysVal!Marker(ev)
                  THEN SysVal!Record("T10", "INCONCLUSIVE", "BOARD_ERROR") /\ SysVal!Advance(5) /\ v5' = v5
               ELSE IF rc # 0 THEN SysVal!Record("T10", "FAIL", "DATA_MISMATCH") /\ SysVal!Advance(5) /\ v5' = v5
               ELSE v1' = "read_obs" /\ v3' = v3 + n /\ UNCHANGED <<v6, v5>>
  BY DEF SysVal!t10_read_soak
<1>0. good \in BOOLEAN /\ v1 = "read" /\ v4' = v4 /\ v3 \in 0 .. SysReads
  BY DEF SysVal!ReadsRight, SysVal!t10_read_soak, SysVal!Quiet, SysVal!IInv, SysVal!TypeOK
<1>n. n \in Int /\ n >= 0 /\ v3 + n \in 0 .. SysReads
  BY <1>0, SysSizes, SysWords DEF SysVal!least
<1> HIDE DEF n
<1> DEFINE Kept == \A w \in 0 .. (SysSoak - 1) : v4'[w] = <<"T3", w>>
<1>00. v8 \subseteq {"net"} => /\ v5 = "up"
                               /\ "T3" \in SysOnly => Kept
                               /\ "T10" \notin SysVal!MisreadByOption => good
  <2>1. v8 \subseteq {"net"} => /\ v5 = "up"
                                /\ "T3" \in SysOnly => \A w \in 0 .. (SysSoak - 1) : v4[w] = <<"T3", w>>
    BY <1>0 DEF SysVal!IInv, SysVal!Landed, SysVal!Verifies
  <2>2. "T10" \notin SysVal!MisreadByOption => "T3" \in SysOnly /\ ~(SysReads > SysSoak)
    BY DEF SysVal!MisreadByOption
  <2>3. ~(SysReads > SysSoak) => \A w \in v3 .. (v3 + n - 1) : w \in 0 .. (SysSoak - 1)
    BY <1>0, <1>n, SysSizes
  <2> QED
    BY <1>0, <2>1, <2>2, <2>3 DEF SysVal!ReadsRight
<1> HIDE DEF Kept
<1> HIDE DEF good
<1> DEFINE kind == SysVal!classify(SysVal!Rc(ev, good), SysVal!Marker(ev), SysVal!Message(ev))
<1>2. /\ kind \in SysKinds
      /\ kind = "TIMEOUT" <=> ev = "hang"
      /\ SysVal!Rc(ev, good) = 0 <=> ev = "ran" /\ good
      /\ SysVal!Marker(ev) <=> ev \in {"ran", "late"}
      /\ SysVal!Blame(ev) \subseteq {"net"} => ev \in {"ran", "cut", "message"}
  BY <1>0, PeerEventsAre, EventKinds DEF SysKinds
<1> HIDE DEF kind
<1>3. /\ "T10" \in SysVal!Tests /\ "INCONCLUSIVE" \in SysVerdicts /\ "FAIL" \in SysVerdicts
      /\ "DATA_MISMATCH" \in SysKinds /\ "BOARD_ERROR" \in SysKinds
  BY DEF SysVal!Tests, SysVerdicts, SysKinds
<1>4. /\ v8 \subseteq v8'
      /\ v8' \subseteq {"net"} => /\ v5 = "up" /\ ev \in {"ran", "cut", "message"}
                                  /\ "T3" \in SysOnly => Kept
                                  /\ "T10" \notin SysVal!MisreadByOption => good
  BY <1>00, <1>1, <1>2
<1>5. CASE \E k \in SysKinds : SysVal!Record("T10", "INCONCLUSIVE", k) /\ SysVal!Advance(5) /\ v5' = v5
  BY <1>3, <1>4, <1>5, Noted, Advanced, SysWords
<1>6. CASE ev = "hang" /\ \E k \in SysKinds : SysVal!Record("T10", "FAIL", k) /\ SysVal!Advance(5)
  <2>1. ~(v8' \subseteq {"net"})
    BY <1>4, <1>6
  <2> QED
    BY <1>3, <1>4, <1>6, <2>1, Noted, Advanced, SysWords
<1>8. CASE (~good \/ ev = "late") /\ SysVal!Record("T10", "FAIL", "DATA_MISMATCH") /\ SysVal!Advance(5) /\ v5' = v5
  <2>1. v6' \in SysTable /\ (v8' \subseteq {"net"} => NoFail')
    BY <1>3, <1>4, <1>8, Noted
  <2> QED
    BY <1>4, <1>8, <2>1, Advanced, SysWords
<1>7. CASE v1' = "read_obs" /\ v3' = v3 + n /\ UNCHANGED <<v6, v5>>
  BY <1>4, <1>7, <1>n, SysOnward DEF Kept
<1> QED
  BY <1>1, <1>2, <1>3, <1>5, <1>6, <1>7, <1>8 DEF kind

LEMMA SysReadGate == ASSUME SysVal!IInv, SysVal!t10_gate, v10' = v10 PROVE SysVal!IInv'
<1>1. PICK ev \in SysVal!Events, now \in SysVal!Seen :
        LET kind == SysVal!classify(SysVal!Rc(ev, TRUE), SysVal!Marker(ev), SysVal!Message(ev))
        IN  /\ SysVal!Observe(ev, now)
            /\ IF SysVal!healthy(ev, now)
                  THEN /\ v5' = now
                       /\ IF v3 < SysReads THEN v1' = "read" /\ UNCHANGED <<v3, v6>>
                          ELSE SysVal!Record("T10", "PASS", "none") /\ SysVal!Advance(5)
               ELSE IF kind = "TRANSPORT_ERROR"
                  THEN v5' = now /\ SysVal!Record("T10", "INCONCLUSIVE", kind) /\ SysVal!Advance(5)
               ELSE SysVal!Record("T10", "FAIL", "none") /\ SysVal!Advance(5)
  BY DEF SysVal!t10_gate
<1>2. v1 = "read_obs" /\ v4' = v4 /\ v3 \in 0 .. SysReads
  BY DEF SysVal!t10_gate, SysVal!Quiet, SysVal!IInv, SysVal!TypeOK
<1> DEFINE kind == SysVal!classify(SysVal!Rc(ev, TRUE), SysVal!Marker(ev), SysVal!Message(ev))
<1>3. kind \in SysKinds /\ (kind = "TRANSPORT_ERROR" <=> ev \in {"cut", "message"}) /\ (SysVal!healthy(ev, now) <=> ev \in {"ran", "late"} /\ now = "up")
  BY EventKinds DEF SysKinds, SysVal!healthy
<1> HIDE DEF kind
<1>4. v8 \subseteq v8' /\ (v8' \subseteq {"net"} => now = "up" /\ ev \in {"ran", "cut", "message"})
  BY <1>1, Observed
<1>5. /\ "T10" \in SysVal!Tests /\ "INCONCLUSIVE" \in SysVerdicts /\ "FAIL" \in SysVerdicts /\ "PASS" \in SysVerdicts
      /\ "none" \in SysKinds
  BY DEF SysVal!Tests, SysVerdicts, SysKinds
<1>6. CASE v5' = now /\ v1' = "read" /\ UNCHANGED <<v3, v6>>
  <2>1. v8' \subseteq {"net"} => /\ v5' = "up"
                                 /\ "T3" \in SysOnly => \A w \in 0 .. (SysSoak - 1) : v4'[w] = <<"T3", w>>
    BY <1>2, <1>4, <1>6 DEF SysVal!IInv, SysVal!Landed, SysVal!Verifies
  <2> QED
    BY <1>2, <1>4, <1>6, <2>1, SysOnward
<1>7. CASE \E v \in {"PASS", "INCONCLUSIVE"}, k \in SysKinds : v5' = now /\ SysVal!Record("T10", v, k) /\ SysVal!Advance(5)
  <2>1. v6' \in SysTable /\ (v8' \subseteq {"net"} => NoFail')
    BY <1>4, <1>5, <1>7, Noted
  <2> QED
    BY <1>4, <1>7, <2>1, Advanced, SysWords
<1>8. CASE ~(ev \in {"ran", "late"} /\ now = "up") /\ ev \notin {"cut", "message"} /\ SysVal!Record("T10", "FAIL", "none") /\ SysVal!Advance(5)
  <2>1. ~(v8' \subseteq {"net"})
    BY <1>4, <1>8
  <2> QED
    BY <1>4, <1>5, <1>8, <2>1, Noted, Advanced, SysWords
<1> QED
  BY <1>1, <1>3, <1>5, <1>6, <1>7, <1>8 DEF kind

LEMMA SysGate == ASSUME SysVal!IInv, SysVal!t6_gate, v10' = v10 PROVE SysVal!IInv'
<1>1. PICK ev \in SysVal!Events, now \in SysVal!Seen :
        /\ SysVal!Observe(ev, now) /\ v5' = now
        /\ IF SysVal!healthy(ev, now) THEN SysVal!Goto("endure") /\ UNCHANGED <<v6, v7>>
           ELSE SysVal!Record("T6", "SKIPPED", "none") /\ SysVal!Advance(6)
  BY DEF SysVal!t6_gate
<1>2. v8 \subseteq v8' /\ (v8' \subseteq {"net"} => now = "up" /\ ev \in {"ran", "cut", "message"})
  BY <1>1, Observed
<1>4. CASE SysVal!Goto("endure") /\ v6' = v6
  <2>1. v1' = "endure" /\ v3' = 0
    BY <1>4 DEF SysVal!Goto
  <2> QED
    BY <1>1, <1>2, <1>4, <2>1, SysOnward
<1>5. CASE SysVal!Record("T6", "SKIPPED", "none") /\ SysVal!Advance(6)
  <2>1. "T6" \in SysVal!Tests /\ "SKIPPED" \in SysVerdicts /\ "none" \in SysKinds
    BY DEF SysVal!Tests, SysVerdicts, SysKinds
  <2>2. v6' \in SysTable /\ (v8' \subseteq {"net"} => NoFail')
    BY <1>2, <1>5, <2>1, Noted
  <2> QED
    BY <1>1, <1>2, <1>5, <2>2, Advanced, SysWords
<1> QED
  BY <1>1, <1>4, <1>5

LEMMA SysEndure == ASSUME SysVal!IInv, SysVal!t6_write, v10' = v10 PROVE SysVal!IInv'
<1>0. v1 = "endure" /\ (v10 <= SysStep => v3 = 0)
  BY DEF SysVal!t6_write, SysVal!IInv, SysVal!TypeOK
<1> DEFINE n == SysVal!least(SysStep, v10 - v3)
<1>n. v10 <= SysStep => v3 = 0 /\ n = SysVal!least(SysStep, v10) /\ n \in Nat
  BY <1>0, SysSizes, SysWords DEF SysVal!least
<1>1. PICK ev \in SysVal!PeerEvents :
        LET kind == SysVal!classify(SysVal!Rc(ev, TRUE), SysVal!Marker(ev), SysVal!Message(ev))
        IN  IF kind = "TRANSPORT_ERROR"
              THEN SysVal!BoardWrite("T6", n, v3, ev) /\ SysVal!Record("T6", "INCONCLUSIVE", kind) /\ SysVal!Advance(6)
            ELSE IF kind = "OK"
              THEN SysVal!BoardWrite("T6", n, v3, ev) /\ v1' = "endure_obs" /\ UNCHANGED <<v3, v6>>
            ELSE v8' = v8 \cup SysVal!Blame(ev) /\ SysVal!Record("T6", "FAIL", kind) /\ SysVal!Advance(6)
  BY DEF SysVal!t6_write
<1> HIDE DEF n
<1> DEFINE kind == SysVal!classify(SysVal!Rc(ev, TRUE), SysVal!Marker(ev), SysVal!Message(ev))
<1>2. /\ ev \in SysVal!Events /\ kind \in SysKinds
      /\ kind = "TRANSPORT_ERROR" <=> ev \in {"cut", "message"}
      /\ kind = "OK" <=> ev = "ran"
      /\ ev \in {"ran", "crash", "hang", "cut", "message", "late"}
      /\ SysVal!Blame(ev) \subseteq {"net"} => ev \in {"ran", "cut", "message"}
  BY PeerEventsAre, EventKinds DEF SysKinds
<1> HIDE DEF kind
<1>3. "T6" \in SysVal!Tests /\ "INCONCLUSIVE" \in SysVerdicts /\ "FAIL" \in SysVerdicts
  BY DEF SysVal!Tests, SysVerdicts
<1>4. CASE ev \in {"cut", "message"}
  <2>1. SysVal!BoardWrite("T6", n, v3, ev) /\ SysVal!Record("T6", "INCONCLUSIVE", kind) /\ SysVal!Advance(6)
    BY <1>1, <1>2, <1>4 DEF kind
  <2>2. v8 \subseteq v8' /\ v5' = v5
    BY <1>2, <1>4, <2>1, Written
  <2>3. v6' \in SysTable /\ (v8' \subseteq {"net"} => NoFail')
    BY <1>2, <1>3, <2>1, <2>2, Noted
  <2>4. v8' \subseteq {"net"} => v5' = "up"
    BY <2>2 DEF SysVal!IInv
  <2> QED
    BY <2>1, <2>3, <2>4, Advanced, SysWords
<1>5. CASE ev \in {"hang", "crash", "late"}
  <2>1. v8' = v8 \cup SysVal!Blame(ev) /\ SysVal!Record("T6", "FAIL", kind) /\ SysVal!Advance(6)
    BY <1>1, <1>2, <1>5 DEF kind
  <2>2. v8 \subseteq v8' /\ ~(v8' \subseteq {"net"})
    BY <1>2, <1>5, <2>1
  <2> QED
    BY <1>2, <1>3, <2>1, <2>2, Noted, Advanced, SysWords
<1>6. CASE ev = "ran"
  <2>1. SysVal!BoardWrite("T6", n, v3, ev) /\ v1' = "endure_obs" /\ UNCHANGED <<v3, v6>>
    BY <1>1, <1>2, <1>6 DEF kind
  <2>2. /\ v8 \subseteq v8' /\ v5' = v5
        /\ v8' \subseteq {"net"} => \A w \in 0 .. (n - 1) : v4'[w] = <<"T6", v3 + w>>
    BY <1>2, <1>6, <2>1, Written
  <2>3. v8' \subseteq {"net"} /\ v10 <= SysStep => \A w \in 0 .. (SysVal!least(SysStep, v10) - 1) : v4'[w] = <<"T6", w>>
    BY <1>0, <1>n, <2>2
  <2>4. v8' \subseteq {"net"} => v5' = "up"
    BY <2>2 DEF SysVal!IInv
  <2> QED
    BY <1>0, <2>1, <2>2, <2>3, <2>4, SysOnward
<1> QED
  BY <1>2, <1>4, <1>5, <1>6

LEMMA SysEndureGate == ASSUME SysVal!IInv, SysVal!t6_obs, v10' = v10 PROVE SysVal!IInv'
<1>0. v1 = "endure_obs" /\ (v10 <= SysStep => v3 = 0) /\ v4' = v4
  BY DEF SysVal!t6_obs, SysVal!IInv, SysVal!TypeOK, SysVal!Quiet
<1> DEFINE n == SysVal!least(SysStep, v10 - v3)
<1>n. v10 <= SysStep => ~(v3 + n < v10)
  BY <1>0, SysSizes, SysWords DEF SysVal!least
<1>1. PICK ev \in SysVal!Events, now \in SysVal!Seen :
        LET kind == SysVal!classify(SysVal!Rc(ev, TRUE), SysVal!Marker(ev), SysVal!Message(ev))
        IN  /\ SysVal!Observe(ev, now)
            /\ IF SysVal!healthy(ev, now)
                  THEN /\ v5' = now /\ v6' = v6
                       /\ v1' = IF v3 + n < v10 THEN "endure" ELSE "endure_verify"
               ELSE IF kind = "TRANSPORT_ERROR"
                  THEN v5' = now /\ SysVal!Record("T6", "INCONCLUSIVE", kind) /\ SysVal!Advance(6)
               ELSE SysVal!Record("T6", "FAIL", "none") /\ SysVal!Advance(6)
  BY DEF SysVal!t6_obs
<1> HIDE DEF n
<1> DEFINE kind == SysVal!classify(SysVal!Rc(ev, TRUE), SysVal!Marker(ev), SysVal!Message(ev))
<1>3. kind \in SysKinds /\ (kind = "TRANSPORT_ERROR" <=> ev \in {"cut", "message"}) /\ (SysVal!healthy(ev, now) <=> ev \in {"ran", "late"} /\ now = "up")
  BY EventKinds DEF SysKinds, SysVal!healthy
<1> HIDE DEF kind
<1>4. v8 \subseteq v8' /\ (v8' \subseteq {"net"} => now = "up" /\ ev \in {"ran", "cut", "message"})
  BY <1>1, Observed
<1>5. "T6" \in SysVal!Tests /\ "INCONCLUSIVE" \in SysVerdicts /\ "FAIL" \in SysVerdicts /\ "none" \in SysKinds
  BY DEF SysVal!Tests, SysVerdicts, SysKinds
<1>6. CASE v5' = now /\ (v1' = "endure_verify" \/ (v1' = "endure" /\ ~(v10 <= SysStep))) /\ v6' = v6
  <2>1. v8' \subseteq {"net"} => /\ v5' = "up"
                                 /\ v10 <= SysStep => \A w \in 0 .. (SysVal!least(SysStep, v10) - 1) : v4'[w] = <<"T6", w>>
    BY <1>0, <1>4, <1>6 DEF SysVal!IInv, SysVal!Landed, SysVal!Verifies
  <2> QED
    BY <1>0, <1>4, <1>6, <2>1, SysOnward
<1>7. CASE v5' = now /\ SysVal!Record("T6", "INCONCLUSIVE", kind) /\ SysVal!Advance(6)
  <2>1. v6' \in SysTable /\ (v8' \subseteq {"net"} => NoFail')
    BY <1>3, <1>4, <1>5, <1>7, Noted
  <2> QED
    BY <1>4, <1>7, <2>1, Advanced, SysWords
<1>8. CASE ~(ev \in {"ran", "late"} /\ now = "up") /\ ev \notin {"cut", "message"} /\ SysVal!Record("T6", "FAIL", "none") /\ SysVal!Advance(6)
  <2>1. ~(v8' \subseteq {"net"})
    BY <1>4, <1>8
  <2> QED
    BY <1>4, <1>5, <1>8, <2>1, Noted, Advanced, SysWords
<1> QED
  BY <1>1, <1>3, <1>6, <1>7, <1>8, <1>n DEF kind

LEMMA SysEndureVerify == ASSUME SysVal!IInv, SysVal!t6_verify, v10' = v10 PROVE SysVal!IInv'
<1> DEFINE good == SysVal!Verifies("T6", SysVal!least(SysStep, v10))
<1>1. PICK ev \in SysVal!Events :
        LET rc == SysVal!Rc(ev, good)
            kind == SysVal!classify(rc, SysVal!Marker(ev), SysVal!Message(ev))
            verdict == SysVal!verify_verdict(rc, kind, SysVal!Marker(ev))
        IN  /\ v8' = v8 \cup SysVal!Blame(ev)
            /\ SysVal!Record("T6", verdict.v, verdict.k)
            /\ v5' = IF verdict.v = "FAIL" /\ kind = "TIMEOUT" THEN "down" ELSE v5
  BY DEF SysVal!t6_verify
<1>0. good \in BOOLEAN /\ v1 = "endure_verify" /\ SysVal!Advance(6)
  BY DEF SysVal!Verifies, SysVal!t6_verify
<1>00. v8 \subseteq {"net"} => v5 = "up" /\ ("T6" \in SysVal!MisreadByOption \/ good)
  <2>1. "T6" \in SysVal!MisreadByOption \/ v10 <= SysStep
    BY SysSizes, SysWords DEF SysVal!MisreadByOption
  <2> QED
    BY <1>0, <2>1 DEF SysVal!IInv, SysVal!Landed
<1> HIDE DEF good
<1> DEFINE kind == SysVal!classify(SysVal!Rc(ev, good), SysVal!Marker(ev), SysVal!Message(ev))
           verdict == SysVal!verify_verdict(SysVal!Rc(ev, good), kind, SysVal!Marker(ev))
<1>2. /\ kind \in {"OK", "RAN", "TIMEOUT", "TRANSPORT_ERROR"} /\ ev \in {"ran", "crash", "hang", "cut", "message", "late"}
      /\ kind = "TRANSPORT_ERROR" <=> ev \in {"cut", "message"}
      /\ kind = "TIMEOUT" <=> ev = "hang"
      /\ SysVal!Marker(ev) <=> ev \in {"ran", "late"}
      /\ SysVal!Rc(ev, good) = 0 <=> ev = "ran" /\ good
      /\ SysVal!Blame(ev) \subseteq {"net"} => ev \in {"ran", "cut", "message"}
  BY <1>0, EventKinds
<1> HIDE DEF kind
<1>3. /\ verdict.v \in SysVerdicts /\ verdict.k \in SysKinds
      /\ verdict.v = "FAIL" => ev = "hang" \/ ev = "late" \/ (ev = "ran" /\ ~good)
  BY <1>2, Zenon DEF SysVal!verify_verdict, SysVerdicts, SysKinds
<1>4. v8 \subseteq v8' /\ (v8' \subseteq {"net"} => v5 = "up" /\ ("T6" \in SysVal!MisreadByOption \/ good) /\ ev \in {"ran", "cut", "message"})
  BY <1>00, <1>1, <1>2
<1>5. SysVal!Record("T6", verdict.v, verdict.k) /\ v5' = (IF verdict.v = "FAIL" /\ kind = "TIMEOUT" THEN "down" ELSE v5)
      /\ "T6" \in SysVal!Tests
  BY <1>1 DEF kind, SysVal!Tests
<1> HIDE DEF verdict
<1>6. verdict.v = "FAIL" => ~(v8' \subseteq {"net"}) \/ "T6" \in SysVal!MisreadByOption
  BY <1>3, <1>4
<1>7. v6' \in SysTable /\ (v8' \subseteq {"net"} => NoFail')
  BY <1>3, <1>4, <1>5, <1>6, Noted
<1>8. v8' \subseteq {"net"} => v5' = "up"
  BY <1>2, <1>4, <1>5
<1> QED
  BY <1>0, <1>7, <1>8, Advanced, SysWords

LEMMA SysKeeps == ASSUME SysVal!IInv, SysVal!Next, v10' = v10 PROVE SysVal!IInv'
<1>1. CASE SysVal!_summary
  <2>1. v1' = "over" /\ UNCHANGED <<v3, v4, v5, v6, v8>>
    BY <1>1 DEF SysVal!_summary
  <2> QED
    BY <2>1 DEF SysVal!IInv, SysVal!TypeOK, SysVal!Landed, SysVal!NetIsNotAFault, SysVal!MisreadByOption
<1> QED
  BY <1>1, SysRetry, SysT1, SysT2, SysCanary, SysCanaryVerify, SysWrite, SysVerify, SysRead, SysReadGate, SysGate,
     SysEndure, SysEndureGate, SysEndureVerify DEF SysVal!Next

LEMMA SysNetIsNoFault == SysVal!IInv => SysVal!NetIsNotAFault
BY DEF SysVal!IInv, SysVal!NetIsNotAFault, SysVal!MisreadByOption

-----------------------------------------------------------------------------
(* The election of a root *)

LEMMA ChartDies == Chart!Dies = {"a", "b"} /\ Chart!other("a") = "b" /\ Chart!other("b") = "a"
BY DEF Chart!Dies, Chart!other

LEMMA ChartCounts == ASSUME NEW S PROVE Chart!Cardinality(S) = Cardinality(S)
BY DEF Chart!Cardinality, Cardinality

(* How many of the two dies are in a set. *)
LEMMA OneOfTwo ==
    ASSUME NEW R \in SUBSET Chart!Dies
    PROVE  /\ Cardinality(R) \in {0, 1, 2}
           /\ Cardinality(R) = 1 <=> ("a" \in R <=> "b" \notin R)
<1>1. R = {} \/ R = {"a"} \/ R = {"b"} \/ R = {"a", "b"}
  BY ChartDies
<1>2. Cardinality({}) = 0 /\ Cardinality({"a"}) = 1 /\ Cardinality({"b"}) = 1
  BY FS_EmptySet, FS_Singleton
<1>3. Cardinality({"a", "b"}) = 2
  <2>1. IsFiniteSet({"a"}) /\ {"a"} \cup {"b"} = {"a", "b"}
    BY FS_Singleton
  <2>2. Cardinality({"a"} \cup {"b"}) = Cardinality({"a"}) + 1
    BY <2>1, FS_AddElement
  <2> QED
    BY <1>2, <2>1, <2>2
<1> QED
  BY <1>1, <1>2, <1>3

LEMMA ChartStarts == Chart!Init => Chart!IInv
<1> SUFFICES ASSUME Chart!Init PROVE Chart!IInv
  OBVIOUS
<1>1. Chart!TypeOK
  BY DEF Chart!Init, Chart!TypeOK, Chart!Nothing, Chart!None
<1>2. Chart!SettledByClaims /\ Chart!SeenIsSo
  BY DEF Chart!Init, Chart!SettledByClaims, Chart!SeenIsSo, Chart!Nothing
<1>3. v12 = [d \in Chart!Dies |-> 99] /\ (v1 = "gate" => v10["a"] = "fcsm") /\ (v1 = "tool" => v3["a"] # v3["b"])
  BY ChartDies DEF Chart!Init, Chart!None
<1>4. Chart!ToolHasLooked /\ Chart!GateHasLooked
  BY <1>3, ChartDies DEF Chart!ToolHasLooked, Chart!GateHasLooked
<1> QED
  BY <1>1, <1>2, <1>4 DEF Chart!IInv

LEMMA ChartSame ==
    ASSUME Chart!IInv, UNCHANGED <<v1, v3, v5, v6, v7, v8, v9, v10, v11, v12, v13>> PROVE Chart!IInv'
BY DEF Chart!IInv, Chart!TypeOK, Chart!SettledByClaims, Chart!ToolHasLooked, Chart!SeenIsSo, Chart!GateHasLooked,
   Chart!SeenOneRoot

(* The hardware: what was settled stays, and hears no more. *)
LEMMA ClaimKeeps == ASSUME Chart!IInv, NEW d \in Chart!Dies, Chart!Claim(d) PROVE Chart!IInv'
<1> USE DEF Chart!IInv
<1>1. UNCHANGED <<v1, v3, v5, v8, v9, v10, v11, v12, v13>>
  BY DEF Chart!Claim, Chart!host
<1>2. /\ v6' \in [Chart!Dies -> BOOLEAN] /\ v7' \in [Chart!Dies -> BOOLEAN]
      /\ \A e \in Chart!Dies : (v6[e] => v6'[e]) /\ (v5[e] = "settled" => v6'[e] = v6[e])
  BY DEF Chart!Claim, Chart!TypeOK
<1>3. Chart!TypeOK'
  BY <1>1, <1>2 DEF Chart!TypeOK
<1>4. Chart!SettledByClaims'
  BY <1>1, <1>2 DEF Chart!SettledByClaims
<1>5. Chart!ToolHasLooked' /\ Chart!SeenIsSo' /\ Chart!GateHasLooked'
  BY <1>1, <1>2 DEF Chart!ToolHasLooked, Chart!SeenIsSo, Chart!GateHasLooked, Chart!SeenOneRoot
<1> QED
  BY <1>3, <1>4, <1>5

LEMMA ElectionSettles == ASSUME Chart!IInv, NEW d \in Chart!Dies, Chart!Settle(d) PROVE Chart!IInv'
<1> USE DEF Chart!IInv
<1>1. UNCHANGED <<v1, v3, v6, v7, v9, v10, v11, v12, v13>> /\ v5[d] = "open"
  BY DEF Chart!Settle, Chart!host
<1>2. /\ v5' = [v5 EXCEPT ![d] = "settled"]
      /\ v8' = [v8 EXCEPT ![d] = ~(v6[d] /\ v3[Chart!other(d)] < v3[d])]
  BY DEF Chart!Settle
<1> DEFINE lost == v6[d] /\ v3[Chart!other(d)] < v3[d]
<1>3. lost \in BOOLEAN
  BY DEF Chart!TypeOK
<1>4. v8' = [v8 EXCEPT ![d] = ~lost]
  BY <1>2
<1>l. lost <=> v6[d] /\ v3[Chart!other(d)] < v3[d]
  OBVIOUS
<1> HIDE DEF lost
<1>5. /\ v8' \in [Chart!Dies -> BOOLEAN] /\ v8'[d] = ~lost /\ \A e \in Chart!Dies \ {d} : v8'[e] = v8[e]
      /\ v5' \in [Chart!Dies -> {"idle", "open", "settled"}] /\ v5'[d] = "settled"
      /\ \A e \in Chart!Dies \ {d} : v5'[e] = v5[e]
  BY <1>2, <1>3, <1>4 DEF Chart!TypeOK
<1>6. Chart!TypeOK'
  BY <1>1, <1>5 DEF Chart!TypeOK
<1>7. Chart!SettledByClaims'
  <2> SUFFICES ASSUME NEW e \in Chart!Dies, v5'[e] = "settled"
               PROVE  v8'[e] <=> ~(v6[e] /\ v3[Chart!other(e)] < v3[e])
    BY <1>1 DEF Chart!SettledByClaims
  <2>1. CASE e = d
    BY <1>5, <1>l, <2>1
  <2>2. CASE e # d
    BY <1>5, <2>2 DEF Chart!SettledByClaims
  <2> QED
    BY <2>1, <2>2
<1>8. Chart!ToolHasLooked' /\ Chart!SeenIsSo' /\ Chart!GateHasLooked'
  BY <1>1, <1>5 DEF Chart!ToolHasLooked, Chart!SeenIsSo, Chart!GateHasLooked, Chart!SeenOneRoot
<1> QED
  BY <1>6, <1>7, <1>8

(* An election starts only on an idle die. *)
LEMMA StartOpens ==
    ASSUME Chart!TypeOK, NEW d \in Chart!Dies, Chart!ElectionStart(d)
    PROVE  /\ v5' \in [Chart!Dies -> {"idle", "open", "settled"}]
           /\ \A e \in Chart!Dies : v5'[e] = "settled" <=> v5[e] = "settled"
BY DEF Chart!TypeOK, Chart!ElectionStart

(* A step of the tool. *)
LEMMA ToolKeeps == ASSUME Chart!IInv, NEW d \in Chart!Dies, Chart!Tool(d), v1' = v1 PROVE Chart!IInv'
<1> USE DEF Chart!IInv
<1>0. v1 = "tool" /\ UNCHANGED <<v3, v6, v7, v8, v9, v13>>
  BY DEF Chart!Tool, Chart!do_prep, Chart!do_elect, Chart!ElectPoll, Chart!hardware
<1>1. CASE Chart!do_prep(d) \/ Chart!do_elect(d)
  <2>1. /\ v5' \in [Chart!Dies -> {"idle", "open", "settled"}]
        /\ \A e \in Chart!Dies : v5'[e] = "settled" <=> v5[e] = "settled"
    BY <1>1, StartOpens DEF Chart!do_prep, Chart!do_elect, Chart!hardware, Chart!TypeOK
  <2>2. /\ v11' = v11 /\ (v12' = v12 \/ v12' = [v12 EXCEPT ![d] = 2])
        /\ v10' = v10 \/ v10' = [v10 EXCEPT ![d] = "elect"] \/ v10' = [v10 EXCEPT ![d] = "poll"]
    BY <1>1 DEF Chart!do_prep, Chart!do_elect
  <2>3. v12' \in [Chart!Dies -> {0, 1, 2, 3, Chart!None}] /\ \A e \in Chart!Dies : v12'[e] = 0 => v12[e] = 0
    <3>1. v12 \in [Chart!Dies -> {0, 1, 2, 3, Chart!None}]
      BY DEF Chart!TypeOK
    <3> QED
      BY <2>2, <3>1
  <2>4. v10' \in [Chart!Dies -> {"fcsm", "prep", "elect", "poll", "joined", "enum", "route", "verdict"}]
    BY <2>2 DEF Chart!TypeOK
  <2>5. Chart!TypeOK'
    BY <1>0, <2>1, <2>2, <2>3, <2>4 DEF Chart!TypeOK
  <2> QED
    BY <1>0, <2>1, <2>2, <2>3, <2>5 DEF Chart!SettledByClaims, Chart!ToolHasLooked, Chart!SeenIsSo, Chart!GateHasLooked
<1>2. CASE Chart!ElectPoll(d)
  <2>1. v5' = v5 /\ v10' = v10 /\ v11' = [v11 EXCEPT ![d] = Chart!Status(d)]
        /\ v12' = [v12 EXCEPT ![d] = Chart!ElectVerdict(Chart!Status(d))]
    BY <1>2 DEF Chart!ElectPoll, Chart!hardware
  <2>2. /\ Chart!Status(d) \in [done : BOOLEAN, root : BOOLEAN, dual : BOOLEAN, silent : BOOLEAN]
        /\ Chart!Status(d).done <=> v5[d] = "settled"
        /\ Chart!Status(d).root = v8[d]
        /\ Chart!Status(d).silent <=> v8[d] /\ ~v6[d]
    BY DEF Chart!Status, Chart!TypeOK, Chart!dual_root, Chart!silent_root
  <2> DEFINE s == Chart!Status(d)
  <2> HIDE DEF s
  <2>3. /\ Chart!ElectVerdict(s) \in {0, 2, 3}
        /\ Chart!ElectVerdict(s) = 0 => s.done /\ ~s.silent
    BY DEF Chart!ElectVerdict
  <2>4. Chart!TypeOK'
    BY <1>0, <2>1, <2>2, <2>3 DEF Chart!TypeOK, s
  <2>5. \A e \in Chart!Dies : v12'[e] = 0 => v5[e] = "settled" /\ (v8[e] => v6[e])
    BY <1>0, <2>1, <2>2, <2>3 DEF Chart!TypeOK, Chart!ToolHasLooked, s
  <2>6. Chart!SeenIsSo'
    BY <1>0, <2>1, <2>2 DEF Chart!TypeOK, Chart!SeenIsSo
  <2> QED
    BY <1>0, <2>1, <2>4, <2>5, <2>6 DEF Chart!SettledByClaims, Chart!ToolHasLooked, Chart!GateHasLooked
<1> QED
  BY <1>1, <1>2 DEF Chart!Tool

(* The gate's threads. *)
LEMMA ThreadKeeps ==
    ASSUME Chart!IInv, NEW d \in Chart!Dies, Chart!GateElect(d) \/ Chart!GatePoll(d), v1' = v1 PROVE Chart!IInv'
<1> USE DEF Chart!IInv
<1>0. v1 = "gate" /\ UNCHANGED <<v3, v6, v7, v8, v9, v12, v13>> /\ v12["a"] = 99
  BY DEF Chart!GateElect, Chart!GatePoll, Chart!hardware, Chart!None
<1>1. /\ v5' \in [Chart!Dies -> {"idle", "open", "settled"}]
      /\ \A e \in Chart!Dies : v5'[e] = "settled" <=> v5[e] = "settled"
  BY StartOpens DEF Chart!GateElect, Chart!GatePoll, Chart!hardware, Chart!TypeOK
<1>2. PICK place \in {"poll", "joined"} : v10' = [v10 EXCEPT ![d] = place]
  BY DEF Chart!GateElect, Chart!GatePoll
<1>3. v10[d] \in {"elect", "poll"}
  BY DEF Chart!GateElect, Chart!GatePoll
<1>4. v11' = v11 \/ (v5' = v5 /\ v11' = [v11 EXCEPT ![d] = Chart!Status(d)])
  BY DEF Chart!GateElect, Chart!GatePoll, Chart!hardware
<1>5. /\ Chart!Status(d) \in [done : BOOLEAN, root : BOOLEAN, dual : BOOLEAN, silent : BOOLEAN]
      /\ Chart!Status(d).done <=> v5[d] = "settled"
      /\ Chart!Status(d).root = v8[d]
  BY DEF Chart!Status, Chart!TypeOK, Chart!dual_root, Chart!silent_root
<1> DEFINE s == Chart!Status(d)
<1> HIDE DEF s
<1>6. Chart!TypeOK'
  BY <1>0, <1>1, <1>2, <1>4, <1>5 DEF Chart!TypeOK, s
<1>7. Chart!SeenIsSo'
  BY <1>0, <1>1, <1>4, <1>5 DEF Chart!TypeOK, Chart!SeenIsSo, s
<1>8. Chart!SettledByClaims' /\ Chart!ToolHasLooked'
  BY <1>0, <1>1 DEF Chart!SettledByClaims, Chart!ToolHasLooked
<1>9. v10'["a"] \in {"enum", "route", "verdict"} => d # "a" /\ v10'["a"] = v10["a"]
  BY <1>2, ChartDies DEF Chart!TypeOK
<1>10. Chart!GateHasLooked'
  BY <1>0, <1>3, <1>9, ChartDies DEF Chart!GateHasLooked
<1> QED
  BY <1>6, <1>7, <1>8, <1>10

(* The gate's host process: both dies' places move together. *)
LEMMA HostMoves ==
    ASSUME Chart!IInv, v1 = "gate", UNCHANGED <<v1, v3, v5, v6, v7, v8, v11>>,
           NEW place \in {"prep", "elect", "enum", "route", "verdict"},
           v10' = v10 \/ v10' = [d \in Chart!Dies |-> place],
           v12' = v12 \/ v12' = [v12 EXCEPT !["a"] = 1] \/ v12' = [v12 EXCEPT !["a"] = 2]
             \/ (v12' = [v12 EXCEPT !["a"] = 0] /\ v10["a"] = "verdict" /\ v10' = v10 /\ v13 = {}),
           v12["a"] = 99,
           v10' = v10 => UNCHANGED <<v9, v13>>,
           v10' # v10 /\ place \in {"enum", "route", "verdict"} =>
               v12' = v12 /\ (v13' = {} => Chart!SeenOneRoot /\ (place # "enum" => v9'.ids = 2))
    PROVE  Chart!IInv'
<1> USE DEF Chart!IInv
<1>1. Chart!TypeOK'
  BY DEF Chart!TypeOK, Chart!None
<1>2. Chart!SettledByClaims' /\ Chart!ToolHasLooked' /\ Chart!SeenIsSo'
  BY DEF Chart!SettledByClaims, Chart!ToolHasLooked, Chart!SeenIsSo
<1>3. Chart!SeenOneRoot' <=> Chart!SeenOneRoot
  BY DEF Chart!SeenOneRoot
<1>4. CASE v10' = v10
  <2>1. v12'["a"] = 0 => v10["a"] = "verdict" /\ v13 = {}
    BY ChartDies DEF Chart!TypeOK
  <2> QED
    BY <1>1, <1>2, <1>3, <1>4, <2>1 DEF Chart!GateHasLooked
<1>5. CASE v10' = [d \in Chart!Dies |-> place] /\ v10' # v10
  <2>1. v10'["a"] = place /\ v10'["b"] = place
    BY <1>5, ChartDies
  <2>2. v12'["a"] # 0
    BY <1>5, ChartDies DEF Chart!TypeOK
  <2>3. place \in {"prep", "elect"} \/ place \in {"enum", "route", "verdict"}
    OBVIOUS
  <2>4. Chart!GateHasLooked'
    BY <1>3, <1>5, <2>1, <2>2, <2>3 DEF Chart!GateHasLooked
  <2> QED
    BY <1>1, <1>2, <2>4
<1> QED
  BY <1>4, <1>5

LEMMA HostKeeps ==
    ASSUME Chart!IInv, v1' = v1,
           \/ Chart!GateBaseline \/ Chart!GatePrep \/ Chart!GateJoin \/ Chart!GateEnum \/ Chart!GateRoute
           \/ Chart!GateVerdict
    PROVE  Chart!IInv'
<1>0. v1 = "gate" /\ v12["a"] = 99
  BY DEF Chart!GateBaseline, Chart!GatePrep, Chart!GateJoin, Chart!GateEnum, Chart!GateRoute, Chart!GateVerdict,
     Chart!At, Chart!None
<1>1. CASE Chart!GateBaseline
  <2>1. UNCHANGED <<v3, v5, v6, v7, v8, v9, v11, v13>>
    BY <1>1 DEF Chart!GateBaseline, Chart!hardware
  <2>2. \/ v10' = [d \in Chart!Dies |-> "prep"] /\ v12' = v12
        \/ v10' = v10 /\ (v12' = [v12 EXCEPT !["a"] = 1] \/ v12' = [v12 EXCEPT !["a"] = 2])
    BY <1>1 DEF Chart!GateBaseline, Chart!Move, Chart!Return
  <2> QED
    BY <1>0, <2>1, <2>2, HostMoves
<1>2. CASE Chart!GatePrep
  <2>1. UNCHANGED <<v3, v5, v6, v7, v8, v9, v11, v12, v13>> /\ v10' = [d \in Chart!Dies |-> "elect"]
    BY <1>2 DEF Chart!GatePrep, Chart!hardware, Chart!Move
  <2> QED
    BY <1>0, <2>1, HostMoves
<1>3. CASE Chart!GateJoin
  <2> DEFINE R == {d \in Chart!Dies : v11[d].root}
  <2>1. UNCHANGED <<v3, v5, v6, v7, v8, v9, v11>> /\ v10["a"] = "joined"
    BY <1>3, ChartDies DEF Chart!GateJoin, Chart!hardware, Chart!At
  <2>2. \/ v12' = [v12 EXCEPT !["a"] = 1] /\ UNCHANGED <<v10, v13>>
        \/ v13' = Chart!RootFails /\ v12' = v12 /\ v10' = [d \in Chart!Dies |-> IF Cardinality(R) = 1 THEN "enum" ELSE "verdict"]
    BY <1>3, ChartCounts DEF Chart!GateJoin, Chart!Move, Chart!Return
  <2>3. Cardinality(R) \in {0, 1, 2} /\ (Cardinality(R) = 1 <=> (v11["a"].root <=> ~v11["b"].root))
    <3>1. R \in SUBSET Chart!Dies
      OBVIOUS
    <3>2. ("a" \in R <=> v11["a"].root) /\ ("b" \in R <=> v11["b"].root)
      BY ChartDies DEF Chart!IInv, Chart!TypeOK
    <3> QED
      BY <3>1, <3>2, OneOfTwo
  <2>4. Chart!RootFails = {} => (\A d \in Chart!Dies : v11[d].done) /\ Cardinality(R) = 1
    <3>1. Chart!RootFails = (IF \A d \in Chart!Dies : v11[d].done THEN {} ELSE {"no_convergence"})
             \cup (IF Cardinality(R) = 2 THEN {"dual_root"} ELSE IF Cardinality(R) = 0 THEN {"no_root"} ELSE {})
      BY ChartCounts DEF Chart!RootFails
    <3> HIDE DEF R
    <3> QED
      BY <2>3, <3>1
  <2>5. Chart!RootFails = {} => Chart!SeenOneRoot /\ Cardinality(R) = 1
    <3>1. v11["a"].root \in BOOLEAN /\ v11["b"].root \in BOOLEAN
      BY ChartDies DEF Chart!IInv, Chart!TypeOK
    <3> HIDE DEF R
    <3> QED
      BY <2>3, <2>4, <3>1 DEF Chart!SeenOneRoot
  <2> HIDE DEF R
  <2>6. CASE v12' = [v12 EXCEPT !["a"] = 1] /\ UNCHANGED <<v10, v13>>
    BY <1>0, <2>1, <2>6, HostMoves
  <2>7. CASE /\ v13' = Chart!RootFails /\ v12' = v12
             /\ v10' = [d \in Chart!Dies |-> IF Cardinality(R) = 1 THEN "enum" ELSE "verdict"]
    <3>0. v10'["a"] # v10["a"]
      BY <2>1, <2>7, ChartDies
    <3>1. CASE Cardinality(R) = 1
      <4>1. v10' = [d \in Chart!Dies |-> "enum"]
        BY <2>7, <3>1
      <4> QED
        BY <1>0, <2>1, <2>5, <2>7, <3>0, <4>1, HostMoves
    <3>2. CASE Cardinality(R) # 1
      <4>1. v10' = [d \in Chart!Dies |-> "verdict"] /\ v13' # {}
        BY <2>4, <2>7, <3>2
      <4> QED
        BY <1>0, <2>1, <2>7, <3>0, <4>1, HostMoves
    <3> QED
      BY <3>1, <3>2
  <2> QED
    BY <2>2, <2>6, <2>7
<1>4. CASE Chart!GateEnum
  <2>1. /\ UNCHANGED <<v3, v5, v6, v7, v8, v11, v12>> /\ v10["a"] = "enum"
        /\ v10' = [d \in Chart!Dies |-> "route"]
    BY <1>4, ChartDies DEF Chart!GateEnum, Chart!At, Chart!Move
  <2>2. v13' = {} => v13 = {} /\ v9'.ids = 2
    BY <1>4 DEF Chart!GateEnum
  <2>3. v13 = {} => Chart!SeenOneRoot
    BY <1>0, <2>1 DEF Chart!IInv, Chart!GateHasLooked
  <2>4. v10'["a"] # v10["a"]
    BY <2>1, ChartDies
  <2> QED
    BY <1>0, <2>1, <2>2, <2>3, <2>4, HostMoves
<1>5. CASE Chart!GateRoute
  <2>1. /\ UNCHANGED <<v3, v5, v6, v7, v8, v9, v11, v12>> /\ v10["a"] = "route"
        /\ v10' = [d \in Chart!Dies |-> "verdict"]
    BY <1>5, ChartDies DEF Chart!GateRoute, Chart!At, Chart!Move, Chart!hardware
  <2>2. v13' = {} => v13 = {}
    BY <1>5 DEF Chart!GateRoute
  <2>3. v13 = {} => Chart!SeenOneRoot /\ v9.ids = 2
    BY <1>0, <2>1 DEF Chart!IInv, Chart!GateHasLooked
  <2>4. v10'["a"] # v10["a"]
    BY <2>1, ChartDies
  <2> QED
    BY <1>0, <2>1, <2>2, <2>3, <2>4, HostMoves
<1>6. CASE Chart!GateVerdict
  <2>1. UNCHANGED <<v3, v5, v6, v7, v8, v9, v10, v11, v13>> /\ v10["a"] = "verdict"
    BY <1>6, ChartDies DEF Chart!GateVerdict, Chart!At, Chart!hardware
  <2>2. v12' = [v12 EXCEPT !["a"] = 1] \/ (v12' = [v12 EXCEPT !["a"] = 0] /\ v13 = {})
    BY <1>6 DEF Chart!GateVerdict, Chart!Return
  <2> QED
    BY <1>0, <2>1, <2>2, HostMoves
<1> QED
  BY <1>1, <1>2, <1>3, <1>4, <1>5, <1>6

LEMMA ChartStep == ASSUME Chart!IInv, Chart!Next PROVE Chart!IInv'
BY ClaimKeeps, ElectionSettles, ToolKeeps, ThreadKeeps, HostKeeps DEF Chart!Next, Chart!Gate

(* Two settled dies that both heard the other, or were lower, are not both *)
(* root; nor neither.                                                      *)
LEMMA ChartAgrees == Chart!IInv => Chart!ToolsAgree /\ Chart!PassIsOneRoot
<1> SUFFICES ASSUME Chart!IInv PROVE Chart!ToolsAgree /\ Chart!PassIsOneRoot
  OBVIOUS
<1> USE DEF Chart!IInv
<1> DEFINE R == {d \in Chart!Dies : v8[d]}
<1>1. v8["a"] \in BOOLEAN /\ v8["b"] \in BOOLEAN /\ v3["a"] \in {1, 2} /\ v3["b"] \in {1, 2}
  BY ChartDies DEF Chart!TypeOK
<1>2. Chart!OneRoot <=> (v8["a"] <=> ~v8["b"])
  <2>1. R \in SUBSET Chart!Dies /\ ("a" \in R <=> v8["a"]) /\ ("b" \in R <=> v8["b"])
    BY ChartDies
  <2>2. Chart!OneRoot <=> Cardinality(R) = 1
    BY ChartCounts DEF Chart!OneRoot
  <2> QED
    BY <1>1, <2>1, <2>2, OneOfTwo
<1>3. Chart!ToolsAgree
  <2> SUFFICES ASSUME v1 = "tool", \A d \in Chart!Dies : v12[d] = 0 PROVE v8["a"] <=> ~v8["b"]
    BY <1>2 DEF Chart!ToolsAgree
  <2>1. /\ v5["a"] = "settled" /\ (v8["a"] => v6["a"]) /\ v5["b"] = "settled" /\ (v8["b"] => v6["b"])
        /\ v3["a"] # v3["b"]
    BY ChartDies DEF Chart!ToolHasLooked
  <2>2. (v8["a"] <=> ~(v6["a"] /\ v3["b"] < v3["a"])) /\ (v8["b"] <=> ~(v6["b"] /\ v3["a"] < v3["b"]))
    BY <2>1, ChartDies DEF Chart!SettledByClaims
  <2>3. v3["a"] < v3["b"] \/ v3["b"] < v3["a"]
    BY <1>1, <2>1
  <2>4. ~(v3["a"] < v3["b"] /\ v3["b"] < v3["a"])
    BY <1>1
  <2> QED
    BY <2>1, <2>2, <2>3, <2>4
<1>4. Chart!PassIsOneRoot
  <2> SUFFICES ASSUME v1 = "gate", v12["a"] = 0
               PROVE  Chart!OneRoot /\ (\A d \in Chart!Dies : v5[d] = "settled") /\ v9.ids = 2
    BY DEF Chart!PassIsOneRoot
  <2>1. Chart!SeenOneRoot /\ v9.ids = 2
    BY DEF Chart!GateHasLooked
  <2>2. (\A d \in Chart!Dies : v5[d] = "settled" /\ v11[d].root = v8[d]) /\ v11["a"].root # v11["b"].root
    BY <2>1 DEF Chart!SeenOneRoot, Chart!SeenIsSo
  <2>3. v8["a"] # v8["b"]
    BY <2>2, ChartDies
  <2>4. v8["a"] <=> ~v8["b"]
    BY <1>1, <2>3
  <2> QED
    BY <1>2, <2>1, <2>2, <2>4
<1> QED
  BY <1>3, <1>4

-----------------------------------------------------------------------------
(* The register sweep *)

RegRows == {2, 3, 4, 5, 6, 8, 9}

LEMMA RegsRows ==
    /\ Len(Regs!INVENTORY) = 9
    /\ \A k \in 1 .. 9 :
         /\ Regs!INVENTORY[k].kind = "rw" <=> k \in {2, 8}
         /\ Regs!INVENTORY[k].kind \in {"skip", "gated"} <=> k \notin RegRows
         /\ Regs!INVENTORY[k].kind = "w1p" <=> k = 5
    /\ Regs!INVENTORY[2].name = "RELEASE_THRESHOLD" /\ Regs!INVENTORY[8].name = "PAIR_CREDIT_COUNTER_EN"
BY DEF Regs!INVENTORY, RegRows

LEMMA RegsSwept ==
    /\ \A k \in 1 .. 9 : Regs!INVENTORY[k] \in Regs!Swept <=> k \in RegRows
    /\ \A r \in Regs!Swept : \E k \in RegRows : r = Regs!INVENTORY[k]
BY RegsRows DEF Regs!Swept, RegRows

LEMMA RegsFailed ==
    Regs!FailedBy <=> \A k \in RegRows : Regs!INVENTORY[k].name = v3 /\ v4.row > k => v4.fails = 1
BY RegsSwept DEF Regs!FailedBy, RegRows

LEMMA RegsStarts == Regs!Init => Regs!IInv
<1> SUFFICES ASSUME Regs!Init PROVE Regs!IInv
  OBVIOUS
<1>1. PICK thr \in 1 .. RegsMaxThreshold :
        v1 = [thr |-> thr, acc |-> 0, en |-> 1, cnt |-> 0, rx |-> 0, lock |-> FALSE]
  BY DEF Regs!Init
<1>2. v4 = [row |-> 0, step |-> 1, orig |-> 0, bad |-> FALSE, fails |-> 0] /\ v5 = "none"
  BY DEF Regs!Init, Regs!Off
<1>3. v4.row = 0 /\ v4.step = 1 /\ v4.bad = FALSE /\ v4.fails = 0
  BY <1>2
<1>4. v1.thr = thr /\ v1.en = 1 /\ v1.lock = FALSE /\ DOMAIN v1 = Regs!Fields /\ thr \in Nat
  BY <1>1, RegsSizes DEF Regs!Fields
<1>5. Regs!TypeOK
  BY <1>2, <1>3, <1>4 DEF Regs!TypeOK, Regs!Off
<1>6. Regs!Sound /\ Regs!FailedBy
  BY <1>3, <1>4 DEF Regs!Sound, Regs!FailedBy, Regs!Trying
<1> QED
  BY <1>2, <1>3, <1>5, <1>6 DEF Regs!IInv

LEMMA RegsSame == ASSUME Regs!IInv, UNCHANGED <<v1, v3, v4, v5>> PROVE Regs!IInv'
BY DEF Regs!IInv, Regs!TypeOK, Regs!Sound, Regs!Trying, Regs!FailedBy, Regs!row

(* Traffic moves credits and packets only. *)
LEMMA RegsTraffic ==
    ASSUME Regs!IInv, UNCHANGED <<v3, v4, v5>>,
           DOMAIN v1' = DOMAIN v1, v1'.thr = v1.thr, v1'.en = v1.en, v1'.lock = v1.lock
    PROVE  Regs!IInv'
BY DEF Regs!IInv, Regs!TypeOK, Regs!Sound, Regs!Trying, Regs!FailedBy, Regs!row

(* A row ends: what it changed is back, and it failed if it misbehaves. *)
LEMMA RowEnds ==
    ASSUME Regs!IInv, v5 = "none", UNCHANGED <<v3, v5>>, NEW ok \in BOOLEAN, Regs!emit(ok),
           v4.row \in 1 .. 9, v4.row \in RegRows /\ Regs!INVENTORY[v4.row].name = v3 => ~ok,
           DOMAIN v1' = DOMAIN v1, v1'.lock = FALSE, v1'.en = 1, v1'.thr \in 1 .. RegsMaxThreshold
    PROVE  Regs!IInv'
<1>1. v4' = [[row |-> 0, step |-> 1, orig |-> 0, bad |-> FALSE, fails |-> 0]
               EXCEPT !.row = v4.row + 1, !.fails = IF ok THEN v4.fails ELSE 1]
  BY DEF Regs!emit, Regs!Off
<1>2. v4'.row = v4.row + 1 /\ v4'.step = 1 /\ v4'.bad = FALSE /\ v4'.fails = (IF ok THEN v4.fails ELSE 1)
      /\ DOMAIN v4' = DOMAIN Regs!Off
  BY <1>1 DEF Regs!Off
<1>3. v4.row \in 1 .. 9 /\ v4.fails \in {0, 1} /\ RegsMaxThreshold \in Nat
  BY RegsSizes DEF Regs!IInv, Regs!TypeOK
<1>4. Regs!TypeOK'
  <2>1. DOMAIN v4' = DOMAIN Regs!Off' /\ DOMAIN v1' = Regs!Fields'
    BY <1>2 DEF Regs!IInv, Regs!TypeOK, Regs!Off, Regs!Fields
  <2>2. v4'.bad \in BOOLEAN
    BY <1>2
  <2>3. v4'.row \in 0 .. 10 /\ v4'.step \in 1 .. 4 /\ v4'.fails \in {0, 1} /\ v1'.thr \in Nat /\ v1'.en \in {0, 1}
    BY <1>2, <1>3
  <2> QED
    BY <2>1, <2>2, <2>3 DEF Regs!IInv, Regs!TypeOK
<1>5. Regs!Sound'
  BY <1>2 DEF Regs!Sound, Regs!Trying
<1>6. \A k \in RegRows : Regs!INVENTORY[k].name = v3 /\ v4.row > k => v4.fails = 1
  BY RegsFailed DEF Regs!IInv
<1>7. \A k \in RegRows : Regs!INVENTORY[k].name = v3' /\ v4'.row > k => v4'.fails = 1
  BY <1>2, <1>3, <1>6 DEF RegRows
<1>8. Regs!FailedBy'
  BY <1>7, RegsSwept DEF Regs!FailedBy, RegRows, Regs!INVENTORY, Regs!Swept
<1> QED
  BY <1>2, <1>4, <1>5, <1>8 DEF Regs!IInv

LEMMA RowSaves == ASSUME Regs!IInv, Regs!RwSave PROVE Regs!IInv'
<1>1. v4.row \in 1 .. 9 /\ v4.step = 1 /\ UNCHANGED <<v1, v3, v5>>
  BY RegsRows DEF Regs!RwSave, Regs!finished, Regs!IInv, Regs!TypeOK
<1>2. v4.row \in {2, 8}
  BY <1>1, RegsRows DEF Regs!RwSave, Regs!row
<1>3. v4' = [v4 EXCEPT !.orig = Regs!read(v1, Regs!row.name), !.step = 2]
  BY DEF Regs!RwSave
<1>4. /\ v4'.row = v4.row /\ v4'.step = 2 /\ v4'.bad = v4.bad /\ v4'.fails = v4.fails
      /\ DOMAIN v4' = DOMAIN v4 /\ v4'.orig = Regs!read(v1, Regs!row.name)
  BY <1>3 DEF Regs!IInv, Regs!TypeOK, Regs!Off, Regs!Fields
<1>5. v5 = "none"
  BY <1>2 DEF Regs!IInv, Regs!TypeOK
<1>6. v4.row = 2 => v4'.orig = v1.thr
  BY <1>4, RegsRows DEF Regs!read, Regs!row
<1>7. v4.row = 8 => v4'.orig = v1.en
  BY <1>4, RegsRows DEF Regs!read, Regs!row
<1>8. v1.thr \in 1 .. RegsMaxThreshold /\ v1.en = 1
  BY <1>1, <1>5 DEF Regs!IInv, Regs!Sound, Regs!Trying
<1>9. Regs!TypeOK'
  BY <1>1, <1>4 DEF Regs!IInv, Regs!TypeOK
<1>10. Regs!Sound'
  BY <1>1, <1>2, <1>4, <1>6, <1>7, <1>8 DEF Regs!Sound, Regs!Trying
<1>11. Regs!FailedBy'
  BY <1>1, <1>4, <1>5 DEF Regs!IInv, Regs!FailedBy
<1> QED
  BY <1>1, <1>2, <1>4, <1>5, <1>9, <1>10, <1>11 DEF Regs!IInv

(* A write reaches the register of its row, unless the row misbehaves. *)
LEMMA RowWrite ==
    ASSUME Regs!IInv, NEW v, v4.row \in {2, 8}
    PROVE  LET w == Regs!write(Regs!row.name, v)
           IN  /\ Regs!row.name = v3 => w = v1
               /\ v4.row = 2 /\ Regs!row.name # v3 => w = [v1 EXCEPT !.thr = v]
               /\ v4.row = 8 /\ Regs!row.name # v3 => w = [v1 EXCEPT !.en = Regs!wmask("PAIR_CREDIT_COUNTER_EN", v)]
               /\ v4.row = 2 => Regs!read(w, Regs!row.name) = w.thr
               /\ v4.row = 8 => Regs!read(w, Regs!row.name) = w.en
<1>1. (v1.lock) = FALSE
  BY DEF Regs!IInv, Regs!TypeOK
<1>2. CASE v4.row = 2
  <2>1. Regs!row.name = "RELEASE_THRESHOLD"
    BY <1>2, RegsRows DEF Regs!row
  <2>2. CASE v3 = "RELEASE_THRESHOLD"
    BY <1>2, <2>1, <2>2 DEF Regs!write, Regs!read
  <2>3. CASE v3 # "RELEASE_THRESHOLD"
    <3>1. Regs!write("RELEASE_THRESHOLD", v) = IF v1.lock THEN v1 ELSE [v1 EXCEPT !.thr = v]
      BY <2>3 DEF Regs!write
    <3>2. Regs!write("RELEASE_THRESHOLD", v) = [v1 EXCEPT !.thr = v]
      BY <3>1, <1>1, Zenon
    <3> QED
      BY <1>2, <2>1, <2>3, <3>2 DEF Regs!read
  <2> QED
    BY <2>2, <2>3
<1>3. CASE v4.row = 8
  <2>1. Regs!row.name = "PAIR_CREDIT_COUNTER_EN"
    BY <1>3, RegsRows DEF Regs!row
  <2>2. CASE v3 = "PAIR_CREDIT_COUNTER_EN"
    BY <1>3, <2>1, <2>2 DEF Regs!write, Regs!read
  <2>3. CASE v3 # "PAIR_CREDIT_COUNTER_EN"
    <3>1. Regs!write("PAIR_CREDIT_COUNTER_EN", v) = [v1 EXCEPT !.en = Regs!wmask("PAIR_CREDIT_COUNTER_EN", v)]
      BY <2>3 DEF Regs!write
    <3> QED
      BY <1>3, <2>1, <2>3, <3>1 DEF Regs!read
  <2> QED
    BY <2>2, <2>3
<1> QED
  BY <1>2, <1>3

LEMMA RowPattern == ASSUME Regs!IInv, Regs!RwPattern PROVE Regs!IInv'
<1> DEFINE v == Regs!wmask(Regs!row.name, Regs!RW_PATTERNS[v4.step - 1])
           ok == Regs!read(v1', Regs!row.name) = v
<1>1. v4.row \in 1 .. 9 /\ v4.step \in 2 .. 3 /\ UNCHANGED <<v3, v5>>
  BY RegsRows DEF Regs!RwPattern, Regs!finished, Regs!IInv, Regs!TypeOK
<1>2. v4.row \in {2, 8} /\ v5 = "none"
  BY <1>1, RegsRows DEF Regs!RwPattern, Regs!row, Regs!IInv, Regs!TypeOK
<1>3. v1' = Regs!write(Regs!row.name, v)
  BY DEF Regs!RwPattern
<1>4. v4' = [v4 EXCEPT !.bad = @ \/ ~ok, !.step = IF ~ok THEN 4 ELSE @ + 1]
  BY DEF Regs!RwPattern
<1>5. v \in Nat /\ (v4.row = 8 => v \in {0, 1}) /\ (v4.step = 2 => v # 0) /\ (v4.step = 3 => v = 0)
      /\ (v4.row = 8 => Regs!wmask("PAIR_CREDIT_COUNTER_EN", v) = v)
  BY <1>1, <1>2, RegsRows DEF Regs!wmask, Regs!RW_PATTERNS, Regs!row
<1>6. ok \in BOOLEAN
  OBVIOUS
<1>7. /\ Regs!row.name = v3 => v1' = v1
      /\ v4.row = 2 /\ Regs!row.name # v3 => v1' = [v1 EXCEPT !.thr = v]
      /\ v4.row = 8 /\ Regs!row.name # v3 => v1' = [v1 EXCEPT !.en = v]
      /\ v4.row = 2 => Regs!read(v1', Regs!row.name) = v1'.thr
      /\ v4.row = 8 => Regs!read(v1', Regs!row.name) = v1'.en
  <2> HIDE DEF v
  <2>1. LET w == Regs!write(Regs!row.name, v)
        IN  /\ Regs!row.name = v3 => w = v1
            /\ v4.row = 2 /\ Regs!row.name # v3 => w = [v1 EXCEPT !.thr = v]
            /\ v4.row = 8 /\ Regs!row.name # v3 => w = [v1 EXCEPT !.en = Regs!wmask("PAIR_CREDIT_COUNTER_EN", v)]
            /\ v4.row = 2 => Regs!read(w, Regs!row.name) = w.thr
            /\ v4.row = 8 => Regs!read(w, Regs!row.name) = w.en
    BY <1>2, RowWrite
  <2> QED
    BY <1>3, <1>5, <2>1
<1> HIDE DEF v
<1>8. v4.row = 2 => (ok <=> v1'.thr = v)
  BY <1>7
<1>9. v4.row = 8 => (ok <=> v1'.en = v)
  BY <1>7
<1> HIDE DEF ok
<1>10. /\ DOMAIN v4' = DOMAIN v4 /\ v4'.row = v4.row /\ v4'.orig = v4.orig /\ v4'.fails = v4.fails
       /\ v4'.bad = (v4.bad \/ ~ok) /\ v4'.step = IF ok THEN v4.step + 1 ELSE 4
  BY <1>4, <1>6 DEF Regs!IInv, Regs!TypeOK, Regs!Off, Regs!Fields
<1>11. v4'.bad \in BOOLEAN /\ v4'.step \in 3 .. 4
  BY <1>1, <1>6, <1>10 DEF Regs!IInv, Regs!TypeOK
<1>12. /\ DOMAIN v1' = DOMAIN v1 /\ v1'.lock = v1.lock
       /\ v4.row = 2 => v1'.en = v1.en /\ v1'.thr = IF Regs!row.name = v3 THEN v1.thr ELSE v
       /\ v4.row = 8 => v1'.thr = v1.thr /\ v1'.en = IF Regs!row.name = v3 THEN v1.en ELSE v
  BY <1>2, <1>7 DEF Regs!IInv, Regs!TypeOK, Regs!Fields
<1>13. Regs!TypeOK'
  BY <1>1, <1>2, <1>5, <1>10, <1>11, <1>12 DEF Regs!IInv, Regs!TypeOK
<1>14. /\ IF v4.row = 2 THEN v4.orig \in 1 .. RegsMaxThreshold ELSE v1.thr \in 1 .. RegsMaxThreshold
       /\ IF v4.row = 8 THEN v4.orig = 1 ELSE v1.en = 1
       /\ v4.row = 2 /\ v3 = "RELEASE_THRESHOLD" => v1.thr = v4.orig
       /\ v4.row = 8 /\ v3 = "PAIR_CREDIT_COUNTER_EN" => v1.en = 1
  BY <1>1, <1>2 DEF Regs!IInv, Regs!Sound, Regs!Trying
<1>15. v4.row = 2 => Regs!row.name = "RELEASE_THRESHOLD"
  BY RegsRows DEF Regs!row
<1>16. v4.row = 8 => Regs!row.name = "PAIR_CREDIT_COUNTER_EN"
  BY RegsRows DEF Regs!row
<1>17. Regs!row' = Regs!row
  BY <1>10 DEF Regs!row, Regs!INVENTORY
<1>18. Regs!row.name = v3 /\ v4'.step = 4 => v4'.bad
  <2>1. CASE ~ok
    BY <2>1, <1>10
  <2>2. CASE ok /\ v4.row = 2 /\ Regs!row.name = v3
    <3>1. v = v4.orig /\ v # 0
      BY <2>2, <1>8, <1>12, <1>14, <1>15, RegsSizes
    <3> QED
      BY <2>2, <3>1, <1>1, <1>5, <1>10
  <2>3. CASE ok /\ v4.row = 8 /\ Regs!row.name = v3
    <3>1. v = 1
      BY <2>3, <1>9, <1>12, <1>14, <1>16
    <3> QED
      BY <2>3, <3>1, <1>1, <1>5, <1>10
  <2> QED
    BY <2>1, <2>2, <2>3, <1>2, <1>6
<1>19. Regs!Sound'
  BY <1>1, <1>2, <1>10, <1>11, <1>12, <1>14, <1>15, <1>16, <1>17, <1>18 DEF Regs!Sound, Regs!Trying
<1>20. Regs!FailedBy'
  BY <1>1, <1>2, <1>10 DEF Regs!IInv, Regs!FailedBy
<1> QED
  BY <1>1, <1>2, <1>10, <1>13, <1>19, <1>20 DEF Regs!IInv

LEMMA RowRestores == ASSUME Regs!IInv, Regs!RwRestore PROVE Regs!IInv'
<1> DEFINE ok == ~v4.bad /\ Regs!read(v1', Regs!row.name) = v4.orig
<1>1. v4.row \in 1 .. 9 /\ v4.step = 4 /\ UNCHANGED <<v3, v5>>
  BY RegsRows DEF Regs!RwRestore, Regs!finished, Regs!IInv, Regs!TypeOK
<1>2. v4.row \in {2, 8} /\ v5 = "none"
  BY <1>1, RegsRows DEF Regs!RwRestore, Regs!row, Regs!IInv, Regs!TypeOK
<1>3. v1' = Regs!write(Regs!row.name, v4.orig) /\ Regs!emit(ok)
  BY DEF Regs!RwRestore
<1>4. /\ Regs!row.name = v3 => v1' = v1
      /\ v4.row = 2 /\ Regs!row.name # v3 => v1' = [v1 EXCEPT !.thr = v4.orig]
      /\ v4.row = 8 /\ Regs!row.name # v3 => v1' = [v1 EXCEPT !.en = Regs!wmask("PAIR_CREDIT_COUNTER_EN", v4.orig)]
  BY <1>2, <1>3, RowWrite
<1>5. /\ IF v4.row = 2 THEN v4.orig \in 1 .. RegsMaxThreshold ELSE v1.thr \in 1 .. RegsMaxThreshold
      /\ IF v4.row = 8 THEN v4.orig = 1 ELSE v1.en = 1
      /\ v4.row = 2 /\ v3 = "RELEASE_THRESHOLD" => v1.thr = v4.orig
      /\ v4.row = 8 /\ v3 = "PAIR_CREDIT_COUNTER_EN" => v1.en = 1
      /\ Regs!row.name = v3 => v4.bad
  BY <1>1, <1>2 DEF Regs!IInv, Regs!Sound, Regs!Trying
<1>6. /\ v4.row = 2 => Regs!row.name = "RELEASE_THRESHOLD"
      /\ v4.row = 8 => Regs!row.name = "PAIR_CREDIT_COUNTER_EN"
      /\ Regs!row = Regs!INVENTORY[v4.row]
  BY RegsRows DEF Regs!row
<1>7. Regs!wmask("PAIR_CREDIT_COUNTER_EN", 1) = 1
  BY DEF Regs!wmask
<1>8. DOMAIN v1 = Regs!Fields /\ v1.lock = FALSE
  BY DEF Regs!IInv, Regs!TypeOK
<1>9. DOMAIN v1' = DOMAIN v1 /\ v1'.lock = FALSE /\ v1'.en = 1 /\ v1'.thr \in 1 .. RegsMaxThreshold
  <2>1. CASE v4.row = 2
    BY <2>1, <1>4, <1>5, <1>6, <1>8 DEF Regs!Fields
  <2>2. CASE v4.row = 8
    BY <2>2, <1>4, <1>5, <1>6, <1>7, <1>8 DEF Regs!Fields
  <2> QED
    BY <2>1, <2>2, <1>2
<1>10. ok \in BOOLEAN /\ (Regs!INVENTORY[v4.row].name = v3 => ~ok)
  BY <1>5, <1>6 DEF Regs!IInv, Regs!TypeOK
<1> HIDE DEF ok
<1> QED
  BY <1>1, <1>2, <1>3, <1>9, <1>10, RowEnds

LEMMA RowPlain ==
    ASSUME Regs!IInv, Regs!Skip \/ Regs!Ro \/ Regs!IdOrMark \/ Regs!W1p
    PROVE  Regs!IInv'
<1>1. v4.row \in 1 .. 9 /\ UNCHANGED <<v3, v5>>
  <2>1. v4.row > 0 /\ ~(v4.row > 9) /\ UNCHANGED <<v3, v5>>
    BY RegsRows DEF Regs!Skip, Regs!Ro, Regs!IdOrMark, Regs!W1p, Regs!finished
  <2> QED
    BY <2>1 DEF Regs!IInv, Regs!TypeOK
<1>2. v5 = "none"
  BY <1>1 DEF Regs!IInv, Regs!TypeOK
<1>3. v4.row \notin {2, 8}
  BY <1>1, RegsRows DEF Regs!Skip, Regs!Ro, Regs!IdOrMark, Regs!W1p, Regs!row
<1>4. v4.step = 1 /\ v1.en = 1 /\ v1.thr \in 1 .. RegsMaxThreshold /\ v1.lock = FALSE
  BY <1>2, <1>3 DEF Regs!IInv, Regs!TypeOK, Regs!Sound, Regs!Trying
<1>5. DOMAIN v1' = DOMAIN v1 /\ v1'.lock = FALSE /\ v1'.en = 1 /\ v1'.thr = v1.thr
  <2>1. CASE Regs!W1p
    <3>1. ("lock" \in Regs!pulse) = FALSE
      BY DEF Regs!pulse
    <3>2. v1' = [v1 EXCEPT !.rx = 0, !.acc = 0, !.lock = @ \/ "lock" \in Regs!pulse]
      BY <2>1 DEF Regs!W1p
    <3>3. v1' = [v1 EXCEPT !.rx = 0, !.acc = 0, !.lock = FALSE]
      BY <3>1, <3>2, <1>4, Zenon
    <3> QED
      BY <3>3, <1>4 DEF Regs!IInv, Regs!TypeOK, Regs!Fields
  <2>2. CASE ~Regs!W1p
    BY <2>2, <1>4 DEF Regs!Skip, Regs!Ro, Regs!IdOrMark
  <2> QED
    BY <2>1, <2>2
<1>6. PICK ok \in BOOLEAN : Regs!emit(ok) /\ (v4.row \in RegRows /\ Regs!INVENTORY[v4.row].name = v3 => ~ok)
  <2>1. CASE Regs!Skip
    <3>1. v4.row \notin RegRows /\ Regs!emit(TRUE)
      BY <2>1, <1>1, RegsRows DEF Regs!Skip, Regs!row
    <3> QED
      BY <3>1
  <2>2. CASE ~Regs!Skip
    <3>1. CASE ~Regs!Ro
      <4>1. Regs!emit(Regs!row.name # v3) /\ Regs!row = Regs!INVENTORY[v4.row]
        BY <2>2, <3>1 DEF Regs!IdOrMark, Regs!W1p, Regs!row
      <4> QED
        BY <4>1
    <3>2. CASE Regs!Ro
      <4> DEFINE ok == ~(Regs!shown(Regs!row.name, 0) = 9 /\ 0 # 9)
      <4>1. Regs!emit(ok) /\ Regs!row = Regs!INVENTORY[v4.row]
        BY <3>2 DEF Regs!Ro, Regs!row
      <4>2. Regs!row.name = v3 => ~ok
        BY DEF Regs!shown
      <4>3. ok \in BOOLEAN
        OBVIOUS
      <4> HIDE DEF ok
      <4> QED
        BY <4>1, <4>2, <4>3
    <3> QED
      BY <3>1, <3>2
  <2> QED
    BY <2>1, <2>2
<1> QED
  BY <1>1, <1>2, <1>4, <1>5, <1>6, RowEnds

LEMMA SweepOpens == ASSUME Regs!IInv, Regs!Start PROVE Regs!IInv'
<1>1. v4.row = 0 /\ v5 = "none" /\ UNCHANGED <<v1, v3, v5>>
  BY DEF Regs!Start
<1>2. v4' = [[row |-> 0, step |-> 1, orig |-> 0, bad |-> FALSE, fails |-> 0] EXCEPT !.row = 1]
  BY DEF Regs!Start, Regs!Off
<1>3. v4'.row = 1 /\ v4'.step = 1 /\ v4'.bad = FALSE /\ v4'.fails = 0 /\ DOMAIN v4' = DOMAIN Regs!Off
  BY <1>2 DEF Regs!Off
<1>4. Regs!TypeOK'
  <2>1. DOMAIN v4' = DOMAIN Regs!Off' /\ DOMAIN v1' = Regs!Fields'
    BY <1>1, <1>3 DEF Regs!IInv, Regs!TypeOK, Regs!Off, Regs!Fields
  <2>2. v4'.bad \in BOOLEAN
    BY <1>3
  <2>3. v4'.row \in 0 .. 10 /\ v4'.step \in 1 .. 4 /\ v4'.fails \in {0, 1}
    BY <1>3
  <2> QED
    BY <1>1, <2>1, <2>2, <2>3 DEF Regs!IInv, Regs!TypeOK
<1>5. v1.en = 1 /\ v1.thr \in 1 .. RegsMaxThreshold
  BY <1>1 DEF Regs!IInv, Regs!TypeOK, Regs!Sound, Regs!Trying
<1>6. Regs!Sound'
  BY <1>1, <1>3, <1>5 DEF Regs!Sound, Regs!Trying
<1>7. Regs!FailedBy'
  BY <1>3, RegsSwept DEF Regs!FailedBy, RegRows, Regs!Swept, Regs!INVENTORY
<1> QED
  BY <1>1, <1>3, <1>4, <1>6, <1>7 DEF Regs!IInv

LEMMA RegsStep == ASSUME Regs!IInv, Regs!Next PROVE Regs!IInv'
<1>1. CASE Regs!Drain \/ Regs!Release \/ Regs!Arrive \/ Regs!Credit
  <2>1. UNCHANGED <<v3, v4, v5>>
    BY <1>1 DEF Regs!Drain, Regs!Release, Regs!Arrive, Regs!Credit
  <2>2. DOMAIN v1' = DOMAIN v1 /\ v1'.thr = v1.thr /\ v1'.en = v1.en /\ v1'.lock = v1.lock
    BY <1>1 DEF Regs!Drain, Regs!Release, Regs!Arrive, Regs!Credit, Regs!IInv, Regs!TypeOK, Regs!Fields
  <2> QED
    BY <2>1, <2>2, RegsTraffic
<1>2. CASE Regs!Verdict
  <2>1. v5' \in {"PASS", "FAIL"} /\ (v5' = "PASS" => v4.fails = 0) /\ v5 = "none" /\ UNCHANGED <<v1, v3, v4>>
    BY <1>2 DEF Regs!Verdict
  <2>2. v4.row = 10
    BY <1>2, RegsRows DEF Regs!Verdict, Regs!finished, Regs!IInv, Regs!TypeOK
  <2> QED
    BY <2>1, <2>2 DEF Regs!IInv, Regs!TypeOK, Regs!Sound, Regs!Trying, Regs!FailedBy, Regs!row
<1>3. CASE Regs!WedgeTimeout
  <2>1. v5' = "WEDGE" /\ UNCHANGED <<v1, v3>>
    BY <1>3 DEF Regs!WedgeTimeout
  <2>2. v4' = [[row |-> 0, step |-> 1, orig |-> 0, bad |-> FALSE, fails |-> 0] EXCEPT !.row = 10]
    BY <1>3, RegsRows DEF Regs!WedgeTimeout, Regs!Off
  <2>3. v4'.row = 10 /\ v4'.step = 1 /\ v4'.bad = FALSE /\ v4'.fails = 0 /\ DOMAIN v4' = DOMAIN Regs!Off
    BY <2>2 DEF Regs!Off
  <2> QED
    <3>1. DOMAIN v4' = DOMAIN Regs!Off' /\ DOMAIN v1' = Regs!Fields'
      BY <2>1, <2>3 DEF Regs!IInv, Regs!TypeOK, Regs!Off, Regs!Fields
    <3>2. v4'.bad \in BOOLEAN
      BY <2>3
    <3>3. v4'.row \in 0 .. 10 /\ v4'.step \in 1 .. 4 /\ v4'.fails \in {0, 1}
      BY <2>3
    <3> QED
      BY <2>1, <2>3, <3>1, <3>2, <3>3 DEF Regs!IInv, Regs!TypeOK
<1> QED
  BY <1>1, <1>2, <1>3, SweepOpens, RowPlain, RowSaves, RowPattern, RowRestores DEF Regs!Next

LEMMA RegsHarmless == Regs!IInv => Regs!PassIsHarmless
<1> SUFFICES ASSUME Regs!IInv, v5 = "PASS" PROVE Regs!PassIsHarmless
  BY DEF Regs!PassIsHarmless
<1>1. v4.row = 10 /\ v4.fails = 0 /\ v1.lock = FALSE /\ Regs!Sound /\ Regs!FailedBy
  BY DEF Regs!IInv, Regs!TypeOK
<1>2. v1.en = 1 /\ v1.thr \in 1 .. RegsMaxThreshold
  BY <1>1 DEF Regs!Sound, Regs!Trying
<1>3. \A k \in RegRows : Regs!INVENTORY[k].name # v3
  BY <1>1, RegsFailed DEF RegRows
<1>4. v3 \notin {r.name : r \in Regs!Swept}
  BY <1>3, RegsSwept
<1> QED
  BY <1>1, <1>2, <1>4 DEF Regs!PassIsHarmless

-----------------------------------------------------------------------------
(* The weekend campaign and the reliability sweep *)

LEMMA CycleStarts == ASSUME Campaign!Init PROVE Campaign!CycleInv
BY DEF Campaign!Init, Campaign!CycleInv, Campaign!ResetOf, Campaign!Boards

LEMMA CycleSame == ASSUME Campaign!CycleInv, UNCHANGED <<v1, v2, v5>>, (~v3 => ~v3') PROVE Campaign!CycleInv'
BY DEF Campaign!CycleInv, Campaign!ResetOf, Campaign!Boards

(* A row ends the cycle. *)
LEMMA FinishEnds ==
    ASSUME NEW v, NEW b, NEW f, Campaign!finish(v, b, f)
    PROVE  v5' \in {"por1", "end"}
BY DEF Campaign!finish

LEMMA CyclePor ==
    ASSUME Campaign!CycleInv, NEW b \in Campaign!Boards, Campaign!Por(b)
    PROVE  Campaign!CycleInv'
<1> USE DEF Campaign!Boards
<1>1. v1' = v1
  BY DEF Campaign!Por
<1>2. \/ v2' = [v2 EXCEPT ![b] = [up |-> TRUE, fresh |-> TRUE, por |-> "ok"]] /\ v3' = FALSE
      \/ \E e \in {"park", "fail"} : /\ v2' = [v2 EXCEPT ![b].por = e] /\ v3' = v3
                                     /\ e = "fail" => v1 = "sweep"
  BY DEF Campaign!Por
<1>3. /\ DOMAIN v2' = {1, 2}
      /\ \A c \in {1, 2} : DOMAIN v2'[c] = {"up", "fresh", "por"}
      /\ \A c \in {1, 2} : c # b => v2'[c] = v2[c]
      /\ v2'[b].por = "ok" => v2'[b].fresh /\ ~v3'
      /\ v1 # "sweep" => v2'[b].por \in {"ok", "park"}
      /\ ~v3 => ~v3'
  BY <1>2 DEF Campaign!CycleInv
<1>4. \/ b = 1 /\ v5 = "por1" /\ v5' = "por2"
      \/ b = 2 /\ v5 = "por2" /\ v5' = "porboth"
      \/ v5' \in {"rpor2", "rporboth"}
  BY DEF Campaign!Por
<1>5. CASE b = 1 /\ v5 = "por1" /\ v5' = "por2"
  BY <1>1, <1>3, <1>5 DEF Campaign!CycleInv, Campaign!ResetOf
<1>6. CASE b = 2 /\ v5 = "por2" /\ v5' = "porboth"
  BY <1>1, <1>3, <1>6 DEF Campaign!CycleInv, Campaign!ResetOf
<1>7. CASE v5' \in {"rpor2", "rporboth"}
  BY <1>1, <1>3, <1>7 DEF Campaign!CycleInv
<1> QED
  BY <1>4, <1>5, <1>6, <1>7

(* A step after which the cycle is neither being reset nor brought up.     *)
LEMMA CycleOn ==
    ASSUME Campaign!CycleInv,
           DOMAIN v2' = Campaign!Boards,
           \A b \in Campaign!Boards : DOMAIN v2'[b] = {"up", "fresh", "por"},
           v5' \notin {"deploy", "por2", "porboth", "bringup"}
    PROVE  Campaign!CycleInv'
BY DEF Campaign!CycleInv, Campaign!Boards

LEMMA CycleStep == ASSUME Campaign!CycleInv, Campaign!Next PROVE Campaign!CycleInv'
<1> USE DEF Campaign!Boards
<1>0. v2' = v2 => /\ DOMAIN v2' = {1, 2}
                  /\ \A b \in {1, 2} : DOMAIN v2'[b] = {"up", "fresh", "por"}
  BY DEF Campaign!CycleInv
<1>1. CASE \E b \in Campaign!Boards : Campaign!Por(b)
  BY <1>1, CyclePor
<1>2. CASE Campaign!WeekendPor
  <2>1. /\ v1' = v1 /\ v1 = "weekend" /\ v2' = v2
        /\ v5' \in {"end", "por1"} \/ (v5 = "porboth" /\ v5' = "deploy" /\ Campaign!Parked # {1, 2})
    BY <1>2 DEF Campaign!WeekendPor
  <2>2. CASE v5' \in {"end", "por1"}
    BY <2>1, <2>2, <1>0, CycleOn
  <2>3. CASE v5 = "porboth" /\ v5' = "deploy" /\ Campaign!Parked # {1, 2}
    <3>1. \E b \in {1, 2} : v2[b].fresh
      BY <2>1, <2>3 DEF Campaign!CycleInv, Campaign!ResetOf, Campaign!Parked
    <3> QED
      BY <2>1, <2>3, <3>1, <1>0 DEF Campaign!CycleInv
  <2> QED
    BY <2>1, <2>2, <2>3
<1>3. CASE Campaign!SweepPor
  <2>1. v1' = v1 /\ v2' = v2 /\ v3' = v3 /\ v1 = "sweep" /\ v5 = "porboth"
    BY <1>3 DEF Campaign!SweepPor
  <2>2. v5' \in {"end", "por1"} \/ (v5' = "bringup" /\ Campaign!por_ok)
    BY <1>3, FinishEnds DEF Campaign!SweepPor
  <2>3. CASE v5' \in {"end", "por1"}
    BY <2>1, <2>3, <1>0, CycleOn
  <2>4. CASE v5' = "bringup" /\ Campaign!por_ok
    BY <2>1, <2>4, <1>0 DEF Campaign!CycleInv, Campaign!ResetOf, Campaign!por_ok
  <2> QED
    BY <2>2, <2>3, <2>4
<1>4. CASE Campaign!Deploy
  <2>1. /\ v1' = v1 /\ v2' = v2 /\ v5 = "deploy"
        /\ v5' = "rpor1" \/ (v5' = "bringup" /\ v3' = FALSE)
    BY <1>4 DEF Campaign!Deploy, Campaign!NoConverge
  <2> QED
    BY <2>1, <1>0 DEF Campaign!CycleInv
<1>5. CASE Campaign!BringUp
  <2>1. v2' = [b \in {1, 2} |-> [v2[b] EXCEPT !.fresh = FALSE]]
    BY <1>5 DEF Campaign!BringUp
  <2>2. v5' \in {"check", "rpor1", "end", "por1"}
    BY <1>5, FinishEnds DEF Campaign!BringUp, Campaign!NoConverge
  <2>3. DOMAIN v2' = {1, 2} /\ \A b \in {1, 2} : DOMAIN v2'[b] = {"up", "fresh", "por"}
    BY <2>1 DEF Campaign!CycleInv
  <2> QED
    BY <2>2, <2>3, CycleOn
<1>6. CASE Campaign!LinkDrop
  BY <1>6, CycleSame DEF Campaign!LinkDrop
<1>7. CASE Campaign!LinkCheck
  <2>1. v2' = v2 /\ v5' \in {"arm", "write", "por1", "end"}
    BY <1>7, FinishEnds DEF Campaign!LinkCheck
  <2> QED
    BY <2>1, <1>0, CycleOn
<1>8. CASE Campaign!ArmCam
  <2>1. v5' \in {"write", "wedge"} /\ v2' \in {v2, [v2 EXCEPT ![Campaign!sender].up = FALSE]}
    BY <1>8 DEF Campaign!ArmCam
  <2>2. DOMAIN v2' = {1, 2} /\ \A b \in {1, 2} : DOMAIN v2'[b] = {"up", "fresh", "por"}
    BY <2>1 DEF Campaign!CycleInv
  <2> QED
    BY <2>1, <2>2, CycleOn
<1>9. CASE Campaign!Write
  <2>1. v5' \in {"verify", "wedge", "por1", "end"} /\ v2' \in {v2, [v2 EXCEPT ![Campaign!sender].up = FALSE]}
    BY <1>9, FinishEnds DEF Campaign!Write
  <2>2. DOMAIN v2' = {1, 2} /\ \A b \in {1, 2} : DOMAIN v2'[b] = {"up", "fresh", "por"}
    BY <2>1 DEF Campaign!CycleInv
  <2> QED
    BY <2>1, <2>2, CycleOn
<1>10. CASE Campaign!Verify
  <2>1. v2' = v2
    BY <1>10 DEF Campaign!Verify
  <2>2. v5' \in {"record", "wedge", "por1", "end"}
    BY <1>10, FinishEnds DEF Campaign!Verify
  <2> QED
    BY <2>1, <2>2, <1>0, CycleOn
<1>11. CASE Campaign!Record
  <2>1. v5' \in {"probe", "arm", "write"} /\ v2' \in {v2} \cup {[v2 EXCEPT ![b].up = FALSE] : b \in {1, 2}}
    BY <1>11 DEF Campaign!Record
  <2>2. DOMAIN v2' = {1, 2} /\ \A b \in {1, 2} : DOMAIN v2'[b] = {"up", "fresh", "por"}
    BY <2>1 DEF Campaign!CycleInv
  <2> QED
    BY <2>1, <2>2, CycleOn
<1>12. CASE Campaign!Probe
  <2>1. v2' = v2 /\ v5' \in {"wedge", "por1", "end"}
    BY <1>12, FinishEnds DEF Campaign!Probe
  <2> QED
    BY <2>1, <1>0, CycleOn
<1>13. CASE Campaign!OnWedge
  <2>1. v5' \in {"por1", "end"}
    BY <1>13, FinishEnds DEF Campaign!OnWedge
  <2>2. v2' \in {v2, [v2 EXCEPT ![Campaign!sender] = [up |-> TRUE, fresh |-> TRUE, por |-> "ok"]],
                 [v2 EXCEPT ![Campaign!sender].por = "park"]}
    BY <1>13 DEF Campaign!OnWedge
  <2>3. DOMAIN v2' = {1, 2} /\ \A b \in {1, 2} : DOMAIN v2'[b] = {"up", "fresh", "por"}
    BY <2>2 DEF Campaign!CycleInv
  <2> QED
    BY <2>1, <2>3, CycleOn
<1>14. CASE Campaign!Gate
  BY <1>14, CycleSame DEF Campaign!Gate
<1> QED
  BY <1>1, <1>2, <1>3, <1>4, <1>5, <1>6, <1>7, <1>8, <1>9, <1>10, <1>11, <1>12, <1>13, <1>14 DEF Campaign!Next

LEMMA CycleIsFresh == ASSUME Campaign!CycleInv PROVE Campaign!CyclesAreFresh
BY DEF Campaign!CycleInv, Campaign!CyclesAreFresh

-----------------------------------------------------------------------------
(* The transfers between the dies *)

(* Every beat lands in the SRAM. *)
LEMMA BeatLands == ASSUME NEW i \in Nat PROVE Xfer!beat(i) \in 0..(XferFold - 1)
<1>1. XferFold \div 2 \in Nat
  BY XferSizes
<1>2. i % XferWin \in Nat
  BY XferSizes
<1> QED
  BY <1>1, <1>2, XferSizes DEF Xfer!beat, Xfer!LANDED

LEMMA LandedIsWord == Xfer!LANDED \in 0..(XferFold - 1)
BY XferSizes DEF Xfer!LANDED

(* A word that both write belongs to the later beat. *)
LEMMA LastBeat ==
    ASSUME NEW H \in SUBSET Nat, NEW G \in SUBSET Nat, G # {}, 0 \notin G, H = G \/ H = G \cup {0}
    PROVE  (CHOOSE i \in H : \A j \in H : j <= i) = (CHOOSE i \in G : \A j \in G : j <= i)
<1>1. \A i : (i \in H /\ \A j \in H : j <= i) <=> (i \in G /\ \A j \in G : j <= i)
  <2> SUFFICES ASSUME NEW i
               PROVE  (i \in H /\ \A j \in H : j <= i) <=> (i \in G /\ \A j \in G : j <= i)
    OBVIOUS
  <2>1. ASSUME i \in H, \A j \in H : j <= i
        PROVE  i \in G /\ \A j \in G : j <= i
    <3>1. PICK g \in G : g \in Nat /\ g # 0
      OBVIOUS
    <3>2. G \subseteq H /\ g \in H
      OBVIOUS
    <3>3. i \in Nat /\ g <= i
      BY <2>1, <3>2
    <3>4. i # 0
      BY <3>1, <3>3
    <3> QED
      BY <2>1, <3>2, <3>4
  <2>2. ASSUME i \in G, \A j \in G : j <= i
        PROVE  i \in H /\ \A j \in H : j <= i
    <3>1. i \in Nat /\ 0 <= i
      BY <2>2
    <3>2. \A j \in H : j \in G \/ j = 0
      OBVIOUS
    <3> QED
      BY <2>2, <3>1, <3>2
  <2> QED
    BY <2>1, <2>2
<1> QED
  BY <1>1

LEMMA SoakLands ==
    ASSUME NEW m
    PROVE  LET e == Xfer!final_values("soak", 0..(XferIters - 1))
               l == Xfer!Landed(m, "soak", 0..(XferIters - 1), {})
           IN  \A w \in DOMAIN e : l[w] = e[w]
<1> DEFINE B == 0..(XferIters - 1)
<1>1. B \ {} = B /\ B \subseteq Nat
  BY XferSizes
<1> HIDE DEF B
<1>2. ASSUME NEW w \in {Xfer!beat(i) : i \in B}
      PROVE  Xfer!Landed(m, "soak", B, {})[w] = Xfer!final_values("soak", B)[w]
  <2>1. w \in 0..(XferFold - 1)
    BY <1>1, <1>2, BeatLands
  <2>2. {i \in B : Xfer!beat(i) = w} # {}
    BY <1>2
  <2>3. {i \in B \ {} : Xfer!beat(i) = w} = {i \in B : Xfer!beat(i) = w}
    BY <1>1
  <2> QED
    BY <2>1, <2>2, <2>3, <1>2 DEF Xfer!Landed, Xfer!final_values
<1>3. DOMAIN Xfer!final_values("soak", B) = {Xfer!beat(i) : i \in B}
  BY DEF Xfer!final_values
<1> QED
  BY <1>2, <1>3 DEF B

LEMMA InjectLands ==
    ASSUME NEW m, NEW lose \in SUBSET {0}
    PROVE  LET e == Xfer!final_values("inject", 1..XferStream)
               l == Xfer!Landed(m, "inject", 0..XferStream, lose)
           IN  \A w \in DOMAIN e : l[w] = e[w]
<1> DEFINE B == 1..XferStream
           A == (0..XferStream) \ lose
<1>1. B \subseteq Nat /\ A \subseteq Nat /\ 0 \notin B /\ (A = B \/ A = B \cup {0})
  BY XferSizes
<1>2. ASSUME NEW w \in {Xfer!beat(i) : i \in B}
      PROVE  Xfer!Landed(m, "inject", 0..XferStream, lose)[w] = Xfer!final_values("inject", B)[w]
  <2> DEFINE H == {i \in A : Xfer!beat(i) = w}
             G == {i \in B : Xfer!beat(i) = w}
  <2>1. w \in 0..(XferFold - 1)
    BY <1>1, <1>2, BeatLands
  <2>2. H \in SUBSET Nat /\ G \in SUBSET Nat /\ G # {} /\ 0 \notin G /\ (H = G \/ H = G \cup {0})
    BY <1>1, <1>2
  <2>3. (CHOOSE i \in H : \A j \in H : j <= i) = (CHOOSE i \in G : \A j \in G : j <= i)
    <3> HIDE DEF H, G
    <3> QED
      BY <2>2, LastBeat, Zenon
  <2>4. Xfer!Landed(m, "inject", 0..XferStream, lose)[w] = <<"inject", CHOOSE i \in H : \A j \in H : j <= i>>
    BY <2>1, <2>2 DEF Xfer!Landed
  <2>5. Xfer!final_values("inject", B)[w] = <<"inject", CHOOSE i \in G : \A j \in G : j <= i>>
    BY <1>2 DEF Xfer!final_values
  <2> QED
    BY <2>3, <2>4, <2>5
<1>3. DOMAIN Xfer!final_values("inject", B) = {Xfer!beat(i) : i \in B}
  BY DEF Xfer!final_values
<1> QED
  BY <1>2, <1>3

(* The two last offsets fold onto the two first. *)
LEMMA OffsetsFold ==
    /\ Xfer!Fold(Xfer!BoundaryOffs[1]) = 0 /\ Xfer!Fold(Xfer!BoundaryOffs[2]) = XferFold - 1
    /\ Xfer!Fold(Xfer!BoundaryOffs[3]) = 0 /\ Xfer!Fold(Xfer!BoundaryOffs[4]) = XferFold - 1
<1>1. 0 % XferFold = 0 /\ (XferFold - 1) % XferFold = XferFold - 1
  BY XferSizes
<1>2. XferFold % XferFold = 0
  BY XferSizes
<1>3. (4 * XferFold - 1) % XferFold = XferFold - 1
  BY XferSizes
<1> QED
  BY <1>1, <1>2, <1>3 DEF Xfer!Fold, Xfer!BoundaryOffs

LEMMA BoundaryLands ==
    ASSUME NEW m
    PROVE  /\ Xfer!BoundaryMem(m, 4)[0] = <<"boundary", 3>>
           /\ Xfer!BoundaryMem(m, 4)[XferFold - 1] = <<"boundary", 4>>
<1> DEFINE At(w) == {k \in 1..4 : Xfer!Fold(Xfer!BoundaryOffs[k]) = w}
<1>1. 0 \in 0..(XferFold - 1) /\ XferFold - 1 \in 0..(XferFold - 1) /\ XferFold - 1 # 0
  BY XferSizes
<1>2. 1..4 = {1, 2, 3, 4}
  OBVIOUS
<1>3. At(0) = {1, 3} /\ At(XferFold - 1) = {2, 4}
  BY <1>1, <1>2, OffsetsFold
<1>4. \A w \in 0..(XferFold - 1) : At(w) # {} =>
         Xfer!BoundaryMem(m, 4)[w] = <<"boundary", CHOOSE k \in At(w) : \A j \in At(w) : j <= k>>
  BY DEF Xfer!BoundaryMem
<1>5. (CHOOSE k \in {1, 3} : \A j \in {1, 3} : j <= k) = 3 /\ (CHOOSE k \in {2, 4} : \A j \in {2, 4} : j <= k) = 4
  OBVIOUS
<1> HIDE DEF At
<1> QED
  BY <1>1, <1>3, <1>4, <1>5

-----------------------------------------------------------------------------
LEMMA OwedStarts == ASSUME Xfer!Init PROVE Xfer!OwedInv
BY DEF Xfer!Init, Xfer!FreshBoard, Xfer!OwedInv, Xfer!Earned, Xfer!Dies

LEMMA EarnedSame ==
    ASSUME NEW d, Xfer!Earned(d), v2'[d] = v2[d], v3'[d] = v3[d], v6'[d] = v6[d]
    PROVE  Xfer!Earned(d)'
BY DEF Xfer!Earned, Xfer!LANDED, Xfer!Matches, Xfer!final_values, Xfer!beat

LEMMA OwedSame == ASSUME Xfer!OwedInv, UNCHANGED <<v2, v3, v6>> PROVE Xfer!OwedInv'
<1>1. \A d \in Xfer!Dies : Xfer!Earned(d)'
  BY EarnedSame DEF Xfer!OwedInv
<1> QED
  BY <1>1 DEF Xfer!OwedInv, Xfer!Dies

(* What a sender does is done to its peer. *)
LEMMA OwedStep ==
    ASSUME Xfer!OwedInv, NEW d \in Xfer!Dies,
           DOMAIN v2' = Xfer!Dies, DOMAIN v3' = Xfer!Dies, DOMAIN v6' = Xfer!Dies,
           v2'[d] = v2[d], v3'[d] = v3[d], v6'[d] = v6[d],
           DOMAIN v2'[Xfer!peer[d]] = 0..(XferFold - 1),
           Xfer!Earned(Xfer!peer[d])'
    PROVE  Xfer!OwedInv'
<1>1. \A e \in Xfer!Dies : e = d \/ e = Xfer!peer[d]
  BY DEF Xfer!Dies, Xfer!peer
<1>2. Xfer!Earned(d)'
  <2>1. Xfer!Earned(d)
    BY DEF Xfer!OwedInv
  <2> QED
    BY <2>1, EarnedSame
<1>3. DOMAIN v2'[d] = 0..(XferFold - 1)
  BY DEF Xfer!OwedInv
<1>4. \A e \in Xfer!Dies : Xfer!Earned(e)'
  <2> TAKE e \in Xfer!Dies
  <2>1. CASE e = d
    BY <1>2, <2>1
  <2>2. CASE e = Xfer!peer[d]
    BY <2>2
  <2> QED
    BY <1>1, <2>1, <2>2
<1>5. \A e \in Xfer!Dies : DOMAIN v2'[e] = 0..(XferFold - 1)
  BY <1>1, <1>3
<1> QED
  BY <1>4, <1>5 DEF Xfer!OwedInv, Xfer!Dies

Owings == {"none", "recv", "mbox_recv", "soak_recv", "decerr_verify", "boundary_verify", "errinject_verify"}

LEMMA PeerIsDie == \A d \in Xfer!Dies : Xfer!peer[d] \in Xfer!Dies /\ Xfer!peer[d] # d
BY DEF Xfer!Dies, Xfer!peer

(* A lost word, or one whose sender stopped early, is owed nothing. *)
LEMMA NothingOwed == ASSUME NEW d, v6'[d] = "none" PROVE Xfer!Earned(d)'
BY DEF Xfer!Earned

LEMMA EarnsWhat ==
    ASSUME Xfer!OwedInv, NEW d \in Xfer!Dies, NEW mode, NEW lose, Xfer!Earns(d, mode, lose)
    PROVE  /\ DOMAIN v6' = Xfer!Dies /\ v6'[d] = v6[d]
           /\ lose = {} => v6'[Xfer!peer[d]] = mode
           /\ lose # {} => v6'[Xfer!peer[d]] = "none"
BY PeerIsDie DEF Xfer!OwedInv, Xfer!Earns

LEMMA WordSent == ASSUME Xfer!OwedInv, NEW d \in Xfer!Dies, Xfer!do_sender(d) PROVE Xfer!OwedInv'
<1>1. CASE UNCHANGED <<v2, v3, v6>>
  BY <1>1, OwedSame
<1>2. CASE Xfer!_require_link
  <2> DEFINE p == Xfer!peer[d]
  <2>1. PICK lose \in SUBSET {0} :
          /\ v2' = [v2 EXCEPT ![p][Xfer!LANDED] = IF lose = {} THEN <<"word", 0>> ELSE @]
          /\ Xfer!Earns(d, "recv", lose) /\ v3' = v3
    BY <1>2 DEF Xfer!do_sender
  <2>2. p \in Xfer!Dies /\ p # d
    BY PeerIsDie
  <2>3. DOMAIN v2 = Xfer!Dies /\ DOMAIN v3 = Xfer!Dies /\ DOMAIN v2[p] = 0..(XferFold - 1)
    BY <2>2 DEF Xfer!OwedInv
  <2> HIDE DEF p
  <2>4. /\ DOMAIN v2' = Xfer!Dies /\ v2'[d] = v2[d] /\ DOMAIN v2'[p] = 0..(XferFold - 1)
        /\ lose = {} => v2'[p][Xfer!LANDED] = <<"word", 0>>
    BY <2>1, <2>2, <2>3, LandedIsWord
  <2>5. /\ DOMAIN v6' = Xfer!Dies /\ v6'[d] = v6[d]
        /\ lose = {} => v6'[p] = "recv"
        /\ lose # {} => v6'[p] = "none"
    BY <2>1, EarnsWhat DEF p
  <2>6. Xfer!Earned(p)'
    <3>1. CASE lose = {}
      BY <3>1, <2>4, <2>5 DEF Xfer!Earned, Xfer!LANDED
    <3>2. CASE lose # {}
      BY <3>2, <2>5, NothingOwed
    <3> QED
      BY <3>1, <3>2
  <2> QED
    BY <2>1, <2>3, <2>4, <2>5, <2>6, OwedStep DEF p
<1> QED
  BY <1>1, <1>2 DEF Xfer!do_sender, Xfer!Refuses, Xfer!board

LEMMA SentinelSent == ASSUME Xfer!OwedInv, NEW d \in Xfer!Dies, Xfer!do_decerr(d) PROVE Xfer!OwedInv'
<1>1. CASE UNCHANGED <<v2, v3, v6>>
  BY <1>1, OwedSame
<1>2. CASE Xfer!_require_link /\ Xfer!gate_or_ladder
  <2> DEFINE p == Xfer!peer[d]
  <2>1. PICK lose \in SUBSET {0} :
          /\ v2' = [v2 EXCEPT ![p][Xfer!LANDED] = IF lose = {} THEN <<"sentinel", 0>> ELSE @]
          /\ Xfer!Earns(d, "decerr_verify", lose) /\ v3' = v3
    BY <1>2 DEF Xfer!do_decerr
  <2>2. p \in Xfer!Dies /\ p # d
    BY PeerIsDie
  <2>3. DOMAIN v2 = Xfer!Dies /\ DOMAIN v3 = Xfer!Dies /\ DOMAIN v2[p] = 0..(XferFold - 1)
    BY <2>2 DEF Xfer!OwedInv
  <2> HIDE DEF p
  <2>4. /\ DOMAIN v2' = Xfer!Dies /\ v2'[d] = v2[d] /\ DOMAIN v2'[p] = 0..(XferFold - 1)
        /\ lose = {} => v2'[p][Xfer!LANDED] = <<"sentinel", 0>>
    BY <2>1, <2>2, <2>3, LandedIsWord
  <2>5. /\ DOMAIN v6' = Xfer!Dies /\ v6'[d] = v6[d]
        /\ lose = {} => v6'[p] = "decerr_verify"
        /\ lose # {} => v6'[p] = "none"
    BY <2>1, EarnsWhat DEF p
  <2>6. Xfer!Earned(p)'
    <3>1. CASE lose = {}
      BY <3>1, <2>4, <2>5 DEF Xfer!Earned, Xfer!LANDED
    <3>2. CASE lose # {}
      BY <3>2, <2>5, NothingOwed
    <3> QED
      BY <3>1, <3>2
  <2> QED
    BY <2>1, <2>3, <2>4, <2>5, <2>6, OwedStep DEF p
<1> QED
  BY <1>1, <1>2 DEF Xfer!do_decerr, Xfer!Refuses, Xfer!board

LEMMA SlotSent == ASSUME Xfer!OwedInv, NEW d \in Xfer!Dies, Xfer!do_mbox_send(d) PROVE Xfer!OwedInv'
<1>1. CASE UNCHANGED <<v2, v3, v6>>
  BY <1>1, OwedSame
<1>2. CASE Xfer!_require_link
  <2> DEFINE p == Xfer!peer[d]
  <2>1. PICK lose \in SUBSET {0} :
          /\ v3' = IF lose = {} THEN [v3 EXCEPT ![p] = [data |-> <<"word", 0>>, valid |-> TRUE]] ELSE v3
          /\ Xfer!Earns(d, "mbox_recv", lose) /\ v2' = v2
    BY <1>2 DEF Xfer!do_mbox_send
  <2>2. p \in Xfer!Dies /\ p # d
    BY PeerIsDie
  <2>3. DOMAIN v2 = Xfer!Dies /\ DOMAIN v3 = Xfer!Dies /\ DOMAIN v2[p] = 0..(XferFold - 1)
    BY <2>2 DEF Xfer!OwedInv
  <2> HIDE DEF p
  <2>4. /\ DOMAIN v3' = Xfer!Dies /\ v3'[d] = v3[d]
        /\ lose = {} => v3'[p].valid /\ v3'[p].data = <<"word", 0>>
    BY <2>1, <2>2, <2>3
  <2>5. /\ DOMAIN v6' = Xfer!Dies /\ v6'[d] = v6[d]
        /\ lose = {} => v6'[p] = "mbox_recv"
        /\ lose # {} => v6'[p] = "none"
    BY <2>1, EarnsWhat DEF p
  <2>6. Xfer!Earned(p)'
    <3>1. CASE lose = {}
      BY <3>1, <2>4, <2>5 DEF Xfer!Earned
    <3>2. CASE lose # {}
      BY <3>2, <2>5, NothingOwed
    <3> QED
      BY <3>1, <3>2
  <2> QED
    BY <2>1, <2>3, <2>4, <2>5, <2>6, OwedStep DEF p
<1> QED
  BY <1>1, <1>2 DEF Xfer!do_mbox_send, Xfer!Refuses, Xfer!board

(* A stream that is written to the peer. *)
LEMMA StreamSent ==
    ASSUME Xfer!OwedInv, NEW d \in Xfer!Dies, NEW m, NEW mode, NEW lose,
           v2' = [v2 EXCEPT ![Xfer!peer[d]] = m], DOMAIN m = 0..(XferFold - 1), v3' = v3,
           Xfer!Earns(d, mode, lose),
           v6'[Xfer!peer[d]] = mode /\ v2'[Xfer!peer[d]] = m /\ lose = {} => Xfer!Earned(Xfer!peer[d])'
    PROVE  Xfer!OwedInv'
<1> DEFINE p == Xfer!peer[d]
<1>2. p \in Xfer!Dies /\ p # d
  BY PeerIsDie
<1>3. DOMAIN v2 = Xfer!Dies /\ DOMAIN v3 = Xfer!Dies
  BY DEF Xfer!OwedInv
<1>5. /\ DOMAIN v6' = Xfer!Dies /\ v6'[d] = v6[d]
      /\ lose = {} => v6'[p] = mode
      /\ lose # {} => v6'[p] = "none"
  BY EarnsWhat
<1> HIDE DEF p
<1>4. DOMAIN v2' = Xfer!Dies /\ v2'[d] = v2[d] /\ v2'[p] = m
  BY <1>2, <1>3 DEF p
<1>6. Xfer!Earned(p)'
  <2>1. CASE lose = {}
    BY <2>1, <1>4, <1>5 DEF p
  <2>2. CASE lose # {}
    BY <2>2, <1>5, NothingOwed
  <2> QED
    BY <2>1, <2>2
<1> QED
  BY <1>3, <1>4, <1>5, <1>6, OwedStep DEF p

LEMMA SoakSent ==
    ASSUME Xfer!OwedInv, NEW d \in Xfer!Dies, NEW adversarial \in BOOLEAN, Xfer!do_soak(d, adversarial)
    PROVE  Xfer!OwedInv'
<1>1. CASE UNCHANGED <<v2, v3, v6>>
  BY <1>1, OwedSame
<1>2. CASE ~UNCHANGED <<v2, v3, v6>>
  <2> DEFINE p == Xfer!peer[d]
             k == IF adversarial THEN "soak" ELSE "count"
  <2>1. PICK n \in 1..XferIters, lose \in SUBSET (0..(XferIters - 1)) :
          /\ v2' = [v2 EXCEPT ![p] = Xfer!Landed(@, k, 0..(n - 1), lose)]
          /\ Xfer!Earns(d, "soak_recv", IF adversarial /\ n = XferIters THEN lose ELSE {0})
          /\ v3' = v3
    BY <1>2 DEF Xfer!do_soak, Xfer!Refuses, Xfer!board
  <2> DEFINE m == Xfer!Landed(v2[p], k, 0..(n - 1), lose)
             l == IF adversarial /\ n = XferIters THEN lose ELSE {0}
  <2>2. DOMAIN m = 0..(XferFold - 1)
    BY DEF Xfer!Landed
  <2>3. ASSUME v6'[p] = "soak_recv", v2'[p] = m, l = {} PROVE Xfer!Earned(p)'
    <3>1. n = XferIters /\ lose = {} /\ k = "soak"
      BY <2>3
    <3>2. \A w \in DOMAIN Xfer!final_values("soak", 0..(XferIters - 1)) :
             v2'[p][w] = Xfer!final_values("soak", 0..(XferIters - 1))[w]
      BY <3>1, <2>3, SoakLands
    <3>3. Xfer!Matches(p, Xfer!final_values("soak", 0..(XferIters - 1)))'
      BY <3>2 DEF Xfer!Matches, Xfer!final_values, Xfer!beat, Xfer!LANDED
    <3> QED
      BY <3>3, <2>3 DEF Xfer!Earned
  <2>4. v2' = [v2 EXCEPT ![p] = m] /\ Xfer!Earns(d, "soak_recv", l) /\ v3' = v3
    BY <2>1
  <2> HIDE DEF m, l
  <2> QED
    BY <2>2, <2>3, <2>4, StreamSent
<1> QED
  BY <1>1, <1>2

LEMMA BoundarySent == ASSUME Xfer!OwedInv, NEW d \in Xfer!Dies, Xfer!do_boundary(d) PROVE Xfer!OwedInv'
<1>1. CASE UNCHANGED <<v2, v3, v6>>
  BY <1>1, OwedSame
<1>2. CASE ~UNCHANGED <<v2, v3, v6>>
  <2> DEFINE p == Xfer!peer[d]
  <2>1. PICK n \in 1..4 :
          /\ v2' = [v2 EXCEPT ![p] = Xfer!BoundaryMem(@, n)]
          /\ Xfer!Earns(d, "boundary_verify", IF n = 4 THEN {} ELSE {0})
          /\ v3' = v3
    BY <1>2 DEF Xfer!do_boundary, Xfer!Refuses, Xfer!board
  <2> DEFINE m == Xfer!BoundaryMem(v2[p], n)
             l == IF n = 4 THEN {} ELSE {0}
  <2>2. DOMAIN m = 0..(XferFold - 1)
    BY DEF Xfer!BoundaryMem
  <2>3. ASSUME v6'[p] = "boundary_verify", v2'[p] = m, l = {} PROVE Xfer!Earned(p)'
    <3>1. n = 4
      BY <2>3
    <3>2. v2'[p][0] = <<"boundary", 3>> /\ v2'[p][XferFold - 1] = <<"boundary", 4>>
      BY <3>1, <2>3, BoundaryLands
    <3> QED
      BY <3>2, <2>3 DEF Xfer!Earned
  <2>4. v2' = [v2 EXCEPT ![p] = m] /\ Xfer!Earns(d, "boundary_verify", l) /\ v3' = v3
    BY <2>1
  <2> HIDE DEF m, l
  <2> QED
    BY <2>2, <2>3, <2>4, StreamSent
<1> QED
  BY <1>1, <1>2

LEMMA InjectSent == ASSUME Xfer!OwedInv, NEW d \in Xfer!Dies, Xfer!do_errinject(d) PROVE Xfer!OwedInv'
<1>1. CASE UNCHANGED <<v2, v3, v6>>
  BY <1>1, OwedSame
<1>2. CASE ~UNCHANGED <<v2, v3, v6>>
  <2> DEFINE p == Xfer!peer[d]
  <2>1. PICK n \in 0..XferStream, lose \in SUBSET {0} :
          /\ v2' = [v2 EXCEPT ![p] = Xfer!Landed(@, "inject", 0..n, lose)]
          /\ Xfer!Earns(d, "errinject_verify", IF n = XferStream THEN {} ELSE {0})
          /\ v3' = v3
    BY <1>2 DEF Xfer!do_errinject, Xfer!Refuses, Xfer!board
  <2> DEFINE m == Xfer!Landed(v2[p], "inject", 0..n, lose)
             l == IF n = XferStream THEN {} ELSE {0}
  <2>2. DOMAIN m = 0..(XferFold - 1)
    BY DEF Xfer!Landed
  <2>3. ASSUME v6'[p] = "errinject_verify", v2'[p] = m, l = {} PROVE Xfer!Earned(p)'
    <3>1. n = XferStream
      BY <2>3
    <3>2. \A w \in DOMAIN Xfer!final_values("inject", 1..XferStream) :
             v2'[p][w] = Xfer!final_values("inject", 1..XferStream)[w]
      BY <3>1, <2>3, InjectLands
    <3>3. Xfer!Matches(p, Xfer!final_values("inject", 1..XferStream))'
      BY <3>2 DEF Xfer!Matches, Xfer!final_values, Xfer!beat, Xfer!LANDED
    <3> QED
      BY <3>3, <2>3 DEF Xfer!Earned
  <2>4. v2' = [v2 EXCEPT ![p] = m] /\ Xfer!Earns(d, "errinject_verify", l) /\ v3' = v3
    BY <2>1
  <2> HIDE DEF m, l
  <2> QED
    BY <2>2, <2>3, <2>4, StreamSent
<1> QED
  BY <1>1, <1>2

LEMMA TransferStep == ASSUME Xfer!OwedInv, Xfer!Next PROVE Xfer!OwedInv'
<1>1. ASSUME NEW d \in Xfer!Dies, Xfer!Send(d) PROVE Xfer!OwedInv'
  <2>1. CASE Xfer!do_sender(d)
    BY <2>1, WordSent
  <2>2. CASE Xfer!do_mbox_send(d)
    BY <2>2, SlotSent
  <2>3. CASE \E adversarial \in BOOLEAN : Xfer!do_soak(d, adversarial)
    BY <2>3, SoakSent
  <2>4. CASE Xfer!do_decerr(d)
    BY <2>4, SentinelSent
  <2>5. CASE Xfer!do_boundary(d)
    BY <2>5, BoundarySent
  <2>6. CASE Xfer!do_errinject(d)
    BY <2>6, InjectSent
  <2>7. CASE Xfer!do_readback(d) \/ Xfer!do_dbg_halt(d) \/ Xfer!do_dbg_resume(d)
    BY <2>7, OwedSame DEF Xfer!do_readback, Xfer!do_dbg_halt, Xfer!do_dbg_resume, Xfer!Refuses, Xfer!board
  <2> QED
    BY <1>1, <2>1, <2>2, <2>3, <2>4, <2>5, <2>6, <2>7 DEF Xfer!Send
<1>2. ASSUME NEW d \in Xfer!Dies, Xfer!Check(d) PROVE Xfer!OwedInv'
  <2>1. UNCHANGED <<v2, v3, v6>>
    BY <1>2 DEF Xfer!Check, Xfer!do_recv, Xfer!do_mbox_recv, Xfer!do_soak_recv, Xfer!do_fc_health,
       Xfer!do_decerr_verify, Xfer!do_boundary_verify, Xfer!do_errinject_verify, Xfer!Verify, Xfer!board
  <2> QED
    BY <2>1, OwedSame
<1>3. XferSenders \subseteq Xfer!Dies
  BY XferSizes DEF Xfer!Dies
<1> QED
  BY <1>1, <1>2, <1>3 DEF Xfer!Next

(* Each process reports under its own name. *)
LEMMA SendReports ==
    ASSUME NEW d, Xfer!Send(d)
    PROVE  v5'.mode \in {"sender", "readback", "mbox_send", "soak", "decerr", "boundary", "errinject", "dbg_halt",
                         "dbg_resume"}
<1> USE DEF Xfer!Refuses, Xfer!Exit
<1>1. CASE Xfer!do_sender(d)
  <2>1. \E rc : Xfer!Exit("sender", d, rc)
    BY <1>1, Zenon DEF Xfer!do_sender
  <2> QED
    BY <2>1
<1>2. CASE Xfer!do_readback(d)
  BY <1>2 DEF Xfer!do_readback
<1>3. CASE Xfer!do_mbox_send(d)
  BY <1>3 DEF Xfer!do_mbox_send
<1>4. CASE \E adversarial \in BOOLEAN : Xfer!do_soak(d, adversarial)
  BY <1>4 DEF Xfer!do_soak
<1>5. CASE Xfer!do_decerr(d)
  <2>1. \E rc : Xfer!Exit("decerr", d, rc)
    BY <1>5, Zenon DEF Xfer!do_decerr
  <2> QED
    BY <2>1
<1>6. CASE Xfer!do_boundary(d)
  BY <1>6 DEF Xfer!do_boundary
<1>7. CASE Xfer!do_errinject(d)
  BY <1>7 DEF Xfer!do_errinject
<1>8. CASE Xfer!do_dbg_halt(d)
  BY <1>8 DEF Xfer!do_dbg_halt
<1>9. CASE Xfer!do_dbg_resume(d)
  BY <1>9 DEF Xfer!do_dbg_resume
<1> QED
  BY <1>1, <1>2, <1>3, <1>4, <1>5, <1>6, <1>7, <1>8, <1>9 DEF Xfer!Send

LEMMA VerifierPasses == ASSUME Xfer!OwedInv, Xfer!Next PROVE Xfer!VerifierAgrees
<1> SUFFICES ASSUME NEW d \in Xfer!Dies, v5'.die = d, v5'.mode = v6[d]
             PROVE  v5'.rc = 0
  BY DEF Xfer!VerifierAgrees
<1>1. Xfer!Earned(d)
  BY DEF Xfer!OwedInv
<1>2. v6[d] \in Owings
  BY <1>1 DEF Xfer!Earned, Owings
<1>3. ASSUME NEW e, Xfer!Send(e) PROVE FALSE
  BY <1>2, <1>3, SendReports DEF Owings
<1>4. ASSUME NEW e \in Xfer!Dies, Xfer!Check(e) PROVE v5'.rc = 0
  <2> USE DEF Xfer!Verify, Xfer!Exit
  <2>1. CASE Xfer!do_recv(e)
    BY <1>1, <2>1 DEF Xfer!do_recv, Xfer!Earned
  <2>2. CASE Xfer!do_mbox_recv(e)
    BY <1>1, <2>2 DEF Xfer!do_mbox_recv, Xfer!Earned
  <2>3. CASE Xfer!do_soak_recv(e)
    BY <1>1, <2>3 DEF Xfer!do_soak_recv, Xfer!Earned
  <2>4. CASE Xfer!do_fc_health(e)
    BY <1>2, <2>4 DEF Xfer!do_fc_health, Owings
  <2>5. CASE Xfer!do_decerr_verify(e)
    BY <1>1, <2>5 DEF Xfer!do_decerr_verify, Xfer!Earned
  <2>6. CASE Xfer!do_boundary_verify(e)
    BY <1>1, <2>6 DEF Xfer!do_boundary_verify, Xfer!Earned
  <2>7. CASE Xfer!do_errinject_verify(e)
    BY <1>1, <2>7 DEF Xfer!do_errinject_verify, Xfer!Earned
  <2> QED
    BY <1>4, <2>1, <2>2, <2>3, <2>4, <2>5, <2>6, <2>7 DEF Xfer!Check
<1> QED
  BY <1>3, <1>4 DEF Xfer!Next

-----------------------------------------------------------------------------
(* The sum of the tools *)

(* Whichever tool runs, its invariant holds. *)
BoardInv ==
    /\ which = "sysval" => SysVal!IInv
    /\ which = "regress" => Regress!IInv
    /\ which = "stress" => Stress!IInv /\ Stress!CleanInv
    /\ which = "bringup" => BringUp!IInv
    /\ which = "crc" => Crc!IInv
    /\ which = "eye" => Eye!IInv
    /\ which = "modes" => Modes!IInv /\ Modes!CleanInv
    /\ which = "asic" => Asic!IInv
    /\ which = "pair" => Pair!IInv
    /\ which = "mailbox" => Irq!IInv
    /\ which = "observe" => Irq!ObsInv
    /\ which = "chart" => Chart!IInv
    /\ which = "regs" => Regs!IInv
    /\ which = "xfer" => Xfer!OwedInv
    /\ which = "campaign" => Campaign!CycleInv

Proven ==
    {"sysval", "regress", "stress", "bringup", "crc", "eye", "modes", "asic", "pair", "mailbox", "observe", "chart",
     "regs", "xfer", "campaign"}

(* A step of the sum leaves which alone, and is one of that tool. *)
LEMMA SumStep ==
    ASSUME [Next]_all
    PROVE  /\ which' = which
           /\ \/ which \notin Proven
              \/ UNCHANGED <<v1, v2, v3, v4, v5, v6, v7, v8, v9, v10, v11, v12, v13, v14, v15, v16, v17, v18, v19,
                             v20, v21, v22>>
              \/ which = "sysval" /\ SysVal!Next
              \/ which = "regress" /\ Regress!RegressNext
              \/ which = "stress" /\ Stress!Next
              \/ which = "bringup" /\ BringUp!Next
              \/ which = "crc" /\ Crc!Next
              \/ which = "eye" /\ Eye!Next
              \/ which = "modes" /\ Modes!Next
              \/ which = "asic" /\ Asic!Next
              \/ which = "pair" /\ Pair!Next
              \/ which = "mailbox" /\ Irq!Mailbox
              \/ which = "observe" /\ Irq!Observe
              \/ which = "chart" /\ Chart!Next
              \/ which = "regs" /\ Regs!Next
              \/ which = "xfer" /\ Xfer!Next
              \/ which = "campaign" /\ Campaign!Next
<1>1. CASE UNCHANGED all
  BY <1>1 DEF all, Rest6, Rest7, Rest8, Rest9, Rest10, Rest11, Rest12, Rest13, Rest14, Rest15, Rest16, Rest17,
     Rest18, Rest19, Rest20, Rest21, Rest22
<1>2. CASE Next
  BY <1>2, Zenon DEF Next, Proven
<1> QED
  BY <1>1, <1>2

LEMMA SumStutters ==
    ASSUME BoardInv, which' = which,
           UNCHANGED <<v1, v2, v3, v4, v5, v6, v7, v8, v9, v10, v11, v12, v13, v14, v15, v16, v17, v18, v19,
                       v20, v21, v22>>
    PROVE  BoardInv'
<1>1. UNCHANGED Pair!vars /\ UNCHANGED Crc!vars /\ UNCHANGED BringUp!vars
  BY DEF Pair!vars, Crc!vars, BringUp!vars
<1>2. CASE which = "sysval"
  BY <1>2, SysSame DEF BoardInv
<1>3. CASE which = "regress"
  BY <1>3, RegressStutters DEF BoardInv
<1>4. CASE which = "stress"
  BY <1>4, StressSame, SuiteSame DEF BoardInv
<1>5. CASE which = "bringup"
  BY <1>1, <1>5, BringStutters DEF BoardInv
<1>6. CASE which = "crc"
  BY <1>1, <1>6, CrcStutters DEF BoardInv
<1>7. CASE which = "eye"
  BY <1>7, EyeSame DEF BoardInv
<1>8. CASE which = "modes"
  BY <1>8, ModesSame, CleanSame DEF BoardInv, CleanVars
<1>9. CASE which = "asic"
  BY <1>9, AsicSame DEF BoardInv
<1>10. CASE which = "pair"
  BY <1>1, <1>10, PairStutters DEF BoardInv
<1>11. CASE which \in {"mailbox", "observe"}
  BY <1>11, IrqSame, ObserveSame DEF BoardInv
<1>12. CASE which = "chart"
  BY <1>12, ChartSame DEF BoardInv
<1>13. CASE which = "regs"
  BY <1>13, RegsSame DEF BoardInv
<1>14. CASE which = "xfer"
  BY <1>14, OwedSame DEF BoardInv
<1>15. CASE which = "campaign"
  BY <1>15, CycleSame DEF BoardInv
<1>16. CASE which \notin Proven
  BY <1>16 DEF BoardInv, Proven
<1> QED
  BY <1>2, <1>3, <1>4, <1>5, <1>6, <1>7, <1>8, <1>9, <1>10, <1>11, <1>12, <1>13, <1>14, <1>15, <1>16 DEF Proven

LEMMA SumKeeps == ASSUME BoardInv, [Next]_all PROVE BoardInv'
<1>1. which' = which
  BY SumStep
<1>2. CASE which = "sysval" /\ SysVal!Next
  <2>1. v10' = v10
    BY <1>2 DEF SysVal!Next
  <2> QED
    BY <1>1, <1>2, <2>1, SysKeeps DEF BoardInv
<1>3. CASE which = "regress" /\ Regress!RegressNext
  BY <1>1, <1>3, RegressStep DEF BoardInv
<1>4. CASE which = "stress" /\ Stress!Next
  BY <1>1, <1>4, StressStep, SuiteStep DEF BoardInv
<1>5. CASE which = "bringup" /\ BringUp!Next
  BY <1>1, <1>5, BringStep DEF BoardInv
<1>6. CASE which = "crc" /\ Crc!Next
  BY <1>1, <1>6, CrcStep DEF BoardInv
<1>7. CASE which = "eye" /\ Eye!Next
  BY <1>1, <1>7, EyeStep DEF BoardInv
<1>8. CASE which = "modes" /\ Modes!Next
  BY <1>1, <1>8, ModesStep, CleanStep DEF BoardInv
<1>9. CASE which = "asic" /\ Asic!Next
  BY <1>1, <1>9, AsicStep DEF BoardInv
<1>10. CASE which = "pair" /\ Pair!Next
  BY <1>1, <1>10, PairStep DEF BoardInv
<1>11. CASE which = "mailbox" /\ Irq!Mailbox
  BY <1>1, <1>11, MailboxStep DEF BoardInv
<1>12. CASE which = "observe" /\ Irq!Observe
  BY <1>1, <1>12, ObserveStep DEF BoardInv
<1>13. CASE which = "chart" /\ Chart!Next
  BY <1>1, <1>13, ChartStep DEF BoardInv
<1>14. CASE which = "regs" /\ Regs!Next
  BY <1>1, <1>14, RegsStep DEF BoardInv
<1>15. CASE which = "xfer" /\ Xfer!Next
  BY <1>1, <1>15, TransferStep DEF BoardInv
<1>16. CASE which = "campaign" /\ Campaign!Next
  BY <1>1, <1>16, CycleStep DEF BoardInv
<1>17. CASE which \notin Proven
  BY <1>1, <1>17 DEF BoardInv, Proven
<1> QED
  BY <1>1, <1>2, <1>3, <1>4, <1>5, <1>6, <1>7, <1>8, <1>9, <1>10, <1>11, <1>12, <1>13, <1>14, <1>15, <1>16, <1>17,
     SumStep, SumStutters

(* Whichever tool drives the boards, and however its steps interleave with *)
(* the hardware's, its inductive invariant holds in every state.           *)
THEOREM BoardInvAlways == Spec => []BoardInv
<1>1. Init => BoardInv
  <2> SUFFICES ASSUME Init PROVE BoardInv
    OBVIOUS
  <2>1. /\ which = "sysval" => SysVal!Init
        /\ which = "regress" => Regress!RegressInit
        /\ which = "stress" => Stress!Init
        /\ which = "bringup" => BringUp!Init
        /\ which = "crc" => Crc!Init
        /\ which = "eye" => Eye!Init
        /\ which = "modes" => Modes!Init
        /\ which = "asic" => Asic!Init
        /\ which = "pair" => Pair!Init
        /\ which \in {"mailbox", "observe"} => Irq!Init
        /\ which = "chart" => Chart!Init
        /\ which = "regs" => Regs!Init
        /\ which = "xfer" => Xfer!Init
        /\ which = "campaign" => Campaign!Init
    BY DEF Init
  <2> QED
    BY <2>1, SysStarts, RegressStarts, StressStarts, BringStarts, CrcStarts, EyeStarts, ModesStarts, AsicStarts,
       PairStarts, IrqStarts, ObserveStarts, SuiteStarts, CleanStarts, ChartStarts, RegsStarts, OwedStarts,
       CycleStarts DEF BoardInv
<1>2. BoardInv /\ [Next]_all => BoardInv'
  BY SumKeeps
<1> QED
  BY <1>1, <1>2, PTL DEF Spec

(* Nothing is accepted about a link before this run has proved it:         *)
(* tl_pair_bringup reads an anchor and traffic of the try it accepts,      *)
(* eth_regress drives no data-plane test before its interlock passed and   *)
(* ends green only if every test of it passed, on words of its own if the  *)
(* boards were blank; the on-chip tools report a pair whose two dies have  *)
(* shaken hands.                                                           *)
THEOREM LinkProvenAlways == Spec => []LinkProven
<1>1. BoardInv => LinkProven
  <2>1. which = "bringup" /\ BoardInv => BringUp!AcceptIsCurrent /\ BringUp!TrafficProves
    BY DEF BoardInv, BringUp!IInv
  <2>2. which = "regress" /\ BoardInv => Regress!NoBlindTraffic /\ Regress!GreenIsWitnessed
    BY RegressGreen DEF BoardInv
  <2>3. which = "pair" /\ BoardInv => Pair!ProvenIsHandshaken /\ Pair!SmokedIsPair
    BY PairIsProven DEF BoardInv, Pair!IInv
  <2> QED
    BY <2>1, <2>2, <2>3 DEF LinkProven
<1> QED
  BY <1>1, BoardInvAlways, PTL

(* A tool that has ended leaves the link as it needs to be, however it was *)
(* cancelled and whatever it met: the eye sweep's sampling phase is the    *)
(* one it found, the CRC tests' error injection is locked again.           *)
THEOREM LinkLeftWholeAlways == Spec => []LinkLeftWhole
<1>1. BoardInv => LinkLeftWhole
  <2>1. which = "eye" /\ BoardInv => Eye!PhaseRestored
    BY DEF BoardInv, Eye!IInv
  <2>2. which = "crc" /\ BoardInv => Crc!Relocked
    BY CrcRelocked DEF BoardInv
  <2> QED
    BY <2>1, <2>2 DEF LinkLeftWhole
<1> QED
  BY <1>1, BoardInvAlways, PTL

(* What a tool writes down is about the run it names: the counts of the    *)
(* stress summary, the answer a suite takes from its peer's pipe, the rows *)
(* of the command line's eye, the word a mailbox probe reports, the tick   *)
(* of a line an interrupt observation reports.                             *)
THEOREM RecordsAreOwnAlways == Spec => []RecordsAreOwn
<1>1. BoardInv => RecordsAreOwn
  <2>1. which = "modes" /\ BoardInv => Modes!SummaryAccounts
    BY ModesAccounts DEF BoardInv
  <2>2. which = "stress" /\ BoardInv => Stress!AnswersMatch
    BY DEF BoardInv, Stress!IInv
  <2>3. which = "eye" /\ BoardInv => Eye!RowsSettled
    BY DEF BoardInv, Eye!IInv
  <2>4. /\ which = "mailbox" /\ BoardInv => Irq!RecvIsFresh
        /\ which = "observe" /\ BoardInv => Irq!ObservedIsReal
    BY DEF BoardInv, Irq!IInv, Irq!ObsInv
  <2> QED
    BY <2>1, <2>2, <2>3, <2>4 DEF RecordsAreOwn
<1> QED
  BY <1>1, BoardInvAlways, PTL

(* A verdict against the hardware has a cause there: kr260_sysval records  *)
(* no FAIL in a run that only lost connections before the board's marker,  *)
(* tests that fail by their options aside; the starvation probe's verdicts *)
(* and its recovery rest on what the nodes showed.                         *)
THEOREM FaultsAreRealAlways == Spec => []FaultsAreReal
<1>1. BoardInv => FaultsAreReal
  <2>1. which = "sysval" /\ BoardInv => SysVal!NetIsNotAFault
    BY SysNetIsNoFault DEF BoardInv
  <2>2. which = "asic" /\ BoardInv => Asic!VerdictIsWitnessed /\ Asic!RecoveryIsCarried
    BY AsicIsReal DEF BoardInv
  <2> QED
    BY <2>1, <2>2 DEF FaultsAreReal
<1> QED
  BY <1>1, BoardInvAlways, PTL

(* A green summary hides nothing: a stress suite that exits 0 ran and      *)
(* passed every selected test and left both dies at the full lane mask, a  *)
(* packet or doorbell run counted as passed lost nothing unless residue    *)
(* was there to stand in for it, a TideChart pass means one root, and a    *)
(* register sweep that passes leaves the die configured as it was, with no *)
(* row at fault in the way it was tried for.                               *)
THEOREM GreenIsCleanAlways == Spec => []GreenIsClean
<1>1. BoardInv => GreenIsClean
  <2>1. which = "stress" /\ BoardInv => Stress!GreenIsClean
    BY DEF BoardInv, Stress!CleanInv
  <2>2. which = "modes" /\ BoardInv => Modes!PassIsClean
    BY DEF BoardInv, Modes!CleanInv
  <2>3. which = "chart" /\ BoardInv => Chart!ToolsAgree /\ Chart!PassIsOneRoot
    BY ChartAgrees DEF BoardInv
  <2>4. which = "regs" /\ BoardInv => Regs!PassIsHarmless
    BY RegsHarmless DEF BoardInv
  <2> QED
    BY <2>1, <2>2, <2>3, <2>4 DEF GreenIsClean
<1> QED
  BY <1>1, BoardInvAlways, PTL

(* A step that judges judges what it should: no campaign brings up a live  *)
(* link, kr260_reliability_sweep only boards that are both reset in this   *)
(* cycle, the weekend driver at least one; and a verifier of kr260_eth_xfer *)
(* passes whenever its own sender's words all arrived and no other sender  *)
(* has run since (soak_recv those of the adversarial soak), for every size *)
(* of the streams and of the SRAM they wrap in.                            *)
THEOREM StepsAreFreshAlways == Spec => StepsAreFresh
<1> DEFINE Judges == /\ which = "campaign" => Campaign!CyclesAreFresh
                     /\ which = "xfer" => Xfer!VerifierAgrees
<1>1. BoardInv /\ [Next]_all => [Judges]_all
  <2> SUFFICES ASSUME BoardInv, Next PROVE Judges
    OBVIOUS
  <2>1. which = "campaign" => Campaign!CyclesAreFresh
    BY CycleIsFresh DEF BoardInv
  <2>2. which = "xfer" => Xfer!Next
    BY Zenon DEF Next
  <2>3. which = "xfer" => Xfer!VerifierAgrees
    BY <2>2, VerifierPasses DEF BoardInv
  <2> QED
    BY <2>1, <2>3
<1> QED
  BY <1>1, BoardInvAlways, PTL DEF Spec, StepsAreFresh
=============================================================================

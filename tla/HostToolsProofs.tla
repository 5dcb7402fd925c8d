-------------------------- MODULE HostToolsProofs --------------------------
(***************************************************************************)
(* The host's tools proved, for every value of the constants: the role     *)
(* negotiation (Nego), the packet drivers (Pkt), the performance monitor's *)
(* driver (Perf), the pin-bump check (Bump), the simulation gate (Gate),   *)
(* the bitstream store (Art), the coverage artifacts (Cov), the run store  *)
(* (Runs), the board maps (Access), the monitor's polls (Polls) and the    *)
(* status words (Words) of MCHostTools.  Each has an inductive invariant   *)
(* IInv in its own module; here are, for each, the lemmas its data needs,  *)
(* one lemma or one step per action, and what IInv gives.                  *)
(***************************************************************************)
EXTENDS MCHostTools, FiniteSetTheorems, FunctionTheorems, SequenceTheorems, TLAPS

-----------------------------------------------------------------------------
(* The role negotiation *)

(* The peer of a die is the other die. *)
LEMMA Peers ==
    /\ Nego!peer("a") = "b" /\ Nego!peer("b") = "a"
    /\ \A d \in Nego!Dies : Nego!peer(d) \in Nego!Dies /\ Nego!peer(d) # d
BY DEF Nego!peer, Nego!Dies

(* Reset satisfies the invariant of the negotiation. *)
LEMMA NegoStarts == Nego!Init => Nego!IInv
<1> SUFFICES ASSUME Nego!Init PROVE Nego!IInv
  OBVIOUS
<1>1. Nego!TypeOK
  BY NegoAssumption
     DEF Nego!Init, Nego!TypeOK, Nego!Machine, Nego!Registers, Nego!Software, Nego!idle,
         Nego!poresetn, Nego!States, Nego!NegoCfg, Nego!Master, Nego!Slave
<1>2. Nego!InOrder /\ Nego!MasksAreKnown
  BY DEF Nego!Init, Nego!InOrder, Nego!MasksAreKnown, Nego!idle, Nego!poresetn
<1>3. \A d \in Nego!Dies :
         Nego!SlaveIsWon(d) /\ Nego!UntoldIsMaster(d, Nego!peer(d)) /\ Nego!HeardHasYielded(d, Nego!peer(d))
  BY Peers
     DEF Nego!Init, Nego!SlaveIsWon, Nego!UntoldIsMaster, Nego!HeardHasYielded, Nego!idle,
         Nego!poresetn
<1> QED
  BY <1>1, <1>2, <1>3 DEF Nego!IInv

(* set_role changes the role, arms the lock when it is forced, and nothing *)
(* else.                                                                   *)
LEMMA SetRole ==
    ASSUME NEW reg \in Nego!Registers, NEW x \in {0, 1}
    PROVE  LET s == Nego!set_role(reg, x)
           IN  /\ s \in Nego!Registers
               /\ s.cfg = x /\ s.pend = (reg.pend \/ reg.nego.force) /\ s.lock = reg.lock
               /\ s.verified = reg.verified /\ s.hs = reg.hs /\ s.nego = reg.nego /\ s.train = reg.train
BY DEF Nego!set_role, Nego!Registers, Nego!Master, Nego!Slave, Nego!NegoCfg

(* A START turns a waiting peer into a slave that is done, and leaves any  *)
(* other alone (heard_by, roles_after).                                    *)
LEMMA Told ==
    ASSUME Nego!TypeOK, NEW p \in Nego!Dies
    PROVE  LET m == Nego!heard_by(p, v1)
               s == Nego!roles_after(p, v1, v2)
           IN  /\ m \in [Nego!Dies -> Nego!Machine] /\ s \in [Nego!Dies -> Nego!Registers]
               /\ v1[p].st # "WAIT" => m = v1 /\ s = v2
               /\ v1[p].st = "WAIT" =>
                    /\ m = [v1 EXCEPT ![p] = [@ EXCEPT !.st = "DONE", !.role = 1, !.lost = TRUE, !.done = TRUE]]
                    /\ s = [v2 EXCEPT ![p] = Nego!set_role(@, 1)]
<1>1. v1[p] \in Nego!Machine /\ v2[p] \in Nego!Registers
  BY DEF Nego!TypeOK
<1>2. [v1[p] EXCEPT !.st = "DONE", !.role = 1, !.lost = TRUE, !.done = TRUE] \in Nego!Machine
  BY <1>1 DEF Nego!Machine, Nego!States, Nego!Master, Nego!Slave
<1>3. Nego!set_role(v2[p], 1) \in Nego!Registers
  BY <1>1, SetRole
<1> QED
  BY <1>1, <1>2, <1>3 DEF Nego!heard_by, Nego!roles_after, Nego!Slave, Nego!TypeOK

(* Every step of the machines, the registers and the software keeps the    *)
(* types.                                                                  *)
LEMMA NegoTyped == ASSUME Nego!TypeOK, [Nego!Next]_(Nego!vars) PROVE Nego!TypeOK'
<1> USE DEF Nego!TypeOK
<1>1. ASSUME NEW d \in Nego!Dies, Nego!Arm(d) PROVE Nego!TypeOK'
  BY <1>1
     DEF Nego!Arm, Nego!Dies, Nego!Machine, Nego!Registers, Nego!Software, Nego!States, Nego!Master,
         Nego!Slave
<1>2. ASSUME NEW d \in Nego!Dies, Nego!Expire(d) PROVE Nego!TypeOK'
  BY <1>2
     DEF Nego!Expire, Nego!Dies, Nego!Machine, Nego!Registers, Nego!Software, Nego!States,
         Nego!Master, Nego!Slave
<1>3. ASSUME NEW d \in Nego!Dies, Nego!Claim(d) PROVE Nego!TypeOK'
  <2> DEFINE p == Nego!peer(d)
             m == Nego!heard_by(p, v1)
             s == Nego!roles_after(p, v1, v2)
  <2>1. p \in Nego!Dies
    BY Peers
  <2>2. m \in [Nego!Dies -> Nego!Machine] /\ s \in [Nego!Dies -> Nego!Registers]
    BY <2>1, Told, ZenonT(60)
  <2> HIDE DEF m, s, p
  <2> QED
    BY <1>3, <2>1, <2>2
       DEF Nego!Claim, Nego!Dies, Nego!Machine, Nego!Registers, Nego!Software, Nego!States,
           Nego!Master, Nego!Slave, m, s, p
<1>4. ASSUME NEW d \in Nego!Dies, Nego!Nack(d) PROVE Nego!TypeOK'
  <2>1. Nego!set_role(v2[d], Nego!nack_role(d)) \in Nego!Registers
    BY SetRole DEF Nego!nack_role, Nego!timeout_role, Nego!Dies
  <2>2. v1' \in [Nego!Dies -> Nego!Machine]
    <3> DEFINE t == IF TrainFallback /\ v2[d].train THEN "DONE_PRE" ELSE "DONE"
               x == Nego!nack_role(d)
    <3>1. t \in Nego!States /\ x \in {0, 1}
      BY DEF Nego!States, Nego!Dies, Nego!nack_role
    <3>2. v1' = [v1 EXCEPT ![d] = [@ EXCEPT !.st = t, !.role = x, !.lost = TRUE, !.done = TRUE]]
      BY <1>4 DEF Nego!Nack
    <3> HIDE DEF t, x
    <3> QED
      BY <3>1, <3>2, ZenonT(60) DEF Nego!Machine, Nego!Master, Nego!Slave
  <2> HIDE DEF Nego!Dies
  <2> QED
    BY <1>4, <2>1, <2>2 DEF Nego!Nack, Nego!nack_role, Nego!Master
<1>5. ASSUME NEW d \in Nego!Dies, Nego!Ack(d) PROVE Nego!TypeOK'
  <2>1. Nego!set_role(v2[d], 0) \in Nego!Registers
    BY SetRole DEF Nego!nack_role, Nego!timeout_role, Nego!Dies
  <2>2. v1' \in [Nego!Dies -> Nego!Machine]
    <3> DEFINE t == IF v2[d].nego.mask THEN "RD" ELSE "DONE_PRE"
               x == Nego!Master
    <3>1. t \in Nego!States /\ x \in {0, 1}
      BY DEF Nego!States, Nego!Dies, Nego!Master
    <3>2. v1' = [v1 EXCEPT ![d] = [@ EXCEPT !.st = t, !.role = x, !.won = TRUE, !.done = TRUE]]
      BY <1>5 DEF Nego!Ack
    <3> HIDE DEF t, x
    <3> QED
      BY <3>1, <3>2, ZenonT(60) DEF Nego!Machine, Nego!Master, Nego!Slave
  <2> HIDE DEF Nego!Dies
  <2> QED
    BY <1>5, <2>1, <2>2 DEF Nego!Ack, Nego!answers, Nego!Master
<1>6. ASSUME NEW d \in Nego!Dies, Nego!ReadMasks(d) PROVE Nego!TypeOK'
  <2> DEFINE p == Nego!peer(d)
             m == Nego!heard_by(p, v1)
             s == Nego!roles_after(p, v1, v2)
  <2>1. p \in Nego!Dies
    BY Peers
  <2>2. m \in [Nego!Dies -> Nego!Machine] /\ s \in [Nego!Dies -> Nego!Registers]
    BY <2>1, Told
  <2> HIDE DEF m, s, p
  <2> QED
    BY <1>6, <2>1, <2>2
       DEF Nego!ReadMasks, Nego!Dies, Nego!Machine, Nego!Registers, Nego!Software, Nego!States,
           Nego!Master, Nego!Slave, m, s, p
<1>7. ASSUME NEW d \in Nego!Dies, Nego!WriteVerdict(d) PROVE Nego!TypeOK'
  <2> DEFINE p == Nego!peer(d)
             m == Nego!heard_by(p, v1)
             s == Nego!roles_after(p, v1, v2)
  <2>1. p \in Nego!Dies
    BY Peers
  <2>2. m \in [Nego!Dies -> Nego!Machine] /\ s \in [Nego!Dies -> Nego!Registers]
    BY <2>1, Told
  <2> HIDE DEF m, s, p
  <2> QED
    BY <1>7, <2>1, <2>2
       DEF Nego!WriteVerdict, Nego!verdict, Nego!Dies, Nego!Machine, Nego!Registers, Nego!Software,
           Nego!States, Nego!Master, Nego!Slave, m, s, p
<1>8. ASSUME NEW d \in Nego!Dies, Nego!Train(d) PROVE Nego!TypeOK'
  <2> DEFINE p == Nego!peer(d)
             m == Nego!heard_by(p, v1)
             s == Nego!roles_after(p, v1, v2)
  <2>1. p \in Nego!Dies
    BY Peers
  <2>2. m \in [Nego!Dies -> Nego!Machine] /\ s \in [Nego!Dies -> Nego!Registers]
    BY <2>1, Told
  <2> HIDE DEF m, s, p
  <2> QED
    BY <1>8, <2>1, <2>2
       DEF Nego!Train, Nego!train_next, Nego!Dies, Nego!Machine, Nego!Registers, Nego!Software,
           Nego!States, Nego!Master, Nego!Slave, m, s, p
<1>9. ASSUME NEW d \in Nego!Dies, Nego!Timeout(d) PROVE Nego!TypeOK'
  <2>1. Nego!set_role(v2[d], Nego!timeout_role(d)) \in Nego!Registers
    BY SetRole DEF Nego!nack_role, Nego!timeout_role, Nego!Dies
  <2>2. v1' \in [Nego!Dies -> Nego!Machine]
    BY <1>9
       DEF Nego!Timeout, Nego!timeout_role, Nego!transient, Nego!Dies, Nego!Machine, Nego!States,
           Nego!Master, Nego!Slave
  <2> HIDE DEF Nego!Dies
  <2> QED
    BY <1>9, <2>1, <2>2 DEF Nego!Timeout, Nego!timeout_role, Nego!transient, Nego!Master
<1>10. ASSUME NEW d \in Nego!Dies, Nego!Latch(d) PROVE Nego!TypeOK'
  BY <1>10
     DEF Nego!Latch, Nego!mask_hs_gate_open, Nego!mask_hs_match, Nego!Dies, Nego!Machine,
         Nego!Registers, Nego!Software, Nego!States, Nego!Master, Nego!Slave
<1>11. ASSUME NEW d \in Nego!Dies, Nego!Verify(d) PROVE Nego!TypeOK'
  <2>1. v2' \in [Nego!Dies -> Nego!Registers]
    <3>1. PICK f \in BOOLEAN : v2' = [v2 EXCEPT ![d] = [@ EXCEPT !.verified = TRUE]]
      BY <1>11 DEF Nego!Verify
    <3> QED
      BY <3>1 DEF Nego!Registers
  <2>2. v1' \in [Nego!Dies -> Nego!Machine] /\ v4' \in [Nego!Dies -> Nego!Software]
    BY <1>11
       DEF Nego!Verify, Nego!mask_hs_match, Nego!Dies, Nego!Machine, Nego!Software, Nego!States,
           Nego!Slave
  <2> QED
    BY <1>11, <2>1, <2>2 DEF Nego!Verify
<1>12. ASSUME NEW d \in Nego!Dies, Nego!NegoEnable(d) PROVE Nego!TypeOK'
  <2>1. v2' \in [Nego!Dies -> Nego!Registers]
    <3>1. PICK f \in BOOLEAN : v2' = [v2 EXCEPT ![d] = [@ EXCEPT !.nego = [en |-> TRUE, force |-> f, mask |-> FALSE]]]
      BY <1>12 DEF Nego!NegoEnable
    <3> QED
      BY <3>1, ZenonT(60) DEF Nego!Registers, Nego!NegoCfg
  <2>2. v1' \in [Nego!Dies -> Nego!Machine] /\ v4' \in [Nego!Dies -> Nego!Software]
    BY <1>12
       DEF Nego!NegoEnable, Nego!rearm, Nego!goto, Nego!NegoCfg, Nego!Dies, Nego!Machine,
           Nego!Software, Nego!States, Nego!Slave
  <2> QED
    BY <1>12, <2>1, <2>2 DEF Nego!NegoEnable
<1>13. ASSUME NEW d \in Nego!Dies, Nego!NegoWaitDone(d) PROVE Nego!TypeOK'
  BY <1>13
     DEF Nego!NegoWaitDone, Nego!goto, Nego!return, Nego!Dies, Nego!Machine, Nego!Registers,
         Nego!Software, Nego!States, Nego!Master, Nego!Slave
<1>14. ASSUME NEW d \in Nego!Dies, Nego!CheckLocked(d) PROVE Nego!TypeOK'
  BY <1>14
     DEF Nego!CheckLocked, Nego!goto, Nego!return, Nego!Dies, Nego!Machine, Nego!Registers,
         Nego!Software, Nego!States, Nego!Master, Nego!Slave
<1>15. ASSUME NEW d \in Nego!Dies, Nego!LockRoleRead(d) PROVE Nego!TypeOK'
  BY <1>15
     DEF Nego!LockRoleRead, Nego!Dies, Nego!Machine, Nego!Registers, Nego!Software, Nego!States,
         Nego!Master, Nego!Slave
<1>16. ASSUME NEW d \in Nego!Dies, Nego!LockRoleWrite(d) PROVE Nego!TypeOK'
  <2>1. UNCHANGED <<v1, v3>>
    BY <1>16 DEF Nego!LockRoleWrite
  <2>2. v4' \in [Nego!Dies -> Nego!Software]
    BY <1>16 DEF Nego!LockRoleWrite, Nego!Dies, Nego!Software, Nego!Master, Nego!Slave
  <2>3. v2' \in [Nego!Dies -> Nego!Registers]
    BY <1>16
       DEF Nego!LockRoleWrite, Nego!write_role_cfg, Nego!mask_hs_gate_open, Nego!mask_hs_match,
           Nego!Dies, Nego!Registers, Nego!Software, Nego!Master, Nego!Slave
  <2> QED
    BY <2>1, <2>2, <2>3
<1>17. ASSUME NEW d \in Nego!Dies, Nego!WaitLinkUp(d) PROVE Nego!TypeOK'
  BY <1>17
     DEF Nego!WaitLinkUp, Nego!goto, Nego!return, Nego!Dies, Nego!Machine, Nego!Registers,
         Nego!Software, Nego!States, Nego!Master, Nego!Slave
<1>18. CASE UNCHANGED Nego!vars
  BY <1>18 DEF Nego!vars
<1> HIDE DEF Nego!TypeOK
<1> QED
  BY <1>1, <1>2, <1>3, <1>4, <1>5, <1>6, <1>7, <1>8, <1>9, <1>10, <1>11, <1>12, <1>13, <1>14, <1>15,
     <1>16, <1>17, <1>18
     DEF Nego!Next, Nego!FsmStep, Nego!SwStep

(* A transaction of die d, as far as the roles go: it is past its claim    *)
(* afterwards, its own role and registers stay, and a peer that waits is   *)
(* told that it has lost.                                                  *)
(* What the steps that send a message to the peer have in common. *)
Tells(d) ==
    LET p == Nego!peer(d)
    IN  /\ UNCHANGED <<v3, v4>>
        /\ v1[d].st \notin {"OFF", "BYPASS", "WAIT", "DONE"}
        /\ v1'[d].st \notin {"OFF", "BYPASS", "WAIT", "CLAIM"}
        /\ v1'[d].st = "POLL" => v1[d].st = "CLAIM"
        /\ v1'[d].done = v1[d].done /\ v1'[d].won = v1[d].won /\ v1'[d].role = v1[d].role
        /\ v1[d].st # "CLAIM" => v1'[d].heard = v1[d].heard
        /\ v1'[d].heard => v1[d].heard \/ (v1[d].st = "CLAIM" /\ Nego!slave_alive(p))
        /\ v1'[d].same \/ v1'[d].match => v1[d].same \/ v1[d].match \/ v3
        /\ v2'[d] = v2[d]
        /\ v1[p].st # "WAIT" => v1'[p] = v1[p] /\ v2'[p].cfg = v2[p].cfg /\ v2'[p].pend = v2[p].pend
        /\ v1[p].st = "WAIT" =>
              /\ v1'[p].st = "DONE" /\ v1'[p].won = v1[p].won /\ v1'[p].heard = v1[p].heard
              /\ v1'[p].same = v1[p].same /\ v1'[p].match = v1[p].match
              /\ v1'[p].done /\ v1'[p].role = 1 /\ v2'[p].cfg = 1
        /\ v2'[p].lock = v2[p].lock /\ v2'[p].verified = v2[p].verified /\ v2'[p].nego = v2[p].nego
        /\ v2'[p].hs = "match" => v2[p].hs = "match" \/ v1[d].same

(* A message keeps the invariant: the peer it silences is the master that  *)
(* had not been told before.                                               *)
LEMMA ToldStep ==
    ASSUME Nego!IInv, Nego!TypeOK', NEW d \in Nego!Dies, Tells(d)
    PROVE  Nego!IInv'
<1> DEFINE p == Nego!peer(d)
<1>1. /\ p \in Nego!Dies /\ p # d /\ Nego!peer(p) = d
      /\ \A e \in Nego!Dies : e = d \/ e = p
      /\ v1[d] \in Nego!Machine /\ v1[p] \in Nego!Machine
      /\ v2[d] \in Nego!Registers /\ v2[p] \in Nego!Registers
  BY Peers DEF Nego!Dies, Nego!IInv, Nego!TypeOK
<1>2. Nego!TypeOK /\ Nego!InOrder /\ Nego!MasksAreKnown
  BY DEF Nego!IInv
<1>3. Nego!InOrder'
  BY <1>1, <1>2 DEF Nego!InOrder, Tells
<1>4. Nego!MasksAreKnown'
  BY <1>1, <1>2 DEF Nego!MasksAreKnown, Tells
<1>5. ASSUME d # MasterDie
      PROVE  Nego!SlaveIsWon(d)' /\ Nego!UntoldIsMaster(d, p)' /\ Nego!HeardHasYielded(d, p)'
  <2>1. Nego!SlaveIsWon(d) /\ Nego!UntoldIsMaster(d, p) /\ Nego!HeardHasYielded(d, p) /\ p = MasterDie
    BY <1>1, <1>5, NegoAssumption DEF Nego!IInv, Nego!Dies, Nego!Slave
  <2>2. Nego!SlaveIsWon(d)' /\ Nego!UntoldIsMaster(d, p)'
    BY <2>1 DEF Nego!SlaveIsWon, Nego!UntoldIsMaster, Tells
  <2>3. v1[d].st = "CLAIM" /\ Nego!slave_alive(p) => v1[p].st = "WAIT"
    <3> SUFFICES ASSUME v1[d].st = "CLAIM", Nego!slave_alive(p) PROVE v1[p].st = "WAIT"
      OBVIOUS
    <3>1. v2[p].cfg = 0 /\ (v1[p].st \notin {"OFF", "BYPASS", "WAIT"} => v1[p].role = 0)
      BY <2>1 DEF Nego!UntoldIsMaster, Nego!Master
    <3>2. v1[p].st # "OFF" /\ v1[p].st = "BYPASS" => ~v2[p].nego.en
      BY <1>1, <1>2 DEF Nego!InOrder
    <3>3. Nego!role_effective(p) = 1 /\ v1[p].st # "OFF"
      BY DEF Nego!slave_alive, Nego!Slave
    <3> QED
      BY <1>1, <2>1, <3>1, <3>2, <3>3 DEF Nego!role_effective, Nego!Dies
  <2>4. Nego!HeardHasYielded(d, p)'
    <3>1. (v1'[d].won => v1'[d].heard) /\ v4' = v4
      BY <2>1 DEF Tells, Nego!HeardHasYielded
    <3>2. CASE v1[d].heard
      BY <2>1, <3>1, <3>2 DEF Nego!HeardHasYielded, Tells
    <3>3. CASE ~v1[d].heard /\ v1'[d].heard
      <4>1. v1[p].st = "WAIT" /\ ~v1[p].done
        BY <1>1, <1>2, <2>3, <3>3 DEF Nego!InOrder, Tells
      <4>2. ~(v4[p].pc = "write" /\ v4[p].prog = "negotiate")
        BY <1>1, <1>2, <4>1 DEF Nego!InOrder
      <4> QED
        BY <3>1, <4>1, <4>2 DEF Nego!HeardHasYielded, Nego!Slave, Tells
    <3>4. CASE ~v1'[d].heard
      BY <3>1, <3>4 DEF Nego!HeardHasYielded
    <3> QED
      BY <3>2, <3>3, <3>4
  <2> QED
    BY <2>2, <2>4
<1>6. ASSUME p # MasterDie
      PROVE  Nego!SlaveIsWon(p)' /\ Nego!UntoldIsMaster(p, d)' /\ Nego!HeardHasYielded(p, d)'
  <2>1. Nego!SlaveIsWon(p) /\ Nego!UntoldIsMaster(p, d) /\ Nego!HeardHasYielded(p, d)
    BY <1>1, <1>6 DEF Nego!IInv, Nego!Dies, Nego!Slave
  <2> QED
    BY <2>1
       DEF Nego!SlaveIsWon, Nego!UntoldIsMaster, Nego!HeardHasYielded, Nego!Slave, Nego!Master,
           Tells
<1>7. \A e \in Nego!Dies : e # MasterDie =>
         Nego!SlaveIsWon(e)' /\ Nego!UntoldIsMaster(e, Nego!peer(e))' /\ Nego!HeardHasYielded(e, Nego!peer(e))'
  BY <1>1, <1>5, <1>6
<1> QED
  BY <1>3, <1>4, <1>7, NegoAssumption DEF Nego!IInv, Nego!Dies, Nego!Slave

(* Every step of the negotiation keeps its invariant. *)
LEMMA NegoStep == ASSUME Nego!IInv, [Nego!Next]_(Nego!vars) PROVE Nego!IInv'
<1>1. Nego!TypeOK /\ Nego!TypeOK' /\ Nego!InOrder /\ Nego!MasksAreKnown
  BY NegoTyped DEF Nego!IInv
<1>2. ASSUME NEW e \in Nego!Dies, e # MasterDie
      PROVE  /\ Nego!SlaveIsWon(e) /\ Nego!UntoldIsMaster(e, Nego!peer(e))
             /\ Nego!HeardHasYielded(e, Nego!peer(e))
  BY <1>2 DEF Nego!IInv, Nego!Dies, Nego!Slave
<1>3. ASSUME Nego!InOrder', Nego!MasksAreKnown',
             \A e \in Nego!Dies : e # MasterDie =>
                 /\ Nego!SlaveIsWon(e)' /\ Nego!UntoldIsMaster(e, Nego!peer(e))'
                 /\ Nego!HeardHasYielded(e, Nego!peer(e))'
      PROVE  Nego!IInv'
  BY <1>1, <1>3, NegoAssumption DEF Nego!IInv, Nego!Dies, Nego!Slave
<1>4. ASSUME NEW d \in Nego!Dies, Nego!Arm(d) PROVE Nego!IInv'
  <2>1. Nego!InOrder' /\ Nego!MasksAreKnown'
    BY <1>1, <1>4, SMTT(40)
       DEF Nego!Arm, Nego!TypeOK, Nego!Dies, Nego!Machine, Nego!Registers, Nego!Software,
           Nego!Master, Nego!Slave, Nego!InOrder, Nego!MasksAreKnown
  <2>2. ASSUME NEW e \in Nego!Dies, e # MasterDie
        PROVE  /\ Nego!SlaveIsWon(e)' /\ Nego!UntoldIsMaster(e, Nego!peer(e))'
               /\ Nego!HeardHasYielded(e, Nego!peer(e))'
    BY <1>1, <1>4, <2>2, <1>2, Peers, NegoAssumption
       DEF Nego!Arm, Nego!TypeOK, Nego!Dies, Nego!Machine, Nego!Registers, Nego!Software,
           Nego!Master, Nego!Slave, Nego!SlaveIsWon, Nego!UntoldIsMaster, Nego!HeardHasYielded,
           Nego!InOrder
  <2> QED
    BY <1>3, <2>1, <2>2, SMTT(40)
<1>5. ASSUME NEW d \in Nego!Dies, Nego!Expire(d) PROVE Nego!IInv'
  <2>1. Nego!InOrder' /\ Nego!MasksAreKnown'
    BY <1>1, <1>5
       DEF Nego!Expire, Nego!TypeOK, Nego!Dies, Nego!Machine, Nego!Registers, Nego!Software,
           Nego!Master, Nego!Slave, Nego!InOrder, Nego!MasksAreKnown
  <2>2. ASSUME NEW e \in Nego!Dies, e # MasterDie
        PROVE  /\ Nego!SlaveIsWon(e)' /\ Nego!UntoldIsMaster(e, Nego!peer(e))'
               /\ Nego!HeardHasYielded(e, Nego!peer(e))'
    BY <1>1, <1>5, <2>2, <1>2, Peers, NegoAssumption
       DEF Nego!Expire, Nego!TypeOK, Nego!Dies, Nego!Machine, Nego!Registers, Nego!Software,
           Nego!Master, Nego!Slave, Nego!SlaveIsWon, Nego!UntoldIsMaster, Nego!HeardHasYielded,
           Nego!InOrder
  <2> QED
    BY <1>3, <2>1, <2>2
<1>6. ASSUME NEW d \in Nego!Dies, Nego!Claim(d) PROVE Nego!IInv'
  <2> DEFINE p == Nego!peer(d)
             m == Nego!heard_by(p, v1)
             s == Nego!roles_after(p, v1, v2)
  <2>6. p \in Nego!Dies /\ p # d /\ v2[p] \in Nego!Registers
    BY <1>1, Peers DEF Nego!TypeOK
  <2>7. /\ v1[p].st # "WAIT" => m = v1 /\ s = v2
        /\ v1[p].st = "WAIT" =>
              /\ m = [v1 EXCEPT ![p] = [@ EXCEPT !.st = "DONE", !.role = 1, !.lost = TRUE, !.done = TRUE]]
              /\ s = [v2 EXCEPT ![p] = Nego!set_role(@, 1)]
    BY <1>1, <2>6, Told
  <2>8. LET t == Nego!set_role(v2[p], 1)
        IN  t.cfg = 1 /\ t.lock = v2[p].lock /\ t.verified = v2[p].verified /\ t.hs = v2[p].hs /\ t.nego = v2[p].nego
    BY <2>6, SetRole
  <2> HIDE DEF m, s
  <2>9. /\ m[d] = v1[d] /\ s[d] = v2[d] /\ m[p] \in Nego!Machine /\ s[p] \in Nego!Registers
        /\ v1[p].st # "WAIT" => m[p] = v1[p] /\ s[p] = v2[p]
        /\ v1[p].st = "WAIT" =>
              /\ m[p].st = "DONE" /\ m[p].won = v1[p].won /\ m[p].heard = v1[p].heard
              /\ m[p].same = v1[p].same /\ m[p].match = v1[p].match
              /\ m[p].done /\ m[p].role = 1 /\ s[p].cfg = 1
        /\ s[p].lock = v2[p].lock /\ s[p].verified = v2[p].verified /\ s[p].nego = v2[p].nego
        /\ s[p].hs = v2[p].hs
        /\ m \in [Nego!Dies -> Nego!Machine] /\ s \in [Nego!Dies -> Nego!Registers]
    <3>1. m \in [Nego!Dies -> Nego!Machine] /\ s \in [Nego!Dies -> Nego!Registers]
      BY <1>1, <2>6, Told DEF m, s
    <3>2. CASE v1[p].st # "WAIT"
      BY <2>6, <2>7, <3>1, <3>2
    <3>3. CASE v1[p].st = "WAIT"
      <4>1. v1 \in [Nego!Dies -> Nego!Machine] /\ v2 \in [Nego!Dies -> Nego!Registers]
        BY <1>1 DEF Nego!TypeOK
      <4>2. /\ m[d] = v1[d] /\ s[d] = v2[d] /\ s[p] = Nego!set_role(v2[p], 1)
            /\ m[p] = [v1[p] EXCEPT !.st = "DONE", !.role = 1, !.lost = TRUE, !.done = TRUE]
        BY <2>6, <2>7, <3>3, <4>1
      <4>3. v1[p] \in Nego!Machine
        BY <2>6, <4>1
      <4> QED
        BY <2>6, <2>8, <3>1, <3>3, <4>2, <4>3 DEF Nego!Machine
    <3> QED
      BY <3>2, <3>3
  <2>10. v1'[p] = m[p] /\ UNCHANGED <<v3, v4>>
    BY <1>6, <2>6, <2>9 DEF Nego!Claim, m, s
  <2>11. /\ v1[d].st \notin {"OFF", "BYPASS", "WAIT", "DONE"}
         /\ v1'[d].st \notin {"OFF", "BYPASS", "WAIT", "CLAIM"}
         /\ v1'[d].st = "POLL" => v1[d].st = "CLAIM"
         /\ v1[d].st # "CLAIM" => v1'[d].heard = v1[d].heard
         /\ v1'[d].done = v1[d].done /\ v1'[d].won = v1[d].won /\ v1'[d].role = v1[d].role
         /\ v1'[d].heard => v1[d].heard \/ (v1[d].st = "CLAIM" /\ Nego!slave_alive(p))
         /\ v1'[d].same \/ v1'[d].match => v1[d].same \/ v1[d].match \/ v3
    BY <1>6, <2>6, <2>9 DEF Nego!Claim, Nego!Machine, m, s
  <2>12. /\ v2'[d] = v2[d]
         /\ v2'[p].cfg = s[p].cfg /\ v2'[p].pend = s[p].pend /\ v2'[p].lock = s[p].lock
         /\ v2'[p].verified = s[p].verified /\ v2'[p].nego = s[p].nego
         /\ v2'[p].hs = "match" => s[p].hs = "match" \/ v1[d].same
    BY <1>6, <2>6, <2>9 DEF Nego!Claim, Nego!Registers, m, s
  <2>13. Tells(d)
    BY <2>6, <2>9, <2>10, <2>11, <2>12 DEF Tells
  <2> QED
    BY <1>1, <2>13, ToldStep
<1>7. ASSUME NEW d \in Nego!Dies, Nego!Nack(d) PROVE Nego!IInv'
  <2> DEFINE x == Nego!nack_role(d)
             s == Nego!set_role(v2[d], x)
  <2>6. x \in {0, 1} /\ v2[d] \in Nego!Registers
    BY <1>1 DEF Nego!TypeOK, Nego!nack_role, Nego!timeout_role, Nego!Dies
  <2>7. /\ s.cfg = x /\ s.pend = (v2[d].pend \/ v2[d].nego.force) /\ s.lock = v2[d].lock
        /\ s.verified = v2[d].verified /\ s.hs = v2[d].hs /\ s.nego = v2[d].nego
    BY <2>6, SetRole, SMTT(40)
  <2>1. Nego!InOrder'
    BY <1>1, <1>7, Peers, <2>6, <2>7, SMTT(40)
       DEF Nego!Nack, Nego!nack_role, Nego!TypeOK, Nego!Dies, Nego!Machine, Nego!Registers,
           Nego!Software, Nego!Master, Nego!Slave, Nego!InOrder
  <2>2. Nego!MasksAreKnown'
    BY <1>1, <1>7, Peers, <2>6, <2>7, SMTT(40)
       DEF Nego!Nack, Nego!nack_role, Nego!TypeOK, Nego!Dies, Nego!Machine, Nego!Registers,
           Nego!Software, Nego!Master, Nego!Slave, Nego!MasksAreKnown
  <2>3. ASSUME NEW e \in Nego!Dies, e # MasterDie PROVE Nego!SlaveIsWon(e)'
    BY <1>1, <1>7, <2>3, <1>2, Peers, NegoAssumption, <2>6, <2>7, SMTT(40)
       DEF Nego!Nack, Nego!nack_role, Nego!TypeOK, Nego!Dies, Nego!Machine, Nego!Registers,
           Nego!Software, Nego!Master, Nego!Slave, Nego!SlaveIsWon, Nego!InOrder
  <2>4. ASSUME NEW e \in Nego!Dies, e # MasterDie PROVE Nego!UntoldIsMaster(e, Nego!peer(e))'
    BY <1>1, <1>7, <2>4, <1>2, Peers, NegoAssumption, <2>6, <2>7, SMTT(40)
       DEF Nego!Nack, Nego!nack_role, Nego!TypeOK, Nego!Dies, Nego!Machine, Nego!Registers,
           Nego!Software, Nego!Master, Nego!Slave, Nego!UntoldIsMaster, Nego!InOrder
  <2>5. ASSUME NEW e \in Nego!Dies, e # MasterDie PROVE Nego!HeardHasYielded(e, Nego!peer(e))'
    BY <1>1, <1>7, <2>5, <1>2, Peers, NegoAssumption, <2>6, <2>7
       DEF Nego!Nack, Nego!nack_role, Nego!TypeOK, Nego!Dies, Nego!Machine, Nego!Registers,
           Nego!Software, Nego!Master, Nego!Slave, Nego!HeardHasYielded, Nego!UntoldIsMaster,
           Nego!InOrder
  <2> QED
    BY <1>3, <2>1, <2>2, <2>3, <2>4, <2>5
<1>8. ASSUME NEW d \in Nego!Dies, Nego!Ack(d) PROVE Nego!IInv'
  <2> DEFINE p == Nego!peer(d)
             s == Nego!set_role(v2[d], 0)
  <2>6. /\ p \in Nego!Dies /\ p # d /\ Nego!peer(p) = d /\ \A e \in Nego!Dies : e = d \/ e = p
        /\ v1[d] \in Nego!Machine /\ v2[d] \in Nego!Registers
    BY <1>1, Peers DEF Nego!TypeOK, Nego!Dies
  <2>7. /\ s.cfg = 0 /\ s.lock = v2[d].lock
        /\ s.verified = v2[d].verified /\ s.hs = v2[d].hs /\ s.nego = v2[d].nego
    BY <2>6, SetRole
  <2> HIDE DEF s
  <2>8. /\ v1'[d].st \in {"RD", "DONE_PRE"} /\ v1'[d].done /\ v1'[d].won /\ v1'[d].role = 0
        /\ v1'[d].heard = v1[d].heard /\ v1'[d].same = v1[d].same /\ v1'[d].match = v1[d].match
        /\ v1[d].heard /\ v1[d].st = "POLL"
    BY <1>1, <1>8, <2>6 DEF Nego!Ack, Nego!answers, Nego!TypeOK, Nego!Machine, Nego!Master
  <2>9. v1'[p] = v1[p] /\ v2'[p] = v2[p] /\ v2'[d] = s /\ UNCHANGED <<v3, v4>>
    BY <1>1, <1>8, <2>6 DEF Nego!Ack, Nego!TypeOK, Nego!Master, s
  <2> HIDE DEF p
  <2>1. Nego!InOrder' /\ Nego!MasksAreKnown'
    BY <1>1, <2>6, <2>7, <2>8, <2>9 DEF Nego!InOrder, Nego!MasksAreKnown
  <2>2. ASSUME d # MasterDie
        PROVE  Nego!SlaveIsWon(d)' /\ Nego!UntoldIsMaster(d, p)' /\ Nego!HeardHasYielded(d, p)'
    BY <1>2, <2>2, <2>6, <2>7, <2>8, <2>9
       DEF Nego!SlaveIsWon, Nego!UntoldIsMaster, Nego!HeardHasYielded, Nego!Slave, p
  <2>3. ASSUME p # MasterDie
        PROVE  Nego!SlaveIsWon(p)' /\ Nego!UntoldIsMaster(p, d)' /\ Nego!HeardHasYielded(p, d)'
    BY <1>2, <2>3, <2>6, <2>7, <2>8, <2>9
       DEF Nego!SlaveIsWon, Nego!UntoldIsMaster, Nego!HeardHasYielded, Nego!Master
  <2> QED
    BY <1>3, <2>1, <2>2, <2>3, <2>6 DEF p
<1>9. ASSUME NEW d \in Nego!Dies, Nego!ReadMasks(d) PROVE Nego!IInv'
  <2> DEFINE p == Nego!peer(d)
             m == Nego!heard_by(p, v1)
             s == Nego!roles_after(p, v1, v2)
  <2>6. p \in Nego!Dies /\ p # d /\ v2[p] \in Nego!Registers
    BY <1>1, Peers DEF Nego!TypeOK
  <2>7. /\ v1[p].st # "WAIT" => m = v1 /\ s = v2
        /\ v1[p].st = "WAIT" =>
              /\ m = [v1 EXCEPT ![p] = [@ EXCEPT !.st = "DONE", !.role = 1, !.lost = TRUE, !.done = TRUE]]
              /\ s = [v2 EXCEPT ![p] = Nego!set_role(@, 1)]
    BY <1>1, <2>6, Told
  <2>8. LET t == Nego!set_role(v2[p], 1)
        IN  t.cfg = 1 /\ t.lock = v2[p].lock /\ t.verified = v2[p].verified /\ t.hs = v2[p].hs /\ t.nego = v2[p].nego
    BY <2>6, SetRole
  <2> HIDE DEF m, s
  <2>9. /\ m[d] = v1[d] /\ s[d] = v2[d] /\ m[p] \in Nego!Machine /\ s[p] \in Nego!Registers
        /\ v1[p].st # "WAIT" => m[p] = v1[p] /\ s[p] = v2[p]
        /\ v1[p].st = "WAIT" =>
              /\ m[p].st = "DONE" /\ m[p].won = v1[p].won /\ m[p].heard = v1[p].heard
              /\ m[p].same = v1[p].same /\ m[p].match = v1[p].match
              /\ m[p].done /\ m[p].role = 1 /\ s[p].cfg = 1
        /\ s[p].lock = v2[p].lock /\ s[p].verified = v2[p].verified /\ s[p].nego = v2[p].nego
        /\ s[p].hs = v2[p].hs
        /\ m \in [Nego!Dies -> Nego!Machine] /\ s \in [Nego!Dies -> Nego!Registers]
    <3>1. m \in [Nego!Dies -> Nego!Machine] /\ s \in [Nego!Dies -> Nego!Registers]
      BY <1>1, <2>6, Told DEF m, s
    <3>2. CASE v1[p].st # "WAIT"
      BY <2>6, <2>7, <3>1, <3>2
    <3>3. CASE v1[p].st = "WAIT"
      <4>1. v1 \in [Nego!Dies -> Nego!Machine] /\ v2 \in [Nego!Dies -> Nego!Registers]
        BY <1>1 DEF Nego!TypeOK
      <4>2. /\ m[d] = v1[d] /\ s[d] = v2[d] /\ s[p] = Nego!set_role(v2[p], 1)
            /\ m[p] = [v1[p] EXCEPT !.st = "DONE", !.role = 1, !.lost = TRUE, !.done = TRUE]
        BY <2>6, <2>7, <3>3, <4>1
      <4>3. v1[p] \in Nego!Machine
        BY <2>6, <4>1
      <4> QED
        BY <2>6, <2>8, <3>1, <3>3, <4>2, <4>3 DEF Nego!Machine
    <3> QED
      BY <3>2, <3>3
  <2>10. v1'[p] = m[p] /\ UNCHANGED <<v3, v4>>
    BY <1>9, <2>6, <2>9 DEF Nego!ReadMasks, m, s
  <2>11. /\ v1[d].st \notin {"OFF", "BYPASS", "WAIT", "DONE"}
         /\ v1'[d].st \notin {"OFF", "BYPASS", "WAIT", "CLAIM"}
         /\ v1'[d].st = "POLL" => v1[d].st = "CLAIM"
         /\ v1[d].st # "CLAIM" => v1'[d].heard = v1[d].heard
         /\ v1'[d].done = v1[d].done /\ v1'[d].won = v1[d].won /\ v1'[d].role = v1[d].role
         /\ v1'[d].heard => v1[d].heard \/ (v1[d].st = "CLAIM" /\ Nego!slave_alive(p))
         /\ v1'[d].same \/ v1'[d].match => v1[d].same \/ v1[d].match \/ v3
    BY <1>9, <2>6, <2>9 DEF Nego!ReadMasks, Nego!Machine, m, s
  <2>12. /\ v2'[d] = v2[d]
         /\ v2'[p].cfg = s[p].cfg /\ v2'[p].pend = s[p].pend /\ v2'[p].lock = s[p].lock
         /\ v2'[p].verified = s[p].verified /\ v2'[p].nego = s[p].nego
         /\ v2'[p].hs = "match" => s[p].hs = "match" \/ v1[d].same
    BY <1>9, <2>6, <2>9 DEF Nego!ReadMasks, Nego!Registers, m, s
  <2>13. Tells(d)
    BY <2>6, <2>9, <2>10, <2>11, <2>12 DEF Tells
  <2> QED
    BY <1>1, <2>13, ToldStep
<1>10. ASSUME NEW d \in Nego!Dies, Nego!WriteVerdict(d) PROVE Nego!IInv'
  <2> DEFINE p == Nego!peer(d)
             m == Nego!heard_by(p, v1)
             s == Nego!roles_after(p, v1, v2)
  <2>6. p \in Nego!Dies /\ p # d /\ v2[p] \in Nego!Registers
    BY <1>1, Peers DEF Nego!TypeOK
  <2>7. /\ v1[p].st # "WAIT" => m = v1 /\ s = v2
        /\ v1[p].st = "WAIT" =>
              /\ m = [v1 EXCEPT ![p] = [@ EXCEPT !.st = "DONE", !.role = 1, !.lost = TRUE, !.done = TRUE]]
              /\ s = [v2 EXCEPT ![p] = Nego!set_role(@, 1)]
    BY <1>1, <2>6, Told
  <2>8. LET t == Nego!set_role(v2[p], 1)
        IN  t.cfg = 1 /\ t.lock = v2[p].lock /\ t.verified = v2[p].verified /\ t.hs = v2[p].hs /\ t.nego = v2[p].nego
    BY <2>6, SetRole
  <2> HIDE DEF m, s
  <2>9. /\ m[d] = v1[d] /\ s[d] = v2[d] /\ m[p] \in Nego!Machine /\ s[p] \in Nego!Registers
        /\ v1[p].st # "WAIT" => m[p] = v1[p] /\ s[p] = v2[p]
        /\ v1[p].st = "WAIT" =>
              /\ m[p].st = "DONE" /\ m[p].won = v1[p].won /\ m[p].heard = v1[p].heard
              /\ m[p].same = v1[p].same /\ m[p].match = v1[p].match
              /\ m[p].done /\ m[p].role = 1 /\ s[p].cfg = 1
        /\ s[p].lock = v2[p].lock /\ s[p].verified = v2[p].verified /\ s[p].nego = v2[p].nego
        /\ s[p].hs = v2[p].hs
        /\ m \in [Nego!Dies -> Nego!Machine] /\ s \in [Nego!Dies -> Nego!Registers]
    <3>1. m \in [Nego!Dies -> Nego!Machine] /\ s \in [Nego!Dies -> Nego!Registers]
      BY <1>1, <2>6, Told DEF m, s
    <3>2. CASE v1[p].st # "WAIT"
      BY <2>6, <2>7, <3>1, <3>2
    <3>3. CASE v1[p].st = "WAIT"
      <4>1. v1 \in [Nego!Dies -> Nego!Machine] /\ v2 \in [Nego!Dies -> Nego!Registers]
        BY <1>1 DEF Nego!TypeOK
      <4>2. /\ m[d] = v1[d] /\ s[d] = v2[d] /\ s[p] = Nego!set_role(v2[p], 1)
            /\ m[p] = [v1[p] EXCEPT !.st = "DONE", !.role = 1, !.lost = TRUE, !.done = TRUE]
        BY <2>6, <2>7, <3>3, <4>1
      <4>3. v1[p] \in Nego!Machine
        BY <2>6, <4>1
      <4> QED
        BY <2>6, <2>8, <3>1, <3>3, <4>2, <4>3 DEF Nego!Machine
    <3> QED
      BY <3>2, <3>3
  <2>10. v1'[p] = m[p] /\ UNCHANGED <<v3, v4>>
    BY <1>10, <2>6, <2>9 DEF Nego!WriteVerdict, m, s
  <2>11. /\ v1[d].st \notin {"OFF", "BYPASS", "WAIT", "DONE"}
         /\ v1'[d].st \notin {"OFF", "BYPASS", "WAIT", "CLAIM"}
         /\ v1'[d].st = "POLL" => v1[d].st = "CLAIM"
         /\ v1[d].st # "CLAIM" => v1'[d].heard = v1[d].heard
         /\ v1'[d].done = v1[d].done /\ v1'[d].won = v1[d].won /\ v1'[d].role = v1[d].role
         /\ v1'[d].heard => v1[d].heard \/ (v1[d].st = "CLAIM" /\ Nego!slave_alive(p))
         /\ v1'[d].same \/ v1'[d].match => v1[d].same \/ v1[d].match \/ v3
    BY <1>10, <2>6, <2>9 DEF Nego!WriteVerdict, Nego!verdict, Nego!Machine, m, s
  <2>12. /\ v2'[d] = v2[d]
         /\ v2'[p].cfg = s[p].cfg /\ v2'[p].pend = s[p].pend /\ v2'[p].lock = s[p].lock
         /\ v2'[p].verified = s[p].verified /\ v2'[p].nego = s[p].nego
         /\ v2'[p].hs = "match" => s[p].hs = "match" \/ v1[d].same
    BY <1>10, <2>6, <2>9 DEF Nego!WriteVerdict, Nego!verdict, Nego!Registers, m, s
  <2>13. Tells(d)
    BY <2>6, <2>9, <2>10, <2>11, <2>12 DEF Tells
  <2> QED
    BY <1>1, <2>13, ToldStep
<1>11. ASSUME NEW d \in Nego!Dies, Nego!Train(d) PROVE Nego!IInv'
  <2>1. CASE v1[d].st \notin {"ENTER", "PEER", "EXIT"}
    <3>1. /\ UNCHANGED <<v2, v3, v4>>
          /\ \E t \in {"DONE", "ENTER", "PEER", "DONE_PRE"} : v1' = [v1 EXCEPT ![d].st = t]
          /\ v1[d].st \in {"DONE_PRE", "RUN", "TDONE", "FAIL"}
      BY <1>11, <2>1 DEF Nego!Train, Nego!train_next
    <3>2. Nego!InOrder' /\ Nego!MasksAreKnown'
      BY <1>1, <3>1
         DEF Nego!InOrder, Nego!MasksAreKnown, Nego!TypeOK, Nego!Dies, Nego!Machine, Nego!Registers,
             Nego!Software, Nego!Master, Nego!Slave
    <3>3. ASSUME NEW e \in Nego!Dies, e # MasterDie
          PROVE  /\ Nego!SlaveIsWon(e)' /\ Nego!UntoldIsMaster(e, Nego!peer(e))'
                 /\ Nego!HeardHasYielded(e, Nego!peer(e))'
      BY <1>1, <1>2, <3>1, <3>3, Peers
         DEF Nego!SlaveIsWon, Nego!UntoldIsMaster, Nego!HeardHasYielded, Nego!TypeOK, Nego!Dies,
             Nego!Machine, Nego!Registers, Nego!Software, Nego!Master, Nego!Slave
    <3> QED
      BY <1>3, <3>2, <3>3
  <2> SUFFICES ASSUME v1[d].st \in {"ENTER", "PEER", "EXIT"} PROVE Nego!IInv'
    BY <2>1
  <2> DEFINE p == Nego!peer(d)
             m == Nego!heard_by(p, v1)
             s == Nego!roles_after(p, v1, v2)
  <2>6. p \in Nego!Dies /\ p # d /\ v2[p] \in Nego!Registers
    BY <1>1, Peers DEF Nego!TypeOK
  <2>7. /\ v1[p].st # "WAIT" => m = v1 /\ s = v2
        /\ v1[p].st = "WAIT" =>
              /\ m = [v1 EXCEPT ![p] = [@ EXCEPT !.st = "DONE", !.role = 1, !.lost = TRUE, !.done = TRUE]]
              /\ s = [v2 EXCEPT ![p] = Nego!set_role(@, 1)]
    BY <1>1, <2>6, Told
  <2>8. LET t == Nego!set_role(v2[p], 1)
        IN  t.cfg = 1 /\ t.lock = v2[p].lock /\ t.verified = v2[p].verified /\ t.hs = v2[p].hs /\ t.nego = v2[p].nego
    BY <2>6, SetRole
  <2> HIDE DEF m, s
  <2>9. /\ m[d] = v1[d] /\ s[d] = v2[d] /\ m[p] \in Nego!Machine /\ s[p] \in Nego!Registers
        /\ v1[p].st # "WAIT" => m[p] = v1[p] /\ s[p] = v2[p]
        /\ v1[p].st = "WAIT" =>
              /\ m[p].st = "DONE" /\ m[p].won = v1[p].won /\ m[p].heard = v1[p].heard
              /\ m[p].same = v1[p].same /\ m[p].match = v1[p].match
              /\ m[p].done /\ m[p].role = 1 /\ s[p].cfg = 1
        /\ s[p].lock = v2[p].lock /\ s[p].verified = v2[p].verified /\ s[p].nego = v2[p].nego
        /\ s[p].hs = v2[p].hs
        /\ m \in [Nego!Dies -> Nego!Machine] /\ s \in [Nego!Dies -> Nego!Registers]
    <3>1. m \in [Nego!Dies -> Nego!Machine] /\ s \in [Nego!Dies -> Nego!Registers]
      BY <1>1, <2>6, Told DEF m, s
    <3>2. CASE v1[p].st # "WAIT"
      BY <2>6, <2>7, <3>1, <3>2
    <3>3. CASE v1[p].st = "WAIT"
      <4>1. v1 \in [Nego!Dies -> Nego!Machine] /\ v2 \in [Nego!Dies -> Nego!Registers]
        BY <1>1 DEF Nego!TypeOK
      <4>2. /\ m[d] = v1[d] /\ s[d] = v2[d] /\ s[p] = Nego!set_role(v2[p], 1)
            /\ m[p] = [v1[p] EXCEPT !.st = "DONE", !.role = 1, !.lost = TRUE, !.done = TRUE]
        BY <2>6, <2>7, <3>3, <4>1
      <4>3. v1[p] \in Nego!Machine
        BY <2>6, <4>1
      <4> QED
        BY <2>6, <2>8, <3>1, <3>3, <4>2, <4>3 DEF Nego!Machine
    <3> QED
      BY <3>2, <3>3
  <2>10. v1'[p] = m[p] /\ UNCHANGED <<v3, v4>>
    BY <1>11, <2>6, <2>9 DEF Nego!Train, m, s
  <2>11. /\ v1[d].st \notin {"OFF", "BYPASS", "WAIT", "DONE"}
         /\ v1'[d].st \notin {"OFF", "BYPASS", "WAIT", "CLAIM"}
         /\ v1'[d].st = "POLL" => v1[d].st = "CLAIM"
         /\ v1[d].st # "CLAIM" => v1'[d].heard = v1[d].heard
         /\ v1'[d].done = v1[d].done /\ v1'[d].won = v1[d].won /\ v1'[d].role = v1[d].role
         /\ v1'[d].heard => v1[d].heard \/ (v1[d].st = "CLAIM" /\ Nego!slave_alive(p))
         /\ v1'[d].same \/ v1'[d].match => v1[d].same \/ v1[d].match \/ v3
    BY <1>11, <2>6, <2>9 DEF Nego!Train, Nego!train_next, Nego!Machine, m, s
  <2>12. /\ v2'[d] = v2[d]
         /\ v2'[p].cfg = s[p].cfg /\ v2'[p].pend = s[p].pend /\ v2'[p].lock = s[p].lock
         /\ v2'[p].verified = s[p].verified /\ v2'[p].nego = s[p].nego
         /\ v2'[p].hs = "match" => s[p].hs = "match" \/ v1[d].same
    BY <1>11, <2>6, <2>9 DEF Nego!Train, Nego!train_next, Nego!Registers, m, s
  <2>13. Tells(d)
    BY <2>6, <2>9, <2>10, <2>11, <2>12 DEF Tells
  <2> QED
    BY <1>1, <2>13, ToldStep
<1>12. ASSUME NEW d \in Nego!Dies, Nego!Timeout(d) PROVE Nego!IInv'
  <2> DEFINE x == Nego!timeout_role(d)
             s == Nego!set_role(v2[d], x)
  <2>6. x \in {0, 1} /\ v2[d] \in Nego!Registers
    BY <1>1 DEF Nego!TypeOK, Nego!nack_role, Nego!timeout_role, Nego!Dies
  <2>7. /\ s.cfg = x /\ s.pend = (v2[d].pend \/ v2[d].nego.force) /\ s.lock = v2[d].lock
        /\ s.verified = v2[d].verified /\ s.hs = v2[d].hs /\ s.nego = v2[d].nego
    BY <2>6, SetRole
  <2>1. Nego!InOrder'
    BY <1>1, <1>12, Peers, <2>6, <2>7, SMTT(40)
       DEF Nego!Timeout, Nego!timeout_role, Nego!transient, Nego!TypeOK, Nego!Dies, Nego!Machine,
           Nego!Registers, Nego!Software, Nego!Master, Nego!Slave, Nego!InOrder
  <2>2. Nego!MasksAreKnown'
    BY <1>1, <1>12, Peers, <2>6, <2>7, SMTT(40)
       DEF Nego!Timeout, Nego!timeout_role, Nego!transient, Nego!TypeOK, Nego!Dies, Nego!Machine,
           Nego!Registers, Nego!Software, Nego!Master, Nego!Slave, Nego!MasksAreKnown
  <2>3. ASSUME NEW e \in Nego!Dies, e # MasterDie PROVE Nego!SlaveIsWon(e)'
    BY <1>1, <1>12, <2>3, <1>2, Peers, NegoAssumption, <2>6, <2>7, SMTT(40)
       DEF Nego!Timeout, Nego!timeout_role, Nego!transient, Nego!TypeOK, Nego!Dies, Nego!Machine,
           Nego!Registers, Nego!Software, Nego!Master, Nego!Slave, Nego!SlaveIsWon, Nego!InOrder
  <2>4. ASSUME NEW e \in Nego!Dies, e # MasterDie PROVE Nego!UntoldIsMaster(e, Nego!peer(e))'
    BY <1>1, <1>12, <2>4, <1>2, Peers, NegoAssumption, <2>6, <2>7, SMTT(40)
       DEF Nego!Timeout, Nego!timeout_role, Nego!transient, Nego!TypeOK, Nego!Dies, Nego!Machine,
           Nego!Registers, Nego!Software, Nego!Master, Nego!Slave, Nego!UntoldIsMaster, Nego!InOrder
  <2>5. ASSUME NEW e \in Nego!Dies, e # MasterDie PROVE Nego!HeardHasYielded(e, Nego!peer(e))'
    BY <1>1, <1>12, <2>5, <1>2, Peers, NegoAssumption, <2>6, <2>7
       DEF Nego!Timeout, Nego!timeout_role, Nego!transient, Nego!TypeOK, Nego!Dies, Nego!Machine,
           Nego!Registers, Nego!Software, Nego!Master, Nego!Slave, Nego!HeardHasYielded,
           Nego!UntoldIsMaster, Nego!InOrder
  <2> QED
    BY <1>3, <2>1, <2>2, <2>3, <2>4, <2>5
<1>13. ASSUME NEW d \in Nego!Dies, Nego!Latch(d) PROVE Nego!IInv'
  <2>1. Nego!InOrder' /\ Nego!MasksAreKnown'
    BY <1>1, <1>13
       DEF Nego!Latch, Nego!mask_hs_gate_open, Nego!mask_hs_match, Nego!TypeOK, Nego!Dies,
           Nego!Machine, Nego!Registers, Nego!Software, Nego!Master, Nego!Slave, Nego!InOrder,
           Nego!MasksAreKnown
  <2>2. ASSUME NEW e \in Nego!Dies, e # MasterDie
        PROVE  /\ Nego!SlaveIsWon(e)' /\ Nego!UntoldIsMaster(e, Nego!peer(e))'
               /\ Nego!HeardHasYielded(e, Nego!peer(e))'
    BY <1>1, <1>13, <2>2, <1>2, Peers, NegoAssumption
       DEF Nego!Latch, Nego!mask_hs_gate_open, Nego!mask_hs_match, Nego!TypeOK, Nego!Dies,
           Nego!Machine, Nego!Registers, Nego!Software, Nego!Master, Nego!Slave, Nego!SlaveIsWon,
           Nego!UntoldIsMaster, Nego!HeardHasYielded, Nego!InOrder
  <2> QED
    BY <1>3, <2>1, <2>2
<1>14. ASSUME NEW d \in Nego!Dies, Nego!Verify(d) PROVE Nego!IInv'
  <2>1. Nego!InOrder' /\ Nego!MasksAreKnown'
    BY <1>1, <1>14
       DEF Nego!Verify, Nego!mask_hs_match, Nego!TypeOK, Nego!Dies, Nego!Machine, Nego!Registers,
           Nego!Software, Nego!Master, Nego!Slave, Nego!InOrder, Nego!MasksAreKnown
  <2>2. ASSUME NEW e \in Nego!Dies, e # MasterDie
        PROVE  /\ Nego!SlaveIsWon(e)' /\ Nego!UntoldIsMaster(e, Nego!peer(e))'
               /\ Nego!HeardHasYielded(e, Nego!peer(e))'
    BY <1>1, <1>14, <2>2, <1>2, Peers, NegoAssumption
       DEF Nego!Verify, Nego!mask_hs_match, Nego!TypeOK, Nego!Dies, Nego!Machine, Nego!Registers,
           Nego!Software, Nego!Master, Nego!Slave, Nego!SlaveIsWon, Nego!UntoldIsMaster,
           Nego!HeardHasYielded, Nego!InOrder
  <2> QED
    BY <1>3, <2>1, <2>2
<1>15. ASSUME NEW d \in Nego!Dies, Nego!NegoEnable(d) PROVE Nego!IInv'
  <2>1. Nego!InOrder'
    BY <1>1, <1>15, Peers
       DEF Nego!NegoEnable, Nego!rearm, Nego!goto, Nego!NegoCfg, Nego!TypeOK, Nego!Dies,
           Nego!Machine, Nego!Registers, Nego!Software, Nego!Master, Nego!Slave, Nego!InOrder
  <2>2. Nego!MasksAreKnown'
    BY <1>1, <1>15, Peers
       DEF Nego!NegoEnable, Nego!rearm, Nego!goto, Nego!NegoCfg, Nego!TypeOK, Nego!Dies,
           Nego!Machine, Nego!Registers, Nego!Software, Nego!Master, Nego!Slave, Nego!MasksAreKnown
  <2>3. ASSUME NEW e \in Nego!Dies, e # MasterDie PROVE Nego!SlaveIsWon(e)'
    BY <1>1, <1>15, <2>3, <1>2, Peers, NegoAssumption
       DEF Nego!NegoEnable, Nego!rearm, Nego!goto, Nego!NegoCfg, Nego!TypeOK, Nego!Dies,
           Nego!Machine, Nego!Registers, Nego!Software, Nego!Master, Nego!Slave, Nego!SlaveIsWon,
           Nego!InOrder
  <2>4. ASSUME NEW e \in Nego!Dies, e # MasterDie PROVE Nego!UntoldIsMaster(e, Nego!peer(e))'
    BY <1>1, <1>15, <2>4, <1>2, Peers, NegoAssumption
       DEF Nego!NegoEnable, Nego!rearm, Nego!goto, Nego!NegoCfg, Nego!TypeOK, Nego!Dies,
           Nego!Machine, Nego!Registers, Nego!Software, Nego!Master, Nego!Slave,
           Nego!UntoldIsMaster, Nego!InOrder
  <2>5. ASSUME NEW e \in Nego!Dies, e # MasterDie PROVE Nego!HeardHasYielded(e, Nego!peer(e))'
    BY <1>1, <1>15, <2>5, <1>2, Peers, NegoAssumption
       DEF Nego!NegoEnable, Nego!rearm, Nego!goto, Nego!NegoCfg, Nego!TypeOK, Nego!Dies,
           Nego!Machine, Nego!Registers, Nego!Software, Nego!Master, Nego!Slave,
           Nego!HeardHasYielded, Nego!UntoldIsMaster, Nego!InOrder
  <2> QED
    BY <1>3, <2>1, <2>2, <2>3, <2>4, <2>5
<1>16. ASSUME NEW d \in Nego!Dies, Nego!NegoWaitDone(d) PROVE Nego!IInv'
  <2>1. Nego!InOrder' /\ Nego!MasksAreKnown'
    BY <1>1, <1>16
       DEF Nego!NegoWaitDone, Nego!goto, Nego!return, Nego!TypeOK, Nego!Dies, Nego!Machine,
           Nego!Registers, Nego!Software, Nego!Master, Nego!Slave, Nego!InOrder, Nego!MasksAreKnown
  <2>2. ASSUME NEW e \in Nego!Dies, e # MasterDie
        PROVE  /\ Nego!SlaveIsWon(e)' /\ Nego!UntoldIsMaster(e, Nego!peer(e))'
               /\ Nego!HeardHasYielded(e, Nego!peer(e))'
    BY <1>1, <1>16, <2>2, <1>2, Peers, NegoAssumption
       DEF Nego!NegoWaitDone, Nego!goto, Nego!return, Nego!TypeOK, Nego!Dies, Nego!Machine,
           Nego!Registers, Nego!Software, Nego!Master, Nego!Slave, Nego!SlaveIsWon,
           Nego!UntoldIsMaster, Nego!HeardHasYielded, Nego!InOrder
  <2> QED
    BY <1>3, <2>1, <2>2
<1>17. ASSUME NEW d \in Nego!Dies, Nego!CheckLocked(d) PROVE Nego!IInv'
  <2>1. Nego!InOrder' /\ Nego!MasksAreKnown'
    BY <1>1, <1>17
       DEF Nego!CheckLocked, Nego!goto, Nego!return, Nego!TypeOK, Nego!Dies, Nego!Machine,
           Nego!Registers, Nego!Software, Nego!Master, Nego!Slave, Nego!InOrder, Nego!MasksAreKnown
  <2>2. ASSUME NEW e \in Nego!Dies, e # MasterDie
        PROVE  /\ Nego!SlaveIsWon(e)' /\ Nego!UntoldIsMaster(e, Nego!peer(e))'
               /\ Nego!HeardHasYielded(e, Nego!peer(e))'
    BY <1>1, <1>17, <2>2, <1>2, Peers, NegoAssumption
       DEF Nego!CheckLocked, Nego!goto, Nego!return, Nego!TypeOK, Nego!Dies, Nego!Machine,
           Nego!Registers, Nego!Software, Nego!Master, Nego!Slave, Nego!SlaveIsWon,
           Nego!UntoldIsMaster, Nego!HeardHasYielded, Nego!InOrder
  <2> QED
    BY <1>3, <2>1, <2>2
<1>18. ASSUME NEW d \in Nego!Dies, Nego!LockRoleRead(d) PROVE Nego!IInv'
  <2>1. Nego!InOrder' /\ Nego!MasksAreKnown'
    BY <1>1, <1>18
       DEF Nego!LockRoleRead, Nego!TypeOK, Nego!Dies, Nego!Machine, Nego!Registers, Nego!Software,
           Nego!Master, Nego!Slave, Nego!InOrder, Nego!MasksAreKnown
  <2>2. ASSUME NEW e \in Nego!Dies, e # MasterDie
        PROVE  /\ Nego!SlaveIsWon(e)' /\ Nego!UntoldIsMaster(e, Nego!peer(e))'
               /\ Nego!HeardHasYielded(e, Nego!peer(e))'
    BY <1>1, <1>18, <2>2, <1>2, Peers, NegoAssumption
       DEF Nego!LockRoleRead, Nego!TypeOK, Nego!Dies, Nego!Machine, Nego!Registers, Nego!Software,
           Nego!Master, Nego!Slave, Nego!SlaveIsWon, Nego!UntoldIsMaster, Nego!HeardHasYielded,
           Nego!InOrder
  <2> QED
    BY <1>3, <2>1, <2>2
<1>19. ASSUME NEW d \in Nego!Dies, Nego!LockRoleWrite(d) PROVE Nego!IInv'
  <2>1. Nego!InOrder'
    BY <1>1, <1>19, Peers, SMTT(40)
       DEF Nego!LockRoleWrite, Nego!write_role_cfg, Nego!mask_hs_gate_open, Nego!mask_hs_match,
           Nego!TypeOK, Nego!Dies, Nego!Machine, Nego!Registers, Nego!Software, Nego!Master,
           Nego!Slave, Nego!InOrder
  <2>2. Nego!MasksAreKnown'
    BY <1>1, <1>19, Peers, SMTT(40)
       DEF Nego!LockRoleWrite, Nego!write_role_cfg, Nego!mask_hs_gate_open, Nego!mask_hs_match,
           Nego!TypeOK, Nego!Dies, Nego!Machine, Nego!Registers, Nego!Software, Nego!Master,
           Nego!Slave, Nego!MasksAreKnown
  <2>3. ASSUME NEW e \in Nego!Dies, e # MasterDie PROVE Nego!SlaveIsWon(e)'
    BY <1>1, <1>19, <2>3, <1>2, Peers, NegoAssumption, SMTT(40)
       DEF Nego!LockRoleWrite, Nego!write_role_cfg, Nego!mask_hs_gate_open, Nego!mask_hs_match,
           Nego!TypeOK, Nego!Dies, Nego!Machine, Nego!Registers, Nego!Software, Nego!Master,
           Nego!Slave, Nego!SlaveIsWon, Nego!InOrder
  <2>4. ASSUME NEW e \in Nego!Dies, e # MasterDie PROVE Nego!UntoldIsMaster(e, Nego!peer(e))'
    BY <1>1, <1>19, <2>4, <1>2, Peers, NegoAssumption, SMTT(40)
       DEF Nego!LockRoleWrite, Nego!write_role_cfg, Nego!mask_hs_gate_open, Nego!mask_hs_match,
           Nego!TypeOK, Nego!Dies, Nego!Machine, Nego!Registers, Nego!Software, Nego!Master,
           Nego!Slave, Nego!UntoldIsMaster, Nego!InOrder
  <2>5. ASSUME NEW e \in Nego!Dies, e # MasterDie PROVE Nego!HeardHasYielded(e, Nego!peer(e))'
    BY <1>1, <1>19, <2>5, <1>2, Peers, NegoAssumption
       DEF Nego!LockRoleWrite, Nego!write_role_cfg, Nego!mask_hs_gate_open, Nego!mask_hs_match,
           Nego!TypeOK, Nego!Dies, Nego!Machine, Nego!Registers, Nego!Software, Nego!Master,
           Nego!Slave, Nego!HeardHasYielded, Nego!UntoldIsMaster, Nego!InOrder
  <2> QED
    BY <1>3, <2>1, <2>2, <2>3, <2>4, <2>5
<1>20. ASSUME NEW d \in Nego!Dies, Nego!WaitLinkUp(d) PROVE Nego!IInv'
  <2>1. Nego!InOrder' /\ Nego!MasksAreKnown'
    BY <1>1, <1>20
       DEF Nego!WaitLinkUp, Nego!goto, Nego!return, Nego!TypeOK, Nego!Dies, Nego!Machine,
           Nego!Registers, Nego!Software, Nego!Master, Nego!Slave, Nego!InOrder, Nego!MasksAreKnown
  <2>2. ASSUME NEW e \in Nego!Dies, e # MasterDie
        PROVE  /\ Nego!SlaveIsWon(e)' /\ Nego!UntoldIsMaster(e, Nego!peer(e))'
               /\ Nego!HeardHasYielded(e, Nego!peer(e))'
    BY <1>1, <1>20, <2>2, <1>2, Peers, NegoAssumption
       DEF Nego!WaitLinkUp, Nego!goto, Nego!return, Nego!TypeOK, Nego!Dies, Nego!Machine,
           Nego!Registers, Nego!Software, Nego!Master, Nego!Slave, Nego!SlaveIsWon,
           Nego!UntoldIsMaster, Nego!HeardHasYielded, Nego!InOrder
  <2> QED
    BY <1>3, <2>1, <2>2
<1>21. CASE UNCHANGED Nego!vars
  BY <1>21 DEF Nego!IInv, Nego!vars, Nego!TypeOK, Nego!InOrder, Nego!MasksAreKnown, Nego!SlaveIsWon,
         Nego!UntoldIsMaster, Nego!HeardHasYielded
<1> QED
  BY <1>4, <1>5, <1>6, <1>7, <1>8, <1>9, <1>10, <1>11, <1>12, <1>13, <1>14, <1>15, <1>16, <1>17,
     <1>18, <1>19, <1>20, <1>21
     DEF Nego!Next, Nego!FsmStep, Nego!SwStep

(* The invariant gives both properties: a slave that is master has won, so *)
(* the other has yielded; a verified mask was read.                        *)
LEMMA NegoAgrees == Nego!IInv => Nego!NeverTwoMasters /\ Nego!VerifiedIsAgreed
<1> SUFFICES ASSUME Nego!IInv PROVE Nego!NeverTwoMasters /\ Nego!VerifiedIsAgreed
  OBVIOUS
<1>1. Nego!VerifiedIsAgreed
  BY DEF Nego!IInv, Nego!MasksAreKnown, Nego!VerifiedIsAgreed
<1>2. PICK e \in Nego!Dies : e # MasterDie
  BY NegoAssumption DEF Nego!Dies
<1>3. Nego!SlaveIsWon(e) /\ Nego!HeardHasYielded(e, Nego!peer(e)) /\ Nego!peer(e) \in Nego!Dies
  BY <1>2, Peers DEF Nego!IInv, Nego!Slave, Nego!Dies
<1>4. Nego!NeverTwoMasters
  BY <1>3 DEF Nego!NeverTwoMasters, Nego!SlaveIsWon, Nego!HeardHasYielded
<1> QED
  BY <1>1, <1>4

-----------------------------------------------------------------------------
(* Packets through the mailbox *)

(* A packet with every field in the width the header has for it. *)
PacketOK(p) ==
    /\ p = Pkt!Packet(p.pkt_type, p.src_id, p.dest_id, p.tag, p.dest_addr, p.data)
    /\ p.pkt_type \in Nat /\ p.src_id \in Nat /\ p.dest_id \in Nat /\ p.tag \in Nat
    /\ p.pkt_type < 4 /\ p.src_id < 32 /\ p.dest_id < 32 /\ p.tag < 256
    /\ p.dest_addr \in Nat /\ p.data \in Seq(Nat) /\ Len(p.data) < 4096

(* The factories of DescriptorPacket fill no field beyond its width. *)
LEMMA PacketsTyped == ASSUME NEW p \in Pkt!DescriptorPacket PROVE PacketOK(p)
<1>0. /\ Beats \subseteq Nat /\ Addrs \subseteq Nat /\ PktTags \subseteq 0 .. 255
  BY PacketAssumption
<1>1. ASSUME NEW n \in Nat
      PROVE  /\ <<Pkt!encode_burst_descriptor(n, Pkt!SIZE_WORD)>> \in Seq(Nat)
             /\ Len(<<Pkt!encode_burst_descriptor(n, Pkt!SIZE_WORD)>>) < 4096
  <2>1. Pkt!encode_burst_descriptor(n, Pkt!SIZE_WORD) \in Nat
    BY SMT DEF Pkt!encode_burst_descriptor, Pkt!SIZE_WORD
  <2> QED
    BY <2>1
<1>2. ASSUME NEW d \in Writes PROVE d \in Seq(Nat) /\ Len(d) < 4096
  <2>1. d \in Seq(Nat) /\ Len(d) < 4096
    BY PacketAssumption
  <2> QED
    BY <2>1
<1>3. <<>> \in Seq(Nat) /\ Len(<<>>) < 4096
  OBVIOUS
<1>4. ASSUME NEW k \in {0, 1, 2}, NEW s \in {1, 2}, NEW d \in {1, 2}, NEW t \in PktTags, NEW a \in Nat,
             NEW x \in Seq(Nat), Len(x) < 4096, p = Pkt!Packet(k, s, d, t, a, x)
      PROVE  PacketOK(p)
  BY <1>0, <1>4 DEF PacketOK, Pkt!Packet
<1> USE DEF Pkt!PKT_RD_REQ, Pkt!PKT_WR_REQ, Pkt!PKT_RSP
<1>5. CASE \E a \in Addrs, t \in PktTags : p = Pkt!read_request(a, t)
  <2>1. PICK a \in Addrs, t \in PktTags : p = Pkt!Packet(0, 1, 2, t, a, <<>>)
    BY <1>5 DEF Pkt!read_request
  <2> QED
    BY <1>0, <1>3, <2>1 DEF PacketOK, Pkt!Packet
<1>6. CASE \E a \in Addrs, n \in Beats, t \in PktTags : p = Pkt!burst_read_request(a, n, t)
  <2>1. PICK a \in Addrs, n \in Beats, t \in PktTags :
               p = Pkt!Packet(0, 1, 2, t, a, <<Pkt!encode_burst_descriptor(n, Pkt!SIZE_WORD)>>)
    BY <1>6 DEF Pkt!burst_read_request
  <2> DEFINE x == <<Pkt!encode_burst_descriptor(n, Pkt!SIZE_WORD)>>
  <2>2. x \in Seq(Nat) /\ Len(x) < 4096 /\ p = Pkt!Packet(0, 1, 2, t, a, x)
    BY <1>0, <1>1, <2>1
  <2> HIDE DEF x
  <2> QED
    BY <1>0, <2>2 DEF PacketOK, Pkt!Packet
<1>7. CASE \E a \in Addrs, d \in Writes, t \in PktTags : p = Pkt!write_request(a, d, t)
  BY <1>0, <1>2, <1>4, <1>7 DEF Pkt!write_request
<1>8. CASE \E a \in Addrs, d \in Writes, t \in PktTags : p = Pkt!response(a, d, t)
  BY <1>0, <1>2, <1>4, <1>8 DEF Pkt!response
<1>9. CASE \E t \in PktTags : p = Pkt!error_response(t)
  <2>1. Pkt!NO_ADDR \in Nat
    BY SMT DEF Pkt!NO_ADDR
  <2>2. PICK t \in PktTags : p = Pkt!Packet(2, 2, 1, t, Pkt!NO_ADDR, <<>>)
    BY <1>9 DEF Pkt!error_response
  <2> QED
    BY <1>0, <1>3, <2>1, <2>2 DEF PacketOK, Pkt!Packet
<1> QED
  BY <1>5, <1>6, <1>7, <1>8, <1>9 DEF Pkt!DescriptorPacket

(* decode_word0 takes apart what encode_word0 put together, for every      *)
(* value of every field (packet.py, tidelink_packet.h).                    *)
LEMMA HeaderFields ==
    ASSUME NEW l \in Nat, NEW k \in Nat, NEW s \in Nat, NEW d \in Nat, NEW t \in Nat,
           l < 4096, k < 4, s < 32, d < 32, t < 256
    PROVE  /\ Pkt!encode_word0(l, k, s, d, t) \in Nat
           /\ Pkt!decode_word0(Pkt!encode_word0(l, k, s, d, t)) =
                [length |-> l, pkt_type |-> k, src_id |-> s, dest_id |-> d, tag |-> t]
<1>1. /\ l % 4096 = l /\ k % 4 = k /\ s % 32 = s /\ d % 32 = d /\ t % 256 = t
  BY SMT
<1> DEFINE w == l * 1048576 + k * 262144 + s * 8192 + d * 256 + t
<1>2. Pkt!encode_word0(l, k, s, d, t) = w /\ w \in Nat
  BY <1>1, SMT DEF Pkt!encode_word0
<1>3. w \div 1048576 = l /\ w % 256 = t
  BY SMT
<1>4. w \div 262144 = l * 4 + k
  BY SMT
<1>5. w \div 8192 = l * 128 + k * 32 + s
  BY SMT
<1>6. w \div 256 = l * 4096 + k * 1024 + s * 32 + d
  BY SMT
<1> HIDE DEF w
<1>7. /\ (l * 4 + k) % 4 = k /\ (l * 128 + k * 32 + s) % 32 = s
      /\ (l * 4096 + k * 1024 + s * 32 + d) % 32 = d
  BY SMT
<1>8. /\ (w \div 1048576) % 4096 = l /\ (w \div 262144) % 4 = k /\ (w \div 8192) % 32 = s
      /\ (w \div 256) % 32 = d /\ w % 256 = t
  BY <1>1, <1>3, <1>4, <1>5, <1>6, <1>7, SMT
<1>9. Pkt!decode_word0(w) = [length |-> l, pkt_type |-> k, src_id |-> s, dest_id |-> d, tag |-> t]
  BY <1>8, SMT DEF Pkt!decode_word0
<1> QED
  BY <1>2, <1>9, SMT

(* The header of a packet decodes to the packet's own fields. *)
LEMMA Header ==
    ASSUME NEW p \in Pkt!DescriptorPacket
    PROVE  /\ Pkt!word0(p) \in Nat
           /\ Pkt!decode_word0(Pkt!word0(p)) =
                [length |-> Len(p.data), pkt_type |-> p.pkt_type, src_id |-> p.src_id,
                 dest_id |-> p.dest_id, tag |-> p.tag]
<1>1. PacketOK(p)
  BY PacketsTyped
<1>2. /\ p.pkt_type \in Nat /\ p.src_id \in Nat /\ p.dest_id \in Nat /\ p.tag \in Nat
      /\ p.pkt_type < 4 /\ p.src_id < 32 /\ p.dest_id < 32 /\ p.tag < 256
      /\ Len(p.data) \in Nat /\ Len(p.data) < 4096
  BY <1>1 DEF PacketOK
<1> DEFINE l == Len(p.data)
           k == p.pkt_type
           s == p.src_id
           d == p.dest_id
           t == p.tag
<1>3. /\ l \in Nat /\ k \in Nat /\ s \in Nat /\ d \in Nat /\ t \in Nat
      /\ l < 4096 /\ k < 4 /\ s < 32 /\ d < 32 /\ t < 256
  BY <1>2
<1>4. ASSUME NEW l1, l1 = l, NEW k1, k1 = k, NEW s1, s1 = s, NEW d1, d1 = d, NEW t1, t1 = t
      PROVE  /\ Pkt!encode_word0(l1, k1, s1, d1, t1) \in Nat
             /\ Pkt!decode_word0(Pkt!encode_word0(l1, k1, s1, d1, t1))
                  = [length |-> l1, pkt_type |-> k1, src_id |-> s1, dest_id |-> d1, tag |-> t1]
  <2>1. /\ l1 \in Nat /\ k1 \in Nat /\ s1 \in Nat /\ d1 \in Nat /\ t1 \in Nat
        /\ l1 < 4096 /\ k1 < 4 /\ s1 < 32 /\ d1 < 32 /\ t1 < 256
    BY <1>3, <1>4
  <2> QED
    BY <2>1, HeaderFields
<1> QED
  BY <1>4, Zenon DEF Pkt!word0

(* tidelink_write_packet stores the header, the address and the payload,   *)
(* in this order.                                                          *)
LEMMA AllWords ==
    ASSUME NEW p \in Pkt!DescriptorPacket
    PROVE  /\ Pkt!stores(p) \in Seq(Nat) /\ Len(Pkt!stores(p)) = Len(p.data) + 2
           /\ Pkt!AreWords(Pkt!stores(p), p, 0)
<1>1. p.data \in Seq(Nat) /\ p.dest_addr \in Nat
  BY PacketsTyped DEF PacketOK
<1>2. <<Pkt!word0(p), p.dest_addr>> \in Seq(Nat)
  BY <1>1, Header
<1> QED
  BY <1>1, <1>2, ConcatProperties DEF Pkt!stores, Pkt!all_words, Pkt!AreWords, Pkt!WordOf

(* The words of a packet, parsed, are the packet. *)
LEMMA Parsed ==
    ASSUME NEW p \in Pkt!DescriptorPacket, NEW w \in Seq(Nat), Pkt!Whole(w, p)
    PROVE  /\ Len(p.data) \in Nat /\ Len(w) = Len(p.data) + 2
           /\ Pkt!decode_word0(w[1]).length = Len(p.data)
           /\ Pkt!parsed(w[1], w[2], SubSeq(w, 3, Len(w))) = p
<1>1. /\ PacketOK(p) /\ p.data \in Seq(Nat) /\ Len(p.data) \in Nat
      /\ Len(w) = Len(p.data) + 2 /\ Pkt!AreWords(w, p, 0)
  BY PacketsTyped DEF PacketOK, Pkt!Whole
<1>2. w[1] = Pkt!word0(p) /\ w[2] = p.dest_addr /\ \A i \in 1 .. Len(p.data) : w[i + 2] = p.data[i]
  <2>1. \A i \in 1 .. Len(p.data) + 2 : w[i] = Pkt!WordOf(p, i)
    BY <1>1 DEF Pkt!AreWords
  <2>2. w[1] = Pkt!word0(p) /\ w[2] = p.dest_addr
    <3>1. 1 \in 1 .. Len(p.data) + 2 /\ 2 \in 1 .. Len(p.data) + 2
      BY <1>1
    <3> QED
      BY <2>1, <3>1 DEF Pkt!WordOf
  <2>3. ASSUME NEW i \in 1 .. Len(p.data) PROVE w[i + 2] = p.data[i]
    <3>1. i + 2 \in 1 .. Len(p.data) + 2 /\ i + 2 # 1 /\ i + 2 # 2 /\ i + 2 - 2 = i
      BY <1>1
    <3>2. w[i + 2] = Pkt!WordOf(p, i + 2)
      BY <2>1, <3>1
    <3> QED
      BY <3>1, <3>2 DEF Pkt!WordOf
  <2> QED
    BY <2>2, <2>3
<1>3. SubSeq(w, 3, Len(w)) = p.data
  <2>1. /\ SubSeq(w, 3, Len(w)) \in Seq(Nat) /\ Len(SubSeq(w, 3, Len(w))) = Len(p.data)
        /\ \A i \in 1 .. Len(p.data) : SubSeq(w, 3, Len(w))[i] = w[3 + i - 1]
    BY <1>1, SubSeqProperties, SMTT(40)
  <2>2. \A i \in 1 .. Len(p.data) : SubSeq(w, 3, Len(w))[i] = p.data[i]
    BY <1>1, <1>2, <2>1
  <2> QED
    BY <1>1, <2>1, <2>2, SeqEqual
<1>4. Pkt!decode_word0(w[1]) = [length |-> Len(p.data), pkt_type |-> p.pkt_type, src_id |-> p.src_id,
                                dest_id |-> p.dest_id, tag |-> p.tag]
  BY <1>2, Header
<1>5. Pkt!parsed(w[1], w[2], SubSeq(w, 3, Len(w)))
        = Pkt!Packet(p.pkt_type, p.src_id, p.dest_id, p.tag, p.dest_addr, p.data)
  <2> DEFINE f == Pkt!decode_word0(w[1])
  <2>1. f.pkt_type = p.pkt_type /\ f.src_id = p.src_id /\ f.dest_id = p.dest_id /\ f.tag = p.tag
    BY <1>4
  <2>2. Pkt!parsed(w[1], w[2], SubSeq(w, 3, Len(w)))
          = Pkt!Packet(f.pkt_type, f.src_id, f.dest_id, f.tag, w[2], SubSeq(w, 3, Len(w)))
    BY Zenon DEF Pkt!parsed
  <2> HIDE DEF f
  <2> QED
    BY <1>2, <1>3, <2>1, <2>2, Zenon
<1> QED
  BY <1>1, <1>4, <1>5 DEF PacketOK

(* An empty mailbox satisfies the invariant of the packets. *)
LEMMA PktStarts == Pkt!Init => Pkt!IInv
BY DEF Pkt!Init, Pkt!IInv, Pkt!TypeOK, Pkt!Counted, Pkt!ReturnedAreSent, Pkt!WaitingAreSent,
       Pkt!LoadedIsNext, Pkt!StoredIsLast, Pkt!InHand, Pkt!InStore

(* Lengths are natural numbers, and empty sequences those of length zero. *)
LEMMA Lengths ==
    ASSUME Pkt!TypeOK
    PROVE  /\ Len(v1) \in Nat /\ Len(v2) \in Nat /\ Len(v3) \in Nat /\ Len(v4) \in Nat
           /\ Len(v6) \in Nat /\ Len(v7) \in Nat /\ Pkt!InHand \in {0, 1} /\ Pkt!InStore \in {0, 1}
           /\ (v4 = <<>> <=> Len(v4) = 0) /\ (v3 = <<>> <=> Len(v3) = 0) /\ (v1 = <<>> <=> Len(v1) = 0)
           /\ (v2 = <<>> <=> Len(v2) = 0)
BY EmptySeq DEF Pkt!TypeOK, Pkt!InHand, Pkt!InStore

(* A packet handed to the driver is the last one, and not yet in the FIFO. *)
LEMMA WritePacketKeeps == Pkt!IInv /\ Pkt!WritePacket => Pkt!IInv'
<1> SUFFICES ASSUME Pkt!IInv, Pkt!WritePacket PROVE Pkt!IInv'
  OBVIOUS
<1>0. /\ Pkt!TypeOK /\ Pkt!Counted /\ Pkt!ReturnedAreSent /\ Pkt!WaitingAreSent
      /\ Pkt!LoadedIsNext /\ Pkt!StoredIsLast
  BY DEF Pkt!IInv
<1>1. PICK p \in Pkt!DescriptorPacket : v3' = Pkt!stores(p) /\ v6' = Append(v6, p)
  BY DEF Pkt!WritePacket
<1>2. v3 = <<>> /\ UNCHANGED <<v1, v2, v4, v5, v7>>
  BY DEF Pkt!WritePacket
<1>3. /\ v6' \in Seq(Pkt!DescriptorPacket) /\ Len(v6') = Len(v6) + 1 /\ v6'[Len(v6) + 1] = p
      /\ \A i \in 1 .. Len(v6) : v6'[i] = v6[i]
  BY <1>0, <1>1 DEF Pkt!TypeOK
<1>4. v3' \in Seq(Nat) /\ Len(v3') = Len(p.data) + 2 /\ Pkt!AreWords(v3', p, 0) /\ Len(p.data) \in Nat
  BY <1>1, AllWords, PacketsTyped DEF PacketOK
<1>5. Pkt!InHand' = Pkt!InHand /\ Pkt!InStore = 0 /\ Pkt!InStore' = 1 /\ v3' # <<>>
  BY <1>2, <1>4 DEF Pkt!InHand, Pkt!InStore
<1>6. Pkt!TypeOK'
  BY <1>0, <1>2, <1>3, <1>4 DEF Pkt!TypeOK
<1>7. Pkt!Counted'
  BY <1>0, <1>2, <1>3, <1>5, Lengths DEF Pkt!Counted
<1>8. Pkt!ReturnedAreSent'
  BY <1>0, <1>2, <1>3, <1>5, Lengths DEF Pkt!Counted, Pkt!ReturnedAreSent
<1>9. Pkt!WaitingAreSent'
  BY <1>0, <1>2, <1>3, <1>5, Lengths DEF Pkt!Counted, Pkt!WaitingAreSent
<1>10. Pkt!LoadedIsNext'
  BY <1>0, <1>2, <1>3, <1>5, Lengths DEF Pkt!Counted, Pkt!LoadedIsNext, Pkt!AreWords
<1>11. Pkt!StoredIsLast'
  BY <1>0, <1>2, <1>3, <1>4, <1>5, Lengths DEF Pkt!StoredIsLast, Pkt!AreWords
<1> QED
  BY <1>6, <1>7, <1>8, <1>9, <1>10, <1>11 DEF Pkt!IInv

(* A stored word extends the open packet; the last one commits it whole. *)
LEMMA StoreKeeps == Pkt!IInv /\ Pkt!Store => Pkt!IInv'
<1> SUFFICES ASSUME Pkt!IInv, Pkt!Store PROVE Pkt!IInv'
  OBVIOUS
<1>0. /\ Pkt!TypeOK /\ Pkt!Counted /\ Pkt!ReturnedAreSent /\ Pkt!WaitingAreSent
      /\ Pkt!LoadedIsNext /\ Pkt!StoredIsLast
  BY DEF Pkt!IInv
<1> DEFINE p == v6[Len(v6)]
<1>1. v3 # <<>> /\ v3' = Tail(v3) /\ UNCHANGED <<v4, v5, v6, v7>> /\ Pkt!store(v3[1])
  BY DEF Pkt!Store
<1>2. /\ p \in Pkt!DescriptorPacket /\ Len(p.data) \in Nat /\ Len(v6) >= 1
      /\ Len(v2) + Len(v3) = Len(p.data) + 2
      /\ Pkt!AreWords(v2, p, 0) /\ Pkt!AreWords(v3, p, Len(v2))
  <2>1. Len(v6) \in 1 .. Len(v6)
    BY <1>0, <1>1, Lengths DEF Pkt!Counted, Pkt!InStore
  <2>2. p \in Pkt!DescriptorPacket
    BY <1>0, <2>1 DEF Pkt!TypeOK
  <2> QED
    BY <1>0, <1>1, <2>1, <2>2, PacketsTyped DEF Pkt!StoredIsLast, PacketOK
<1>3. /\ v3' \in Seq(Nat) /\ Len(v3') = Len(v3) - 1 /\ v3[1] \in Nat
      /\ \A i \in 1 .. Len(v3) - 1 : v3'[i] = v3[i + 1]
  BY <1>0, <1>1 DEF Pkt!TypeOK
<1> DEFINE F == Append(v2, v3[1])
<1>4. /\ F \in Seq(Nat) /\ Len(F) = Len(v2) + 1 /\ F[Len(v2) + 1] = v3[1]
      /\ \A i \in 1 .. Len(v2) : F[i] = v2[i]
  BY <1>0, <1>3 DEF Pkt!TypeOK
<1>5. Pkt!AreWords(F, p, 0)
  <2>1. v3[1] = Pkt!WordOf(p, Len(v2) + 1)
    BY <1>0, <1>1, <1>2, Lengths DEF Pkt!AreWords
  <2>2. \A i \in 1 .. Len(v2) : v2[i] = Pkt!WordOf(p, i)
    BY <1>0, <1>2, Lengths DEF Pkt!AreWords
  <2>3. \A i \in 1 .. Len(F) : F[i] = Pkt!WordOf(p, i)
    BY <1>0, <1>4, <2>1, <2>2, Lengths
  <2> HIDE DEF F, p
  <2> QED
    BY <1>4, <2>3 DEF Pkt!AreWords
<1>6. Pkt!AreWords(v3', p, Len(F))
  <2>1. \A i \in 1 .. Len(v3) : v3[i] = Pkt!WordOf(p, Len(v2) + i)
    BY <1>2 DEF Pkt!AreWords
  <2>2. ASSUME NEW i \in 1 .. Len(v3') PROVE v3'[i] = Pkt!WordOf(p, Len(F) + i)
    <3>1. i + 1 \in 1 .. Len(v3) /\ Len(v2) + (i + 1) = Len(F) + i /\ v3'[i] = v3[i + 1]
      BY <1>0, <1>3, <1>4, Lengths
    <3> QED
      BY <2>1, <3>1
  <2> QED
    BY <2>2 DEF Pkt!AreWords
<1>7. v2 # <<>> => Pkt!last_offset(v2) = Len(p.data) + 1
  <2>1. v2 # <<>> => v2[1] = Pkt!word0(p)
    BY <1>0, <1>2, Lengths DEF Pkt!AreWords, Pkt!WordOf
  <2> QED
    BY <1>2, <2>1, Header DEF Pkt!last_offset
<1>8. Pkt!InHand' = Pkt!InHand /\ Pkt!InStore = 1 /\ (Pkt!InStore' = IF v3' # <<>> THEN 1 ELSE 0)
      /\ (v3' = <<>> <=> Len(v3) <= 1)
  <2>1. v3' = <<>> <=> Len(v3') = 0
    BY <1>3, EmptySeq
  <2>2. v3' = <<>> <=> Len(v3) <= 1
    BY <1>0, <1>3, <2>1, Lengths
  <2> QED
    BY <1>1, <2>2 DEF Pkt!InHand, Pkt!InStore
<1> HIDE DEF p, F
<1>9. CASE v2 # <<>> /\ Len(v2) = Pkt!last_offset(v2)
  <2>1. v2' = <<>> /\ v1' = Append(v1, F) /\ v3' = <<>> /\ Pkt!InStore' = 0
    <3>1. Len(v3) <= 1
      <4>1. Len(v2) = Len(p.data) + 1
        BY <1>7, <1>9
      <4>2. Len(v3) \in Nat /\ Len(v2) \in Nat
        BY <1>0, Lengths
      <4>3. Len(v2) + Len(v3) = Len(p.data) + 2 /\ Len(p.data) \in Nat
        BY <1>2
      <4> QED
        BY <4>1, <4>2, <4>3
    <3>2. v2' = <<>> /\ v1' = Append(v1, F)
      BY <1>1, <1>9 DEF Pkt!store, F
    <3> QED
      BY <1>8, <3>1, <3>2
  <2>2. Pkt!Whole(F, p) /\ F \in Pkt!Frame
    BY <1>0, <1>2, <1>4, <1>5, <1>7, <1>9, Lengths, SMTT(40) DEF Pkt!Whole, Pkt!Frame
  <2>3. /\ v1' \in Seq(Pkt!Frame) /\ Len(v1') = Len(v1) + 1 /\ v1'[Len(v1) + 1] = F
        /\ \A i \in 1 .. Len(v1) : v1'[i] = v1[i]
    BY <1>0, <2>1, <2>2 DEF Pkt!TypeOK
  <2>4. Pkt!TypeOK'
    BY <1>0, <1>1, <1>3, <2>1, <2>3 DEF Pkt!TypeOK
  <2>5. Pkt!Counted'
    <3>1. /\ Len(v7) \in Nat /\ Len(v1) \in Nat /\ Len(v6) \in Nat
          /\ Pkt!InHand \in Nat /\ Pkt!InStore = 1 /\ Pkt!InHand' = Pkt!InHand
      BY <1>0, <1>8, Lengths
    <3>2. Len(v7') = Len(v7) /\ Len(v6') = Len(v6)
      BY <1>1
    <3>3. Len(v1') = Len(v1) + 1 /\ Pkt!InStore' = 0
      BY <2>1, <2>3
    <3>4. Len(v7) + Pkt!InHand + Len(v1) + Pkt!InStore = Len(v6)
      BY <1>0 DEF Pkt!Counted
    <3>5. Len(v7') + Pkt!InHand' + Len(v1') + Pkt!InStore' = Len(v6')
      BY <3>1, <3>2, <3>3, <3>4
    <3> QED
      BY <3>5 DEF Pkt!Counted
  <2>6. Pkt!ReturnedAreSent'
    BY <1>0, <1>1 DEF Pkt!ReturnedAreSent
  <2>7. Pkt!WaitingAreSent'
    <3>1. v6[Len(v7) + Pkt!InHand + (Len(v1) + 1)] = p
      BY <1>0, <1>8, Lengths, SMTT(40) DEF Pkt!Counted, p
    <3>2. ASSUME NEW i \in 1 .. Len(v1'), i # Len(v1) + 1
          PROVE  Pkt!Whole(v1'[i], v6[Len(v7) + Pkt!InHand + i])
      <4>1. i \in 1 .. Len(v1)
        BY <1>0, <2>3, <3>2, Lengths
      <4> QED
        BY <1>0, <2>3, <4>1 DEF Pkt!WaitingAreSent
    <3>3. \A i \in 1 .. Len(v1') : Pkt!Whole(v1'[i], v6[Len(v7) + Pkt!InHand + i])
      BY <2>2, <2>3, <3>1, <3>2
    <3> QED
      BY <1>1, <1>8, <3>3 DEF Pkt!WaitingAreSent
  <2>8. Pkt!LoadedIsNext'
    BY <1>0, <1>1, <1>8, <2>1, Lengths DEF Pkt!LoadedIsNext, Pkt!AreWords
  <2>9. Pkt!StoredIsLast'
    BY <2>1 DEF Pkt!StoredIsLast
  <2> QED
    BY <2>4, <2>5, <2>6, <2>7, <2>8, <2>9 DEF Pkt!IInv
<1>10. CASE ~(v2 # <<>> /\ Len(v2) = Pkt!last_offset(v2))
  <2>1. v2' = F /\ v1' = v1 /\ v3' # <<>> /\ Pkt!InStore' = 1
    <3>1. ~(Len(v3) <= 1)
      <4>1. Len(v2) < 1 \/ Len(v2) # Len(p.data) + 1
        BY <1>0, <1>7, <1>10, Lengths
      <4>2. Len(v3) \in Nat /\ Len(v2) \in Nat /\ Len(v3) >= 1
        BY <1>0, <1>1, Lengths
      <4>3. Len(v2) + Len(v3) = Len(p.data) + 2 /\ Len(p.data) \in Nat
        BY <1>2
      <4> QED
        BY <4>1, <4>2, <4>3
    <3>2. v2' = F /\ v1' = v1
      BY <1>1, <1>10 DEF Pkt!store, F
    <3> QED
      BY <1>8, <3>1, <3>2
  <2>2. Pkt!TypeOK'
    BY <1>0, <1>1, <1>3, <1>4, <2>1 DEF Pkt!TypeOK
  <2>3. Pkt!Counted' /\ Pkt!ReturnedAreSent'
    BY <1>0, <1>1, <1>8, <2>1 DEF Pkt!Counted, Pkt!ReturnedAreSent
  <2>4. Pkt!WaitingAreSent'
    BY <1>0, <1>1, <1>8, <2>1 DEF Pkt!WaitingAreSent
  <2>5. Pkt!LoadedIsNext'
    BY <1>0, <1>1, <1>8, <2>1, Lengths DEF Pkt!LoadedIsNext, Pkt!AreWords
  <2>6. Pkt!StoredIsLast'
    <3>1. v6'[Len(v6')] = p
      BY <1>1 DEF p
    <3>2. Len(v2') + Len(v3') = Len(p.data) + 2
      <4>1. Len(v2') = Len(v2) + 1 /\ Len(v3') = Len(v3) - 1 /\ Len(v2) + Len(v3) = Len(p.data) + 2
        BY <1>2, <1>3, <1>4, <2>1
      <4>2. Len(v2) \in Nat /\ Len(v3) \in Nat
        BY <1>0, Lengths
      <4>3. \A m, n \in Nat : (m + 1) + (n - 1) = m + n
        OBVIOUS
      <4> QED
        BY <4>1, <4>2, <4>3, Zenon
    <3> QED
      BY <1>5, <1>6, <2>1, <3>1, <3>2 DEF Pkt!StoredIsLast
  <2> QED
    BY <2>2, <2>3, <2>4, <2>5, <2>6 DEF Pkt!IInv
<1> QED
  BY <1>9, <1>10

(* The first load captures the length of the next packet. *)
LEMMA ReadHeaderKeeps == Pkt!IInv /\ Pkt!ReadHeader => Pkt!IInv'
<1> SUFFICES ASSUME Pkt!IInv, Pkt!ReadHeader PROVE Pkt!IInv'
  OBVIOUS
<1>0. /\ Pkt!TypeOK /\ Pkt!Counted /\ Pkt!ReturnedAreSent /\ Pkt!WaitingAreSent
      /\ Pkt!LoadedIsNext /\ Pkt!StoredIsLast
  BY DEF Pkt!IInv
<1> DEFINE p == v6[Len(v7) + 1]
           w == v1[1]
<1>1. v4 = <<>> /\ v1 # <<>> /\ Pkt!load(0) /\ v4' = <<w[1]>> /\ UNCHANGED <<v2, v3, v6, v7>>
  BY DEF Pkt!ReadHeader
<1>2. Pkt!InHand = 0 /\ Len(v1) >= 1 /\ Len(v7) + 1 \in 1 .. Len(v6) /\ Len(v7) < Len(v6) - Pkt!InStore
  <2>1. Pkt!InHand = 0
    BY <1>1 DEF Pkt!InHand
  <2> QED
    BY <1>0, <1>1, <2>1, Lengths DEF Pkt!Counted
<1>3. p \in Pkt!DescriptorPacket /\ w \in Seq(Nat) /\ Pkt!Whole(w, p)
  <2>1. 1 \in 1 .. Len(v1)
    BY <1>0, <1>2, Lengths
  <2>2. Pkt!Whole(v1[1], v6[Len(v7) + 0 + 1])
    BY <1>0, <1>2, <2>1 DEF Pkt!WaitingAreSent
  <2>3. Len(v7) + 0 + 1 = Len(v7) + 1
    BY <1>0, Lengths
  <2> QED
    BY <1>0, <1>2, <2>1, <2>2, <2>3 DEF Pkt!TypeOK, Pkt!Frame
<1> HIDE DEF p, w
<1>4. /\ Len(p.data) \in Nat /\ Len(w) = Len(p.data) + 2 /\ Pkt!decode_word0(w[1]).length = Len(p.data)
      /\ Pkt!AreWords(w, p, 0)
  BY <1>3, Parsed DEF Pkt!Whole
<1>5. v5' = Len(p.data) /\ v1' = v1
  <2>1. Pkt!last_offset(w) = Len(p.data) + 1
    BY <1>4 DEF Pkt!last_offset
  <2>2. Pkt!last_offset(w) # 0
    BY <1>4, <2>1
  <2> QED
    BY <1>1, <1>4, <2>2 DEF Pkt!load, w
<1>6. w[1] \in Nat
  BY <1>3, <1>4
<1>7. v4' \in Seq(Nat) /\ Len(v4') = 1 /\ v4'[1] = w[1] /\ v4' # <<>>
  BY <1>1, <1>6
<1>8. Pkt!InHand' = 0 /\ Pkt!InStore' = Pkt!InStore
  BY <1>1, <1>4, <1>5, <1>7 DEF Pkt!InHand, Pkt!InStore
<1>9. Pkt!TypeOK'
  BY <1>0, <1>1, <1>4, <1>5, <1>7 DEF Pkt!TypeOK
<1>10. Pkt!Counted' /\ Pkt!ReturnedAreSent'
  BY <1>0, <1>1, <1>2, <1>5, <1>8 DEF Pkt!Counted, Pkt!ReturnedAreSent
<1>11. Pkt!WaitingAreSent'
  BY <1>0, <1>1, <1>2, <1>5, <1>8 DEF Pkt!WaitingAreSent
<1>12. Pkt!LoadedIsNext'
  <2>1. Pkt!AreWords(v4', p, 0)
    <3>1. w[1] = Pkt!WordOf(p, 0 + 1)
      <4>1. 1 \in 1 .. Len(w)
        BY <1>4
      <4> QED
        BY <1>4, <4>1 DEF Pkt!AreWords
    <3> QED
      BY <1>7, <3>1 DEF Pkt!AreWords
  <2>2. v6'[Len(v7') + 1] = p
    BY <1>1 DEF p
  <2>3. Len(v4') <= v5' + 2 /\ Len(v7') < Len(v6') - Pkt!InStore'
    BY <1>1, <1>2, <1>4, <1>5, <1>7, <1>8
  <2> QED
    BY <1>5, <2>1, <2>2, <2>3 DEF Pkt!LoadedIsNext
<1>13. Pkt!StoredIsLast'
  BY <1>0, <1>1 DEF Pkt!StoredIsLast, Pkt!AreWords
<1> QED
  BY <1>9, <1>10, <1>11, <1>12, <1>13 DEF Pkt!IInv

(* A loaded word is the next one of that packet; the last load retires it. *)
LEMMA ReadWordKeeps == Pkt!IInv /\ Pkt!ReadWord => Pkt!IInv'
<1> SUFFICES ASSUME Pkt!IInv, Pkt!ReadWord PROVE Pkt!IInv'
  OBVIOUS
<1>0. /\ Pkt!TypeOK /\ Pkt!Counted /\ Pkt!ReturnedAreSent /\ Pkt!WaitingAreSent
      /\ Pkt!LoadedIsNext /\ Pkt!StoredIsLast
  BY DEF Pkt!IInv
<1> DEFINE p == v6[Len(v7) + 1]
           w == v1[1]
<1>1. /\ v4 # <<>> /\ Len(v4) < v5 + 2 /\ Pkt!load(Len(v4)) /\ v4' = Append(v4, w[Len(v4) + 1])
      /\ UNCHANGED <<v2, v3, v6, v7>>
  BY DEF Pkt!ReadWord
<1>2. /\ v5 = Len(p.data) /\ Pkt!AreWords(v4, p, 0) /\ Len(v7) < Len(v6) - Pkt!InStore
      /\ Len(v4) >= 1
  BY <1>0, <1>1, Lengths DEF Pkt!LoadedIsNext
<1>3. Pkt!InHand = 0 /\ Len(v1) >= 1 /\ Len(v7) + 1 \in 1 .. Len(v6)
  <2>1. Pkt!InHand = 0
    BY <1>0, <1>1, Lengths DEF Pkt!InHand, Pkt!TypeOK
  <2> QED
    BY <1>0, <1>2, <2>1, Lengths DEF Pkt!Counted
<1>4. p \in Pkt!DescriptorPacket /\ w \in Seq(Nat) /\ Pkt!Whole(w, p)
  <2>1. 1 \in 1 .. Len(v1)
    BY <1>0, <1>3, Lengths
  <2>2. Pkt!Whole(v1[1], v6[Len(v7) + 0 + 1])
    BY <1>0, <1>3, <2>1 DEF Pkt!WaitingAreSent
  <2>3. Len(v7) + 0 + 1 = Len(v7) + 1
    BY <1>0, Lengths
  <2> QED
    BY <1>0, <1>3, <2>1, <2>2, <2>3 DEF Pkt!TypeOK, Pkt!Frame
<1> HIDE DEF p, w
<1>5. /\ Len(p.data) \in Nat /\ Len(w) = Len(p.data) + 2 /\ Pkt!decode_word0(w[1]).length = Len(p.data)
      /\ Pkt!AreWords(w, p, 0)
  BY <1>4, Parsed DEF Pkt!Whole
<1>6. v5' = v5 /\ v1' = IF Len(v4) = v5 + 1 THEN Tail(v1) ELSE v1
  <2>1. Pkt!last_offset(w) = v5 + 1 /\ Len(v4) # 0
    BY <1>0, <1>2, <1>5, Lengths DEF Pkt!last_offset
  <2> QED
    BY <1>1, <2>1 DEF Pkt!load, w
<1>7. Len(v4) + 1 \in 1 .. Len(w) /\ w[Len(v4) + 1] \in Nat
  <2>1. Len(v4) \in Nat /\ Len(v4) < v5 + 2 /\ v5 = Len(p.data)
    BY <1>0, <1>1, <1>2, Lengths
  <2>2. Len(v4) + 1 \in 1 .. Len(w)
    BY <1>5, <2>1
  <2> QED
    BY <1>4, <2>2
<1>8. /\ v4' \in Seq(Nat) /\ Len(v4') = Len(v4) + 1 /\ v4' # <<>> /\ v4'[Len(v4) + 1] = w[Len(v4) + 1]
      /\ \A i \in 1 .. Len(v4) : v4'[i] = v4[i]
  <2>1. v4 \in Seq(Nat)
    BY <1>0 DEF Pkt!TypeOK
  <2>2. \A x \in Nat : /\ Append(v4, x) \in Seq(Nat) /\ Len(Append(v4, x)) = Len(v4) + 1
                        /\ Append(v4, x)[Len(v4) + 1] = x
                        /\ \A i \in 1 .. Len(v4) : Append(v4, x)[i] = v4[i]
    BY <2>1
  <2>3. Append(v4, w[Len(v4) + 1]) # <<>>
    BY <2>1
  <2> QED
    BY <1>1, <1>7, <2>2, <2>3
<1>9. Pkt!InHand' = (IF Len(v4) = v5 + 1 THEN 1 ELSE 0) /\ Pkt!InStore' = Pkt!InStore
  <2>1. Len(v4') = v5' + 2 <=> Len(v4) = v5 + 1
    <3>1. Len(v4) \in Nat /\ v5 \in Nat
      BY <1>0, <1>2, <1>5, Lengths
    <3> QED
      BY <1>6, <1>8, <3>1
  <2> QED
    BY <1>1, <1>8, <2>1 DEF Pkt!InHand, Pkt!InStore
<1>10. Pkt!LoadedIsNext'
  <2>1. Pkt!AreWords(v4', p, 0)
    <3>1. w[Len(v4) + 1] = Pkt!WordOf(p, 0 + (Len(v4) + 1))
      BY <1>5, <1>7 DEF Pkt!AreWords
    <3>2. \A i \in 1 .. Len(v4) : v4[i] = Pkt!WordOf(p, 0 + i)
      BY <1>2 DEF Pkt!AreWords
    <3>3. \A i \in 1 .. Len(v4) + 1 : v4'[i] = Pkt!WordOf(p, 0 + i)
      BY <1>0, <1>8, <3>1, <3>2, Lengths, SMTT(40)
    <3> QED
      BY <1>8, <3>3 DEF Pkt!AreWords
  <2>2. v6'[Len(v7') + 1] = p
    BY <1>1 DEF p
  <2>3. v5' = Len(p.data) /\ Len(v4') <= v5' + 2 /\ Len(v7') < Len(v6') - Pkt!InStore'
    BY <1>0, <1>1, <1>2, <1>5, <1>6, <1>8, <1>9, Lengths
  <2> QED
    BY <2>1, <2>2, <2>3 DEF Pkt!LoadedIsNext
<1>11. Pkt!StoredIsLast'
  BY <1>0, <1>1 DEF Pkt!StoredIsLast, Pkt!AreWords
<1>12. Pkt!ReturnedAreSent'
  BY <1>0, <1>1 DEF Pkt!ReturnedAreSent
<1>13. CASE Len(v4) = v5 + 1
  <2>1. /\ v1' \in Seq(Pkt!Frame) /\ Len(v1') = Len(v1) - 1
        /\ \A i \in 1 .. Len(v1) - 1 : v1'[i] = v1[i + 1]
    <3>1. v1' = Tail(v1) /\ v1 # <<>>
      BY <1>0, <1>3, <1>6, <1>13, Lengths
    <3> QED
      BY <1>0, <3>1 DEF Pkt!TypeOK
  <2>2. Pkt!TypeOK'
    BY <1>0, <1>1, <1>6, <1>8, <2>1 DEF Pkt!TypeOK
  <2>3. Pkt!Counted'
    BY <1>0, <1>1, <1>3, <1>9, <1>13, <2>1, Lengths DEF Pkt!Counted
  <2>4. Pkt!WaitingAreSent'
    <3>1. ASSUME NEW i \in 1 .. Len(v1') PROVE Pkt!Whole(v1'[i], v6[Len(v7) + 1 + i])
      <4>1. i + 1 \in 1 .. Len(v1) /\ v1'[i] = v1[i + 1] /\ Len(v7) + 0 + (i + 1) = Len(v7) + 1 + i
        BY <1>0, <2>1, Lengths
      <4> QED
        BY <1>0, <1>3, <4>1 DEF Pkt!WaitingAreSent
    <3> QED
      BY <1>1, <1>9, <1>13, <3>1 DEF Pkt!WaitingAreSent
  <2> QED
    BY <1>10, <1>11, <1>12, <2>2, <2>3, <2>4 DEF Pkt!IInv
<1>14. CASE Len(v4) # v5 + 1
  <2>1. v1' = v1 /\ Pkt!InHand' = Pkt!InHand
    BY <1>3, <1>6, <1>9, <1>14
  <2>2. Pkt!TypeOK'
    BY <1>0, <1>1, <1>6, <1>8, <2>1 DEF Pkt!TypeOK
  <2>3. Pkt!Counted'
    BY <1>0, <1>1, <1>9, <2>1 DEF Pkt!Counted
  <2>4. Pkt!WaitingAreSent'
    BY <1>0, <1>1, <2>1 DEF Pkt!WaitingAreSent
  <2> QED
    BY <1>10, <1>11, <1>12, <2>2, <2>3, <2>4 DEF Pkt!IInv
<1> QED
  BY <1>13, <1>14

(* A packet longer than the buffer stays the next one. *)
LEMMA ReadRefusedKeeps == Pkt!IInv /\ Pkt!ReadRefused => Pkt!IInv'
<1> SUFFICES ASSUME Pkt!IInv, Pkt!ReadRefused PROVE Pkt!IInv'
  OBVIOUS
<1>0. /\ Pkt!TypeOK /\ Pkt!Counted /\ Pkt!ReturnedAreSent /\ Pkt!WaitingAreSent
      /\ Pkt!LoadedIsNext /\ Pkt!StoredIsLast
  BY DEF Pkt!IInv
<1>1. Len(v4) = 2 /\ v5 > MaxPayload /\ v4' = <<>> /\ UNCHANGED <<v1, v2, v3, v5, v6, v7>>
  BY DEF Pkt!ReadRefused, Pkt!TooLong
<1>2. Pkt!InHand = 0 /\ Pkt!InHand' = 0 /\ Pkt!InStore' = Pkt!InStore
  BY <1>0, <1>1, PacketAssumption DEF Pkt!InHand, Pkt!InStore, Pkt!TypeOK
<1>3. Pkt!TypeOK' /\ Pkt!Counted'
  BY <1>0, <1>1, <1>2 DEF Pkt!TypeOK, Pkt!Counted
<1>4. Pkt!ReturnedAreSent' /\ Pkt!WaitingAreSent'
  BY <1>0, <1>1, <1>2 DEF Pkt!ReturnedAreSent, Pkt!WaitingAreSent
<1>5. Pkt!LoadedIsNext' /\ Pkt!StoredIsLast'
  BY <1>0, <1>1 DEF Pkt!LoadedIsNext, Pkt!StoredIsLast, Pkt!AreWords
<1> QED
  BY <1>3, <1>4, <1>5 DEF Pkt!IInv

(* The call returns the packet that was loaded. *)
LEMMA ReadReturnsKeeps == Pkt!IInv /\ Pkt!ReadReturns => Pkt!IInv'
<1> SUFFICES ASSUME Pkt!IInv, Pkt!ReadReturns PROVE Pkt!IInv'
  OBVIOUS
<1>0. /\ Pkt!TypeOK /\ Pkt!Counted /\ Pkt!ReturnedAreSent /\ Pkt!WaitingAreSent
      /\ Pkt!LoadedIsNext /\ Pkt!StoredIsLast
  BY DEF Pkt!IInv
<1> DEFINE p == v6[Len(v7) + 1]
<1>1. /\ v4 # <<>> /\ Len(v4) = v5 + 2 /\ v4' = <<>> /\ UNCHANGED <<v1, v2, v3, v5, v6>>
      /\ v7' = Append(v7, Pkt!parsed(v4[1], v4[2], SubSeq(v4, 3, Len(v4))))
  BY DEF Pkt!ReadReturns
<1>2. v5 = Len(p.data) /\ Pkt!AreWords(v4, p, 0) /\ Len(v7) < Len(v6) - Pkt!InStore
  BY <1>0, <1>1 DEF Pkt!LoadedIsNext
<1>3. Len(v7) + 1 \in 1 .. Len(v6) /\ p \in Pkt!DescriptorPacket
  <2>1. Len(v7) + 1 \in 1 .. Len(v6)
    BY <1>0, <1>2, Lengths
  <2> QED
    BY <1>0, <2>1 DEF Pkt!TypeOK
<1> HIDE DEF p
<1>4. v7' = Append(v7, p)
  <2>1. Pkt!Whole(v4, p) /\ v4 \in Seq(Nat)
    BY <1>0, <1>1, <1>2 DEF Pkt!Whole, Pkt!TypeOK
  <2> QED
    BY <1>1, <1>3, <2>1, Parsed
<1>5. /\ v7' \in Seq(Pkt!DescriptorPacket) /\ Len(v7') = Len(v7) + 1 /\ v7'[Len(v7) + 1] = p
      /\ \A i \in 1 .. Len(v7) : v7'[i] = v7[i]
  BY <1>0, <1>3, <1>4 DEF Pkt!TypeOK
<1>6. Pkt!InHand = 1 /\ Pkt!InHand' = 0 /\ Pkt!InStore' = Pkt!InStore
  BY <1>1 DEF Pkt!InHand, Pkt!InStore
<1>7. Pkt!TypeOK'
  BY <1>0, <1>1, <1>5 DEF Pkt!TypeOK
<1>8. Pkt!Counted'
  BY <1>0, <1>1, <1>5, <1>6, Lengths DEF Pkt!Counted
<1>9. Pkt!ReturnedAreSent'
  <2>1. ASSUME NEW i \in 1 .. Len(v7) + 1 PROVE v7'[i] = v6[i]
    <3>1. CASE i = Len(v7) + 1
      BY <1>5, <3>1 DEF p
    <3>2. CASE i # Len(v7) + 1
      <4>1. i \in 1 .. Len(v7)
        BY <1>0, <3>2, Lengths
      <4> QED
        BY <1>0, <1>5, <4>1 DEF Pkt!ReturnedAreSent
    <3> QED
      BY <3>1, <3>2
  <2> QED
    BY <1>1, <1>5, <2>1 DEF Pkt!ReturnedAreSent
<1>10. Pkt!WaitingAreSent'
  <2>1. ASSUME NEW i \in 1 .. Len(v1) PROVE Pkt!Whole(v1[i], v6[Len(v7') + 0 + i])
    <3>1. Len(v7) + 1 + i = Len(v7') + 0 + i
      BY <1>0, <1>5, Lengths
    <3> QED
      BY <1>0, <1>6, <3>1 DEF Pkt!WaitingAreSent
  <2> QED
    BY <1>1, <1>6, <2>1 DEF Pkt!WaitingAreSent
<1>11. Pkt!LoadedIsNext' /\ Pkt!StoredIsLast'
  BY <1>0, <1>1 DEF Pkt!LoadedIsNext, Pkt!StoredIsLast, Pkt!AreWords
<1> QED
  BY <1>7, <1>8, <1>9, <1>10, <1>11 DEF Pkt!IInv

(* Every step of the drivers keeps the invariant of the packets. *)
LEMMA PktStep == Pkt!IInv /\ Pkt!Next => Pkt!IInv'
BY WritePacketKeeps, StoreKeeps, ReadHeaderKeeps, ReadWordKeeps, ReadRefusedKeeps, ReadReturnsKeeps
   DEF Pkt!Next

(* A step of nothing keeps the invariant of the packets. *)
LEMMA PktStutters == Pkt!IInv /\ UNCHANGED Pkt!vars => Pkt!IInv'
BY
   DEF Pkt!vars, Pkt!IInv, Pkt!TypeOK, Pkt!Counted, Pkt!ReturnedAreSent, Pkt!WaitingAreSent,
       Pkt!LoadedIsNext,
       Pkt!StoredIsLast, Pkt!InHand, Pkt!InStore, Pkt!AreWords

(* With no call under way, what was returned and what waits is what was    *)
(* sent.                                                                   *)
LEMMA PktExact == Pkt!IInv => Pkt!RoundTrip
<1> SUFFICES ASSUME Pkt!IInv, v3 = <<>>, v4 = <<>> PROVE Pkt!RoundTrip
  BY DEF Pkt!RoundTrip
<1>0. Pkt!TypeOK /\ Pkt!Counted /\ Pkt!ReturnedAreSent /\ Pkt!WaitingAreSent
  BY DEF Pkt!IInv
<1>1. Pkt!InHand = 0 /\ Pkt!InStore = 0
  BY DEF Pkt!InHand, Pkt!InStore
<1>2. Len(v7) + Len(v1) = Len(v6)
  BY <1>0, <1>1, Lengths DEF Pkt!Counted
<1>3. ASSUME NEW i \in 1 .. Len(v1) PROVE Pkt!from_words(v1[i]) = v6[Len(v7) + i]
  <2> DEFINE p == v6[Len(v7) + i]
             w == v1[i]
  <2>1. Len(v7) + 0 + i = Len(v7) + i /\ Len(v7) + i \in 1 .. Len(v6)
    BY <1>0, <1>2, Lengths
  <2>2. p \in Pkt!DescriptorPacket /\ w \in Seq(Nat)
    BY <1>0, <2>1 DEF Pkt!TypeOK, Pkt!Frame
  <2>3. Pkt!Whole(w, p)
    BY <1>0, <1>1, <2>1 DEF Pkt!WaitingAreSent
  <2> HIDE DEF p, w
  <2>4. /\ Len(p.data) \in Nat /\ Len(w) = Len(p.data) + 2 /\ Pkt!decode_word0(w[1]).length = Len(p.data)
        /\ Pkt!parsed(w[1], w[2], SubSeq(w, 3, Len(w))) = p
    BY <2>2, <2>3, Parsed
  <2>5. 2 + Pkt!decode_word0(w[1]).length = Len(w)
    BY <2>4
  <2>6. Pkt!from_words(w) = p
    BY <2>4, <2>5, Zenon DEF Pkt!from_words
  <2> QED
    BY <2>6 DEF p, w
<1> QED
  BY <1>0, <1>2, <1>3 DEF Pkt!RoundTrip, Pkt!ReturnedAreSent

-----------------------------------------------------------------------------
(* The performance monitor *)

(* A positive multiple of W is at least W. *)
LEMMA MulBig == ASSUME NEW W \in Int, W > 0, NEW z \in Int, z >= 1 PROVE W * z >= W
OBVIOUS
(* Quotient and remainder. *)
LEMMA ModSplit == ASSUME NEW W \in Int, W > 0, NEW x \in Int
  PROVE /\ x % W \in Int /\ 0 <= x % W /\ x % W < W /\ x \div W \in Int /\ x = W * (x \div W) + (x % W)
OBVIOUS
(* Numbers that differ by a multiple of W leave the same remainder. *)
LEMMA ModSame == ASSUME NEW W \in Int, W > 0, NEW x \in Int, NEW y \in Int, NEW k \in Int, x = y - W * k
  PROVE x % W = y % W
<1> DEFINE q1 == x \div W
           r1 == x % W
           q2 == y \div W
           r2 == y % W
           z == q1 - q2 + k
<1>1. /\ r1 \in Int /\ r2 \in Int /\ q1 \in Int /\ q2 \in Int /\ 0 <= r1 /\ r1 < W /\ 0 <= r2 /\ r2 < W
      /\ x = W * q1 + r1 /\ y = W * q2 + r2
  BY ModSplit
<1> HIDE DEF q1, q2, r1, r2
<1>2. z \in Int /\ W * z = r2 - r1
  BY <1>1
<1> HIDE DEF z
<1>3. ~(z >= 1)
  BY <1>1, <1>2, MulBig
<1>4. ~(-z >= 1)
  <2>1. W * (-z) = r1 - r2
    BY <1>1, <1>2
  <2>2. -z >= 1 => W * (-z) >= W
    BY <1>2, MulBig
  <2> QED
    BY <1>1, <2>1, <2>2
<1>5. z = 0
  BY <1>2, <1>3, <1>4
<1>6. r1 = r2
  BY <1>1, <1>2, <1>5
<1> QED
  BY <1>6 DEF r1, r2

(* Seconds subtracted in W values, with the borrow or without it, give the *)
(* time elapsed modulo W (ts_diff_ns).                                     *)
LEMMA Elapsed ==
  ASSUME NEW W \in Nat, W # 0, NEW N \in Nat, N # 0, NEW a \in Nat, NEW b \in Nat
  PROVE  LET secs == (((a \div N) % W) - ((b \div N) % W)) % W IN
         /\ (secs * N + ((a % N) - (b % N))) % W = (a - b) % W
         /\ (((secs - 1) % W) * N + (N + (a % N) - (b % N))) % W = (a - b) % W
<1> DEFINE qa == a \div N
           qb == b \div N
           ra == a % N
           rb == b % N
           ka == qa \div W
           kb == qb \div W
           d == (qa % W) - (qb % W)
           secs == d % W
           ks == d \div W
           e == secs - 1
           k1 == e \div W
<1>1. /\ qa \in Int /\ qb \in Int /\ ra \in Int /\ rb \in Int
      /\ a = N * qa + ra /\ b = N * qb + rb
  BY ModSplit
<1> HIDE DEF qa, qb, ra, rb
<1>2. ka \in Int /\ kb \in Int /\ qa % W = qa - W * ka /\ qb % W = qb - W * kb
  BY <1>1, ModSplit
<1> HIDE DEF ka, kb
<1>3. d \in Int /\ d = (qa - W * ka) - (qb - W * kb)
  BY <1>1, <1>2
<1> HIDE DEF d
<1>4. ks \in Int /\ secs \in Int /\ secs = d - W * ks
  BY <1>3, ModSplit
<1> HIDE DEF secs, ks
<1>a. e \in Int
  BY <1>4
<1> HIDE DEF e
<1>b. k1 \in Int /\ e % W \in Int /\ e % W = e - W * k1
  BY <1>a, ModSplit
<1>5. k1 \in Int /\ (secs - 1) % W \in Int /\ (secs - 1) % W = secs - 1 - W * k1
  BY <1>b DEF e
<1> HIDE DEF k1
<1> DEFINE K == ka - kb + ks
<1>6. K \in Int /\ secs = (qa - qb) - W * K
  BY <1>1, <1>2, <1>3, <1>4
<1> HIDE DEF K
<1>7. secs * N + (ra - rb) = (a - b) - W * (K * N)
  BY <1>1, <1>6
<1>8. ((secs - 1) % W) * N + (N + ra - rb) = (a - b) - W * ((K + k1) * N)
  <2>1. (secs - 1 - W * k1) * N = secs * N - N - W * (k1 * N)
    BY <1>4, <1>5
  <2>2. W * ((K + k1) * N) = W * (K * N) + W * (k1 * N)
    BY <1>5, <1>6
  <2>3. W * (k1 * N) \in Int /\ W * (K * N) \in Int /\ secs * N \in Int
    BY <1>4, <1>5, <1>6
  <2>4. ((secs - 1) % W) * N = secs * N - N - W * (k1 * N)
    BY <1>5, <2>1
  <2> QED
    BY <1>1, <1>4, <1>7, <2>2, <2>3, <2>4
<1>9. K * N \in Int /\ (K + k1) * N \in Int
  BY <1>5, <1>6
<1>10. (secs * N + (ra - rb)) % W = (a - b) % W
  <2> DEFINE x == secs * N + (ra - rb)
             y == a - b
             k == K * N
  <2>1. x \in Int /\ x = y - W * k
    BY <1>1, <1>4, <1>7
  <2> HIDE DEF x
  <2>2. y \in Int /\ k \in Int /\ W \in Int /\ W > 0
    BY <1>9
  <2> HIDE DEF y, k
  <2>3. x % W = y % W
    BY <2>1, <2>2, ModSame, Zenon
  <2> QED
    BY <2>3 DEF x, y
<1>11. (((secs - 1) % W) * N + (N + ra - rb)) % W = (a - b) % W
  <2> DEFINE x == ((secs - 1) % W) * N + (N + ra - rb)
             y == a - b
             k == (K + k1) * N
  <2>1. x \in Int /\ x = y - W * k
    BY <1>1, <1>4, <1>5, <1>8
  <2> HIDE DEF x
  <2>2. y \in Int /\ k \in Int /\ W \in Int /\ W > 0
    BY <1>9
  <2> HIDE DEF y, k
  <2>3. x % W = y % W
    BY <2>1, <2>2, ModSame, Zenon
  <2> QED
    BY <2>3 DEF x, y
<1> QED
  BY <1>10, <1>11 DEF secs, d, qa, qb, ra, rb

(* The registers a call reads: the counters, and both halves of each       *)
(* stamp.                                                                  *)
LEMMA PerfRegs ==
    /\ Perf!CounterRegs \in Seq(Perf!Counters) /\ Len(Perf!CounterRegs) >= 5
    /\ Perf!PipelineRegs \in Seq(Perf!Stamps) /\ Len(Perf!PipelineRegs) >= 8
    /\ Perf!PipelineRegs[1] = "origin" /\ Perf!PipelineRegs[2] = "origin"
    /\ Perf!PipelineRegs[3] = "tx_start" /\ Perf!PipelineRegs[4] = "tx_start"
    /\ Perf!PipelineRegs[5] = "rx_first" /\ Perf!PipelineRegs[6] = "rx_first"
    /\ Perf!PipelineRegs[7] = "rx_done" /\ Perf!PipelineRegs[8] = "rx_done"
BY DEF Perf!CounterRegs, Perf!Counters, Perf!PipelineRegs, Perf!Stamps

(* Both halves of a stamp are natural numbers. *)
LEMMA Halves == ASSUME NEW t \in Nat PROVE Perf!ns(t) \in Nat /\ Perf!sec(t) \in Nat
<1>1. NsPerSec \in Int /\ NsPerSec > 0 /\ Word \in Int /\ Word > 0
  BY PerfAssumption
<1>2. t % NsPerSec \in Nat /\ t \div NsPerSec \in Int
  BY <1>1, ModSplit
<1>3. (t \div NsPerSec) % Word \in Nat
  BY <1>1, <1>2, ModSplit
<1> QED
  BY <1>2, <1>3 DEF Perf!ns, Perf!sec

(* A monitor out of reset satisfies its invariant. *)
LEMMA PerfStarts == Perf!Init => Perf!IInv
<1> SUFFICES ASSUME Perf!Init PROVE Perf!IInv
  OBVIOUS
<1>1. Perf!TypeOK
  BY DEF Perf!Init, Perf!TypeOK, Perf!idle
<1>2. Perf!StampedWhen
  BY DEF Perf!Init, Perf!StampedWhen
<1>3. Perf!InOrder /\ Perf!ReadFrozen /\ Perf!ReadCalm
  BY DEF Perf!Init, Perf!idle, Perf!InOrder, Perf!ReadFrozen, Perf!ReadCalm
<1>4. Perf!SnapshotIsOneInstant /\ Perf!LatenciesAreTimes
  BY DEF Perf!Init, Perf!SnapshotIsOneInstant, Perf!LatenciesAreTimes
<1> QED
  BY <1>1, <1>2, <1>3, <1>4 DEF Perf!IInv

(* A clock counts only when nothing is frozen, and a stamp it takes is of  *)
(* its own time.                                                           *)
LEMMA ClockKeeps == Perf!IInv /\ Perf!Clock => Perf!IInv'
<1> SUFFICES ASSUME Perf!IInv, Perf!Clock PROVE Perf!IInv'
  OBVIOUS
<1>0. /\ Perf!TypeOK /\ Perf!StampedWhen /\ Perf!InOrder /\ Perf!ReadFrozen /\ Perf!ReadCalm
      /\ Perf!SnapshotIsOneInstant /\ Perf!LatenciesAreTimes
  BY DEF Perf!IInv
<1>1. PICK e, ts :
        /\ v3' = IF Perf!active THEN Perf!counted(e) ELSE v3
        /\ v4' = [s \in Perf!Stamps |-> IF s \in ts THEN Perf!stamp_of(v1) ELSE v4[s]]
        /\ v5' = [s \in Perf!Stamps |-> IF s \in ts THEN v1 ELSE v5[s]]
        /\ v7' = [v7 EXCEPT !.calm = @ /\ ts = {}]
  <2>1. PICK e : LET ts == IF Perf!active THEN Perf!taken(e) ELSE {}
                 IN  /\ v3' = IF Perf!active THEN Perf!counted(e) ELSE v3
                     /\ v4' = [s \in Perf!Stamps |-> IF s \in ts THEN Perf!stamp_of(v1) ELSE v4[s]]
                     /\ v5' = [s \in Perf!Stamps |-> IF s \in ts THEN v1 ELSE v5[s]]
                     /\ v7' = [v7 EXCEPT !.calm = @ /\ ts = {}]
    BY DEF Perf!Clock
  <2> QED
    BY <2>1, Zenon
<1>2. v1' = v1 + 1 /\ UNCHANGED <<v2, v8, v9>>
  BY DEF Perf!Clock
<1>3. v7' = [call |-> v7.call, todo |-> v7.todo, buf |-> v7.buf, en |-> v7.en,
             calm |-> v7.calm /\ ts = {}, start |-> v7.start]
  BY <1>0, <1>1 DEF Perf!TypeOK
<1>4. /\ v7'.call = v7.call /\ v7'.todo = v7.todo /\ v7'.buf = v7.buf /\ v7'.start = v7.start /\ v7'.en = v7.en
      /\ v7'.calm = (v7.calm /\ ts = {})
  BY <1>3
<1>5. v3' \in [Perf!Counters -> Nat]
  <2>1. ASSUME NEW c \in Perf!Counters, NEW up PROVE Perf!sat_inc(v3[c], up) \in Nat
    BY <1>0 DEF Perf!sat_inc, Perf!TypeOK
  <2>2. Perf!counted(e) \in [Perf!Counters -> Nat]
    BY <2>1 DEF Perf!counted
  <2> QED
    BY <1>0, <1>1, <2>2 DEF Perf!TypeOK
<1>6. Perf!TypeOK'
  <2>1. v5' \in [Perf!Stamps -> Nat]
    BY <1>0, <1>1 DEF Perf!TypeOK
  <2>2. v7' = [call |-> v7'.call, todo |-> v7'.todo, buf |-> v7'.buf, en |-> v7'.en,
               calm |-> v7'.calm, start |-> v7'.start]
    BY <1>3
  <2> QED
    BY <1>0, <1>2, <1>4, <1>5, <2>1, <2>2 DEF Perf!TypeOK
<1>7. Perf!StampedWhen'
  <2>1. \A s \in Perf!Stamps : v4'[s] = Perf!stamp_of(v5'[s])
    BY <1>0, <1>1 DEF Perf!StampedWhen
  <2> QED
    BY <1>1, <2>1 DEF Perf!StampedWhen
<1>8. Perf!InOrder'
  BY <1>0, <1>4 DEF Perf!InOrder, Perf!Regs
<1>9. Perf!ReadFrozen'
  BY <1>0, <1>1, <1>2, <1>4 DEF Perf!ReadFrozen, Perf!active
<1>10. Perf!ReadCalm'
  <2> SUFFICES ASSUME v7'.call = "pipeline", v7'.calm PROVE Perf!ReadCalm'
    BY DEF Perf!ReadCalm
  <2>1. ts = {} /\ v7.calm
    BY <1>4
  <2>2. v5' = v5
    BY <1>0, <1>1, <2>1 DEF Perf!TypeOK
  <2> QED
    BY <1>0, <1>4, <2>1, <2>2 DEF Perf!ReadCalm
<1>11. Perf!SnapshotIsOneInstant' /\ Perf!LatenciesAreTimes'
  BY <1>0, <1>2 DEF Perf!SnapshotIsOneInstant, Perf!LatenciesAreTimes
<1> QED
  BY <1>6, <1>7, <1>8, <1>9, <1>10, <1>11 DEF Perf!IInv

(* The calls that set a register, and the first step of those that read    *)
(* several.                                                                *)
LEMMA PerfCallsKeep ==
    Perf!IInv /\ (Perf!Control \/ Perf!SetOrigin \/ Perf!GetCounters \/ Perf!GetPipeline) => Perf!IInv'
<1> SUFFICES ASSUME Perf!IInv PROVE Perf!Control \/ Perf!SetOrigin \/ Perf!GetCounters \/ Perf!GetPipeline => Perf!IInv'
  OBVIOUS
<1>0. /\ Perf!TypeOK /\ Perf!StampedWhen /\ Perf!InOrder /\ Perf!ReadFrozen /\ Perf!ReadCalm
      /\ Perf!SnapshotIsOneInstant /\ Perf!LatenciesAreTimes
  BY DEF Perf!IInv
<1>1. CASE Perf!Control
  <2>1. v7.call = "none" /\ UNCHANGED <<v1, v4, v5, v7, v9>>
    BY <1>1 DEF Perf!Control, Perf!begin
  <2>2. v2' \in [en : BOOLEAN, freeze : BOOLEAN] /\ v3' \in [Perf!Counters -> Nat]
    BY <1>0, <1>1 DEF Perf!Control, Perf!TypeOK
  <2>3. Perf!TypeOK'
    BY <1>0, <2>1, <2>2 DEF Perf!TypeOK
  <2>4. Perf!StampedWhen' /\ Perf!SnapshotIsOneInstant' /\ Perf!LatenciesAreTimes'
    BY <1>0, <2>1 DEF Perf!StampedWhen, Perf!SnapshotIsOneInstant, Perf!LatenciesAreTimes
  <2>5. Perf!InOrder' /\ Perf!ReadFrozen' /\ Perf!ReadCalm'
    BY <2>1 DEF Perf!InOrder, Perf!ReadFrozen, Perf!ReadCalm
  <2> QED
    BY <2>3, <2>4, <2>5 DEF Perf!IInv
<1>2. CASE Perf!SetOrigin
  <2>1. /\ v7.call = "none" /\ UNCHANGED <<v1, v2, v3, v7, v9>>
        /\ v4' = [v4 EXCEPT !["origin"] = Perf!stamp_of(v1)] /\ v5' = [v5 EXCEPT !["origin"] = v1]
    BY <1>2 DEF Perf!SetOrigin, Perf!begin
  <2>2. Perf!TypeOK'
    BY <1>0, <2>1 DEF Perf!TypeOK
  <2>3. Perf!StampedWhen'
    <3>1. "origin" \in Perf!Stamps
      BY DEF Perf!Stamps
    <3>2. \A s \in Perf!Stamps : v4'[s] = Perf!stamp_of(v5'[s])
      BY <1>0, <2>1, <3>1 DEF Perf!StampedWhen, Perf!TypeOK
    <3> QED
      BY <1>0, <2>1, <3>2 DEF Perf!StampedWhen
  <2>4. Perf!SnapshotIsOneInstant' /\ Perf!LatenciesAreTimes'
    BY <1>0, <2>1 DEF Perf!SnapshotIsOneInstant, Perf!LatenciesAreTimes
  <2>5. Perf!InOrder' /\ Perf!ReadFrozen' /\ Perf!ReadCalm'
    BY <2>1 DEF Perf!InOrder, Perf!ReadFrozen, Perf!ReadCalm
  <2> QED
    BY <2>2, <2>3, <2>4, <2>5 DEF Perf!IInv
<1>3. CASE Perf!GetCounters
  <2>1. /\ v2' = [en |-> v2.en, freeze |-> TRUE] /\ UNCHANGED <<v1, v3, v4, v5, v9>>
        /\ v7' = [call |-> "counters", todo |-> Perf!CounterRegs, buf |-> <<>>, en |-> v2.en,
                  calm |-> TRUE, start |-> v3]
    BY <1>3 DEF Perf!GetCounters, Perf!freeze, Perf!idle
  <2>2. /\ v7'.call = "counters" /\ v7'.todo = Perf!CounterRegs /\ v7'.buf = <<>> /\ v7'.start = v3
        /\ v7'.en \in BOOLEAN
        /\ v7' = [call |-> v7'.call, todo |-> v7'.todo, buf |-> v7'.buf, en |-> v7'.en,
                  calm |-> v7'.calm, start |-> v7'.start]
    BY <1>0, <2>1 DEF Perf!TypeOK
  <2>3. v7'.todo \in Seq(Perf!Counters \cup Perf!Stamps)
    BY <2>2, PerfRegs
  <2>4. Perf!TypeOK'
    BY <1>0, <2>1, <2>2, <2>3 DEF Perf!TypeOK
  <2>5. Perf!StampedWhen' /\ Perf!SnapshotIsOneInstant' /\ Perf!LatenciesAreTimes'
    BY <1>0, <2>1 DEF Perf!StampedWhen, Perf!SnapshotIsOneInstant, Perf!LatenciesAreTimes
  <2>6. Perf!InOrder' /\ Perf!ReadFrozen' /\ Perf!ReadCalm'
    BY <1>0, <2>1, <2>2, PerfRegs DEF Perf!InOrder, Perf!ReadFrozen, Perf!ReadCalm, Perf!Regs
  <2> QED
    BY <2>4, <2>5, <2>6 DEF Perf!IInv
<1>4. CASE Perf!GetPipeline
  <2>1. /\ UNCHANGED <<v1, v2, v3, v4, v5, v9>>
        /\ v7' = [call |-> "pipeline", todo |-> Perf!PipelineRegs, buf |-> <<>>, en |-> FALSE,
                  calm |-> TRUE, start |-> <<>>]
    BY <1>4 DEF Perf!GetPipeline, Perf!idle
  <2>2. /\ v7'.call = "pipeline" /\ v7'.todo = Perf!PipelineRegs /\ v7'.buf = <<>> /\ v7'.en \in BOOLEAN
        /\ v7' = [call |-> v7'.call, todo |-> v7'.todo, buf |-> v7'.buf, en |-> v7'.en,
                  calm |-> v7'.calm, start |-> v7'.start]
    BY <1>0, <2>1 DEF Perf!TypeOK
  <2>3. v7'.todo \in Seq(Perf!Counters \cup Perf!Stamps)
    BY <2>2, PerfRegs
  <2>4. Perf!TypeOK'
    BY <1>0, <2>1, <2>2, <2>3 DEF Perf!TypeOK
  <2>5. Perf!StampedWhen' /\ Perf!SnapshotIsOneInstant' /\ Perf!LatenciesAreTimes'
    BY <1>0, <2>1 DEF Perf!StampedWhen, Perf!SnapshotIsOneInstant, Perf!LatenciesAreTimes
  <2>6. Perf!InOrder' /\ Perf!ReadFrozen' /\ Perf!ReadCalm'
    BY <1>0, <2>1, <2>2, PerfRegs DEF Perf!InOrder, Perf!ReadFrozen, Perf!ReadCalm, Perf!Regs
  <2> QED
    BY <2>4, <2>5, <2>6 DEF Perf!IInv
<1> QED
  BY <1>1, <1>2, <1>3, <1>4

(* One more register read keeps the invariant, for counters and for        *)
(* stamps.                                                                 *)
LEMMA ReadKeeps ==
    ASSUME Perf!IInv, v7.call # "none", Len(v7.todo) >= 1, NEW x \in Nat,
           v7' = [v7 EXCEPT !.buf = Append(@, x), !.todo = Tail(@)], UNCHANGED <<v1, v2, v3, v4, v5, v6, v8, v9>>,
           v7.call = "counters" => x = v3[v7.todo[1]],
           v7.call = "pipeline" /\ v7.calm => x = Perf!Half(Len(v7.buf) + 1, v5[v7.todo[1]])
    PROVE  Perf!IInv'
<1>0. /\ Perf!TypeOK /\ Perf!StampedWhen /\ Perf!InOrder /\ Perf!ReadFrozen /\ Perf!ReadCalm
      /\ Perf!SnapshotIsOneInstant /\ Perf!LatenciesAreTimes
  BY DEF Perf!IInv
<1> DEFINE b == v7.buf
           t == v7.todo
<1>1. v7' = [call |-> v7.call, todo |-> Tail(t), buf |-> Append(b, x), en |-> v7.en,
             calm |-> v7.calm, start |-> v7.start]
  BY <1>0 DEF Perf!TypeOK
<1>2. /\ v7'.call = v7.call /\ v7'.todo = Tail(t) /\ v7'.buf = Append(b, x) /\ v7'.start = v7.start /\ v7'.en = v7.en
      /\ v7'.calm = v7.calm
      /\ v7' = [call |-> v7'.call, todo |-> v7'.todo, buf |-> v7'.buf, en |-> v7'.en,
                calm |-> v7'.calm, start |-> v7'.start]
  BY <1>1
<1>3. b \in Seq(Nat) /\ t \in Seq(Perf!Counters \cup Perf!Stamps) /\ t # <<>>
  BY <1>0 DEF Perf!TypeOK
<1>4. /\ Len(b) + Len(t) = Len(Perf!Regs)
      /\ \A i \in 1 .. Len(t) : t[i] = Perf!Regs[Len(b) + i]
  BY <1>0 DEF Perf!InOrder
<1>5. t[1] = Perf!Regs[Len(b) + 1]
  <2>1. 1 \in 1 .. Len(t)
    BY <1>3
  <2> QED
    BY <1>4, <2>1
<1>6. v7.call = "counters" => /\ v2.freeze /\ v7.start = v3 /\ x = v3[t[1]] /\ Perf!Regs = Perf!CounterRegs
                              /\ \A i \in 1 .. Len(b) : b[i] = v3[Perf!CounterRegs[i]]
  BY <1>0 DEF Perf!ReadFrozen, Perf!Regs
<1>7. v7.call = "pipeline" /\ v7.calm =>
        /\ x = Perf!Half(Len(b) + 1, v5[t[1]]) /\ Perf!Regs = Perf!PipelineRegs
        /\ \A i \in 1 .. Len(b) : b[i] = Perf!Half(i, v5[Perf!PipelineRegs[i]])
  BY <1>0 DEF Perf!ReadCalm, Perf!Regs
<1> HIDE DEF b, t
<1> DEFINE b1 == Append(b, x)
           t1 == Tail(t)
<1>8. /\ b1 \in Seq(Nat) /\ Len(b1) = Len(b) + 1 /\ b1[Len(b) + 1] = x
      /\ \A i \in 1 .. Len(b) : b1[i] = b[i]
  BY <1>3
<1>9. /\ t1 \in Seq(Perf!Counters \cup Perf!Stamps) /\ Len(t1) = Len(t) - 1
      /\ \A i \in 1 .. Len(t) - 1 : t1[i] = t[i + 1]
  BY <1>3
<1>10. v7'.buf = b1 /\ v7'.todo = t1 /\ Len(b) \in Nat /\ Len(t) \in Nat
  <2>1. Len(b) \in Nat
    BY <1>3
  <2>2. Len(t) \in Nat
    BY <1>3
  <2> QED
    BY <1>2, <2>1, <2>2
<1> HIDE DEF b1, t1
<1>11. Perf!TypeOK'
  BY <1>0, <1>2, <1>8, <1>9, <1>10 DEF Perf!TypeOK
<1>12. Perf!StampedWhen' /\ Perf!SnapshotIsOneInstant' /\ Perf!LatenciesAreTimes'
  BY <1>0 DEF Perf!StampedWhen, Perf!SnapshotIsOneInstant, Perf!LatenciesAreTimes
<1>13. Perf!InOrder'
  <2>1. Perf!Regs' = Perf!Regs
    BY <1>2 DEF Perf!Regs
  <2>2. Len(b1) + Len(t1) = Len(Perf!Regs)
    <3>1. Len(b) + Len(t) = Len(Perf!Regs) /\ Len(b1) = Len(b) + 1 /\ Len(t1) = Len(t) - 1
      BY <1>4, <1>8, <1>9
    <3>2. \A m, n \in Nat : (m + 1) + (n - 1) = m + n
      OBVIOUS
    <3> QED
      BY <1>10, <3>1, <3>2, Zenon
  <2>3. ASSUME NEW i \in 1 .. Len(t1) PROVE t1[i] = Perf!Regs[Len(b1) + i]
    <3>1. i \in 1 .. Len(t) - 1 /\ i + 1 \in 1 .. Len(t)
      BY <1>9, <1>10
    <3>2. Len(b) + (i + 1) = Len(b1) + i
      BY <1>8, <1>10
    <3> QED
      BY <1>4, <1>9, <3>1, <3>2
  <2> QED
    BY <1>2, <1>10, <2>1, <2>2, <2>3 DEF Perf!InOrder
<1>14. Perf!ReadFrozen'
  <2> SUFFICES ASSUME v7.call = "counters" PROVE Perf!ReadFrozen'
    BY <1>2 DEF Perf!ReadFrozen
  <2>1. ASSUME NEW i \in 1 .. Len(b1) PROVE b1[i] = v3[Perf!CounterRegs[i]]
    <3>1. CASE i = Len(b) + 1
      BY <1>5, <1>6, <1>8, <3>1
    <3>2. CASE i # Len(b) + 1
      <4>1. i \in 1 .. Len(b)
        BY <1>8, <1>10, <3>2
      <4> QED
        BY <1>6, <1>8, <4>1
    <3> QED
      BY <3>1, <3>2
  <2> QED
    BY <1>2, <1>6, <1>10, <2>1, SMTT(40) DEF Perf!ReadFrozen
<1>15. Perf!ReadCalm'
  <2> SUFFICES ASSUME v7.call = "pipeline", v7.calm PROVE Perf!ReadCalm'
    BY <1>2 DEF Perf!ReadCalm
  <2>1. ASSUME NEW i \in 1 .. Len(b1) PROVE b1[i] = Perf!Half(i, v5[Perf!PipelineRegs[i]])
    <3>1. CASE i = Len(b) + 1
      BY <1>5, <1>7, <1>8, <3>1
    <3>2. CASE i # Len(b) + 1
      <4>1. i \in 1 .. Len(b)
        BY <1>8, <1>10, <3>2
      <4> QED
        BY <1>7, <1>8, <4>1
    <3> QED
      BY <3>1, <3>2
  <2> QED
    BY <1>2, <1>10, <2>1 DEF Perf!ReadCalm
<1> QED
  BY <1>11, <1>12, <1>13, <1>14, <1>15 DEF Perf!IInv

(* A counter is read under the freeze. *)
LEMMA ReadCounterKeeps == Perf!IInv /\ Perf!ReadCounter => Perf!IInv'
<1> SUFFICES ASSUME Perf!IInv, Perf!ReadCounter PROVE Perf!IInv'
  OBVIOUS
<1>0. Perf!TypeOK /\ Perf!InOrder
  BY DEF Perf!IInv
<1> DEFINE x == v3[v7.todo[1]]
<1>1. /\ v7.call = "counters" /\ v7.todo # <<>>
      /\ v7' = [v7 EXCEPT !.buf = Append(@, x), !.todo = Tail(@)]
      /\ UNCHANGED <<v1, v2, v3, v4, v5, v6, v8, v9>>
  BY DEF Perf!ReadCounter
<1>2. Len(v7.todo) >= 1 /\ Len(v7.buf) \in Nat
  BY <1>0, <1>1 DEF Perf!TypeOK
<1>3. x \in Nat
  <2> DEFINE n == Len(v7.buf)
  <2>1. /\ n + Len(v7.todo) = Len(Perf!CounterRegs)
        /\ \A i \in 1 .. Len(v7.todo) : v7.todo[i] = Perf!CounterRegs[n + i]
    BY <1>0, <1>1 DEF Perf!InOrder, Perf!Regs
  <2>a. n \in Nat /\ Len(v7.todo) \in Nat
    BY <1>0 DEF Perf!TypeOK
  <2> HIDE DEF n
  <2>b. 1 \in 1 .. Len(v7.todo) /\ n + 1 \in 1 .. Len(Perf!CounterRegs)
    BY <1>2, <2>1, <2>a
  <2>2. v7.todo[1] \in Perf!Counters
    BY <2>1, <2>b, PerfRegs, SMTT(40)
  <2> QED
    BY <1>0, <2>2 DEF Perf!TypeOK
<1> HIDE DEF x
<1>4. x = v3[v7.todo[1]]
  BY DEF x
<1> QED
  BY <1>1, <1>2, <1>3, <1>4, ReadKeeps

(* A stamp is read half by half. *)
LEMMA ReadStampKeeps == Perf!IInv /\ Perf!ReadStamp => Perf!IInv'
<1> SUFFICES ASSUME Perf!IInv, Perf!ReadStamp PROVE Perf!IInv'
  OBVIOUS
<1>0. Perf!TypeOK /\ Perf!InOrder /\ Perf!StampedWhen
  BY DEF Perf!IInv
<1> DEFINE r == v7.todo[1]
           x == IF Len(v7.buf) % 2 = 0 THEN v4[r].n ELSE v4[r].s
<1>1. /\ v7.call = "pipeline" /\ v7.todo # <<>>
      /\ v7' = [v7 EXCEPT !.buf = Append(@, x), !.todo = Tail(@)]
      /\ UNCHANGED <<v1, v2, v3, v4, v5, v6, v8, v9>>
  BY DEF Perf!ReadStamp
<1>2. Len(v7.todo) >= 1 /\ Len(v7.buf) \in Nat
  BY <1>0, <1>1 DEF Perf!TypeOK
<1>3. r \in Perf!Stamps
  <2> DEFINE n == Len(v7.buf)
  <2>1. /\ n + Len(v7.todo) = Len(Perf!PipelineRegs)
        /\ \A i \in 1 .. Len(v7.todo) : v7.todo[i] = Perf!PipelineRegs[n + i]
    BY <1>0, <1>1 DEF Perf!InOrder, Perf!Regs
  <2>a. n \in Nat /\ Len(v7.todo) \in Nat
    BY <1>0 DEF Perf!TypeOK
  <2> HIDE DEF n
  <2>b. 1 \in 1 .. Len(v7.todo) /\ n + 1 \in 1 .. Len(Perf!PipelineRegs)
    BY <1>2, <2>1, <2>a
  <2> QED
    BY <2>1, <2>b, PerfRegs, SMTT(40)
<1> HIDE DEF r
<1>4. v5[r] \in Nat /\ v4[r].n = Perf!ns(v5[r]) /\ v4[r].s = Perf!sec(v5[r])
  BY <1>0, <1>3 DEF Perf!TypeOK, Perf!StampedWhen, Perf!stamp_of
<1>5. x \in Nat
  BY <1>4, Halves
<1>6. x = Perf!Half(Len(v7.buf) + 1, v5[r])
  <2>a. \A k \in Nat : (k + 1) % 2 = 1 <=> k % 2 = 0
    OBVIOUS
  <2>1. (Len(v7.buf) + 1) % 2 = 1 <=> Len(v7.buf) % 2 = 0
    BY <1>2, <2>a, Zenon
  <2> QED
    BY <1>4, <2>1 DEF Perf!Half
<1> HIDE DEF x
<1>7. x = Perf!Half(Len(v7.buf) + 1, v5[v7.todo[1]])
  BY <1>6 DEF r
<1> QED
  BY <1>1, <1>2, <1>5, <1>7, ReadKeeps

(* A call that returns leaves the rest of the invariant as it is. *)
LEMMA CallsReturn ==
    ASSUME Perf!IInv, v7' = Perf!idle, UNCHANGED <<v1, v3, v4, v5>>, v2' \in [en : BOOLEAN, freeze : BOOLEAN],
           Perf!SnapshotIsOneInstant', Perf!LatenciesAreTimes'
    PROVE  Perf!IInv'
<1>0. Perf!TypeOK /\ Perf!StampedWhen
  BY DEF Perf!IInv
<1>1. Perf!TypeOK'
  BY <1>0 DEF Perf!TypeOK, Perf!idle
<1>2. Perf!StampedWhen'
  BY <1>0 DEF Perf!StampedWhen
<1>3. Perf!InOrder' /\ Perf!ReadFrozen' /\ Perf!ReadCalm'
  BY DEF Perf!InOrder, Perf!ReadFrozen, Perf!ReadCalm, Perf!idle
<1> QED
  BY <1>1, <1>2, <1>3 DEF Perf!IInv

(* tl_perf_get_counters returns the counters of the freeze. *)
LEMMA UnfreezeKeeps == Perf!IInv /\ Perf!Unfreeze => Perf!IInv'
<1> SUFFICES ASSUME Perf!IInv, Perf!Unfreeze PROVE Perf!IInv'
  OBVIOUS
<1>0. Perf!TypeOK /\ Perf!InOrder /\ Perf!ReadFrozen
  BY DEF Perf!IInv
<1>1. /\ v7.call = "counters" /\ v7.todo = <<>> /\ v7' = Perf!idle /\ UNCHANGED <<v1, v3, v4, v5>>
      /\ v2' = [en |-> v7.en, freeze |-> FALSE]
      /\ v9'.call = "counters" /\ v9'.buf = v7.buf /\ v9'.at = v7.start
  BY DEF Perf!Unfreeze
<1> DEFINE b == v7.buf
<1>2. b \in Seq(Nat) /\ Len(b) = Len(Perf!CounterRegs) /\ v7.start = v3
      /\ \A i \in 1 .. Len(b) : b[i] = v3[Perf!CounterRegs[i]]
  BY <1>0, <1>1 DEF Perf!TypeOK, Perf!InOrder, Perf!Regs, Perf!ReadFrozen
<1> HIDE DEF b
<1>3. b = [i \in 1 .. Len(Perf!CounterRegs) |-> v3[Perf!CounterRegs[i]]]
  BY <1>2
<1>4. Perf!SnapshotIsOneInstant' /\ Perf!LatenciesAreTimes'
  BY <1>1, <1>2, <1>3 DEF Perf!SnapshotIsOneInstant, Perf!LatenciesAreTimes, b
<1>5. v2' \in [en : BOOLEAN, freeze : BOOLEAN]
  BY <1>0, <1>1 DEF Perf!TypeOK
<1> QED
  BY <1>1, <1>4, <1>5, CallsReturn

(* ts_diff_ns of two stamps is the time between them, in the registers'    *)
(* width.                                                                  *)
LEMMA Difference ==
    ASSUME NEW t \in Nat, NEW u \in Nat
    PROVE  Perf!ts_diff_ns([n |-> Perf!ns(t), s |-> Perf!sec(t)], [n |-> Perf!ns(u), s |-> Perf!sec(u)])
             = (t - u) % Word
<1>1. Word \in Nat /\ Word # 0 /\ NsPerSec \in Nat /\ NsPerSec # 0
  BY PerfAssumption
<1>2. LET secs == (((t \div NsPerSec) % Word) - ((u \div NsPerSec) % Word)) % Word IN
      /\ (secs * NsPerSec + ((t % NsPerSec) - (u % NsPerSec))) % Word = (t - u) % Word
      /\ (((secs - 1) % Word) * NsPerSec + (NsPerSec + (t % NsPerSec) - (u % NsPerSec))) % Word = (t - u) % Word
  BY <1>1, Elapsed, ZenonT(60)
<1> QED
  BY <1>2, Zenon DEF Perf!ts_diff_ns, Perf!ns, Perf!sec

(* The three stages add up to the total, in the registers' width. *)
LEMMA SumOfStages ==
    ASSUME NEW a \in Int, NEW b \in Int, NEW c \in Int, NEW d \in Int
    PROVE  (((b - a) % Word) + ((c - b) % Word) + ((d - c) % Word)) % Word = (d - a) % Word
<1> DEFINE W == Word
<1>0. W \in Int /\ W > 0
  BY PerfAssumption
<1> HIDE DEF W
<1> DEFINE x1 == b - a
           x2 == c - b
           x3 == d - c
           k1 == x1 \div W
           k2 == x2 \div W
           k3 == x3 \div W
           x == (x1 % W) + (x2 % W) + (x3 % W)
           y == d - a
           k == k1 + k2 + k3
<1>1. x1 \in Int /\ x2 \in Int /\ x3 \in Int /\ x1 + x2 + x3 = y /\ y \in Int
  OBVIOUS
<1> HIDE DEF x1, x2, x3, y
<1>2. /\ k1 \in Int /\ x1 % W = x1 - W * k1 /\ k2 \in Int /\ x2 % W = x2 - W * k2
      /\ k3 \in Int /\ x3 % W = x3 - W * k3
  BY <1>0, <1>1, ModSplit
<1> HIDE DEF k1, k2, k3
<1>3. k \in Int /\ x \in Int /\ x = y - W * k
  BY <1>0, <1>1, <1>2
<1> HIDE DEF x, k
<1>4. x % W = y % W
  BY <1>0, <1>1, <1>3, ModSame, Zenon
<1> QED
  BY <1>4, Zenon DEF x, y, x1, x2, x3, W

(* tl_perf_get_pipeline_ns returns times between events when none was      *)
(* stamped meanwhile.                                                      *)
LEMMA LatenciesKeep == Perf!IInv /\ Perf!Latencies => Perf!IInv'
<1> SUFFICES ASSUME Perf!IInv, Perf!Latencies PROVE Perf!IInv'
  OBVIOUS
<1>0. Perf!TypeOK /\ Perf!InOrder /\ Perf!ReadCalm
  BY DEF Perf!IInv
<1> DEFINE b == v7.buf
           R(i) == [n |-> b[2 * i - 1], s |-> b[2 * i]]
<1>1. /\ v7.call = "pipeline" /\ v7.todo = <<>> /\ v7' = Perf!idle /\ UNCHANGED <<v1, v2, v3, v4, v5>>
      /\ v9' = [call |-> "pipeline", calm |-> v7.calm, at |-> v5,
                sw |-> Perf!ts_diff_ns(R(2), R(1)), link |-> Perf!ts_diff_ns(R(3), R(2)),
                fifo |-> Perf!ts_diff_ns(R(4), R(3)), total |-> Perf!ts_diff_ns(R(4), R(1))]
  BY DEF Perf!Latencies
<1>2. v2' \in [en : BOOLEAN, freeze : BOOLEAN]
  BY <1>0, <1>1 DEF Perf!TypeOK
<1>3. Perf!SnapshotIsOneInstant'
  BY <1>1 DEF Perf!SnapshotIsOneInstant
<1>4. ASSUME v7.calm PROVE Perf!LatenciesAreTimes'
  <2>1. \A i \in 1 .. 8 : b[i] = Perf!Half(i, v5[Perf!PipelineRegs[i]])
    <3>1. Len(b) >= 8 /\ Len(b) \in Nat
      BY <1>0, <1>1, PerfRegs DEF Perf!TypeOK, Perf!InOrder, Perf!Regs
    <3>2. \A i \in 1 .. Len(b) : b[i] = Perf!Half(i, v5[Perf!PipelineRegs[i]])
      BY <1>0, <1>1, <1>4 DEF Perf!ReadCalm
    <3> QED
      BY <3>1, <3>2
  <2>2. /\ R(1) = [n |-> Perf!ns(v5["origin"]), s |-> Perf!sec(v5["origin"])]
        /\ R(2) = [n |-> Perf!ns(v5["tx_start"]), s |-> Perf!sec(v5["tx_start"])]
        /\ R(3) = [n |-> Perf!ns(v5["rx_first"]), s |-> Perf!sec(v5["rx_first"])]
        /\ R(4) = [n |-> Perf!ns(v5["rx_done"]), s |-> Perf!sec(v5["rx_done"])]
    <3>1. /\ b[1] = Perf!ns(v5["origin"]) /\ b[2] = Perf!sec(v5["origin"])
          /\ b[3] = Perf!ns(v5["tx_start"]) /\ b[4] = Perf!sec(v5["tx_start"])
          /\ b[5] = Perf!ns(v5["rx_first"]) /\ b[6] = Perf!sec(v5["rx_first"])
          /\ b[7] = Perf!ns(v5["rx_done"]) /\ b[8] = Perf!sec(v5["rx_done"])
      BY <2>1, PerfRegs DEF Perf!Half
    <3> HIDE DEF b
    <3> QED
      BY <3>1
  <2>3. v5["origin"] \in Nat /\ v5["tx_start"] \in Nat /\ v5["rx_first"] \in Nat /\ v5["rx_done"] \in Nat
    BY <1>0 DEF Perf!TypeOK, Perf!Stamps
  <2> DEFINE o == v5["origin"]
             t == v5["tx_start"]
             f == v5["rx_first"]
             d == v5["rx_done"]
  <2>4. /\ Perf!ts_diff_ns(R(2), R(1)) = (t - o) % Word /\ Perf!ts_diff_ns(R(3), R(2)) = (f - t) % Word
        /\ Perf!ts_diff_ns(R(4), R(3)) = (d - f) % Word /\ Perf!ts_diff_ns(R(4), R(1)) = (d - o) % Word
    <3> HIDE DEF R
    <3> QED
      BY <2>2, <2>3, Difference, Zenon
  <2>5. (((t - o) % Word) + ((f - t) % Word) + ((d - f) % Word)) % Word = (d - o) % Word
    <3>1. o \in Int /\ t \in Int /\ f \in Int /\ d \in Int /\ Word \in Nat /\ Word # 0
      BY <2>3, PerfAssumption
    <3> HIDE DEF o, t, f, d
    <3> QED
      BY <3>1, SumOfStages, ZenonT(60)
  <2>6. /\ v9'.at = v5 /\ v9'.sw = (t - o) % Word /\ v9'.link = (f - t) % Word
        /\ v9'.fifo = (d - f) % Word /\ v9'.total = (d - o) % Word
    <3> HIDE DEF R
    <3>1. /\ v9'.at = v5 /\ v9'.sw = Perf!ts_diff_ns(R(2), R(1)) /\ v9'.link = Perf!ts_diff_ns(R(3), R(2))
          /\ v9'.fifo = Perf!ts_diff_ns(R(4), R(3)) /\ v9'.total = Perf!ts_diff_ns(R(4), R(1))
      BY <1>1
    <3> QED
      BY <2>4, <3>1, Zenon
  <2> QED
    BY <2>5, <2>6, Zenon DEF Perf!LatenciesAreTimes
<1>5. ASSUME ~v7.calm PROVE Perf!LatenciesAreTimes'
  <2>1. ~v9'.calm
    BY <1>1, <1>5
  <2> QED
    BY <2>1 DEF Perf!LatenciesAreTimes
<1> QED
  BY <1>1, <1>2, <1>3, <1>4, <1>5, CallsReturn

(* Every step of the monitor and of its driver keeps the invariant. *)
LEMMA PerfStep == Perf!IInv /\ Perf!Next => Perf!IInv'
BY ClockKeeps, PerfCallsKeep, ReadCounterKeeps, UnfreezeKeeps, ReadStampKeeps, LatenciesKeep
   DEF Perf!Next

(* A step of nothing keeps the invariant of the monitor. *)
LEMMA PerfStutters == Perf!IInv /\ UNCHANGED Perf!vars => Perf!IInv'
BY
   DEF Perf!vars, Perf!IInv, Perf!TypeOK, Perf!StampedWhen, Perf!InOrder, Perf!Regs,
       Perf!ReadFrozen, Perf!ReadCalm,
       Perf!SnapshotIsOneInstant, Perf!LatenciesAreTimes

-----------------------------------------------------------------------------
(* The pin-bump check *)

(* A push has ranges and each of them moves, and the check stands at one. *)
LEMMA Standing ==
    ASSUME Bump!TypeOK
    PROVE  /\ Len(v1.push) \in Nat /\ v2.r \in Nat /\ v2.m \in Nat /\ v2.r >= 1 /\ v2.m >= 1
           /\ v2.r <= Len(v1.push) /\ v2.m <= Len(v1.push[v2.r].moves)
           /\ \A r \in 1 .. Len(v1.push) : Len(v1.push[r].moves) \in Nat /\ Len(v1.push[r].moves) >= 1
BY BumpAssumption DEF Bump!TypeOK, Bump!moves, Bump!range

(* What a move needs is a matter of the command line alone, and what was   *)
(* asked and what ran is kept: a move once backed stays backed.            *)
LEMMA BackedStays ==
    ASSUME v1' = v1, v4 \subseteq v4', \A k \in DOMAIN v3 : k \in DOMAIN v3' /\ v3'[k] = v3[k],
           NEW r, NEW m, Bump!BackedAt(r, m)
    PROVE  Bump!BackedAt(r, m)'
<1>1. PICK mv : mv = v1.push[r].moves[m]
  OBVIOUS
<1>2. Bump!Again(r, m)' <=> Bump!Again(r, m)
  BY DEF Bump!Again, Bump!SameTarget
<1>3. ASSUME Bump!Answered(r, mv) PROVE Bump!Answered(r, mv)'
  <2>1. PICK a \in v4 : /\ a.move = mv /\ a.base = v1.push[r].base /\ a.tip = v1.push[r].tip
                        /\ a.verdict \in Bump!LANDS \/ (a.verdict # "FAIL" /\ Bump!Ran(a.tip, mv))
    BY <1>3 DEF Bump!Answered
  <2>2. Bump!Ran(a.tip, mv) => Bump!Ran(a.tip, mv)'
    BY DEF Bump!Ran, Bump!Blocking
  <2>3. a \in v4'
    BY <2>1
  <2> QED
    BY <2>1, <2>2, <2>3 DEF Bump!Answered
<1> QED
  BY <1>1, <1>2, <1>3 DEF Bump!BackedAt

(* Where advance leads: to the next move, or to the end. *)
LEMMA Advances ==
    ASSUME Bump!TypeOK, NEW j,
           j = [pc |-> j.pc, r |-> v2.r, m |-> v2.m, seen |-> j.seen, unresolved |-> j.unresolved,
                todo |-> j.todo, bad |-> j.bad, rc |-> j.rc]
    PROVE  LET k == Bump!advance(j)
           IN  /\ k = [pc |-> k.pc, r |-> k.r, m |-> k.m, seen |-> j.seen, unresolved |-> j.unresolved,
                       todo |-> j.todo, bad |-> j.bad, rc |-> j.rc]
               /\ k.pc \in {"move", "exit"}
               /\ k.r \in 1 .. Len(v1.push) /\ k.m \in 1 .. Len(v1.push[k.r].moves)
               /\ k.pc = "move" => \/ k.r = v2.r /\ k.m = v2.m + 1
                                   \/ k.r = v2.r + 1 /\ k.m = 1 /\ v2.m = Len(v1.push[v2.r].moves)
               /\ k.pc = "exit" => /\ k.r = v2.r /\ k.m = v2.m
                                   /\ v2.r = Len(v1.push) /\ v2.m = Len(v1.push[v2.r].moves)
<1> DEFINE more == v2.m < Len(v1.push[v2.r].moves)
           last == v2.r = Len(v1.push)
<1>0. j.r = v2.r /\ j.m = v2.m
  OBVIOUS
<1>1. CASE more
  <2>1. Bump!advance(j) = [j EXCEPT !.pc = "move", !.m = @ + 1]
    BY <1>0, <1>1 DEF Bump!advance
  <2> QED
    <3>1. Bump!advance(j) = [pc |-> "move", r |-> v2.r, m |-> v2.m + 1, seen |-> j.seen,
                             unresolved |-> j.unresolved, todo |-> j.todo, bad |-> j.bad, rc |-> j.rc]
      BY <1>0, <2>1
    <3>2. v2.r \in 1 .. Len(v1.push) /\ v2.m + 1 \in 1 .. Len(v1.push[v2.r].moves)
      BY <1>1, Standing
    <3> HIDE DEF more, last
    <3> QED
      BY <3>1, <3>2
<1>2. CASE ~more /\ ~last
  <2>1. Bump!advance(j) = [j EXCEPT !.pc = "move", !.r = @ + 1, !.m = 1]
    BY <1>0, <1>2 DEF Bump!advance
  <2> QED
    <3>1. Bump!advance(j) = [pc |-> "move", r |-> v2.r + 1, m |-> 1, seen |-> j.seen,
                             unresolved |-> j.unresolved, todo |-> j.todo, bad |-> j.bad, rc |-> j.rc]
      BY <1>0, <2>1
    <3>2. v2.r + 1 \in 1 .. Len(v1.push) /\ v2.m = Len(v1.push[v2.r].moves)
      BY <1>2, Standing
    <3>3. 1 \in 1 .. Len(v1.push[v2.r + 1].moves)
      BY <3>2, Standing
    <3> HIDE DEF more, last
    <3> QED
      BY <3>1, <3>2, <3>3
<1>3. CASE ~more /\ last
  <2>1. Bump!advance(j) = [j EXCEPT !.pc = "exit"]
    BY <1>0, <1>3 DEF Bump!advance
  <2> QED
    <3>1. Bump!advance(j) = [pc |-> "exit", r |-> v2.r, m |-> v2.m, seen |-> j.seen,
                             unresolved |-> j.unresolved, todo |-> j.todo, bad |-> j.bad, rc |-> j.rc]
      BY <1>0, <2>1
    <3>2. v2.r = Len(v1.push) /\ v2.m = Len(v1.push[v2.r].moves)
      BY <1>3, Standing
    <3>3. v2.r \in 1 .. Len(v1.push) /\ v2.m \in 1 .. Len(v1.push[v2.r].moves)
      BY Standing
    <3> HIDE DEF more, last
    <3> QED
      BY <3>1, <3>2, <3>3
<1> QED
  BY <1>1, <1>2, <1>3

(* Once the move at hand is backed, or counted as unresolved, going on     *)
(* keeps the invariant.                                                    *)
LEMMA GoingOnKeeps ==
    ASSUME Bump!IInv, v2.pc \in {"move", "run"}, v1' = v1, v4 \subseteq v4',
           \A k \in DOMAIN v3 : k \in DOMAIN v3' /\ v3'[k] = v3[k],
           NEW j, v2' = Bump!advance(j),
           j = [pc |-> j.pc, r |-> v2.r, m |-> v2.m, seen |-> j.seen, unresolved |-> j.unresolved,
                todo |-> j.todo, bad |-> j.bad, rc |-> j.rc],
           NEW cr, cr = v2.r, NEW cm, cm = v2.m,
           NEW mv, mv = Bump!move, j.seen \subseteq v2.seen \union {[path |-> mv.path, new |-> mv.new]},
           j.bad \in Nat, j.unresolved \in Nat,
           j.unresolved = 0 => /\ v2.unresolved = 0
                               /\ Bump!BackedAt(cr, cm)'
    PROVE  Bump!IInv'
<1>0. Bump!TypeOK /\ Bump!SoFarBacked /\ Bump!SeenBefore
  BY DEF Bump!IInv
<1>1. mv = v1.push[v2.r].moves[v2.m]
  BY DEF Bump!move, Bump!moves, Bump!range
<1>2. /\ v2' = [pc |-> v2'.pc, r |-> v2'.r, m |-> v2'.m, seen |-> j.seen, unresolved |-> j.unresolved,
                todo |-> j.todo, bad |-> j.bad, rc |-> j.rc]
      /\ v2'.pc \in {"move", "exit"}
      /\ v2'.r \in 1 .. Len(v1.push) /\ v2'.m \in 1 .. Len(v1.push[v2'.r].moves)
      /\ v2'.pc = "move" => \/ v2'.r = v2.r /\ v2'.m = v2.m + 1
                            \/ v2'.r = v2.r + 1 /\ v2'.m = 1 /\ v2.m = Len(v1.push[v2.r].moves)
      /\ v2'.pc = "exit" => /\ v2'.r = v2.r /\ v2'.m = v2.m
                            /\ v2.r = Len(v1.push) /\ v2.m = Len(v1.push[v2.r].moves)
  BY <1>0, Advances
<1>3. v2'.seen = j.seen /\ v2'.unresolved = j.unresolved /\ v2'.bad = j.bad
  BY <1>2
<1>4. Bump!TypeOK'
  BY <1>0, <1>2, <1>3 DEF Bump!TypeOK, Bump!moves, Bump!range
<1>5. ASSUME NEW r \in 1 .. Len(v1.push), NEW m \in 1 .. Len(v1.push[r].moves),
             v2'.pc # "done", j.unresolved = 0, Bump!Behind(r, m)'
      PROVE  Bump!BackedAt(r, m)'
  <2>1. r < v2.r \/ (r = v2.r /\ m < v2.m) \/ (r = v2.r /\ m = v2.m)
    BY <1>0, <1>2, <1>5, Standing DEF Bump!Behind
  <2>2. CASE r = v2.r /\ m = v2.m
    BY <1>5, <2>2
  <2>3. CASE r < v2.r \/ (r = v2.r /\ m < v2.m)
    <3>1. Bump!BackedAt(r, m)
      BY <1>0, <1>5, <2>3 DEF Bump!SoFarBacked, Bump!Behind
    <3> QED
      BY <3>1, BackedStays
  <2> QED
    BY <2>1, <2>2, <2>3
<1>6. Bump!SoFarBacked'
  BY <1>3, <1>5 DEF Bump!SoFarBacked
<1>7. Bump!SeenBefore'
  <2> SUFFICES ASSUME NEW k \in v2'.seen
               PROVE  \E r \in 1 .. v2'.r : \E m \in 1 .. Len(v1.push[r].moves) :
                         /\ r < v2'.r \/ m < v2'.m \/ (m = v2'.m /\ v2'.pc # "move")
                         /\ Bump!Target(k, r, m)
    BY DEF Bump!SeenBefore, Bump!Target
  <2>1. PICK r \in 1 .. v2.r : \E m \in 1 .. Len(v1.push[r].moves) :
           (r < v2.r \/ m <= v2.m) /\ Bump!Target(k, r, m)
    <3>1. CASE k \in v2.seen
      <4>1. PICK q \in 1 .. v2.r : \E n \in 1 .. Len(v1.push[q].moves) :
               (q < v2.r \/ n < v2.m \/ (n = v2.m /\ v2.pc # "move")) /\ Bump!Target(k, q, n)
        BY <1>0, <3>1 DEF Bump!SeenBefore
      <4>2. PICK n \in 1 .. Len(v1.push[q].moves) :
               (q < v2.r \/ n < v2.m \/ (n = v2.m /\ v2.pc # "move")) /\ Bump!Target(k, q, n)
        BY <4>1
      <4>3. q < v2.r \/ n <= v2.m
        BY <1>0, <4>2, Standing
      <4> QED
        BY <4>2, <4>3
    <3>2. CASE k \notin v2.seen
      <4>1. k = [path |-> mv.path, new |-> mv.new]
        BY <1>3, <3>2
      <4>2. Bump!Target(k, v2.r, v2.m)
        BY <1>1, <4>1 DEF Bump!Target
      <4>3. v2.r \in 1 .. v2.r /\ v2.m \in 1 .. Len(v1.push[v2.r].moves) /\ v2.m <= v2.m
        BY <1>0, Standing
      <4> QED
        BY <4>2, <4>3
    <3> QED
      BY <3>1, <3>2
  <2>2. PICK m \in 1 .. Len(v1.push[r].moves) : (r < v2.r \/ m <= v2.m) /\ Bump!Target(k, r, m)
    BY <2>1
  <2>3. r \in 1 .. v2'.r /\ (r < v2'.r \/ m < v2'.m \/ (m = v2'.m /\ v2'.pc # "move"))
    <3>1. /\ v2.r \in Nat /\ v2.m \in Nat /\ r \in Nat /\ r >= 1 /\ r <= v2.r
          /\ m \in Nat /\ m >= 1 /\ Len(v1.push[v2.r].moves) \in Nat /\ v2'.r \in Nat /\ v2'.m \in Nat
      <4>1. /\ Len(v1.push) \in Nat /\ v2.r \in Nat /\ v2.m \in Nat /\ v2.r \in 1 .. Len(v1.push)
            /\ \A q \in 1 .. Len(v1.push) : Len(v1.push[q].moves) \in Nat
        BY <1>0, Standing
      <4>2. Len(v1.push[v2.r].moves) \in Nat
        BY <4>1
      <4>3. r \in Nat /\ r >= 1 /\ r <= v2.r /\ r \in 1 .. Len(v1.push)
        BY <4>1
      <4>4. m \in Nat /\ m >= 1
        BY <4>1, <4>3
      <4>5. v2'.r \in 1 .. Len(v1.push) /\ v2'.m \in 1 .. Len(v1.push[v2'.r].moves)
        BY <1>2
      <4>6. v2'.r \in Nat /\ v2'.m \in Nat
        BY <4>1, <4>5
      <4> QED
        BY <4>1, <4>2, <4>3, <4>4, <4>6
    <3>2. CASE v2'.pc = "move"
      BY <1>2, <2>2, <3>1, <3>2
    <3>3. CASE v2'.pc = "exit"
      <4>1. v2'.r = v2.r /\ v2'.m = v2.m
        BY <1>2, <3>3
      <4> QED
        BY <2>2, <3>1, <3>3, <4>1
    <3> QED
      BY <1>2, <3>2, <3>3
  <2> QED
    BY <2>2, <2>3
<1>8. Bump!AtWork' /\ Bump!LandedIsBacked'
  BY <1>2 DEF Bump!AtWork, Bump!LandedIsBacked
<1> QED
  BY <1>4, <1>6, <1>7, <1>8 DEF Bump!IInv

LEMMA BumpStarts == Bump!Init => Bump!IInv
<1> SUFFICES ASSUME Bump!Init PROVE Bump!IInv
  OBVIOUS
<1>1. /\ v1.push \in Pushes
      /\ v2 = [pc |-> "move", r |-> 1, m |-> 1, seen |-> {}, unresolved |-> 0, todo |-> {}, bad |-> 0, rc |-> 0]
  BY DEF Bump!Init, Bump!Start
<1>2. Bump!TypeOK
  BY <1>1, BumpAssumption DEF Bump!TypeOK, Bump!moves, Bump!range
<1>3. Bump!SoFarBacked
  BY <1>1, BumpAssumption DEF Bump!SoFarBacked, Bump!Behind
<1>4. Bump!SeenBefore /\ Bump!AtWork /\ Bump!LandedIsBacked
  BY <1>1 DEF Bump!SeenBefore, Bump!AtWork, Bump!LandedIsBacked
<1> QED
  BY <1>2, <1>3, <1>4 DEF Bump!IInv

(* A move that was seen before was backed then, or left unresolved. *)
LEMMA SeenKeeps == Bump!IInv /\ Bump!Seen => Bump!IInv'
<1> SUFFICES ASSUME Bump!IInv, Bump!Seen PROVE Bump!IInv'
  OBVIOUS
<1>1. PICK mv : mv = Bump!move
  OBVIOUS
<1> DEFINE j == [v2 EXCEPT !.seen = @ \union {[path |-> mv.path, new |-> mv.new]}]
<1>2. /\ v2.pc = "move" /\ UNCHANGED <<v1, v3, v4>> /\ v2' = Bump!advance(j)
      /\ [path |-> mv.path, new |-> mv.new] \in v2.seen \/ mv.new = Bump!ZERO
  BY <1>1 DEF Bump!Seen
<1>3. /\ j = [pc |-> v2.pc, r |-> v2.r, m |-> v2.m, seen |-> v2.seen \union {[path |-> mv.path, new |-> mv.new]},
              unresolved |-> v2.unresolved, todo |-> v2.todo, bad |-> v2.bad, rc |-> v2.rc]
      /\ v2.unresolved \in Nat /\ v2.bad \in Nat
  <2>1. v2 = [pc |-> v2.pc, r |-> v2.r, m |-> v2.m, seen |-> v2.seen, unresolved |-> v2.unresolved,
                todo |-> v2.todo, bad |-> v2.bad, rc |-> v2.rc]
    BY DEF Bump!IInv, Bump!TypeOK
  <2>2. v2.unresolved \in Nat /\ v2.bad \in Nat
    BY DEF Bump!IInv, Bump!TypeOK
  <2> QED
    BY <2>1, <2>2
<1> HIDE DEF j
<1>4. /\ j = [pc |-> j.pc, r |-> v2.r, m |-> v2.m, seen |-> j.seen, unresolved |-> j.unresolved,
              todo |-> j.todo, bad |-> j.bad, rc |-> j.rc]
      /\ j.unresolved = v2.unresolved /\ j.unresolved \in Nat /\ j.bad \in Nat
      /\ j.seen \subseteq v2.seen \union {[path |-> mv.path, new |-> mv.new]}
  BY <1>3
<1>0. PICK cr, cm : cr = v2.r /\ cm = v2.m
  OBVIOUS
<1>5. Bump!BackedAt(cr, cm)'
  <2>0. mv = v1.push[cr].moves[cm]
    BY <1>0, <1>1 DEF Bump!move, Bump!moves, Bump!range
  <2>1. CASE mv.new = Bump!ZERO
    BY <1>2, <2>0, <2>1 DEF Bump!BackedAt
  <2>2. CASE mv.new # Bump!ZERO
    <3>1. PICK k \in v2.seen : k = [path |-> mv.path, new |-> mv.new]
      BY <1>2, <2>2
    <3>2. k.path = mv.path /\ k.new = mv.new
      BY <3>1
    <3>3. PICK q \in 1 .. cr : \E n \in 1 .. Len(v1.push[q].moves) :
             (q < cr \/ n < cm) /\ Bump!Target(k, q, n)
      BY <1>0, <1>2, <3>1 DEF Bump!IInv, Bump!SeenBefore
    <3>4. Bump!Again(cr, cm)
      BY <2>0, <3>2, <3>3 DEF Bump!Again, Bump!SameTarget, Bump!Target
    <3>5. Bump!BackedAt(cr, cm)
      BY <3>4 DEF Bump!BackedAt
    <3> QED
      BY <1>2, <3>5, BackedStays
  <2> QED
    BY <2>1, <2>2
<1> QED
  BY <1>0, <1>1, <1>2, <1>4, <1>5, GoingOnKeeps

(* A verdict that lands backs its move; one that does not leaves it to the *)
(* local runs, or unresolved.                                              *)
LEMMA AskKeeps == Bump!IInv /\ (\E v \in Bump!Verdicts : Bump!Ask(v)) => Bump!IInv'
<1> SUFFICES ASSUME Bump!IInv, NEW v \in Bump!Verdicts, Bump!Ask(v) PROVE Bump!IInv'
  OBVIOUS
<1>0. Bump!TypeOK /\ Bump!SoFarBacked /\ Bump!SeenBefore
  BY DEF Bump!IInv
<1>1. PICK mv : mv = Bump!move
  OBVIOUS
<1>2. PICK a : a = [move |-> mv, base |-> Bump!range.base, tip |-> Bump!range.tip, verdict |-> v]
  OBVIOUS
<1> DEFINE S == {[path |-> mv.path, new |-> mv.new]}
           j == [v2 EXCEPT !.seen = @ \union S]
           sub == Bump!sub_manifest(mv.path, mv.new)
           todo == Bump!run_set(Bump!manifest, mv.path, sub)
           runs == ~Bump!lands(v) /\ Bump!may_run_local(v) /\ todo # {}
<1>3. /\ v2.pc = "move" /\ mv.new # Bump!ZERO /\ UNCHANGED <<v1, v3>> /\ v4' = v4 \union {a}
      /\ Bump!lands(v) => v2' = Bump!advance(j)
      /\ runs => v2' = [j EXCEPT !.pc = "run", !.todo = todo, !.bad = IF sub.ok THEN 0 ELSE 1]
      /\ ~Bump!lands(v) /\ ~runs => v2' = Bump!unresolve(j)
  BY <1>1, <1>2, Zenon DEF Bump!Ask
<1>4. j = [pc |-> v2.pc, r |-> v2.r, m |-> v2.m, seen |-> v2.seen \union S,
           unresolved |-> v2.unresolved, todo |-> v2.todo, bad |-> v2.bad, rc |-> v2.rc]
  <2>1. v2 = [pc |-> v2.pc, r |-> v2.r, m |-> v2.m, seen |-> v2.seen, unresolved |-> v2.unresolved,
                todo |-> v2.todo, bad |-> v2.bad, rc |-> v2.rc]
    BY <1>0 DEF Bump!TypeOK
  <2> HIDE DEF S
  <2> QED
    BY <2>1
<1>5. v2.unresolved \in Nat /\ v2.bad \in Nat
  BY <1>0 DEF Bump!TypeOK
<1> HIDE DEF j, S
<1>6. CASE Bump!lands(v)
  <2>0. PICK cr, cm : cr = v2.r /\ cm = v2.m
    OBVIOUS
  <2>1. Bump!BackedAt(cr, cm)'
    <3>1. /\ a \in v4' /\ a.move = mv /\ a.verdict \in Bump!LANDS
          /\ a.base = v1'.push[cr].base /\ a.tip = v1'.push[cr].tip
      BY <1>2, <1>3, <1>6, <2>0 DEF Bump!lands, Bump!range
    <3>2. Bump!Answered(cr, mv)'
      BY <3>1 DEF Bump!Answered
    <3>3. mv = v1'.push[cr].moves[cm]
      BY <1>1, <1>3, <2>0 DEF Bump!move, Bump!moves, Bump!range
    <3> QED
      BY <3>2, <3>3 DEF Bump!BackedAt
  <2>2. /\ j = [pc |-> j.pc, r |-> v2.r, m |-> v2.m, seen |-> j.seen, unresolved |-> j.unresolved,
                todo |-> j.todo, bad |-> j.bad, rc |-> j.rc]
        /\ j.unresolved = v2.unresolved /\ j.unresolved \in Nat /\ j.bad \in Nat
        /\ j.seen \subseteq v2.seen \union {[path |-> mv.path, new |-> mv.new]}
    BY <1>4, <1>5 DEF S
  <2> QED
    BY <1>1, <1>3, <1>6, <2>0, <2>1, <2>2, GoingOnKeeps
<1>7. CASE ~Bump!lands(v) /\ ~runs
  <2> DEFINE i == [j EXCEPT !.unresolved = @ + 1]
  <2>1. v2' = Bump!advance(i)
    BY <1>3, <1>7 DEF Bump!unresolve
  <2>2. i = [pc |-> v2.pc, r |-> v2.r, m |-> v2.m, seen |-> v2.seen \union S,
             unresolved |-> v2.unresolved + 1, todo |-> v2.todo, bad |-> v2.bad, rc |-> v2.rc]
    <3> HIDE DEF todo, sub
    <3>1. PICK u : u = v2.unresolved + 1
      OBVIOUS
    <3>2. i = [j EXCEPT !.unresolved = u]
      BY <1>4, <3>1
    <3> HIDE DEF i
    <3>3. i = [pc |-> v2.pc, r |-> v2.r, m |-> v2.m, seen |-> v2.seen \union S,
               unresolved |-> u, todo |-> v2.todo, bad |-> v2.bad, rc |-> v2.rc]
      BY <1>4, <3>2
    <3> QED
      BY <3>1, <3>3
  <2> HIDE DEF i
  <2>3. /\ i = [pc |-> i.pc, r |-> v2.r, m |-> v2.m, seen |-> i.seen, unresolved |-> i.unresolved,
                todo |-> i.todo, bad |-> i.bad, rc |-> i.rc]
        /\ i.unresolved # 0 /\ i.unresolved \in Nat /\ i.bad \in Nat
        /\ i.seen \subseteq v2.seen \union {[path |-> mv.path, new |-> mv.new]}
    BY <1>5, <2>2 DEF S
  <2> QED
    BY <1>1, <1>3, <2>1, <2>3, GoingOnKeeps
<1>8. CASE runs
  <2>0. v # "FAIL" /\ Bump!manifest.ok
    BY <1>8 DEF Bump!may_run_local
  <2>1. PICK b \in {0, 1} : /\ b = IF sub.ok THEN 0 ELSE 1
                            /\ v2' = [pc |-> "run", r |-> v2.r, m |-> v2.m, seen |-> v2.seen \union S,
                                      unresolved |-> v2.unresolved, todo |-> todo, bad |-> b, rc |-> v2.rc]
    <3>1. v2' = [j EXCEPT !.pc = "run", !.todo = todo, !.bad = IF sub.ok THEN 0 ELSE 1]
      BY <1>3, <1>8
    <3> HIDE DEF todo, sub
    <3> QED
      BY <1>4, <3>1
  <2>2. /\ v2'.pc = "run" /\ v2'.r = v2.r /\ v2'.m = v2.m /\ v2'.seen = v2.seen \union S
        /\ v2'.unresolved = v2.unresolved /\ v2'.todo = todo /\ v2'.bad = b
    <3> HIDE DEF todo, sub
    <3> QED
      BY <2>1
  <2>3. Bump!move' = mv /\ Bump!range' = Bump!range /\ Bump!manifest' = Bump!manifest
    BY <1>1, <1>3, <2>2 DEF Bump!move, Bump!moves, Bump!range, Bump!manifest
  <2>4. Bump!TypeOK'
    <3> HIDE DEF todo, sub
    <3>1. v2' = [pc |-> v2'.pc, r |-> v2'.r, m |-> v2'.m, seen |-> v2'.seen,
                 unresolved |-> v2'.unresolved, todo |-> v2'.todo, bad |-> v2'.bad, rc |-> v2'.rc]
      BY <2>1
    <3> QED
      BY <1>0, <1>3, <1>5, <2>2, <3>1 DEF Bump!TypeOK, Bump!moves, Bump!range
  <2>5. Bump!SoFarBacked'
    <3> SUFFICES ASSUME v2.unresolved = 0, NEW r \in 1 .. Len(v1.push), NEW m \in 1 .. Len(v1.push[r].moves),
                        r < v2.r \/ (r = v2.r /\ m < v2.m)
                 PROVE  Bump!BackedAt(r, m)'
      BY <1>3, <2>2 DEF Bump!SoFarBacked, Bump!Behind
    <3>1. Bump!BackedAt(r, m)
      BY <1>0, <1>3 DEF Bump!SoFarBacked, Bump!Behind
    <3> QED
      BY <1>3, <3>1, BackedStays
  <2>6. Bump!SeenBefore'
    <3> SUFFICES ASSUME NEW k \in v2.seen \union S
                 PROVE  \E r \in 1 .. v2.r : \E m \in 1 .. Len(v1.push[r].moves) :
                           (r < v2.r \/ m < v2.m \/ m = v2.m) /\ Bump!Target(k, r, m)
      BY <1>3, <2>2 DEF Bump!SeenBefore, Bump!Target
    <3>1. CASE k \in v2.seen
      BY <1>0, <3>1 DEF Bump!SeenBefore
    <3>2. CASE k \in S
      <4>1. k.path = mv.path /\ k.new = mv.new
        BY <3>2 DEF S
      <4>2. Bump!Target(k, v2.r, v2.m)
        BY <1>1, <4>1 DEF Bump!Target, Bump!move, Bump!moves, Bump!range
      <4>3. v2.r \in 1 .. v2.r /\ v2.m \in 1 .. Len(v1.push[v2.r].moves)
        BY <1>0, Standing
      <4> QED
        BY <4>2, <4>3
    <3> QED
      BY <3>1, <3>2
  <2>7. Bump!AtWork'
    <3>1. \E q \in v4' : q.move = mv /\ q.base = Bump!range.base /\ q.tip = Bump!range.tip /\ q.verdict # "FAIL"
      BY <1>2, <1>3, <2>0
    <3>2. ASSUME b = 0
          PROVE  /\ v1.head[mv.path] = mv.new /\ v1.subs[mv.new].ok /\ sub = v1.subs[mv.new]
      BY <2>1, <3>2 DEF Bump!sub_manifest, Bump!None
    <3>3. b = 0 => Bump!Blocking(Bump!range.tip, mv) \subseteq todo
      BY <3>2 DEF Bump!Blocking, Bump!manifest
    <3> HIDE DEF todo, sub
    <3> QED
      BY <1>3, <2>0, <2>2, <2>3, <3>1, <3>2, <3>3 DEF Bump!AtWork, Bump!Blocking
  <2>8. Bump!LandedIsBacked'
    BY <2>2 DEF Bump!LandedIsBacked
  <2> QED
    BY <2>4, <2>5, <2>6, <2>7, <2>8 DEF Bump!IInv
<1> QED
  BY <1>6, <1>7, <1>8

(* The locals of check() as a record, and what an update leaves of them. *)
Locals(x) ==
    x = [pc |-> x.pc, r |-> x.r, m |-> x.m, seen |-> x.seen, unresolved |-> x.unresolved,
         todo |-> x.todo, bad |-> x.bad, rc |-> x.rc]

LEMMA TodoUpdated ==
    ASSUME NEW x, NEW t, Locals(x)
    PROVE  [x EXCEPT !.todo = t] = [pc |-> x.pc, r |-> x.r, m |-> x.m, seen |-> x.seen, unresolved |-> x.unresolved,
                                    todo |-> t, bad |-> x.bad, rc |-> x.rc]
BY DEF Locals

LEMMA BadUpdated ==
    ASSUME NEW x, NEW b, Locals(x)
    PROVE  [x EXCEPT !.bad = b] = [pc |-> x.pc, r |-> x.r, m |-> x.m, seen |-> x.seen, unresolved |-> x.unresolved,
                                   todo |-> x.todo, bad |-> b, rc |-> x.rc]
BY DEF Locals

LEMMA UnresolvedUpdated ==
    ASSUME NEW x, NEW u, Locals(x)
    PROVE  [x EXCEPT !.unresolved = u] = [pc |-> x.pc, r |-> x.r, m |-> x.m, seen |-> x.seen, unresolved |-> u,
                                          todo |-> x.todo, bad |-> x.bad, rc |-> x.rc]
BY DEF Locals

Job(x, u, t, b) ==
    [pc |-> x.pc, r |-> x.r, m |-> x.m, seen |-> x.seen, unresolved |-> u, todo |-> t, bad |-> b, rc |-> x.rc]

LEMMA ItemUpdated ==
    ASSUME NEW x, NEW t, NEW b, Locals(x)
    PROVE  [x EXCEPT !.todo = t, !.bad = b] = Job(x, x.unresolved, t, b)
<1>1. PICK y : y = [x EXCEPT !.todo = t]
  OBVIOUS
<1>2. /\ Locals(y) /\ y.pc = x.pc /\ y.r = x.r /\ y.m = x.m /\ y.seen = x.seen
      /\ y.unresolved = x.unresolved /\ y.todo = t /\ y.rc = x.rc
  <2>1. y = [pc |-> x.pc, r |-> x.r, m |-> x.m, seen |-> x.seen, unresolved |-> x.unresolved,
             todo |-> t, bad |-> x.bad, rc |-> x.rc]
    BY <1>1, TodoUpdated, Zenon
  <2> QED
    BY <2>1 DEF Locals
<1>3. [x EXCEPT !.todo = t, !.bad = b] = [y EXCEPT !.bad = b]
  BY <1>1
<1>4. [y EXCEPT !.bad = b] = [pc |-> y.pc, r |-> y.r, m |-> y.m, seen |-> y.seen, unresolved |-> y.unresolved,
                              todo |-> y.todo, bad |-> b, rc |-> y.rc]
  BY <1>2, BadUpdated, Zenon
<1> QED
  BY <1>2, <1>3, <1>4, Zenon DEF Job

LEMMA CountUpdated ==
    ASSUME NEW x, NEW b, NEW u, Locals(x)
    PROVE  [[x EXCEPT !.bad = b] EXCEPT !.unresolved = u] = Job(x, u, x.todo, b)
<1>1. PICK z : z = [x EXCEPT !.bad = b]
  OBVIOUS
<1>2. /\ Locals(z) /\ z.pc = x.pc /\ z.r = x.r /\ z.m = x.m /\ z.seen = x.seen
      /\ z.todo = x.todo /\ z.bad = b /\ z.rc = x.rc
  <2>1. z = [pc |-> x.pc, r |-> x.r, m |-> x.m, seen |-> x.seen, unresolved |-> x.unresolved,
             todo |-> x.todo, bad |-> b, rc |-> x.rc]
    BY <1>1, BadUpdated, Zenon
  <2> QED
    BY <2>1 DEF Locals
<1>3. [z EXCEPT !.unresolved = u] = [pc |-> z.pc, r |-> z.r, m |-> z.m, seen |-> z.seen, unresolved |-> u,
                                     todo |-> z.todo, bad |-> z.bad, rc |-> z.rc]
  BY <1>2, UnresolvedUpdated, Zenon
<1> QED
  BY <1>1, <1>2, <1>3, Zenon DEF Job

(* One item less to run, and where that leads. *)
Less(x, t, b) == [x EXCEPT !.todo = t, !.bad = b]

LEMMA LessIsJob ==
    ASSUME NEW x, NEW t, NEW b, Locals(x)
    PROVE  Less(x, t, b) = Job(x, x.unresolved, t, b)
BY ItemUpdated, Zenon DEF Less

LeadsOn(item, n, t, b) ==
    /\ t # {} => Bump!next_item(item, n) = Job(v2, v2.unresolved, t, b)
    /\ t = {} /\ b = 0 => Bump!next_item(item, n) = Bump!advance(Job(v2, v2.unresolved, t, b))
    /\ t = {} /\ b # 0 => Bump!next_item(item, n) = Bump!advance(Job(v2, v2.unresolved + 1, t, 0))

LEMMA NextItem ==
    ASSUME Bump!TypeOK, NEW item, NEW n, NEW t, NEW b, t = v2.todo \ {item}, b = v2.bad + n
    PROVE  LeadsOn(item, n, t, b)
<1>1. Locals(v2)
  BY DEF Bump!TypeOK, Locals
<1>2. PICK j : j = Less(v2, t, b)
  OBVIOUS
<1>2a. j = Job(v2, v2.unresolved, t, b)
  BY <1>1, <1>2, LessIsJob
<1>3. Bump!next_item(item, n) = CASE j.todo # {} -> j
                                  [] j.todo = {} /\ j.bad = 0 -> Bump!advance(j)
                                  [] OTHER -> Bump!unresolve([j EXCEPT !.bad = 0])
  <2>1. j = [v2 EXCEPT !.todo = v2.todo \ {item}, !.bad = v2.bad + n]
    BY <1>2, Zenon DEF Less
  <2> QED
    BY <2>1, Zenon DEF Bump!next_item
<1>4. /\ Locals(j) /\ j.todo = t /\ j.bad = b /\ j.unresolved = v2.unresolved
      /\ \A u : Job(j, u, t, 0) = Job(v2, u, t, 0)
  BY <1>2a DEF Job, Locals
<1>5. /\ t # {} => Bump!next_item(item, n) = j
      /\ t = {} /\ b = 0 => Bump!next_item(item, n) = Bump!advance(j)
      /\ t = {} /\ b # 0 => Bump!next_item(item, n) = Bump!unresolve([j EXCEPT !.bad = 0])
  BY <1>3, <1>4
<1>6. [j EXCEPT !.bad = 0].unresolved = v2.unresolved
  BY <1>4 DEF Locals
<1>7. Bump!unresolve([j EXCEPT !.bad = 0]) =
          Bump!advance([[j EXCEPT !.bad = 0] EXCEPT !.unresolved = v2.unresolved + 1])
  BY <1>6 DEF Bump!unresolve
<1>8. [[j EXCEPT !.bad = 0] EXCEPT !.unresolved = v2.unresolved + 1] = Job(j, v2.unresolved + 1, j.todo, 0)
  BY <1>4, CountUpdated, Zenon
<1>9. Job(j, v2.unresolved + 1, j.todo, 0) = Job(v2, v2.unresolved + 1, t, 0)
  BY <1>4
<1> QED
  BY <1>2a, <1>5, <1>7, <1>8, <1>9, Zenon DEF LeadsOn

(* Of the items left to run: the blocking ones that are gone have passed, or   *)
(* one of them counts as bad.  The last one settles the move.              *)
LEMMA ItemKeeps ==
    ASSUME Bump!IInv, v2.pc = "run", UNCHANGED <<v1, v4>>,
           \A k \in DOMAIN v3 : k \in DOMAIN v3' /\ v3'[k] = v3[k],
           NEW item, NEW n \in {0, 1}, v2' = Bump!next_item(item, n),
           NEW ik, ik = Bump!key(item),
           n = 0 /\ item \in Bump!Blocking(Bump!range.tip, Bump!move) => ik \in DOMAIN v3' /\ v3'[ik]
    PROVE  Bump!IInv'
<1>0. Bump!TypeOK /\ Bump!SoFarBacked /\ Bump!SeenBefore /\ Bump!AtWork
  BY DEF Bump!IInv
<1>1. PICK mv : mv = Bump!move
  OBVIOUS
<1>2. PICK t, b : t = v2.todo \ {item} /\ b = v2.bad + n
  OBVIOUS
<1>3. b \in Nat /\ (b = 0 => v2.bad = 0 /\ n = 0) /\ v2.unresolved \in Nat
  BY <1>0, <1>2 DEF Bump!TypeOK
<1> DEFINE j == Job(v2, v2.unresolved, t, b)
<1>4. j = [pc |-> v2.pc, r |-> v2.r, m |-> v2.m, seen |-> v2.seen, unresolved |-> v2.unresolved,
           todo |-> t, bad |-> b, rc |-> v2.rc]
  BY DEF Job
<1>5. /\ t # {} => v2' = j
      /\ t = {} /\ b = 0 => v2' = Bump!advance(j)
      /\ t = {} /\ b # 0 => v2' = Bump!advance(Job(v2, v2.unresolved + 1, t, 0))
  <2>1. LeadsOn(item, n, t, b)
    BY <1>0, <1>2, NextItem
  <2> QED
    BY <2>1 DEF LeadsOn
<1> HIDE DEF j
<1>6. PICK tip : tip = Bump!range.tip
  OBVIOUS
<1>7. /\ mv.new # Bump!ZERO /\ Bump!manifest.ok /\ v1.man[tip].ok
      /\ \E a \in v4 : a.move = mv /\ a.base = Bump!range.base /\ a.tip = tip /\ a.verdict # "FAIL"
  BY <1>0, <1>1, <1>6 DEF Bump!AtWork, Bump!manifest
<1>8. ASSUME b = 0
      PROVE  /\ v1.head[mv.path] = mv.new /\ v1.subs[mv.new].ok
             /\ \A x \in Bump!Blocking(tip, mv) :
                   LET k == [tip |-> tip, owner |-> x.owner, id |-> x.cap.id]
                   IN  x \in t \/ (k \in DOMAIN v3' /\ v3'[k])
  <2>1. v1.head[mv.path] = mv.new /\ v1.subs[mv.new].ok
    BY <1>0, <1>1, <1>3, <1>8 DEF Bump!AtWork
  <2>2. ASSUME NEW x \in Bump!Blocking(tip, mv), x \notin t, NEW k,
               k = [tip |-> tip, owner |-> x.owner, id |-> x.cap.id]
        PROVE  k \in DOMAIN v3' /\ v3'[k]
    <3>1. k = Bump!key(x)
      BY <1>6, <2>2 DEF Bump!key
    <3>2. CASE x = item
      BY <1>1, <1>3, <1>6, <1>8, <2>2, <3>1, <3>2
    <3>3. CASE x # item
      <4>1. x \notin v2.todo
        BY <1>2, <2>2, <3>3
      <4>2. k \in DOMAIN v3 /\ v3[k]
        BY <1>0, <1>1, <1>3, <1>6, <1>8, <2>2, <3>1, <4>1 DEF Bump!AtWork
      <4> QED
        BY <4>2
    <3> QED
      BY <3>2, <3>3
  <2> QED
    BY <2>1, <2>2
<1>9. CASE t # {}
  <2>1. /\ v2'.pc = "run" /\ v2'.r = v2.r /\ v2'.m = v2.m /\ v2'.seen = v2.seen
        /\ v2'.unresolved = v2.unresolved /\ v2'.todo = t /\ v2'.bad = b
        /\ v2' = [pc |-> v2'.pc, r |-> v2'.r, m |-> v2'.m, seen |-> v2'.seen,
                  unresolved |-> v2'.unresolved, todo |-> v2'.todo, bad |-> v2'.bad, rc |-> v2'.rc]
    BY <1>4, <1>5, <1>9
  <2>2. Bump!move' = mv /\ Bump!range' = Bump!range /\ Bump!manifest' = Bump!manifest
    BY <1>1, <2>1 DEF Bump!move, Bump!moves, Bump!range, Bump!manifest
  <2>3. Bump!TypeOK'
    BY <1>0, <1>3, <2>1 DEF Bump!TypeOK, Bump!moves, Bump!range
  <2>4. Bump!SoFarBacked'
    <3> SUFFICES ASSUME v2.unresolved = 0, NEW r \in 1 .. Len(v1.push), NEW m \in 1 .. Len(v1.push[r].moves),
                        r < v2.r \/ (r = v2.r /\ m < v2.m)
                 PROVE  Bump!BackedAt(r, m)'
      BY <2>1 DEF Bump!SoFarBacked, Bump!Behind
    <3>1. Bump!BackedAt(r, m)
      BY <1>0 DEF Bump!SoFarBacked, Bump!Behind
    <3> QED
      BY <3>1, BackedStays
  <2>5. Bump!SeenBefore'
    BY <1>0, <2>1 DEF Bump!SeenBefore, Bump!Target
  <2>6. Bump!AtWork'
    <3>1. \A x : Bump!key(x)' = [tip |-> tip, owner |-> x.owner, id |-> x.cap.id]
      BY <1>6, <2>2 DEF Bump!key
    <3>2. Bump!Blocking(tip, mv)' = Bump!Blocking(tip, mv)
      BY DEF Bump!Blocking
    <3>3. b = 0 => \A x \in Bump!Blocking(tip, mv) :
                      x \in t \/ (Bump!key(x)' \in DOMAIN v3' /\ v3'[Bump!key(x)'])
      BY <1>8, <3>1
    <3> QED
      BY <1>6, <1>7, <1>8, <2>1, <2>2, <3>2, <3>3 DEF Bump!AtWork
  <2>7. Bump!LandedIsBacked'
    BY <2>1 DEF Bump!LandedIsBacked
  <2> QED
    BY <2>3, <2>4, <2>5, <2>6, <2>7 DEF Bump!IInv
<1>10. CASE t = {} /\ b = 0
  <2>1. Bump!Ran(tip, mv)'
    <3>1. Bump!Blocking(tip, mv)' = Bump!Blocking(tip, mv)
      BY DEF Bump!Blocking
    <3> QED
      BY <1>7, <1>8, <1>10, <3>1 DEF Bump!Ran
  <2>0. PICK cr, cm : cr = v2.r /\ cm = v2.m
    OBVIOUS
  <2>2. Bump!BackedAt(cr, cm)'
    <3>1. mv = v1'.push[cr].moves[cm] /\ tip = v1'.push[cr].tip /\ Bump!range.base = v1'.push[cr].base
      BY <1>1, <1>6, <2>0 DEF Bump!move, Bump!moves, Bump!range
    <3>2. Bump!Answered(cr, mv)'
      BY <1>7, <2>1, <3>1 DEF Bump!Answered
    <3> QED
      BY <3>1, <3>2 DEF Bump!BackedAt
  <2>3. /\ j = [pc |-> j.pc, r |-> v2.r, m |-> v2.m, seen |-> j.seen, unresolved |-> j.unresolved,
                todo |-> j.todo, bad |-> j.bad, rc |-> j.rc]
        /\ j.unresolved = v2.unresolved /\ j.unresolved \in Nat /\ j.bad \in Nat
        /\ j.seen \subseteq v2.seen \union {[path |-> mv.path, new |-> mv.new]}
    BY <1>3, <1>4
  <2> QED
    BY <1>1, <1>5, <1>10, <2>0, <2>2, <2>3, GoingOnKeeps
<1>11. CASE t = {} /\ b # 0
  <2>1. PICK u : u = v2.unresolved + 1
    OBVIOUS
  <2> DEFINE i == Job(v2, u, t, 0)
  <2>2. v2' = Bump!advance(i)
    BY <1>5, <1>11, <2>1
  <2>3. i = [pc |-> v2.pc, r |-> v2.r, m |-> v2.m, seen |-> v2.seen, unresolved |-> u,
             todo |-> t, bad |-> 0, rc |-> v2.rc]
    BY DEF Job
  <2> HIDE DEF i
  <2>4. /\ i = [pc |-> i.pc, r |-> v2.r, m |-> v2.m, seen |-> i.seen, unresolved |-> i.unresolved,
                todo |-> i.todo, bad |-> i.bad, rc |-> i.rc]
        /\ i.unresolved # 0 /\ i.unresolved \in Nat /\ i.bad \in Nat
        /\ i.seen \subseteq v2.seen \union {[path |-> mv.path, new |-> mv.new]}
    BY <1>3, <2>1, <2>3
  <2> QED
    BY <1>1, <2>2, <2>4, GoingOnKeeps
<1> QED
  BY <1>9, <1>10, <1>11

(* A skipped item is not a blocking one; one that is not run counts as     *)
(* bad; the result of a run is kept, and a kept one is what it was.        *)
LEMMA ItemsKeep ==
    Bump!IInv /\ (\/ \E item \in v2.todo : Bump!Skip(item) \/ Bump!NotRun(item)
                  \/ \E item \in v2.todo, e \in {"ok", "exit", "timeout", "forbidden", "too_few"} : Bump!Run(item, e))
    => Bump!IInv'
<1> SUFFICES ASSUME Bump!IInv, NEW item \in v2.todo,
                    Bump!Skip(item) \/ Bump!NotRun(item) \/ \E e : Bump!Run(item, e)
             PROVE  Bump!IInv'
  OBVIOUS
<1>1. PICK ik : ik = Bump!key(item)
  OBVIOUS
<1>2. CASE Bump!Skip(item)
  <2>1. item \notin Bump!Blocking(Bump!range.tip, Bump!move)
    BY <1>2 DEF Bump!Skip, Bump!skipped, Bump!Blocking
  <2> QED
    BY <1>1, <1>2, <2>1, ItemKeeps DEF Bump!Skip
<1>3. CASE Bump!NotRun(item)
  BY <1>1, <1>3, ItemKeeps DEF Bump!NotRun, Bump!not_run_cost
<1>4. CASE \E e : Bump!Run(item, e)
  <2>1. PICK ok : /\ v2.pc = "run" /\ UNCHANGED <<v1, v4>>
                  /\ v3' = [k \in DOMAIN v3 \union {ik} |-> IF k = ik THEN ok ELSE v3[k]]
                  /\ v2' = Bump!next_item(item, IF ok THEN 0 ELSE 1)
                  /\ ik \in DOMAIN v3 => ok = v3[ik]
    <3>1. PICK e : Bump!Run(item, e)
      BY <1>4
    <3> DEFINE ok == IF ik \in DOMAIN v3 THEN v3[ik] ELSE Bump!run_capability(item.cap, e)
    <3>2. /\ v2.pc = "run" /\ UNCHANGED <<v1, v4>>
          /\ v3' = [k \in DOMAIN v3 \union {ik} |-> IF k = ik THEN ok ELSE v3[k]]
          /\ v2' = Bump!next_item(item, IF ok THEN 0 ELSE 1)
      BY <1>1, <3>1, Zenon DEF Bump!Run
    <3>3. ik \in DOMAIN v3 => ok = v3[ik]
      OBVIOUS
    <3> HIDE DEF ok
    <3> QED
      BY <3>2, <3>3, Zenon
  <2>2. PICK n \in {0, 1} : n = IF ok THEN 0 ELSE 1
    OBVIOUS
  <2>3. \A k \in DOMAIN v3 : k \in DOMAIN v3' /\ v3'[k] = v3[k]
    BY <2>1
  <2>4. n = 0 => ik \in DOMAIN v3' /\ v3'[ik]
    BY <2>1, <2>2
  <2> QED
    BY <1>1, <2>1, <2>2, <2>3, <2>4, ItemKeeps
<1> QED
  BY <1>2, <1>3, <1>4

(* The exit says 0 in the blocking mode only with nothing unresolved. *)
LEMMA EndKeeps == Bump!IInv /\ (Bump!Exit \/ Bump!Raise) => Bump!IInv'
<1> SUFFICES ASSUME Bump!IInv, Bump!Exit \/ Bump!Raise PROVE Bump!IInv'
  OBVIOUS
<1>1. PICK rc : /\ v2' = [v2 EXCEPT !.pc = "done", !.rc = rc] /\ UNCHANGED <<v1, v3, v4>>
                /\ v1.mode = "block" /\ rc = 0 => v2.pc = "exit" /\ v2.unresolved = 0
  <2>1. CASE Bump!Exit
    <3> DEFINE rc == IF v2.unresolved = 0 \/ v1.mode = "warn" THEN 0 ELSE 1
    <3>1. v2' = [v2 EXCEPT !.pc = "done", !.rc = rc] /\ UNCHANGED <<v1, v3, v4>> /\ v2.pc = "exit"
      BY <2>1 DEF Bump!Exit
    <3>2. v1.mode = "block" /\ rc = 0 => v2.unresolved = 0
      OBVIOUS
    <3> HIDE DEF rc
    <3> QED
      BY <3>1, <3>2, Zenon
  <2>2. CASE Bump!Raise
    <3> DEFINE rc == IF v1.mode = "warn" THEN 0 ELSE 1
    <3>1. v2' = [v2 EXCEPT !.pc = "done", !.rc = rc] /\ UNCHANGED <<v1, v3, v4>>
      BY <2>2 DEF Bump!Raise
    <3>2. ~(v1.mode = "block" /\ rc = 0)
      OBVIOUS
    <3> HIDE DEF rc
    <3> QED
      BY <3>1, <3>2, Zenon
  <2> QED
    BY <2>1, <2>2
<1>2. v2 = [pc |-> v2.pc, r |-> v2.r, m |-> v2.m, seen |-> v2.seen, unresolved |-> v2.unresolved,
            todo |-> v2.todo, bad |-> v2.bad, rc |-> v2.rc]
  BY DEF Bump!IInv, Bump!TypeOK
<1>3. v2' = [pc |-> "done", r |-> v2.r, m |-> v2.m, seen |-> v2.seen, unresolved |-> v2.unresolved,
             todo |-> v2.todo, bad |-> v2.bad, rc |-> rc]
  BY <1>1, <1>2
<1>4. Bump!TypeOK'
  BY <1>1, <1>3 DEF Bump!IInv, Bump!TypeOK, Bump!moves, Bump!range
<1>5. Bump!SoFarBacked' /\ Bump!AtWork'
  BY <1>3 DEF Bump!SoFarBacked, Bump!AtWork
<1>7. Bump!SeenBefore'
  <2>1. v2'.pc = "done" /\ v2'.r = v2.r /\ v2'.m = v2.m /\ v2'.seen = v2.seen
    BY <1>3
  <2> QED
    BY <1>1, <2>1 DEF Bump!IInv, Bump!SeenBefore, Bump!Target
<1>6. Bump!LandedIsBacked'
  <2> SUFFICES ASSUME v1.mode = "block", rc = 0, NEW r \in 1 .. Len(v1.push), NEW m \in 1 .. Len(v1.push[r].moves)
               PROVE  Bump!BackedAt(r, m)'
    BY <1>1, <1>3 DEF Bump!LandedIsBacked
  <2>1. Bump!BackedAt(r, m)
    BY <1>1 DEF Bump!IInv, Bump!SoFarBacked, Bump!Behind
  <2> QED
    BY <1>1, <2>1, BackedStays
<1> QED
  BY <1>4, <1>5, <1>6, <1>7 DEF Bump!IInv

LEMMA BumpStep == Bump!IInv /\ Bump!Next => Bump!IInv'
BY SeenKeeps, AskKeeps, ItemsKeep, EndKeeps DEF Bump!Next

LEMMA BumpStutters == Bump!IInv /\ UNCHANGED Bump!vars => Bump!IInv'
<1> SUFFICES ASSUME Bump!IInv, UNCHANGED <<v1, v2, v3, v4>> PROVE Bump!IInv'
  BY DEF Bump!vars
<1>1. Bump!move' = Bump!move /\ Bump!moves' = Bump!moves /\ Bump!range' = Bump!range
      /\ Bump!manifest' = Bump!manifest
  BY DEF Bump!move, Bump!moves, Bump!range, Bump!manifest
<1>2. \A t, m : Bump!Blocking(t, m)' = Bump!Blocking(t, m)
  BY DEF Bump!Blocking
<1>3. \A r, m : Bump!BackedAt(r, m) => Bump!BackedAt(r, m)'
  BY BackedStays
<1>4. \A r, m : Bump!Behind(r, m)' <=> Bump!Behind(r, m)
  BY DEF Bump!Behind
<1>5. Bump!TypeOK' /\ Bump!SoFarBacked' /\ Bump!LandedIsBacked'
  BY <1>1, <1>3, <1>4 DEF Bump!IInv, Bump!TypeOK, Bump!SoFarBacked, Bump!LandedIsBacked
<1>6. Bump!SeenBefore'
  BY DEF Bump!IInv, Bump!SeenBefore, Bump!Target
<1>7. Bump!AtWork'
  BY <1>1, <1>2 DEF Bump!IInv, Bump!AtWork, Bump!key
<1> QED
  BY <1>5, <1>6, <1>7 DEF Bump!IInv

-----------------------------------------------------------------------------
(* The simulation gate *)

(* The closure over the includes holds its seeds and what it includes. *)
LEMMA ClosureCloses ==
    ASSUME NEW seeds, seeds \subseteq Gate!Files
    PROVE  LET C == Gate!close_over_includes(seeds)
           IN  C \subseteq Gate!Files /\ seeds \subseteq C /\ Gate!included(C) \subseteq C
<1> DEFINE C == Gate!close_over_includes(seeds)
<1>1. C \subseteq Gate!Files /\ seeds \subseteq C
  BY DEF Gate!close_over_includes
<1>2. ASSUME NEW f \in Gate!included(C) PROVE f \in C
  <2>1. f \in Gate!Files
    BY <1>2, GateAssumption DEF Gate!included, Gate!Files
  <2>2. ASSUME NEW S \in SUBSET Gate!Files, seeds \subseteq S, Gate!included(S) \subseteq S
        PROVE  f \in S
    <3>1. C \subseteq S
      BY <2>2 DEF Gate!close_over_includes
    <3>2. Gate!included(C) \subseteq Gate!included(S)
      BY <3>1 DEF Gate!included
    <3> QED
      BY <1>2, <2>2, <3>2
  <2> QED
    BY <2>1, <2>2 DEF Gate!close_over_includes
<1> QED
  BY <1>1, <1>2

(* When every variable of the closure is set, the closure followed every   *)
(* include, and holds what the compiler reads.                             *)
LEMMA ReadyLaunches ==
    ASSUME v1 \in Makefiles, NEW t, Gate!env_check(v1, t) = 0, NEW s \in Gate!invoked_suites(v1)
    PROVE  Gate!launches(s)
<1> DEFINE Seeds == UNION {Gate!bench_flists(q) : q \in Gate!gate_bench_dirs(v1)}
           C == Gate!close_over_includes(Seeds)
<1>1. /\ v2.xhb /\ v2.tools /\ v2.subs /\ v2.site
      /\ Gate!closure(v1) # {} /\ Gate!required(v1) \subseteq v2.set
  BY DEF Gate!env_check
<1>2. Gate!closure(v1) = C
  BY <1>1 DEF Gate!closure
<1>3. \A q \in Gate!invoked_suites(v1) : BenchList[q] \in Gate!Files
  BY GateAssumption DEF Gate!invoked_suites, Gate!parse_target_to_suite, Gate!parse_invoked_targets, Gate!Files
<1>4. Seeds \subseteq Gate!Files /\ BenchList[s] \in Seeds
  BY <1>3 DEF Gate!bench_flists, Gate!gate_bench_dirs
<1> HIDE DEF Seeds
<1>5. C \subseteq Gate!Files /\ BenchList[s] \in C /\ Gate!included(C) \subseteq C
  BY <1>4, ClosureCloses
<1>6. \A f \in C : Gate!tokens_in(f) \subseteq v2.set
  BY <1>1, <1>2 DEF Gate!required
<1> HIDE DEF C
<1>7. ASSUME NEW i \in Includes, i.from \in C PROVE i.to \in C
  <2>1. i.var = "" \/ i.var \in v2.set
    BY <1>6, <1>7 DEF Gate!tokens_in
  <2> QED
    BY <1>5, <1>7, <2>1 DEF Gate!included
<1>8. Gate!compiled(s) \subseteq C
  BY <1>5, <1>7 DEF Gate!compiled
<1> QED
  BY <1>1, <1>6, <1>8 DEF Gate!launches

(* A clean gate: what is invoked is what is scored, and it is a suite. *)
LEMMA IntegrityMeans ==
    ASSUME v1 \in Makefiles, Gate!integrity(v1) = 0
    PROVE  Gate!invoked_suites(v1) = Gate!scored(v1)
<1>1. Gate!invoked_not_scored(v1) = {} /\ Gate!scored_not_invoked(v1) = {}
  <2> DEFINE Unsure == ~v1.lists \/ Gate!parse_invoked_targets(v1) = {} \/ \E t \in v1.invoked : v1.label[t] = ""
             Differ == Gate!invoked_not_scored(v1) # {} \/ Gate!scored_not_invoked(v1) # {}
  <2>1. Gate!integrity(v1) = IF Unsure THEN 2 ELSE IF Differ THEN 1 ELSE 0
    BY Zenon DEF Gate!integrity
  <2> HIDE DEF Unsure
  <2> QED
    BY <2>1
<1> QED
  BY <1>1, Zenon DEF Gate!invoked_not_scored, Gate!scored_not_invoked

LEMMA InvokedAreSuites ==
    ASSUME v1 \in Makefiles
    PROVE  Gate!invoked_suites(v1) \subseteq Gate!Suites
BY GateAssumption DEF Gate!invoked_suites, Gate!parse_target_to_suite, Gate!parse_invoked_targets, Gate!Suites

LEMMA GateStarts == Gate!Init => Gate!IInv
<1> SUFFICES ASSUME Gate!Init PROVE Gate!IInv
  OBVIOUS
<1>1. Gate!TypeOK
  BY DEF Gate!Init, Gate!TypeOK, Gate!Trees, Gate!Clean
<1>2. Gate!StampsAreOwn
  <2>1. Gate!Clean(1) \in Gate!Trees
    BY DEF Gate!Clean, Gate!Trees
  <2>2. v6.suite = ""
    BY DEF Gate!Init, Gate!Nobody
  <2>3. CASE v7 = [s \in Gate!Suites |-> Gate!MISS]
    BY <2>2, <2>3 DEF Gate!StampsAreOwn, Gate!MISS
  <2>4. CASE v7 = [s \in Gate!Suites |-> Gate!Left]
    BY <2>1, <2>2, <2>4 DEF Gate!StampsAreOwn, Gate!Left
  <2> QED
    BY <2>3, <2>4 DEF Gate!Init
<1>3. Gate!Passed /\ Gate!Scored /\ Gate!RedIsMeasured
  BY DEF Gate!Init, Gate!Passed, Gate!Scored, Gate!RedIsMeasured, Gate!Nobody
<1> QED
  BY <1>1, <1>2, <1>3 DEF Gate!IInv

(* Work on the tree leaves the gate and the status files alone. *)
LEMMA TreeKeeps ==
    Gate!IInv /\ ((\E p \in {"rtl", "fl"} : Gate!Edit(p)) \/ Gate!Commit \/ Gate!Revert) => Gate!IInv'
<1> SUFFICES ASSUME Gate!IInv, (\E p \in {"rtl", "fl"} : Gate!Edit(p)) \/ Gate!Commit \/ Gate!Revert
             PROVE  Gate!IInv'
  OBVIOUS
<1>1. UNCHANGED <<v1, v2, v5, v6, v7>> /\ v3' \in Gate!Trees
  BY DEF Gate!IInv, Gate!TypeOK, Gate!Trees, Gate!Edit, Gate!Commit, Gate!Revert, Gate!Clean
<1>2. Gate!TypeOK' /\ Gate!StampsAreOwn'
  BY <1>1 DEF Gate!IInv, Gate!TypeOK, Gate!StampsAreOwn
<1>3. Gate!Passed' /\ Gate!Scored' /\ Gate!RedIsMeasured'
  BY <1>1 DEF Gate!IInv, Gate!Passed, Gate!Scored, Gate!RedIsMeasured, Gate!bad, Gate!stale, Gate!launches,
              Gate!compiled
<1> QED
  BY <1>2, <1>3 DEF Gate!IInv

(* The checks before the suites: each is passed only with what it looks for. *)
LEMMA ChecksKeep ==
    Gate!IInv /\ (Gate!Start \/ Gate!Integrity \/ Gate!EnvCheck \/ (\E ok \in BOOLEAN : Gate!SelfCheck(ok)))
    => Gate!IInv'
<1> SUFFICES ASSUME Gate!IInv,
                    Gate!Start \/ Gate!Integrity \/ Gate!EnvCheck \/ (\E ok \in BOOLEAN : Gate!SelfCheck(ok))
             PROVE  Gate!IInv'
  OBVIOUS
<1>1. UNCHANGED <<v1, v2, v3, v6, v7>>
  BY DEF Gate!Start, Gate!Integrity, Gate!EnvCheck, Gate!SelfCheck
<1>2. /\ v5 = [pc |-> v5.pc, stamp |-> v5.stamp, ref |-> v5.ref, todo |-> v5.todo, rc |-> v5.rc]
      /\ v1 \in Makefiles
  BY DEF Gate!IInv, Gate!TypeOK
<1>3. /\ Gate!TypeOK' /\ v5'.ref = v5.ref /\ v5.pc \notin {"suites", "done"} /\ v5'.pc # "suites"
      /\ v5'.pc = "done" => v5'.rc # 0
  <2>1. /\ v5' = [pc |-> v5'.pc, stamp |-> v5'.stamp, ref |-> v5.ref, todo |-> v5.todo, rc |-> v5'.rc]
        /\ v5'.pc # "suites" /\ (v5'.pc = "done" => v5'.rc # 0)
    <3>1. CASE Gate!Start
      BY <1>2, <3>1 DEF Gate!Start
    <3>2. CASE Gate!Integrity
      BY <1>2, <3>2 DEF Gate!Integrity, Gate!fail
    <3>3. CASE Gate!EnvCheck
      BY <1>2, <3>3 DEF Gate!EnvCheck, Gate!fail
    <3>4. CASE \E ok \in BOOLEAN : Gate!SelfCheck(ok)
      <4>1. \/ v5' = [v5 EXCEPT !.pc = "clean"]
            \/ v5' = [v5 EXCEPT !.pc = "done", !.rc = 1]
        BY <3>4, Zenon DEF Gate!SelfCheck, Gate!fail
      <4>2. CASE v5' = [v5 EXCEPT !.pc = "clean"]
        BY <1>2, <4>2
      <4>3. CASE v5' = [v5 EXCEPT !.pc = "done", !.rc = 1]
        <5>1. v5'.rc = 1 /\ v5'.pc = "done" /\ v5'.stamp = v5.stamp
              /\ v5' = [pc |-> "done", stamp |-> v5.stamp, ref |-> v5.ref, todo |-> v5.todo, rc |-> 1]
          BY <1>2, <4>3
        <5> QED
          BY <5>1
      <4> QED
        BY <4>1, <4>2, <4>3
    <3> QED
      BY <3>1, <3>2, <3>3, <3>4
  <2>2. v5.pc \notin {"suites", "done"}
    BY DEF Gate!Start, Gate!Integrity, Gate!EnvCheck, Gate!SelfCheck
  <2> QED
    BY <1>1, <2>1, <2>2 DEF Gate!IInv, Gate!TypeOK
<1>4. v5'.pc \in {"env", "selfcheck", "clean"} => Gate!integrity(v1) = 0
  BY <1>2 DEF Gate!IInv, Gate!Passed, Gate!Start, Gate!Integrity, Gate!EnvCheck, Gate!SelfCheck, Gate!fail
<1>5. v5'.pc \in {"selfcheck", "clean"} => \A s \in Gate!invoked_suites(v1) : Gate!launches(s)
  <2>1. v5'.pc = "selfcheck" => Gate!env_check(v1, v3) = 0
    BY <1>2 DEF Gate!Start, Gate!Integrity, Gate!EnvCheck, Gate!SelfCheck, Gate!fail
  <2>2. v5'.pc = "clean" => v5.pc = "selfcheck"
    BY <1>2 DEF Gate!Start, Gate!Integrity, Gate!EnvCheck, Gate!SelfCheck, Gate!fail
  <2>3. v5'.pc = "clean" => \A s \in Gate!invoked_suites(v1) : Gate!launches(s)
    BY <2>2 DEF Gate!IInv, Gate!Passed
  <2>4. v5'.pc = "selfcheck" => \A s \in Gate!invoked_suites(v1) : Gate!launches(s)
    BY <1>2, <2>1, ReadyLaunches
  <2> QED
    BY <2>3, <2>4
<1>6. Gate!StampsAreOwn'
  BY <1>1 DEF Gate!IInv, Gate!StampsAreOwn
<1>7. v6'.suite = "" /\ v5'.ref = Gate!NoStamp
  BY <1>1, <1>3 DEF Gate!IInv, Gate!Passed
<1>8. \A s : Gate!launches(s)' <=> Gate!launches(s)
  BY <1>1 DEF Gate!launches, Gate!compiled
<1>9. Gate!Passed'
  BY <1>1, <1>3, <1>4, <1>5, <1>7, <1>8 DEF Gate!Passed
<1>10. Gate!Scored' /\ Gate!RedIsMeasured'
  BY <1>1, <1>3, <1>7 DEF Gate!Scored, Gate!RedIsMeasured, Gate!NoStamp
<1> QED
  BY <1>3, <1>6, <1>9, <1>10 DEF Gate!IInv

(* The gate begins with no status file. *)
LEMMA RecordKeeps == Gate!IInv /\ Gate!Record => Gate!IInv'
<1> SUFFICES ASSUME Gate!IInv, Gate!Record PROVE Gate!IInv'
  OBVIOUS
<1>1. UNCHANGED <<v1, v2, v3, v6>> /\ v7' = [s \in Gate!Suites |-> Gate!MISS] /\ v5.pc = "clean"
  BY DEF Gate!Record, Gate!emptied
<1>2. v5' = [pc |-> "suites", stamp |-> v5.stamp, ref |-> v5.stamp, todo |-> v1.invoked, rc |-> v5.rc]
  BY DEF Gate!IInv, Gate!TypeOK, Gate!Record
<1>3. Gate!TypeOK'
  BY <1>1, <1>2 DEF Gate!IInv, Gate!TypeOK
<1>4. Gate!StampsAreOwn'
  BY <1>1 DEF Gate!IInv, Gate!StampsAreOwn, Gate!Passed, Gate!MISS
<1>5. \A s : Gate!launches(s)' <=> Gate!launches(s)
  BY <1>1 DEF Gate!launches, Gate!compiled
<1>6. Gate!Passed'
  BY <1>1, <1>2, <1>5 DEF Gate!IInv, Gate!Passed
<1>7. Gate!Scored'
  BY <1>2 DEF Gate!Scored
<1>8. Gate!RedIsMeasured'
  BY <1>1, InvokedAreSuites DEF Gate!RedIsMeasured, Gate!MISS, Gate!IInv, Gate!TypeOK
<1> QED
  BY <1>3, <1>4, <1>6, <1>7, <1>8 DEF Gate!IInv

(* A suite begins with the stamp of its own make. *)
LEMMA SuiteStartKeeps == Gate!IInv /\ (\E t \in v1.invoked : Gate!SuiteStart(t)) => Gate!IInv'
<1> SUFFICES ASSUME Gate!IInv, NEW t \in v1.invoked, Gate!SuiteStart(t) PROVE Gate!IInv'
  OBVIOUS
<1>1. /\ UNCHANGED <<v1, v2, v3, v7>> /\ v5.pc = "suites"
      /\ v6' = [suite |-> v1.label[t], stamp |-> Gate!GATE_STAMP(v3), began |-> v3]
  BY DEF Gate!SuiteStart
<1>2. v5' = [pc |-> "suites", stamp |-> v5.stamp, ref |-> v5.ref, todo |-> v5.todo \ {t}, rc |-> v5.rc]
  BY DEF Gate!IInv, Gate!TypeOK, Gate!SuiteStart
<1>3. Gate!TypeOK'
  BY <1>1, <1>2 DEF Gate!IInv, Gate!TypeOK
<1>4. Gate!StampsAreOwn'
  BY <1>1 DEF Gate!IInv, Gate!TypeOK, Gate!StampsAreOwn
<1>5. \A s : Gate!launches(s)' <=> Gate!launches(s)
  BY <1>1 DEF Gate!launches, Gate!compiled
<1>6. Gate!Passed'
  BY <1>1, <1>2, <1>5 DEF Gate!IInv, Gate!Passed
<1>7. Gate!Scored' /\ Gate!RedIsMeasured'
  BY <1>1, <1>2 DEF Gate!IInv, Gate!Scored, Gate!RedIsMeasured
<1> QED
  BY <1>3, <1>4, <1>6, <1>7 DEF Gate!IInv

(* A status file carries the stamp and the tree of the run that wrote it. *)
LEMMA StatusKeeps ==
    Gate!IInv /\ ((\E ok \in BOOLEAN : Gate!SuiteEnd(ok))
                   \/ (\E s \in Gate!Suites, ok \in BOOLEAN : Gate!ByHand(s, ok))) => Gate!IInv'
<1> SUFFICES ASSUME Gate!IInv, \/ \E ok \in BOOLEAN : Gate!SuiteEnd(ok)
                               \/ \E s \in Gate!Suites, ok \in BOOLEAN : Gate!ByHand(s, ok)
             PROVE  Gate!IInv'
  OBVIOUS
<1>1. PICK s, ok, began :
          /\ began \in Gate!Trees
          /\ v7' = [v7 EXCEPT ![s] = Gate!status(s, ok, Gate!GATE_STAMP(began), began)]
  <2>1. CASE \E ok \in BOOLEAN : Gate!SuiteEnd(ok)
    <3>1. PICK ok \in BOOLEAN : Gate!SuiteEnd(ok)
      BY <2>1
    <3>2. /\ v7' = [v7 EXCEPT ![v6.suite] = Gate!status(v6.suite, ok, v6.stamp, v6.began)]
          /\ v6.began \in Gate!Trees /\ v6.stamp = Gate!GATE_STAMP(v6.began)
      BY <3>1 DEF Gate!SuiteEnd, Gate!IInv, Gate!StampsAreOwn
    <3> QED
      BY <3>2, Zenon
  <2>2. CASE \E s \in Gate!Suites, ok \in BOOLEAN : Gate!ByHand(s, ok)
    <3>1. v3 \in Gate!Trees
      BY DEF Gate!IInv, Gate!TypeOK
    <3> QED
      BY <2>2, <3>1, Zenon DEF Gate!ByHand
  <2> QED
    BY <2>1, <2>2
<1>2. UNCHANGED <<v1, v2, v3, v5>> /\ v5.pc = "suites" /\ (v6' = v6 \/ v6' = Gate!Nobody)
  BY DEF Gate!SuiteEnd, Gate!ByHand, Gate!IInv, Gate!Passed
<1>3. Gate!TypeOK'
  BY <1>1, <1>2 DEF Gate!IInv, Gate!TypeOK
<1>4. Gate!StampsAreOwn'
  <2>1. v6'.suite # "" => v6'.began \in Gate!Trees /\ v6'.stamp = Gate!GATE_STAMP(v6'.began)
    <3>1. Gate!Nobody.suite = ""
      BY DEF Gate!Nobody
    <3>2. v6.suite # "" => v6.began \in Gate!Trees /\ v6.stamp = Gate!GATE_STAMP(v6.began)
      BY DEF Gate!IInv, Gate!StampsAreOwn
    <3> QED
      BY <1>2, <3>1, <3>2, Zenon
  <2>2. ASSUME NEW q \in Gate!Suites, v7'[q].verdict # "MISS"
        PROVE  v7'[q].began \in Gate!Trees /\ v7'[q].stamp = Gate!GATE_STAMP(v7'[q].began)
    BY <1>1, <2>2 DEF Gate!IInv, Gate!TypeOK, Gate!StampsAreOwn, Gate!status
  <2> QED
    BY <2>1, <2>2 DEF Gate!StampsAreOwn
<1>5. \A q : Gate!launches(q)' <=> Gate!launches(q)
  BY <1>2 DEF Gate!launches, Gate!compiled
<1>6. Gate!Passed'
  BY <1>2, <1>5 DEF Gate!IInv, Gate!Passed
<1>7. Gate!Scored'
  BY <1>2 DEF Gate!Scored
<1>8. Gate!RedIsMeasured'
  <2>1. ASSUME NEW q \in Gate!invoked_suites(v1), v5.ref # Gate!NoStamp PROVE v7'[q].measured
    <3>1. Gate!launches(q) /\ q \in Gate!Suites /\ v7[q].measured
      BY <1>2, <2>1, InvokedAreSuites DEF Gate!IInv, Gate!Passed, Gate!TypeOK, Gate!RedIsMeasured
    <3> QED
      BY <1>1, <3>1 DEF Gate!IInv, Gate!TypeOK, Gate!status
  <2> QED
    BY <1>2, <2>1 DEF Gate!RedIsMeasured, Gate!NoStamp
<1> QED
  BY <1>3, <1>4, <1>6, <1>7, <1>8 DEF Gate!IInv

(* The summary says 0 only of a table without a bad or a stale line. *)
LEMMA SummaryKeeps == Gate!IInv /\ Gate!Summary => Gate!IInv'
<1> SUFFICES ASSUME Gate!IInv, Gate!Summary PROVE Gate!IInv'
  OBVIOUS
<1>1. UNCHANGED <<v1, v2, v3, v6, v7>> /\ v5.pc = "suites" /\ v6.suite = ""
  BY DEF Gate!Summary
<1>2. v5' = [pc |-> "done", stamp |-> v5.stamp, ref |-> v5.ref, todo |-> v5.todo, rc |-> Gate!summary_rc]
  BY DEF Gate!IInv, Gate!TypeOK, Gate!Summary, Gate!fail
<1>3. Gate!TypeOK' /\ Gate!StampsAreOwn' /\ Gate!Passed' /\ Gate!RedIsMeasured'
  BY <1>1, <1>2 DEF Gate!IInv, Gate!TypeOK, Gate!StampsAreOwn, Gate!Passed, Gate!RedIsMeasured
<1>4. Gate!Scored'
  <2>1. Gate!integrity(v1) = 0
    BY <1>1 DEF Gate!IInv, Gate!Passed
  <2>2. Gate!summary_rc = 0 => \A s \in Gate!scored(v1) : ~Gate!bad(s) /\ ~Gate!stale(s)
    BY DEF Gate!summary_rc
  <2>3. \A s : (Gate!bad(s)' <=> Gate!bad(s)) /\ (Gate!stale(s)' <=> Gate!stale(s))
    BY <1>1, <1>2 DEF Gate!bad, Gate!stale
  <2> QED
    BY <1>1, <1>2, <2>1, <2>2, <2>3 DEF Gate!Scored
<1> QED
  BY <1>3, <1>4 DEF Gate!IInv

LEMMA GateStep == Gate!IInv /\ Gate!Next => Gate!IInv'
BY TreeKeeps, ChecksKeep, RecordKeeps, SuiteStartKeeps, StatusKeeps, SummaryKeeps DEF Gate!Next

LEMMA GateStutters == Gate!IInv /\ UNCHANGED Gate!vars => Gate!IInv'
<1> SUFFICES ASSUME Gate!IInv, UNCHANGED Gate!vars PROVE Gate!IInv'
  OBVIOUS
<1>1. UNCHANGED <<v1, v2, v3, v5, v6, v7>>
  BY DEF Gate!vars
<1> QED
  BY <1>1 DEF Gate!IInv, Gate!TypeOK, Gate!StampsAreOwn, Gate!Passed, Gate!Scored, Gate!RedIsMeasured, Gate!bad,
              Gate!stale, Gate!launches, Gate!compiled

(* A clean stamp leaves one tree only: the commit itself. *)
LEMMA GateBacks == Gate!IInv => Gate!GreenIsThisTree /\ Gate!RedIsMeasured
<1> SUFFICES ASSUME Gate!IInv PROVE Gate!GreenIsThisTree
  BY DEF Gate!IInv
<1> SUFFICES ASSUME v5.pc = "done", v5.rc = 0, ~v5.ref.dirty, NEW s \in Gate!invoked_suites(v1)
             PROVE  ~Gate!bad(s) /\ v7[s].began = Gate!Clean(v5.ref.sha)
  BY DEF Gate!GreenIsThisTree
<1>1. s \in Gate!Suites /\ ~Gate!bad(s) /\ ~Gate!stale(s)
  BY InvokedAreSuites, IntegrityMeans DEF Gate!IInv, Gate!TypeOK, Gate!Scored
<1>2. v7[s].verdict # "MISS"
  BY <1>1 DEF Gate!bad
<1>3. v7[s].began \in Gate!Trees /\ Gate!GATE_STAMP(v7[s].began) = v5.ref
  BY <1>1, <1>2 DEF Gate!IInv, Gate!StampsAreOwn, Gate!stale
<1>4. v7[s].began.rtl = 0 /\ v7[s].began.fl = 0 /\ v7[s].began.sha = v5.ref.sha
  <2>1. /\ v5.ref.sha = v7[s].began.sha
        /\ v5.ref.dirty = (v7[s].began.rtl # 0 \/ v7[s].began.fl # 0)
    BY <1>3 DEF Gate!GATE_STAMP
  <2> QED
    BY <2>1
<1> QED
  BY <1>1, <1>3, <1>4 DEF Gate!Trees, Gate!Clean

-----------------------------------------------------------------------------
(* The bitstream store *)

(* What DeployedIsLabelled says of one agent. *)
Labelled(a) == v7[a].pc = "idle" /\ v8[a].rc = 0 /\ ~v8[a].stale =>
                   v8[a].got_m = v8[a].sha /\ v8[a].s \in {Art!None, v8[a].got_s}

Sound(a) == Labelled(a) /\ Art!OfAHash(a) /\ Art!Guards(a)

LEMMA SoundIsInv == Art!IInv <=> Art!TypeOK /\ \A a \in Agents : Sound(a)
BY DEF Art!IInv, Sound, Labelled, Art!DeployedIsLabelled, Art!At

(* Bitstreams that are stored are not touched. *)
FilesKept ==
    \A s \in Art!Shas : \A f \in {"m", "s"} : v1[s][f] # Art!None => v1'[s][f] = v1[s][f]

LEMMA SameDirs == UNCHANGED v1 => FilesKept
BY DEF FilesKept

(* What an agent has deployed, or is deploying, holds while others work. *)
LEMMA OthersKeep ==
    ASSUME Art!IInv, FilesKept, NEW b \in Agents, v7'[b].pc = v7[b].pc, v8'[b] = v8[b]
    PROVE  Sound(b)'
<1>1. Sound(b) /\ v8[b].bin \in {"m", "s"}
  BY SoundIsInv DEF Art!TypeOK
<1>2. Labelled(b)' /\ Art!OfAHash(b)'
  BY <1>1 DEF Sound, Labelled, Art!OfAHash
<1>3. v7[b].pc \in {"load_m", "load_s"} => v8[b].sha \in Art!Shas /\ v8[b].sha # Art!None
  BY <1>1 DEF Sound, Art!OfAHash, Art!Late
<1>4. Art!Guards(b)'
  BY <1>1, <1>3 DEF Sound, Art!Guards, FilesKept
<1> QED
  BY <1>2, <1>4 DEF Sound

LEMMA AllSound == Art!TypeOK' /\ (\A a \in Agents : Sound(a)') => Art!IInv'
BY DEF Art!IInv, Sound, Labelled, Art!DeployedIsLabelled, Art!At

(* A command that deploys nothing, or one that ends without a deployment. *)
LEMMA PlainKeeps ==
    ASSUME Art!IInv, Art!TypeOK', FilesKept, NEW a \in Agents,
           \A b \in Agents \ {a} : v7'[b] = v7[b] /\ v8'[b] = v8[b],
           v7'[a].pc \notin Art!Early \union Art!Late, v8'[a].rc = 9
    PROVE  Art!IInv'
<1>1. ASSUME NEW b \in Agents, b # a PROVE Sound(b)'
  BY <1>1, OthersKeep
<1>2. Sound(a)'
  BY DEF Sound, Labelled, Art!OfAHash, Art!Guards, Art!Early, Art!Late
<1> QED
  BY <1>1, <1>2, AllSound

LEMMA IdleIs ==
    /\ DOMAIN Art!Idle = {"pc", "sha", "slave", "label", "shas", "todo", "idx"}
    /\ Art!Idle.pc = "idle" /\ Art!Idle.sha = Art!None /\ Art!Idle.shas = {}
    /\ DOMAIN Art!NoDeploy = {"sha", "s", "bin", "got_m", "got_s", "rc", "stale"}
    /\ Art!NoDeploy.rc = 9 /\ Art!NoDeploy.bin = "m"
    /\ DOMAIN Art!Absent = {"m", "s", "man", "log", "side_m", "side_s", "."}
    /\ \A f \in DOMAIN Art!Absent : Art!Absent[f] = Art!None
BY DEF Art!Idle, Art!NoDeploy, Art!Absent, Art!Files

(* What a step leaves of the locals of its agent. *)
Steps(a) ==
    /\ DOMAIN v7' = Agents /\ DOMAIN v8' = Agents
    /\ \A b \in Agents \ {a} : v7'[b] = v7[b] /\ v8'[b] = v8[b]
    /\ DOMAIN v7'[a] = DOMAIN Art!Idle /\ v7'[a].sha \in Art!Shas \union {Art!None} /\ v7'[a].shas \subseteq Art!Shas
    /\ v7'[a].pc \in Art!Filing => v7'[a].sha \in Art!Shas
    /\ DOMAIN v8'[a] = DOMAIN Art!NoDeploy /\ v8'[a].bin \in {"m", "s"}

LEMMA EndSteps ==
    ASSUME Art!TypeOK, NEW a \in Agents, Art!End(a)
    PROVE  Steps(a) /\ v7'[a].pc = "idle" /\ v8'[a].rc = 9
BY IdleIs DEF Art!TypeOK, Art!End, Art!Exit, Steps, Art!Filing

LEMMA GotoSteps ==
    ASSUME Art!TypeOK, NEW a \in Agents, NEW pc, Art!Goto(a, pc), pc \in Art!Filing => v7[a].pc \in Art!Filing
    PROVE  Steps(a) /\ v7'[a].pc = pc /\ v8'[a] = v8[a]
BY IdleIs DEF Art!TypeOK, Art!Goto, Steps

LEMMA BeginSteps ==
    ASSUME Art!TypeOK, NEW a \in Agents, NEW p, Art!Begin(a, p), DOMAIN p = DOMAIN Art!Idle,
           p.sha \in Art!Shas \union {Art!None}, p.shas \subseteq Art!Shas, p.pc \in Art!Filing => p.sha \in Art!Shas
    PROVE  Steps(a) /\ v7'[a] = p /\ v8'[a].rc = 9
BY IdleIs DEF Art!TypeOK, Art!Begin, Steps

(* The directories and the labels stay what they are. *)
DirsOK ==
    /\ DOMAIN v1' = Art!Shas /\ DOMAIN v2' = Art!Shas
    /\ \A s \in Art!Shas : DOMAIN v1'[s] = DOMAIN Art!Absent /\ DOMAIN v2'[s] = DOMAIN Art!Absent
TagsOK == DOMAIN v3' = Labels /\ \A l \in Labels : v3'[l] \in Art!Shas \union {Art!None}

LEMMA ConstantsStay ==
    /\ DOMAIN Art!Idle' = DOMAIN Art!Idle /\ DOMAIN Art!NoDeploy' = DOMAIN Art!NoDeploy
    /\ DOMAIN Art!Absent' = DOMAIN Art!Absent /\ Art!Shas' = Art!Shas /\ Art!None' = Art!None
    /\ Art!Filing' = Art!Filing
BY DEF Art!Idle, Art!NoDeploy, Art!Absent, Art!Shas, Art!None, Art!NoIndex, Art!Files, Art!Filing

LEMMA StepTypes ==
    ASSUME Art!TypeOK, NEW a \in Agents, Steps(a), DirsOK, TagsOK
    PROVE  Art!TypeOK'
<1>2. ASSUME NEW b \in Agents
      PROVE  /\ DOMAIN v7'[b] = DOMAIN Art!Idle
             /\ v7'[b].sha \in Art!Shas \union {Art!None} /\ v7'[b].shas \subseteq Art!Shas
             /\ v7'[b].pc \in Art!Filing => v7'[b].sha \in Art!Shas
             /\ DOMAIN v8'[b] = DOMAIN Art!NoDeploy /\ v8'[b].bin \in {"m", "s"}
  BY DEF Art!TypeOK, Steps
<1> QED
  BY <1>2, ConstantsStay DEF Art!TypeOK, Steps, DirsOK, TagsOK

LEMMA SameTypes ==
    ASSUME Art!TypeOK
    PROVE  (UNCHANGED <<v1, v2>> => DirsOK) /\ (UNCHANGED v3 => TagsOK)
BY DEF Art!TypeOK, DirsOK, TagsOK

(* A step of a command that deploys nothing. *)
LEMMA PlainStep ==
    ASSUME Art!IInv, NEW a \in Agents, Steps(a), DirsOK, TagsOK, FilesKept,
           v7'[a].pc \notin Art!Early \union Art!Late, v8'[a].rc = 9
    PROVE  Art!IInv'
<1>1. Art!TypeOK /\ Art!TypeOK'
  BY StepTypes DEF Art!IInv
<1> QED
  BY <1>1, PlainKeeps DEF Steps

(* An agent that adds, removes or lists has deployed nothing. *)
LEMMA NothingYet ==
    ASSUME Art!IInv, NEW a \in Agents, v7[a].pc \notin Art!Early \union Art!Late \union {"idle"}
    PROVE  v8[a].rc = 9
BY DEF Art!IInv, Art!OfAHash

LEMMA Pcs == {"recheck", "clear", "rm_incoming", "mkdir", "m", "s", "man", "log", "rename", "untag", "link",
              "read_index", "write_tmp", "replace", "reconcile", "gc", "reap", "rm_blob", "idle"}
                 \intersect (Art!Early \union Art!Late) = {}
BY DEF Art!Early, Art!Late

LEMMA AddStarts == ASSUME Art!IInv, NEW a \in Agents, Art!CmdAdd(a) PROVE Art!IInv'
<1>0. Art!TypeOK
  BY DEF Art!IInv
<1>1. PICK b, l, p :
          /\ b \in Builds /\ l \in Labels
          /\ p = [Art!Idle EXCEPT !.pc = IF Art!There(v1[b.m]) THEN "recheck" ELSE "clear",
                                  !.sha = b.m, !.slave = b.s, !.label = l]
          /\ Art!Begin(a, p)
  BY DEF Art!CmdAdd
<1>2. /\ DOMAIN p = DOMAIN Art!Idle /\ p.pc \in {"recheck", "clear"} /\ p.sha = b.m /\ p.shas = {}
  BY <1>1, IdleIs
<1>2a. p.sha \in Art!Shas /\ p.shas \subseteq Art!Shas
  BY <1>1, <1>2 DEF Art!Shas
<1>3. Steps(a) /\ v7'[a] = p /\ v8'[a].rc = 9
  BY <1>0, <1>1, <1>2, <1>2a, BeginSteps
<1>4. UNCHANGED <<v1, v2, v3>>
  BY DEF Art!CmdAdd, Art!dirVars
<1> QED
  BY <1>0, <1>2, <1>3, <1>4, SameDirs, SameTypes, PlainStep, Pcs

LEMMA RechecksKeep ==
    ASSUME Art!IInv, NEW a \in Agents, Art!Recheck(a) \/ Art!Clear(a)
    PROVE  Art!IInv'
<1>0. Art!TypeOK
  BY DEF Art!IInv
<1>1. v7[a].pc \in {"recheck", "clear"} /\ UNCHANGED <<v1, v2, v3>>
  BY DEF Art!Recheck, Art!Clear, Art!At, Art!dirVars
<1>2. v8[a].rc = 9
  BY <1>1, NothingYet, Pcs
<1>3. Steps(a) /\ v7'[a].pc \in {"untag", "idle", "rm_incoming", "mkdir"} /\ v8'[a].rc = 9
  <2>1. CASE Art!Recheck(a)
    BY <1>0, <1>1, <1>2, <2>1, EndSteps, GotoSteps DEF Art!Recheck, Art!Filing
  <2>2. CASE Art!Clear(a)
    <3>1. CASE Art!Goto(a, "mkdir")
      BY <1>0, <1>1, <1>2, <3>1, GotoSteps DEF Art!Filing
    <3>2. CASE v7' = [v7 EXCEPT ![a].pc = "rm_incoming", ![a].todo = Art!Present(v2[v7[a].sha])] /\ UNCHANGED v8
      BY <1>0, <1>1, <1>2, <3>2, IdleIs DEF Art!TypeOK, Steps, Art!Filing
    <3> QED
      BY <2>2, <3>1, <3>2 DEF Art!Clear
  <2> QED
    BY <2>1, <2>2
<1> QED
  BY <1>0, <1>1, <1>3, SameDirs, SameTypes, PlainStep, Pcs

(* What rmtree does to a directory and to its command. *)
LEMMA Removes ==
    ASSUME Art!TypeOK, NEW a \in Agents, NEW dir, DOMAIN dir = DOMAIN Art!Absent, NEW next, v7[a].pc # "idle",
           NEW o \in Art!RmOutcomes(a, dir, next)
    PROVE  /\ DOMAIN o.dir = DOMAIN Art!Absent
           /\ \A f \in Art!Files : o.dir[f] \in {Art!None, dir[f]}
           /\ DOMAIN o.proc = DOMAIN Art!Idle /\ o.proc.pc \in {v7[a].pc, next, "idle"}
           /\ o.proc.sha \in {v7[a].sha, Art!None} /\ o.proc.shas \subseteq v7[a].shas
           /\ o.proc.pc # "idle" => o.proc.sha = v7[a].sha
<1>0. DOMAIN v7[a] = DOMAIN Art!Idle /\ Art!Files \subseteq DOMAIN Art!Absent
  BY IdleIs DEF Art!TypeOK, Art!Files
<1>1. CASE o = [dir |-> dir, proc |-> Art!Idle]
  BY <1>1, IdleIs
<1>2. CASE \E f \in v7[a].todo : o = [dir |-> [dir EXCEPT ![f] = Art!None], proc |-> [v7[a] EXCEPT !.todo = @ \ {f}]]
  BY <1>0, <1>2, IdleIs
<1>3. CASE o = [dir |-> Art!Absent, proc |-> [v7[a] EXCEPT !.pc = next]]
  BY <1>0, <1>3, IdleIs
<1> QED
  BY <1>1, <1>2, <1>3 DEF Art!RmOutcomes

LEMMA RemoveStagingKeeps == ASSUME Art!IInv, NEW a \in Agents, Art!RemoveStaging(a) PROVE Art!IInv'
<1>0. Art!TypeOK
  BY DEF Art!IInv
<1>1. v7[a].pc = "rm_incoming" /\ UNCHANGED <<v1, v3, v8>>
  BY DEF Art!RemoveStaging, Art!At
<1>2. PICK o \in Art!RmOutcomes(a, v2[v7[a].sha], "mkdir") :
         v2' = [v2 EXCEPT ![v7[a].sha] = o.dir] /\ v7' = [v7 EXCEPT ![a] = o.proc]
  BY DEF Art!RemoveStaging
<1>3. v8[a].rc = 9
  BY <1>1, NothingYet, Pcs
<1>4. v7[a].sha \in Art!Shas
  BY <1>0, <1>1 DEF Art!TypeOK, Art!Filing
<1>5. /\ DOMAIN o.dir = DOMAIN Art!Absent
      /\ DOMAIN o.proc = DOMAIN Art!Idle /\ o.proc.pc \in {"rm_incoming", "mkdir", "idle"}
      /\ o.proc.sha \in {v7[a].sha, Art!None} /\ o.proc.shas \subseteq v7[a].shas
      /\ o.proc.pc # "idle" => o.proc.sha = v7[a].sha
  <2>1. DOMAIN v2[v7[a].sha] = DOMAIN Art!Absent
    BY <1>0, <1>4 DEF Art!TypeOK
  <2> QED
    BY <1>0, <1>1, <1>2, <2>1, Removes
<1>6. Steps(a) /\ v7'[a].pc = o.proc.pc /\ v8'[a].rc = 9
  BY <1>0, <1>1, <1>2, <1>3, <1>4, <1>5 DEF Art!TypeOK, Steps, Art!Filing
<1>7. DirsOK
  BY <1>0, <1>1, <1>2, <1>5 DEF Art!TypeOK, DirsOK
<1> QED
  BY <1>0, <1>1, <1>5, <1>6, <1>7, SameDirs, SameTypes, PlainStep, Pcs

LEMMA StagingKeeps ==
    ASSUME Art!IInv, NEW a \in Agents, Art!Makedirs(a) \/ \E f \in {"m", "s", "man", "log"} : Art!Copy(a, f)
    PROVE  Art!IInv'
<1>0. Art!TypeOK
  BY DEF Art!IInv
<1>1. v7[a].pc \in {"mkdir", "m", "s", "man", "log"} /\ UNCHANGED <<v1, v3>>
  BY DEF Art!Makedirs, Art!Copy, Art!At
<1>2. v8[a].rc = 9
  BY <1>1, NothingYet, Pcs
<1>3. /\ Art!End(a) \/ \E pc \in {"m", "s", "man", "log", "rename"} : Art!Goto(a, pc)
      /\ v2' = v2 \/ \E f, x : v2' = [v2 EXCEPT ![v7[a].sha][f] = x]
  BY DEF Art!Makedirs, Art!Copy
<1>4. Steps(a) /\ v7'[a].pc \in {"m", "s", "man", "log", "rename", "idle"} /\ v8'[a].rc = 9
  BY <1>0, <1>1, <1>2, <1>3, EndSteps, GotoSteps DEF Art!Filing
<1>5. DirsOK
  BY <1>0, <1>1, <1>3 DEF Art!TypeOK, DirsOK
<1> QED
  BY <1>0, <1>1, <1>4, <1>5, SameDirs, SameTypes, PlainStep, Pcs

LEMMA RenameKeeps == ASSUME Art!IInv, NEW a \in Agents, Art!Rename(a) PROVE Art!IInv'
<1>0. Art!TypeOK
  BY DEF Art!IInv
<1>1. v7[a].pc = "rename" /\ UNCHANGED v3 /\ v7[a].sha \in Art!Shas
  BY <1>0 DEF Art!Rename, Art!At, Art!TypeOK, Art!Filing
<1>2. v8[a].rc = 9
  BY <1>1, NothingYet, Pcs
<1>3. CASE Art!Renames(v7[a].sha)
  <2>1. /\ v1' = [v1 EXCEPT ![v7[a].sha] = v2[v7[a].sha]] /\ v2' = [v2 EXCEPT ![v7[a].sha] = Art!Absent]
        /\ Art!Goto(a, "untag") /\ Art!Present(v1[v7[a].sha]) = {}
    BY <1>3 DEF Art!Rename, Art!Renames
  <2>2. Steps(a) /\ v7'[a].pc = "untag" /\ v8'[a].rc = 9
    BY <1>0, <1>1, <1>2, <2>1, GotoSteps DEF Art!Filing
  <2>3. DirsOK
    BY <1>0, <1>1, <2>1 DEF Art!TypeOK, DirsOK
  <2>4. FilesKept
    BY <1>0, <1>1, <2>1 DEF Art!TypeOK, FilesKept, Art!Present, Art!Files
  <2> QED
    BY <1>0, <1>1, <2>2, <2>3, <2>4, SameTypes, PlainStep, Pcs
<1>4. CASE ~Art!Renames(v7[a].sha)
  <2>1. Art!End(a) /\ UNCHANGED <<v1, v2>>
    BY <1>4 DEF Art!Rename, Art!dirVars
  <2>2. Steps(a) /\ v7'[a].pc = "idle" /\ v8'[a].rc = 9
    BY <1>0, <2>1, EndSteps
  <2> QED
    BY <1>0, <1>1, <2>1, <2>2, SameDirs, SameTypes, PlainStep, Pcs
<1> QED
  BY <1>3, <1>4

LEMMA TagsKeep ==
    ASSUME Art!IInv, NEW a \in Agents, Art!Unlink(a) \/ Art!Symlink(a)
    PROVE  Art!IInv'
<1>0. Art!TypeOK
  BY DEF Art!IInv
<1>1. v7[a].pc \in {"untag", "link"} /\ UNCHANGED <<v1, v2>>
  BY DEF Art!Unlink, Art!Symlink, Art!At, Art!dirVars
<1>2. v8[a].rc = 9
  BY <1>1, NothingYet, Pcs
<1>3. /\ Art!End(a) \/ Art!Goto(a, "link") \/ Art!Goto(a, "read_index")
      /\ v3' = v3 \/ \E x \in {Art!None, v7[a].sha} : v3' = [v3 EXCEPT ![v7[a].label] = x]
  BY DEF Art!Unlink, Art!Symlink
<1>4. Steps(a) /\ v7'[a].pc \in {"idle", "link", "read_index"} /\ v8'[a].rc = 9
  BY <1>0, <1>1, <1>2, <1>3, EndSteps, GotoSteps DEF Art!Filing
<1>5. TagsOK
  BY <1>0, <1>3 DEF Art!TypeOK, TagsOK
<1> QED
  BY <1>0, <1>1, <1>4, <1>5, SameDirs, SameTypes, PlainStep, Pcs

LEMMA IndexKeeps ==
    ASSUME Art!IInv, NEW a \in Agents,
           Art!Reconcile(a) \/ Art!ReadIndex(a) \/ Art!WriteTmp(a) \/ Art!Replace(a)
    PROVE  Art!IInv'
<1>0. Art!TypeOK
  BY DEF Art!IInv
<1>1. v7[a].pc \in {"reconcile", "read_index", "write_tmp", "replace"} /\ UNCHANGED <<v1, v2, v3>>
  BY DEF Art!Reconcile, Art!ReadIndex, Art!WriteTmp, Art!Replace, Art!At, Art!dirVars
<1>2. v8[a].rc = 9
  BY <1>1, NothingYet, Pcs
<1>3. \/ Art!End(a) \/ Art!Goto(a, "replace")
      \/ \E x : v7' = [v7 EXCEPT ![a].pc = "write_tmp", ![a].idx = x] /\ UNCHANGED v8
  BY DEF Art!Reconcile, Art!ReadIndex, Art!WriteTmp, Art!Replace
<1>4. Steps(a) /\ v7'[a].pc \in {"idle", "write_tmp", "replace"} /\ v8'[a].rc = 9
  <2>1. CASE Art!End(a) \/ Art!Goto(a, "replace")
    BY <1>0, <1>2, <2>1, EndSteps, GotoSteps DEF Art!Filing
  <2>2. CASE \E x : v7' = [v7 EXCEPT ![a].pc = "write_tmp", ![a].idx = x] /\ UNCHANGED v8
    BY <1>0, <1>2, <2>2, IdleIs DEF Art!TypeOK, Steps, Art!Filing
  <2> QED
    BY <1>3, <2>1, <2>2
<1> QED
  BY <1>0, <1>1, <1>4, SameDirs, SameTypes, PlainStep, Pcs

LEMMA CommandsKeep ==
    ASSUME Art!IInv, NEW a \in Agents, Art!CmdUntag(a) \/ Art!CmdList(a) \/ Art!CmdGc(a)
    PROVE  Art!IInv'
<1>0. Art!TypeOK
  BY DEF Art!IInv
<1>1. UNCHANGED <<v1, v2>> /\ (v3' = v3 \/ \E l \in Labels : v3' = [v3 EXCEPT ![l] = Art!None])
  BY DEF Art!CmdUntag, Art!CmdList, Art!CmdGc, Art!dirVars
<1>2. \/ Art!End(a)
      \/ \E l \in Labels : Art!Begin(a, [Art!Idle EXCEPT !.pc = "read_index", !.label = l])
      \/ Art!Begin(a, [Art!Idle EXCEPT !.pc = "reconcile", !.idx = v4])
      \/ Art!Begin(a, [Art!Idle EXCEPT !.pc = "gc", !.shas = {v3[l] : l \in Labels} \ {Art!None}])
  BY DEF Art!CmdUntag, Art!CmdList, Art!CmdGc
<1>3. Steps(a) /\ v7'[a].pc \in {"idle", "read_index", "reconcile", "gc"} /\ v8'[a].rc = 9
  <2>1. CASE Art!End(a)
    BY <1>0, <2>1, EndSteps
  <2>2. CASE \E l \in Labels : Art!Begin(a, [Art!Idle EXCEPT !.pc = "read_index", !.label = l])
    <3>1. PICK l, p : l \in Labels /\ p = [Art!Idle EXCEPT !.pc = "read_index", !.label = l] /\ Art!Begin(a, p)
      BY <2>2
    <3>2. DOMAIN p = DOMAIN Art!Idle /\ p.pc = "read_index" /\ p.sha = Art!None /\ p.shas = {}
      BY <3>1, IdleIs
    <3> QED
      BY <1>0, <3>1, <3>2, BeginSteps DEF Art!Filing
  <2>3. CASE Art!Begin(a, [Art!Idle EXCEPT !.pc = "reconcile", !.idx = v4])
    <3>1. PICK p : p = [Art!Idle EXCEPT !.pc = "reconcile", !.idx = v4] /\ Art!Begin(a, p)
      BY <2>3
    <3>2. DOMAIN p = DOMAIN Art!Idle /\ p.pc = "reconcile" /\ p.sha = Art!None /\ p.shas = {}
      BY <3>1, IdleIs
    <3> QED
      BY <1>0, <3>1, <3>2, BeginSteps DEF Art!Filing
  <2>4. CASE Art!Begin(a, [Art!Idle EXCEPT !.pc = "gc", !.shas = {v3[l] : l \in Labels} \ {Art!None}])
    <3>1. PICK p, S : /\ S = {v3[l] : l \in Labels} \ {Art!None}
                      /\ p = [Art!Idle EXCEPT !.pc = "gc", !.shas = S] /\ Art!Begin(a, p)
      BY <2>4
    <3>2. DOMAIN p = DOMAIN Art!Idle /\ p.pc = "gc" /\ p.sha = Art!None /\ p.shas = S
      BY <3>1, IdleIs
    <3>3. S \subseteq Art!Shas
      BY <1>0, <3>1 DEF Art!TypeOK
    <3> QED
      BY <1>0, <3>1, <3>2, <3>3, BeginSteps DEF Art!Filing
  <2> QED
    BY <1>2, <2>1, <2>2, <2>3, <2>4
<1>4. TagsOK
  BY <1>0, <1>1 DEF Art!TypeOK, TagsOK
<1> QED
  BY <1>0, <1>1, <1>3, <1>4, SameDirs, SameTypes, PlainStep, Pcs

LEMMA GcKeeps ==
    ASSUME Art!IInv, NEW a \in Agents, Art!GcOrphans(a) \/ Art!Reap(a)
    PROVE  Art!IInv'
<1>0. Art!TypeOK
  BY DEF Art!IInv
<1>1. v7[a].pc \in {"gc", "reap"} /\ UNCHANGED <<v1, v2, v3>>
  BY DEF Art!GcOrphans, Art!Reap, Art!At, Art!dirVars
<1>2. v8[a].rc = 9
  BY <1>1, NothingYet, Pcs
<1>3. \/ Art!End(a)
      \/ \E S \in SUBSET Art!Shas : v7' = [v7 EXCEPT ![a].pc = "reap", ![a].shas = S] /\ UNCHANGED v8
      \/ \E s \in v7[a].shas : \E x :
            v7' = [v7 EXCEPT ![a].pc = "rm_blob", ![a].sha = s, ![a].shas = @ \ {s}, ![a].todo = x] /\ UNCHANGED v8
  <2>1. CASE Art!GcOrphans(a)
    <3>1. v7' = [v7 EXCEPT ![a].pc = "reap", ![a].shas = {s \in Art!Shas : Art!There(v1[s])} \ v7[a].shas] /\ UNCHANGED v8
      BY <1>0, <2>1, IdleIs DEF Art!GcOrphans, Art!TypeOK
    <3>2. {s \in Art!Shas : Art!There(v1[s])} \ v7[a].shas \in SUBSET Art!Shas
      OBVIOUS
    <3> QED
      BY <3>1, <3>2
  <2>2. CASE Art!Reap(a)
    BY <2>2 DEF Art!Reap
  <2> QED
    BY <2>1, <2>2
<1>4. Steps(a) /\ v7'[a].pc \in {"idle", "reap", "rm_blob"} /\ v8'[a].rc = 9
  <2>1. CASE Art!End(a)
    BY <1>0, <1>2, <2>1, EndSteps
  <2>2. CASE \E S \in SUBSET Art!Shas : v7' = [v7 EXCEPT ![a].pc = "reap", ![a].shas = S] /\ UNCHANGED v8
    BY <1>0, <1>2, <2>2, IdleIs DEF Art!TypeOK, Steps, Art!Filing
  <2>3. CASE \E s \in v7[a].shas : \E x :
            v7' = [v7 EXCEPT ![a].pc = "rm_blob", ![a].sha = s, ![a].shas = @ \ {s}, ![a].todo = x] /\ UNCHANGED v8
    BY <1>0, <1>2, <2>3, IdleIs DEF Art!TypeOK, Steps, Art!Filing
  <2> QED
    BY <1>3, <2>1, <2>2, <2>3
<1> QED
  BY <1>0, <1>1, <1>4, SameDirs, SameTypes, PlainStep, Pcs

(* A file that goes or rots marks the deployments that have looked at it. *)
LEMMA BehindKeeps ==
    ASSUME Art!IInv, NEW sha \in Art!Shas, Art!Behind(sha), NEW b \in Agents, v7'[b].pc = v7[b].pc,
           \A s \in Art!Shas \ {sha} : v1'[s] = v1[s]
    PROVE  Sound(b)'
<1>1. Sound(b) /\ v8[b].bin \in {"m", "s"} /\ DOMAIN v8[b] = {"sha", "s", "bin", "got_m", "got_s", "rc", "stale"}
  BY SoundIsInv, IdleIs DEF Art!TypeOK
<1>2. CASE v7[b].pc \in {"load_m", "load_s"} /\ v8[b].sha = sha
  <2>1. v8'[b] = [v8[b] EXCEPT !.stale = TRUE]
    BY <1>2 DEF Art!Behind
  <2>2. /\ v8'[b].stale = TRUE /\ v8'[b].rc = v8[b].rc /\ v8'[b].sha = v8[b].sha
    BY <1>1, <2>1
  <2> QED
    BY <1>1, <1>2, <2>2 DEF Sound, Labelled, Art!OfAHash, Art!Guards, Art!Early, Art!Late
<1>3. CASE ~(v7[b].pc \in {"load_m", "load_s"} /\ v8[b].sha = sha)
  <2>1. v8'[b] = v8[b]
    BY <1>3 DEF Art!Behind
  <2>2. v7[b].pc \in {"load_m", "load_s"} => v1'[v8[b].sha] = v1[v8[b].sha]
    BY <1>1, <1>3 DEF Sound, Art!OfAHash, Art!Late
  <2> QED
    BY <1>1, <2>1, <2>2 DEF Sound, Labelled, Art!OfAHash, Art!Guards
<1> QED
  BY <1>2, <1>3

LEMMA BehindTypes ==
    ASSUME Art!TypeOK, NEW sha, Art!Behind(sha)
    PROVE  DOMAIN v8' = Agents /\ \A b \in Agents : DOMAIN v8'[b] = DOMAIN Art!NoDeploy /\ v8'[b].bin \in {"m", "s"}
<1>1. DOMAIN v8' = Agents
  BY DEF Art!Behind
<1>2. ASSUME NEW b \in Agents PROVE DOMAIN v8'[b] = DOMAIN Art!NoDeploy /\ v8'[b].bin \in {"m", "s"}
  <2>1. v8'[b] = v8[b] \/ v8'[b] = [v8[b] EXCEPT !.stale = TRUE]
    BY DEF Art!Behind
  <2> QED
    BY <2>1, IdleIs DEF Art!TypeOK
<1> QED
  BY <1>1, <1>2

LEMMA RemoveBlobKeeps == ASSUME Art!IInv, NEW a \in Agents, Art!RemoveBlob(a) PROVE Art!IInv'
<1>0. Art!TypeOK
  BY DEF Art!IInv
<1>1. v7[a].pc = "rm_blob" /\ UNCHANGED <<v2, v3>> /\ Art!Behind(v7[a].sha)
  BY DEF Art!RemoveBlob, Art!At
<1>2. PICK o \in Art!RmOutcomes(a, v1[v7[a].sha], "reap") :
         v1' = [v1 EXCEPT ![v7[a].sha] = o.dir] /\ v7' = [v7 EXCEPT ![a] = o.proc]
  BY DEF Art!RemoveBlob
<1>3. v8[a].rc = 9 /\ v8'[a] = v8[a]
  BY <1>1, NothingYet, Pcs DEF Art!Behind
<1>4. v7[a].sha \in Art!Shas
  BY <1>0, <1>1 DEF Art!TypeOK, Art!Filing
<1>5. /\ DOMAIN o.dir = DOMAIN Art!Absent
      /\ DOMAIN o.proc = DOMAIN Art!Idle /\ o.proc.pc \in {"rm_blob", "reap", "idle"}
      /\ o.proc.sha \in {v7[a].sha, Art!None} /\ o.proc.shas \subseteq v7[a].shas
      /\ o.proc.pc # "idle" => o.proc.sha = v7[a].sha
  <2>1. DOMAIN v1[v7[a].sha] = DOMAIN Art!Absent
    BY <1>0, <1>4 DEF Art!TypeOK
  <2> QED
    BY <1>0, <1>1, <1>2, <2>1, Removes
<1>6. Art!TypeOK'
  <2>1. /\ DOMAIN v7' = Agents /\ v7'[a] = o.proc /\ \A b \in Agents \ {a} : v7'[b] = v7[b]
        /\ DOMAIN v1' = Art!Shas /\ \A s \in Art!Shas : DOMAIN v1'[s] = DOMAIN Art!Absent
    BY <1>0, <1>2, <1>4, <1>5 DEF Art!TypeOK
  <2>2. ASSUME NEW b \in Agents
        PROVE  /\ DOMAIN v7'[b] = DOMAIN Art!Idle
               /\ v7'[b].sha \in Art!Shas \union {Art!None} /\ v7'[b].shas \subseteq Art!Shas
               /\ v7'[b].pc \in Art!Filing => v7'[b].sha \in Art!Shas
    BY <1>0, <1>4, <1>5, <2>1 DEF Art!TypeOK, Art!Filing
  <2>3. DOMAIN v8' = Agents /\ \A b \in Agents : DOMAIN v8'[b] = DOMAIN Art!NoDeploy /\ v8'[b].bin \in {"m", "s"}
    BY <1>0, <1>1, BehindTypes
  <2> QED
    BY <1>0, <1>1, <2>1, <2>2, <2>3, ConstantsStay DEF Art!TypeOK
<1>7. ASSUME NEW b \in Agents, b # a PROVE Sound(b)'
  <2>1. v7'[b].pc = v7[b].pc /\ \A s \in Art!Shas \ {v7[a].sha} : v1'[s] = v1[s]
    BY <1>0, <1>2, <1>7 DEF Art!TypeOK
  <2> QED
    BY <1>1, <1>4, <2>1, BehindKeeps
<1>8. Sound(a)'
  <2>1. v7'[a].pc \in {"rm_blob", "reap", "idle"} /\ v8'[a].rc = 9
    BY <1>0, <1>2, <1>3, <1>5 DEF Art!TypeOK
  <2> QED
    BY <2>1 DEF Sound, Labelled, Art!OfAHash, Art!Guards, Art!Early, Art!Late
<1> QED
  BY <1>6, <1>7, <1>8, AllSound

LEMMA RotKeeps == ASSUME Art!IInv, Art!Rot PROVE Art!IInv'
<1>0. Art!TypeOK
  BY DEF Art!IInv
<1>1. PICK s \in Art!Shas, f \in {"m", "s"} :
         UNCHANGED <<v2, v3, v7>> /\ Art!Behind(s) /\ v1' = [v1 EXCEPT ![s][f] = "rotten"]
  BY DEF Art!Rot
<1>2. DOMAIN v1' = Art!Shas /\ \A x \in Art!Shas : DOMAIN v1'[x] = DOMAIN Art!Absent
  BY <1>0, <1>1 DEF Art!TypeOK
<1>3. Art!TypeOK'
  <2>1. DOMAIN v8' = Agents /\ \A b \in Agents : DOMAIN v8'[b] = DOMAIN Art!NoDeploy /\ v8'[b].bin \in {"m", "s"}
    BY <1>0, <1>1, BehindTypes
  <2> QED
    BY <1>0, <1>1, <1>2, <2>1, ConstantsStay DEF Art!TypeOK
<1>4. ASSUME NEW b \in Agents PROVE Sound(b)'
  BY <1>0, <1>1, BehindKeeps DEF Art!TypeOK
<1> QED
  BY <1>3, <1>4, AllSound

(* A step of a deployment. *)
LEMMA DeployStep ==
    ASSUME Art!IInv, NEW a \in Agents, Steps(a), DirsOK, TagsOK, FilesKept, Sound(a)'
    PROVE  Art!IInv'
<1>1. Art!TypeOK'
  BY StepTypes DEF Art!IInv
<1>2. ASSUME NEW b \in Agents, b # a PROVE Sound(b)'
  BY <1>2, OthersKeep DEF Steps
<1> QED
  BY <1>1, <1>2, AllSound

(* A command that ends without a deployment, or before one. *)
LEMMA ArtEndKeeps ==
    ASSUME Art!IInv, NEW a \in Agents, Art!End(a), UNCHANGED <<v1, v2, v3>>
    PROVE  Art!IInv'
<1>1. Steps(a) /\ v7'[a].pc = "idle" /\ v8'[a].rc = 9
  BY EndSteps DEF Art!IInv
<1> QED
  BY <1>1, SameDirs, SameTypes, PlainStep, Pcs DEF Art!IInv

(* verify and a kill end a command, and the former's status is not 0. *)
LEMMA KillKeeps == ASSUME Art!IInv, NEW a \in Agents, Art!Kill(a) PROVE Art!IInv'
BY ArtEndKeeps DEF Art!Kill, Art!dirVars

LEMMA VerifyKeeps == ASSUME Art!IInv, NEW a \in Agents, Art!CmdVerify(a) PROVE Art!IInv'
<1>0. Art!TypeOK
  BY DEF Art!IInv
<1>1. UNCHANGED <<v1, v2, v3>>
  BY DEF Art!CmdVerify, Art!dirVars
<1>2. PICK r \in {1, 2, 8} : Art!Exit(a, [Art!NoDeploy EXCEPT !.rc = r])
  BY DEF Art!CmdVerify
<1>3. Steps(a) /\ v7'[a].pc = "idle" /\ v8'[a].rc = r
  BY <1>0, <1>2, IdleIs DEF Art!TypeOK, Art!Exit, Steps, Art!Filing
<1>4. Sound(a)'
  BY <1>2, <1>3 DEF Sound, Labelled, Art!OfAHash, Art!Guards, Art!Early, Art!Late
<1> QED
  BY <1>0, <1>1, <1>3, <1>4, SameDirs, SameTypes, DeployStep

LEMMA DeployStarts == ASSUME Art!IInv, NEW a \in Agents, Art!CmdDeploy(a) PROVE Art!IInv'
<1>0. Art!TypeOK
  BY DEF Art!IInv
<1>1. UNCHANGED <<v1, v2, v3>>
  BY DEF Art!CmdDeploy, Art!dirVars
<1>2. PICK ref \in Art!Refs :
         \/ Art!End(a)
         \/ /\ Art!ShaOf(ref) # Art!None
            /\ v7' = [v7 EXCEPT ![a] = [Art!Idle EXCEPT !.pc = "read_manifest"]]
            /\ v8' = [v8 EXCEPT ![a] = [Art!NoDeploy EXCEPT !.sha = Art!ShaOf(ref)]]
  BY DEF Art!CmdDeploy
<1>3. CASE ~Art!End(a)
  <2>1. PICK sha : sha = Art!ShaOf(ref)
    OBVIOUS
  <2>2. sha \in Art!Shas /\ sha # Art!None
    BY <1>0, <1>2, <1>3, <2>1 DEF Art!TypeOK, Art!ShaOf, Art!Refs
  <2>3. Steps(a) /\ v7'[a].pc = "read_manifest" /\ v8'[a].rc = 9 /\ v8'[a].sha = sha
    BY <1>0, <1>2, <1>3, <2>1, IdleIs DEF Art!TypeOK, Steps, Art!Filing
  <2>4. Sound(a)'
    BY <2>2, <2>3 DEF Sound, Labelled, Art!OfAHash, Art!Guards, Art!Early, Art!Late
  <2> QED
    BY <1>0, <1>1, <2>3, <2>4, SameDirs, SameTypes, DeployStep
<1> QED
  BY <1>1, <1>3, ArtEndKeeps

LEMMA ManifestKeeps == ASSUME Art!IInv, NEW a \in Agents, Art!ReadManifest(a) PROVE Art!IInv'
<1>0. Art!TypeOK /\ Sound(a)
  BY SoundIsInv
<1>1. v7[a].pc = "read_manifest" /\ UNCHANGED <<v1, v2, v3>>
  BY DEF Art!ReadManifest, Art!At, Art!dirVars
<1>2. PICK x : v8' = [v8 EXCEPT ![a].s = x] /\ v7' = [v7 EXCEPT ![a].pc = "rehash"]
  BY DEF Art!ReadManifest
<1>3. v8[a].sha \in Art!Shas \ {Art!None} /\ v8[a].rc = 9
  BY <1>0, <1>1 DEF Sound, Art!OfAHash, Art!Early
<1>4. Steps(a) /\ v7'[a].pc = "rehash" /\ v8'[a].rc = 9 /\ v8'[a].sha = v8[a].sha
  BY <1>0, <1>2, <1>3, IdleIs DEF Art!TypeOK, Steps, Art!Filing
<1>5. Sound(a)'
  BY <1>3, <1>4 DEF Sound, Labelled, Art!OfAHash, Art!Guards, Art!Early, Art!Late
<1> QED
  BY <1>0, <1>1, <1>4, <1>5, SameDirs, SameTypes, DeployStep

(* Before the first guard a step only moves on, and writes sidecars. *)
LEMMA EarlyKeeps ==
    ASSUME Art!IInv, NEW a \in Agents, Art!Rehash(a) \/ \E f \in {"side_m", "side_s"} : Art!WriteSidecar(a, f)
    PROVE  Art!IInv'
<1>0. Art!TypeOK /\ Sound(a)
  BY SoundIsInv
<1>1. v7[a].pc \in {"rehash", "side_m", "side_s"} /\ UNCHANGED <<v2, v3>>
  BY DEF Art!Rehash, Art!WriteSidecar, Art!At, Art!dirVars
<1>2. /\ Art!End(a) \/ \E pc \in {"side_m", "side_s", "guard_m"} : Art!Goto(a, pc)
      /\ v1' = v1 \/ \E s, f, x : f \in {"side_m", "side_s"} /\ v1' = [v1 EXCEPT ![s][f] = x]
  <2>1. CASE Art!Rehash(a)
    BY <2>1 DEF Art!Rehash, Art!dirVars
  <2>2. CASE \E f \in {"side_m", "side_s"} : Art!WriteSidecar(a, f)
    <3>1. PICK f \in {"side_m", "side_s"} : Art!WriteSidecar(a, f)
      BY <2>2
    <3>2. Art!End(a) \/ \E pc \in {"side_m", "side_s", "guard_m"} : Art!Goto(a, pc)
      BY <3>1 DEF Art!WriteSidecar
    <3>3. v1' = v1 \/ \E s, x : v1' = [v1 EXCEPT ![s][f] = x]
      BY <3>1, Zenon DEF Art!WriteSidecar
    <3> QED
      BY <3>2, <3>3
  <2> QED
    BY <2>1, <2>2
<1>3. v8[a].sha \in Art!Shas \ {Art!None} /\ v8[a].rc = 9
  BY <1>0, <1>1 DEF Sound, Art!OfAHash, Art!Early
<1>4. DirsOK /\ FilesKept
  BY <1>0, <1>1, <1>2, IdleIs DEF Art!TypeOK, DirsOK, FilesKept
<1>5. CASE Art!End(a)
  BY <1>0, <1>1, <1>4, <1>5, EndSteps, SameTypes, PlainStep, Pcs
<1>6. CASE \E pc \in {"side_m", "side_s", "guard_m"} : Art!Goto(a, pc)
  <2>1. Steps(a) /\ v7'[a].pc \in {"side_m", "side_s", "guard_m"} /\ v8'[a] = v8[a]
    BY <1>0, <1>6, GotoSteps DEF Art!Filing
  <2>2. Sound(a)'
    BY <1>3, <2>1 DEF Sound, Labelled, Art!OfAHash, Art!Guards, Art!Early, Art!Late
  <2> QED
    BY <1>0, <1>1, <1>4, <2>1, <2>2, SameTypes, DeployStep
<1> QED
  BY <1>2, <1>5, <1>6

(* What a board's deployment came to is noted, and the next one is at hand, *)
(* or the command ends.                                                    *)
LEMMA BoardSteps ==
    ASSUME Art!TypeOK, NEW a \in Agents, NEW w \in {"m", "s"}, NEW d, Art!Board(a, w, d),
           DOMAIN d = DOMAIN Art!NoDeploy, d.bin \in {"m", "s"}
    PROVE  /\ Steps(a) /\ v8'[a] = d
           /\ v7'[a].pc = IF w = "m" THEN "guard_s" ELSE "idle"
<1>1. CASE w = "m"
  BY <1>1, IdleIs DEF Art!TypeOK, Art!Board, Steps, Art!Filing
<1>2. CASE w = "s"
  BY <1>2, IdleIs DEF Art!TypeOK, Art!Board, Art!Exit, Steps, Art!Filing
<1> QED
  BY <1>1, <1>2

(* A board whose deployment failed decides the status. *)
LEMMA BoardFails ==
    ASSUME Art!IInv, NEW a \in Agents, NEW w \in {"m", "s"}, NEW r \in {3, 4},
           v7[a].pc \in Art!Early \union Art!Late,
           Art!Board(a, w, [v8[a] EXCEPT !.rc = r]), UNCHANGED <<v1, v2, v3>>
    PROVE  Art!IInv'
<1>0. Art!TypeOK /\ Sound(a)
  BY SoundIsInv
<1>1. PICK d : d = [v8[a] EXCEPT !.rc = r] /\ Art!Board(a, w, d)
  OBVIOUS
<1>2. DOMAIN d = DOMAIN Art!NoDeploy /\ d.bin \in {"m", "s"} /\ d.rc = r /\ d.sha = v8[a].sha
  BY <1>0, <1>1, IdleIs DEF Art!TypeOK
<1>3. Steps(a) /\ v8'[a] = d /\ v7'[a].pc \in {"guard_s", "idle"}
  BY <1>0, <1>1, <1>2, BoardSteps
<1>4. v8[a].sha \in Art!Shas \ {Art!None}
  BY <1>0 DEF Sound, Art!OfAHash
<1>5. Sound(a)'
  BY <1>2, <1>3, <1>4 DEF Sound, Labelled, Art!OfAHash, Art!Guards, Art!Early, Art!Late
<1> QED
  BY <1>0, <1>3, <1>5, SameDirs, SameTypes, DeployStep

LEMMA GuardKeeps ==
    ASSUME Art!IInv, NEW a \in Agents, NEW w \in {"m", "s"}, Art!Guard(a, w)
    PROVE  Art!IInv'
<1>0. Art!TypeOK /\ Sound(a)
  BY SoundIsInv
<1>1. UNCHANGED <<v1, v2, v3>> /\ v7[a].pc = IF w = "m" THEN "guard_m" ELSE "guard_s"
  BY DEF Art!Guard, Art!At, Art!dirVars
<1>2. v8[a].sha \in Art!Shas \ {Art!None} /\ v7[a].pc \in Art!Early \union Art!Late
  BY <1>0, <1>1 DEF Sound, Art!OfAHash, Art!Early, Art!Late
<1>3. CASE Art!Guarded(v1[v8[a].sha], w, IF w = "m" THEN v8[a].sha ELSE v8[a].s)
  <2>1. PICK bin : bin = Art!Bin(v1[v8[a].sha], w)
    OBVIOUS
  <2>2. bin \in {"m", "s"} /\ (w = "m" => v1[v8[a].sha][bin] = v8[a].sha)
                          /\ (w = "s" => v8[a].s = Art!None \/ v1[v8[a].sha][bin] = v8[a].s)
    BY <1>2, <1>3, <2>1 DEF Art!Guarded, Art!Bin, Art!Expected
  <2>3. /\ v7' = [v7 EXCEPT ![a].pc = IF w = "m" THEN "load_m" ELSE "load_s"]
        /\ v8' = [v8 EXCEPT ![a] = [v8[a] EXCEPT !.bin = bin, !.rc = IF v8[a].rc = 9 THEN 0 ELSE v8[a].rc]]
    BY <1>0, <1>3, <2>1, IdleIs DEF Art!Guard, Art!TypeOK
  <2>4. /\ Steps(a) /\ v7'[a].pc = IF w = "m" THEN "load_m" ELSE "load_s"
        /\ v8'[a].bin = bin /\ v8'[a].rc = IF v8[a].rc = 9 THEN 0 ELSE v8[a].rc
        /\ v8'[a].sha = v8[a].sha /\ v8'[a].s = v8[a].s /\ v8'[a].got_m = v8[a].got_m /\ v8'[a].stale = v8[a].stale
    BY <1>0, <2>2, <2>3, IdleIs DEF Art!TypeOK, Steps, Art!Filing
  <2>5. Sound(a)'
    BY <1>0, <1>1, <1>2, <2>2, <2>4 DEF Sound, Labelled, Art!OfAHash, Art!Guards, Art!Early, Art!Late
  <2> QED
    BY <1>0, <1>1, <2>4, <2>5, SameDirs, SameTypes, DeployStep
<1>4. CASE ~Art!Guarded(v1[v8[a].sha], w, IF w = "m" THEN v8[a].sha ELSE v8[a].s)
  <2>1. Art!Board(a, w, [v8[a] EXCEPT !.rc = 4])
    BY <1>4 DEF Art!Guard
  <2> QED
    BY <1>1, <1>2, <2>1, BoardFails
<1> QED
  BY <1>3, <1>4

LEMMA LoadKeeps ==
    ASSUME Art!IInv, NEW a \in Agents, NEW w \in {"m", "s"}, Art!Load(a, w)
    PROVE  Art!IInv'
<1>0. Art!TypeOK /\ Sound(a)
  BY SoundIsInv
<1>1. UNCHANGED <<v1, v2, v3>> /\ v7[a].pc = IF w = "m" THEN "load_m" ELSE "load_s"
  BY DEF Art!Load, Art!At, Art!dirVars
<1>2. v8[a].sha \in Art!Shas \ {Art!None} /\ v7[a].pc \in Art!Early \union Art!Late
  BY <1>0, <1>1 DEF Sound, Art!OfAHash, Art!Early, Art!Late
<1>3. CASE Art!Board(a, w, [v8[a] EXCEPT !.rc = 3])
  BY <1>1, <1>2, <1>3, BoardFails
<1>4. CASE ~Art!Board(a, w, [v8[a] EXCEPT !.rc = 3])
  <2>1. PICK d, bytes : /\ bytes = v1[v8[a].sha][v8[a].bin]
                        /\ d = IF w = "m" THEN [v8[a] EXCEPT !.got_m = bytes] ELSE [v8[a] EXCEPT !.got_s = bytes]
                        /\ Art!Board(a, w, d)
    BY <1>4 DEF Art!Load
  <2>2. /\ DOMAIN d = DOMAIN Art!NoDeploy /\ d.bin \in {"m", "s"} /\ d.rc = v8[a].rc /\ d.sha = v8[a].sha
        /\ d.s = v8[a].s /\ d.stale = v8[a].stale
        /\ d.got_m = IF w = "m" THEN bytes ELSE v8[a].got_m
        /\ d.got_s = IF w = "m" THEN v8[a].got_s ELSE bytes
    BY <1>0, <2>1, IdleIs DEF Art!TypeOK
  <2>3. Steps(a) /\ v8'[a] = d /\ v7'[a].pc = IF w = "m" THEN "guard_s" ELSE "idle"
    BY <1>0, <2>1, <2>2, BoardSteps
  <2>4. Sound(a)'
    <3>1. CASE w = "m"
      BY <1>0, <1>1, <1>2, <2>1, <2>2, <2>3, <3>1 DEF Sound, Labelled, Art!OfAHash, Art!Guards, Art!Early, Art!Late
    <3>2. CASE w = "s"
      BY <1>0, <1>1, <1>2, <2>1, <2>2, <2>3, <3>2 DEF Sound, Labelled, Art!OfAHash, Art!Guards, Art!Early, Art!Late
    <3> QED
      BY <3>1, <3>2
  <2> QED
    BY <1>0, <1>1, <2>3, <2>4, SameDirs, SameTypes, DeployStep
<1> QED
  BY <1>3, <1>4

(* Nothing is stored at first. *)
LEMMA ArtStarts == Art!Init => Art!IInv
<1> SUFFICES ASSUME Art!Init PROVE Art!IInv
  OBVIOUS
<1>1. Art!TypeOK
  BY IdleIs DEF Art!Init, Art!TypeOK, Art!NoIndex, Art!Filing
<1>2. ASSUME NEW a \in Agents PROVE Sound(a)
  BY <1>2, IdleIs DEF Art!Init, Sound, Labelled, Art!OfAHash, Art!Guards, Art!Early, Art!Late
<1> QED
  BY <1>1, <1>2, SoundIsInv

LEMMA ArtStep == Art!IInv /\ Art!Next => Art!IInv'
<1> SUFFICES ASSUME Art!IInv, Art!Next PROVE Art!IInv'
  OBVIOUS
<1>1. CASE Art!Rot
  BY <1>1, RotKeeps
<1>2. ASSUME NEW a \in Agents,
             \/ Art!CmdAdd(a) \/ Art!Recheck(a) \/ Art!Clear(a) \/ Art!RemoveStaging(a) \/ Art!Makedirs(a)
             \/ (\E f \in {"m", "s", "man", "log"} : Art!Copy(a, f)) \/ Art!Rename(a)
             \/ Art!Unlink(a) \/ Art!Symlink(a)
      PROVE  Art!IInv'
  BY <1>2, AddStarts, RechecksKeep, RemoveStagingKeeps, StagingKeeps, RenameKeeps, TagsKeep
<1>3. ASSUME NEW a \in Agents,
             \/ Art!CmdUntag(a) \/ Art!CmdList(a) \/ Art!Reconcile(a) \/ Art!ReadIndex(a) \/ Art!WriteTmp(a)
             \/ Art!Replace(a) \/ Art!CmdGc(a) \/ Art!GcOrphans(a) \/ Art!Reap(a) \/ Art!RemoveBlob(a)
      PROVE  Art!IInv'
  BY <1>3, CommandsKeep, IndexKeeps, GcKeeps, RemoveBlobKeeps
<1>4. ASSUME NEW a \in Agents,
             \/ Art!CmdDeploy(a) \/ Art!ReadManifest(a) \/ Art!Rehash(a)
             \/ (\E f \in {"side_m", "side_s"} : Art!WriteSidecar(a, f)) \/ Art!CmdVerify(a) \/ Art!Kill(a)
      PROVE  Art!IInv'
  BY <1>4, DeployStarts, ManifestKeeps, EarlyKeeps, VerifyKeeps, KillKeeps
<1>5. ASSUME NEW a \in Agents, \E w \in {"m", "s"} : Art!Guard(a, w) \/ Art!Load(a, w)
      PROVE  Art!IInv'
  BY <1>5, GuardKeeps, LoadKeeps
<1> QED
  BY <1>1, <1>2, <1>3, <1>4, <1>5 DEF Art!Next

LEMMA ArtStutters == Art!IInv /\ UNCHANGED Art!vars => Art!IInv'
<1> SUFFICES ASSUME Art!IInv, UNCHANGED Art!vars PROVE Art!IInv'
  OBVIOUS
<1>1. UNCHANGED <<v1, v2, v3, v7, v8>> /\ Art!TypeOK
  BY DEF Art!vars, Art!IInv
<1>2. Art!TypeOK'
  BY <1>1, ConstantsStay DEF Art!TypeOK
<1>3. ASSUME NEW b \in Agents PROVE Sound(b)'
  BY <1>1, SameDirs, OthersKeep
<1> QED
  BY <1>2, <1>3, AllSound

-----------------------------------------------------------------------------
(* What is stored is not rewritten *)

LEMMA SameBlobs == UNCHANGED v1 => Art!BlobsImmutable
BY DEF Art!BlobsImmutable

(* A rename finds nothing in its way, or fails. *)
LEMMA RenameWritesOnce == ASSUME Art!TypeOK, NEW a \in Agents, Art!Rename(a) PROVE Art!BlobsImmutable
<1>1. v7[a].pc = "rename" /\ v7[a].sha \in Art!Shas
  BY DEF Art!Rename, Art!At, Art!TypeOK, Art!Filing
<1>2. CASE Art!Renames(v7[a].sha)
  <2>1. v1' = [v1 EXCEPT ![v7[a].sha] = v2[v7[a].sha]] /\ Art!Present(v1[v7[a].sha]) = {}
    BY <1>2 DEF Art!Rename, Art!Renames
  <2>2. \A f \in {"m", "s", "man"} : v1[v7[a].sha][f] = Art!None
    BY <2>1 DEF Art!Present, Art!Files
  <2> QED
    BY <1>1, <2>1, <2>2 DEF Art!BlobsImmutable, Art!TypeOK
<1>3. CASE ~Art!Renames(v7[a].sha)
  BY <1>3, SameBlobs DEF Art!Rename, Art!dirVars
<1> QED
  BY <1>2, <1>3

LEMMA RemovalOnlyRemoves == ASSUME Art!TypeOK, NEW a \in Agents, Art!RemoveBlob(a) PROVE Art!BlobsImmutable
<1>1. v7[a].pc = "rm_blob" /\ v7[a].sha \in Art!Shas
  BY DEF Art!RemoveBlob, Art!At, Art!TypeOK, Art!Filing
<1>2. PICK o \in Art!RmOutcomes(a, v1[v7[a].sha], "reap") : v1' = [v1 EXCEPT ![v7[a].sha] = o.dir]
  BY DEF Art!RemoveBlob
<1>3. DOMAIN v1[v7[a].sha] = DOMAIN Art!Absent
  BY <1>1 DEF Art!TypeOK
<1>4. \A f \in Art!Files : o.dir[f] \in {Art!None, v1[v7[a].sha][f]}
  BY <1>1, <1>2, <1>3, Removes
<1> QED
  BY <1>1, <1>2, <1>4 DEF Art!BlobsImmutable, Art!TypeOK, Art!Files

(* A sidecar is a file of its own. *)
LEMMA SidecarsStandBeside ==
    ASSUME Art!TypeOK, NEW a \in Agents, NEW f \in {"side_m", "side_s"}, Art!WriteSidecar(a, f)
    PROVE  Art!BlobsImmutable
<1>1. v1' = v1 \/ \E s, x : v1' = [v1 EXCEPT ![s][f] = x]
  BY Zenon DEF Art!WriteSidecar
<1>2. ASSUME NEW s \in Art!Shas, NEW g \in {"m", "s", "man"} PROVE v1'[s][g] = v1[s][g]
  BY <1>1, <1>2, IdleIs DEF Art!TypeOK
<1> QED
  BY <1>2 DEF Art!BlobsImmutable

LEMMA BlobsAreImmutable == ASSUME Art!IInv, v10 \in Nat, Art!Next PROVE Art!BlobsImmutable /\ v10' \in Nat
<1>0. Art!TypeOK
  BY DEF Art!IInv
<1>1. CASE Art!Rot
  <2>1. v10' = v10 + 1
    BY <1>1 DEF Art!Rot
  <2> QED
    BY <2>1 DEF Art!BlobsImmutable
<1>2. ASSUME NEW a \in Agents,
             \/ Art!CmdAdd(a) \/ Art!Recheck(a) \/ Art!Clear(a) \/ Art!RemoveStaging(a) \/ Art!Makedirs(a)
             \/ (\E f \in {"m", "s", "man", "log"} : Art!Copy(a, f)) \/ Art!Unlink(a) \/ Art!Symlink(a)
             \/ Art!CmdUntag(a) \/ Art!CmdList(a) \/ Art!Reconcile(a) \/ Art!ReadIndex(a) \/ Art!WriteTmp(a)
             \/ Art!Replace(a) \/ Art!CmdGc(a) \/ Art!GcOrphans(a) \/ Art!Reap(a)
      PROVE  UNCHANGED <<v1, v10>>
  BY <1>2, Zenon
     DEF Art!CmdAdd, Art!Recheck, Art!Clear, Art!RemoveStaging, Art!Makedirs, Art!Copy, Art!Unlink, Art!Symlink,
         Art!CmdUntag, Art!CmdList, Art!Reconcile, Art!ReadIndex, Art!WriteTmp, Art!Replace, Art!CmdGc,
         Art!GcOrphans, Art!Reap, Art!dirVars, Art!boundVars, Art!Start
<1>3. ASSUME NEW a \in Agents,
             \/ Art!CmdDeploy(a) \/ Art!ReadManifest(a) \/ Art!Rehash(a) \/ Art!CmdVerify(a) \/ Art!Kill(a)
             \/ (\E w \in {"m", "s"} : Art!Guard(a, w) \/ Art!Load(a, w))
      PROVE  UNCHANGED <<v1, v10>>
  BY <1>3, Zenon
     DEF Art!CmdDeploy, Art!ReadManifest, Art!Rehash, Art!CmdVerify, Art!Kill, Art!Guard, Art!Load,
         Art!dirVars, Art!boundVars, Art!Start
<1>4. ASSUME NEW a \in Agents,
             Art!Rename(a) \/ Art!RemoveBlob(a) \/ (\E f \in {"side_m", "side_s"} : Art!WriteSidecar(a, f))
      PROVE  Art!BlobsImmutable /\ UNCHANGED v10
  <2>1. UNCHANGED v10
    BY <1>4, Zenon DEF Art!Rename, Art!RemoveBlob, Art!WriteSidecar, Art!boundVars
  <2> QED
    BY <1>0, <1>4, <2>1, RenameWritesOnce, RemovalOnlyRemoves, SidecarsStandBeside
<1> QED
  BY <1>1, <1>2, <1>3, <1>4, SameBlobs DEF Art!Next

-----------------------------------------------------------------------------
(* The two stores that count *)

(* Both instances count as FiniteSets does. *)
LEMMA SameCardinality ==
    ASSUME NEW S PROVE Cov!Cardinality(S) = Cardinality(S) /\ Runs!Cardinality(S) = Cardinality(S)
BY DEF Cov!Cardinality, Runs!Cardinality, Cardinality

-----------------------------------------------------------------------------
(* The coverage artifact flow *)

LEMMA CovStarts == Cov!Init => Cov!IInv
<1> SUFFICES ASSUME Cov!Init PROVE Cov!IInv
  OBVIOUS
<1>1. Cov!Numbered
  BY StoreAssumption DEF Cov!Init, Cov!Numbered
<1>2. Cov!ArtsOK /\ Cov!Publishing /\ Cov!StoreWhole
  BY DEF Cov!Init, Cov!ArtsOK, Cov!Publishing, Cov!StoreWhole
<1> QED
  BY <1>1, <1>2 DEF Cov!IInv

(* The developer and the suites touch neither artifacts nor the store, nor *)
(* does a step that stutters.                                              *)
LEMMA CovStutters == Cov!IInv /\ UNCHANGED <<v5, v6, v7, v8, v9, v10>> => Cov!IInv'
BY DEF Cov!IInv, Cov!Numbered, Cov!ArtsOK, Cov!Honest, Cov!Publishing, Cov!StoreWhole, Cov!None, Cov!Tags,
       Cov!Parts

(* cov_identity gives a closure to a clean tree that git could read. *)
LEMMA IdentityKeeps == Cov!IInv /\ Cov!PackIdentity => Cov!IInv'
<1> SUFFICES ASSUME Cov!IInv, Cov!PackIdentity PROVE Cov!IInv'
  OBVIOUS
<1>1. PICK ok \in BOOLEAN :
         v5' = [tag |-> Cov!Cardinality(DOMAIN v6) + 1, closure |-> Cov!closure_id(Cov!tree_state(ok)),
                promotable |-> Cov!promotable(Cov!tree_state(ok)), scope |-> v1.scope,
                real |-> [tree |-> v1, ok |-> ok]]
  BY DEF Cov!PackIdentity
<1>2. Cov!Cardinality(DOMAIN v6) < CovArts /\ UNCHANGED <<v6, v7, v8, v9, v10>>
  BY DEF Cov!PackIdentity
<1>3. Cov!Numbered'
  <2>1. PICK n \in 0 .. CovArts : DOMAIN v6 = 1 .. n
    BY DEF Cov!IInv, Cov!Numbered
  <2>2. Cov!Cardinality(1 .. n) = n
    BY StoreAssumption, FS_Interval, SameCardinality
  <2>3. v5'.tag = n + 1 /\ n < CovArts /\ DOMAIN v6' = 1 .. n
    BY <1>1, <1>2, <2>1, <2>2
  <2> QED
    BY <2>3 DEF Cov!Numbered
<1>4. Cov!Honest(v5')
  BY <1>1 DEF Cov!Honest, Cov!closure_id, Cov!tree_state, Cov!promotable
<1>5. Cov!ArtsOK'
  BY <1>2, <1>4 DEF Cov!IInv, Cov!ArtsOK, Cov!Honest
<1>6. Cov!Publishing' /\ Cov!StoreWhole'
  BY <1>2 DEF Cov!IInv, Cov!Publishing, Cov!StoreWhole, Cov!None, Cov!Tags, Cov!Parts
<1> QED
  BY <1>3, <1>5, <1>6 DEF Cov!IInv

LEMMA MergeKeeps == Cov!IInv /\ Cov!PackMerge => Cov!IInv'
<1> SUFFICES ASSUME Cov!IInv, Cov!PackMerge PROVE Cov!IInv'
  OBVIOUS
<1>1. v5 # Cov!None /\ v5' = Cov!None /\ UNCHANGED <<v7, v8, v9, v10>>
  BY DEF Cov!PackMerge
<1>2. CASE v6' = v6
  BY <1>1, <1>2
     DEF Cov!IInv, Cov!Numbered, Cov!ArtsOK, Cov!Honest, Cov!Publishing, Cov!StoreWhole, Cov!None, Cov!Tags, Cov!Parts
<1>3. CASE v6' # v6
  <2>1. PICK art :
          /\ art = [closure |-> v5.closure, scope |-> v5.scope, real |-> v5.real,
                    coverage |-> Cov!canonical_body, completeness |-> Cov!completeness,
                    promotable |-> v5.promotable /\ Cov!completeness = "complete", intact |-> TRUE]
          /\ v6' = [t \in DOMAIN v6 \union {v5.tag} |-> IF t # v5.tag THEN v6[t] ELSE art]
    BY <1>3 DEF Cov!PackMerge
  <2>2. PICK n \in 0 .. CovArts : DOMAIN v6 = 1 .. n /\ v5.tag = n + 1 /\ n < CovArts
    BY <1>1 DEF Cov!IInv, Cov!Numbered
  <2>3. /\ DOMAIN v6' = 1 .. (n + 1) /\ v6'[n + 1] = art
        /\ \A t \in 1 .. n : v6'[t] = v6[t]
    BY <2>1, <2>2, StoreAssumption
  <2>4. /\ DOMAIN art = {"closure", "scope", "real", "coverage", "completeness", "promotable", "intact"}
        /\ Cov!Honest(art) /\ (art.promotable => art.completeness = "complete")
    <3>1. Cov!Honest(v5)
      BY <1>1 DEF Cov!IInv, Cov!ArtsOK
    <3> QED
      BY <2>1, <3>1 DEF Cov!Honest
  <2>5. Cov!Numbered'
    <3>1. n + 1 \in 0 .. CovArts
      BY <2>2, StoreAssumption
    <3> QED
      BY <1>1, <2>3, <3>1 DEF Cov!Numbered, Cov!None
  <2>6. Cov!ArtsOK'
    <3>1. ASSUME NEW t \in DOMAIN v6'
          PROVE  /\ DOMAIN v6'[t] = {"closure", "scope", "real", "coverage", "completeness", "promotable", "intact"}
                 /\ Cov!Honest(v6'[t]) /\ (v6'[t].promotable => v6'[t].completeness = "complete")
      <4>1. CASE t = n + 1
        BY <2>3, <2>4, <4>1
      <4>2. CASE t # n + 1
        <5>1. t \in 1 .. n /\ t \in DOMAIN v6 /\ v6'[t] = v6[t]
          BY <2>2, <2>3, <3>1, <4>2
        <5> QED
          BY <5>1 DEF Cov!IInv, Cov!ArtsOK
      <4> QED
        BY <4>1, <4>2
    <3> QED
      BY <1>1, <3>1 DEF Cov!ArtsOK, Cov!Honest, Cov!None
  <2>7. \A t \in DOMAIN v6 : t \in DOMAIN v6' /\ v6'[t] = v6[t]
    BY <2>2, <2>3
  <2>8. Cov!Publishing' /\ Cov!StoreWhole'
    BY <1>1, <2>7 DEF Cov!IInv, Cov!Publishing, Cov!StoreWhole, Cov!None, Cov!Tags, Cov!Parts
  <2> QED
    BY <2>5, <2>6, <2>8 DEF Cov!IInv
<1> QED
  BY <1>2, <1>3

LEMMA TamperKeeps == ASSUME Cov!IInv, NEW t, Cov!Tamper(t) PROVE Cov!IInv'
<1>1. /\ t \in DOMAIN v6 /\ v6' = [v6 EXCEPT ![t].intact = FALSE] /\ UNCHANGED <<v5, v7, v8, v9, v10>>
  BY DEF Cov!Tamper
<1>2. /\ DOMAIN v6' = DOMAIN v6
      /\ \A x \in DOMAIN v6 : /\ DOMAIN v6'[x] = DOMAIN v6[x] /\ v6'[x].closure = v6[x].closure
                              /\ v6'[x].scope = v6[x].scope /\ v6'[x].real = v6[x].real
                              /\ v6'[x].completeness = v6[x].completeness
                              /\ v6'[x].promotable = v6[x].promotable
  BY <1>1 DEF Cov!IInv, Cov!ArtsOK
<1>3. Cov!Numbered'
  BY <1>1, <1>2 DEF Cov!IInv, Cov!Numbered, Cov!None
<1>4. Cov!ArtsOK'
  BY <1>1, <1>2 DEF Cov!IInv, Cov!ArtsOK, Cov!Honest, Cov!None
<1>5. Cov!Publishing' /\ Cov!StoreWhole'
  BY <1>1, <1>2 DEF Cov!IInv, Cov!Publishing, Cov!StoreWhole, Cov!None, Cov!Tags, Cov!Parts
<1> QED
  BY <1>3, <1>4, <1>5 DEF Cov!IInv

LEMMA CovSameArts ==
    ASSUME Cov!IInv, UNCHANGED <<v5, v6>>, Cov!Publishing', Cov!StoreWhole'
    PROVE  Cov!IInv'
BY DEF Cov!IInv, Cov!Numbered, Cov!ArtsOK, Cov!Honest, Cov!None

(* cov_publish uploads the manifest last, and promotes what is promotable. *)
LEMMA PublishKeeps ==
    ASSUME Cov!IInv, NEW t, NEW p, Cov!PublishStart(t, p)
    PROVE  Cov!IInv'
<1>1. /\ t \in DOMAIN v6 /\ UNCHANGED <<v5, v6, v7, v9, v10>>
      /\ v8' = [tag |-> t, todo |-> Cov!Parts \union {"manifest"}, promote |-> p]
  BY DEF Cov!PublishStart
<1>2. Cov!Publishing'
  BY <1>1 DEF Cov!IInv, Cov!Publishing, Cov!None, Cov!Tags, Cov!Parts
<1>3. Cov!StoreWhole'
  BY <1>1 DEF Cov!IInv, Cov!StoreWhole, Cov!Tags, Cov!Parts
<1> QED
  BY <1>1, <1>2, <1>3, CovSameArts

LEMMA DeployKeeps == Cov!IInv /\ Cov!Deploy => Cov!IInv'
<1> SUFFICES ASSUME Cov!IInv, Cov!Deploy PROVE Cov!IInv'
  OBVIOUS
<1>1. v8 # Cov!None /\ v8.todo # {} /\ UNCHANGED <<v5, v6, v9, v10>>
  BY DEF Cov!Deploy
<1>2. CASE v8' = Cov!None /\ UNCHANGED v7
  <2>1. Cov!Publishing' /\ Cov!StoreWhole'
    BY <1>1, <1>2 DEF Cov!IInv, Cov!Publishing, Cov!StoreWhole, Cov!None, Cov!Tags, Cov!Parts
  <2> QED
    BY <1>1, <2>1, CovSameArts
<1>3. CASE \E f \in Cov!plan : /\ v7' = [v7 EXCEPT ![v8.tag] = @ \union {f}]
                               /\ v8' = [v8 EXCEPT !.todo = @ \ {f}]
  <2>1. PICK f \in Cov!plan : v7' = [v7 EXCEPT ![v8.tag] = @ \union {f}] /\ v8' = [v8 EXCEPT !.todo = @ \ {f}]
    BY <1>3
  <2>2. /\ DOMAIN v8 = {"tag", "todo", "promote"} /\ v8.tag \in DOMAIN v6 /\ v8.todo \subseteq Cov!Parts \union {"manifest"}
        /\ (Cov!Parts \union {"manifest"}) \ v8.todo \subseteq v7[v8.tag] /\ "manifest" \in v8.todo
        /\ DOMAIN v7 = Cov!Tags
    BY <1>1 DEF Cov!IInv, Cov!Publishing
  <2>3. v8.tag \in Cov!Tags
    BY <2>2, StoreAssumption DEF Cov!IInv, Cov!Numbered, Cov!Tags
  <2>4. f \in v8.todo /\ (f = "manifest" => v8.todo = {"manifest"})
    <3>1. CASE v8.todo = {"manifest"}
      BY <2>1, <3>1 DEF Cov!plan
    <3>2. CASE v8.todo # {"manifest"}
      <4>1. v8.todo \ {"manifest"} # {}
        BY <2>2, <3>2
      <4>2. f = CHOOSE x \in v8.todo \ {"manifest"} : TRUE
        BY <2>1, <3>2 DEF Cov!plan
      <4> QED
        BY <4>1, <4>2
    <3> QED
      BY <3>1, <3>2
  <2>5. /\ DOMAIN v8' = DOMAIN v8 /\ v8'.tag = v8.tag /\ v8'.todo = v8.todo \ {f}
        /\ DOMAIN v7' = Cov!Tags /\ v7'[v8.tag] = v7[v8.tag] \union {f}
        /\ \A t \in Cov!Tags \ {v8.tag} : v7'[t] = v7[t]
    BY <2>1, <2>2, <2>3
  <2>6. v8'.todo # {} => "manifest" \in v8'.todo
    BY <2>2, <2>4, <2>5
  <2>7. Cov!Publishing'
    BY <1>1, <2>2, <2>3, <2>5, <2>6 DEF Cov!IInv, Cov!Publishing, Cov!None, Cov!Tags, Cov!Parts
  <2>8. Cov!StoreWhole'
    <3>1. ASSUME NEW t \in Cov!Tags, "manifest" \in v7'[t] PROVE Cov!Parts \subseteq v7'[t]
      <4>1. CASE t = v8.tag /\ f = "manifest"
        BY <2>2, <2>4, <2>5, <4>1 DEF Cov!Parts
      <4>2. CASE t = v8.tag /\ f # "manifest"
        BY <2>3, <2>5, <3>1, <4>2 DEF Cov!IInv, Cov!StoreWhole
      <4>3. CASE t # v8.tag
        BY <2>5, <3>1, <4>3 DEF Cov!IInv, Cov!StoreWhole
      <4> QED
        BY <4>1, <4>2, <4>3
    <3>2. ASSUME NEW t \in v10
          PROVE  /\ t \in v9 /\ "manifest" \in v7'[t] /\ v6[t].real.ok /\ ~v6[t].real.tree.dirty
                 /\ v6[t].completeness = "complete"
      <4>1. /\ t \in v9 /\ "manifest" \in v7[t] /\ v6[t].real.ok /\ ~v6[t].real.tree.dirty
            /\ v6[t].completeness = "complete" /\ t \in DOMAIN v6
        BY DEF Cov!IInv, Cov!StoreWhole, Cov!Publishing
      <4>2. t \in Cov!Tags
        BY <4>1, StoreAssumption DEF Cov!IInv, Cov!Numbered, Cov!Tags
      <4> QED
        BY <2>5, <4>1, <4>2
    <3> QED
      BY <1>1, <3>1, <3>2 DEF Cov!StoreWhole, Cov!Tags, Cov!Parts
  <2> QED
    BY <1>1, <2>7, <2>8, CovSameArts
<1> QED
  BY <1>2, <1>3 DEF Cov!Deploy

LEMMA PromoteKeeps == Cov!IInv /\ Cov!BuildAndPromote => Cov!IInv'
<1> SUFFICES ASSUME Cov!IInv, Cov!BuildAndPromote PROVE Cov!IInv'
  OBVIOUS
<1>1. v8 # Cov!None /\ v8.todo = {} /\ v8' = Cov!None /\ UNCHANGED <<v5, v6, v7>>
  BY DEF Cov!BuildAndPromote
<1>2. /\ v9 \subseteq v9' /\ v10 \subseteq v10' /\ v10' \subseteq v10 \union {v8.tag}
      /\ v8.tag \in v10' \ v10 => v8.tag \in v9' /\ v6[v8.tag].promotable
  BY DEF Cov!BuildAndPromote, Cov!do_promote
<1>3. v8.tag \in DOMAIN v6 /\ "manifest" \in v7[v8.tag]
  BY <1>1 DEF Cov!IInv, Cov!Publishing
<1>4. v6[v8.tag].promotable =>
         v6[v8.tag].real.ok /\ ~v6[v8.tag].real.tree.dirty /\ v6[v8.tag].completeness = "complete"
  BY <1>3 DEF Cov!IInv, Cov!ArtsOK, Cov!Honest
<1>5. Cov!Publishing'
  BY <1>1, <1>2, <1>3 DEF Cov!IInv, Cov!Publishing, Cov!None, Cov!Tags
<1>6. Cov!StoreWhole'
  <2>1. ASSUME NEW t \in v10'
        PROVE  /\ t \in v9' /\ "manifest" \in v7[t] /\ v6[t].real.ok /\ ~v6[t].real.tree.dirty
               /\ v6[t].completeness = "complete"
    BY <1>2, <1>3, <1>4 DEF Cov!IInv, Cov!StoreWhole
  <2> QED
    BY <1>1, <2>1 DEF Cov!IInv, Cov!StoreWhole, Cov!Tags, Cov!Parts
<1> QED
  BY <1>1, <1>5, <1>6, CovSameArts

LEMMA CovStep == Cov!IInv /\ Cov!Next => Cov!IInv'
<1> SUFFICES ASSUME Cov!IInv, Cov!Next PROVE Cov!IInv'
  OBVIOUS
<1>1. CASE Cov!Edit \/ \E s \in CovSuites : Cov!RunSuite(s)
  <2>1. UNCHANGED <<v5, v6, v7, v8, v9, v10>>
    BY <1>1 DEF Cov!Edit, Cov!RunSuite
  <2> QED
    BY <2>1, CovStutters
<1>2. CASE Cov!PackIdentity \/ Cov!PackMerge \/ \E t \in Cov!Tags : Cov!Tamper(t)
  BY <1>2, IdentityKeeps, MergeKeeps, TamperKeeps
<1>3. CASE Cov!Deploy \/ Cov!BuildAndPromote \/ \E t \in Cov!Tags, p \in BOOLEAN : Cov!PublishStart(t, p)
  BY <1>3, PublishKeeps, DeployKeeps, PromoteKeeps
<1> QED
  BY <1>1, <1>2, <1>3 DEF Cov!Next

(* What cov_diff passes has a closure on both sides. *)
LEMMA CovAnchors == Cov!IInv => Cov!StoreWhole /\ Cov!PassIsAnchored
<1> SUFFICES ASSUME Cov!IInv PROVE Cov!PassIsAnchored
  BY DEF Cov!IInv
<1> SUFFICES ASSUME NEW b \in DOMAIN v6, NEW h \in DOMAIN v6, Cov!compare(v6[b], v6[h]) = "PASS",
                    NEW a \in {v6[b], v6[h]}
             PROVE  a.real.ok /\ ~a.real.tree.dirty /\ a.real.tree.scope = v6[b].real.tree.scope
  BY DEF Cov!PassIsAnchored
<1>1. Cov!cell_2x2(v6[b], v6[h]) # "UNKNOWN-CLOSURE" /\ v6[b].scope = v6[h].scope
  BY DEF Cov!compare
<1>2. v6[b].closure # <<>> /\ v6[h].closure # <<>>
  BY <1>1 DEF Cov!cell_2x2
<1>3. Cov!Honest(v6[b]) /\ Cov!Honest(v6[h])
  BY DEF Cov!IInv, Cov!ArtsOK
<1> QED
  BY <1>1, <1>2, <1>3 DEF Cov!Honest

-----------------------------------------------------------------------------
(* The run store *)

LEMMA RunIs ==
    /\ DOMAIN Runs!NoRec = {"state", "summary"} /\ DOMAIN Runs!NoRow = {"state", "summary", "cols"}
    /\ Runs!NoRec.state = "absent" /\ Runs!NoRow.state = "absent" /\ Runs!NoRow.cols = "null"
    /\ Runs!NoOp.run = 0 /\ 0 \notin Runs!Runs
BY StoreAssumption DEF Runs!NoRec, Runs!NoRow, Runs!NoOp, Runs!Runs

LEMMA RunsStart == Runs!Init => Runs!IInv
<1> SUFFICES ASSUME Runs!Init PROVE Runs!IInv
  OBVIOUS
<1>1. Runs!TypeOK /\ Runs!OneWriter /\ \A s \in RunServers : Runs!Pending(s) /\ Runs!InHand(s)
  BY RunIs DEF Runs!Init, Runs!TypeOK, Runs!OneWriter, Runs!Pending, Runs!InHand
<1>2. Runs!IndexFollowsRecord
  BY RunIs DEF Runs!Init, Runs!IndexFollowsRecord, Runs!Terminal
<1> QED
  BY <1>1, <1>2 DEF Runs!IInv

LEMMA RunsStutter == Runs!IInv /\ UNCHANGED <<v2, v3, v8, v9>> => Runs!IInv'
BY DEF Runs!IInv, Runs!TypeOK, Runs!IndexFollowsRecord, Runs!OneWriter, Runs!Pending, Runs!InHand, Runs!NoRec,
       Runs!NoRow, Runs!NoOp, Runs!Runs, Runs!Terminal

(* The backfill fills in columns and leaves the rest of a row alone. *)
LEMMA BackfillKeeps == ASSUME Runs!IInv, NEW s \in RunServers, Runs!Backfill(s) PROVE Runs!IInv'
<1>1. UNCHANGED <<v2, v8, v9>>
  BY DEF Runs!Backfill
<1>2. /\ DOMAIN v3' = Runs!Runs
      /\ \A r \in Runs!Runs : /\ DOMAIN v3'[r] = DOMAIN v3[r] /\ v3'[r].state = v3[r].state
                              /\ v3'[r].summary = v3[r].summary
  BY RunIs DEF Runs!Backfill, Runs!IInv, Runs!TypeOK
<1> QED
  BY <1>1, <1>2
     DEF Runs!IInv, Runs!TypeOK, Runs!IndexFollowsRecord, Runs!OneWriter, Runs!Pending, Runs!InHand, Runs!NoRec,
         Runs!NoRow, Runs!NoOp, Runs!Runs, Runs!Terminal

LEMMA OneWriterIs ==
    ASSUME Runs!IInv, NEW x \in RunServers, NEW y \in RunServers, x # y
    PROVE  v9[x] = Runs!NoOp \/ (v9[x].run \in Runs!Runs /\ v9[x].run # v9[y].run)
<1>1. v9[x] = Runs!NoOp \/ v9[x].run \in Runs!Runs
  BY DEF Runs!IInv, Runs!Pending
<1>2. v9[x] = Runs!NoOp \/ v9[x].run # v9[y].run
  BY DEF Runs!IInv, Runs!OneWriter
<1> QED
  BY <1>1, <1>2

LEMMA DieKeeps == ASSUME Runs!IInv, NEW s \in RunServers, Runs!Die(s) PROVE Runs!IInv'
<1>1. /\ UNCHANGED <<v2, v3>> /\ DOMAIN v8' = RunServers /\ DOMAIN v9' = RunServers
      /\ v8'[s] = 0 /\ v9'[s] = Runs!NoOp
      /\ \A t \in RunServers \ {s} : v8'[t] = v8[t] /\ v9'[t] = v9[t]
  BY DEF Runs!Die, Runs!IInv, Runs!TypeOK
<1>2. Runs!TypeOK' /\ Runs!IndexFollowsRecord'
  BY <1>1 DEF Runs!IInv, Runs!TypeOK, Runs!IndexFollowsRecord, Runs!NoRec, Runs!NoRow, Runs!Runs, Runs!Terminal
<1>3. ASSUME NEW t \in RunServers PROVE Runs!Pending(t)' /\ Runs!InHand(t)'
  BY <1>1, RunIs DEF Runs!IInv, Runs!TypeOK, Runs!Pending, Runs!InHand, Runs!NoRec, Runs!NoRow, Runs!NoOp, Runs!Runs, Runs!Terminal
<1>4. ASSUME NEW x \in RunServers, NEW y \in RunServers, x # y
      PROVE  v9'[x] = Runs!NoOp \/ v9'[x].run # v9'[y].run
  <2>1. v9[x] = Runs!NoOp \/ (v9[x].run \in Runs!Runs /\ v9[x].run # v9[y].run)
    BY <1>4, OneWriterIs
  <2> QED
    BY <1>1, <1>4, <2>1, RunIs
<1>5. Runs!OneWriter'
  BY <1>4 DEF Runs!OneWriter, Runs!NoOp
<1> QED
  BY <1>2, <1>3, <1>5 DEF Runs!IInv

(* A server with nothing to write writes the record of a run that nobody   *)
(* else has.                                                               *)
LEMMA RunRecordKeeps ==
    ASSUME Runs!IInv, NEW s \in RunServers, NEW r \in Runs!Runs, NEW state, NEW summary,
           v9[s] = Runs!NoOp, v3[r].state \notin Runs!Terminal, state # "absent",
           \A t \in RunServers \ {s} : v8[t] # r /\ v9[t].run # r,
           Runs!WriteRecord(s, r, state, summary),
           DOMAIN v8' = RunServers, \A t \in RunServers \ {s} : v8'[t] = v8[t],
           v8'[s] \in {0, r}, v8'[s] = r => state \in {"created", "running"}
    PROVE  Runs!IInv'
<1>1. /\ DOMAIN v2' = Runs!Runs /\ DOMAIN v9' = RunServers /\ UNCHANGED v3
      /\ v2'[r] = [state |-> state, summary |-> summary] /\ \A q \in Runs!Runs \ {r} : v2'[q] = v2[q]
      /\ v9'[s] = [run |-> r, row |-> [state |-> state, summary |-> summary, cols |-> "known"]]
      /\ \A t \in RunServers \ {s} : v9'[t] = v9[t]
  BY DEF Runs!WriteRecord, Runs!IInv, Runs!TypeOK
<1>2. Runs!TypeOK'
  BY <1>1, RunIs DEF Runs!IInv, Runs!TypeOK, Runs!NoRec, Runs!NoRow, Runs!Runs
<1>3. Runs!IndexFollowsRecord'
  BY <1>1 DEF Runs!IInv, Runs!IndexFollowsRecord, Runs!NoRec, Runs!Runs, Runs!Terminal
<1>4. Runs!OneWriter'
  BY <1>1, RunIs DEF Runs!IInv, Runs!OneWriter, Runs!NoOp
<1>5. ASSUME NEW t \in RunServers PROVE Runs!Pending(t)'
  <2>1. CASE t = s
    BY <1>1, <2>1, RunIs DEF Runs!Pending, Runs!NoRec, Runs!NoRow, Runs!NoOp, Runs!Runs
  <2>2. CASE t # s
    BY <1>1, <2>2 DEF Runs!IInv, Runs!Pending, Runs!NoRec, Runs!NoRow, Runs!NoOp, Runs!Runs
  <2> QED
    BY <2>1, <2>2
<1>6. ASSUME NEW t \in RunServers PROVE Runs!InHand(t)'
  <2>1. CASE t = s
    BY <1>1, <2>1 DEF Runs!InHand, Runs!Terminal
  <2>2. CASE t # s
    <3>1. v8[t] # 0 => v8[t] \in Runs!Runs /\ v8[t] # r
      BY <2>2 DEF Runs!IInv, Runs!TypeOK
    <3>2. Runs!InHand(t)
      BY DEF Runs!IInv
    <3>3. v8'[t] = v8[t] /\ (v8[t] # 0 => v2'[v8[t]] = v2[v8[t]])
      BY <1>1, <2>2, <3>1
    <3>4. \A u \in RunServers \ {t} : v8[t] # 0 => v8'[u] # v8[t] /\ v9'[u].run # v8[t]
      BY <1>1, <3>1, <3>2 DEF Runs!InHand
    <3> QED
      BY <1>1, <3>2, <3>3, <3>4 DEF Runs!InHand, Runs!Terminal
  <2> QED
    BY <2>1, <2>2
<1> QED
  BY <1>2, <1>3, <1>4, <1>5, <1>6 DEF Runs!IInv

(* A run nobody has a record of is nobody's. *)
LEMMA CreateKeeps == ASSUME Runs!IInv, NEW s \in RunServers, Runs!CreateRun(s) PROVE Runs!IInv'
<1>1. PICK r \in Runs!Runs : /\ v2[r] = Runs!NoRec /\ v3[r] = Runs!NoRow /\ v9[s] = Runs!NoOp
                             /\ v8' = [v8 EXCEPT ![s] = r] /\ Runs!WriteRecord(s, r, "created", "none")
  BY DEF Runs!CreateRun, Runs!Idle, Runs!Free
<1>2. \A t \in RunServers : v8[t] # r /\ v9[t].run # r
  BY <1>1, RunIs DEF Runs!IInv, Runs!TypeOK, Runs!InHand, Runs!Pending
<1>3. v3[r].state \notin Runs!Terminal
  BY <1>1, RunIs DEF Runs!Terminal
<1>4. DOMAIN v8' = RunServers /\ v8'[s] = r /\ \A t \in RunServers \ {s} : v8'[t] = v8[t]
  BY <1>1 DEF Runs!IInv, Runs!TypeOK
<1> QED
  BY <1>1, <1>2, <1>3, <1>4, RunRecordKeeps

LEMMA InHandIs ==
    ASSUME Runs!IInv, NEW s \in RunServers, v8[s] # 0
    PROVE  /\ v8[s] \in Runs!Runs /\ v3[v8[s]].state \notin Runs!Terminal
           /\ \A t \in RunServers \ {s} : v8[t] # v8[s] /\ v9[t].run # v8[s]
           /\ DOMAIN v8 = RunServers
BY DEF Runs!IInv, Runs!TypeOK, Runs!InHand

LEMMA SetStateKeeps == ASSUME Runs!IInv, NEW s \in RunServers, Runs!SetState(s) PROVE Runs!IInv'
<1>1. v9[s] = Runs!NoOp /\ v8[s] # 0 /\ UNCHANGED v8 /\ Runs!WriteRecord(s, v8[s], "running", "none")
  BY DEF Runs!SetState, Runs!Idle
<1> QED
  BY <1>1, InHandIs, RunRecordKeeps

LEMMA FinishKeeps == ASSUME Runs!IInv, NEW s \in RunServers, Runs!FinishRun(s) PROVE Runs!IInv'
<1>1. v9[s] = Runs!NoOp /\ v8[s] # 0 /\ v8' = [v8 EXCEPT ![s] = 0]
  BY DEF Runs!FinishRun, Runs!Idle
<1>2. PICK state, summary : state \in {"done", "failed"} /\ Runs!WriteRecord(s, v8[s], state, summary)
  BY DEF Runs!FinishRun
<1>3. DOMAIN v8' = RunServers /\ v8'[s] = 0 /\ \A t \in RunServers \ {s} : v8'[t] = v8[t]
  BY <1>1 DEF Runs!IInv, Runs!TypeOK
<1>4. v8[s] \in Runs!Runs /\ state # "absent" /\ v8'[s] # v8[s]
  BY <1>1, <1>2, <1>3, InHandIs
<1> QED
  BY <1>1, <1>2, <1>3, <1>4, InHandIs, RunRecordKeeps

(* The row that is written says what its record says. *)
LEMMA RowKeeps == ASSUME Runs!IInv, NEW s \in RunServers, Runs!WriteRow(s) PROVE Runs!IInv'
<1>1. v9[s] # Runs!NoOp /\ UNCHANGED <<v2, v8>>
  BY DEF Runs!WriteRow
<1>2. PICK r : /\ r = v9[s].run /\ r \in Runs!Runs /\ v2[r] # Runs!NoRec /\ DOMAIN v9[s].row = DOMAIN Runs!NoRow
               /\ v2[r] = [state |-> v9[s].row.state, summary |-> v9[s].row.summary]
  BY <1>1 DEF Runs!IInv, Runs!Pending
<1>3. /\ DOMAIN v3' = Runs!Runs /\ DOMAIN v9' = RunServers
      /\ DOMAIN v3'[r] = DOMAIN Runs!NoRow /\ v3'[r].state = v9[s].row.state /\ v3'[r].summary = v9[s].row.summary
      /\ \A q \in Runs!Runs \ {r} : v3'[q] = v3[q]
      /\ v9'[s] = Runs!NoOp /\ \A t \in RunServers \ {s} : v9'[t] = v9[t]
  BY <1>2, RunIs DEF Runs!WriteRow, Runs!IInv, Runs!TypeOK
<1>4. Runs!TypeOK'
  BY <1>1, <1>3 DEF Runs!IInv, Runs!TypeOK, Runs!NoRec, Runs!NoRow, Runs!Runs
<1>5. Runs!IndexFollowsRecord'
  BY <1>1, <1>2, <1>3 DEF Runs!IInv, Runs!IndexFollowsRecord, Runs!NoRec, Runs!Runs, Runs!Terminal
<1>6. Runs!OneWriter'
  <2>1. ASSUME NEW x \in RunServers, NEW y \in RunServers, x # y
        PROVE  v9'[x] = Runs!NoOp \/ v9'[x].run # v9'[y].run
    <3>1. v9[x] = Runs!NoOp \/ (v9[x].run \in Runs!Runs /\ v9[x].run # v9[y].run)
      BY <2>1, OneWriterIs
    <3> QED
      BY <1>3, <2>1, <3>1, RunIs
  <2> QED
    BY <2>1 DEF Runs!OneWriter, Runs!NoOp
<1>7. ASSUME NEW t \in RunServers PROVE Runs!Pending(t)'
  BY <1>1, <1>3 DEF Runs!IInv, Runs!Pending, Runs!NoRec, Runs!NoRow, Runs!NoOp, Runs!Runs
<1>8. ASSUME NEW t \in RunServers PROVE Runs!InHand(t)'
  <2>1. CASE v8[t] = 0
    BY <1>1, <2>1 DEF Runs!InHand
  <2>2. CASE v8[t] # 0
    <3>1. v8[t] \in Runs!Runs /\ Runs!InHand(t)
      BY <2>2, InHandIs DEF Runs!IInv
    <3>2. v3'[v8[t]].state \notin Runs!Terminal
      <4>1. CASE v8[t] = r
        <5>1. v9[s].row.state \in {"created", "running"}
          BY <1>2, <2>2, <3>1, <4>1 DEF Runs!InHand
        <5> QED
          BY <1>3, <4>1, <5>1 DEF Runs!Terminal
      <4>2. CASE v8[t] # r
        BY <1>3, <2>2, <3>1, <4>2 DEF Runs!InHand
      <4> QED
        BY <4>1, <4>2
    <3>3. \A u \in RunServers \ {t} : v8[u] # v8[t] /\ v9'[u].run # v8[t]
      BY <1>3, <2>2, <3>1, RunIs DEF Runs!InHand
    <3> QED
      BY <1>1, <3>1, <3>2, <3>3 DEF Runs!InHand, Runs!Terminal
  <2> QED
    BY <2>1, <2>2
<1> QED
  BY <1>4, <1>5, <1>6, <1>7, <1>8 DEF Runs!IInv

LEMMA DeleteKeeps == ASSUME Runs!IInv, NEW r \in Runs!Runs, Runs!DeleteDirectory(r) PROVE Runs!IInv'
<1>1. /\ v2[r].state \in Runs!Terminal /\ (\A s \in RunServers : v9[s].run # r)
      /\ v2' = [v2 EXCEPT ![r] = Runs!NoRec] /\ UNCHANGED <<v3, v8, v9>>
  BY DEF Runs!DeleteDirectory
<1>2. DOMAIN v2' = Runs!Runs /\ v2'[r] = Runs!NoRec /\ \A q \in Runs!Runs \ {r} : v2'[q] = v2[q]
  BY <1>1 DEF Runs!IInv, Runs!TypeOK
<1>3. Runs!TypeOK' /\ Runs!OneWriter'
  BY <1>1, <1>2 DEF Runs!IInv, Runs!TypeOK, Runs!OneWriter, Runs!NoRec, Runs!NoRow, Runs!NoOp, Runs!Runs
<1>4. Runs!IndexFollowsRecord'
  BY <1>1, <1>2 DEF Runs!IInv, Runs!IndexFollowsRecord, Runs!NoRec, Runs!Runs, Runs!Terminal
<1>5. ASSUME NEW s \in RunServers PROVE Runs!Pending(s)' /\ Runs!InHand(s)'
  <2>1. Runs!Pending(s) /\ Runs!InHand(s) /\ v8[s] \in Runs!Runs \union {0}
    BY DEF Runs!IInv, Runs!TypeOK
  <2>2. v8[s] # r
    BY <1>1, <2>1, RunIs DEF Runs!InHand, Runs!Terminal
  <2>3. Runs!Pending(s)'
    BY <1>1, <1>2, <2>1 DEF Runs!Pending, Runs!NoRec, Runs!NoRow, Runs!NoOp, Runs!Runs
  <2>4. Runs!InHand(s)'
    BY <1>1, <1>2, <2>1, <2>2 DEF Runs!InHand, Runs!Terminal
  <2> QED
    BY <2>3, <2>4
<1> QED
  BY <1>3, <1>4, <1>5 DEF Runs!IInv

LEMMA RunsStep == Runs!IInv /\ Runs!Next => Runs!IInv'
<1> SUFFICES ASSUME Runs!IInv, Runs!Next PROVE Runs!IInv'
  OBVIOUS
<1>1. ASSUME NEW s \in RunServers, Runs!Open(s) \/ Runs!Migrate(s) PROVE Runs!IInv'
  <2>1. UNCHANGED <<v2, v3, v8, v9>>
    BY <1>1 DEF Runs!Open, Runs!Migrate
  <2> QED
    BY <2>1, RunsStutter
<1>2. ASSUME NEW s \in RunServers, Runs!Backfill(s) \/ Runs!Die(s) \/ Runs!CreateRun(s) \/ Runs!SetState(s)
                                   \/ Runs!FinishRun(s) \/ Runs!WriteRow(s)
      PROVE  Runs!IInv'
  BY <1>2, BackfillKeeps, DieKeeps, CreateKeeps, SetStateKeeps, FinishKeeps, RowKeeps
<1>3. ASSUME NEW r \in Runs!Runs, Runs!DeleteDirectory(r) PROVE Runs!IInv'
  BY <1>3, DeleteKeeps
<1> QED
  BY <1>1, <1>2, <1>3 DEF Runs!Next

(* Two elements make a set of more than one. *)
LEMMA TwoAreMore ==
    ASSUME NEW S, IsFiniteSet(S), NEW x \in S, NEW y \in S, x # y
    PROVE  Cardinality(S) > 1
<1>1. IsFiniteSet({x}) /\ Cardinality({x}) = 1
  BY FS_Singleton
<1>2. Cardinality({x} \union {y}) = 2
  BY <1>1, FS_AddElement
<1>3. Cardinality({x} \union {y}) <= Cardinality(S)
  BY FS_Subset
<1>4. Cardinality(S) \in Nat
  BY FS_CardinalityType
<1> QED
  BY <1>2, <1>3, <1>4

LEMMA ImageIsFinite ==
    ASSUME NEW S, IsFiniteSet(S), NEW f, DOMAIN f = S, NEW T, T = {f[x] : x \in S}
    PROVE  IsFiniteSet(T)
<1>1. [x \in S |-> f[x]] \in Surjection(S, T)
  BY DEF Surjection
<1> QED
  BY <1>1, FS_Surjection

(* compare_versions warns of whatever sets the two sides of a delta apart. *)
LEMMA ConfoundIsSaid == Runs!ConfoundSaid
<1> SUFFICES ASSUME NEW vs \in SUBSET Runs!GroupNames, NEW v \in vs, NEW base \in vs, Runs!HasDelta(v, base),
                    NEW r \in Runs!Used(v) \union Runs!Used(base), NEW q \in Runs!Used(v) \union Runs!Used(base),
                    v1[r].key # v1[q].key \/ v1[r].fifo # v1[q].fifo
             PROVE  "confounded" \in Runs!Warnings(vs)
  BY DEF Runs!ConfoundSaid
<1> DEFINE runs == UNION {Runs!Group(x) : x \in vs}
           keys == {Runs!KeyOf(x) : x \in runs}
           fifos == {Runs!FifoOf(x) : x \in runs}
<1>1. IsFiniteSet(Runs!Runs)
  BY StoreAssumption, FS_Interval DEF Runs!Runs
<1>2. IsFiniteSet(vs)
  <2>1. IsFiniteSet(Runs!Done)
    BY <1>1, FS_Subset DEF Runs!Done
  <2>2. PICK f : DOMAIN f = Runs!Done /\ Runs!GroupNames = {f[y] : y \in Runs!Done}
    <3>1. PICK f : f = [x \in Runs!Done |-> Runs!VersionOf(x)]
      OBVIOUS
    <3> QED
      BY <3>1 DEF Runs!GroupNames
  <2>3. IsFiniteSet(Runs!GroupNames)
    BY <2>1, <2>2, ImageIsFinite
  <2> QED
    BY <2>3, FS_Subset
<1>3. IsFiniteSet(runs)
  BY <1>1, FS_Subset DEF Runs!Group, Runs!Done
<1>4. r \in runs /\ q \in runs
  BY DEF Runs!Used
<1>5. Cardinality(vs) >= 2
  <2>1. v # base
    BY DEF Runs!HasDelta
  <2> QED
    BY <1>2, <2>1, TwoAreMore, FS_CardinalityType
<1>6. Cardinality(keys) > 1 \/ Cardinality(fifos) > 1
  <2>1. IsFiniteSet(keys)
    <3>1. PICK f : DOMAIN f = runs /\ keys = {f[y] : y \in runs}
      <4>1. PICK f : f = [x \in runs |-> Runs!KeyOf(x)]
        OBVIOUS
      <4> QED
        BY <4>1
    <3> HIDE DEF runs, keys
    <3> QED
      BY <1>3, <3>1, ImageIsFinite
  <2>2. IsFiniteSet(fifos)
    <3>1. PICK f : DOMAIN f = runs /\ fifos = {f[y] : y \in runs}
      <4>1. PICK f : f = [x \in runs |-> Runs!FifoOf(x)]
        OBVIOUS
      <4> QED
        BY <4>1
    <3> HIDE DEF runs, fifos
    <3> QED
      BY <1>3, <3>1, ImageIsFinite
  <2>3. v1[r].key \in keys /\ v1[q].key \in keys /\ v1[r].fifo \in fifos /\ v1[q].fifo \in fifos
    BY <1>4 DEF Runs!KeyOf, Runs!FifoOf
  <2> HIDE DEF keys, fifos
  <2> QED
    BY <2>1, <2>2, <2>3, TwoAreMore
<1>7. "confounded" \in Runs!CrossWarnings(vs)
  BY <1>5, <1>6, SameCardinality DEF Runs!CrossWarnings
<1> QED
  BY <1>7 DEF Runs!Warnings

(* What a row knows it keeps: a backfill fills what is empty, an update     *)
(* keeps the columns that are there.                                        *)
LEMMA ColumnsAreKept == ASSUME Runs!IInv, Runs!Next PROVE Runs!ColumnsKept
<1>0. Runs!TypeOK
  BY DEF Runs!IInv
<1>1. ASSUME NEW s \in RunServers, Runs!Backfill(s) PROVE Runs!ColumnsKept
  BY <1>0, <1>1 DEF Runs!Backfill, Runs!ColumnsKept, Runs!TypeOK
<1>2. ASSUME NEW s \in RunServers, Runs!WriteRow(s) PROVE Runs!ColumnsKept
  <2>1. v9[s].run \in Runs!Runs /\ DOMAIN v9[s].row = DOMAIN Runs!NoRow
    BY <1>2 DEF Runs!IInv, Runs!Pending, Runs!WriteRow
  <2> QED
    BY <1>0, <1>2, <2>1, RunIs DEF Runs!WriteRow, Runs!ColumnsKept, Runs!TypeOK
<1>3. ASSUME NEW s \in RunServers,
             \/ Runs!Open(s) \/ Runs!Migrate(s) \/ Runs!Die(s) \/ Runs!CreateRun(s) \/ Runs!SetState(s)
             \/ Runs!FinishRun(s)
      PROVE  UNCHANGED v3
  BY <1>3, Zenon DEF Runs!Open, Runs!Migrate, Runs!Die, Runs!CreateRun, Runs!SetState, Runs!FinishRun, Runs!WriteRecord
<1>4. ASSUME NEW r \in Runs!Runs, Runs!DeleteDirectory(r) PROVE UNCHANGED v3
  BY <1>4 DEF Runs!DeleteDirectory
<1> QED
  BY <1>1, <1>2, <1>3, <1>4 DEF Runs!Next, Runs!ColumnsKept

-----------------------------------------------------------------------------
(* Which addresses the tools touch *)

LEMMA AccessIs ==
    /\ DOMAIN Access!Idle = {"tool", "pend", "rc", "cfg", "pc"}
    /\ Access!Idle.tool = "none" /\ Access!Idle.pc = "off"
    /\ DOMAIN Access!Reset = {"strap", "locked", "role", "phase"} /\ Access!Reset.locked = FALSE
    /\ Access!Empty.kind = "none" /\ Access!Empty.ptp = FALSE
BY DEF Access!Idle, Access!Reset, Access!Empty

LEMMA AccessStarts == Access!Init => Access!IInv
<1> SUFFICES ASSUME Access!Init PROVE Access!IInv
  OBVIOUS
<1>1. v3.soc = "unset" /\ v3.skip = FALSE /\ v3.socmap \in BOOLEAN
  BY DEF Access!Init
<1>2. Access!TypeOK
  BY <1>1, AccessIs DEF Access!Init, Access!TypeOK
<1>3. Access!PagesKnown /\ Access!PhaseSet /\ Access!NoUndecoded /\ Access!AgentNeedsImage
  BY AccessIs DEF Access!Init, Access!PagesKnown, Access!PhaseSet, Access!NoUndecoded, Access!AgentNeedsImage
<1> QED
  BY <1>2, <1>3 DEF Access!IInv

(* A page of a row an image has is decoded. *)
LEMMA Decodes ==
    ASSUME NEW a \in Access!APERTURES, v2.kind # "none", a.name \notin Access!absent(v2), NEW page,
           LET base == IF v2.kind = "kr260" THEN a.kr260 ELSE a.z2 IN base <= page /\ page < base + a.size
    PROVE  Access!decoded(page)
BY DEF Access!decoded

(* What the images of the two boards are. *)
LEMMA Images ==
    ASSUME Access!TypeOK
    PROVE  /\ v1 \in {"z2", "kr260"}
           /\ v1 = "kr260" => v2.kind \in {"none", "kr260"}
           /\ v1 = "z2" => v2.kind \in {"none", "z2", "gp1"} /\ v2.ptp = FALSE
           /\ v2.ptp \in BOOLEAN
<1>1. v1 \in {"z2", "kr260"} /\ (v2 = Access!Empty \/ v2 \in Access!images)
  BY AccessAssumption DEF Access!TypeOK
<1>2. CASE v2 = Access!Empty
  BY <1>1, <1>2, AccessIs
<1>3. CASE v2 \in Access!images /\ v1 = "kr260"
  <2>1. PICK p \in BOOLEAN : v2 = [kind |-> "kr260", ptp |-> p]
    BY <1>3 DEF Access!images
  <2> QED
    BY <1>3, <2>1
<1>4. CASE v2 \in Access!images /\ v1 = "z2"
  <2>1. PICK k \in {"z2", "gp1"} : v2 = [kind |-> k, ptp |-> FALSE]
    BY <1>4 DEF Access!images
  <2> QED
    BY <1>4, <2>1
<1> QED
  BY <1>1, <1>2, <1>3, <1>4

(* The pages the tools use, and who decodes them. *)
LEMMA ControlDecodes ==
    ASSUME Access!TypeOK, v2.kind # "none"
    PROVE  /\ v1 = "z2" => Access!decoded(\h44030) /\ Access!decoded(\h44032)
           /\ v1 = "kr260" => /\ Access!decoded(\h84030) /\ Access!decoded(\h84032)
                              /\ Access!decoded(\h84040) /\ Access!decoded(\h84041)
<1>1. [name |-> "apb", z2 |-> \h44030, kr260 |-> \h84030, size |-> 8] \in Access!APERTURES
  BY SMT DEF Access!APERTURES
<1>2. [name |-> "strap_gpio", z2 |-> \h44040, kr260 |-> \h84040, size |-> 1] \in Access!APERTURES
  BY SMT DEF Access!APERTURES
<1>3. [name |-> "debug_gpio", z2 |-> \h44041, kr260 |-> \h84041, size |-> 1] \in Access!APERTURES
  BY SMT DEF Access!APERTURES
<1>4. "apb" \notin Access!absent(v2) /\ "strap_gpio" \notin Access!absent(v2) /\ "debug_gpio" \notin Access!absent(v2)
  BY SMT DEF Access!absent
<1>5. v1 \in {"z2", "kr260"} /\ (v1 = "kr260" <=> v2.kind = "kr260")
  BY Images
<1>6. v1 = "z2" => Access!decoded(\h44030) /\ Access!decoded(\h44032)
  BY SMT, <1>1, <1>4, <1>5, Decodes
<1>7. v1 = "kr260" => Access!decoded(\h84030) /\ Access!decoded(\h84032)
  BY SMT, <1>1, <1>4, <1>5, Decodes
<1>8. v1 = "kr260" => Access!decoded(\h84040)
  BY SMT, <1>2, <1>4, <1>5, Decodes
<1>9. v1 = "kr260" => Access!decoded(\h84041)
  BY SMT, <1>3, <1>4, <1>5, Decodes
<1> QED
  BY SMT, <1>6, <1>7, <1>8, <1>9

LEMMA DataDecodes ==
    ASSUME Access!TypeOK, v2.kind # "none"
    PROVE  /\ v2.kind = "gp1" => Access!decoded(\h84000) /\ Access!decoded(\h84010)
           /\ v2.kind = "z2" => Access!decoded(\h44000)
           /\ v2.kind = "kr260" => Access!decoded(\hA4000) /\ Access!decoded(\hA4010)
<1>1. /\ [name |-> "ahb_tx", z2 |-> \h84000, kr260 |-> \hA4000, size |-> 16] \in Access!APERTURES
      /\ [name |-> "ahb_fifo", z2 |-> \h84010, kr260 |-> \hA4010, size |-> 16] \in Access!APERTURES
      /\ [name |-> "tx_legacy", z2 |-> \h44000, kr260 |-> \hA4000, size |-> 16] \in Access!APERTURES
  BY SMT DEF Access!APERTURES
<1>2. /\ v2.kind # "z2" => "ahb_tx" \notin Access!absent(v2) /\ "ahb_fifo" \notin Access!absent(v2)
      /\ v2.kind # "gp1" => "tx_legacy" \notin Access!absent(v2)
  BY SMT DEF Access!absent
<1> QED
  BY SMT, <1>1, <1>2, Decodes

LEMMA PtpDecodes ==
    ASSUME Access!TypeOK, v2.kind = "kr260", v2.ptp
    PROVE  Access!decoded(\h84020) /\ Access!decoded(\h84050)
<1>1. /\ [name |-> "ahb_ptp", z2 |-> \h44020, kr260 |-> \h84020, size |-> 1] \in Access!APERTURES
      /\ [name |-> "phc_apb", z2 |-> \h44050, kr260 |-> \h84050, size |-> 1] \in Access!APERTURES
  BY SMT DEF Access!APERTURES
<1>2. "ahb_ptp" \notin Access!absent(v2) /\ "phc_apb" \notin Access!absent(v2)
  BY SMT DEF Access!absent
<1> QED
  BY SMT, <1>1, <1>2, Decodes

(* Where the pages tl39 is given go on a KR260. *)
LEMMA Remaps ==
    ASSUME Access!resolve_soc(v3.soc) = "kr260"
    PROVE  /\ Access!remap(\h44032) = \h84032
           /\ Access!remap(\h84000) = \hA4000 /\ Access!remap(\h84010) = \hA4010
           /\ Access!remap(\h84032) = -1 /\ Access!remap(\h50000) = -1
<1> DEFINE rows(page) == {a \in Access!APERTURES : a.z2 <= page /\ page < a.z2 + a.size}
<1>1. rows(\h44032) = {[name |-> "apb", z2 |-> \h44030, kr260 |-> \h84030, size |-> 8]}
  BY SMT DEF Access!APERTURES
<1>2. rows(\h84000) = {[name |-> "ahb_tx", z2 |-> \h84000, kr260 |-> \hA4000, size |-> 16]}
  BY SMT DEF Access!APERTURES
<1>3. rows(\h84010) = {[name |-> "ahb_fifo", z2 |-> \h84010, kr260 |-> \hA4010, size |-> 16]}
  BY SMT DEF Access!APERTURES
<1>4. rows(\h84032) = {} /\ rows(\h50000) = {}
  BY SMT DEF Access!APERTURES
<1>5. ASSUME NEW page, NEW a, rows(page) = {a} PROVE Access!remap(page) = a.kr260 + (page - a.z2)
  BY <1>5, SMT DEF Access!remap
<1>6. ASSUME NEW page, rows(page) = {} PROVE Access!remap(page) = -1
  BY <1>6, SMT DEF Access!remap, Access!Refused
<1> HIDE DEF rows
<1>7. Access!remap(\h44032) = \h84032
  <2> DEFINE row == [name |-> "apb", z2 |-> \h44030, kr260 |-> \h84030, size |-> 8]
  <2>1. row.kr260 + (\h44032 - row.z2) = \h84032
    BY SMT
  <2>2. rows(\h44032) = {row}
    BY SMT, <1>1
  <2> HIDE DEF row
  <2> QED
    BY SMT, <1>5, <2>1, <2>2
<1>8. Access!remap(\h84000) = \hA4000
  <2> DEFINE row == [name |-> "ahb_tx", z2 |-> \h84000, kr260 |-> \hA4000, size |-> 16]
  <2>1. row.kr260 + (\h84000 - row.z2) = \hA4000
    BY SMT
  <2>2. rows(\h84000) = {row}
    BY SMT, <1>2
  <2> HIDE DEF row
  <2> QED
    BY SMT, <1>5, <2>1, <2>2
<1>9. Access!remap(\h84010) = \hA4010
  <2> DEFINE row == [name |-> "ahb_fifo", z2 |-> \h84010, kr260 |-> \hA4010, size |-> 16]
  <2>1. row.kr260 + (\h84010 - row.z2) = \hA4010
    BY SMT
  <2>2. rows(\h84010) = {row}
    BY SMT, <1>3
  <2> HIDE DEF row
  <2> QED
    BY SMT, <1>5, <2>1, <2>2
<1>10. Access!remap(\h84032) = -1 /\ Access!remap(\h50000) = -1
  BY SMT, <1>4, <1>6
<1> QED
  BY SMT, <1>7, <1>8, <1>9, <1>10

(* A value of TIDELINK_SOC means the board it names. *)
LEMMA Socs ==
    ASSUME Access!TypeOK
    PROVE  /\ Access!strip(v3.soc) \in {"unset"} \union Access!Z2_ALIASES => Access!resolve_soc(v3.soc) = "z2"
           /\ v3.soc \in {"unset"} \union Access!Z2_ALIASES \union Access!KR260_ALIASES =>
                Access!resolve_soc(v3.soc) = Access!overlay_soc
           /\ Access!resolve_soc(v3.soc) \in {"z2", "kr260", "error"}
BY SMT DEF Access!strip, Access!resolve_soc, Access!overlay_soc, Access!Z2_ALIASES, Access!KR260_ALIASES

LEMMA OnBoard == ASSUME Access!TypeOK PROVE v1 \in {"z2", "kr260"}
BY SMT, AccessAssumption DEF Access!TypeOK

(* What a tool may touch, unless it is excused. *)
Known(tool, pages) == \A page \in pages : Access!decoded(page) \/ Access!excused(tool)

LEMMA TouchKnown ==
    ASSUME NEW tool, NEW pages, Known(tool, pages)
    PROVE  Known(tool, Access!touch(pages).pend)
BY SMT DEF Known, Access!touch, Access!refuse

LEMMA RefuseKnown == ASSUME NEW tool, NEW rc PROVE Known(tool, Access!refuse(rc).pend)
BY SMT DEF Known, Access!refuse

LEMMA GuardKnown ==
    ASSUME Access!TypeOK, NEW tool, NEW page, tool \in {"tlchar", "agent", "tlfifo"},
           ~Access!excused(tool) /\ v1 = "z2" => Access!decoded(page)
    PROVE  Known(tool, Access!zynqmp_guard(page).pend)
<1>1. CASE Access!strip(v3.soc) \notin {"unset"} \union Access!Z2_ALIASES
  BY SMT, <1>1, RefuseKnown DEF Access!zynqmp_guard
<1>2. CASE Access!strip(v3.soc) \in {"unset"} \union Access!Z2_ALIASES
  <2>1. Access!zynqmp_guard(page) = Access!touch({\h44032, page})
    BY <1>2, SMT DEF Access!zynqmp_guard
  <2>2. CASE ~Access!excused(tool)
    <3>1. v1 = "z2" /\ Access!fits(tool)
      BY SMT, <1>2, <2>2, Socs, OnBoard DEF Access!excused, Access!wrong_map
    <3>2. v2.kind # "none"
      BY SMT, <3>1 DEF Access!fits, Access!decoded
    <3>3. Access!decoded(\h44032)
      BY <3>1, <3>2, ControlDecodes, SMT
    <3>4. Known(tool, {\h44032, page})
      BY <2>2, <3>1, <3>3, SMT DEF Known
    <3> QED
      BY <2>1, <3>4, TouchKnown, SMT
  <2>3. CASE Access!excused(tool)
    BY SMT, <2>3 DEF Known
  <2> QED
    BY SMT, <2>2, <2>3
<1> QED
  BY SMT, <1>1, <1>2

LEMMA TlcharKnown ==
    ASSUME Access!TypeOK, NEW page, page = Access!tlchar_tx \/ page = \h44032
    PROVE  Known("tlchar", Access!zynqmp_guard(page).pend) /\ Known("agent", Access!zynqmp_guard(page).pend)
<1>1. ASSUME NEW tool \in {"tlchar", "agent"}, ~Access!excused(tool), v1 = "z2" PROVE Access!decoded(page)
  <2>1. Access!decoded(Access!tlchar_tx)
    BY SMT, <1>1 DEF Access!excused, Access!fits
  <2>2. v2.kind # "none"
    BY SMT, <1>1, <2>1 DEF Access!decoded
  <2>3. Access!decoded(\h44032)
    BY <1>1, <2>2, ControlDecodes, SMT
  <2> QED
    BY <2>1, <2>3, SMT
<1> QED
  BY SMT, <1>1, GuardKnown

LEMMA Tl39Known ==
    ASSUME Access!TypeOK, NEW page \in Access!tl39_pages
    PROVE  Known("tl39", Access!tl39(page).pend)
<1>1. CASE Access!excused("tl39")
  BY SMT, <1>1 DEF Known
<1>2. CASE ~Access!excused("tl39")
  <2>0. CASE v3.soc = "unset" /\ v1 = "kr260"
    <3>1. v3.socmap /\ v3.tx # 0 /\ v3.tx # \h84000
      BY SMT, <1>2, <2>0 DEF Access!excused, Access!wrong_map, Access!half_set
    <3>2. Access!resolve_soc(v3.soc) = "z2"
      BY SMT, <2>0 DEF Access!resolve_soc
    <3>3. Access!data_base(v3.tx, \h84000) = Access!Refused
      BY SMT, <3>1, <3>2 DEF Access!data_base, Access!remap
    <3>4. Access!tl39(page) = Access!refuse(1)
      BY SMT, <3>1, <3>2, <3>3 DEF Access!tl39
    <3> QED
      BY SMT, <3>4, RefuseKnown
  <2> SUFFICES ASSUME ~(v3.soc = "unset" /\ v1 = "kr260") PROVE Known("tl39", Access!tl39(page).pend)
    BY <2>0
  <2>1. v2.kind \in {"gp1", "kr260"} /\ Access!resolve_soc(v3.soc) \in {v1, "error"}
    BY SMT, <1>2, Socs, OnBoard DEF Access!excused, Access!wrong_map, Access!fits, Access!resolve_soc
  <2>2. v1 \in {"z2", "kr260"} /\ (v1 = "kr260" <=> v2.kind = "kr260")
    BY <2>1, Images
  <2>3. v1 = "z2" => page \in {\h44032, \h84000, \h84010} /\ Access!decoded(page)
    BY <2>1, <2>2, ControlDecodes, DataDecodes, SMT DEF Access!tl39_pages
  <2>4. CASE ~v3.socmap
    <3>1. CASE Access!strip(v3.soc) \notin {"unset", "z2"}
      BY SMT, <2>4, <3>1, RefuseKnown DEF Access!tl39
    <3>2. CASE Access!strip(v3.soc) \in {"unset", "z2"}
      <4>1. v1 = "z2" /\ Access!tl39(page) = Access!touch({page})
        BY SMT, <2>1, <2>2, <2>4, <3>2, Socs DEF Access!tl39, Access!Z2_ALIASES
      <4>2. Known("tl39", {page})
        BY <2>3, <4>1, SMT DEF Known
      <4> QED
        BY SMT, <4>1, <4>2, TouchKnown
    <3> QED
      BY SMT, <3>1, <3>2
  <2>5. CASE v3.socmap
    <3>1. CASE Access!resolve_soc(v3.soc) = "error"
      BY SMT, <2>5, <3>1, RefuseKnown DEF Access!tl39
    <3>2. CASE Access!resolve_soc(v3.soc) = v1
      <4>1. CASE Access!Refused \in {Access!data_base(v3.tx, \h84000), Access!data_base(0, \h84010)}
        BY <2>2, <2>5, <3>2, <4>1, RefuseKnown, SMT DEF Access!tl39
      <4>2. CASE Access!Refused \notin {Access!data_base(v3.tx, \h84000), Access!data_base(0, \h84010)}
        <5>0. PICK q : q = IF page = \h84000 THEN Access!data_base(v3.tx, page) ELSE Access!remap(page)
          OBVIOUS
        <5>1. /\ q = IF page = \h84000 THEN Access!data_base(v3.tx, page) ELSE Access!remap(page)
              /\ Access!tl39(page) = Access!touch({q})
          <6>1. Access!resolve_soc(v3.soc) # "error"
            BY <2>2, <3>2
          <6>2. ~(Access!Refused \in {Access!data_base(v3.tx, \h84000), Access!data_base(0, \h84010)})
            BY <4>2
          <6>3. Access!tl39(page) = Access!touch({IF page = \h84000 THEN Access!data_base(v3.tx, page) ELSE Access!remap(page)})
            BY SMT, <2>5, <6>1, <6>2 DEF Access!tl39
          <6> QED
            BY SMT, <5>0, <6>3
        <5>2. q = Access!remap(page) \/ q = Access!Refused
          BY <5>1, SMT DEF Access!data_base
        <5>3. CASE q = Access!Refused
          BY <5>1, <5>3, SMT DEF Access!touch, Access!refuse, Known
        <5>4. CASE q = Access!remap(page) /\ q # Access!Refused
          <6>1. Access!decoded(q)
            <7>1. CASE v1 = "z2"
              BY <2>3, <3>2, <5>4, <7>1, SMT DEF Access!remap
            <7>2. CASE v1 = "kr260"
              <8>1. page \in {\h44032, \h84000, \h84010, \h84032, \h50000}
                BY <7>2, SMT DEF Access!tl39_pages
              <8>2. q \in {\h84032, \hA4000, \hA4010}
                BY <3>2, <5>4, <7>2, <8>1, Remaps, SMT DEF Access!Refused
              <8> QED
                BY <2>2, <7>2, <8>2, ControlDecodes, DataDecodes, SMT
            <7> QED
              BY SMT, <2>2, <7>1, <7>2
          <6>2. Known("tl39", {q})
            BY <6>1, SMT DEF Known
          <6> QED
            BY SMT, <5>1, <6>2, TouchKnown
        <5> QED
          BY SMT, <5>2, <5>3, <5>4
      <4> QED
        BY SMT, <4>1, <4>2
    <3> QED
      BY SMT, <2>1, <3>1, <3>2
  <2> QED
    BY SMT, <2>4, <2>5 DEF Access!TypeOK
<1> QED
  BY SMT, <1>1, <1>2

(* The tools that choose the map themselves, given a name they know. *)
LEMMA OverlayKnown ==
    ASSUME Access!TypeOK
    PROVE  /\ Known("overlay", {Access!overlay_page(\h44030, \h84030), Access!overlay_page(\h44000, \hA4000)})
           /\ Known("tl_poke", {Access!overlay_page(\h44032, \h84032)})
<1>1. ASSUME NEW tool \in {"overlay", "tl_poke"}, ~Access!excused(tool)
      PROVE  v1 = Access!overlay_soc /\ v2.kind # "none" /\ v1 \in {"z2", "kr260"}
             /\ (tool = "overlay" => v2.kind = v1)
  <2>1. v3.soc \in {"unset"} \union Access!Z2_ALIASES \union Access!KR260_ALIASES /\ Access!fits(tool)
        /\ Access!resolve_soc(v3.soc) \in {v1, "error"}
    BY SMT, <1>1, Socs, OnBoard DEF Access!excused, Access!wrong_map, Access!resolve_soc
  <2>2. Access!overlay_soc \in {"z2", "kr260"}
    BY SMT DEF Access!overlay_soc
  <2>3. v1 = Access!overlay_soc
    BY SMT, <2>1, <2>2, Socs
  <2>4. v2.kind # "none" /\ (tool = "overlay" => v2.kind \in {"z2", "kr260"})
    BY <1>1, <2>1 DEF Access!fits
  <2> QED
    BY <1>1, <2>3, <2>4, Images
<1>2. Known("overlay", {Access!overlay_page(\h44030, \h84030), Access!overlay_page(\h44000, \hA4000)})
  <2>1. CASE Access!excused("overlay")
    BY SMT, <2>1 DEF Known
  <2>2. CASE ~Access!excused("overlay")
    <3>1. v1 = Access!overlay_soc /\ v2.kind = v1 /\ v1 \in {"z2", "kr260"}
      BY SMT, <1>1, <2>2
    <3> QED
      BY <3>1, ControlDecodes, DataDecodes, SMT DEF Known, Access!overlay_page
  <2> QED
    BY SMT, <2>1, <2>2
<1>3. Known("tl_poke", {Access!overlay_page(\h44032, \h84032)})
  <2>1. CASE Access!excused("tl_poke")
    BY SMT, <2>1 DEF Known
  <2>2. CASE ~Access!excused("tl_poke")
    <3>1. v1 = Access!overlay_soc /\ v2.kind # "none" /\ v1 \in {"z2", "kr260"}
      BY SMT, <1>1, <2>2
    <3> QED
      BY <3>1, ControlDecodes, SMT DEF Known, Access!overlay_page
  <2> QED
    BY SMT, <2>1, <2>2
<1> QED
  BY SMT, <1>2, <1>3

LEMMA SmokeKnown ==
    ASSUME Access!TypeOK, v1 = "kr260", NEW ptp \in BOOLEAN, ptp => v2.ptp
    PROVE  Known("smoke", Access!kr260_smoke(ptp).pend)
<1>1. CASE Access!excused("smoke")
  BY SMT, <1>1 DEF Known
<1>2. CASE ~Access!excused("smoke")
  <2>1. v2.kind = "kr260"
    BY SMT, <1>2, Images DEF Access!excused, Access!fits
  <2>2. Access!decoded(\hFF419) /\ Access!decoded(\hFD615)
    BY SMT DEF Access!decoded
  <2>3. PICK pages : /\ pages = {\hFF419, \hFD615, \h84030, \h84032, \h84040, \h84041}
                                  \union (IF ptp THEN {\h84020, \h84050} ELSE {})
                     /\ Access!kr260_smoke(ptp) = Access!touch(pages)
    BY SMT DEF Access!kr260_smoke
  <2>4. Known("smoke", pages)
    BY <2>1, <2>2, <2>3, ControlDecodes, PtpDecodes, SMT DEF Known
  <2> QED
    BY SMT, <2>3, <2>4, TouchKnown
<1> QED
  BY SMT, <1>1, <1>2

(* While board, image and environment stay, so does who is to blame. *)
LEMMA SameDecoded ==
    ASSUME UNCHANGED <<v1, v2>>, NEW page PROVE Access!decoded(page)' <=> Access!decoded(page)
BY SMT DEF Access!decoded, Access!absent, Access!APERTURES

LEMMA SameFits == ASSUME UNCHANGED <<v1, v2, v3>>, NEW tool, Access!fits(tool)' PROVE Access!fits(tool)
<1>1. PICK q : q = Access!tlchar_tx
  OBVIOUS
<1>2. Access!tlchar_tx' = q
  BY SMT, <1>1 DEF Access!tlchar_tx
<1>3. Access!decoded(q)' => Access!decoded(q)
  BY SameDecoded
<1>4. Access!decoded(Access!tlchar_tx)' => Access!decoded(q)'
  BY SMT, <1>2 DEF Access!decoded, Access!absent, Access!APERTURES
<1> QED
  BY SMT, <1>1, <1>3, <1>4 DEF Access!fits

LEMMA SameExcused ==
    ASSUME UNCHANGED <<v1, v2, v3>>, NEW tool, Access!excused(tool) PROVE Access!excused(tool)'
BY SMT, SameFits DEF Access!excused, Access!wrong_map, Access!half_set, Access!resolve_soc, Access!strip, Access!Z2_ALIASES, Access!KR260_ALIASES

LEMMA PagesStay ==
    ASSUME UNCHANGED <<v1, v2, v3>>, NEW tool, NEW pend, v4'.tool = tool, v4'.pend = pend, Known(tool, pend),
           tool = "agent" /\ pend # {} => v2.kind # "none"
    PROVE  Access!PagesKnown'
<1>1. ASSUME NEW page \in pend PROVE Access!decoded(page)' \/ Access!excused(tool)'
  BY <1>1, SameDecoded, SameExcused DEF Known
<1>2. Access!excused(tool)' => Access!excused(v4.tool)'
  OBVIOUS
<1> QED
  BY <1>1, <1>2 DEF Access!PagesKnown

LEMMA HungStays ==
    ASSUME UNCHANGED <<v1, v2, v3>>, NEW tool, v5' = tool, tool # "none" => Access!excused(tool),
           tool = "agent" => v2.kind # "none"
    PROVE  Access!NoUndecoded' /\ Access!AgentNeedsImage'
<1>1. tool # "none" => Access!excused(tool)'
  BY SameExcused
<1>2. Access!excused(tool)' => Access!excused(v5)'
  OBVIOUS
<1> QED
  BY <1>1, <1>2 DEF Access!NoUndecoded, Access!AgentNeedsImage

LEMMA AccessConstants ==
    /\ DOMAIN Access!Idle' = DOMAIN Access!Idle /\ DOMAIN Access!Reset' = DOMAIN Access!Reset
    /\ Access!Empty' = Access!Empty
BY DEF Access!Idle, Access!Reset, Access!Empty

(* The board stays the same, an image is the board's. *)
LEMMA AccessTypes ==
    ASSUME Access!TypeOK, UNCHANGED v1, v2' = v2 \/ v2' = Access!Empty \/ v2' \in Access!images,
           v3' = v3 \/ (v3'.soc \in AccSocs \union {"unset"} /\ v3'.skip = FALSE /\ v3'.socmap \in BOOLEAN),
           DOMAIN v4' = DOMAIN Access!Idle, DOMAIN v6' = DOMAIN Access!Reset,
           v4'.tool = "none" <=> v4'.pc = "off"
    PROVE  Access!TypeOK'
<1>1. Access!images' = Access!images
  BY DEF Access!images
<1> QED
  BY <1>1, AccessConstants DEF Access!TypeOK

LEMMA PhaseStays ==
    ASSUME NEW cfg, NEW phase, v4'.pc # "lock" \/ (v4'.cfg = cfg /\ v6'.phase = phase /\ phase = IF cfg THEN 3 ELSE 0)
    PROVE  Access!PhaseSet'
BY DEF Access!PhaseSet

(* A step of the operator between two tools, or a reboot. *)
LEMMA OperatorKeeps ==
    ASSUME Access!IInv, Access!TypeOK', v4'.pc = "off", v5' = "none"
    PROVE  Access!IInv'
BY DEF Access!IInv, Access!PagesKnown, Access!PhaseSet, Access!NoUndecoded, Access!AgentNeedsImage

LEMMA OperatorSteps ==
    ASSUME Access!IInv, Access!Export \/ Access!Deploy \/ Access!Reboot \/ Access!SetRole
    PROVE  Access!IInv'
<1>0. Access!TypeOK
  BY DEF Access!IInv
<1>1. CASE Access!Export
  <2>1. PICK soc \in AccSocs, tx \in AccBases, socmap \in BOOLEAN :
          v3' = [soc |-> soc, tx |-> tx, socmap |-> socmap, skip |-> FALSE]
    BY <1>1 DEF Access!Export
  <2>2. v3'.soc \in AccSocs \union {"unset"} /\ v3'.skip = FALSE /\ v3'.socmap \in BOOLEAN
    BY <2>1
  <2>3. UNCHANGED <<v1, v2, v4, v5, v6>> /\ v4.tool = "none" /\ v5 = "none"
    BY <1>1 DEF Access!Export, Access!quiet
  <2>4. v4'.pc = "off" /\ v5' = "none" /\ DOMAIN v4' = DOMAIN Access!Idle /\ DOMAIN v6' = DOMAIN Access!Reset
        /\ v4'.tool = "none"
    BY <1>0, <2>3 DEF Access!TypeOK
  <2> QED
    BY <1>0, <2>2, <2>3, <2>4, AccessTypes, OperatorKeeps
<1>2. CASE Access!Deploy
  <2>1. /\ UNCHANGED <<v1, v3, v4, v5>> /\ v2' \in Access!images /\ v6' = Access!Reset
        /\ v4.tool = "none" /\ v5 = "none"
    BY <1>2 DEF Access!Deploy, Access!quiet
  <2>2. v4'.pc = "off" /\ v5' = "none" /\ DOMAIN v4' = DOMAIN Access!Idle /\ v4'.tool = "none"
    BY <1>0, <2>1 DEF Access!TypeOK
  <2> QED
    BY <1>0, <2>1, <2>2, AccessTypes, OperatorKeeps
<1>3. CASE Access!Reboot
  <2>1. UNCHANGED <<v1, v3>> /\ v2' = Access!Empty /\ v6' = Access!Reset /\ v4' = Access!Idle /\ v5' = "none"
    BY <1>3 DEF Access!Reboot
  <2>2. v4'.pc = "off" /\ v4'.tool = "none" /\ DOMAIN v4' = DOMAIN Access!Idle /\ DOMAIN v6' = DOMAIN Access!Reset
    BY <2>1, AccessIs
  <2> QED
    BY <1>0, <2>1, <2>2, AccessTypes, OperatorKeeps
<1>4. CASE Access!SetRole
  <2>1. PICK s \in BOOLEAN : v6' = [v6 EXCEPT !.strap = s]
    BY <1>4 DEF Access!SetRole
  <2>2. UNCHANGED <<v1, v2, v3, v4, v5>> /\ v4.tool = "none" /\ v5 = "none"
    BY <1>4 DEF Access!SetRole, Access!quiet
  <2>3. v4'.pc = "off" /\ v5' = "none" /\ DOMAIN v4' = DOMAIN Access!Idle /\ DOMAIN v6' = DOMAIN Access!Reset
        /\ v4'.tool = "none"
    BY <1>0, <2>1, <2>2 DEF Access!TypeOK
  <2> QED
    BY <1>0, <2>2, <2>3, AccessTypes, OperatorKeeps
<1> QED
  BY <1>1, <1>2, <1>3, <1>4

(* Each tool touches what it may. *)
LEMMA ToolsKnow ==
    ASSUME Access!TypeOK,
           Access!RunTl39 \/ Access!RunTlchar \/ Access!RunTlfifo \/ Access!RunAgent \/ Access!RunPoke
           \/ Access!RunSmoke \/ Access!RunTest
    PROVE  \E tool, r : /\ Access!Run(tool, r) /\ Known(tool, r.pend) /\ tool # "none"
                        /\ tool = "agent" /\ r.pend # {} => v2.kind # "none"
<1>1. CASE Access!RunTl39
  <2>1. PICK page \in Access!tl39_pages : Access!Run("tl39", Access!tl39(page))
    BY <1>1 DEF Access!RunTl39
  <2> QED
    BY <2>1, Tl39Known
<1>2. CASE Access!RunTlchar
  <2>1. PICK page : /\ page = Access!tlchar_tx \/ page = \h44032
                    /\ Access!Run("tlchar", Access!zynqmp_guard(page))
    BY SMT, <1>2 DEF Access!RunTlchar
  <2>2. Known("tlchar", Access!zynqmp_guard(page).pend)
    BY SMT, <2>1, TlcharKnown
  <2>3. Access!Run("tlchar", Access!zynqmp_guard(page))
    BY SMT, <2>1
  <2> QED
    BY <2>2, <2>3
<1>3. CASE Access!RunTlfifo
  <2>1. PICK page : page = \h84010 /\ Access!Run("tlfifo", Access!zynqmp_guard(page))
    BY SMT, <1>3 DEF Access!RunTlfifo
  <2>2. ~Access!excused("tlfifo") /\ v1 = "z2" => Access!decoded(page)
    <3>1. ~Access!excused("tlfifo") => v2.kind \in {"gp1", "kr260"}
      BY DEF Access!excused, Access!fits
    <3>2. v1 = "z2" => v2.kind # "kr260"
      BY Images
    <3> QED
      BY SMT, <2>1, <3>1, <3>2, DataDecodes
  <2>3. Known("tlfifo", Access!zynqmp_guard(page).pend) /\ Access!Run("tlfifo", Access!zynqmp_guard(page))
    BY SMT, <2>1, <2>2, GuardKnown
  <2> QED
    BY <2>3
<1>4. CASE Access!RunAgent
  <2>1. PICK page : /\ page = Access!tlchar_tx \/ page = \h44032
                    /\ Access!Run("agent", Access!agent(page))
    BY SMT, <1>4 DEF Access!RunAgent
  <2>2. Known("agent", Access!zynqmp_guard(page).pend)
    BY SMT, <2>1, TlcharKnown
  <2>3. /\ Access!agent(page) = Access!refuse(4) \/ Access!agent(page) = Access!zynqmp_guard(page)
        /\ Access!agent(page).pend # {} => v2.kind # "none"
    <3>1. CASE v2.kind # "none"
      BY <3>1 DEF Access!agent
    <3>2. CASE v2.kind = "none"
      <4>1. ~Access!pl_programmed_guard
        BY <3>2 DEF Access!pl_programmed_guard, Access!TypeOK
      <4>2. Access!zynqmp_guard(page).rc # 0 => Access!zynqmp_guard(page).pend = {}
        BY SMT DEF Access!zynqmp_guard, Access!refuse, Access!touch
      <4>3. Access!refuse(4).pend = {}
        BY DEF Access!refuse
      <4> QED
        BY <4>1, <4>2, <4>3 DEF Access!agent
    <3> QED
      BY <3>1, <3>2
  <2>4. Known("agent", Access!agent(page).pend)
    BY <2>2, <2>3, RefuseKnown
  <2>5. Access!Run("agent", Access!agent(page))
    BY SMT, <2>1
  <2> QED
    BY <2>3, <2>4, <2>5
<1>5. CASE Access!RunPoke
  <2>1. PICK pages : pages = {Access!overlay_page(\h44032, \h84032)} /\ Access!Run("tl_poke", Access!touch(pages))
    BY SMT, <1>5 DEF Access!RunPoke
  <2>2. Known("tl_poke", pages) /\ Access!Run("tl_poke", Access!touch(pages))
    BY SMT, <2>1, OverlayKnown
  <2> QED
    BY <2>2, TouchKnown
<1>6. CASE Access!RunSmoke
  <2>1. PICK ptp \in BOOLEAN : v1 = "kr260" /\ (ptp => v2.ptp) /\ Access!Run("smoke", Access!kr260_smoke(ptp))
    BY <1>6 DEF Access!RunSmoke
  <2> QED
    BY <2>1, SmokeKnown
<1>7. CASE Access!RunTest
  <2>1. PICK pages : /\ pages = {Access!overlay_page(\h44030, \h84030), Access!overlay_page(\h44000, \hA4000)}
                     /\ Access!Run("overlay", Access!touch(pages))
    BY SMT, <1>7 DEF Access!RunTest
  <2>2. Known("overlay", pages) /\ Access!Run("overlay", Access!touch(pages))
    BY SMT, <2>1, OverlayKnown
  <2> QED
    BY <2>2, TouchKnown
<1> QED
  BY <1>1, <1>2, <1>3, <1>4, <1>5, <1>6, <1>7

LEMMA ToolKeeps == ASSUME Access!IInv, Access!Tool PROVE Access!IInv'
<1>0. Access!TypeOK
  BY DEF Access!IInv
<1>1. UNCHANGED <<v1, v2, v3, v5, v6>> /\ v5 = "none"
  BY DEF Access!Tool, Access!quiet
<1>2. PICK tool, r : /\ Access!Run(tool, r) /\ Known(tool, r.pend) /\ tool # "none"
                     /\ tool = "agent" /\ r.pend # {} => v2.kind # "none"
  BY <1>0, ToolsKnow DEF Access!Tool
<1>3. DOMAIN v4' = DOMAIN Access!Idle /\ v4'.tool = tool /\ v4'.pend = r.pend /\ v4'.pc = "pages"
  BY <1>2, AccessIs DEF Access!Run
<1>4. Access!TypeOK'
  BY <1>0, <1>1, <1>2, <1>3, AccessTypes DEF Access!TypeOK
<1>5. Access!PagesKnown'
  BY <1>1, <1>2, <1>3, PagesStay
<1>6. Access!PhaseSet' /\ Access!NoUndecoded' /\ Access!AgentNeedsImage'
  BY <1>1, <1>3 DEF Access!PhaseSet, Access!NoUndecoded, Access!AgentNeedsImage
<1> QED
  BY <1>4, <1>5, <1>6 DEF Access!IInv

(* An access that nobody answers is one the operator is to blame for. *)
LEMMA AccessKeeps == ASSUME Access!IInv, Access!Access PROVE Access!IInv'
<1>0. Access!TypeOK
  BY DEF Access!IInv
<1>1. UNCHANGED <<v1, v2, v3, v6>> /\ v4.pc = "pages"
  BY DEF Access!Access
<1>2. PICK page \in v4.pend : /\ v4' = [v4 EXCEPT !.pend = @ \ {page}]
                              /\ v5' = IF Access!decoded(page) THEN "none" ELSE v4.tool
  BY DEF Access!Access
<1>3. /\ DOMAIN v4' = DOMAIN Access!Idle /\ v4'.tool = v4.tool /\ v4'.pend = v4.pend \ {page} /\ v4'.pc = "pages"
  BY <1>0, <1>1, <1>2, AccessIs DEF Access!TypeOK
<1>4. Known(v4.tool, v4.pend) /\ (v4.tool = "agent" => v2.kind # "none") /\ v4.tool # "none"
  BY <1>0, <1>1, <1>2 DEF Access!IInv, Access!PagesKnown, Known, Access!TypeOK
<1>5. Access!TypeOK'
  BY <1>0, <1>1, <1>3, AccessTypes DEF Access!TypeOK
<1>6. Access!PagesKnown'
  <2>1. Known(v4.tool, v4.pend \ {page})
    BY <1>4 DEF Known
  <2> QED
    BY <1>1, <1>3, <1>4, <2>1, PagesStay
<1>7. Access!NoUndecoded' /\ Access!AgentNeedsImage'
  <2>1. PICK h : h = v5'
    OBVIOUS
  <2>2. h # "none" => h = v4.tool /\ Access!excused(h)
    BY <1>2, <1>4, <2>1 DEF Known
  <2> QED
    BY <1>1, <1>4, <2>1, <2>2, HungStays
<1>8. Access!PhaseSet'
  BY <1>3 DEF Access!PhaseSet
<1> QED
  BY <1>5, <1>6, <1>7, <1>8 DEF Access!IInv

(* A step after which no page is left, and the board hangs no more than before. *)
LEMMA LockSteps ==
    ASSUME Access!IInv, UNCHANGED <<v1, v2, v3, v5>>, Access!TypeOK', v4'.pc # "pages", Access!PhaseSet'
    PROVE  Access!IInv'
<1>1. Access!PagesKnown'
  BY DEF Access!PagesKnown
<1>2. PICK h : h = v5
  OBVIOUS
<1>3. Access!NoUndecoded' /\ Access!AgentNeedsImage'
  BY <1>2, HungStays DEF Access!IInv, Access!NoUndecoded, Access!AgentNeedsImage
<1> QED
  BY <1>1, <1>3 DEF Access!IInv

LEMMA LocksKeep ==
    ASSUME Access!IInv,
           Access!Exit \/ Access!Killed \/ Access!LockRole \/ Access!WritePhase \/ Access!WriteLock
    PROVE  Access!IInv'
<1>0. Access!TypeOK
  BY DEF Access!IInv
<1>1. UNCHANGED <<v1, v2, v3, v5>>
  BY DEF Access!Exit, Access!Killed, Access!LockRole, Access!WritePhase, Access!WriteLock
<1>2. CASE Access!Exit \/ Access!Killed \/ Access!WriteLock
  <2>1. v4' = Access!Idle /\ (v6' = v6 \/ v6' = [v6 EXCEPT !.locked = TRUE, !.role = v4.cfg])
    BY <1>2 DEF Access!Exit, Access!Killed, Access!WriteLock
  <2>2. v4'.pc = "off" /\ v4'.tool = "none" /\ DOMAIN v4' = DOMAIN Access!Idle /\ DOMAIN v6' = DOMAIN Access!Reset
    BY <1>0, <2>1, AccessIs DEF Access!TypeOK
  <2>3. Access!TypeOK' /\ Access!PhaseSet'
    BY <1>0, <1>1, <2>2, AccessTypes DEF Access!PhaseSet
  <2> QED
    BY <1>1, <2>2, <2>3, LockSteps
<1>3. CASE Access!LockRole
  <2>1. v4' = [Access!Idle EXCEPT !.tool = "lock_role", !.cfg = v6.strap, !.pc = "phase"] /\ UNCHANGED v6
    BY <1>3 DEF Access!LockRole
  <2>2. v4'.pc = "phase" /\ v4'.tool = "lock_role" /\ DOMAIN v4' = DOMAIN Access!Idle /\ DOMAIN v6' = DOMAIN Access!Reset
    BY <1>0, <2>1, AccessIs DEF Access!TypeOK
  <2>3. Access!TypeOK' /\ Access!PhaseSet'
    BY <1>0, <1>1, <2>2, AccessTypes DEF Access!PhaseSet
  <2> QED
    BY <1>1, <2>2, <2>3, LockSteps
<1>4. CASE Access!WritePhase
  <2>1. /\ v6' = [v6 EXCEPT !.phase = IF v4.cfg THEN 3 ELSE 0] /\ v4' = [v4 EXCEPT !.pc = "lock"]
        /\ v4.pc = "phase"
    BY <1>4 DEF Access!WritePhase
  <2>2. /\ v4'.pc = "lock" /\ v4'.tool = v4.tool /\ v4'.cfg = v4.cfg /\ v4.tool # "none"
        /\ DOMAIN v4' = DOMAIN Access!Idle /\ DOMAIN v6' = DOMAIN Access!Reset
        /\ v6'.phase = IF v4.cfg THEN 3 ELSE 0
    BY <1>0, <2>1, AccessIs DEF Access!TypeOK
  <2>3. Access!TypeOK' /\ Access!PhaseSet'
    BY <1>0, <1>1, <2>2, AccessTypes, PhaseStays
  <2> QED
    BY <1>1, <2>2, <2>3, LockSteps
<1> QED
  BY <1>2, <1>3, <1>4

(* A step that leaves board, image, environment, tool and hang alone. *)
LEMMA AccessSame ==
    ASSUME Access!IInv, UNCHANGED <<v1, v2, v3, v4, v5>>, Access!TypeOK', Access!PhaseSet'
    PROVE  Access!IInv'
<1>1. Access!PagesKnown'
  <2>1. CASE v4.pc = "pages"
    <3>1. PICK tool, pend : tool = v4.tool /\ pend = v4.pend
      OBVIOUS
    <3>2. Known(tool, pend) /\ (tool = "agent" /\ pend # {} => v2.kind # "none")
      BY <2>1, <3>1 DEF Access!IInv, Access!PagesKnown, Known
    <3> QED
      BY <3>1, <3>2, PagesStay
  <2>2. CASE v4.pc # "pages"
    BY <2>2 DEF Access!PagesKnown
  <2> QED
    BY <2>1, <2>2
<1>2. PICK h : h = v5
  OBVIOUS
<1>3. Access!NoUndecoded' /\ Access!AgentNeedsImage'
  BY <1>2, HungStays DEF Access!IInv, Access!NoUndecoded, Access!AgentNeedsImage
<1> QED
  BY <1>1, <1>3 DEF Access!IInv

(* Another process flips the strap while lock_role is at work. *)
LEMMA FlipKeeps == ASSUME Access!IInv, Access!Flip PROVE Access!IInv'
<1>0. Access!TypeOK
  BY DEF Access!IInv
<1>1. UNCHANGED <<v1, v2, v3, v4, v5>> /\ v6' = [v6 EXCEPT !.strap = ~@]
  BY DEF Access!Flip
<1>2. DOMAIN v6' = DOMAIN Access!Reset /\ v6'.phase = v6.phase
  BY <1>0, <1>1, AccessIs DEF Access!TypeOK
<1>3. Access!TypeOK'
  BY <1>0, <1>1, <1>2, AccessTypes DEF Access!TypeOK
<1>4. Access!PhaseSet'
  BY <1>1, <1>2 DEF Access!IInv, Access!PhaseSet
<1> QED
  BY <1>1, <1>3, <1>4, AccessSame

LEMMA AccessStutters == ASSUME Access!IInv, UNCHANGED Access!vars PROVE Access!IInv'
<1>0. Access!TypeOK /\ UNCHANGED <<v1, v2, v3, v4, v5, v6>>
  BY DEF Access!IInv, Access!vars
<1>1. Access!TypeOK'
  BY <1>0, AccessTypes DEF Access!TypeOK
<1>2. Access!PhaseSet'
  BY <1>0 DEF Access!IInv, Access!PhaseSet
<1> QED
  BY <1>0, <1>1, <1>2, AccessSame

LEMMA AccessStep == ASSUME Access!IInv, Access!Next PROVE Access!IInv'
BY OperatorSteps, ToolKeeps, AccessKeeps, LocksKeep, FlipKeeps DEF Access!Next

(* Only lock_role's last write locks the role, and it has written the phase. *)
LEMMA LockIsPhased == ASSUME Access!IInv, Access!Next PROVE Access!PhaseBeforeLock
<1>0. Access!TypeOK /\ Access!PhaseSet
  BY DEF Access!IInv
<1>1. CASE Access!Export \/ Access!Tool \/ Access!Access \/ Access!Exit \/ Access!LockRole \/ Access!Killed
  <2>1. UNCHANGED v6
    BY <1>1 DEF Access!Export, Access!Tool, Access!Access, Access!Exit, Access!LockRole, Access!Killed
  <2> QED
    BY <2>1 DEF Access!PhaseBeforeLock
<1>2. CASE Access!Deploy \/ Access!Reboot
  <2>1. v6' = Access!Reset
    BY <1>2 DEF Access!Deploy, Access!Reboot
  <2> QED
    BY <2>1, AccessIs DEF Access!PhaseBeforeLock
<1>3. CASE Access!SetRole \/ Access!WritePhase \/ Access!Flip
  <2>1. v6'.locked = v6.locked
    BY <1>0, <1>3, AccessIs DEF Access!SetRole, Access!WritePhase, Access!Flip, Access!TypeOK
  <2> QED
    BY <2>1 DEF Access!PhaseBeforeLock
<1>4. CASE Access!WriteLock
  <2>1. v6' = [v6 EXCEPT !.locked = TRUE, !.role = v4.cfg] /\ v4.pc = "lock"
    BY <1>4 DEF Access!WriteLock
  <2>2. v6'.role = v4.cfg
    BY <1>0, <2>1, AccessIs DEF Access!TypeOK
  <2> QED
    BY <1>0, <2>1, <2>2 DEF Access!PhaseBeforeLock, Access!PhaseSet
<1> QED
  BY <1>1, <1>2, <1>3, <1>4 DEF Access!Next

-----------------------------------------------------------------------------
(* The monitor's polls *)

LEMMA PollsStart == Polls!Init => Polls!IInv
<1> SUFFICES ASSUME Polls!Init PROVE Polls!IInv
  OBVIOUS
<1>1. Polls!LatestNotLost /\ v16 \in Seq(Nat)
  BY PollAssumption DEF Polls!Init, Polls!LatestNotLost
<1>2. Polls!TypeOK
  BY <1>1 DEF Polls!Init, Polls!TypeOK
<1>3. Polls!PendingIsLast /\ Polls!AnchorIsOwn /\ Polls!ArmedIsCleared
  BY DEF Polls!Init, Polls!PendingIsLast, Polls!AnchorIsOwn, Polls!ArmedIsCleared
<1>4. Polls!CrcWasReal /\ Polls!RateWithinProcess /\ Polls!WindowWasCleared
  BY DEF Polls!Init, Polls!CrcWasReal, Polls!RateWithinProcess, Polls!WindowWasCleared
<1> QED
  BY <1>1, <1>2, <1>3, <1>4 DEF Polls!IInv

(* The queue drops its oldest event for the newest, and only when it is    *)
(* full.                                                                   *)
LEMMA PollPublishKeeps ==
    ASSUME Polls!IInv, Polls!Publish
    PROVE  Polls!LatestNotLost' /\ v16' \in Seq(Nat) /\ v17' \in Nat
<1>0. PollQueue \in Nat \ {0} /\ v16 \in Seq(Nat) /\ v17 \in Nat
  BY PollAssumption DEF Polls!IInv, Polls!TypeOK
<1>1. v17' = v17 + 1 /\ v16' = Append(IF Len(v16) < PollQueue THEN v16 ELSE Tail(v16), v17 + 1)
  BY DEF Polls!Publish, Polls!DropOldest
<1>2. Len(v16) \in Nat /\ Len(v16) <= PollQueue /\ \A i \in 1 .. Len(v16) : v16[i] = v17 - Len(v16) + i
  BY <1>0 DEF Polls!IInv, Polls!LatestNotLost
<1>3. CASE Len(v16) < PollQueue
  <2>1. v16' \in Seq(Nat) /\ Len(v16') = Len(v16) + 1 /\ v16'[Len(v16) + 1] = v17 + 1
        /\ \A i \in 1 .. Len(v16) : v16'[i] = v16[i]
    BY <1>0, <1>1, <1>3
  <2> QED
    BY <1>0, <1>1, <1>2, <1>3, <2>1 DEF Polls!LatestNotLost
<1>4. CASE ~(Len(v16) < PollQueue)
  <2>1. v16 # <<>> /\ Len(v16) = PollQueue
    BY <1>0, <1>2, <1>4
  <2>2. PICK q : q = Tail(v16)
    OBVIOUS
  <2>3. q \in Seq(Nat) /\ Len(q) = Len(v16) - 1 /\ \A i \in 1 .. Len(q) : q[i] = v16[i + 1]
    BY <1>0, <2>1, <2>2
  <2>4. v16' \in Seq(Nat) /\ Len(v16') = Len(v16) /\ v16'[Len(v16)] = v17 + 1
        /\ \A i \in 1 .. Len(q) : v16'[i] = q[i]
    BY <1>0, <1>1, <1>2, <1>4, <2>2, <2>3
  <2> DEFINE n == Len(v16)
  <2>0. n \in Nat /\ v17' = v17 + 1 /\ Len(v16') = n /\ v17 \in Nat
    BY <1>0, <1>1, <1>2, <2>4
  <2> HIDE DEF n
  <2>5. ASSUME NEW i \in 1 .. Len(v16') PROVE v16'[i] = v17' - Len(v16') + i
    <3>1. CASE i = Len(v16)
      <4>1. v16'[i] = v17 + 1 /\ i = n
        BY <2>4, <3>1 DEF n
      <4> QED
        BY <2>0, <4>1
    <3>2. CASE i # Len(v16)
      <4>1. i \in 1 .. Len(q) /\ i + 1 \in 1 .. Len(v16)
        BY <1>2, <2>3, <2>4, <2>5, <3>2
      <4>2. v16'[i] = v16[i + 1] /\ v16[i + 1] = v17 - Len(v16) + (i + 1)
        BY <1>2, <2>3, <2>4, <4>1
      <4> QED
        BY <2>0, <4>2 DEF n
    <3> QED
      BY <3>1, <3>2
  <2> QED
    BY <1>0, <2>0, <2>1, <2>4, <2>5 DEF Polls!LatestNotLost, n
<1> QED
  BY <1>3, <1>4

LEMMA GetKeeps == ASSUME Polls!IInv, Polls!Get PROVE Polls!IInv'
<1>0. v16 \in Seq(Nat) /\ v17 \in Nat /\ v16 # <<>> /\ v16' = Tail(v16)
  BY DEF Polls!IInv, Polls!TypeOK, Polls!Get
<1>1. UNCHANGED <<v1, v2, v3, v4, v5, v6, v7, v8, v10, v11, v12, v13, v15, v17>>
  BY DEF Polls!Get, Polls!agentVars, Polls!regVars, Polls!dieVars
<1>2. v16' \in Seq(Nat) /\ Len(v16') = Len(v16) - 1 /\ \A i \in 1 .. Len(v16') : v16'[i] = v16[i + 1]
  BY <1>0
<1>3. Polls!LatestNotLost'
  BY <1>0, <1>1, <1>2, PollAssumption DEF Polls!IInv, Polls!LatestNotLost
<1> QED
  BY <1>1, <1>2, <1>3
     DEF Polls!IInv, Polls!TypeOK, Polls!PendingIsLast, Polls!AnchorIsOwn, Polls!ArmedIsCleared,
         Polls!CrcWasReal, Polls!RateWithinProcess, Polls!WindowWasCleared, Polls!None

(* What a step that publishes, or that leaves the queue alone, still owes. *)
LEMMA PollsKeep ==
    ASSUME Polls!IInv, Polls!Publish \/ UNCHANGED <<v16, v17>>,
           v1' \in Nat, v2' \in BOOLEAN, v4' \in BOOLEAN, v7' \in Nat, v2' => v1' > 0,
           Polls!PendingIsLast', Polls!AnchorIsOwn', Polls!ArmedIsCleared',
           Polls!CrcWasReal', Polls!RateWithinProcess', Polls!WindowWasCleared'
    PROVE  Polls!IInv'
<1>1. Polls!LatestNotLost' /\ v16' \in Seq(Nat) /\ v17' \in Nat
  BY PollPublishKeeps DEF Polls!IInv, Polls!TypeOK, Polls!LatestNotLost
<1> QED
  BY <1>1 DEF Polls!IInv, Polls!TypeOK

(* A poll: two samples that agree are the counter's, since a torn value    *)
(* does not come up twice running; a rate is taken from the own anchor.    *)
LEMMA PollKeeps == ASSUME Polls!IInv, Polls!Poll PROVE Polls!IInv'
<1>0. v1 \in Nat /\ v7 \in Nat /\ v2 = TRUE /\ v1 > 0 /\ v4 \in BOOLEAN
  BY DEF Polls!IInv, Polls!TypeOK, Polls!Poll
<1>1. UNCHANGED <<v1, v2, v3, v4, v5, v6, v7, v15>> /\ Polls!Publish /\ Polls!Derive
  BY DEF Polls!Poll, Polls!agentVars, Polls!regVars
<1>2. Polls!CrcWasReal' /\ Polls!PendingIsLast'
  <2>1. CASE UNCHANGED <<v12, v13, v8>>
    BY <1>1, <2>1 DEF Polls!IInv, Polls!CrcWasReal, Polls!PendingIsLast, Polls!None
  <2>2. ASSUME NEW raw \in Polls!CrcRead, Polls!ConfirmCrc(raw), v8' = raw PROVE Polls!CrcWasReal' /\ Polls!PendingIsLast'
    <3>1. raw = v7 \/ raw # v12
      BY <2>2 DEF Polls!CrcRead, Polls!IInv, Polls!PendingIsLast
    <3>2. v12' = raw /\ (v13' = v13 \/ v13' = v7)
      BY <2>2, <3>1 DEF Polls!ConfirmCrc
    <3> QED
      BY <1>0, <1>1, <2>2, <3>2 DEF Polls!IInv, Polls!CrcWasReal, Polls!PendingIsLast, Polls!None
  <2> QED
    BY <2>1, <2>2 DEF Polls!Poll
<1>3. Polls!AnchorIsOwn' /\ Polls!RateWithinProcess'
  BY <1>0, <1>1 DEF Polls!IInv, Polls!AnchorIsOwn, Polls!RateWithinProcess, Polls!Derive
<1>4. Polls!ArmedIsCleared' /\ Polls!WindowWasCleared'
  BY <1>1 DEF Polls!IInv, Polls!ArmedIsCleared, Polls!WindowWasCleared, Polls!None
<1> QED
  BY <1>0, <1>1, <1>2, <1>3, <1>4, PollsKeep

(* A relaunch, the end of a stream, a poll that fails, the hardware. *)
LEMMA StreamKeeps ==
    ASSUME Polls!IInv,
           Polls!Launch \/ Polls!StreamOver \/ Polls!PollFails \/ Polls!CrcError \/ Polls!Overrun
    PROVE  Polls!IInv'
<1>0. Polls!TypeOK
  BY DEF Polls!IInv
<1>1. UNCHANGED <<v4, v5, v6, v8, v11, v12, v13, v15>> /\ (Polls!Publish \/ UNCHANGED <<v16, v17>>)
  BY DEF Polls!Launch, Polls!StreamOver, Polls!PollFails, Polls!CrcError, Polls!Overrun,
         Polls!agentVars, Polls!regVars, Polls!dieVars
<1>2. /\ v1' \in Nat /\ v1 <= v1' /\ v7' \in Nat /\ v7 <= v7' /\ v2' \in BOOLEAN /\ (v2' => v1' > 0)
      /\ Polls!AnchorIsOwn' /\ Polls!ArmedIsCleared'
  <2>1. CASE Polls!Launch
    <3>1. v2' = TRUE /\ ~v2 /\ v1' = v1 + 1 /\ v3' = "new" /\ UNCHANGED <<v7, v10>>
      BY <2>1 DEF Polls!Launch, Polls!regVars, Polls!dieVars
    <3>2. v10' = 0
      BY <3>1 DEF Polls!IInv, Polls!AnchorIsOwn
    <3> QED
      BY <1>0, <3>1, <3>2 DEF Polls!TypeOK, Polls!AnchorIsOwn, Polls!ArmedIsCleared
  <2>2. CASE Polls!StreamOver
    <3>1. v2' = FALSE /\ v10' = 0 /\ UNCHANGED <<v1, v7>>
      BY <2>2 DEF Polls!StreamOver, Polls!regVars
    <3>2. Polls!AnchorIsOwn'
      BY <3>1 DEF Polls!AnchorIsOwn
    <3>3. Polls!ArmedIsCleared'
      BY <3>1, Zenon DEF Polls!ArmedIsCleared
    <3>4. v1' \in Nat /\ v1 <= v1' /\ v7' \in Nat /\ v7 <= v7'
      BY <1>0, <3>1 DEF Polls!TypeOK
    <3>5. v2' \in BOOLEAN /\ (v2' => v1' > 0)
      BY <3>1
    <3> QED
      BY <3>2, <3>3, <3>4, <3>5
  <2>3. CASE Polls!PollFails \/ Polls!CrcError \/ Polls!Overrun
    <3>1. UNCHANGED <<v1, v2, v3, v4, v6, v10>>
      BY <2>3 DEF Polls!PollFails, Polls!CrcError, Polls!Overrun, Polls!agentVars, Polls!regVars, Polls!dieVars
    <3>2. v7' = v7 \/ v7' = v7 + 1
      BY <2>3 DEF Polls!PollFails, Polls!CrcError, Polls!Overrun, Polls!regVars
    <3>3. Polls!AnchorIsOwn' /\ Polls!ArmedIsCleared'
      BY <3>1 DEF Polls!IInv, Polls!AnchorIsOwn, Polls!ArmedIsCleared
    <3> QED
      BY <1>0, <3>1, <3>2, <3>3 DEF Polls!TypeOK
  <2> QED
    BY <2>1, <2>2, <2>3
<1>3. Polls!PendingIsLast' /\ Polls!CrcWasReal' /\ Polls!RateWithinProcess' /\ Polls!WindowWasCleared'
  BY <1>0, <1>1, <1>2
     DEF Polls!IInv, Polls!TypeOK, Polls!PendingIsLast, Polls!CrcWasReal, Polls!RateWithinProcess,
         Polls!WindowWasCleared, Polls!None
<1>4. v4' \in BOOLEAN
  BY <1>0, <1>1 DEF Polls!TypeOK
<1> QED
  BY <1>1, <1>2, <1>3, <1>4, PollsKeep

(* The performance window of a process begins with its own clear. *)
LEMMA PerfKeeps ==
    ASSUME Polls!IInv, Polls!PerfArm \/ Polls!PerfFreeze \/ Polls!PerfRecord
    PROVE  Polls!IInv'
<1>0. Polls!TypeOK
  BY DEF Polls!IInv
<1>1. UNCHANGED <<v1, v2, v4, v7, v8, v10, v11, v12, v13>> /\ v2 /\ (Polls!Publish \/ UNCHANGED <<v16, v17>>)
  BY DEF Polls!PerfArm, Polls!PerfFreeze, Polls!PerfRecord, Polls!dieVars
<1>2. Polls!ArmedIsCleared'
  BY <1>0, <1>1 DEF Polls!IInv, Polls!TypeOK, Polls!ArmedIsCleared, Polls!PerfArm, Polls!PerfFreeze, Polls!PerfRecord,
     Polls!PerfCtrl
<1>3. Polls!WindowWasCleared'
  <2>1. CASE UNCHANGED v15
    BY <1>1, <2>1 DEF Polls!IInv, Polls!WindowWasCleared, Polls!None
  <2>2. CASE Polls!PerfRecord
    <3>1. v15' = Polls!PerfWindow /\ v3 = "frozen"
      BY <2>2 DEF Polls!PerfRecord
    <3> QED
      BY <1>0, <1>1, <3>1 DEF Polls!IInv, Polls!TypeOK, Polls!ArmedIsCleared, Polls!WindowWasCleared,
         Polls!PerfWindow, Polls!None
  <2> QED
    BY <2>1, <2>2 DEF Polls!PerfArm, Polls!PerfFreeze, Polls!dieVars
<1>4. Polls!PendingIsLast' /\ Polls!AnchorIsOwn' /\ Polls!CrcWasReal' /\ Polls!RateWithinProcess'
  BY <1>1 DEF Polls!IInv, Polls!PendingIsLast, Polls!AnchorIsOwn, Polls!CrcWasReal, Polls!RateWithinProcess, Polls!None
<1>5. v1' \in Nat /\ v2' \in BOOLEAN /\ v4' \in BOOLEAN /\ v7' \in Nat /\ (v2' => v1' > 0)
  BY <1>0, <1>1 DEF Polls!TypeOK
<1> QED
  BY <1>1, <1>2, <1>3, <1>4, <1>5, PollsKeep

LEMMA PollsStep == Polls!IInv /\ Polls!Next => Polls!IInv'
BY GetKeeps, PollKeeps, StreamKeeps, PerfKeeps DEF Polls!Next

LEMMA PollsStutter == Polls!IInv /\ UNCHANGED Polls!vars => Polls!IInv'
BY DEF Polls!vars, Polls!IInv, Polls!TypeOK, Polls!PendingIsLast, Polls!AnchorIsOwn, Polls!ArmedIsCleared,
       Polls!CrcWasReal, Polls!RateWithinProcess, Polls!WindowWasCleared, Polls!LatestNotLost, Polls!None

-----------------------------------------------------------------------------
(* The status words *)

LEMMA OrderIs ==
    /\ Len(Words!Order) = 4 /\ Words!Order[1] = "swi" /\ Words!Order[2] = "st"
    /\ Words!Order[3] = "rf" /\ Words!Order[4] = "wt"
BY DEF Words!Order

LEMMA RestingIs == DOMAIN Words!resting = {"at", "words", "began"} /\ Words!resting.at = 0 /\ Words!resting.words = <<>>
BY DEF Words!resting

LEMMA WordsStart == Words!Init => Words!IInv
<1> SUFFICES ASSUME Words!Init PROVE Words!IInv
  OBVIOUS
<1>1. v5.at = 0 /\ v5.words = <<>> /\ DOMAIN v5 = DOMAIN Words!resting
  BY RestingIs DEF Words!Init
<1>2. Words!TypeOK
  BY <1>1, OrderIs DEF Words!Init, Words!TypeOK, Words!States
<1>3. Words!FaultsAreSeen /\ Words!HealthyIsQuiet
  BY <1>1 DEF Words!Init, Words!FaultsAreSeen, Words!HealthyIsQuiet
<1> QED
  BY <1>2, <1>3 DEF Words!IInv

(* A word shows what its register shows, of the die as it is. *)
LEMMA WordShows ==
    ASSUME Words!TypeOK, NEW reg \in {"swi", "st", "rf", "wt"}
    PROVE  /\ Words!word(reg) \in Words!Reading
           /\ Words!word(reg).planes = v3 /\ Words!word(reg).bits = v1 \intersect Words!shows(reg)
<1>1. Words!word(reg).planes = v3 /\ Words!word(reg).bits = v1 \intersect Words!shows(reg)
  BY DEF Words!word
<1>2. Words!word(reg) \in Words!Reading
  BY DEF Words!word, Words!Reading, Words!TypeOK, Words!States
<1> QED
  BY <1>1, <1>2

LEMMA SnapshotKeeps == ASSUME Words!IInv, Words!Snapshot PROVE Words!IInv'
<1>0. Words!TypeOK
  BY DEF Words!IInv
<1>1. PICK w : w = Words!word("swi")
  OBVIOUS
<1>2. v5' = [at |-> 1, words |-> <<w>>, began |-> v1 \intersect Words!Latched] /\ UNCHANGED <<v1, v2, v3, v6>>
  BY <1>1, OrderIs DEF Words!Snapshot
<1>3. w \in Words!Reading /\ w.planes = v3 /\ w.bits = v1 \intersect Words!shows("swi")
  BY <1>0, <1>1, WordShows
<1>4. /\ DOMAIN v5' = DOMAIN Words!resting /\ v5'.at = 1 /\ v5'.began = v1 \intersect Words!Latched
      /\ v5'.words \in Seq(Words!Reading) /\ Len(v5'.words) = 1 /\ v5'.words[1] = w
  BY <1>2, <1>3, RestingIs
<1>5. Words!TypeOK'
  BY <1>0, <1>2, <1>4, OrderIs DEF Words!TypeOK, Words!Reading, Words!resting, Words!Order
<1>6. Words!FaultsAreSeen'
  <2>1. v5'.began \intersect Words!shows("swi") \subseteq w.bits
    BY <1>3, <1>4
  <2>2. Words!shows("swi")' = Words!shows("swi")
    BY <1>2 DEF Words!shows
  <2> QED
    BY <1>2, <1>3, <1>4, <2>1, <2>2, OrderIs DEF Words!FaultsAreSeen, Words!Order, Words!Latched
<1>7. Words!HealthyIsQuiet'
  BY <1>2 DEF Words!IInv, Words!HealthyIsQuiet, Words!Latched, Words!FCSM_LINK_IDLE
<1> QED
  BY <1>5, <1>6, <1>7 DEF Words!IInv

LEMMA StatusReadKeeps == ASSUME Words!IInv, Words!ReadWord PROVE Words!IInv'
<1>0. Words!TypeOK
  BY DEF Words!IInv
<1>1. PICK n, reg : n = v5.at /\ reg = Words!Order[v5.at + 1]
  OBVIOUS
<1>2. n \in 1 .. 3
  BY <1>1, OrderIs DEF Words!ReadWord, Words!read_next
<1>3. reg \in {"swi", "st", "rf", "wt"} /\ reg = Words!Order[n + 1]
  BY <1>1, <1>2, OrderIs
<1>4. PICK w : w = Words!word(reg)
  OBVIOUS
<1>5. w \in Words!Reading /\ w.planes = v3 /\ w.bits = v1 \intersect Words!shows(reg)
  BY <1>0, <1>3, <1>4, WordShows
<1>6. v5' = [v5 EXCEPT !.at = @ + 1, !.words = Append(@, w)] /\ UNCHANGED <<v1, v2, v3, v6>>
  BY <1>1, <1>4 DEF Words!ReadWord
<1>7. DOMAIN v5' = DOMAIN Words!resting /\ v5'.at = n + 1 /\ v5'.began = v5.began /\ v5'.words = Append(v5.words, w)
  BY <1>0, <1>1, <1>6, RestingIs DEF Words!TypeOK
<1>8. /\ v5'.words \in Seq(Words!Reading) /\ Len(v5'.words) = n + 1 /\ v5'.words[n + 1] = w
      /\ \A k \in 1 .. n : v5'.words[k] = v5.words[k]
  BY <1>0, <1>1, <1>2, <1>5, <1>7 DEF Words!TypeOK
<1>9. Words!TypeOK'
  <2>1. n + 1 \in 0 .. 4
    BY <1>2
  <2> QED
    BY <1>0, <1>6, <1>7, <1>8, <2>1, OrderIs DEF Words!TypeOK, Words!Reading, Words!resting, Words!Order
<1>10. Words!FaultsAreSeen'
  <2>1. /\ v5.began \subseteq v1 \intersect Words!Latched
        /\ \A k \in 1 .. n : /\ v5.words[k].planes = v3
                              /\ v5.began \intersect Words!shows(Words!Order[k]) \subseteq v5.words[k].bits
    BY <1>1, <1>2 DEF Words!IInv, Words!FaultsAreSeen
  <2>2. ASSUME NEW k \in 1 .. n + 1
        PROVE  /\ v5'.words[k].planes = v3
               /\ v5'.began \intersect Words!shows(Words!Order[k]) \subseteq v5'.words[k].bits
    <3>1. CASE k \in 1 .. n
      BY <1>7, <1>8, <2>1, <3>1
    <3>2. CASE k = n + 1
      BY <1>3, <1>5, <1>7, <1>8, <2>1, <3>2
    <3> QED
      BY <1>2, <3>1, <3>2
  <2>3. \A r : Words!shows(r)' = Words!shows(r)
    BY <1>6 DEF Words!shows
  <2> QED
    BY <1>6, <1>7, <2>1, <2>2, <2>3 DEF Words!FaultsAreSeen, Words!Order, Words!Latched
<1>11. Words!HealthyIsQuiet'
  BY <1>6 DEF Words!IInv, Words!HealthyIsQuiet, Words!Latched, Words!FCSM_LINK_IDLE
<1> QED
  BY <1>9, <1>10, <1>11 DEF Words!IInv

(* Every latched fault is in a word that is looked at. *)
LEMMA HealthyHasNone ==
    ASSUME NEW w, NEW allow, Words!evaluate(Words!decode(w), allow) = "HEALTHY"
    PROVE  /\ "regf" \in w.rf.planes /\ "witness" \in w.wt.planes /\ w.swi.fcsm = Words!FCSM_LINK_IDLE
           /\ "overrun" \notin w.st.bits /\ "tgt_ws" \notin w.rf.bits /\ "resp_err" \notin w.rf.bits
           /\ w.wt.bits \intersect Words!WITNESS_FAULTS = {}
<1> DEFINE d == Words!decode(w)
<1>1. ~Words!faults(d) /\ d.present /\ d.wt_present
  <2> HIDE DEF d
  <2> QED
    BY DEF Words!evaluate, d
<1>2. /\ d.fcsm = w.swi.fcsm /\ d.sticky = ("overrun" \in w.st.bits) /\ d.present = ("regf" \in w.rf.planes)
      /\ d.healthy_bit = ({"tgt_ws", "resp_err"} \intersect w.rf.bits = {})
      /\ d.wt_present = ("witness" \in w.wt.planes) /\ d.wt = w.wt.bits \intersect Words!WITNESS_FAULTS
  BY DEF Words!decode
<1> HIDE DEF d
<1>3. d.fcsm = Words!FCSM_LINK_IDLE /\ ~d.sticky /\ d.wt = {} /\ d.healthy_bit
  BY <1>1 DEF Words!faults
<1> QED
  BY <1>1, <1>2, <1>3

LEMMA GradeKeeps == ASSUME Words!IInv, Words!Grade PROVE Words!IInv'
<1>0. Words!TypeOK
  BY DEF Words!IInv
<1>1. PICK allow, w, label :
         /\ w = [swi |-> v5.words[1], st |-> v5.words[2], rf |-> v5.words[3], wt |-> v5.words[4]]
         /\ label = Words!evaluate(Words!decode(w), allow)
         /\ v6' = [label |-> label, rc |-> Words!exit_code(label), began |-> v5.began,
                   seen |-> UNION {w[r].bits : r \in DOMAIN w}, fcsm |-> w.swi.fcsm]
  BY DEF Words!Grade
<1>2. v5.at = 4 /\ v5' = Words!resting /\ UNCHANGED <<v1, v2, v3>>
  BY OrderIs DEF Words!Grade
<1>3. Words!TypeOK' /\ Words!FaultsAreSeen'
  BY <1>0, <1>2, RestingIs, OrderIs DEF Words!TypeOK, Words!FaultsAreSeen, Words!Reading, Words!resting, Words!Order
<1>4. v6'.label = label /\ v6'.began = v5.began /\ v6'.fcsm = w.swi.fcsm
  BY <1>1
<1>5. ASSUME label = "HEALTHY"
      PROVE  v3 = {"regf", "witness"} /\ v5.began \intersect Words!Latched = {} /\ w.swi.fcsm = Words!FCSM_LINK_IDLE
  <2>1. /\ "regf" \in w.rf.planes /\ "witness" \in w.wt.planes /\ w.swi.fcsm = Words!FCSM_LINK_IDLE
        /\ "overrun" \notin w.st.bits /\ "tgt_ws" \notin w.rf.bits /\ "resp_err" \notin w.rf.bits
        /\ w.wt.bits \intersect Words!WITNESS_FAULTS = {}
    BY <1>1, <1>5, HealthyHasNone
  <2>2. w.st = v5.words[2] /\ w.rf = v5.words[3] /\ w.wt = v5.words[4]
    BY <1>1
  <2>3. /\ w.rf.planes = v3 /\ w.wt.planes = v3
        /\ v5.began \intersect Words!shows("st") \subseteq w.st.bits
        /\ v5.began \intersect Words!shows("rf") \subseteq w.rf.bits
        /\ v5.began \intersect Words!shows("wt") \subseteq w.wt.bits
    BY <1>2, <2>2, OrderIs DEF Words!IInv, Words!FaultsAreSeen
  <2>4. v3 = {"regf", "witness"}
    BY <1>0, <2>1, <2>3, WordAssumption DEF Words!TypeOK
  <2>5. Words!Latched \subseteq Words!shows("st") \union Words!shows("rf") \union Words!shows("wt")
    BY <2>4 DEF Words!Latched, Words!shows, Words!WITNESS_FAULTS
  <2>6. ASSUME NEW b \in v5.began, b \in Words!Latched PROVE FALSE
    <3>1. b = "overrun" \/ b = "tgt_ws" \/ b = "resp_err" \/ b \in Words!WITNESS_FAULTS
      BY <2>6 DEF Words!Latched, Words!WITNESS_FAULTS
    <3>2. "overrun" \in Words!shows("st") /\ {"tgt_ws", "resp_err"} \subseteq Words!shows("rf")
          /\ Words!WITNESS_FAULTS \subseteq Words!shows("wt")
      BY <2>4 DEF Words!shows
    <3> QED
      BY <2>1, <2>3, <2>6, <3>1, <3>2
  <2> QED
    BY <2>1, <2>4, <2>6
<1>6. Words!HealthyIsQuiet'
  BY <1>2, <1>4, <1>5 DEF Words!HealthyIsQuiet, Words!Latched, Words!FCSM_LINK_IDLE
<1> QED
  BY <1>3, <1>6 DEF Words!IInv

(* The die goes on: what is latched stays. *)
LEMMA DieMoves ==
    ASSUME Words!IInv, Words!BitMoves \/ Words!FsmMoves \/ Words!Train
    PROVE  Words!IInv'
<1>0. Words!TypeOK
  BY DEF Words!IInv
<1>1. UNCHANGED <<v3, v5, v6>> /\ v6.label = "none"
  BY DEF Words!BitMoves, Words!FsmMoves, Words!Train
<1>2. v1' \subseteq Words!Latched \union Words!Live \union Words!Pressure /\ v1 \intersect Words!Latched \subseteq v1'
  BY <1>0 DEF Words!TypeOK, Words!BitMoves, Words!FsmMoves, Words!Train, Words!Latched, Words!Live, Words!Pressure
<1>3. v2' \in Words!States
  BY <1>0 DEF Words!TypeOK, Words!BitMoves, Words!FsmMoves, Words!Train, Words!States, Words!FCSM_HEALTHY
<1>4. Words!TypeOK'
  BY <1>0, <1>1, <1>2, <1>3
     DEF Words!TypeOK, Words!Reading, Words!resting, Words!Order, Words!Latched, Words!Live, Words!Pressure,
         Words!FCSM_LINK_IDLE, Words!FCSM_LINK_DATA
<1>5. Words!FaultsAreSeen'
  <2>1. \A r : Words!shows(r)' = Words!shows(r)
    BY <1>1 DEF Words!shows
  <2> QED
    BY <1>1, <1>2, <2>1 DEF Words!IInv, Words!FaultsAreSeen, Words!Order, Words!Latched
<1>6. Words!HealthyIsQuiet'
  BY <1>1 DEF Words!HealthyIsQuiet
<1> QED
  BY <1>4, <1>5, <1>6 DEF Words!IInv

LEMMA WordsStep == Words!IInv /\ Words!Next => Words!IInv'
BY SnapshotKeeps, StatusReadKeeps, GradeKeeps, DieMoves DEF Words!Next

LEMMA WordsStutter == Words!IInv /\ UNCHANGED Words!vars => Words!IInv'
BY DEF Words!vars, Words!IInv, Words!TypeOK, Words!FaultsAreSeen, Words!HealthyIsQuiet, Words!Reading, Words!resting,
       Words!Order, Words!Latched, Words!Live, Words!Pressure, Words!FCSM_LINK_IDLE, Words!FCSM_LINK_DATA, Words!shows,
       Words!WITNESS_FAULTS

(* What the tools say of one reading, bit by bit. *)
LEMMA LaneIs ==
    ASSUME Words!TypeOK
    PROVE  /\ v2 % 8 = v2 /\ Words!lane_now.fcsm = v2
           /\ Words!lane_now.lock_count = (IF "lock8" \in v1 THEN 8 ELSE 0)
           /\ Words!lane_now.cal_done = (IF "cal" \in v1 THEN 1 ELSE 0)
           /\ Words!lane_now.a2l_replay_app_valid = (IF "app_valid" \in v1 THEN 1 ELSE 0)
           /\ Words!lane_now.a2l_fc_replay_link_valid = (IF "link_valid" \in v1 THEN 1 ELSE 0)
           /\ Words!lane_now.fe_rx_is_full = (IF "fe_full" \in v1 THEN 1 ELSE 0)
<1>1. v2 % 8 = v2
  BY DEF Words!TypeOK, Words!States, Words!FCSM_HEALTHY, Words!FCSM_LINK_IDLE, Words!FCSM_LINK_DATA
<1> QED
  BY <1>1 DEF Words!lane_now, Words!decode_lane_status, Words!bit

LEMMA JamIs ==
    ASSUME Words!TypeOK
    PROVE  /\ Words!classify_jam(Words!lane_now) = "CLASSIC" <=>
                  v2 = Words!FCSM_LINK_DATA /\ "link_valid" \in v1 /\ "fe_full" \notin v1
           /\ Words!classify_jam(Words!lane_now) = "HELD-REPLAY" <=>
                  v2 = Words!FCSM_LINK_IDLE /\ "app_valid" \in v1 /\ "fe_full" \in v1
           /\ Words!classify_jam(Words!lane_now) \in {"CLASSIC", "HELD-REPLAY", "none"}
<1> DEFINE w == Words!lane_now
<1>1. /\ w.fcsm = v2 /\ (w.a2l_replay_app_valid = 1 <=> "app_valid" \in v1)
      /\ (w.a2l_fc_replay_link_valid = 1 <=> "link_valid" \in v1)
      /\ (w.fe_rx_is_full = 1 <=> "fe_full" \in v1) /\ (w.fe_rx_is_full = 0 <=> "fe_full" \notin v1)
  BY LaneIs
<1> HIDE DEF w
<1>2. Words!FCSM_LINK_IDLE # Words!FCSM_LINK_DATA
  BY DEF Words!FCSM_LINK_IDLE, Words!FCSM_LINK_DATA
<1>3. /\ Words!classify_jam(w) = "CLASSIC" <=>
                  v2 = Words!FCSM_LINK_DATA /\ "link_valid" \in v1 /\ "fe_full" \notin v1
      /\ Words!classify_jam(w) = "HELD-REPLAY" <=>
                  v2 = Words!FCSM_LINK_IDLE /\ "app_valid" \in v1 /\ "fe_full" \in v1
      /\ Words!classify_jam(w) \in {"CLASSIC", "HELD-REPLAY", "none"}
  BY <1>1, <1>2 DEF Words!classify_jam
<1> QED
  BY <1>3 DEF w

(* The monitor's verdict on a full poll. *)
LEMMA MonitorIs ==
    ASSUME Words!TypeOK
    PROVE  Words!health(Words!decode_monitor(v1, v2, {"010", "100", "108", "194"})).link_up <=>
              /\ Words!classify_jam(Words!lane_now) = "none" /\ "cal" \in v1
              /\ "lock8" \in v1 \/ v2 \in Words!FCSM_HEALTHY
<1> DEFINE dec == Words!decode_monitor(v1, v2, {"010", "100", "108", "194"})
           w == Words!lane_now
<1>1. dec.lane = <<w>>
  BY DEF Words!decode_monitor, Words!lane_now
<1>2. w.fcsm = v2 /\ (w.cal_done = 1 <=> "cal" \in v1) /\ (w.lock_count = 8 <=> "lock8" \in v1)
  BY LaneIs
<1> HIDE DEF dec, w
<1>3. dec.lane # <<>> /\ dec.lane[1] = w
  BY <1>1
<1>4. Words!health(dec).link_up <=>
         /\ Words!classify_jam(w) = "none"
         /\ (w.cal_done = 1 /\ w.lock_count = 8) \/ (w.cal_done = 1 /\ w.fcsm \in Words!FCSM_HEALTHY)
  BY <1>3 DEF Words!health
<1> QED
  BY <1>2, <1>4 DEF dec, w

(* The corner tests' gate. *)
LEMMA GateIs ==
    /\ Words!gate_or_ladder(v1, v2, v3).rung = 3 <=> "fe_full" \in v1
    /\ Words!gate_or_ladder(v1, v2, v3).rung \in 0 .. 3
    /\ Words!gate_or_ladder(v1, v2, v3).ok <=>
          /\ v2 = Words!FCSM_LINK_IDLE /\ "cal" \in v1 /\ "overrun" \notin v1 /\ "fe_full" \notin v1
          /\ "regf" \in v3 => "tgt_ws" \notin v1 /\ "resp_err" \notin v1 /\ "tgt_live" \notin v1
<1> DEFINE h == Words!snap_health(v1, v2, v3)
           cls == Words!classify_wedge(h)
<1>1. /\ h.link_up = (v2 = Words!FCSM_LINK_IDLE /\ "cal" \in v1) /\ h.sticky = ("overrun" \in v1)
      /\ h.fe_rx_full = ("fe_full" \in v1) /\ h.regf_present = ("regf" \in v3)
      /\ h.wsticky = ("tgt_ws" \in v1) /\ h.live = ("tgt_live" \in v1) /\ h.resperr = ("resp_err" \in v1)
      /\ h.data_healthy = ({"tgt_ws", "resp_err"} \intersect v1 = {})
  BY DEF Words!snap_health
<1>2. /\ Words!gate_or_ladder(v1, v2, v3).ok = (cls = "NONE" /\ Words!health_ok(h))
      /\ Words!gate_or_ladder(v1, v2, v3).rung = Words!recovery_ladder(cls)
  BY DEF Words!gate_or_ladder
<1> HIDE DEF h
<1>3. /\ cls \in {"CLASSIC", "AXI_WEDGE", "HELD_REPLAY", "NONE"}
      /\ cls = "CLASSIC" <=> h.fe_rx_full
      /\ cls = "NONE" <=> /\ ~h.fe_rx_full /\ ~h.sticky
                           /\ ~(h.regf_present /\ (h.wsticky \/ h.live \/ h.resperr))
  BY <1>1 DEF Words!classify_wedge
<1> HIDE DEF cls
<1>4. Words!recovery_ladder(cls) \in 0 .. 3 /\ (Words!recovery_ladder(cls) = 3 <=> cls = "CLASSIC")
  BY <1>3 DEF Words!recovery_ladder
<1>5. (cls = "NONE" /\ Words!health_ok(h)) <=>
         /\ h.link_up /\ ~h.fe_rx_full /\ ~h.sticky
         /\ h.regf_present => ~h.wsticky /\ ~h.live /\ ~h.resperr /\ h.data_healthy
  BY <1>1, <1>3 DEF Words!health_ok
<1>6. h.data_healthy <=> "tgt_ws" \notin v1 /\ "resp_err" \notin v1
  BY <1>1
<1> QED
  BY <1>1, <1>2, <1>3, <1>4, <1>5, <1>6

(* What health_snapshot says of words read all at once. *)
LEMMA SnapshotIs ==
    ASSUME Words!TypeOK, Words!evaluate(Words!decode(Words!words_now), {}) = "HEALTHY"
    PROVE  /\ v2 = Words!FCSM_LINK_IDLE /\ "cal" \in v1 /\ "overrun" \notin v1 /\ "fe_full" \notin v1
           /\ "tgt_ws" \notin v1 /\ "resp_err" \notin v1
<1> DEFINE w == Words!words_now
           d == Words!decode(w)
<1>1. ~Words!faults(d) /\ d.present
  <2> HIDE DEF d
  <2> QED
    BY DEF Words!evaluate, d
<1>2. w.swi = Words!word("swi") /\ w.st = Words!word("st") /\ w.rf = Words!word("rf")
  BY DEF Words!words_now
<1>3. /\ w.swi.fcsm = v2 /\ w.swi.bits = v1 \intersect {"cal", "lock8", "app_valid", "link_valid", "fe_full"}
      /\ w.st.bits = v1 \intersect {"overrun"} /\ w.rf.planes = v3
      /\ "regf" \in v3 => w.rf.bits = v1 \intersect {"tgt_ws", "resp_err", "tgt_live"}
  <2> HIDE DEF w
  <2> QED
    BY <1>2 DEF Words!word, Words!shows
<1>4. /\ d.fcsm = w.swi.fcsm /\ d.cal = ("cal" \in w.swi.bits) /\ d.fe_full = ("fe_full" \in w.swi.bits)
      /\ d.sticky = ("overrun" \in w.st.bits) /\ d.present = ("regf" \in w.rf.planes)
      /\ d.healthy_bit = ({"tgt_ws", "resp_err"} \intersect w.rf.bits = {})
  <2> HIDE DEF w
  <2> QED
    BY DEF Words!decode
<1> HIDE DEF d, w
<1>5. d.fcsm = Words!FCSM_LINK_IDLE /\ d.cal /\ ~d.sticky /\ ~d.fe_full /\ d.healthy_bit
  BY <1>1 DEF Words!faults
<1> QED
  BY <1>1, <1>3, <1>4, <1>5

LEMMA ToolsDoAgree == ASSUME Words!TypeOK PROVE Words!ToolsAgree
<1> DEFINE up == Words!health(Words!decode_monitor(v1, v2, {"010", "100", "108", "194"})).link_up
           gate == Words!gate_or_ladder(v1, v2, v3)
           jam == Words!classify_jam(Words!lane_now)
<1>0. Words!FCSM_LINK_IDLE # Words!FCSM_LINK_DATA /\ Words!FCSM_LINK_IDLE \in Words!FCSM_HEALTHY
  BY DEF Words!FCSM_LINK_IDLE, Words!FCSM_LINK_DATA, Words!FCSM_HEALTHY
<1>1. Words!evaluate(Words!decode(Words!words_now), {}) = "HEALTHY" => up /\ (gate.ok \/ "tgt_live" \in v1)
  BY <1>0, SnapshotIs, MonitorIs, GateIs, JamIs
<1>2. Words!verify_link_up(Words!lane_now, Words!lane_now) /\ jam = "none" => up
  <2>1. /\ Words!lane_now.lock_count = 8 <=> "lock8" \in v1
        /\ Words!lane_now.cal_done = 1 <=> "cal" \in v1 
        /\ Words!lane_now.fcsm = v2
    BY LaneIs
  <2> QED
    BY <2>1, MonitorIs DEF Words!verify_link_up
<1>3. (jam = "HELD-REPLAY" => gate.rung = 3) /\ (jam = "CLASSIC" => gate.rung < 3)
  <2>1. (jam = "HELD-REPLAY" => "fe_full" \in v1) /\ (jam = "CLASSIC" => "fe_full" \notin v1)
    BY JamIs
  <2>2. ("fe_full" \in v1 => gate.rung = 3) /\ ("fe_full" \notin v1 => gate.rung < 3)
    BY GateIs
  <2> QED
    BY <2>1, <2>2
<1>4. gate.ok => up
  BY <1>0, MonitorIs, GateIs, JamIs
<1>5. Words!parse_lane_status(v1, v2).fcsm_state # Words!lane_now.fcsm => "app_valid" \in v1
  <2>1. Words!lane_now.fcsm = v2 /\ v2 % 8 = v2 /\ v2 \in Nat
    BY LaneIs DEF Words!TypeOK, Words!States, Words!FCSM_HEALTHY, Words!FCSM_LINK_IDLE, Words!FCSM_LINK_DATA
  <2>2. Words!parse_lane_status(v1, v2).fcsm_state = (v2 % 8) + 8 * Words!bit("app_valid" \in v1)
    BY DEF Words!parse_lane_status, Words!fcsm_state
  <2>3. "app_valid" \notin v1 => Words!bit("app_valid" \in v1) = 0
    BY DEF Words!bit
  <2> QED
    BY <2>1, <2>2, <2>3
<1>6. Words!lane_now.fcsm \in Words!FCSM_HEALTHY => Words!packet_fcsm_alarm(Words!parse_lane_status(v1, v2))
  <2> SUFFICES ASSUME Words!lane_now.fcsm \in Words!FCSM_HEALTHY
               PROVE  ~Words!parse_lane_status(v1, v2).link_idle
    BY DEF Words!packet_fcsm_alarm
  <2>1. v2 % 8 = v2 /\ v2 \in {4, 5}
    BY LaneIs DEF Words!FCSM_HEALTHY, Words!FCSM_LINK_IDLE, Words!FCSM_LINK_DATA
  <2>2. Words!bit("app_valid" \in v1) \in {0, 1}
    BY DEF Words!bit
  <2>3. Words!fcsm_state(v1, v2) # 0
    <3>1. PICK c \in {0, 1} : c = Words!bit("app_valid" \in v1)
      BY <2>2
    <3>2. Words!fcsm_state(v1, v2) = v2 + 8 * c
      BY <2>1, <3>1 DEF Words!fcsm_state
    <3> QED
      BY <2>1, <3>2
  <2> QED
    BY <2>3 DEF Words!parse_lane_status
<1> QED
  BY <1>1, <1>2, <1>3, <1>4, <1>5, <1>6 DEF Words!ToolsAgree

-----------------------------------------------------------------------------
(* The tools together: a behaviour is that of one of them. *)

ToolsInv ==
    /\ which = "autoneg" => Nego!IInv
    /\ which = "packets" => Pkt!IInv
    /\ which = "perf" => Perf!IInv
    /\ which = "bump" => Bump!IInv
    /\ which = "gate" => Gate!IInv
    /\ which = "artifacts" => Art!IInv /\ v10 \in Nat
    /\ which = "coverage" => Cov!IInv
    /\ which = "runs" => Runs!IInv
    /\ which = "access" => Access!IInv
    /\ which = "polls" => Polls!IInv
    /\ which = "words" => Words!IInv

(* Whichever tool a behaviour is of, its invariant always holds. *)
THEOREM ToolsInvAlways == Spec => []ToolsInv
<1>1. Init => ToolsInv
  <2>1. Art!Init => v10 \in Nat
    BY DEF Art!Init
  <2> QED
    BY <2>1, NegoStarts, PktStarts, PerfStarts, BumpStarts, GateStarts, ArtStarts, CovStarts, RunsStart,
       AccessStarts, PollsStart, WordsStart DEF Init, ToolsInv
<1>2. ToolsInv /\ [Next]_all => ToolsInv'
  <2> SUFFICES ASSUME ToolsInv, [Next]_all PROVE ToolsInv'
    OBVIOUS
  <2>1. CASE which = "autoneg" /\ Nego!Next /\ UNCHANGED which
    BY <2>1, NegoStep DEF ToolsInv
  <2>2. CASE which = "packets" /\ Pkt!Next /\ UNCHANGED which
    BY <2>2, PktStep DEF ToolsInv
  <2>3. CASE which = "perf" /\ Perf!Next /\ UNCHANGED which
    BY <2>3, PerfStep DEF ToolsInv
  <2>4. CASE which = "bump" /\ Bump!Next /\ UNCHANGED which
    BY <2>4, BumpStep DEF ToolsInv
  <2>5. CASE which = "gate" /\ Gate!Next /\ UNCHANGED which
    BY <2>5, GateStep DEF ToolsInv
  <2>6. CASE which = "artifacts" /\ Art!Next /\ UNCHANGED which
    BY <2>6, ArtStep, BlobsAreImmutable DEF ToolsInv
  <2>7. CASE which = "coverage" /\ Cov!Next /\ UNCHANGED which
    BY <2>7, CovStep DEF ToolsInv
  <2>8. CASE which = "runs" /\ Runs!Next /\ UNCHANGED which
    BY <2>8, RunsStep DEF ToolsInv
  <2>9. CASE which = "access" /\ Access!Next /\ UNCHANGED which
    BY <2>9, AccessStep DEF ToolsInv
  <2>10. CASE which = "polls" /\ Polls!Next /\ UNCHANGED which
    BY <2>10, PollsStep DEF ToolsInv
  <2>11. CASE which = "words" /\ Words!Next /\ UNCHANGED which
    BY <2>11, WordsStep DEF ToolsInv
  <2>12. CASE UNCHANGED all
    <3>1. UNCHANGED <<which, v1, v2, v3, v4, v5, v6, v7, v8, v9, v10, v11, v12, v13, v14, v15, v16, v17>>
      BY <2>12 DEF all, Rest5, Rest6, Rest7, Rest8, Rest9, Rest10, Rest11, Rest12, Rest13, Rest14, Rest15,
                   Rest16, Rest17
    <3>2. which = "autoneg" => Nego!IInv'
      BY <3>1, NegoStep DEF ToolsInv, Nego!vars
    <3>3. which = "packets" => Pkt!IInv'
      BY <3>1, PktStutters DEF ToolsInv, Pkt!vars
    <3>4. which = "perf" => Perf!IInv'
      BY <3>1, PerfStutters DEF ToolsInv, Perf!vars
    <3>5. which = "bump" => Bump!IInv'
      BY <3>1, BumpStutters DEF ToolsInv, Bump!vars
    <3>6. which = "gate" => Gate!IInv'
      BY <3>1, GateStutters DEF ToolsInv, Gate!vars
    <3>7. which = "artifacts" => Art!IInv' /\ v10' \in Nat
      BY <3>1, ArtStutters DEF ToolsInv, Art!vars
    <3>8. which = "coverage" => Cov!IInv'
      BY <3>1, CovStutters DEF ToolsInv
    <3>9. which = "runs" => Runs!IInv'
      BY <3>1, RunsStutter DEF ToolsInv
    <3>10. which = "access" => Access!IInv'
      BY <3>1, AccessStutters DEF ToolsInv, Access!vars
    <3>11. which = "polls" => Polls!IInv'
      BY <3>1, PollsStutter DEF ToolsInv, Polls!vars
    <3>12. which = "words" => Words!IInv'
      BY <3>1, WordsStutter DEF ToolsInv, Words!vars
    <3> QED
      BY <3>1, <3>2, <3>3, <3>4, <3>5, <3>6, <3>7, <3>8, <3>9, <3>10, <3>11, <3>12 DEF ToolsInv
  <2> QED
    BY <2>1, <2>2, <2>3, <2>4, <2>5, <2>6, <2>7, <2>8, <2>9, <2>10, <2>11, <2>12 DEF Next
<1> QED
  BY <1>1, <1>2, PTL DEF Spec

(* tidelink_autoneg.sv, the role registers and tidelink_chiplet_ctrl.c:    *)
(* whatever the sideband loses and whenever software locks a role, two     *)
(* dies that negotiate are never both master, and a verified mask agrees.  *)
THEOREM RolesAgreeAlways == Spec => []RolesAgree
<1>1. ToolsInv => RolesAgree
  BY NegoAgrees DEF ToolsInv, RolesAgree
<1> QED
  BY <1>1, ToolsInvAlways, PTL

(* tidelink.c, packet.py and tidelink_perf.c: packets come back word for   *)
(* word and in order, a snapshot is of one instant, latencies are times,   *)
(* for packets of any length and times of any size.                        *)
THEOREM DriversExactAlways == Spec => []DriversExact
<1>1. ToolsInv => DriversExact
  BY PktExact DEF ToolsInv, DriversExact, Perf!IInv
<1> QED
  BY <1>1, ToolsInvAlways, PTL

(* bump_check.py, sim_gate.py and the Makefile's regression: whatever a    *)
(* push moves and its manifests declare, the first move of a pointer to a  *)
(* commit that the check lets through was answered for as that very move,  *)
(* or ran what it needs; a green gate with a clean stamp                   *)
(* ran every suite on that commit, whatever is edited meanwhile, and a     *)
(* suite it calls red was launched, whatever the file lists include.       *)
THEOREM GatesAreBackedAlways == Spec => []GatesAreBacked
<1>1. ToolsInv => GatesAreBacked
  BY GateBacks DEF ToolsInv, GatesAreBacked, Bump!IInv
<1> QED
  BY <1>1, ToolsInvAlways, PTL

(* td_artifact.py and deploy_pair.sh, the coverage flow's scripts, store.py *)
(* and compare.py: whatever agents add, collect and deploy at once and      *)
(* wherever they are killed, a deployment that ends with 0 flashed what its *)
(* label named; a published manifest has all its files and a pass compares  *)
(* clean trees of one scope; an index row follows its record; and, of any   *)
(* number of runs and versions, a delta between runs that differ is said to *)
(* be confounded.                                                           *)
THEOREM StoresAreWholeAlways == Spec => []StoresAreWhole
<1>1. ToolsInv => StoresAreWhole
  BY CovAnchors, ConfoundIsSaid DEF ToolsInv, StoresAreWhole, Art!IInv, Runs!IInv
<1> QED
  BY <1>1, ToolsInvAlways, PTL

(* tl_socmap.py, the guards of the tools and the overlays: on a Pynq-Z2 as  *)
(* on a KR260, whatever the environment says and whatever image the PL      *)
(* holds, a tool hangs its board only if the environment names the other    *)
(* board or, on a KR260, none (and tl39 with tl_socmap.py not even then, if *)
(* an address gives it away), if the image is not the tool's, or if it was  *)
(* given a name letter for letter wrong; the agent never without an image.  *)
THEOREM AccessGuardedAlways == Spec => []AccessGuarded
<1>1. ToolsInv => AccessGuarded
  BY DEF ToolsInv, AccessGuarded, Access!IInv
<1> QED
  BY <1>1, ToolsInvAlways, PTL

(* The monitor's polls and streams and the tools' status words: a snapshot  *)
(* graded healthy saw none of the faults that stood throughout it; the GUI, *)
(* the snapshot and the corner tests say the same of every word, and the    *)
(* stress toolkit, which takes another state for the idle one, alarms on    *)
(* every link whose state they call healthy; a CRC rise did happen, a rate  *)
(* is of one agent process, a PERF window begins with cleared counters, and *)
(* a full queue never loses the newest state, for queues of any length.     *)
THEOREM ReadingsAreTrueAlways == Spec => []ReadingsAreTrue
<1>1. ToolsInv => ReadingsAreTrue
  BY ToolsDoAgree DEF ToolsInv, ReadingsAreTrue, Words!IInv, Polls!IInv
<1> QED
  BY <1>1, ToolsInvAlways, PTL

(* td_artifact.py's write-once blobs, store.py's COALESCE and overlay.py's  *)
(* lock_role: no step of any agent rewrites a stored file, none of any      *)
(* server blanks a column another has filled, and a role locks only over    *)
(* the phase it needs.                                                      *)
THEOREM NeverUndoneAlways == Spec => NeverUndone
<1> DEFINE Kept == /\ which = "artifacts" => Art!BlobsImmutable
                   /\ which = "runs" => Runs!ColumnsKept
                   /\ which = "access" => Access!PhaseBeforeLock
<1>1. ToolsInv /\ [Next]_all => [Kept]_all
  <2> SUFFICES ASSUME ToolsInv, Next PROVE Kept
    OBVIOUS
  <2>1. CASE which = "artifacts" /\ Art!Next
    BY <2>1, BlobsAreImmutable DEF ToolsInv
  <2>2. CASE which = "runs" /\ Runs!Next
    BY <2>2, ColumnsAreKept DEF ToolsInv
  <2>3. CASE which = "access" /\ Access!Next
    BY <2>3, LockIsPhased DEF ToolsInv
  <2>4. CASE which \notin {"artifacts", "runs", "access"}
    BY <2>4
  <2> QED
    BY <2>1, <2>2, <2>3, <2>4 DEF Next
<1>2. Spec => [][Next]_all
  BY PTL DEF Spec
<1>3. Spec => [][Kept]_all
  BY <1>1, <1>2, ToolsInvAlways, PTL
<1> QED
  BY <1>3 DEF NeverUndone
=============================================================================

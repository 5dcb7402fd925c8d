------------------------------ MODULE RxTools ------------------------------
(***************************************************************************)
(* The command-line tools that move packets by hand.                       *)
(*                                                                         *)
(* A sender on die_a stores words into the TX aperture; they cross the     *)
(* link in order and land in die_b's receive FIFO, where a word at offset  *)
(* 0 opens a packet and the word at offset len+1 commits it.  A receiver   *)
(* reads the FIFO: a read of offset 0 arms the length, the read of offset  *)
(* len+1 pops, and what is popped is returned to the sender's pair credit  *)
(* counter once it reaches the release threshold.  Nothing in hardware     *)
(* stops a store the FIFO has no room for: the tools must.                 *)
(*                                                                         *)
(* Senders: kr260_credit_tx, tlchar stream, kr260_onchip_soak.             *)
(* Receivers: kr260_drain, tl39/tlfifo drain, kr260_data_rx, tlchar drain. *)
(***************************************************************************)
EXTENDS Integers, Sequences, FiniteSets, Folds

CONSTANTS
    Kinds,       \* which tools are used together in one behaviour
    Lens,        \* the payload lengths given on the command line
    MaxCredits,  \* words the receive FIFO holds
    Threshold,   \* the power-on release threshold
    Count,       \* packets of a session
    Late,        \* packets the link may hold for more than half a second
    MaxSessions  \* sessions of a behaviour

VARIABLES
    kinds,    \* the tools of this behaviour
    link,     \* words between the dies, with the offset they were stored at
    fifo,     \* committed packets of die_b, the head first
    wside,    \* the packet die_b is receiving
    over,     \* a word arrived that the FIFO had no room for
    thr,      \* die_b's release threshold
    rel,      \* freed credit not yet returned
    ret,      \* returned credit on its way to die_a
    pair,     \* die_a's pair credit counter
    tx,       \* the sender: tool, session, packets sent, length, words stored without credit
    rx,       \* the receiver's tallies
    out       \* results of finished tools

vars == <<kinds, link, fifo, wside, over, thr, rel, ret, pair, tx, rx, out>>

quiet == [open |-> FALSE, len |-> 0, vals |-> <<>>]
off == [tool |-> "off", ses |-> 0, sent |-> 0, len |-> 2, pc |-> "off", free |-> 0]
zero == [good |-> 0, bad |-> 0, drained |-> 0, mine |-> 0]

Init ==
    /\ kinds \in Kinds
    /\ link = <<>> /\ fifo = <<>> /\ wside = quiet /\ over = FALSE
    /\ thr = Threshold /\ rel = 0 /\ ret = 0 /\ pair = 0
    /\ tx = off /\ rx = zero /\ out = {}

-----------------------------------------------------------------------------
(* The receive FIFO and the credit loop *)

occupied ==
    MapThenFoldSet(LAMBDA a, b : a + b, 0, LAMBDA k : fifo[k].len + 2, LAMBDA S : CHOOSE k \in S : TRUE, DOMAIN fifo)
room == MaxCredits - occupied
avail == fifo # <<>>

word(o, l, v) == [off |-> o, len |-> l, val |-> v]

(* A word lands at its offset. *)
Arrive ==
    /\ link # <<>>
    /\ LET w == Head(link)
           now == IF w.off = 0 THEN [open |-> TRUE, len |-> w.len, vals |-> <<w.val>>]
                  ELSE IF wside.open THEN [wside EXCEPT !.vals = Append(@, w.val)] ELSE wside
           done == now.open /\ w.off = now.len + 1
       IN  /\ link' = Tail(link)
           /\ fifo' = IF done THEN Append(fifo, [len |-> now.len, vals |-> now.vals]) ELSE fifo
           /\ wside' = IF done THEN quiet ELSE now
           /\ over' = (over \/ (now.open /\ w.off >= room))
    /\ UNCHANGED <<kinds, thr, rel, ret, pair, tx, rx, out>>

(* A packet is corrupted on the link and never arrives. *)
Lose ==
    /\ link # <<>> /\ Head(link).off = 0 /\ Head(link).len = 2
    /\ link' = SubSeq(link, 5, Len(link))
    /\ UNCHANGED <<kinds, fifo, wside, over, thr, rel, ret, pair, tx, rx, out>>

CreditReturns ==
    /\ ret > 0 /\ ret' = 0 /\ pair' = pair + ret
    /\ UNCHANGED <<kinds, link, fifo, wside, over, thr, rel, tx, rx, out>>

(* Popping the head frees its words; they are returned at the threshold. *)
Pop ==
    LET freed == rel + Head(fifo).len + 2
        fires == thr = 0 \/ freed >= thr
    IN  /\ fifo' = Tail(fifo)
        /\ rel' = IF fires THEN 0 ELSE freed
        /\ ret' = IF fires THEN ret + freed ELSE ret

tag(p) == IF Len(p.vals) >= 3 THEN p.vals[3].tag ELSE 0

(* The header, the destination, the tag and its complement: four words     *)
(* whatever the length, at consecutive offsets.                            *)
send_packet(t, len) ==
    LET v == [tag |-> t, ses |-> tx.ses]
    IN  <<word(0, len, v), word(1, 0, v), word(2, 0, v), word(3, 0, v)>>

-----------------------------------------------------------------------------
(* kr260_credit_tx with kr260_drain, tlfifo or tl39 on the receiving die *)

CreditStart ==
    /\ tx.pc = "off" /\ tx.ses < MaxSessions /\ "credit_tx" \in kinds
    /\ \E l \in Lens, setup \in BOOLEAN :
        /\ tx' = [tool |-> "credit_tx", ses |-> tx.ses + 1, sent |-> 0, len |-> l, pc |-> "send", free |-> tx.free]
        /\ thr' = IF setup THEN 0 ELSE thr
    /\ UNCHANGED <<kinds, link, fifo, wside, over, rel, ret, pair, rx, out>>

enough(n) == pair >= n

(* The tags count up from the start the operator gives; the soak's from    *)
(* 0x10000000.  The operator's are taken to lie beyond the soak's.         *)
start == Count

CreditSend ==
    /\ tx.tool = "credit_tx" /\ tx.pc = "send" /\ tx.sent < Count
    /\ enough(tx.len + 2)
    /\ link' = link \o send_packet(start + tx.sent + 1, tx.len)
    /\ pair' = IF pair >= tx.len + 2 THEN pair - (tx.len + 2) ELSE 0
    /\ tx' = [tx EXCEPT !.sent = @ + 1]
    /\ UNCHANGED <<kinds, fifo, wside, over, thr, rel, ret, rx, out>>

(* All sent, or credit did not come back in time: STALL. *)
CreditEnd ==
    /\ tx.tool = "credit_tx" /\ tx.pc = "send"
    /\ tx.sent = Count \/ ~enough(tx.len + 2)
    /\ out' = out \cup {[tool |-> "credit_tx", rc |-> IF tx.sent = Count THEN 0 ELSE 2,
                          good |-> 0, mine |-> 0]}
    /\ tx' = [tx EXCEPT !.pc = "off"]
    /\ UNCHANGED <<kinds, link, fifo, wside, over, thr, rel, ret, pair, rx>>

(* One packet is popped: offset 0 first, then in order to the last word.   *)
drain_one == avail /\ Pop

Drain ==
    /\ "credit_tx" \in kinds /\ tx.tool # "soak" /\ drain_one
    /\ UNCHANGED <<kinds, link, wside, over, thr, pair, tx, rx, out>>

(* CTRL.FLUSH empties the FIFO and forgets freed credit. *)
Flush ==
    /\ fifo' = <<>> /\ wside' = quiet /\ rel' = 0 /\ over' = FALSE

(* kr260_data_rx check: n slots of four words at a fixed stride.  Reading   *)
(* the first slot pops the head, so the later slots are one packet on.      *)
strided(n) == [k \in 1..n |-> LET i == IF k = 1 THEN 1 ELSE k + 1
                              IN  IF i <= Len(fifo) THEN tag(fifo[i]) ELSE 0]

(* How many of the expected tags a forward scan finds. *)
found_in(got, expected) ==
    LET upto[k \in 0..Len(expected)] ==
            IF k = 0 THEN [at |-> 1, n |-> 0]
            ELSE LET acc == upto[k - 1]
                     hits == {j \in acc.at..Len(got) : got[j] = expected[k]}
                 IN  IF hits = {} THEN [at |-> Len(got) + 1, n |-> acc.n]
                     ELSE [at |-> (CHOOSE j \in hits : \A h \in hits : j <= h) + 1, n |-> acc.n + 1]
    IN  upto[Len(expected)].n

Check ==
    /\ "strided" \in kinds /\ avail
    /\ LET expected == [i \in 1..Len(fifo) |-> tag(fifo[i])]
           n == found_in(strided(Len(fifo) + 8), expected)
       IN  out' = out \cup {[tool |-> "check", rc |-> IF n = Len(expected) THEN 0 ELSE 1,
                              good |-> n, mine |-> Len(expected)]}
    /\ Pop
    /\ UNCHANGED <<kinds, link, wside, over, thr, pair, tx, rx>>

-----------------------------------------------------------------------------
(* kr260_onchip_soak: both dies from one processor *)

SoakSetup ==
    /\ tx.pc = "off" /\ tx.ses < MaxSessions /\ "soak" \in kinds
    /\ \E l \in Lens : tx' = [tool |-> "soak", ses |-> tx.ses + 1, sent |-> 0, len |-> l, pc |-> "send", free |-> tx.free]
    /\ thr' = 0 /\ Flush /\ rx' = zero
    /\ UNCHANGED <<kinds, link, ret, pair, out>>

gated(n) == room >= n

(* Two seconds without room: the loop stops. *)
SoakSend ==
    /\ tx.tool = "soak" /\ tx.pc = "send" /\ tx.sent < Count
    /\ link' = IF gated(tx.len + 2) THEN link \o send_packet(tx.sent + 1, tx.len) ELSE link
    /\ tx' = IF gated(tx.len + 2) THEN [tx EXCEPT !.sent = @ + 1, !.pc = "wait", !.free = @ + tx.len + 2]
             ELSE [tx EXCEPT !.pc = "stall"]
    /\ UNCHANGED <<kinds, fifo, wside, over, thr, rel, ret, pair, rx, out>>

(* The packet that is popped is compared with the one that is due. *)
scored(due) ==
    LET ok == tag(Head(fifo)) = due
    IN  [rx EXCEPT !.drained = @ + 1, !.good = IF ok THEN @ + 1 ELSE @,
                   !.bad = IF ok THEN @ ELSE @ + 1,
                   !.mine = IF Head(fifo).vals[1].ses = tx.ses THEN @ + 1 ELSE @]

SoakDrain ==
    /\ tx.tool = "soak" /\ tx.pc = "wait" /\ drain_one
    /\ rx' = scored(tx.sent)
    /\ tx' = [tx EXCEPT !.pc = "send"]
    /\ UNCHANGED <<kinds, link, wside, over, thr, pair, out>>

(* Half a second went by without a packet; at most Late packets are late.  *)
SoakGiveUp ==
    /\ tx.tool = "soak" /\ tx.pc = "wait" /\ ~avail /\ Len(link) <= 4 * Late
    /\ tx' = [tx EXCEPT !.pc = "send"]
    /\ UNCHANGED <<kinds, link, fifo, wside, over, thr, rel, ret, pair, rx, out>>

looped == tx.tool = "soak" /\ (tx.pc = "stall" \/ (tx.pc = "send" /\ tx.sent = Count))

SoakStraggler ==
    /\ looped /\ drain_one
    /\ rx' = scored(1 + rx.good + rx.bad)
    /\ UNCHANGED <<kinds, link, wside, over, thr, pair, tx, out>>

SoakEnd ==
    /\ looped /\ ~avail
    /\ out' = out \cup {[tool |-> "soak", good |-> rx.good, mine |-> rx.mine,
                          rc |-> IF rx.bad = 0 /\ rx.good = tx.sent /\ tx.pc = "send" THEN 0 ELSE 1]}
    /\ tx' = [tx EXCEPT !.pc = "off"]
    /\ UNCHANGED <<kinds, link, fifo, wside, over, thr, rel, ret, pair, rx>>

-----------------------------------------------------------------------------
(* tlchar: stream on the master, drain or respond on the peer *)

StreamStart ==
    /\ tx.pc = "off" /\ tx.ses < MaxSessions /\ "tlchar" \in kinds
    /\ \E l \in Lens : tx' = [tool |-> "stream", ses |-> tx.ses + 1, sent |-> 0, len |-> l, pc |-> "send", free |-> tx.free]
    /\ UNCHANGED <<kinds, link, fifo, wside, over, thr, rel, ret, pair, rx, out>>

(* Every word of the packet is stored at the aperture's base. *)
Stream ==
    /\ tx.tool = "stream" /\ tx.pc = "send" /\ tx.sent < Count
    /\ pair >= tx.len + 2
    /\ link' = link \o [i \in 1..(tx.len + 2) |->
                          word(0, IF i = 1 THEN tx.len ELSE MaxCredits, [tag |-> tx.sent + 1, ses |-> tx.ses])]
    /\ pair' = pair - (tx.len + 2)
    /\ tx' = [tx EXCEPT !.sent = @ + 1]
    /\ UNCHANGED <<kinds, fifo, wside, over, thr, rel, ret, rx, out>>

StreamEnd ==
    /\ tx.tool = "stream" /\ tx.pc = "send" /\ (tx.sent = Count \/ pair < tx.len + 2)
    /\ tx' = [tx EXCEPT !.pc = "off"]
    /\ UNCHANGED <<kinds, link, fifo, wside, over, thr, rel, ret, pair, rx, out>>

(* seed: after power-on the peer's FIFO size is added to the counter by    *)
(* hand, once.                                                             *)
Seed ==
    /\ tx.ses = 0 /\ pair = 0
    /\ pair' = pair + MaxCredits
    /\ UNCHANGED <<kinds, link, fifo, wside, over, thr, rel, ret, tx, rx, out>>

(* drain and respond read the base of the window once for every occupied   *)
(* word: offset 0, again and again.                                        *)
TlcharDrain ==
    /\ "tlchar" \in kinds /\ occupied > 0
    /\ rx' = [rx EXCEPT !.drained = (@ + occupied) % (2 * MaxCredits)]
    /\ UNCHANGED <<kinds, link, fifo, wside, over, thr, rel, ret, pair, tx, out>>

Next ==
    \/ Arrive \/ Lose \/ CreditReturns
    \/ CreditStart \/ CreditSend \/ CreditEnd \/ Drain \/ Check
    \/ SoakSetup \/ SoakSend \/ SoakDrain \/ SoakGiveUp \/ SoakStraggler \/ SoakEnd
    \/ StreamStart \/ Stream \/ StreamEnd \/ Seed \/ TlcharDrain

Spec == Init /\ [][Next]_vars

-----------------------------------------------------------------------------
(* No tool stores a word the peer's FIFO has no room for, whatever is lost, *)
(* drained late or returned late: "the loop refuses to blind-write, so it   *)
(* stalls, not wedges" (kr260_credit_tx).  The credit loop keeps the pair   *)
(* counter, the words under way and the peer's occupancy within the FIFO    *)
(* as long as every sender spends credit.  kr260_onchip_soak looks at the   *)
(* peer's room instead and spends none, yet the peer returns credit for     *)
(* what it pops: by itself it is safe, used in turn with a credit-gated     *)
(* sender it is not, and only then can a word find no room.                 *)
NoOverrun == over => tx.free > 0 /\ kinds # {"soak"}

(* A soak that exits 0 popped its own session's packets, each once and in   *)
(* order: a packet left over from an earlier session, of a soak or with the *)
(* tags of another sender, or one that was lost, cannot make up the numbers.*)
PassIsOwn == \A r \in out : r.tool = "soak" /\ r.rc = 0 => r.mine = Count /\ r.good = Count

=============================================================================

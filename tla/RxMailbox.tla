----------------------------- MODULE RxMailbox ------------------------------
(***************************************************************************)
(* What the receive FIFO promises its reader: a bounded queue of whole     *)
(* packets.  A packet's words arrive one at a time; it joins the queue     *)
(* when its last word has arrived and leaves it, whole and in order, when  *)
(* the reader has drained it.  A flush empties everything.                 *)
(***************************************************************************)
EXTENDS Integers, Sequences, Functions

CONSTANTS Capacity, Words, Header(_)    \* Header(w): packet size that header w announces

VARIABLES queue,      \* committed packets, oldest first
          incoming    \* the words so far of the packet that is arriving

Size(p) == Len(p)
Held == FoldFunction(LAMBDA p, n : Size(p) + n, 0, queue)

MailboxInit == queue = <<>> /\ incoming = <<>>

Arrive(w) ==
    /\ LET p == Append(incoming, w)
       IN  IF Len(p) = Header(p[1])
           THEN queue' = Append(queue, p) /\ incoming' = <<>>
           ELSE queue' = queue /\ incoming' = p
    /\ Held + Header(Append(incoming, w)[1]) <= Capacity

Drain ==
    /\ queue # <<>>
    /\ queue' = Tail(queue)
    /\ UNCHANGED incoming

(* A word arrives in the cycle in which the reader drains the oldest packet. *)
ArriveAndDrain(w) ==
    LET p == Append(incoming, w)
    IN  /\ queue # <<>>
        /\ Held + Header(p[1]) <= Capacity
        /\ IF Len(p) = Header(p[1])
           THEN queue' = Append(Tail(queue), p) /\ incoming' = <<>>
           ELSE queue' = Tail(queue) /\ incoming' = p

Clear == queue' = <<>> /\ incoming' = <<>>

MailboxNext ==
    \/ \E w \in Words : Arrive(w) \/ ArriveAndDrain(w)
    \/ Drain
    \/ Clear

MailboxSpec == MailboxInit /\ [][MailboxNext]_<<queue, incoming>>
=============================================================================

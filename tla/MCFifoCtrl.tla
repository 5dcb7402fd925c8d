----------------------------- MODULE MCFifoCtrl -----------------------------
(***************************************************************************)
(* The receive FIFO for TLC, and its refinement of RxMailbox.              *)
(***************************************************************************)
EXTENDS TidelinkFifoCtrl, Sequences

VARIABLE source   \* the packets come from the "link", or the CPU may "inject" them

SourceInit == Init /\ source \in {"link", "inject"}
SourceNext ==
    \/ source = "link" /\ Next /\ UNCHANGED source
    \/ source = "inject" /\ InjectNext /\ UNCHANGED source
AnySource == SourceInit /\ [][SourceNext]_<<vars, source>>

(* n consecutive SRAM words from address a. *)
Window(a, n) == [i \in 1 .. n |-> mem[Wrap(a + i - 1)]]

(* The packets found by walking n SRAM words from a, header by header. *)
Walk[a \in Offset, n \in 0 .. MAX_CREDITS] ==
    LET size == PacketSize(mem, a)
    IN  IF n = 0 THEN <<>>
        ELSE IF size >= n THEN <<Window(a, n)>>
        ELSE <<Window(a, size)>> \o Walk[Wrap(a + size), n - size]

Whole(w) == w + 2

Mailbox == INSTANCE RxMailbox
    WITH Capacity <- MAX_CREDITS,
         Words <- Word,
         Header <- Whole,
         queue <- IF source = "link" THEN Walk[rptr, Used] ELSE <<>>,
         incoming <- IF source = "link" /\ wact THEN Window(wptr, txNext) ELSE <<>>

(* The FIFO implements the mailbox: every packet the link sent whole is read *)
(* whole, once, in order and unchanged, or is flushed.                       *)
Refines == Mailbox!MailboxSpec

(* While a packet arrives from the link, its room stays reserved: the reader *)
(* and a flush leave it the length and the space it was admitted with.       *)
LinkReserved == source = "link" => ArrivalReserved
=============================================================================

------------------------------ MODULE PacketIO ------------------------------
(***************************************************************************)
(* Packets through a mailbox FIFO: tidelink.c, the C driver, stores and    *)
(* loads them word by word through the FIFO window; packet.py and          *)
(* tidelink_packet.h build the words and take them apart.                  *)
(*                                                                         *)
(* The FIFO is modelled from what its controller does with a window        *)
(* offset: a store to offset 0 opens a packet and takes its length from    *)
(* the header, a store to the last offset commits it, a load from offset 0 *)
(* captures the length and a load from the last offset retires the packet. *)
(* A driver's loads and stores are single steps, so a packet arrives while *)
(* another is read.                                                        *)
(***************************************************************************)
EXTENDS Integers, Sequences

CONSTANTS
    Writes,        \* payloads of write requests and responses
    Beats,         \* beat counts of burst reads
    Addrs, PktTags,   \* destination addresses and tags
    MaxPayload,    \* the words the reader's buffer holds
    MaxPackets     \* how many packets are sent

VARIABLES
    fifo,      \* committed packets, each a sequence of words
    open,      \* the words so far of the packet that is stored
    tx,        \* the words a sender has still to store
    rx,        \* the reader: <<>> or what tidelink_read_packet has loaded
    pkt_len,   \* PACKET_WORD_LENGTH, the captured length
    sent,      \* packets handed to the driver
    received   \* packets the driver returned, parsed

vars == <<fifo, open, tx, rx, pkt_len, sent, received>>

-----------------------------------------------------------------------------
(* packet.py and tidelink_packet.h: the header word and the packets *)

(* length[31:20] | pkt_type[19:18] | src_id[17:13] | dest_id[12:8] | tag[7:0] *)
encode_word0(length, pkt_type, src_id, dest_id, tag) ==
    (length % 4096) * 1048576 + (pkt_type % 4) * 262144 + (src_id % 32) * 8192
        + (dest_id % 32) * 256 + (tag % 256)

decode_word0(word) ==
    [length   |-> (word \div 1048576) % 4096, pkt_type |-> (word \div 262144) % 4,
     src_id   |-> (word \div 8192) % 32, dest_id |-> (word \div 256) % 32,
     tag      |-> word % 256]

(* beat_count[31:3] | size[2:0] *)
encode_burst_descriptor(beat_count, size) == (beat_count % 536870912) * 8 + (size % 8)

PKT_RD_REQ == 0
PKT_WR_REQ == 1
PKT_RSP == 2
SIZE_WORD == 2
NO_ADDR == 2147483647      \* stands for 0xFFFFFFFF, above TLC's integers

Packet(pkt_type, src_id, dest_id, tag, dest_addr, payload) ==
    [pkt_type |-> pkt_type, src_id |-> src_id, dest_id |-> dest_id, tag |-> tag,
     dest_addr |-> dest_addr, data |-> payload]

(* DescriptorPacket's factories, from die 1 to die 2 and back. *)
read_request(a, t) == Packet(PKT_RD_REQ, 1, 2, t, a, <<>>)
burst_read_request(a, n, t) ==
    Packet(PKT_RD_REQ, 1, 2, t, a, <<encode_burst_descriptor(n, SIZE_WORD)>>)
write_request(a, d, t) == Packet(PKT_WR_REQ, 1, 2, t, a, d)
response(a, d, t) == Packet(PKT_RSP, 2, 1, t, a, d)
error_response(t) == Packet(PKT_RSP, 2, 1, t, NO_ADDR, <<>>)

DescriptorPacket ==
    {read_request(a, t) : a \in Addrs, t \in PktTags}
    \cup {burst_read_request(a, n, t) : a \in Addrs, n \in Beats, t \in PktTags}
    \cup {write_request(a, d, t) : a \in Addrs, d \in Writes, t \in PktTags}
    \cup {response(a, d, t) : a \in Addrs, d \in Writes, t \in PktTags}
    \cup {error_response(t) : t \in PktTags}

word0(p) == encode_word0(Len(p.data), p.pkt_type, p.src_id, p.dest_id, p.tag)

all_words(p) == <<word0(p), p.dest_addr>> \o p.data

(* tidelink_pkt_parse_header and FifoPacket.from_words: the fields of the  *)
(* header and the payload after it.                                        *)
parsed(w0, addr, data) ==
    LET f == decode_word0(w0)
    IN  Packet(f.pkt_type, f.src_id, f.dest_id, f.tag, addr, data)

from_words(words) ==
    parsed(words[1], words[2], SubSeq(words, 3, 2 + decode_word0(words[1]).length))

-----------------------------------------------------------------------------
(* The FIFO behind the window. *)

last_offset(words) == decode_word0(words[1]).length + 1

(* A store of the next word; at the last offset the packet is committed.    *)
(* There is room for it: tidelink_write_packet looks at no credit, which is *)
(* left to its caller, and what a sender without credit does to the FIFO is *)
(* TidelinkFifoCtrl's.                                                      *)
store(w) ==
    IF open # <<>> /\ Len(open) = last_offset(open)
    THEN open' = <<>> /\ fifo' = Append(fifo, Append(open, w))
    ELSE open' = Append(open, w) /\ fifo' = fifo

(* A load at an offset of the head packet. *)
load(off) ==
    /\ pkt_len' = IF off = 0 THEN decode_word0(fifo[1][1]).length ELSE pkt_len
    /\ fifo' = IF off = last_offset(fifo[1]) THEN Tail(fifo) ELSE fifo

-----------------------------------------------------------------------------
(* The driver *)

Init ==
    /\ fifo = <<>> /\ open = <<>> /\ tx = <<>> /\ rx = <<>>
    /\ pkt_len = 0 /\ sent = <<>> /\ received = <<>>

(* tidelink_write_packet: the two header words, then the payload. *)
stores_short(p) == <<word0(p)>> \o p.data
stores(p) == all_words(p)

WritePacket ==
    /\ tx = <<>> /\ Len(sent) < MaxPackets
    /\ \E p \in DescriptorPacket :
        /\ tx' = stores(p)
        /\ sent' = Append(sent, p)
    /\ UNCHANGED <<fifo, open, rx, pkt_len, received>>

Store ==
    /\ tx # <<>>
    /\ store(tx[1])
    /\ tx' = Tail(tx)
    /\ UNCHANGED <<rx, pkt_len, sent, received>>

(* tidelink_read_packet begins with the load that captures the length. *)
ReadHeader ==
    /\ rx = <<>> /\ fifo # <<>>
    /\ load(0)
    /\ rx' = <<fifo[1][1]>>
    /\ UNCHANGED <<open, tx, sent, received>>

(* A packet longer than the buffer is refused after the address word and   *)
(* before any payload.                                                     *)
TooLong == Len(rx) = 2 /\ pkt_len > MaxPayload

ReadWord ==
    /\ rx # <<>> /\ Len(rx) < pkt_len + 2 /\ ~TooLong
    /\ load(Len(rx))
    /\ rx' = Append(rx, fifo[1][Len(rx) + 1])
    /\ UNCHANGED <<open, tx, sent, received>>

ReadRefused ==
    /\ TooLong
    /\ rx' = <<>>
    /\ UNCHANGED <<fifo, open, tx, pkt_len, sent, received>>

ReadReturns ==
    /\ rx # <<>> /\ Len(rx) = pkt_len + 2 /\ ~TooLong
    /\ received' = Append(received, parsed(rx[1], rx[2], SubSeq(rx, 3, Len(rx))))
    /\ rx' = <<>>
    /\ UNCHANGED <<fifo, open, tx, pkt_len, sent>>

Next == WritePacket \/ Store \/ ReadHeader \/ ReadWord \/ ReadRefused \/ ReadReturns

Spec == Init /\ [][Next]_vars

-----------------------------------------------------------------------------
(* Whenever no call is under way, what was returned followed by what waits *)
(* in the FIFO is what was sent: each packet is read once, whole, in       *)
(* order, with every field of its header, and a refused one is still there *)
(* (tidelink_write_packet, tidelink_read_packet, packet.py).               *)
RoundTrip ==
    (tx = <<>> /\ rx = <<>>) =>
        /\ Len(received) + Len(fifo) = Len(sent)
        /\ \A i \in 1 .. Len(received) : received[i] = sent[i]
        /\ \A i \in 1 .. Len(fifo) : from_words(fifo[i]) = sent[Len(received) + i]

-----------------------------------------------------------------------------
(* Why it holds. *)

Frame == Seq(Nat)

TypeOK ==
    /\ fifo \in Seq(Frame) /\ open \in Seq(Nat) /\ tx \in Seq(Nat) /\ rx \in Seq(Nat)
    /\ pkt_len \in Nat /\ sent \in Seq(DescriptorPacket) /\ received \in Seq(DescriptorPacket)

(* The i-th word of packet p, and that words are its words from the k-th on. *)
WordOf(p, i) == IF i = 1 THEN word0(p) ELSE IF i = 2 THEN p.dest_addr ELSE p.data[i - 2]
AreWords(words, p, k) == \A i \in 1 .. Len(words) : words[i] = WordOf(p, k + i)
Whole(words, p) == Len(words) = Len(p.data) + 2 /\ AreWords(words, p, 0)

(* The packet whose last word was loaded has left the FIFO and is not yet  *)
(* returned; the one that is being stored is not yet in it.                *)
InHand == IF rx # <<>> /\ Len(rx) = pkt_len + 2 THEN 1 ELSE 0
InStore == IF tx # <<>> THEN 1 ELSE 0

Counted == Len(received) + InHand + Len(fifo) + InStore = Len(sent)

ReturnedAreSent == \A i \in 1 .. Len(received) : received[i] = sent[i]

WaitingAreSent ==
    \A i \in 1 .. Len(fifo) :
        Whole(fifo[i], sent[Len(received) + InHand + i])

LoadedIsNext ==
    rx # <<>> => LET p == sent[Len(received) + 1]
                 IN  /\ pkt_len = Len(p.data) /\ Len(rx) <= pkt_len + 2 /\ AreWords(rx, p, 0)
                     /\ Len(received) < Len(sent) - InStore

StoredIsLast ==
    /\ tx = <<>> => open = <<>>
    /\ tx # <<>> => LET p == sent[Len(sent)]
                    IN  /\ Len(open) + Len(tx) = Len(p.data) + 2
                        /\ AreWords(open, p, 0) /\ AreWords(tx, p, Len(open))

IInv == TypeOK /\ Counted /\ ReturnedAreSent /\ WaitingAreSent /\ LoadedIsNext /\ StoredIsLast
=============================================================================

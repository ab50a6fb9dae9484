----------------------------- MODULE GlinkFifo ------------------------------
(***************************************************************************)
(* One GLINK ring in SMEM as drivers/soc/qcom/pmic_glink.c drives it, byte *)
(* by byte: the producer is qpg_tx, the consumer is the receive half of    *)
(* qpg_poll (qpg_rx_avail, qpg_rx_peek, qpg_rx_packet_len,                 *)
(* qpg_rx_advance).  The two run on different processors and share only    *)
(* the bytes of the ring and the words head and tail, so every read or     *)
(* write of those is a step of its own and the two sides interleave.       *)
(*                                                                         *)
(* The driver owns one end of each of the two rings and the ADSP the       *)
(* other; the ADSP's end is modelled by the mirror image of the driver's.  *)
(***************************************************************************)
EXTENDS Integers, Sequences

CONSTANTS
    FifoLen,        \* tx_len / rx_len, the bytes of the ring
    AlignTo,        \* messages occupy a multiple of this many bytes
    FullReserve,    \* QPG_FIFO_FULL_RESERVE
    CmdReserve,     \* QPG_TX_BLOCKED_CMD_RESERVE
    MsgHdr,         \* sizeof(struct qpg_msg)
    Message         \* records [id, hlen, dlen, rhdr, rpay], see below

(***************************************************************************)
(* A message is what one call of qpg_tx sends: hlen header bytes and dlen  *)
(* data bytes.  The receiver splits it elsewhere: rhdr bytes of header     *)
(* (qpg_msg, or qpg_msg with the chunk sizes for TX_DATA) and rpay bytes   *)
(* of payload, as qpg_rx_packet_len reads them from the header.            *)
(***************************************************************************)
AlignUp(n) == IF n % AlignTo = 0 THEN n ELSE n + (AlignTo - (n % AlignTo))

TxBytes(m) == m.hlen + m.dlen
RxBytes(m) == m.rhdr + m.rpay
TxLen(m) == AlignUp(TxBytes(m))
RxLen(m) == AlignUp(RxBytes(m))

ASSUME FifoAssumption ==
    /\ FifoLen \in Nat \ {0}
    /\ AlignTo \in Nat \ {0}
    /\ FullReserve \in Nat \ {0}
    /\ CmdReserve \in Nat
    /\ MsgHdr \in Nat \ {0}

(* The ring is larger than what qpg_tx_avail sets aside. *)
ASSUME ReserveAssumption == FullReserve + CmdReserve <= FifoLen

NoMsg == [none |-> TRUE]

ASSUME MessageAssumption ==
    /\ NoMsg \notin Message
    /\ \A m \in Message :
        /\ m.hlen \in Nat /\ m.dlen \in Nat
        /\ m.rhdr \in Nat /\ m.rpay \in Nat
        /\ MsgHdr <= m.hlen
        /\ MsgHdr <= m.rhdr
        /\ RxBytes(m) <= TxBytes(m)
        /\ RxLen(m) = TxLen(m)

Cell == 0 .. FifoLen - 1

(* The k-th byte of m names m and k: a torn or stale read shows. *)
Byte == [msg : Message, at : Nat]
Blank == [blank |-> TRUE]               \* what SMEM holds before any write
Byteof(m, k) == [msg |-> m, at |-> k]

VARIABLES
    fifo,       \* the ring's bytes
    head,       \* shared, written by the producer only
    tail,       \* shared, written by the consumer only
    wpc,        \* producer: "idle", "header", "data", "publish"
    wmsg,       \* the message being sent
    whead,      \* qpg_tx's local head
    wnext,      \* qpg_tx's local next
    rpc,        \* consumer: "idle", "header", "payload", "advance"
    ravail,     \* qpg_poll's local avail
    rmsg,       \* the message the header just peeked announces
    rbuf,       \* the bytes peeked
    rret,       \* what the last poll that looked at a header returned
    received,   \* the message consumed last
    unread      \* history: published, unconsumed messages and their offsets

writer == <<wpc, wmsg, whead, wnext>>
reader == <<rpc, ravail, rmsg, rbuf, rret, received>>
vars == <<fifo, head, tail, writer, reader, unread>>

-----------------------------------------------------------------------------
(* qpg_rx_avail *)
RxAvail_ToEnd == IF head < tail THEN FifoLen - tail ELSE head - tail \* mutant
RxAvail == IF head < tail THEN FifoLen - tail + head ELSE head - tail

(* qpg_tx_avail *)
TxFree == IF tail <= head THEN FifoLen - head + tail ELSE tail - head

TxAvail_NoReserve == TxFree     \* mutant
TxAvail == IF TxFree < FullReserve + CmdReserve
           THEN 0
           ELSE TxFree - FullReserve - CmdReserve

Smaller(a, b) == IF a <= b THEN a ELSE b

(* The two memcpy of qpg_tx_write_one: len bytes of m, from its byte base  *)
(* on, into the ring from cell h on.                                       *)
Written_RestartsData(h, len, m, base) ==        \* mutant
    LET first == Smaller(len, FifoLen - h)
    IN  [c \in Cell |->
            IF h <= c /\ c < h + first THEN Byteof(m, base + (c - h))
            ELSE IF c < len - first THEN Byteof(m, base + c)
            ELSE fifo[c]]
Written(h, len, m, base) ==
    LET first == Smaller(len, FifoLen - h)
    IN  [c \in Cell |->
            IF h <= c /\ c < h + first THEN Byteof(m, base + (c - h))
            ELSE IF c < len - first THEN Byteof(m, base + (first + c))
            ELSE fifo[c]]

WrapOnce(i) == IF i >= FifoLen THEN i - FifoLen ELSE i

(* The two memcpy of qpg_rx_peek: len bytes, offset bytes past tail. *)
Peek_NoRebase(offset, len) ==   \* mutant
    LET start == WrapOnce(tail + offset)
        first == Smaller(len, FifoLen - start)
    IN  [k \in 0 .. len - 1 |->
            IF k < first THEN fifo[start + k] ELSE fifo[k]]
Peek(offset, len) ==
    LET start == WrapOnce(tail + offset)
        first == Smaller(len, FifoLen - start)
    IN  [k \in 0 .. len - 1 |->
            IF k < first THEN fifo[start + k] ELSE fifo[k - first]]

WrapMod(i) == IF i >= FifoLen THEN i % FifoLen ELSE i

-----------------------------------------------------------------------------
(* qpg_init: fresh FIFOs start at 0, existing ones keep their pointers. *)
Init ==
    /\ fifo = [c \in Cell |-> Blank]
    /\ head \in {c \in Cell : c % AlignTo = 0}
    /\ tail = head
    /\ wpc = "idle" /\ wmsg = NoMsg /\ whead = 0 /\ wnext = 0
    /\ rpc = "idle" /\ ravail = 0 /\ rmsg = NoMsg
    /\ rbuf = [k \in {} |-> Blank] /\ rret = "ok" /\ received = NoMsg
    /\ unread = <<>>

(* qpg_tx up to its check; a call refused with -EAGAIN changes nothing. *)
TxBegin(m) ==
    /\ wpc = "idle"
    /\ TxLen(m) <= FifoLen
    /\ TxAvail >= TxLen(m)
    /\ wpc' = "header"
    /\ wmsg' = m
    /\ whead' = head
    /\ wnext' = WrapMod(head + TxLen(m))
    /\ UNCHANGED <<fifo, head, tail, reader, unread>>

(* qpg_tx_write_one(hdr) *)
TxHeader ==
    /\ wpc = "header"
    /\ fifo' = Written(whead, wmsg.hlen, wmsg, 0)
    /\ whead' = WrapOnce(whead + wmsg.hlen)
    /\ wpc' = IF wmsg.dlen > 0 THEN "data" ELSE "publish"
    /\ UNCHANGED <<head, tail, wmsg, wnext, reader, unread>>

(* qpg_tx_write_one(data) *)
TxData ==
    /\ wpc = "data"
    /\ fifo' = Written(whead, wmsg.dlen, wmsg, wmsg.hlen)
    /\ whead' = WrapOnce(whead + wmsg.dlen)
    /\ wpc' = "publish"
    /\ UNCHANGED <<head, tail, wmsg, wnext, reader, unread>>

(* wmb(), then the store to tx_head; the kick carries no data. *)
TxPublish ==
    /\ wpc = "publish"
    /\ head' = wnext
    /\ unread' = Append(unread, [msg |-> wmsg, off |-> RxAvail])
    /\ wpc' = "idle" /\ wmsg' = NoMsg /\ whead' = 0 /\ wnext' = 0
    /\ UNCHANGED <<fifo, tail, reader>>

(* qpg_poll reads the pointers; less than a header is -EAGAIN, no change. *)
RxPoll ==
    /\ rpc = "idle"
    /\ RxAvail >= MsgHdr
    /\ ravail' = RxAvail
    /\ rpc' = "header"
    /\ UNCHANGED <<fifo, head, tail, writer, rmsg, rbuf, rret, received,
                   unread>>

(* What the header bytes at the tail announce. *)
Announced == LET b == Peek(0, MsgHdr)[0]
             IN  IF b \in Byte THEN b.msg ELSE NoMsg

(***************************************************************************)
(* qpg_rx_packet_len: -EAGAIN when the data header is not all there,       *)
(* -EINVAL when the payload or its alignment reaches beyond avail.  An     *)
(* error leaves the tail alone, so the next poll meets the same bytes.     *)
(***************************************************************************)
PacketRet(m) ==
    IF m = NoMsg THEN "einval"
    ELSE IF ravail < m.rhdr THEN "eagain"
    ELSE IF m.rpay > ravail - m.rhdr \/ RxLen(m) > ravail THEN "einval"
    ELSE "ok"

RxHeader ==
    /\ rpc = "header"
    /\ rret' = PacketRet(Announced)
    /\ IF rret' = "ok"
       THEN rpc' = "payload" /\ rmsg' = Announced /\ UNCHANGED ravail
       ELSE rpc' = "idle" /\ rmsg' = NoMsg /\ ravail' = 0
    /\ UNCHANGED <<fifo, head, tail, writer, rbuf, received, unread>>

(* The handlers peek the bytes they use before they advance. *)
RxPayload ==
    /\ rpc = "payload"
    /\ rbuf' = Peek(0, RxBytes(rmsg))
    /\ rpc' = "advance"
    /\ UNCHANGED <<fifo, head, tail, writer, ravail, rmsg, rret, received,
                   unread>>

(* qpg_rx_advance *)
RxAdvance ==
    /\ rpc = "advance"
    /\ tail' = WrapMod(tail + RxLen(rmsg))
    /\ received' = rmsg
    /\ unread' = [i \in 1 .. Len(unread) - 1 |->
                    [msg |-> unread[i + 1].msg,
                     off |-> unread[i + 1].off - RxLen(rmsg)]]
    /\ rpc' = "idle" /\ rmsg' = NoMsg /\ ravail' = 0
    /\ rbuf' = [k \in {} |-> Blank]
    /\ UNCHANGED <<fifo, head, writer, rret>>

Next ==
    \/ \E m \in Message : TxBegin(m)
    \/ TxHeader \/ TxData \/ TxPublish
    \/ RxPoll \/ RxHeader \/ RxPayload \/ RxAdvance

Spec == Init /\ [][Next]_vars

-----------------------------------------------------------------------------
(* The shapes of the state; the bounds of the indices are part of it. *)
TypeOK ==
    /\ fifo \in [Cell -> Byte \cup {Blank}]
    /\ head \in Cell /\ tail \in Cell
    /\ wpc \in {"idle", "header", "data", "publish"}
    /\ wmsg \in Message \cup {NoMsg}
    /\ whead \in Cell /\ wnext \in Cell
    /\ rpc \in {"idle", "header", "payload", "advance"}
    /\ ravail \in 0 .. FifoLen
    /\ rmsg \in Message \cup {NoMsg}
    /\ rret \in {"ok", "eagain", "einval"}
    /\ received \in Message \cup {NoMsg}
    /\ unread \in Seq([msg : Message, off : Nat])

(* What qpg_poll hands to a handler is the oldest message that qpg_tx      *)
(* published, every byte of it as sent: never a torn mix with a message    *)
(* that is being written, with a stale lap of the ring or with padding,    *)
(* although the producer works from a tail, and the consumer from a head,  *)
(* that may have moved since it was read.                                  *)
WholeMessage ==
    rpc = "advance" =>
        /\ unread # <<>>
        /\ rmsg = Head(unread).msg
        /\ \A k \in 0 .. RxBytes(rmsg) - 1 : rbuf[k] = Byteof(rmsg, k)

(* A ring that carries only messages of qpg_tx never makes                 *)
(* qpg_rx_packet_len fail.  It matters because an error leaves the tail    *)
(* where it is: the same header would be met, and refused, for ever.       *)
NeverRefused == rret = "ok"

(* The pointers tell empty from full: they are equal exactly when there    *)
(* is nothing to read, however the two sides interleave.                   *)
EmptyIffEqual == (head = tail) <=> (unread = <<>>)

(* Published bytes never reach into the reserve: qpg_tx leaves the two     *)
(* reserves free, and the bytes it is still writing count too.             *)
ReservesKept ==
    LET claimed == IF wpc = "idle" THEN 0 ELSE TxLen(wmsg)
    IN  RxAvail + claimed + FullReserve + CmdReserve <= FifoLen

(* No byte of a published message changes before it is consumed, wherever  *)
(* in the ring the message wraps.                                          *)
UnreadIntact ==
    \A i \in 1 .. Len(unread) :
        \A k \in 0 .. TxBytes(unread[i].msg) - 1 :
            fifo[WrapOnce(tail + unread[i].off + k)] = Byteof(unread[i].msg, k)

(***************************************************************************)
(* The inductive invariant: what both sides know while they are midway.    *)
(***************************************************************************)
End(i) == unread[i].off + TxLen(unread[i].msg)

(* The unread messages lie end to end from the tail to the head. *)
Contiguous ==
    /\ unread = <<>> => RxAvail = 0
    /\ unread # <<>> => unread[1].off = 0 /\ End(Len(unread)) = RxAvail
    /\ \A i \in 1 .. Len(unread) : End(i) <= RxAvail
    /\ \A i \in 1 .. Len(unread) - 1 : unread[i + 1].off = End(i)
    /\ \A i, j \in 1 .. Len(unread) : i < j => End(i) <= unread[j].off

(* The first n bytes of the message being sent lie from the head on. *)
Staged(n) ==
    \A k \in 0 .. n - 1 : fifo[WrapOnce(head + k)] = Byteof(wmsg, k)

WriterInv ==
    /\ wpc # "idle" =>
        /\ wmsg \in Message
        /\ wnext = WrapOnce(head + TxLen(wmsg))
    /\ wpc = "header" => whead = head
    /\ wpc = "data" => /\ whead = WrapOnce(head + wmsg.hlen)
                       /\ Staged(wmsg.hlen)
    /\ wpc = "publish" => Staged(TxBytes(wmsg))

ReaderInv ==
    /\ rpc # "idle" => /\ unread # <<>>
                       /\ ravail >= TxLen(unread[1].msg)
    /\ rpc \in {"payload", "advance"} => rmsg = unread[1].msg

(* Each clause is what a later step of the other side relies on. *)
IndInv == /\ TypeOK /\ Contiguous /\ WriterInv /\ ReaderInv /\ ReservesKept
          /\ UnreadIntact /\ WholeMessage /\ NeverRefused

Pending == [i \in 1 .. Len(unread) |-> unread[i].msg]

Queue == INSTANCE GlinkQueue WITH queue <- Pending

(* To the code above it, the ring that qpg_tx and qpg_poll share is a      *)
(* queue of whole messages: a publication appends one, an advance takes    *)
(* the oldest, and every other step of the two processors is invisible.    *)
ImplementsQueue == Queue!Spec
=============================================================================

-------------------------- MODULE GlinkFifo_proofs --------------------------
(***************************************************************************)
(* Proofs about the ring of GlinkFifo, for every ring size, alignment,     *)
(* pair of reserves and set of messages.                                   *)
(***************************************************************************)
EXTENDS GlinkFifo, SequenceTheorems, TLAPS

-----------------------------------------------------------------------------
(* Arithmetic of the ring. *)

(* The modulo that wraps an index in qpg_tx and qpg_rx_advance is one      *)
(* subtraction.                                                            *)
LEMMA ModOnce ==
    ASSUME NEW n \in Nat, n < FifoLen + FifoLen
    PROVE  WrapMod(n) = WrapOnce(n)
<1>1. FifoLen <= n => n % FifoLen = n - FifoLen
  BY FifoAssumption
<1> QED
  BY <1>1 DEF WrapMod, WrapOnce

(* ALIGN() never shortens a message. *)
LEMMA AlignFacts ==
    ASSUME NEW n \in Nat
    PROVE  AlignUp(n) \in Nat /\ n <= AlignUp(n)
<1>1. n % AlignTo \in Nat /\ n % AlignTo < AlignTo
  BY FifoAssumption
<1> QED
  BY <1>1, FifoAssumption DEF AlignUp

(* The lengths of a message as its two ends compute them. *)
LEMMA MessageFacts ==
    ASSUME NEW m \in Message
    PROVE  /\ m.hlen \in Nat /\ m.dlen \in Nat
           /\ m.rhdr \in Nat /\ m.rpay \in Nat
           /\ TxLen(m) \in Nat
           /\ RxLen(m) = TxLen(m)
           /\ TxBytes(m) \in Nat /\ RxBytes(m) \in Nat
           /\ TxBytes(m) = m.hlen + m.dlen /\ RxBytes(m) = m.rhdr + m.rpay
           /\ TxBytes(m) <= TxLen(m)
           /\ RxBytes(m) <= TxBytes(m)
           /\ 0 < MsgHdr /\ MsgHdr <= m.hlen /\ MsgHdr <= m.rhdr
           /\ 0 < TxLen(m)
<1>1. /\ TxBytes(m) \in Nat /\ RxBytes(m) \in Nat
      /\ TxBytes(m) = m.hlen + m.dlen /\ RxBytes(m) = m.rhdr + m.rpay
      /\ 0 < MsgHdr /\ MsgHdr \in Nat
  BY MessageAssumption, FifoAssumption DEF TxBytes, RxBytes
<1>2. TxLen(m) \in Nat /\ TxBytes(m) <= TxLen(m)
  BY <1>1, AlignFacts DEF TxLen
<1> QED
  BY <1>1, <1>2, MessageAssumption

(* The pointers determine how much is unread, and the free space is the    *)
(* rest of the ring.                                                       *)
LEMMA PointerFacts ==
    ASSUME head \in Cell, tail \in Cell
    PROVE  /\ RxAvail \in 0 .. FifoLen - 1
           /\ TxFree = FifoLen - RxAvail
           /\ head = WrapOnce(tail + RxAvail)
           /\ (RxAvail = 0) <=> (head = tail)
BY FifoAssumption DEF Cell, RxAvail, TxFree, WrapOnce

(* Offsets from the head are offsets from the tail, past the unread part.  *)
LEMMA HeadOffset ==
    ASSUME head \in Cell, tail \in Cell,
           NEW k \in Nat, RxAvail + k < FifoLen
    PROVE  /\ WrapOnce(head + k) = WrapOnce(tail + RxAvail + k)
           /\ WrapOnce(head + k) \in Cell
BY FifoAssumption DEF Cell, RxAvail, WrapOnce

(* Different offsets are different cells. *)
LEMMA OffsetInjective ==
    ASSUME NEW t \in Cell, NEW a \in 0 .. FifoLen - 1,
           NEW b \in 0 .. FifoLen - 1, a # b
    PROVE  /\ WrapOnce(t + a) \in Cell /\ WrapOnce(t + b) \in Cell
           /\ WrapOnce(t + a) # WrapOnce(t + b)
BY FifoAssumption DEF Cell, WrapOnce

(* Two offsets in a row wrap like their sum. *)
LEMMA WrapShift ==
    ASSUME NEW h \in Cell, NEW a \in 0 .. FifoLen - 1, NEW b \in 0 .. FifoLen - 1
    PROVE  /\ WrapOnce(h + a) \in Cell
           /\ a + b < FifoLen
                => WrapOnce(WrapOnce(h + a) + b) = WrapOnce(h + (a + b))
           /\ a + b >= FifoLen
                => WrapOnce(WrapOnce(h + a) + b) = WrapOnce(h + (a + b - FifoLen))
BY FifoAssumption DEF Cell, WrapOnce

(* qpg_tx_write_one puts byte j of its buffer j cells further, wrapped,    *)
(* and leaves every other cell alone.                                      *)
LEMMA WrittenFacts ==
    ASSUME NEW h \in Cell, NEW len \in 0 .. FifoLen, NEW m, NEW base \in Nat
    PROVE  /\ \A j \in 0 .. len - 1 :
                Written(h, len, m, base)[WrapOnce(h + j)] = Byteof(m, base + j)
           /\ \A j \in len .. FifoLen - 1 :
                Written(h, len, m, base)[WrapOnce(h + j)] = fifo[WrapOnce(h + j)]
           /\ DOMAIN Written(h, len, m, base) = Cell
           /\ \A c \in Cell : \/ Written(h, len, m, base)[c] = fifo[c]
                              \/ \E j \in 0 .. len - 1 :
                                   Written(h, len, m, base)[c]
                                      = Byteof(m, base + j)
<1> DEFINE first == Smaller(len, FifoLen - h)
           W == Written(h, len, m, base)
<1>0. /\ first \in Nat /\ first <= len /\ h + first <= FifoLen
      /\ first = len \/ first = FifoLen - h
      /\ h \in Nat /\ h < FifoLen /\ len \in Nat /\ FifoLen \in Nat
      /\ len <= FifoLen
  BY FifoAssumption DEF Smaller, Cell
<1>1. W = [c \in Cell |->
            IF h <= c /\ c < h + first THEN Byteof(m, base + (c - h))
            ELSE IF c < len - first THEN Byteof(m, base + (first + c))
            ELSE fifo[c]]
  BY DEF Written
<1> HIDE DEF W, first
<1>2. ASSUME NEW j \in 0 .. len - 1
      PROVE  W[WrapOnce(h + j)] = Byteof(m, base + j)
  <2>1. CASE j < first
    <3>1. WrapOnce(h + j) = h + j /\ h + j \in Cell
      BY <1>0, <2>1 DEF WrapOnce, Cell
    <3>2. (h + j) - h = j /\ h <= h + j /\ h + j < h + first
      BY <1>0, <2>1
    <3> QED
      BY <3>1, <3>2, <1>1
  <2>2. CASE ~(j < first)
    <3>1. first = FifoLen - h
      BY <1>0, <2>2
    <3>2. WrapOnce(h + j) = j - first /\ j - first \in Cell
      BY <1>0, <2>2, <3>1 DEF WrapOnce, Cell
    <3>3. /\ ~(h <= j - first)
          /\ j - first < len - first
          /\ first + (j - first) = j
      BY <1>0, <2>2, <3>1
    <3> QED
      BY <3>2, <3>3, <1>1
  <2> QED
    BY <2>1, <2>2
<1>3. ASSUME NEW j \in len .. FifoLen - 1
      PROVE  W[WrapOnce(h + j)] = fifo[WrapOnce(h + j)]
  <2>1. /\ WrapOnce(h + j) \in Cell
        /\ ~(h <= WrapOnce(h + j) /\ WrapOnce(h + j) < h + first)
        /\ ~(WrapOnce(h + j) < len - first)
    BY <1>0 DEF WrapOnce, Cell
  <2> QED
    BY <2>1, <1>1
<1>4. DOMAIN W = Cell
  BY <1>1
<1>5. ASSUME NEW c \in Cell
      PROVE  W[c] = fifo[c] \/ \E j \in 0 .. len - 1 : W[c] = Byteof(m, base + j)
  <2>1. CASE h <= c /\ c < h + first
    <3>1. c - h \in 0 .. len - 1
      BY <1>0, <2>1 DEF Cell
    <3> QED
      BY <3>1, <2>1, <1>1
  <2>2. CASE ~(h <= c /\ c < h + first) /\ c < len - first
    <3>1. first + c \in 0 .. len - 1
      BY <1>0, <2>2 DEF Cell
    <3> QED
      BY <3>1, <2>2, <1>1
  <2>3. CASE ~(h <= c /\ c < h + first) /\ ~(c < len - first)
    BY <2>3, <1>1
  <2> QED
    BY <2>1, <2>2, <2>3
<1> QED
  BY <1>2, <1>3, <1>4, <1>5 DEF W

(* qpg_rx_peek at offset 0 reads the bytes from the tail on, wrapped. *)
LEMMA PeekFacts ==
    ASSUME tail \in Cell, NEW len \in 0 .. FifoLen
    PROVE  \A k \in 0 .. len - 1 : Peek(0, len)[k] = fifo[WrapOnce(tail + k)]
<1> SUFFICES ASSUME NEW k \in 0 .. len - 1
             PROVE  Peek(0, len)[k] = fifo[WrapOnce(tail + k)]
  OBVIOUS
<1>0. tail \in Nat /\ tail < FifoLen /\ FifoLen \in Nat /\ k \in Nat /\ k < len
  BY FifoAssumption DEF Cell
<1> DEFINE first == Smaller(len, FifoLen - tail)
<1>1. WrapOnce(tail + 0) = tail
  BY <1>0 DEF WrapOnce
<1>2. Peek(0, len)[k] = IF k < first THEN fifo[tail + k] ELSE fifo[k - first]
  BY <1>1 DEF Peek
<1>3. WrapOnce(tail + k) = IF k < first THEN tail + k ELSE k - first
  BY <1>0 DEF WrapOnce, Smaller
<1> QED
  BY <1>2, <1>3

-----------------------------------------------------------------------------
(* The steps. *)

(* The invariant holds when qpg_init hands over an empty ring. *)
LEMMA InitInv == Init => IndInv
<1> SUFFICES ASSUME Init PROVE IndInv
  OBVIOUS
<1>1. TypeOK
  BY FifoAssumption DEF Init, TypeOK, Cell, NoMsg
<1>2. RxAvail = 0
  BY <1>1, FifoAssumption DEF Init, RxAvail, TypeOK, Cell
<1>3. FullReserve + CmdReserve <= FifoLen
  BY ReserveAssumption
<1> QED
  BY <1>1, <1>2, <1>3, FifoAssumption
  DEF Init, IndInv, Contiguous, WriterInv, ReaderInv, ReservesKept,
      UnreadIntact, WholeMessage, NeverRefused

(* A function on an initial segment of the positive numbers is a sequence. *)
LEMMA SeqFunction ==
    ASSUME NEW S, NEW l \in Nat, NEW f \in [1 .. l -> S]
    PROVE  f \in Seq(S) /\ Len(f) = l
OBVIOUS

(* Facts of every state of the invariant, stated once. *)
LEMMA StateFacts ==
    ASSUME IndInv
    PROVE  /\ head \in Cell /\ tail \in Cell /\ whead \in Cell /\ wnext \in Cell
           /\ FifoLen \in Nat \ {0}
           /\ FullReserve \in Nat \ {0} /\ CmdReserve \in Nat
           /\ RxAvail \in 0 .. FifoLen - 1
           /\ \A i \in 1 .. Len(unread) :
                /\ unread[i].msg \in Message
                /\ unread[i].off \in Nat
           /\ Len(unread) \in Nat
           /\ unread # <<>> => Len(unread) >= 1
<1>1. head \in Cell /\ tail \in Cell /\ whead \in Cell /\ wnext \in Cell
  BY DEF IndInv, TypeOK
<1>2. unread \in Seq([msg : Message, off : Nat])
  BY DEF IndInv, TypeOK
<1>3. RxAvail \in 0 .. FifoLen - 1
  BY <1>1, PointerFacts
<1>4. /\ Len(unread) \in Nat
      /\ unread # <<>> => Len(unread) >= 1
  BY <1>2
<1>5. \A i \in 1 .. Len(unread) :
         unread[i].msg \in Message /\ unread[i].off \in Nat
  <2>1. \A i \in 1 .. Len(unread) : unread[i] \in [msg : Message, off : Nat]
    BY <1>2, ElementOfSeq
  <2> QED
    BY <2>1
<1> QED
  BY <1>1, <1>3, <1>4, <1>5, FifoAssumption

(* qpg_tx decides on a message; nothing in the ring changes yet. *)
LEMMA TxBeginInv ==
    ASSUME IndInv, NEW m \in Message, TxBegin(m)
    PROVE  IndInv'
<1> USE StateFacts, MessageFacts
<1>1. RxAvail' = RxAvail
  BY DEF TxBegin, RxAvail
<1>2. TxAvail >= TxLen(m) /\ 0 < TxLen(m)
      /\ TxLen(m) + FullReserve + CmdReserve <= TxFree
  BY FifoAssumption, PointerFacts DEF TxBegin, TxAvail
<1>3. RxAvail + TxLen(m) + FullReserve + CmdReserve <= FifoLen
  BY <1>2, PointerFacts
<1>4. head + TxLen(m) < FifoLen + FifoLen /\ head + TxLen(m) \in Nat
  BY <1>3 DEF Cell
<1>5. wnext' = WrapOnce(head + TxLen(m)) /\ wnext' \in Cell
  BY <1>4, ModOnce DEF TxBegin, WrapOnce, Cell
<1>6. TypeOK'
  BY <1>5 DEF IndInv, TypeOK, TxBegin, reader
<1>7. ReservesKept'
  BY <1>1, <1>3 DEF ReservesKept, TxBegin
<1>8. WriterInv'
  BY <1>5 DEF WriterInv, TxBegin
<1>9. Contiguous' /\ ReaderInv' /\ UnreadIntact' /\ WholeMessage' /\ NeverRefused'
  BY <1>1 DEF IndInv, TxBegin, reader, Contiguous, ReaderInv, UnreadIntact,
              WholeMessage, NeverRefused, End
<1> QED
  BY <1>6, <1>7, <1>8, <1>9 DEF IndInv

(* While a message is in the making, the cells from the head on that it    *)
(* claims are disjoint from the cells the consumer may read.               *)
LEMMA ClaimDisjoint ==
    ASSUME IndInv, wpc # "idle",
           NEW k \in Nat, k < TxLen(wmsg), NEW p \in Nat, p < RxAvail
    PROVE  /\ WrapOnce(head + k) \in Cell /\ WrapOnce(tail + p) \in Cell
           /\ WrapOnce(head + k) # WrapOnce(tail + p)
<1>1. wmsg \in Message /\ TxLen(wmsg) \in Nat
  BY MessageFacts DEF IndInv, WriterInv
<1>2. RxAvail + k < FifoLen
  BY <1>1, StateFacts DEF IndInv, ReservesKept
<1>3. WrapOnce(head + k) = WrapOnce(tail + (RxAvail + k))
  BY <1>2, StateFacts, HeadOffset DEF Cell
<1> QED
  BY <1>2, <1>3, StateFacts, OffsetInjective

(* A write that starts base bytes into the claim and stays in it leaves    *)
(* what the consumer may read alone.                                       *)
LEMMA WriteSpares ==
    ASSUME IndInv, wpc # "idle",
           NEW base \in Nat, NEW len \in Nat, base + len <= TxLen(wmsg),
           whead = WrapOnce(head + base),
           fifo' = Written(whead, len, wmsg, base)
    PROVE  /\ fifo' \in [Cell -> Byte \cup {Blank}]
           /\ \A p \in 0 .. RxAvail - 1 :
                 fifo'[WrapOnce(tail + p)] = fifo[WrapOnce(tail + p)]
           /\ \A k \in 0 .. base - 1 :
                 fifo'[WrapOnce(head + k)] = fifo[WrapOnce(head + k)]
           /\ \A k \in base .. base + len - 1 :
                 fifo'[WrapOnce(head + k)] = Byteof(wmsg, k)
<1>1. wmsg \in Message /\ TxLen(wmsg) \in Nat
  BY MessageFacts DEF IndInv, WriterInv
<1>2. RxAvail + TxLen(wmsg) < FifoLen /\ len \in 0 .. FifoLen
  BY <1>1, StateFacts DEF IndInv, ReservesKept
<1>3. /\ \A j \in 0 .. len - 1 :
            fifo'[WrapOnce(whead + j)] = Byteof(wmsg, base + j)
      /\ \A j \in len .. FifoLen - 1 :
            fifo'[WrapOnce(whead + j)] = fifo[WrapOnce(whead + j)]
      /\ DOMAIN fifo' = Cell
      /\ \A c \in Cell : \/ fifo'[c] = fifo[c]
                         \/ \E j \in 0 .. len - 1 :
                              fifo'[c] = Byteof(wmsg, base + j)
  <2>1. whead \in Cell
    BY StateFacts
  <2> HIDE DEF IndInv
  <2> QED
    BY <2>1, <1>2, WrittenFacts
<1>4. ASSUME NEW c \in Cell PROVE fifo'[c] \in Byte \cup {Blank}
  <2>1. CASE fifo'[c] = fifo[c]
    BY <2>1 DEF IndInv, TypeOK
  <2>2. CASE \E j \in 0 .. len - 1 : fifo'[c] = Byteof(wmsg, base + j)
    BY <2>2, <1>1 DEF Byteof, Byte
  <2> QED
    BY <2>1, <2>2, <1>3
<1>5. fifo' \in [Cell -> Byte \cup {Blank}]
  <2>1. fifo' = [c \in Cell |-> fifo'[c]]
    BY DEF Written
  <2> QED
    BY <2>1, <1>4
<1>6. ASSUME NEW p \in 0 .. RxAvail - 1
      PROVE  fifo'[WrapOnce(tail + p)] = fifo[WrapOnce(tail + p)]
  <2> DEFINE j == FifoLen - base - RxAvail + p
  <2>1. j \in len .. FifoLen - 1
    BY <1>1, <1>2, StateFacts
  <2>2. WrapOnce(whead + j) = WrapOnce(tail + p)
    <3>1. RxAvail - p \in 1 .. FifoLen - 1 /\ RxAvail \in 0 .. FifoLen - 1
      BY <1>1, <1>2, StateFacts
    <3>2. base \in 0 .. FifoLen - 1 /\ j \in 0 .. FifoLen - 1
          /\ base + j = FifoLen - (RxAvail - p) /\ base + j < FifoLen
      <4>1. FifoLen \in Nat /\ RxAvail \in Nat
        BY StateFacts
      <4> QED
        BY ONLY <1>1, <1>2, <2>1, <3>1, <4>1, base \in Nat, len \in Nat,
                base + len <= TxLen(wmsg), p \in 0 .. RxAvail - 1
    <3>3. WrapOnce(whead + j) = WrapOnce(head + (FifoLen - (RxAvail - p)))
      BY <3>2, StateFacts, WrapShift
    <3>4. /\ FifoLen - (RxAvail - p) \in 0 .. FifoLen - 1
          /\ RxAvail + (FifoLen - (RxAvail - p)) >= FifoLen
          /\ RxAvail + (FifoLen - (RxAvail - p)) - FifoLen = p
      BY <3>1, StateFacts
    <3>5. WrapOnce(WrapOnce(tail + RxAvail) + (FifoLen - (RxAvail - p)))
             = WrapOnce(tail + p)
      BY <3>1, <3>4, StateFacts, WrapShift
    <3> QED
      BY <3>3, <3>5, StateFacts, PointerFacts
  <2> QED
    BY <2>1, <2>2, <1>3
<1>7. ASSUME NEW k \in 0 .. base - 1
      PROVE  fifo'[WrapOnce(head + k)] = fifo[WrapOnce(head + k)]
  <2> DEFINE j == FifoLen - base + k
  <2>1. j \in len .. FifoLen - 1
    BY <1>1, <1>2, StateFacts
  <2>2. WrapOnce(whead + j) = WrapOnce(head + k)
    <3>1. /\ base \in 0 .. FifoLen - 1 /\ j \in 0 .. FifoLen - 1
          /\ base + j >= FifoLen /\ base + j - FifoLen = k
          /\ head \in Cell
      <4>1. FifoLen \in Nat /\ RxAvail \in Nat /\ head \in Cell
        BY StateFacts
      <4> QED
        BY ONLY <1>1, <1>2, <2>1, <4>1, base \in Nat, len \in Nat,
                base + len <= TxLen(wmsg), k \in 0 .. base - 1
    <3> QED
      BY <3>1, WrapShift
  <2> QED
    BY <2>1, <2>2, <1>3
<1>8. ASSUME NEW k \in base .. base + len - 1
      PROVE  fifo'[WrapOnce(head + k)] = Byteof(wmsg, k)
  <2> DEFINE j == k - base
  <2>1. j \in 0 .. len - 1 /\ base + j = k
    OBVIOUS
  <2>2. WrapOnce(whead + j) = WrapOnce(head + k)
    <3>1. /\ base \in 0 .. FifoLen - 1 /\ j \in 0 .. FifoLen - 1
          /\ base + j < FifoLen /\ base + j = k /\ head \in Cell
      <4>1. FifoLen \in Nat /\ RxAvail \in Nat /\ head \in Cell
        BY StateFacts
      <4> QED
        BY ONLY <1>1, <1>2, <2>1, <4>1, base \in Nat, len \in Nat,
                base + len <= TxLen(wmsg), k \in base .. base + len - 1
    <3> HIDE DEF j
    <3> QED
      BY <3>1, WrapShift
  <2> QED
    BY <2>1, <2>2, <1>3
<1> QED
  BY <1>5, <1>6, <1>7, <1>8

(* What a write spares keeps every unread message intact. *)
LEMMA IntactKept ==
    ASSUME IndInv, UNCHANGED <<tail, unread>>,
           \A p \in 0 .. RxAvail - 1 :
              fifo'[WrapOnce(tail + p)] = fifo[WrapOnce(tail + p)]
    PROVE  UnreadIntact'
<1> SUFFICES ASSUME NEW i \in 1 .. Len(unread),
                    NEW k \in 0 .. TxBytes(unread[i].msg) - 1
             PROVE  fifo'[WrapOnce(tail + unread[i].off + k)]
                       = Byteof(unread[i].msg, k)
  BY DEF UnreadIntact, WrapOnce
<1>1. unread[i].msg \in Message /\ unread[i].off \in Nat
  BY StateFacts
<1>2. unread[i].off + k \in 0 .. RxAvail - 1
  <2>1. End(i) <= RxAvail
    BY DEF IndInv, Contiguous
  <2>2. /\ TxBytes(unread[i].msg) \in Nat /\ TxLen(unread[i].msg) \in Nat
        /\ TxBytes(unread[i].msg) <= TxLen(unread[i].msg)
    BY <1>1, MessageFacts
  <2> QED
    <3>1. RxAvail \in Nat
      BY StateFacts
    <3> QED
      BY <1>1, <2>1, <2>2, <3>1 DEF End
<1>3. tail + unread[i].off + k = tail + (unread[i].off + k)
  BY <1>1, <1>2, MessageFacts, StateFacts DEF Cell
<1>4. fifo[WrapOnce(tail + unread[i].off + k)] = Byteof(unread[i].msg, k)
  BY DEF IndInv, UnreadIntact
<1> QED
  BY <1>2, <1>3, <1>4

(* qpg_tx_write_one of the header. *)
LEMMA TxHeaderInv ==
    ASSUME IndInv, TxHeader
    PROVE  IndInv'
<1>1. /\ wpc = "header" /\ wmsg \in Message /\ whead = head
      /\ UNCHANGED <<head, tail, wmsg, wnext, reader, unread>>
      /\ wpc' = IF wmsg.dlen > 0 THEN "data" ELSE "publish"
      /\ whead' = WrapOnce(head + wmsg.hlen)
      /\ fifo' = Written(whead, wmsg.hlen, wmsg, 0)
  BY DEF TxHeader, IndInv, WriterInv
<1>2. /\ wmsg.hlen \in Nat /\ wmsg.dlen \in Nat /\ TxLen(wmsg) \in Nat
      /\ 0 + wmsg.hlen <= TxLen(wmsg)
  BY <1>1, MessageFacts
<1>3. whead = WrapOnce(head + 0)
  BY <1>1, StateFacts DEF WrapOnce, Cell
<1>4. RxAvail' = RxAvail
  BY <1>1 DEF RxAvail
<1>5. /\ fifo' \in [Cell -> Byte \cup {Blank}]
      /\ \A p \in 0 .. RxAvail - 1 :
            fifo'[WrapOnce(tail + p)] = fifo[WrapOnce(tail + p)]
      /\ \A k \in 0 .. wmsg.hlen - 1 :
            fifo'[WrapOnce(head + k)] = Byteof(wmsg, k)
  BY <1>1, <1>2, <1>3, WriteSpares
<1>6. whead' \in Cell
  BY <1>1, <1>2, HeadOffset, StateFacts DEF IndInv, ReservesKept
<1>7. TypeOK'
  BY <1>1, <1>5, <1>6 DEF IndInv, TypeOK, reader
<1>8. UnreadIntact'
  BY <1>1, <1>5, IntactKept
<1>9. WriterInv'
  <2>1. Staged(wmsg.hlen)'
    BY <1>1, <1>5 DEF Staged, WrapOnce
  <2>2. wmsg.dlen = 0 => TxBytes(wmsg) = wmsg.hlen
    BY <1>2 DEF TxBytes
  <2>3. wpc' = "publish" => Staged(TxBytes(wmsg))'
    BY <1>1, <1>2, <2>1, <2>2
  <2> QED
    BY <1>1, <2>1, <2>3 DEF IndInv, WriterInv, WrapOnce
<1>10. ReservesKept'
  BY <1>1, <1>4 DEF IndInv, ReservesKept
<1>11. Contiguous' /\ ReaderInv' /\ WholeMessage' /\ NeverRefused'
  BY <1>1, <1>4 DEF IndInv, reader, Contiguous, ReaderInv, WholeMessage,
                    NeverRefused, End
<1> QED
  BY <1>7, <1>8, <1>9, <1>10, <1>11 DEF IndInv

(* qpg_tx_write_one of the data. *)
LEMMA TxDataInv ==
    ASSUME IndInv, TxData
    PROVE  IndInv'
<1>1. /\ wpc = "data" /\ wmsg \in Message /\ whead = WrapOnce(head + wmsg.hlen)
      /\ Staged(wmsg.hlen)
      /\ UNCHANGED <<head, tail, wmsg, wnext, reader, unread>>
      /\ wpc' = "publish"
      /\ whead' = WrapOnce(whead + wmsg.dlen)
      /\ fifo' = Written(whead, wmsg.dlen, wmsg, wmsg.hlen)
  BY DEF TxData, IndInv, WriterInv
<1>2. /\ wmsg.hlen \in Nat /\ wmsg.dlen \in Nat /\ TxLen(wmsg) \in Nat
      /\ TxBytes(wmsg) = wmsg.hlen + wmsg.dlen
      /\ TxBytes(wmsg) <= TxLen(wmsg) /\ TxBytes(wmsg) \in Nat
  BY <1>1, MessageFacts
<1>4. RxAvail' = RxAvail
  BY <1>1 DEF RxAvail
<1>5. /\ fifo' \in [Cell -> Byte \cup {Blank}]
      /\ \A p \in 0 .. RxAvail - 1 :
            fifo'[WrapOnce(tail + p)] = fifo[WrapOnce(tail + p)]
      /\ \A k \in 0 .. wmsg.hlen - 1 :
            fifo'[WrapOnce(head + k)] = fifo[WrapOnce(head + k)]
      /\ \A k \in wmsg.hlen .. TxBytes(wmsg) - 1 :
            fifo'[WrapOnce(head + k)] = Byteof(wmsg, k)
  BY <1>1, <1>2, WriteSpares
<1>6. whead' \in Cell
  <2>1. /\ wmsg.hlen \in 0 .. FifoLen - 1 /\ wmsg.dlen \in 0 .. FifoLen - 1
    BY <1>1, <1>2, StateFacts DEF IndInv, ReservesKept
  <2> QED
    BY <1>1, <2>1, StateFacts, WrapShift
<1>7. TypeOK'
  BY <1>1, <1>5, <1>6 DEF IndInv, TypeOK, reader
<1>8. UnreadIntact'
  BY <1>1, <1>5, IntactKept
<1>9. WriterInv'
  <2>1. Staged(TxBytes(wmsg))'
    <3>0. wmsg' = wmsg /\ head' = head
      BY <1>1
    <3>1. ASSUME NEW k \in 0 .. TxBytes(wmsg) - 1
          PROVE  fifo'[WrapOnce(head + k)] = Byteof(wmsg, k)
      <4>1. CASE k < wmsg.hlen
        BY <4>1, <1>1, <1>2, <1>5 DEF Staged
      <4>2. CASE ~(k < wmsg.hlen)
        BY <4>2, <1>2, <1>5
      <4> QED
        BY <4>1, <4>2
    <3> QED
      BY <3>0, <3>1 DEF Staged, WrapOnce
  <2> QED
    BY <1>1, <2>1 DEF IndInv, WriterInv, WrapOnce
<1>10. ReservesKept'
  BY <1>1, <1>4 DEF IndInv, ReservesKept
<1>11. Contiguous' /\ ReaderInv' /\ WholeMessage' /\ NeverRefused'
  BY <1>1, <1>4 DEF IndInv, reader, Contiguous, ReaderInv, WholeMessage,
                    NeverRefused, End
<1> QED
  BY <1>7, <1>8, <1>9, <1>10, <1>11 DEF IndInv

(* The store to tx_head makes the message the last unread one. *)
LEMMA TxPublishInv ==
    ASSUME IndInv, TxPublish
    PROVE  IndInv'
<1> DEFINE n == TxLen(wmsg)
           e == [msg |-> wmsg, off |-> RxAvail]
<1>1. /\ wpc = "publish" /\ wmsg \in Message
      /\ head' = wnext /\ wnext = WrapOnce(head + n)
      /\ Staged(TxBytes(wmsg))
      /\ unread' = Append(unread, e)
      /\ wpc' = "idle" /\ wmsg' = NoMsg /\ whead' = 0 /\ wnext' = 0
      /\ UNCHANGED <<fifo, tail, reader>>
  BY DEF TxPublish, IndInv, WriterInv
<1>2. /\ n \in Nat /\ 0 < n /\ TxBytes(wmsg) \in Nat /\ TxBytes(wmsg) <= n
      /\ RxAvail + n + FullReserve + CmdReserve <= FifoLen
      /\ RxAvail \in Nat /\ FifoLen \in Nat \ {0}
      /\ FullReserve \in Nat \ {0} /\ CmdReserve \in Nat
      /\ head \in Cell /\ tail \in Cell /\ wnext \in Cell
  BY <1>1, MessageFacts, StateFacts DEF IndInv, ReservesKept
<1>3. RxAvail' = RxAvail + n
  <2> HIDE DEF n
  <2> QED
    BY <1>1, <1>2 DEF RxAvail, WrapOnce, Cell
<1>4. /\ unread \in Seq([msg : Message, off : Nat])
      /\ e \in [msg : Message, off : Nat]
      /\ unread' \in Seq([msg : Message, off : Nat])
  BY <1>1, <1>2 DEF IndInv, TypeOK
<1>5. /\ Len(unread') = Len(unread) + 1 /\ Len(unread) \in Nat
      /\ unread'[Len(unread) + 1] = e
      /\ \A i \in 1 .. Len(unread) : unread'[i] = unread[i]
  BY <1>1, <1>4
<1>6. e.msg = wmsg /\ e.off = RxAvail
  OBVIOUS
<1>last. PICK last \in Nat : last = Len(unread) + 1
  BY <1>5
<1> HIDE DEF n, e
<1>7. TypeOK'
  <2>1. 0 \in Cell
    BY <1>2 DEF Cell
  <2> QED
    BY <2>1, <1>1, <1>2, <1>4 DEF IndInv, TypeOK, reader
<1>8. /\ End(last)' = RxAvail + n
      /\ \A i \in 1 .. Len(unread) : /\ End(i)' = End(i)
                                     /\ End(i) <= RxAvail /\ End(i) \in Nat
  <2>1. End(last)' = RxAvail + n
    <3>1. unread'[last].off = RxAvail /\ unread'[last].msg = wmsg
      BY <1>5, <1>6, <1>last
    <3> QED
      BY <3>1 DEF n, End
  <2>2. ASSUME NEW i \in 1 .. Len(unread)
        PROVE  End(i)' = End(i) /\ End(i) <= RxAvail /\ End(i) \in Nat
    <3>1. unread[i].msg \in Message /\ unread[i].off \in Nat
      BY StateFacts
    <3>2. TxLen(unread[i].msg) \in Nat
      BY <3>1, MessageFacts
    <3>3. unread'[i] = unread[i]
      BY <1>5
    <3>4. End(i) <= RxAvail
      BY DEF IndInv, Contiguous
    <3> QED
      BY <3>1, <3>2, <3>3, <3>4 DEF End
  <2> QED
    BY <2>1, <2>2
<1>9. Contiguous'
  <2>1. /\ unread' # <<>>
        /\ unread'[1].off = 0
        /\ End(Len(unread))' = RxAvail'
    <3>0. End(Len(unread))' = RxAvail'
      <4>1. Len(unread') = last
        BY <1>5, <1>last
      <4>2. End(Len(unread))' = unread'[last].off + TxLen(unread'[last].msg)
        BY <4>1 DEF End
      <4> QED
        BY <4>2, <1>3, <1>5, <1>6, <1>last DEF n
    <3>1. CASE unread = <<>>
      <4>1. Len(unread) = 0 /\ RxAvail = 0
        BY <3>1 DEF IndInv, Contiguous
      <4>2. unread' # <<>>
        BY <1>1, <1>4, AppendProperties
      <4>3. unread'[1] = e
        BY <4>1, <1>5
      <4> QED
        BY <4>1, <4>2, <4>3, <3>0, <1>6
    <3>2. CASE unread # <<>>
      <4>1. Len(unread) >= 1 /\ unread[1].off = 0
        BY <3>2, <1>4 DEF IndInv, Contiguous
      <4>2. unread'[1] = unread[1]
        BY <4>1, <1>5
      <4>4. unread' # <<>>
        BY <1>4, <1>5
      <4> QED
        BY <4>1, <4>2, <3>0, <4>4
    <3> QED
      BY <3>1, <3>2
  <2>2. \A i \in 1 .. Len(unread') : End(i)' <= RxAvail'
    <3> SUFFICES ASSUME NEW i \in 1 .. Len(unread') PROVE End(i)' <= RxAvail'
      OBVIOUS
    <3>1. CASE i = Len(unread) + 1
      BY <3>1, <1>2, <1>3, <1>8, <1>last
    <3>2. CASE i # Len(unread) + 1
      <4>1. i \in 1 .. Len(unread)
        BY <3>2, <1>5
      <4>2. End(i)' = End(i) /\ End(i) <= RxAvail /\ End(i) \in Nat
        BY <4>1, <1>8
      <4> QED
        BY <4>2, <1>2, <1>3
    <3> QED
      BY <3>1, <3>2
  <2>3. \A i \in 1 .. Len(unread') - 1 : unread'[i + 1].off = End(i)'
    <3> SUFFICES ASSUME NEW i \in 1 .. Len(unread)
                 PROVE  unread'[i + 1].off = End(i)'
      BY <1>5
    <3>1. CASE i = Len(unread)
      <4>1. unread # <<>>
        BY <3>1, <1>4
      <4>2. End(i) = RxAvail
        BY <4>1, <3>1 DEF IndInv, Contiguous
      <4> QED
        BY <4>2, <3>1, <1>5, <1>6, <1>8
    <3>2. CASE i # Len(unread)
      <4>1. i \in 1 .. Len(unread) - 1 /\ i + 1 \in 1 .. Len(unread)
        BY <3>2, <1>5
      <4>2. unread[i + 1].off = End(i)
        BY <4>1 DEF IndInv, Contiguous
      <4> QED
        BY <4>1, <4>2, <1>5, <1>8
    <3> QED
      BY <3>1, <3>2
  <2>4. ASSUME NEW i \in 1 .. Len(unread'), NEW j \in 1 .. Len(unread'), i < j
        PROVE  End(i)' <= unread'[j].off
    <3>0. i \in 1 .. Len(unread)
      BY <2>4, <1>5
    <3>1. CASE j = Len(unread) + 1
      BY <3>0, <3>1, <1>2, <1>5, <1>6, <1>8
    <3>2. CASE j # Len(unread) + 1
      <4>1. j \in 1 .. Len(unread)
        BY <3>2, <1>5
      <4>2. End(i) <= unread[j].off
        BY <4>1, <3>0, <2>4 DEF IndInv, Contiguous
      <4> QED
        BY <4>1, <4>2, <3>0, <1>5, <1>8
    <3> QED
      BY <3>1, <3>2
  <2> QED
    BY <2>1, <2>2, <2>3, <2>4 DEF Contiguous
<1>10. ReservesKept'
  BY <1>1, <1>2, <1>3 DEF ReservesKept
<1>11. WriterInv'
  BY <1>1 DEF WriterInv
<1>12. ReaderInv' /\ WholeMessage' /\ NeverRefused'
  <2>1. unread # <<>> => unread' # <<>> /\ unread'[1] = unread[1]
    BY <1>4, <1>5
  <2>2. unread # <<>> => Head(unread) = unread[1] /\ Head(unread)' = unread'[1]
    BY <1>4, <1>5
  <2> QED
    BY <2>1, <2>2, <1>1 DEF IndInv, reader, ReaderInv, WholeMessage, NeverRefused
<1>13. UnreadIntact'
  <2> SUFFICES ASSUME NEW i \in 1 .. Len(unread'),
                      NEW k \in 0 .. TxBytes(unread'[i].msg) - 1
               PROVE  fifo[WrapOnce(tail + unread'[i].off + k)]
                         = Byteof(unread'[i].msg, k)
    BY <1>1 DEF UnreadIntact, WrapOnce
  <2>1. CASE i = Len(unread) + 1
    <3>1. unread'[i].msg = wmsg /\ unread'[i].off = RxAvail
      BY <2>1, <1>5, <1>6
    <3>2. k \in 0 .. TxBytes(wmsg) - 1 /\ k \in Nat
      BY <3>1, <1>2
    <3>3. RxAvail + k < FifoLen
      BY <3>2, <1>2
    <3>4. WrapOnce(head + k) = WrapOnce(tail + RxAvail + k)
      BY <3>2, <3>3, <1>2, HeadOffset
    <3>5. fifo[WrapOnce(head + k)] = Byteof(wmsg, k)
      BY <3>2, <1>1 DEF Staged
    <3> QED
      BY <3>1, <3>4, <3>5
  <2>2. CASE i # Len(unread) + 1
    <3>1. i \in 1 .. Len(unread) /\ unread'[i] = unread[i]
      BY <2>2, <1>5
    <3> QED
      BY <3>1 DEF IndInv, UnreadIntact
  <2> QED
    BY <2>1, <2>2
<1> QED
  BY <1>7, <1>9, <1>10, <1>11, <1>12, <1>13 DEF IndInv

(* qpg_poll's reading of the pointers. *)
LEMMA RxPollInv ==
    ASSUME IndInv, RxPoll
    PROVE  IndInv'
<1>1. /\ rpc = "idle" /\ rpc' = "header" /\ ravail' = RxAvail
      /\ RxAvail >= MsgHdr
      /\ UNCHANGED <<fifo, head, tail, writer, rmsg, rbuf, rret, received, unread>>
  BY DEF RxPoll
<1>2. RxAvail \in Nat /\ 0 < MsgHdr /\ MsgHdr \in Nat
  BY StateFacts, FifoAssumption
<1>3. RxAvail' = RxAvail
  BY <1>1 DEF RxAvail
<1>4. unread # <<>>
  BY <1>1, <1>2 DEF IndInv, Contiguous
<1>5. RxAvail >= TxLen(unread[1].msg)
  <2>1. 1 \in 1 .. Len(unread)
    BY <1>4, StateFacts
  <2>2. unread[1].off = 0 /\ End(1) <= RxAvail /\ unread[1].msg \in Message
    BY <2>1, <1>4, StateFacts DEF IndInv, Contiguous
  <2>3. TxLen(unread[1].msg) \in Nat
    BY <2>2, MessageFacts
  <2> QED
    BY <2>2, <2>3, <1>2 DEF End
<1>6. TypeOK'
  BY <1>1, StateFacts DEF IndInv, TypeOK, writer
<1>7. ReaderInv' /\ WholeMessage' /\ NeverRefused'
  BY <1>1, <1>4, <1>5 DEF IndInv, ReaderInv, WholeMessage, NeverRefused
<1>8. Contiguous' /\ WriterInv' /\ ReservesKept' /\ UnreadIntact'
  BY <1>1, <1>3 DEF IndInv, writer, Contiguous, WriterInv, ReservesKept,
                    UnreadIntact, Staged, End
<1> QED
  BY <1>6, <1>7, <1>8 DEF IndInv

(* The header at the tail is the one of the oldest unread message, and     *)
(* qpg_rx_packet_len accepts it.                                           *)
LEMMA HeaderAccepted ==
    ASSUME IndInv, rpc = "header"
    PROVE  /\ unread # <<>> /\ unread[1].msg \in Message
           /\ Announced = unread[1].msg
           /\ PacketRet(Announced) = "ok"
<1> DEFINE m == unread[1].msg
<1>1. unread # <<>> /\ ravail >= TxLen(m)
  BY DEF IndInv, ReaderInv
<1>2. 1 \in 1 .. Len(unread) /\ m \in Message /\ unread[1].off = 0
      /\ End(1) <= RxAvail
  BY <1>1, StateFacts DEF IndInv, Contiguous
<1>3. /\ TxLen(m) \in Nat /\ RxLen(m) = TxLen(m)
      /\ TxBytes(m) \in Nat /\ RxBytes(m) \in Nat
      /\ TxBytes(m) <= TxLen(m) /\ RxBytes(m) <= TxBytes(m)
      /\ m.rhdr \in Nat /\ m.rpay \in Nat /\ RxBytes(m) = m.rhdr + m.rpay
      /\ 0 < MsgHdr /\ MsgHdr \in Nat /\ MsgHdr <= m.rhdr
  BY <1>2, MessageFacts, FifoAssumption
<1>4. RxAvail \in Nat /\ RxAvail < FifoLen /\ FifoLen \in Nat /\ tail \in Cell
      /\ ravail \in Nat
  BY StateFacts DEF IndInv, TypeOK
<1>5. TxLen(m) <= RxAvail
  BY <1>2, <1>3, <1>4 DEF End
<1>6. Announced = m
  <2>1. Peek(0, MsgHdr)[0] = fifo[WrapOnce(tail + 0)]
    <3>1. MsgHdr \in 0 .. FifoLen /\ 0 \in 0 .. MsgHdr - 1
      BY <1>3, <1>4, <1>5
    <3> QED
      BY <3>1, <1>4, PeekFacts
  <2>2. fifo[WrapOnce(tail + unread[1].off + 0)] = Byteof(m, 0)
    <3>1. 0 \in 0 .. TxBytes(m) - 1
      BY <1>3
    <3> QED
      BY <3>1, <1>2 DEF IndInv, UnreadIntact
  <2>3. tail + unread[1].off + 0 = tail + 0
    BY <1>2, <1>4 DEF Cell
  <2>4. Byteof(m, 0) \in Byte /\ Byteof(m, 0).msg = m
    BY <1>2 DEF Byteof, Byte
  <2> QED
    BY <2>1, <2>2, <2>3, <2>4 DEF Announced
<1>7. m # NoMsg
  BY <1>2, MessageAssumption
<1>8. ~(ravail < m.rhdr) /\ ~(m.rpay > ravail - m.rhdr) /\ ~(RxLen(m) > ravail)
  BY <1>1, <1>3, <1>4
<1> QED
  BY <1>1, <1>2, <1>6, <1>7, <1>8 DEF PacketRet

(* Reading the header leaves the invariant: the packet is accepted. *)
LEMMA RxHeaderInv ==
    ASSUME IndInv, RxHeader
    PROVE  IndInv'
<1>1. /\ rpc = "header" /\ unread # <<>> /\ unread[1].msg \in Message
      /\ Announced = unread[1].msg /\ PacketRet(Announced) = "ok"
  BY HeaderAccepted DEF RxHeader
<1>2. /\ rret' = "ok" /\ rpc' = "payload" /\ rmsg' = unread[1].msg
      /\ UNCHANGED <<fifo, head, tail, writer, ravail, rbuf, received, unread>>
  BY <1>1 DEF RxHeader
<1>3. RxAvail' = RxAvail
  BY <1>2 DEF RxAvail
<1>4. TypeOK'
  BY <1>1, <1>2 DEF IndInv, TypeOK, writer
<1>5. ReaderInv' /\ WholeMessage' /\ NeverRefused'
  BY <1>1, <1>2 DEF IndInv, ReaderInv, WholeMessage, NeverRefused
<1>6. Contiguous' /\ WriterInv' /\ ReservesKept' /\ UnreadIntact'
  BY <1>2, <1>3 DEF IndInv, writer, Contiguous, WriterInv, ReservesKept,
                    UnreadIntact, Staged, End
<1> QED
  BY <1>4, <1>5, <1>6 DEF IndInv

(* The handlers copy what they use from the ring. *)
LEMMA RxPayloadInv ==
    ASSUME IndInv, RxPayload
    PROVE  IndInv'
<1> DEFINE m == unread[1].msg
<1>1. /\ rpc = "payload" /\ unread # <<>> /\ rmsg = m
      /\ rpc' = "advance" /\ rbuf' = Peek(0, RxBytes(rmsg))
      /\ UNCHANGED <<fifo, head, tail, writer, ravail, rmsg, rret, received,
                     unread>>
  BY DEF RxPayload, IndInv, ReaderInv
<1>2. /\ 1 \in 1 .. Len(unread) /\ m \in Message /\ unread[1].off = 0
      /\ End(1) <= RxAvail
  BY <1>1, StateFacts DEF IndInv, Contiguous
<1>3. /\ TxLen(m) \in Nat /\ TxBytes(m) \in Nat /\ RxBytes(m) \in Nat
      /\ TxBytes(m) <= TxLen(m) /\ RxBytes(m) <= TxBytes(m)
  BY <1>2, MessageFacts
<1>4. /\ RxAvail \in Nat /\ RxAvail < FifoLen /\ FifoLen \in Nat
      /\ tail \in Cell /\ tail \in Nat
  BY StateFacts DEF Cell
<1>5. RxBytes(m) \in 0 .. FifoLen
  BY <1>2, <1>3, <1>4 DEF End
<1>6. ASSUME NEW k \in 0 .. RxBytes(m) - 1
      PROVE  rbuf'[k] = Byteof(m, k)
  <2>1. rbuf'[k] = fifo[WrapOnce(tail + k)]
    BY <1>1, <1>4, <1>5, PeekFacts
  <2>2. k \in 0 .. TxBytes(m) - 1
    BY <1>3
  <2>3. fifo[WrapOnce(tail + unread[1].off + k)] = Byteof(m, k)
    BY <2>2, <1>2 DEF IndInv, UnreadIntact
  <2>4. tail + unread[1].off + k = tail + k
    BY <1>2, <1>4
  <2> QED
    BY <2>1, <2>3, <2>4
<1>7. RxAvail' = RxAvail
  BY <1>1 DEF RxAvail
<1>8. TypeOK'
  BY <1>1 DEF IndInv, TypeOK, writer
<1>9. WholeMessage'
  <2>1. Head(unread') = unread[1] /\ unread' # <<>> /\ rmsg' = m
    BY <1>1 DEF IndInv, TypeOK
  <2> QED
    BY <2>1, <1>6 DEF WholeMessage
<1>10. ReaderInv' /\ NeverRefused'
  BY <1>1 DEF IndInv, ReaderInv, NeverRefused
<1>11. Contiguous' /\ WriterInv' /\ ReservesKept' /\ UnreadIntact'
  BY <1>1, <1>7 DEF IndInv, writer, Contiguous, WriterInv, ReservesKept,
                    UnreadIntact, Staged, End
<1> QED
  BY <1>8, <1>9, <1>10, <1>11 DEF IndInv

(* qpg_rx_advance: the oldest message leaves, the others move up. *)
LEMMA RxAdvanceInv ==
    ASSUME IndInv, RxAdvance
    PROVE  IndInv'
<1> DEFINE m == unread[1].msg
           n == TxLen(m)
<1>1. /\ rpc = "advance" /\ unread # <<>> /\ rmsg = m
      /\ tail' = WrapMod(tail + RxLen(rmsg)) /\ received' = rmsg
      /\ unread' = [i \in 1 .. Len(unread) - 1 |->
                      [msg |-> unread[i + 1].msg,
                       off |-> unread[i + 1].off - RxLen(rmsg)]]
      /\ rpc' = "idle" /\ rmsg' = NoMsg /\ ravail' = 0
      /\ UNCHANGED <<fifo, head, writer, rret>>
  BY DEF RxAdvance, IndInv, ReaderInv
<1>2. /\ Len(unread) \in Nat /\ 1 \in 1 .. Len(unread) /\ m \in Message
      /\ unread[1].off = 0 /\ End(1) <= RxAvail
  BY <1>1, StateFacts DEF IndInv, Contiguous
<1>3. n \in Nat /\ RxLen(rmsg) = n
  BY <1>1, <1>2, MessageFacts
<1>4. /\ RxAvail \in Nat /\ RxAvail < FifoLen /\ FifoLen \in Nat
      /\ tail \in Cell /\ tail \in Nat /\ tail < FifoLen /\ head \in Cell
  BY StateFacts DEF Cell
<1>5. n <= RxAvail /\ End(1) = n
  BY <1>2, <1>3, <1>4 DEF End
<1> HIDE DEF n
<1>6. tail' = WrapOnce(tail + n) /\ tail' \in Cell
  <2>1. tail + n \in Nat /\ tail + n < FifoLen + FifoLen
    BY <1>3, <1>4, <1>5
  <2>2. WrapMod(tail + n) = WrapOnce(tail + n)
    BY <2>1, ModOnce
  <2> QED
    BY <2>1, <2>2, <1>1, <1>3, <1>4, <1>5 DEF WrapOnce, Cell
<1>7. RxAvail' = RxAvail - n
  BY <1>1, <1>3, <1>4, <1>5, <1>6 DEF RxAvail, WrapOnce, Cell
<1>8. ASSUME NEW i \in 1 .. Len(unread) - 1
      PROVE  /\ i + 1 \in 1 .. Len(unread)
             /\ unread[i + 1].msg \in Message
             /\ unread[i + 1].off - n \in Nat
             /\ unread[i + 1].off \in Nat
             /\ unread'[i] = [msg |-> unread[i + 1].msg,
                              off |-> unread[i + 1].off - n]
             /\ unread'[i].msg = unread[i + 1].msg
             /\ unread'[i].off = unread[i + 1].off - n
  <2>1. i + 1 \in 1 .. Len(unread) /\ 1 < i + 1
    BY <1>2
  <2>2. unread[i + 1].msg \in Message /\ unread[i + 1].off \in Nat
    BY <2>1, StateFacts
  <2>3. End(1) <= unread[i + 1].off
    BY <2>1, <1>2 DEF IndInv, Contiguous
  <2>4. unread[i + 1].off - n \in Nat
    BY <2>2, <2>3, <1>3, <1>5
  <2>5. unread'[i] = [msg |-> unread[i + 1].msg, off |-> unread[i + 1].off - n]
    BY <1>1, <1>3
  <2> QED
    BY <2>1, <2>2, <2>4, <2>5
<1>9. unread' \in Seq([msg : Message, off : Nat]) /\ Len(unread') = Len(unread) - 1
  <2>1. \A i \in 1 .. Len(unread) - 1 :
           [msg |-> unread[i + 1].msg, off |-> unread[i + 1].off - n]
              \in [msg : Message, off : Nat]
    BY <1>8
  <2>2. Len(unread) - 1 \in Nat
    BY <1>2
  <2>3. unread' \in [1 .. Len(unread) - 1 -> [msg : Message, off : Nat]]
    BY <2>1, <1>1, <1>3
  <2> QED
    BY <2>2, <2>3, SeqFunction
<1>10. TypeOK'
  <2>1. received' \in Message
    BY <1>1, <1>2
  <2> QED
    BY <2>1, <1>1, <1>4, <1>6, <1>9 DEF IndInv, TypeOK, writer
<1>11. ASSUME NEW i \in 1 .. Len(unread) - 1
       PROVE  /\ End(i)' = End(i + 1) - n
              /\ End(i + 1) \in Nat /\ End(i + 1) <= RxAvail
  <2>1. TxLen(unread[i + 1].msg) \in Nat
    BY <1>8, MessageFacts
  <2>2. End(i + 1) <= RxAvail
    BY <1>8 DEF IndInv, Contiguous
  <2>3. End(i)' = (unread[i + 1].off - n) + TxLen(unread[i + 1].msg)
    BY <1>8 DEF End
  <2>4. End(i + 1) = unread[i + 1].off + TxLen(unread[i + 1].msg)
    BY DEF End
  <2>5. unread[i + 1].off \in Nat
    BY <1>8
  <2> QED
    BY <2>1, <2>2, <2>3, <2>4, <2>5, <1>3
<1>12. Contiguous'
  <2>1. ASSUME unread' = <<>> PROVE RxAvail' = 0
    <3>1. Len(unread) = 1
      BY <2>1, <1>2, <1>9
    <3>2. End(1) = RxAvail
      BY <3>1, <1>1 DEF IndInv, Contiguous
    <3> QED
      BY <3>2, <1>3, <1>5, <1>7
  <2>2. ASSUME unread' # <<>>
        PROVE  unread'[1].off = 0 /\ End(Len(unread))' = RxAvail'
    <3>1. 1 \in 1 .. Len(unread) - 1
      BY <2>2, <1>9, <1>2
    <3>2. unread[1 + 1].off = End(1)
      BY <3>1 DEF IndInv, Contiguous
    <3>3. unread'[1].off = 0
      <4>1. unread'[1].off = unread[1 + 1].off - n
        BY <3>1, <1>8
      <4> QED
        BY <4>1, <3>2, <1>3, <1>5
    <3>4. PICK l \in 1 .. Len(unread) - 1 : l = Len(unread) - 1
      BY <3>1, <1>2
    <3>5. l + 1 = Len(unread) /\ l = Len(unread')
      BY <3>4, <1>2, <1>9
    <3>6. End(l + 1) = RxAvail
      BY <3>5, <1>1 DEF IndInv, Contiguous
    <3>7. End(Len(unread))' = End(l)'
      BY <3>5 DEF End
    <3> QED
      BY <3>3, <3>4, <3>6, <3>7, <1>7, <1>11
  <2>3. \A i \in 1 .. Len(unread') : End(i)' <= RxAvail'
    BY <1>3, <1>4, <1>7, <1>9, <1>11
  <2>4. ASSUME NEW i \in 1 .. Len(unread') - 1
        PROVE  unread'[i + 1].off = End(i)'
    <3>1. /\ i \in 1 .. Len(unread) - 1 /\ i + 1 \in 1 .. Len(unread) - 1
      BY <1>2, <1>9
    <3>2. unread[(i + 1) + 1].off = End(i + 1)
      BY <3>1 DEF IndInv, Contiguous
    <3> QED
      BY <3>1, <3>2, <1>3, <1>8, <1>11
  <2>5. ASSUME NEW i \in 1 .. Len(unread'), NEW j \in 1 .. Len(unread'), i < j
        PROVE  End(i)' <= unread'[j].off
    <3>1. /\ i \in 1 .. Len(unread) - 1 /\ j \in 1 .. Len(unread) - 1
          /\ i + 1 \in 1 .. Len(unread) /\ j + 1 \in 1 .. Len(unread)
          /\ i + 1 < j + 1
      BY <1>2, <1>9, <2>5
    <3>2. End(i + 1) <= unread[j + 1].off
      BY <3>1 DEF IndInv, Contiguous
    <3>3. /\ End(i)' = End(i + 1) - n /\ End(i + 1) \in Nat
          /\ unread'[j].off = unread[j + 1].off - n /\ unread[j + 1].off \in Nat
      BY <3>1, <1>8, <1>11
    <3> QED
      BY <3>2, <3>3, <1>3
  <2> QED
    BY <2>1, <2>2, <2>3, <2>4, <2>5 DEF Contiguous
<1>13. ReservesKept'
  <2> DEFINE claimed == IF wpc = "idle" THEN 0 ELSE TxLen(wmsg)
  <2>1. claimed \in Nat
    BY MessageFacts DEF IndInv, WriterInv
  <2>2. RxAvail + claimed + FullReserve + CmdReserve <= FifoLen
    BY DEF IndInv, ReservesKept
  <2>3. claimed' = claimed
    BY <1>1 DEF writer
  <2> HIDE DEF claimed
  <2>4. RxAvail' + claimed' + FullReserve + CmdReserve <= FifoLen
    BY <2>1, <2>2, <2>3, <1>3, <1>4, <1>7, FifoAssumption
  <2> QED
    BY <2>4 DEF ReservesKept, claimed
<1>14. UnreadIntact'
  <2> SUFFICES ASSUME NEW i \in 1 .. Len(unread'),
                      NEW k \in 0 .. TxBytes(unread'[i].msg) - 1
               PROVE  fifo[WrapOnce(tail' + unread'[i].off + k)]
                         = Byteof(unread'[i].msg, k)
    BY <1>1 DEF UnreadIntact, WrapOnce
  <2>1. i \in 1 .. Len(unread) - 1 /\ i + 1 \in 1 .. Len(unread)
    BY <1>2, <1>9
  <2> DEFINE o == unread[i + 1].off - n
  <2>2. /\ unread'[i].off = o /\ unread'[i].msg = unread[i + 1].msg
        /\ o \in Nat /\ unread[i + 1].off \in Nat
        /\ unread[i + 1].msg \in Message
    BY <2>1, <1>8
  <2>3. /\ TxBytes(unread[i + 1].msg) \in Nat /\ TxLen(unread[i + 1].msg) \in Nat
        /\ TxBytes(unread[i + 1].msg) <= TxLen(unread[i + 1].msg)
    BY <2>2, MessageFacts
  <2>4. k \in Nat /\ k < TxBytes(unread[i + 1].msg)
    BY <2>2, <2>3
  <2>5. End(i + 1) <= RxAvail
    BY <2>1 DEF IndInv, Contiguous
  <2>6. /\ n \in 0 .. FifoLen - 1 /\ o + k \in 0 .. FifoLen - 1
        /\ n + (o + k) < FifoLen
        /\ n + (o + k) = unread[i + 1].off + k
    <3>1. End(i + 1) = unread[i + 1].off + TxLen(unread[i + 1].msg)
      BY DEF End
    <3>2. unread[i + 1].off = o + n
      BY <2>2, <1>3
    <3>3. (o + n) + TxLen(unread[i + 1].msg) <= RxAvail
      BY <3>1, <3>2, <2>5
    <3> HIDE DEF o
    <3>4. o \in Nat
      BY <2>2
    <3> QED
      BY <3>2, <3>3, <3>4, <2>3, <2>4, <1>3, <1>4, <1>5
  <2>7. WrapOnce(tail' + (o + k)) = WrapOnce(tail + (unread[i + 1].off + k))
    <3> HIDE DEF o
    <3>1. WrapOnce(WrapOnce(tail + n) + (o + k)) = WrapOnce(tail + (n + (o + k)))
      BY <2>6, <1>4, WrapShift
    <3> QED
      BY <3>1, <2>6, <1>6
  <2>8. /\ tail' + unread'[i].off + k = tail' + (o + k)
        /\ tail + unread[i + 1].off + k = tail + (unread[i + 1].off + k)
    BY <2>2, <2>4, <1>4, <1>6 DEF Cell
  <2>9. fifo[WrapOnce(tail + unread[i + 1].off + k)] = Byteof(unread[i + 1].msg, k)
    <3>1. k \in 0 .. TxBytes(unread[i + 1].msg) - 1
      BY <2>2
    <3> QED
      BY <3>1, <2>1 DEF IndInv, UnreadIntact
  <2> QED
    BY <2>2, <2>7, <2>8, <2>9
<1>15. WriterInv'
  BY <1>1 DEF IndInv, writer, WriterInv, Staged
<1>16. ReaderInv' /\ WholeMessage' /\ NeverRefused'
  BY <1>1 DEF IndInv, ReaderInv, WholeMessage, NeverRefused
<1> QED
  BY <1>10, <1>12, <1>13, <1>14, <1>15, <1>16 DEF IndInv

-----------------------------------------------------------------------------
(* The theorems. *)

(* A step of neither side leaves the invariant. *)
LEMMA StutterInv ==
    ASSUME IndInv, UNCHANGED vars
    PROVE  IndInv'
<1>1. RxAvail' = RxAvail
  BY DEF vars, RxAvail
<1> QED
  BY <1>1 DEF vars, writer, reader, IndInv, TypeOK, Contiguous, WriterInv,
              ReaderInv, ReservesKept, UnreadIntact, WholeMessage,
              NeverRefused, Staged, End

(* Every state of the ring satisfies the inductive invariant. *)
THEOREM RingInvariant == Spec => []IndInv
<1>1. IndInv /\ [Next]_vars => IndInv'
  BY TxBeginInv, TxHeaderInv, TxDataInv, TxPublishInv, RxPollInv,
     RxHeaderInv, RxPayloadInv, RxAdvanceInv, StutterInv DEF Next
<1> QED
  BY <1>1, InitInv, PTL DEF Spec

(* Every message qpg_poll consumes is the oldest one qpg_tx published,     *)
(* byte for byte, whatever the size of the ring and of the messages.       *)
THEOREM ReceivesWholeMessages == Spec => []WholeMessage
<1>1. IndInv => WholeMessage
  BY DEF IndInv
<1> QED
  BY <1>1, RingInvariant, PTL

(* qpg_rx_packet_len never refuses a packet of qpg_tx. *)
THEOREM PacketsNeverRefused == Spec => []NeverRefused
<1>1. IndInv => NeverRefused
  BY DEF IndInv
<1> QED
  BY <1>1, RingInvariant, PTL

(* Equal pointers mean an empty ring and nothing else. *)
THEOREM PointersTellEmpty == Spec => []EmptyIffEqual
<1>1. IndInv => EmptyIffEqual
  <2> SUFFICES ASSUME IndInv PROVE EmptyIffEqual
    OBVIOUS
  <2>1. (RxAvail = 0) <=> (head = tail)
    BY StateFacts, PointerFacts
  <2>2. unread = <<>> => RxAvail = 0
    BY DEF IndInv, Contiguous
  <2>3. ASSUME unread # <<>> PROVE RxAvail # 0
    <3>1. /\ 1 \in 1 .. Len(unread) /\ unread[1].msg \in Message
          /\ unread[1].off = 0 /\ End(1) <= RxAvail
      BY <2>3, StateFacts DEF IndInv, Contiguous
    <3>2. TxLen(unread[1].msg) \in Nat /\ 0 < TxLen(unread[1].msg)
      BY <3>1, MessageFacts
    <3> QED
      BY <3>1, <3>2, StateFacts DEF End
  <2> QED
    BY <2>1, <2>2, <2>3 DEF EmptyIffEqual
<1> QED
  BY <1>1, RingInvariant, PTL

(* The two reserves stay free, the bytes still being written counted in.  *)
THEOREM ReservesStayFree == Spec => []ReservesKept
<1>1. IndInv => ReservesKept
  BY DEF IndInv
<1> QED
  BY <1>1, RingInvariant, PTL

(* No byte of a published message changes before it is consumed. *)
THEOREM PublishedBytesStay == Spec => []UnreadIntact
<1>1. IndInv => UnreadIntact
  BY DEF IndInv
<1> QED
  BY <1>1, RingInvariant, PTL

(* Publishing appends one message to the abstract queue. *)
LEMMA PublishSends ==
    ASSUME IndInv, TxPublish
    PROVE  \E m \in Message : Queue!Send(m)
<1> DEFINE e == [msg |-> wmsg, off |-> RxAvail]
<1>1. /\ wmsg \in Message /\ unread' = Append(unread, e) /\ received' = received
  BY DEF TxPublish, IndInv, WriterInv, reader
<1>2. unread \in Seq([msg : Message, off : Nat]) /\ e \in [msg : Message, off : Nat]
  BY <1>1, StateFacts DEF IndInv, TypeOK
<1>3. /\ Len(unread) \in Nat /\ Len(unread') = Len(unread) + 1
      /\ \A i \in 1 .. Len(unread) : unread'[i] = unread[i]
      /\ unread'[Len(unread) + 1] = e
  BY <1>1, <1>2, AppendProperties
<1>4. Pending \in Seq(Message) /\ Len(Pending) = Len(unread)
  <2>1. Pending \in [1 .. Len(unread) -> Message]
    BY StateFacts DEF Pending
  <2> QED
    BY <2>1, <1>3, SeqFunction
<1>5. /\ Append(Pending, wmsg) \in Seq(Message)
      /\ Len(Append(Pending, wmsg)) = Len(Pending) + 1
      /\ \A i \in 1 .. Len(Pending) : Append(Pending, wmsg)[i] = Pending[i]
      /\ Append(Pending, wmsg)[Len(Pending) + 1] = wmsg
  BY <1>1, <1>4, AppendProperties
<1>6. Pending' = [i \in 1 .. Len(unread) + 1 |-> unread'[i].msg]
  BY <1>3 DEF Pending
<1>7. Pending' \in Seq(Message) /\ Len(Pending') = Len(unread) + 1
  <2>1. \A i \in 1 .. Len(unread) + 1 : unread'[i].msg \in Message
    BY <1>1, <1>3, StateFacts
  <2>2. Pending' \in [1 .. Len(unread) + 1 -> Message]
    BY <2>1, <1>6
  <2> QED
    BY <2>2, <1>3, SeqFunction
<1>8. ASSUME NEW i \in 1 .. Len(unread) + 1
      PROVE  unread'[i].msg = Append(Pending, wmsg)[i]
  <2>1. CASE i = Len(unread) + 1
    BY <2>1, <1>3, <1>4, <1>5
  <2>2. CASE i # Len(unread) + 1
    <3>1. i \in 1 .. Len(unread)
      BY <2>2, <1>3
    <3> QED
      BY <3>1, <1>3, <1>4, <1>5 DEF Pending
  <2> QED
    BY <2>1, <2>2
<1>9. Pending' = Append(Pending, wmsg)
  <2>1. \A i \in 1 .. Len(Pending') : Pending'[i] = Append(Pending, wmsg)[i]
    BY <1>6, <1>7, <1>8
  <2> QED
    BY <2>1, <1>4, <1>5, <1>7, SeqEqual
<1>10. Queue!Send(wmsg)
  BY <1>1, <1>9 DEF Queue!Send
<1> QED
  BY <1>1, <1>10

(* Advancing removes the head of the abstract queue and hands it over. *)
LEMMA AdvanceReceives ==
    ASSUME IndInv, RxAdvance
    PROVE  Queue!Receive
<1>1. /\ unread # <<>> /\ rmsg = unread[1].msg /\ received' = rmsg
      /\ unread' = [i \in 1 .. Len(unread) - 1 |->
                      [msg |-> unread[i + 1].msg,
                       off |-> unread[i + 1].off - RxLen(rmsg)]]
  BY DEF RxAdvance, IndInv, ReaderInv
<1>2. Len(unread) \in Nat /\ Len(unread) >= 1
  BY <1>1, StateFacts
<1>3. Pending \in Seq(Message) /\ Len(Pending) = Len(unread)
  <2>1. Pending \in [1 .. Len(unread) -> Message]
    BY StateFacts DEF Pending
  <2> QED
    BY <2>1, <1>2, SeqFunction
<1>4. Pending # <<>>
  BY <1>2, <1>3
<1>5. Head(Pending) = rmsg
  <2>1. Head(Pending) = Pending[1]
    BY <1>3, <1>4
  <2> QED
    BY <2>1, <1>1, <1>2 DEF Pending
<1>6. unread' \in Seq([msg : Message, off : Nat])
  BY RxAdvanceInv DEF IndInv, TypeOK
<1>7. Len(unread') = Len(unread) - 1
  <2>1. DOMAIN unread' = 1 .. Len(unread) - 1
    BY <1>1
  <2>2. DOMAIN unread' = 1 .. Len(unread') /\ Len(unread') \in Nat
    BY <1>6
  <2> QED
    BY <2>1, <2>2, <1>2
<1>8. Pending' = [i \in 1 .. Len(unread) - 1 |-> unread[i + 1].msg]
  <2>1. Pending' = [i \in 1 .. Len(unread) - 1 |-> unread'[i].msg]
    BY <1>7 DEF Pending
  <2>2. ASSUME NEW i \in 1 .. Len(unread) - 1
        PROVE  unread'[i].msg = unread[i + 1].msg
    BY <1>1
  <2> QED
    BY <2>1, <2>2
<1>9. Pending' = Tail(Pending)
  <2>1. /\ Tail(Pending) \in Seq(Message) /\ Len(Tail(Pending)) = Len(unread) - 1
        /\ \A i \in 1 .. Len(Tail(Pending)) : Tail(Pending)[i] = Pending[i + 1]
    BY <1>3, <1>4, HeadTailProperties
  <2>2. ASSUME NEW i \in 1 .. Len(unread) - 1
        PROVE  Pending[i + 1] = unread[i + 1].msg /\ unread[i + 1].msg \in Message
    <3>1. i + 1 \in 1 .. Len(unread)
      BY <1>2
    <3> QED
      BY <3>1, StateFacts DEF Pending
  <2>3. Pending' \in Seq(Message) /\ Len(Pending') = Len(unread) - 1
    <3>1. Pending' \in [1 .. Len(unread) - 1 -> Message] /\ Len(unread) - 1 \in Nat
      BY <2>2, <1>2, <1>8
    <3> QED
      BY <3>1, SeqFunction
  <2>4. \A i \in 1 .. Len(Pending') : Pending'[i] = Tail(Pending)[i]
    BY <2>1, <2>2, <2>3, <1>8
  <2> QED
    BY <2>1, <2>3, <2>4, SeqEqual
<1> QED
  BY <1>1, <1>4, <1>5, <1>9 DEF Queue!Receive

(* The ring in shared memory implements a queue of whole messages: every   *)
(* publication appends one, every advance takes the oldest, and no other   *)
(* step of either processor is visible.                                    *)
THEOREM RingIsQueue == Spec => ImplementsQueue
<1>1. Init => Queue!Init
  BY DEF Init, Queue!Init, Pending, Queue!Nothing, NoMsg
<1>2. ASSUME IndInv, [Next]_vars
      PROVE  [Queue!Next]_<<Pending, received>>
  <2> USE <1>2
  <2>1. CASE TxPublish
    BY <2>1, PublishSends DEF Queue!Next
  <2>2. CASE RxAdvance
    BY <2>2, AdvanceReceives DEF Queue!Next
  <2>3. CASE \E m \in Message : TxBegin(m)
    BY <2>3 DEF TxBegin, reader, Pending
  <2>4. CASE TxHeader \/ TxData
    BY <2>4 DEF TxHeader, TxData, reader, Pending
  <2>5. CASE RxPoll \/ RxHeader \/ RxPayload
    BY <2>5 DEF RxPoll, RxHeader, RxPayload, Pending
  <2>6. CASE UNCHANGED vars
    BY <2>6 DEF vars, reader, Pending
  <2> QED
    BY <2>1, <2>2, <2>3, <2>4, <2>5, <2>6 DEF Next
<1> QED
  BY <1>1, <1>2, RingInvariant, PTL DEF Spec, ImplementsQueue, Queue!Spec
=============================================================================

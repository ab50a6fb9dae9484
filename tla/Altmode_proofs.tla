--------------------------- MODULE Altmode_proofs ---------------------------
(***************************************************************************)
(* Proofs about the alt-mode client, for every set of connector states and *)
(* any number of changes, calls and timeouts.                              *)
(***************************************************************************)
EXTENDS Altmode, SequenceTheorems, TLAPS

USE AltmodeAssumption

-----------------------------------------------------------------------------
(* The operators. *)

(* What the client takes from a message, or from the answer to a READ.     *)
LEMMA Decodes ==
  ASSUME NEW c \in Conns, NEW kind,
         kind \in {"sc8280xp", "read"} \/ (kind = "sc8180x" /\ c.dp = (c.mux = 2))
  PROVE  /\ DpActive(kind, c) <=> DpActive("read", c)
         /\ DpActive(kind, c) => Altmode(kind, c) = Altmode("read", c)
  <1>1. c.dp \in BOOLEAN /\ c.hpd \in BOOLEAN /\ (c.mux \in {2, 3} => c.dp)
    OBVIOUS
  <1>2. DpSvid(kind, c) <=> c.dp
    BY <1>1 DEF DpSvid
  <1>3. DpActive(kind, c) <=> c.pin # NoPin /\ c.dp
    BY <1>1, <1>2 DEF DpActive
  <1>4. DpActive("read", c) <=> c.pin # NoPin /\ c.dp
    BY <1>1 DEF DpActive, DpSvid
  <1>5. ASSUME c.dp, c.pin # NoPin PROVE Altmode(kind, c) = Altmode("read", c)
    <2>1. DpActive(kind, c) = DpActive("read", c)
      BY <1>3, <1>4 DEF DpActive, DpSvid
    <2>2. (c.hpd /\ (c.dp \/ kind # "sc8280xp")) = (c.hpd /\ (c.dp \/ "read" # "sc8280xp"))
      BY <1>5
    <2> HIDE DEF DpActive
    <2> QED
      BY <2>1, <2>2 DEF Altmode
  <1> QED
    BY <1>3, <1>4, <1>5

LEMMA Applies ==
  ASSUME NEW c \in Conns, NEW kind,
         kind \in {"sc8280xp", "read"} \/ (kind = "sc8180x" /\ c.dp = (c.mux = 2)),
         Apply(kind, c)
  PROVE  /\ cached_altmode_valid' = TRUE
         /\ Tells(cached_altmode', c)
         /\ SbuFollows'
  <1>1. cached_altmode' = Altmode(kind, c) /\ cached_altmode_valid' = TRUE
        /\ sbu' = Routed(TypecState(kind, c), Altmode(kind, c).pin)
    BY DEF Apply, Cached
  <1>2. Altmode(kind, c).dp = DpActive(kind, c)
    BY DEF Altmode
  <1>3. DpActive(kind, c) \in BOOLEAN /\ DpActive("read", c) \in BOOLEAN
    BY DEF DpActive
  <1>4. Tells(cached_altmode', c)
    BY <1>1, <1>2, <1>3, Decodes DEF Tells
  <1>5. (TypecState(kind, c) = "dp") = DpActive(kind, c)
    BY <1>3 DEF TypecState
  <1>6. SbuFollows'
    BY <1>1, <1>2, <1>3, <1>5 DEF SbuFollows, Routed
  <1> QED
    BY <1>1, <1>4, <1>6

LEMMA TailSeq ==
  ASSUME NEW S, NEW s \in Seq(S), s # <<>>
  PROVE  /\ Tail(s) \in Seq(S) /\ Head(s) \in S /\ 1 \in DOMAIN s /\ Head(s) = s[1]
         /\ \A k \in DOMAIN Tail(s) : k + 1 \in DOMAIN s /\ Tail(s)[k] = s[k + 1]
         /\ \A k \in DOMAIN s : k = 1 \/ (k - 1 \in DOMAIN Tail(s) /\ Tail(s)[k - 1] = s[k])
         /\ DOMAIN Tail(s) \subseteq Nat /\ DOMAIN s \subseteq Nat
  <1>1. /\ Head(s) \in S /\ Tail(s) \in Seq(S) /\ Len(Tail(s)) = Len(s) - 1
        /\ \A i \in 1 .. Len(Tail(s)) : Tail(s)[i] = s[i + 1]
    BY HeadTailProperties
  <1>2. /\ Len(s) \in Nat /\ DOMAIN s = 1 .. Len(s)
        /\ DOMAIN Tail(s) = 1 .. Len(Tail(s)) /\ Len(s) # 0
    BY <1>1, LenProperties, EmptySeq
  <1> QED
    BY <1>1, <1>2

LEMMA AppendSeq ==
  ASSUME NEW S, NEW s \in Seq(S), NEW e \in S
  PROVE  /\ Append(s, e) \in Seq(S)
         /\ \A k \in DOMAIN s : k \in DOMAIN Append(s, e) /\ Append(s, e)[k] = s[k]
         /\ \E l \in DOMAIN Append(s, e) :
              /\ Append(s, e)[l] = e
              /\ \A k \in DOMAIN s : k < l
              /\ \A k \in DOMAIN Append(s, e) : k = l \/ k \in DOMAIN s
  <1>1. /\ Append(s, e) \in Seq(S) /\ Len(Append(s, e)) = Len(s) + 1
        /\ \A i \in 1 .. Len(s) : Append(s, e)[i] = s[i]
        /\ Append(s, e)[Len(s) + 1] = e
    BY AppendProperties
  <1>2. /\ Len(s) \in Nat /\ DOMAIN s = 1 .. Len(s)
        /\ DOMAIN Append(s, e) = 1 .. Len(s) + 1
    BY <1>1, LenProperties
  <1>3. Len(s) + 1 \in DOMAIN Append(s, e)
    BY <1>2
  <1>4. \A k \in DOMAIN s : k < Len(s) + 1
    BY <1>2
  <1>5. \A k \in DOMAIN Append(s, e) : k = Len(s) + 1 \/ k \in DOMAIN s
    BY <1>2
  <1>6. \A k \in DOMAIN s : k \in DOMAIN Append(s, e) /\ Append(s, e)[k] = s[k]
    BY <1>1, <1>2
  <1> QED
    BY <1>1, <1>3, <1>4, <1>5, <1>6

-----------------------------------------------------------------------------
(* The inductive invariant. *)

LEMMA InitAltInv == Init => AltInv
  <1> SUFFICES ASSUME Init PROVE AltInv
    OBVIOUS
  <1>1. <<>> \in Seq(Message) /\ <<>> \in Seq({"pan", "write", "read"}) /\ DOMAIN <<>> = {}
    BY EmptySeq
  <1>2. TypeOK
    <2>1. 0 \in 0 .. MaxChanges /\ 0 \in Nat
      OBVIOUS
    <2> QED
      BY <1>1, <2>1 DEF Init, TypeOK
  <1> QED
    BY <1>1, <1>2 DEF Init, AltInv, SilenceInv, FirstInv, OrderInv, ReadInv, NewsInv

(* A step of the client that takes no message and applies nothing. *)
LEMMA ClientStep ==
  ASSUME AltInv, TypeOK',
         UNCHANGED <<conn, pan, changes, overtaken, chan, cached_altmode,
                     cached_altmode_valid, sbu, usbc_read_buffer>>,
         \A k \in DOMAIN reqs : reqs[k] = "pan" => \E j \in DOMAIN reqs' : reqs'[j] = "pan",
         at' = "read" /\ usbc_read_acked' => at = "read" /\ usbc_read_acked,
         ~pan => /\ ~session_ready' /\ at' \in {"none", "pan"} /\ ~pan_acked'
                 /\ \A k \in DOMAIN reqs' : reqs'[k] = "pan"
  PROVE  AltInv'
  <1>1. SilenceInv' /\ FirstInv' /\ OrderInv' /\ ReadInv'
    BY DEF AltInv, SilenceInv, FirstInv, OrderInv, News, ReadInv, Tells
  <1>2. NewsInv'
    BY DEF AltInv, NewsInv, News, Tells
  <1>3. (cached_altmode_valid => SbuFollows)'
    BY DEF AltInv, SbuFollows
  <1> QED
    BY <1>1, <1>2, <1>3 DEF AltInv

LEMMA TypeFacts ==
  AltInv => /\ TypeOK /\ chan \in Seq(Message) /\ reqs \in Seq({"pan", "write", "read"})
            /\ conn \in Conns /\ depth \in Nat
  BY DEF AltInv, TypeOK

LEMMA WaitsInv ==
  ASSUME AltInv, nested_done \/ nested_times_out \/ wait_times_out \/ poll_done
                 \/ open_pan \/ open_done \/ call_start \/ dfp_polled
  PROVE  AltInv'
  <1>0. TypeOK /\ SilenceInv
    BY DEF AltInv
  <1>1. CASE nested_done
    <2>1. TypeOK'
      BY <1>0, <1>1 DEF nested_done, TypeOK, adsp, link
    <2> QED
      BY <1>0, <1>1, <2>1, ClientStep DEF nested_done, adsp, link, cache, SilenceInv
  <1>2. CASE nested_times_out
    <2>1. TypeOK'
      BY <1>0, <1>2 DEF nested_times_out, TypeOK, adsp, link
    <2> QED
      BY <1>0, <1>2, <2>1, ClientStep DEF nested_times_out, adsp, link, cache, SilenceInv
  <1>3. CASE wait_times_out
    <2>1. TypeOK'
      BY <1>0, <1>3 DEF wait_times_out, TypeOK, adsp, link, Return
    <2> QED
      BY <1>0, <1>3, <2>1, ClientStep DEF wait_times_out, adsp, link, cache, SilenceInv, Return
  <1>4. CASE poll_done
    <2>1. TypeOK'
      BY <1>0, <1>4 DEF poll_done, TypeOK, adsp, link, Keep
    <2> QED
      BY <1>0, <1>4, <2>1, ClientStep DEF poll_done, adsp, link, cache, SilenceInv, Keep
  <1>5. CASE open_pan
    <2>1. TypeOK'
      BY <1>0, <1>5 DEF open_pan, TypeOK, adsp, link, Keep
    <2> QED
      BY <1>0, <1>5, <2>1, ClientStep DEF open_pan, adsp, link, cache, SilenceInv, Keep
  <1>6. CASE open_done
    <2>1. TypeOK'
      BY <1>0, <1>6 DEF open_done, TypeOK, adsp, link, Keep, Return
    <2> QED
      BY <1>0, <1>6, <2>1, ClientStep
         DEF open_done, adsp, link, cache, SilenceInv, Keep, Return, Waits
  <1>7. CASE call_start
    <2>1. TypeOK'
      BY <1>0, <1>7 DEF call_start, TypeOK, adsp, link
    <2> QED
      BY <1>0, <1>7, <2>1, ClientStep DEF call_start, adsp, link, cache, SilenceInv
  <1>8. CASE dfp_polled
    <2>1. TypeOK'
      BY <1>0, <1>8 DEF dfp_polled, TypeOK, adsp, link, Keep, Return
    <2> QED
      BY <1>0, <1>8, <2>1, ClientStep
         DEF dfp_polled, adsp, link, cache, SilenceInv, Keep, Return, Waits
  <1> QED
    BY <1>1, <1>2, <1>3, <1>4, <1>5, <1>6, <1>7, <1>8

(* A request is sent. *)
LEMMA Asks ==
  ASSUME AltInv, NEW r \in {"pan", "write", "read"}, reqs' = Append(reqs, r)
  PROVE  /\ reqs' \in Seq({"pan", "write", "read"})
         /\ \A k \in DOMAIN reqs : reqs[k] = "pan" => \E j \in DOMAIN reqs' : reqs'[j] = "pan"
         /\ r = "pan" => \E j \in DOMAIN reqs' : reqs'[j] = "pan"
         /\ r = "pan" /\ (\A k \in DOMAIN reqs : reqs[k] = "pan")
               => \A k \in DOMAIN reqs' : reqs'[k] = "pan"
  BY TypeFacts, AppendSeq

LEMMA AskInv ==
  ASSUME AltInv, get_polled \/ get_selected
  PROVE  AltInv'
  <1>0. TypeOK /\ SilenceInv
    BY DEF AltInv
  <1>1. CASE get_polled
    <2>0. /\ UNCHANGED <<conn, pan, changes, overtaken, calls, lates, chan, session_ready, depth,
                         usbc_read_acked, usbc_read_buffer, cached_altmode,
                         cached_altmode_valid, sbu>>
          /\ at = "polled" /\ at' \in {"none", "sel"} /\ call' \in {"none", "get"}
      BY <1>1 DEF get_polled, Keep, adsp, cache, Return, Waits
    <2>1. /\ reqs' \in Seq({"pan", "write", "read"})
          /\ \A k \in DOMAIN reqs : reqs[k] = "pan" => \E j \in DOMAIN reqs' : reqs'[j] = "pan"
      <3>1. reqs' = reqs \/ reqs' = Append(reqs, "write")
        BY <1>1 DEF get_polled
      <3> QED
        BY <3>1, Asks, TypeFacts
    <2>2. TypeOK'
      BY <1>0, <2>0, <2>1 DEF TypeOK
    <2>3. pan
      BY <1>0, <2>0 DEF SilenceInv
    <2> QED
      BY <2>0, <2>1, <2>2, <2>3, ClientStep
  <1>2. CASE get_selected
    <2>0. /\ UNCHANGED <<conn, pan, changes, overtaken, chan, call, session_ready, depth,
                         usbc_read_buffer, cached_altmode, cached_altmode_valid, sbu>>
          /\ at = "sel" /\ at' = "read" /\ usbc_read_acked' = FALSE
          /\ reqs' = Append(reqs, "read")
      BY <1>2 DEF get_selected, Keep, adsp, cache, Waits
    <2>1. TypeOK'
      BY <1>0, <2>0, Asks DEF TypeOK
    <2>2. pan
      BY <1>0, <2>0 DEF SilenceInv
    <2> QED
      BY <2>0, <2>1, <2>2, Asks, ClientStep
  <1> QED
    BY <1>1, <1>2

LEMMA OpenStartInv == AltInv /\ open_start => AltInv'
  <1> SUFFICES ASSUME AltInv, open_start PROVE AltInv'
    OBVIOUS
  <1>0. /\ UNCHANGED <<conn, pan, changes, overtaken, depth, session_ready, cached_altmode,
                       cached_altmode_valid, sbu>>
        /\ usbc_read_acked' = FALSE /\ usbc_read_buffer' = {} /\ chan' = <<>>
        /\ reqs' = <<"pan">> \/ reqs' = Append(reqs, "pan")
        /\ call' = "open" /\ at' = "pan" /\ pan_acked' = FALSE /\ ~session_ready
    BY DEF open_start, Saved, adsp
  <1>1. chan' \in Seq(Message) /\ DOMAIN chan' = {}
    BY <1>0, EmptySeq
  <1>2. /\ reqs' \in Seq({"pan", "write", "read"}) /\ \E j \in DOMAIN reqs' : reqs'[j] = "pan"
        /\ ~pan => \A k \in DOMAIN reqs' : reqs'[k] = "pan"
    <2>1. CASE reqs' = <<"pan">>
      <3>1. /\ <<"pan">> \in Seq({"pan", "write", "read"}) /\ DOMAIN <<"pan">> = {1}
            /\ <<"pan">>[1] = "pan"
        OBVIOUS
      <3> QED
        BY <2>1, <3>1
    <2>2. ~pan => \A k \in DOMAIN reqs : reqs[k] = "pan"
      BY DEF AltInv, SilenceInv
    <2> QED
      BY <1>0, <2>1, <2>2, Asks
  <1>3. TypeOK'
    BY <1>0, <1>1, <1>2 DEF AltInv, TypeOK
  <1>4. SilenceInv' /\ FirstInv' /\ OrderInv' /\ ReadInv'
    BY <1>0, <1>1, <1>2 DEF AltInv, SilenceInv, FirstInv, OrderInv, ReadInv, Tells
  <1>5. NewsInv'
    BY <1>2 DEF NewsInv
  <1>6. (cached_altmode_valid => SbuFollows)'
    BY <1>0 DEF AltInv, SbuFollows
  <1> QED
    BY <1>3, <1>4, <1>5, <1>6 DEF AltInv

-----------------------------------------------------------------------------
(* A message is taken from the channel. *)
LEMMA Takes ==
  ASSUME AltInv, chan # <<>>, chan' = Tail(chan), UNCHANGED conn
  PROVE  /\ chan' \in Seq(Message) /\ Head(chan) \in Message
         /\ OrderInv'
         /\ changes = 0 => Head(chan).conn = conn /\ \A k \in DOMAIN chan' : chan'[k].conn = conn
         /\ Head(chan).conn = conn \/ \E k \in DOMAIN chan' : News(k)'
         /\ Head(chan).type # "notify" /\ (\E k \in DOMAIN chan : News(k))
               => \E k \in DOMAIN chan' : News(k)'
         /\ ~overtaken => /\ Head(chan).type = "read" => Head(chan).conn = conn
                          /\ \A k \in DOMAIN chan' : chan'[k].type = "read" => chan'[k].conn = conn
         /\ pan
  <1>1. /\ chan' \in Seq(Message) /\ Head(chan) \in Message /\ 1 \in DOMAIN chan
        /\ Head(chan) = chan[1]
        /\ \A k \in DOMAIN chan' : k + 1 \in DOMAIN chan /\ chan'[k] = chan[k + 1]
        /\ \A k \in DOMAIN chan : k = 1 \/ (k - 1 \in DOMAIN chan' /\ chan'[k - 1] = chan[k])
        /\ DOMAIN chan \subseteq Nat /\ DOMAIN chan' \subseteq Nat
    BY TypeFacts, TailSeq
  <1>2. OrderInv /\ FirstInv /\ ReadInv /\ SilenceInv
    BY DEF AltInv
  <1>3. OrderInv'
    <2> SUFFICES ASSUME NEW k \in DOMAIN chan', chan'[k].conn # conn
                 PROVE  \E j \in DOMAIN chan' : k < j /\ chan'[j].type = "notify"
      BY DEF OrderInv, News
    <2>1. k + 1 \in DOMAIN chan /\ chan[k + 1].conn # conn
      BY <1>1
    <2>2. PICK j \in DOMAIN chan : k + 1 < j /\ chan[j].type = "notify"
      BY <1>2, <2>1 DEF OrderInv, News
    <2>3. j # 1 /\ k < j - 1
      BY <1>1, <2>2
    <2> QED
      BY <1>1, <2>2, <2>3
  <1>4. Head(chan).conn = conn \/ \E k \in DOMAIN chan' : News(k)'
    <2> SUFFICES ASSUME chan[1].conn # conn
                 PROVE  \E k \in DOMAIN chan' : chan'[k].type = "notify"
      BY <1>1 DEF News
    <2>1. PICK j \in DOMAIN chan : 1 < j /\ chan[j].type = "notify"
      BY <1>1, <1>2 DEF OrderInv, News
    <2>2. j # 1
      BY <2>1
    <2> QED
      BY <1>1, <2>1, <2>2
  <1>5. Head(chan).type # "notify" /\ (\E k \in DOMAIN chan : News(k))
               => \E k \in DOMAIN chan' : News(k)'
    BY <1>1 DEF News
  <1>6. changes = 0 => Head(chan).conn = conn /\ \A k \in DOMAIN chan' : chan'[k].conn = conn
    BY <1>1, <1>2 DEF FirstInv
  <1>7. ~overtaken => /\ Head(chan).type = "read" => Head(chan).conn = conn
                      /\ \A k \in DOMAIN chan' : chan'[k].type = "read" => chan'[k].conn = conn
    BY <1>1, <1>2 DEF ReadInv
  <1>8. pan
    BY <1>2 DEF SilenceInv
  <1> QED
    BY <1>1, <1>3, <1>4, <1>5, <1>6, <1>7, <1>8

LEMMA NotifyInv == AltInv /\ rx_notify => AltInv'
  <1> SUFFICES ASSUME AltInv, rx_notify PROVE AltInv'
    OBVIOUS
  <1> DEFINE m == Head(chan)
  <1>0. /\ UNCHANGED <<conn, pan, changes, overtaken, session_ready, call, at, usbc_read_acked,
                       usbc_read_buffer>>
        /\ chan # <<>> /\ m.type = "notify" /\ chan' = Tail(chan)
        /\ Apply(m.kind, m.conn)
        /\ pan_acked' = FALSE /\ reqs' = Append(reqs, "write") /\ depth' = depth + 1
    BY DEF rx_notify, Receives, adsp
  <1>1. m \in Message
    BY <1>0, Takes
  <1>2. /\ m.conn \in Conns
        /\ m.kind \in {"sc8280xp", "read"}
             \/ (m.kind = "sc8180x" /\ m.conn.dp = (m.conn.mux = 2))
    BY <1>0, <1>1 DEF Message
  <1>3. cached_altmode_valid' = TRUE /\ Tells(cached_altmode', m.conn) /\ SbuFollows'
    BY <1>0, <1>2, Applies
  <1>4. TypeOK'
    BY <1>0, Takes, Asks DEF AltInv, TypeOK
  <1>5. SilenceInv' /\ OrderInv'
    BY <1>0, Takes DEF SilenceInv
  <1>6. FirstInv'
    BY <1>0, <1>3, Takes DEF AltInv, FirstInv
  <1>7. ReadInv'
    BY <1>0, Takes DEF AltInv, ReadInv
  <1>8. NewsInv'
    BY <1>0, <1>3, Takes DEF NewsInv
  <1> QED
    BY <1>3, <1>4, <1>5, <1>6, <1>7, <1>8 DEF AltInv

LEMMA WriteAckInv == AltInv /\ rx_write_ack => AltInv'
  <1> SUFFICES ASSUME AltInv, rx_write_ack PROVE AltInv'
    OBVIOUS
  <1>0. /\ UNCHANGED <<conn, pan, changes, overtaken, reqs, session_ready, call, at, depth,
                       usbc_read_acked, usbc_read_buffer, cached_altmode, cached_altmode_valid,
                       sbu>>
        /\ chan # <<>> /\ Head(chan).type = "write" /\ chan' = Tail(chan)
    BY DEF rx_write_ack, Receives, adsp, cache
  <1>1. TypeOK'
    BY <1>0, Takes DEF AltInv, TypeOK
  <1>2. SilenceInv' /\ OrderInv'
    BY <1>0, Takes DEF SilenceInv
  <1>3. FirstInv' /\ ReadInv'
    BY <1>0, Takes DEF AltInv, FirstInv, ReadInv, Tells
  <1>4. NewsInv'
    BY <1>0, Takes DEF AltInv, NewsInv, Tells
  <1>5. (cached_altmode_valid => SbuFollows)'
    BY <1>0 DEF AltInv, SbuFollows
  <1> QED
    BY <1>1, <1>2, <1>3, <1>4, <1>5 DEF AltInv

LEMMA RxReadInv == AltInv /\ rx_read => AltInv'
  <1> SUFFICES ASSUME AltInv, rx_read PROVE AltInv'
    OBVIOUS
  <1>0. /\ UNCHANGED <<conn, pan, changes, overtaken, reqs, session_ready, call, at, depth,
                       pan_acked, cached_altmode, cached_altmode_valid, sbu>>
        /\ chan # <<>> /\ Head(chan).type = "read" /\ chan' = Tail(chan)
        /\ usbc_read_buffer' = {Head(chan).conn}
    BY DEF rx_read, Receives, adsp, cache
  <1>1. TypeOK'
    <2>1. Head(chan).conn \in Conns
      BY <1>0, Takes DEF Message
    <2> QED
      BY <1>0, <2>1, Takes DEF AltInv, TypeOK
  <1>2. SilenceInv' /\ OrderInv'
    BY <1>0, Takes DEF SilenceInv
  <1>3. FirstInv' /\ ReadInv'
    BY <1>0, Takes DEF AltInv, FirstInv, ReadInv, Tells
  <1>4. NewsInv'
    BY <1>0, Takes DEF AltInv, NewsInv, Tells
  <1>5. (cached_altmode_valid => SbuFollows)'
    BY <1>0 DEF AltInv, SbuFollows
  <1> QED
    BY <1>1, <1>2, <1>3, <1>4, <1>5 DEF AltInv

(* The answer to a READ is applied. *)
LEMMA GetReadInv == AltInv /\ get_read => AltInv'
  <1> SUFFICES ASSUME AltInv, get_read PROVE AltInv'
    OBVIOUS
  <1>0. /\ UNCHANGED <<conn, pan, changes, overtaken, reqs, chan, session_ready, depth,
                       pan_acked, usbc_read_acked, usbc_read_buffer>>
        /\ at = "read" /\ usbc_read_acked /\ call' = "none" /\ at' = "none"
    BY DEF get_read, Waits, Return, Keep, adsp, link
  <1>1. TypeOK'
    BY <1>0 DEF AltInv, TypeOK
  <1>2. ASSUME NEW c \in usbc_read_buffer, Apply("read", c) PROVE AltInv'
    <2>1. c \in Conns
      BY DEF AltInv, TypeOK
    <2>2. cached_altmode_valid' = TRUE /\ Tells(cached_altmode', c) /\ SbuFollows'
      BY <1>2, <2>1, Applies
    <2>3. SilenceInv' /\ OrderInv'
      BY <1>0 DEF AltInv, SilenceInv, OrderInv, News
    <2>4. FirstInv' /\ ReadInv'
      BY <1>0, <2>2 DEF AltInv, FirstInv, ReadInv
    <2>5. ~overtaken => c = conn
      BY <1>0 DEF AltInv, ReadInv
    <2>6. NewsInv'
      BY <1>0, <2>2, <2>5 DEF NewsInv
    <2> QED
      BY <1>1, <2>2, <2>3, <2>4, <2>6 DEF AltInv
  <1>3. CASE UNCHANGED cache
    <2>1. UNCHANGED <<cached_altmode, cached_altmode_valid, sbu>>
      BY <1>3 DEF cache
    <2>2. SilenceInv' /\ OrderInv' /\ FirstInv' /\ ReadInv' /\ NewsInv'
      BY <1>0, <2>1 DEF AltInv, SilenceInv, OrderInv, FirstInv, ReadInv, NewsInv, News
    <2>3. cached_altmode_valid' => SbuFollows'
      BY <2>1 DEF AltInv, SbuFollows
    <2> QED
      BY <1>1, <2>2, <2>3 DEF AltInv
  <1> QED
    BY <1>2, <1>3 DEF get_read

-----------------------------------------------------------------------------
(* The ADSP.  A message about the connector as it is comes last. *)
LEMMA Sends ==
  ASSUME AltInv, NEW m \in Message, chan' = Append(chan, m), m.conn = conn'
  PROVE  /\ chan' \in Seq(Message)
         /\ m.type = "notify" \/ UNCHANGED conn => OrderInv'
         /\ (\A k \in DOMAIN chan : chan[k].conn = conn') => \A k \in DOMAIN chan' : chan'[k].conn = conn'
         /\ (\E k \in DOMAIN chan : News(k)) \/ m.type = "notify" => \E k \in DOMAIN chan' : News(k)'
         /\ (\A k \in DOMAIN chan : chan[k].type = "read" => chan[k].conn = conn')
               => \A k \in DOMAIN chan' : chan'[k].type = "read" => chan'[k].conn = conn'
  <1>1. /\ chan' \in Seq(Message)
        /\ \A k \in DOMAIN chan : k \in DOMAIN chan' /\ chan'[k] = chan[k]
    BY TypeFacts, AppendSeq
  <1>2. PICK l \in DOMAIN chan' : /\ chan'[l] = m
                                  /\ \A k \in DOMAIN chan : k < l
                                  /\ \A k \in DOMAIN chan' : k = l \/ k \in DOMAIN chan
    BY TypeFacts, AppendSeq
  <1>3. m.type = "notify" \/ UNCHANGED conn => OrderInv'
    <2> SUFFICES ASSUME m.type = "notify" \/ UNCHANGED conn,
                        NEW k \in DOMAIN chan', chan'[k].conn # conn'
                 PROVE  \E j \in DOMAIN chan' : k < j /\ chan'[j].type = "notify"
      BY DEF OrderInv, News
    <2>1. k \in DOMAIN chan /\ k < l
      BY <1>2
    <2>2. CASE m.type = "notify"
      BY <1>2, <2>1, <2>2
    <2>3. CASE UNCHANGED conn
      <3>1. PICK j \in DOMAIN chan : k < j /\ chan[j].type = "notify"
        BY <1>1, <2>1, <2>3 DEF AltInv, OrderInv, News
      <3> QED
        BY <1>1, <3>1
    <2> QED
      BY <2>2, <2>3
  <1> QED
    BY <1>1, <1>2, <1>3 DEF News

LEMMA ConnChangesInv == AltInv /\ ConnChanges => AltInv'
  <1> SUFFICES ASSUME AltInv, ConnChanges PROVE AltInv'
    OBVIOUS
  <1>0. /\ UNCHANGED <<pan, reqs, session_ready, call, at, depth, pan_acked, usbc_read_acked,
                       usbc_read_buffer, cached_altmode, cached_altmode_valid, sbu>>
        /\ changes < MaxChanges /\ changes' = changes + 1 /\ conn' \in Conns
        /\ overtaken' = (overtaken \/ Reading)
    BY DEF ConnChanges, cache
  <1>t. TypeOK /\ SilenceInv /\ OrderInv /\ ReadInv
    BY DEF AltInv
  <1>1. changes' \in 0 .. MaxChanges /\ changes' # 0
    BY <1>0, <1>t DEF TypeOK
  <1>2. CASE ~pan
    <2>1. chan' = chan /\ chan = <<>> /\ ~cached_altmode_valid /\ DOMAIN chan = {}
          /\ usbc_read_buffer = {}
      BY <1>2, <1>t DEF ConnChanges, SilenceInv
    <2>2. TypeOK'
      BY <1>0, <1>1, <1>t, <2>1 DEF TypeOK
    <2> QED
      BY <1>0, <1>1, <1>t, <2>1, <2>2
         DEF AltInv, SilenceInv, FirstInv, OrderInv, ReadInv, NewsInv
  <1>3. CASE pan
    <2>1. PICK k \in {"sc8280xp", "sc8180x"} :
            /\ k = "sc8180x" => conn'.dp = (conn'.mux = 2)
            /\ chan' = Append(chan, [type |-> "notify", kind |-> k, conn |-> conn'])
      BY <1>3 DEF ConnChanges
    <2> DEFINE m == [type |-> "notify", kind |-> k, conn |-> conn']
    <2>2. m \in Message /\ m.conn = conn' /\ m.type = "notify"
      BY <1>0, <2>1 DEF Message, Types, Kinds
    <2>3. /\ chan' = Append(chan, m) /\ chan' \in Seq(Message) /\ OrderInv'
          /\ \E j \in DOMAIN chan' : News(j)'
      BY <2>1, <2>2, Sends
    <2>4. ReadInv'
      <3> SUFFICES ASSUME ~overtaken' PROVE ReadInv'
        BY DEF ReadInv
      <3>1. at # "read" /\ \A j \in DOMAIN chan : chan[j].type # "read"
        BY <1>0 DEF Reading
      <3>2. \A j \in DOMAIN chan' : chan'[j].type = "read" => chan'[j].conn = conn'
        BY <2>2, <2>3, <3>1, Sends
      <3> QED
        BY <1>0, <3>1, <3>2 DEF ReadInv
    <2>5. TypeOK'
      BY <1>0, <1>1, <1>t, <2>3 DEF TypeOK
    <2>6. SilenceInv' /\ FirstInv' /\ NewsInv'
      BY <1>0, <1>1, <1>3, <2>3 DEF SilenceInv, FirstInv, NewsInv
    <2>7. (cached_altmode_valid => SbuFollows)'
      BY <1>0 DEF AltInv, SbuFollows
    <2> QED
      BY <2>3, <2>4, <2>5, <2>6, <2>7 DEF AltInv
  <1> QED
    BY <1>2, <1>3

(* The ADSP sends some messages about the connector as it is. *)
LEMMA Replies ==
  ASSUME AltInv, UNCHANGED conn,
         NEW t \in Seq(Message), \A k \in DOMAIN t : t[k].conn = conn,
         chan' = chan \o t
  PROVE  /\ chan' \in Seq(Message)
         /\ OrderInv'
         /\ changes = 0 => \A k \in DOMAIN chan' : chan'[k].conn = conn
         /\ ~overtaken => \A k \in DOMAIN chan' : chan'[k].type = "read" => chan'[k].conn = conn
         /\ (\E k \in DOMAIN chan : News(k)) => \E k \in DOMAIN chan' : News(k)'
         /\ (\E k \in DOMAIN t : t[k].type = "notify") => \E k \in DOMAIN chan' : News(k)'
  <1>0. chan \in Seq(Message) /\ OrderInv /\ ReadInv /\ FirstInv
    BY TypeFacts DEF AltInv
  <1>1. /\ chan' \in Seq(Message) /\ Len(chan') = Len(chan) + Len(t)
        /\ \A i \in 1 .. Len(chan) + Len(t) :
              chan'[i] = IF i <= Len(chan) THEN chan[i] ELSE t[i - Len(chan)]
    BY <1>0, ConcatProperties
  <1>2. /\ Len(chan) \in Nat /\ Len(t) \in Nat /\ DOMAIN chan = 1 .. Len(chan)
        /\ DOMAIN t = 1 .. Len(t) /\ DOMAIN chan' = 1 .. Len(chan) + Len(t)
    BY <1>0, <1>1, LenProperties
  <1>3. \A k \in DOMAIN chan : k \in DOMAIN chan' /\ chan'[k] = chan[k]
    BY <1>1, <1>2
  <1>4. \A k \in DOMAIN t : Len(chan) + k \in DOMAIN chan' /\ chan'[Len(chan) + k] = t[k]
    BY <1>1, <1>2
  <1>5. ASSUME NEW k \in DOMAIN chan', k \notin DOMAIN chan PROVE chan'[k].conn = conn
    <2>1. k - Len(chan) \in DOMAIN t /\ chan'[k] = t[k - Len(chan)]
      BY <1>1, <1>2, <1>5
    <2> QED
      BY <2>1
  <1>6. OrderInv'
    <2> SUFFICES ASSUME NEW k \in DOMAIN chan', chan'[k].conn # conn
                 PROVE  \E j \in DOMAIN chan' : k < j /\ chan'[j].type = "notify"
      BY DEF OrderInv, News
    <2>1. k \in DOMAIN chan
      BY <1>5
    <2>2. PICK j \in DOMAIN chan : k < j /\ chan[j].type = "notify"
      BY <1>0, <1>3, <2>1 DEF OrderInv, News
    <2> QED
      BY <1>3, <2>2
  <1>7. changes = 0 => \A k \in DOMAIN chan' : chan'[k].conn = conn
    BY <1>0, <1>3, <1>5 DEF FirstInv
  <1>8. ~overtaken => \A k \in DOMAIN chan' : chan'[k].type = "read" => chan'[k].conn = conn
    BY <1>0, <1>3, <1>5 DEF ReadInv
  <1>9. (\E k \in DOMAIN chan : News(k)) => \E k \in DOMAIN chan' : News(k)'
    BY <1>3 DEF News
  <1>10. (\E k \in DOMAIN t : t[k].type = "notify") => \E k \in DOMAIN chan' : News(k)'
    BY <1>4 DEF News
  <1> QED
    BY <1>1, <1>6, <1>7, <1>8, <1>9, <1>10

(* What one answer, or the answer to PAN_EN with news, adds. *)
LEMMA OneOrTwo ==
  ASSUME NEW c \in Conns,
         NEW a \in Message, a.conn = c, NEW b \in Message, b.conn = c
  PROVE  /\ <<a>> \in Seq(Message) /\ \A k \in DOMAIN <<a>> : <<a>>[k].conn = c
         /\ \A s \in Seq(Message) : Append(s, a) = s \o <<a>>
         /\ <<a, b>> \in Seq(Message) /\ \A k \in DOMAIN <<a, b>> : <<a, b>>[k].conn = c
         /\ a.type = "notify" \/ b.type = "notify"
               => \E k \in DOMAIN <<a, b>> : <<a, b>>[k].type = "notify"
  <1>1. DOMAIN <<a>> = {1} /\ <<a>>[1] = a /\ <<a>> \in Seq(Message)
    OBVIOUS
  <1>2. DOMAIN <<a, b>> = {1, 2} /\ <<a, b>>[1] = a /\ <<a, b>>[2] = b /\ <<a, b>> \in Seq(Message)
    OBVIOUS
  <1>3. \A s \in Seq(Message) : Append(s, a) = s \o <<a>>
    BY AppendIsConcat
  <1>4. \A k \in DOMAIN <<a, b>> : <<a, b>>[k].conn = c
    BY <1>2
  <1>5. a.type = "notify" \/ b.type = "notify"
               => \E k \in DOMAIN <<a, b>> : <<a, b>>[k].type = "notify"
    BY <1>2
  <1> QED
    BY <1>1, <1>2, <1>3, <1>4, <1>5

LEMMA AdspAnswersInv == AltInv /\ AdspAnswers => AltInv'
  <1> SUFFICES ASSUME AltInv, AdspAnswers PROVE AltInv'
    OBVIOUS
  <1> DEFINE ans(t) == [type |-> t, kind |-> t, conn |-> conn]
             news == [type |-> "notify", kind |-> "sc8280xp", conn |-> conn]
             NoPan == \A k \in DOMAIN reqs : reqs[k] = "pan"
                         => \E j \in DOMAIN reqs' : reqs'[j] = "pan"
  <1>0. /\ UNCHANGED <<conn, changes, overtaken, session_ready, call, at, depth, pan_acked,
                       usbc_read_acked, usbc_read_buffer, cached_altmode, cached_altmode_valid,
                       sbu>>
        /\ reqs # <<>> /\ reqs' = Tail(reqs)
    BY DEF AdspAnswers, cache
  <1>t. TypeOK /\ SilenceInv /\ FirstInv /\ ReadInv /\ NewsInv /\ conn \in Conns
        /\ chan \in Seq(Message)
    BY TypeFacts DEF AltInv
  <1>1. reqs' \in Seq({"pan", "write", "read"}) /\ (Head(reqs) # "pan" => NoPan)
    <2>1. /\ reqs' \in Seq({"pan", "write", "read"}) /\ Head(reqs) = reqs[1]
          /\ \A k \in DOMAIN reqs : k = 1 \/ (k - 1 \in DOMAIN reqs' /\ reqs'[k - 1] = reqs[k])
      BY <1>0, TypeFacts, TailSeq
    <2> QED
      BY <2>1
  <1>2. ans("read") \in Message /\ ans("write") \in Message /\ news \in Message
        /\ ans("read").conn = conn /\ ans("write").conn = conn /\ news.conn = conn
        /\ news.type = "notify"
    BY <1>t DEF Message, Types, Kinds
  <1>3. ASSUME NEW t \in Seq(Message), \A k \in DOMAIN t : t[k].conn = conn, chan' = chan \o t,
               pan', NoPan \/ Silent \/ \E k \in DOMAIN t : t[k].type = "notify"
        PROVE  AltInv'
    <2>1. TypeOK'
      BY <1>0, <1>1, <1>3, <1>t, Replies DEF TypeOK
    <2>2. SilenceInv' /\ OrderInv'
      BY <1>0, <1>3, Replies DEF SilenceInv
    <2>3. FirstInv'
      BY <1>0, <1>3, <1>t, Replies DEF FirstInv, Tells
    <2>4. ReadInv'
      BY <1>0, <1>3, <1>t, Replies DEF ReadInv
    <2>5. NewsInv'
      <3> SUFFICES ASSUME cached_altmode_valid, ~overtaken,
                          ~(\E k \in DOMAIN chan' : News(k)'),
                          ~(\E k \in DOMAIN reqs' : reqs'[k] = "pan")
                   PROVE  Tells(cached_altmode, conn)
        BY <1>0 DEF NewsInv, Tells
      <3>1. ~(\E k \in DOMAIN chan : News(k)) /\ ~(\E k \in DOMAIN t : t[k].type = "notify")
        BY <1>0, <1>3, Replies
      <3>2. CASE NoPan
        BY <1>t, <3>1, <3>2 DEF NewsInv
      <3>3. CASE Silent
        BY <1>t, <3>3 DEF FirstInv, Silent
      <3> QED
        BY <1>3, <3>1, <3>2, <3>3
    <2>6. (cached_altmode_valid => SbuFollows)'
      BY <1>0 DEF AltInv, SbuFollows
    <2> QED
      BY <2>1, <2>2, <2>3, <2>4, <2>5, <2>6 DEF AltInv
  <1>4. CASE Head(reqs) \in {"read", "write"}
    <2>1. PICK a \in {ans("read"), ans("write")} : chan' = Append(chan, a) /\ pan' = pan
      BY <1>4 DEF AdspAnswers
    <2>2. pan'
      <3>1. Head(reqs) = reqs[1] /\ 1 \in DOMAIN reqs
        BY <1>0, TypeFacts, TailSeq
      <3> QED
        BY <1>4, <1>t, <2>1, <3>1 DEF SilenceInv
    <2>3. Head(reqs) # "pan"
      BY <1>4
    <2>4. a \in Message /\ a.conn = conn
      BY <1>2, <2>1
    <2> HIDE DEF ans
    <2>5. <<a>> \in Seq(Message) /\ (\A k \in DOMAIN <<a>> : <<a>>[k].conn = conn)
          /\ chan' = chan \o <<a>>
      BY <1>t, <2>1, <2>4, OneOrTwo
    <2> QED
      BY <1>1, <1>3, <2>2, <2>3, <2>5
  <1>5. CASE Head(reqs) = "pan"
    <2>1. /\ pan' = TRUE
          /\ \/ chan' = chan \o <<news, ans("write")>>
             \/ chan' = chan \o <<ans("write"), news>>
             \/ Silent /\ chan' = Append(chan, ans("write"))
      BY <1>5 DEF AdspAnswers
    <2> DEFINE w == ans("write")
    <2>2. w \in Message /\ news \in Message /\ w.conn = conn /\ news.conn = conn
          /\ news.type = "notify"
      BY <1>2
    <2> HIDE DEF w, news
    <2>3. /\ <<w>> \in Seq(Message) /\ \A k \in DOMAIN <<w>> : <<w>>[k].conn = conn
          /\ Append(chan, w) = chan \o <<w>>
      BY <1>t, <2>2, OneOrTwo
    <2>4. /\ <<w, news>> \in Seq(Message) /\ \A k \in DOMAIN <<w, news>> : <<w, news>>[k].conn = conn
          /\ \E k \in DOMAIN <<w, news>> : <<w, news>>[k].type = "notify"
      BY <1>t, <2>2, OneOrTwo
    <2>5. /\ <<news, w>> \in Seq(Message) /\ \A k \in DOMAIN <<news, w>> : <<news, w>>[k].conn = conn
          /\ \E k \in DOMAIN <<news, w>> : <<news, w>>[k].type = "notify"
      BY <1>t, <2>2, OneOrTwo
    <2>6. CASE chan' = chan \o <<news, w>>
      BY <1>3, <2>1, <2>5, <2>6
    <2>7. CASE chan' = chan \o <<w, news>>
      BY <1>3, <2>1, <2>4, <2>7
    <2>8. CASE Silent /\ chan' = Append(chan, w)
      BY <1>3, <2>1, <2>3, <2>8
    <2> QED
      BY <2>1, <2>6, <2>7, <2>8 DEF w
  <1>6. Head(reqs) \in {"read", "write", "pan"}
    BY <1>0, TypeFacts, TailSeq
  <1> QED
    BY <1>4, <1>5, <1>6

LEMMA UnchangedAlt == AltInv /\ UNCHANGED vars => AltInv'
  <1> SUFFICES ASSUME AltInv, UNCHANGED vars PROVE AltInv'
    OBVIOUS
  <1>1. UNCHANGED <<conn, pan, changes, overtaken, reqs, chan, session_ready, call, at, depth,
                    pan_acked, usbc_read_acked, usbc_read_buffer, cached_altmode,
                    cached_altmode_valid, sbu>>
    BY DEF vars, adsp, link, cache
  <1>2. TypeOK'
    BY <1>1 DEF AltInv, TypeOK
  <1> QED
    BY <1>1, <1>2, ClientStep DEF AltInv, SilenceInv

-----------------------------------------------------------------------------
(* The invariant behind the alt-mode cache holds for any connector states  *)
(* and any number of changes, calls and timeouts: an outdated message in   *)
(* the channel is followed by a notification (qpg_parse_pmic handles them  *)
(* in order), and an outdated cache has news on their way to it.           *)
THEOREM AltInvariant == Spec => []AltInv
  <1>1. AltInv /\ [Next]_vars => AltInv'
    BY WaitsInv, AskInv, OpenStartInv, NotifyInv, WriteAckInv, RxReadInv, GetReadInv,
       ConnChangesInv, AdspAnswersInv, UnchangedAlt DEF Next, ClientNext
  <1> QED
    BY InitAltInv, <1>1, PTL DEF Spec

(* Once every message of an open session is handled, the cached alt mode   *)
(* is the connector's, unless the connector changed while a READ was under *)
(* way, and the SBU lines follow the cached alt mode                       *)
(* (qpg_update_cached_state, qpg_apply_typec_state).                       *)
THEOREM CacheStaysFresh == Spec => []CacheIsFresh
  <1>1. AltInv => CacheIsFresh
    <2> SUFFICES ASSUME AltInv, cached_altmode_valid, Quiet, ~overtaken
                 PROVE  Tells(cached_altmode, conn)
      BY DEF CacheIsFresh, AltInv
    <2>1. DOMAIN reqs = {} /\ DOMAIN chan = {}
      BY DEF Quiet
    <2> QED
      BY <2>1 DEF AltInv, NewsInv
  <1> QED
    BY AltInvariant, <1>1, PTL
=============================================================================
